--------------------------- MODULE ScoringProofs ---------------------------
(***************************************************************************)
(* Proofs about Scoring, for any number of transactions, accounts,         *)
(* failures, restarts and replays.  The types are inductive on their own;  *)
(* on top of them each property has an invariant that follows the risk     *)
(* worker through the message it has in hand.                              *)
(*                                                                         *)
(* The last part is about the rules that compare a charge with the history *)
(* of its account.  The sums of MapThenSumSet are shown to exist and to    *)
(* add up element by element in any order, by induction over the subsets   *)
(* of a finite set; from that follow the inequalities on mean and deviation*)
(* that say how far out of a sample one of its members can lie.            *)
(***************************************************************************)
EXTENDS Scoring, WellFoundedInduction, FiniteSetTheorems, TLAPS

Merchants == {Best[t] : t \in Txns} \cup {NoMerchant}
Busy == pc # "idle"

\* A record of what compute has read, with its fields and no other.
Shaped(f) ==
    /\ f = [hour |-> f.hour, day |-> f.day, base |-> f.base, week |-> f.week,
            freq |-> f.freq, unseen |-> f.unseen]
    /\ f.unseen = [w \in Windows |-> f.unseen[w]]

\* The types, and where the message in hand is.
Types ==
    /\ posted \subseteq Txns /\ resolved \subseteq posted
    /\ topic \in Seq([txn : Txns, merchant : Merchants])
    /\ \A i \in 1 .. Len(topic) : topic[i].txn \in posted
    /\ resolving # None => resolving.txn \in posted
    /\ offset \in 0 .. Len(topic) /\ cur \in 0 .. Len(topic)
    /\ pc \in {"idle", "late", "signal", "advance"} \cup Reading
    /\ Busy => cur >= 1
    /\ attempt \in 1 .. MaxAttempts
    /\ scored \subseteq posted /\ dead \subseteq posted
    /\ DOMAIN features \subseteq {Key(t) : t \in posted}
    /\ Shaped(seen)

\* Nothing is read before the first query.
LEMMA NothingShaped == Shaped(Nothing)
  BY DEF Shaped, Nothing, Windows

\* A query of the ledger writes its own window and what it could not see.
LEMMA QueryWrites ==
    ASSUME NEW f, Shaped(f), NEW w \in {"hour", "day", "base"}, NEW q, q = Queried(f, w)
    PROVE  /\ Shaped(q)
           /\ q[w] = WindowOf(Msg.txn, w) /\ q.unseen[w] = Unseen(Msg.txn, w)
           /\ \A v \in Windows \ {w} : q[v] = f[v] /\ q.unseen[v] = f.unseen[v]
<1> DEFINE A == WindowOf(Msg.txn, w)
           B == Unseen(Msg.txn, w)
<1>1. q = [f EXCEPT ![w] = A, !.unseen[w] = B]
    BY DEF Queried
<1> HIDE DEF A, B
<1>2. q[w] = A /\ q.unseen = [f.unseen EXCEPT ![w] = B]
    BY <1>1 DEF Shaped, Windows
<1>3. \A v \in Windows \ {w} : q[v] = f[v]
    BY <1>1 DEF Shaped, Windows
<1>4. q = [hour |-> q.hour, day |-> q.day, base |-> q.base, week |-> q.week,
           freq |-> q.freq, unseen |-> q.unseen]
    BY <1>1 DEF Shaped, Windows
<1>5. q.unseen = [v \in Windows |-> q.unseen[v]] /\ q.unseen[w] = B
    BY <1>2 DEF Shaped, Windows
<1>6. \A v \in Windows \ {w} : q.unseen[v] = f.unseen[v]
    BY <1>2 DEF Shaped, Windows
<1> QED
    BY <1>2, <1>3, <1>4, <1>5, <1>6 DEF Shaped, A, B

\* The query of the normalizer's rows writes the week and what it could not see.
LEMMA EvaluateWrites ==
    ASSUME Shaped(seen), Evaluate
    PROVE  /\ Shaped(seen')
           /\ seen'.week = WeekOf(Msg.txn) /\ seen'.unseen["week"] = Unseen(Msg.txn, "week")
           /\ \A v \in Windows \ {"week"} : seen'[v] = seen[v] /\ seen'.unseen[v] = seen.unseen[v]
<1> DEFINE A == WeekOf(Msg.txn)
           B == Unseen(Msg.txn, "week")
           C == Frequency(Msg.txn, Msg.merchant)
<1>1. seen' = [seen EXCEPT !.freq = C, !.week = A, !.unseen["week"] = B]
    BY DEF Evaluate
<1> HIDE DEF A, B, C
<1>2. seen'.week = A /\ seen'.unseen = [seen.unseen EXCEPT !["week"] = B]
    BY <1>1 DEF Shaped, Windows
<1>3. \A v \in Windows \ {"week"} : seen'[v] = seen[v]
    BY <1>1 DEF Shaped, Windows
<1>4. seen' = [hour |-> seen'.hour, day |-> seen'.day, base |-> seen'.base, week |-> seen'.week,
               freq |-> seen'.freq, unseen |-> seen'.unseen]
    BY <1>1 DEF Shaped, Windows
<1>5. seen'.unseen = [v \in Windows |-> seen'.unseen[v]] /\ seen'.unseen["week"] = B
    BY <1>2 DEF Shaped, Windows
<1>6. \A v \in Windows \ {"week"} : seen'.unseen[v] = seen.unseen[v]
    BY <1>2 DEF Shaped, Windows
<1> QED
    BY <1>2, <1>3, <1>4, <1>5, <1>6 DEF Shaped, A, B

\* Every step keeps what was posted and published.
LEMMA Grows ==
    Types /\ [Next]_vars =>
       /\ posted \subseteq posted' /\ Len(topic) <= Len(topic')
       /\ \A i \in 1 .. Len(topic) : topic'[i] = topic[i]
<1> SUFFICES ASSUME Types, [Next]_vars
             PROVE  /\ posted \subseteq posted' /\ Len(topic) <= Len(topic')
                    /\ \A i \in 1 .. Len(topic) : topic'[i] = topic[i]
    OBVIOUS
<1>1. CASE \E t \in Txns : PostTransaction(t)
    BY <1>1 DEF PostTransaction
<1>2. ASSUME NEW t \in Txns, Normalize(t)
      PROVE  /\ posted \subseteq posted' /\ Len(topic) <= Len(topic')
             /\ \A i \in 1 .. Len(topic) : topic'[i] = topic[i]
  <2>1. topic' = Append(topic, resolving') /\ UNCHANGED posted
      BY <1>2 DEF Normalize
  <2> QED
      BY <2>1 DEF Types
<1>3. CASE UNCHANGED <<posted, topic>>
    BY <1>3
<1>4. CASE NormalizeCommit \/ NormalizeFails
    BY <1>3, <1>4 DEF NormalizeCommit, NormalizeFails
<1>5. CASE RiskStep
    BY <1>3, <1>5 DEF RiskStep, Take, RecordLate, Read1, Read2, Read3, Evaluate, Announce,
                      CommitWork, Advance, Fail, Restart, ledgerVars
<1>6. CASE ReplayClear \/ ReplaySeek
    BY <1>3, <1>6 DEF ReplayClear, ReplaySeek, ledgerVars
<1>7. CASE UNCHANGED vars
    BY <1>3, <1>7 DEF vars, ledgerVars
<1> QED
    BY <1>1, <1>2, <1>4, <1>5, <1>6, <1>7 DEF Next

\* The initial state is typed.
LEMMA InitTypes == Init => Types
  BY AttemptAssumption, NothingShaped DEF Init, Types, None, Busy, Key, Reading

\* The write path and the normalizer keep the types.
LEMMA LedgerTypes ==
    ASSUME Types, NEW t \in Txns,
           PostTransaction(t) \/ Normalize(t) \/ NormalizeCommit \/ NormalizeFails
    PROVE  Types'
<1>1. CASE PostTransaction(t)
    BY <1>1 DEF PostTransaction, Types, riskVars, workVars, storeVars, Busy, Key
<1>2. CASE Normalize(t)
  <2>1. Resolve(t) \in Merchants
      BY DEF Resolve, Merchants
  <2>2. resolving' = [txn |-> t, merchant |-> Resolve(t)] /\ topic' = Append(topic, resolving')
      BY <1>2 DEF Normalize
  <2>3. topic' \in Seq([txn : Txns, merchant : Merchants]) /\ Len(topic') = Len(topic) + 1
      BY <2>1, <2>2 DEF Types
  <2>4. \A i \in 1 .. Len(topic') : topic'[i].txn \in posted'
      BY <1>2, <2>2, <2>3 DEF Types, Normalize
  <2>5. t \in posted /\ UNCHANGED <<posted, resolved, riskVars>>
      BY <1>2 DEF Normalize
  <2>6. resolving'.txn \in posted'
      BY <2>2, <2>5
  <2> QED
      BY <2>3, <2>4, <2>5, <2>6 DEF Types, riskVars, workVars, storeVars, Busy, Key
<1>3. CASE NormalizeCommit \/ NormalizeFails
    BY <1>3 DEF NormalizeCommit, NormalizeFails, Types, riskVars, workVars, storeVars, Busy, Key
<1> QED
    BY <1>1, <1>2, <1>3

\* The risk worker keeps the types.
LEMMA RiskTypes == ASSUME Types, RiskStep PROVE Types'
<1> USE AttemptAssumption DEF ledgerVars, workVars, storeVars, operatorVars, Busy, Key, Reading
<1>1. CASE Take
  <2>1. offset < Len(topic) /\ cur' = offset + 1 /\ pc' \in {"advance", "late", "read1"}
      BY <1>1 DEF Take
  <2>2. UNCHANGED <<posted, resolved, topic, resolving, offset, attempt, scored, dead, features, seen>>
      BY <1>1 DEF Take
  <2> QED
      BY <2>1, <2>2 DEF Types
<1>2. CASE RecordLate
    BY <1>2 DEF RecordLate, Types, Msg
<1>3. CASE Read1
  <2>1. seen' = Queried(Nothing, "hour")
      BY <1>3 DEF Read1, Queries
  <2>2. Shaped(seen')
      BY <2>1, QueryWrites, NothingShaped
  <2> QED
      BY <1>3, <2>2 DEF Read1, Types
<1>4. CASE Read2
  <2>1. seen' = Queried(seen, "day")
      BY <1>4 DEF Read2, Queries
  <2>2. Shaped(seen')
      BY <2>1, QueryWrites DEF Types
  <2> QED
      BY <1>4, <2>2 DEF Read2, Types
<1>5. CASE Read3
  <2>1. seen' = Queried(seen, "base")
      BY <1>5 DEF Read3, Queries
  <2>2. Shaped(seen')
      BY <2>1, QueryWrites DEF Types
  <2> QED
      BY <1>5, <2>2 DEF Read3, Types
<1>6. CASE Evaluate
  <2>1. Shaped(seen')
      BY <1>6, EvaluateWrites DEF Types
  <2>2. pc = "read4" /\ pc' = "signal" /\ UNCHANGED <<posted, resolved, topic, resolving, offset, cur, attempt, scored, dead, features>>
      BY <1>6 DEF Evaluate
  <2> QED
      BY <2>1, <2>2 DEF Types
<1>7. CASE Announce
    BY <1>7 DEF Announce, Types
<1>8. CASE CommitWork
  <2>1. Msg.txn \in posted
      BY <1>8 DEF CommitWork, Types, Msg
  <2>2. DOMAIN features' = DOMAIN features \cup {Key(Msg.txn)}
      BY <1>8 DEF CommitWork
  <2>3. /\ pc' = "advance" /\ scored' = scored \cup {Msg.txn} /\ seen' = Nothing
        /\ UNCHANGED <<posted, resolved, topic, resolving, offset, cur, attempt, dead>>
      BY <1>8 DEF CommitWork, NoWork
  <2> QED
      BY <1>8, <2>1, <2>2, <2>3, NothingShaped DEF Types, CommitWork
<1>9. CASE Advance
    BY <1>9 DEF Advance, Types, Larger
<1>10. CASE Fail
    BY <1>10, NothingShaped DEF Fail, Types, Msg, NoWork
<1>11. CASE Restart
    BY <1>11, NothingShaped DEF Restart, Types, NoWork
<1> QED
    BY <1>1, <1>2, <1>3, <1>4, <1>5, <1>6, <1>7, <1>8, <1>9, <1>10, <1>11 DEF RiskStep

\* The types are inductive.
LEMMA NextTypes == Types /\ [Next]_vars => Types'
<1> SUFFICES ASSUME Types, [Next]_vars PROVE Types'
    OBVIOUS
<1>1. CASE ReplayClear \/ ReplaySeek
    BY <1>1 DEF ReplayClear, ReplaySeek, Types, ledgerVars, workVars, storeVars, Busy, Key
<1>2. CASE UNCHANGED vars
    BY <1>2 DEF vars, Types, ledgerVars, workVars, storeVars, Busy, Key
<1>3. CASE NormalizeCommit \/ NormalizeFails
    BY <1>3 DEF NormalizeCommit, NormalizeFails, Types, riskVars, workVars, storeVars, Busy, Key
<1> QED
    BY <1>1, <1>2, <1>3, LedgerTypes, RiskTypes DEF Next

\* The types hold in every reachable state.
LEMMA TypesHold == Spec => []Types
  BY InitTypes, NextTypes, PTL DEF Spec

\* Every state of the two workers is well typed: offsets stay within the topic,
\* attempts within consumer_max_attempts, claims and features within what was posted.
THEOREM TypeCorrect == Spec => []TypeOK
<1>1. Types => TypeOK
    BY DEF Types, TypeOK
<1> QED
    BY <1>1, TypesHold, PTL
-----------------------------------------------------------------------------
(* Stored windows nest.                                                      *)

\* What compute has read so far nests, and lies within the window that is
\* read next, whenever that will be.
Nest ==
    /\ WindowsNest
    /\ pc = "read2" => seen.hour \subseteq WindowOf(Msg.txn, "hour")
    /\ pc = "read3" => /\ seen.hour \subseteq seen.day
                       /\ seen.day \subseteq WindowOf(Msg.txn, "day")
    /\ pc \in {"read4", "signal"} => seen.hour \subseteq seen.day /\ seen.day \subseteq seen.base

\* A longer window of the same snapshot holds the shorter one.
LEMMA LongerWindow ==
    ASSUME NEW t \in Txns, posted \subseteq Txns
    PROVE  /\ WindowOf(t, "hour") \subseteq WindowOf(t, "day")
           /\ WindowOf(t, "day") \subseteq WindowOf(t, "base")
  BY WindowAssumption DEF WindowOf

\* An entry that was in a window stays in it while the message is in hand.
LEMMA WindowGrows ==
    ASSUME Types, [Next]_vars, Busy, cur' = cur, NEW w
    PROVE  WindowOf(Msg.txn, w) \subseteq WindowOf(Msg.txn, w)'
<1>1. Msg' = Msg /\ posted \subseteq posted'
    BY Grows DEF Types, Msg, Busy
<1> QED
    BY <1>1 DEF WindowOf

\* Every step of the specification keeps Nest.
LEMMA NextNest == Types /\ Nest /\ [Next]_vars => Nest'
<1> SUFFICES ASSUME Types, Nest, [Next]_vars PROVE Nest'
    OBVIOUS
<1> DEFINE Same == UNCHANGED <<cur, pc, seen, features>>
<1> USE DEF Nest, WindowsNest, ledgerVars, workVars, storeVars, riskVars, operatorVars
<1>m. Busy => Msg.txn \in Txns
    BY DEF Types, Msg, Busy
<1>1. CASE Same
    BY <1>1, WindowGrows DEF Busy
<1>2. CASE \E t \in Txns : PostTransaction(t) \/ Normalize(t)
    BY <1>1, <1>2 DEF PostTransaction, Normalize
<1>3. CASE NormalizeCommit \/ NormalizeFails \/ ReplayClear \/ ReplaySeek \/ UNCHANGED vars
    BY <1>1, <1>3 DEF NormalizeCommit, NormalizeFails, ReplayClear, ReplaySeek, vars
<1>4. CASE Take \/ RecordLate \/ Advance \/ Fail \/ Restart
  <2>1. pc' \notin {"read2", "read3", "read4", "signal"} /\ UNCHANGED features
      BY <1>4 DEF Take, RecordLate, Advance, Fail, Restart
  <2> QED
      BY <2>1
<1>5. CASE Read1
  <2>1. pc' = "read2" /\ UNCHANGED <<features, cur>>
      BY <1>5 DEF Read1
  <2>2. seen' = Queried(Nothing, "hour")
      BY <1>5 DEF Read1, Queries
  <2>3. seen'.hour = WindowOf(Msg.txn, "hour")
      BY <2>2, QueryWrites, NothingShaped
  <2> QED
      BY <1>5, <2>1, <2>3, WindowGrows DEF Busy, Read1
<1>6. CASE Read2
  <2>1. pc' = "read3" /\ UNCHANGED <<features, cur>> /\ Busy
      BY <1>6 DEF Read2, Busy
  <2>2. seen'.hour = seen.hour /\ seen'.day = WindowOf(Msg.txn, "day")
    <3>1. seen' = Queried(seen, "day")
        BY <1>6 DEF Read2, Queries
    <3> QED
        BY <3>1, QueryWrites DEF Types, Windows
  <2>3. seen.hour \subseteq WindowOf(Msg.txn, "hour")
      BY <1>6 DEF Read2
  <2>4. WindowOf(Msg.txn, "hour") \subseteq WindowOf(Msg.txn, "day")
      BY <1>m, <2>1, LongerWindow DEF Types
  <2> QED
      BY <2>1, <2>2, <2>3, <2>4, WindowGrows
<1>7. CASE Read3
  <2>1. pc' = "read4" /\ UNCHANGED <<features, cur>> /\ Busy
      BY <1>7 DEF Read3, Busy
  <2>2. seen'.hour = seen.hour /\ seen'.day = seen.day /\ seen'.base = WindowOf(Msg.txn, "base")
    <3>1. seen' = Queried(seen, "base")
        BY <1>7 DEF Read3, Queries
    <3> QED
        BY <3>1, QueryWrites DEF Types, Windows
  <2>3. seen.hour \subseteq seen.day /\ seen.day \subseteq WindowOf(Msg.txn, "day")
      BY <1>7 DEF Read3
  <2>4. WindowOf(Msg.txn, "day") \subseteq WindowOf(Msg.txn, "base")
      BY <1>m, <2>1, LongerWindow DEF Types
  <2> QED
      BY <2>1, <2>2, <2>3, <2>4
<1>8. CASE Evaluate
  <2>1. pc = "read4" /\ pc' = "signal" /\ UNCHANGED features
      BY <1>8 DEF Evaluate
  <2>2. seen'.hour = seen.hour /\ seen'.day = seen.day /\ seen'.base = seen.base
      BY <1>8, EvaluateWrites DEF Types, Windows
  <2> QED
      BY <2>1, <2>2
<1>9. CASE Announce
    BY <1>9 DEF Announce
<1>10. CASE CommitWork
  <2>1. pc = "signal" /\ pc' = "advance" /\ seen.hour \subseteq seen.day /\ seen.day \subseteq seen.base
      BY <1>10 DEF CommitWork
  <2>2. features' = [k \in DOMAIN features \cup {Key(Msg.txn)} |->
                        IF k = Key(Msg.txn) THEN Row ELSE features[k]]
      BY <1>10 DEF CommitWork
  <2>3. Row.hour = seen.hour /\ Row.day = seen.day /\ Row.base = seen.base
      BY DEF Row
  <2> HIDE DEF Row
  <2>4. WindowsNest'
      BY <2>1, <2>2, <2>3
  <2> QED
      BY <2>1, <2>4
<1> QED
    BY <1>2, <1>3, <1>4, <1>5, <1>6, <1>7, <1>8, <1>9, <1>10 DEF Next, RiskStep

\* The hour of a stored feature row lies within its day and its day within its
\* baseline, although compute reads the three from different snapshots.
THEOREM StoredWindowsNest == Spec => []WindowsNest
<1>1. Init => Nest
    BY DEF Init, Nest, WindowsNest
<1>2. Nest => WindowsNest
    BY DEF Nest
<1> QED
    BY <1>1, <1>2, TypesHold, NextNest, PTL DEF Spec
-----------------------------------------------------------------------------
(* Nothing is dropped silently.                                              *)

\* The events that have left a trace.
Traces == {t \in posted : Key(t) \in DOMAIN features \/ (\E l \in late : l.txn = t) \/ t \in dead}

\* A claimed event has left a trace, and so has every one the group has passed;
\* the message in hand is at most one past the offset it will commit.
Traced ==
    /\ scored \subseteq Traces
    /\ \A i \in 1 .. offset : topic[i].txn \in Traces
    /\ Busy => \A i \in 1 .. cur - 1 : topic[i].txn \in Traces
    /\ pc = "advance" => Msg.txn \in Traces

\* A trace is never taken away.
LEMMA TracesStay == ASSUME Types, [Next]_vars PROVE Traces \subseteq Traces'
<1>1. DOMAIN features \subseteq DOMAIN features' /\ late \subseteq late' /\ dead \subseteq dead'
  <2>1. CASE \E u \in Txns : PostTransaction(u) \/ Normalize(u)
      BY <2>1 DEF PostTransaction, Normalize, riskVars, storeVars
  <2>2. CASE NormalizeCommit \/ NormalizeFails \/ ReplayClear \/ ReplaySeek \/ UNCHANGED vars
      BY <2>2 DEF NormalizeCommit, NormalizeFails, ReplayClear, ReplaySeek, vars, riskVars, storeVars
  <2>3. CASE CommitWork
      BY <2>3 DEF CommitWork
  <2>4. CASE RiskStep /\ ~CommitWork
      BY <2>4 DEF RiskStep, Take, RecordLate, Read1, Read2, Read3, Evaluate, Announce,
                  Advance, Fail, Restart, storeVars
  <2> QED
      BY <2>1, <2>2, <2>3, <2>4 DEF Next, RiskStep
<1> QED
    BY <1>1, Grows DEF Traces, Key

\* Every step of the specification keeps Traced.
LEMMA NextTraced == Types /\ Traced /\ [Next]_vars => Traced'
<1> SUFFICES ASSUME Types, Traced, [Next]_vars PROVE Traced'
    OBVIOUS
<1>c. Traces \subseteq Traces'
    BY TracesStay
<1>t. \A i \in 1 .. Len(topic) : topic'[i] = topic[i]
    BY Grows
<1>n. Len(topic) \in Nat /\ offset \in 0 .. Len(topic) /\ cur \in 0 .. Len(topic)
    BY DEF Types
<1>b. Busy => cur >= 1
    BY DEF Types
<1>e. /\ \A i \in 1 .. offset : topic'[i].txn \in Traces'
      /\ Busy => \A i \in 1 .. cur - 1 : topic'[i].txn \in Traces'
      /\ pc = "advance" => topic'[cur].txn \in Traces'
      /\ scored \subseteq Traces'
    BY <1>c, <1>t, <1>n, <1>b DEF Traced, Msg, Busy
<1>0. CASE UNCHANGED <<offset, cur, pc>> /\ scored' \subseteq scored
    BY <1>0, <1>e DEF Traced, Msg, Busy
<1>1. CASE \E t \in Txns : PostTransaction(t) \/ Normalize(t)
    BY <1>0, <1>1 DEF PostTransaction, Normalize, riskVars, storeVars
<1>2. CASE NormalizeCommit \/ NormalizeFails \/ ReplayClear \/ UNCHANGED vars
    BY <1>0, <1>2 DEF NormalizeCommit, NormalizeFails, ReplayClear, vars, riskVars, storeVars
<1>3. CASE ReplaySeek
    BY <1>3, <1>e DEF ReplaySeek, Traced, Msg, Busy, storeVars, ledgerVars
<1>4. CASE Take
  <2>1. offset' = offset /\ scored' = scored /\ cur' = offset + 1 /\ offset < Len(topic)
      BY <1>4 DEF Take, storeVars
  <2>2. pc' = "advance" => topic[offset + 1].txn \in scored
      BY <1>4 DEF Take
  <2>3. topic'[offset + 1] = topic[offset + 1]
      BY <2>1, <1>t, <1>n
  <2> QED
      BY <2>1, <2>2, <2>3, <1>e, <1>n DEF Traced, Msg
<1>5. CASE RecordLate
  <2>m. Msg' = Msg /\ Msg.txn \in posted'
      BY <1>5 DEF RecordLate, Msg, ledgerVars, Types, Busy
  <2>l. [txn |-> Msg.txn, watermark |-> maxSeen - Watermark] \in late'
      BY <1>5 DEF RecordLate
  <2>1. (Msg.txn \in Traces)'
      BY <2>m, <2>l DEF Traces
  <2> QED
      BY <1>5, <2>1, <1>e DEF RecordLate, Traced, Busy, Msg, ledgerVars
<1>6. CASE Read1 \/ Read2 \/ Read3 \/ Evaluate \/ Announce
  <2>1. Busy /\ pc' # "advance" /\ UNCHANGED <<offset, cur, scored>>
      BY <1>6 DEF Read1, Read2, Read3, Evaluate, Announce, Busy, storeVars
  <2> QED
      BY <2>1, <1>e DEF Traced
<1>7. CASE CommitWork
  <2>1. Msg' = Msg /\ Key(Msg.txn) \in DOMAIN features'
      BY <1>7 DEF CommitWork, Msg, ledgerVars
  <2>2. (Msg.txn \in Traces)'
      BY <2>1, <1>7 DEF Traces, Key, CommitWork, ledgerVars, Types, Busy, Msg
  <2>3. Busy /\ scored' = scored \cup {Msg.txn} /\ UNCHANGED <<offset, cur>>
      BY <1>7 DEF CommitWork, Busy
  <2> QED
      BY <2>1, <2>2, <2>3, <1>e DEF Traced
<1>8. CASE Advance
  <2>1. pc = "advance" /\ Busy /\ pc' = "idle" /\ offset' = Larger(offset, cur) /\ scored' = scored
      BY <1>8 DEF Advance, Busy, storeVars
  <2>2. \A i \in 1 .. offset' : i \in 1 .. offset \/ i \in 1 .. cur - 1 \/ i = cur
      BY <2>1, <1>n DEF Larger
  <2> QED
      BY <2>1, <2>2, <1>e DEF Traced, Busy
<1>9. CASE Fail
  <2>1. Busy /\ UNCHANGED <<offset, cur, scored, topic>>
      BY <1>9 DEF Fail, Busy, storeVars, ledgerVars
  <2>2. pc' = "advance" => (Msg.txn \in Traces)'
      BY <1>9, <2>1 DEF Fail, Traces, Msg, Types, ledgerVars
  <2> QED
      BY <2>1, <2>2, <1>e DEF Traced
<1>10. CASE Restart
    BY <1>10, <1>e DEF Restart, Traced, Busy, storeVars
<1> QED
    BY <1>1, <1>2, <1>3, <1>4, <1>5, <1>6, <1>7, <1>8, <1>9, <1>10 DEF Next, RiskStep

\* Every event behind the risk group's offset has a feature row, a late arrival
\* or a dead letter, whatever attempts fail and however often it is replayed.
THEOREM NoSilentDrop == Spec => []NothingDroppedSilently
<1>1. Init => Traced
    BY DEF Init, Traced, Busy
<1>2. Traced => NothingDroppedSilently
    BY DEF Traced, NothingDroppedSilently, Traces
<1> QED
    BY <1>1, <1>2, TypesHold, NextTraced, PTL DEF Spec
-----------------------------------------------------------------------------
(* Signals are announced.                                                    *)

\* The rows of the open transaction are announced before it commits.
Announced ==
    \A s \in signals \cup rows : [event |-> <<s.txn, s.rule>>, signal |-> s.id] \in alerts

\* Every step of the specification keeps Announced.
LEMMA NextAnnounced == Announced /\ [Next]_vars => Announced'
<1> SUFFICES ASSUME Announced, [Next]_vars PROVE Announced'
    OBVIOUS
<1> USE DEF Announced, ledgerVars, workVars, storeVars, riskVars, NoWork
<1>0. CASE signals' \subseteq signals \cup rows /\ rows' \subseteq rows /\ alerts \subseteq alerts'
    BY <1>0
<1>1. CASE \E t \in Txns : PostTransaction(t) \/ Normalize(t)
    BY <1>1, <1>0 DEF PostTransaction, Normalize
<1>2. CASE NormalizeCommit \/ NormalizeFails \/ ReplayClear \/ ReplaySeek \/ UNCHANGED vars
    BY <1>2, <1>0 DEF NormalizeCommit, NormalizeFails, ReplayClear, ReplaySeek, vars
<1>3. CASE Take \/ RecordLate \/ Read1 \/ Read2 \/ Read3
    BY <1>3, <1>0 DEF Take, RecordLate, Read1, Read2, Read3
<1>4. CASE Evaluate \/ CommitWork \/ Advance \/ Fail \/ Restart
    BY <1>4, <1>0 DEF Evaluate, CommitWork, Advance, Fail, Restart
<1>5. CASE Announce
  <2>1. Signal.txn = Msg.txn /\ Signal.rule = Rule
      BY DEF Signal
  <2>2. [event |-> <<Signal.txn, Signal.rule>>, signal |-> Signal.id] \in alerts'
      BY <1>5, <2>1 DEF Announce, Event
  <2>3. rows' = rows \cup {Signal} /\ alerts \subseteq alerts' /\ signals' = signals
      BY <1>5 DEF Announce
  <2> HIDE DEF Signal
  <2> QED
      BY <2>2, <2>3
<1> QED
    BY <1>1, <1>2, <1>3, <1>4, <1>5 DEF Next, RiskStep

\* A signal in the table was announced under its own id.
THEOREM EverySignalAnnounced == Spec => []SignalsAreAnnounced
<1>1. Init => Announced
    BY DEF Init, Announced
<1>2. Announced => SignalsAreAnnounced
    BY DEF Announced, SignalsAreAnnounced
<1> QED
    BY <1>1, <1>2, NextAnnounced, PTL DEF Spec

-----------------------------------------------------------------------------
(* A row computed again agrees with the old one on what the old one saw.     *)

\* All that a window of a feature row may ever hold, committed or not.
Pool(k, w) ==
    {u \in Txns : /\ Account[u] = k[1] /\ (w = "week" \/ Spends[u])
                  /\ At[u] > k[2] - Duration[w] /\ At[u] <= k[2]}

\* What of it a query reads that does not see U.
Contents(k, w, U) ==
    IF w = "week" THEN {[txn |-> u, merchant |-> normalized[u]] : u \in Pool(k, w) \ U}
    ELSE Pool(k, w) \ U

\* What a query that runs now does not see.
Pending(k, w) ==
    {u \in Txns : /\ Account[u] = k[1] /\ At[u] <= k[2]
                  /\ IF w = "week" THEN normalized[u] = Absent ELSE u \notin posted}

\* Column w of f is what such a query reads, and what it did not see only shrinks.
Agrees(f, k, w) == f[w] = Contents(k, w, f.unseen[w]) /\ Pending(k, w) \subseteq f.unseen[w]

\* The windows that compute has read at each step.
WindowsRead ==
    CASE pc = "read2" -> {"hour"}
      [] pc = "read3" -> {"hour", "day"}
      [] pc = "read4" -> {"hour", "day", "base"}
      [] pc = "signal" -> Windows
      [] OTHER -> {}

\* Every stored row agrees with the database, the one being computed does as far
\* as it has been read, and it sees all that the row it will replace has seen.
Functional ==
    /\ \A k \in DOMAIN features : \A w \in Windows : Agrees(features[k], k, w)
    /\ \A w \in WindowsRead :
          /\ Agrees(seen, Key(Msg.txn), w)
          /\ Key(Msg.txn) \in DOMAIN features =>
                seen.unseen[w] \subseteq features[Key(Msg.txn)].unseen[w]

\* The normalizer writes each row once.
WrittenOnce ==
    /\ \A u \in Txns : normalized[u] # Absent => u \in resolved
    /\ resolving # None => resolving.txn \notin resolved
    /\ normalized = [u \in Txns |-> normalized[u]]

\* The initial state has no row.
LEMMA InitWrittenOnce == Init => WrittenOnce
  BY DEF Init, WrittenOnce

\* Every step keeps WrittenOnce.
LEMMA NextWrittenOnce == WrittenOnce /\ [Next]_vars => WrittenOnce'
<1> SUFFICES ASSUME WrittenOnce, [Next]_vars PROVE WrittenOnce'
    OBVIOUS
<1> USE DEF ledgerVars
<1>1. CASE UNCHANGED <<normalized, resolving, resolved>>
    BY <1>1 DEF WrittenOnce
<1>2. ASSUME NEW t \in Txns, PostTransaction(t) PROVE WrittenOnce'
    BY <1>1, <1>2 DEF PostTransaction
<1>3. ASSUME NEW t \in Txns, Normalize(t) PROVE WrittenOnce'
  <2>1. t \notin resolved /\ resolving'.txn = t /\ UNCHANGED <<normalized, resolved>>
      BY <1>3 DEF Normalize
  <2> QED
      BY <2>1 DEF WrittenOnce
<1>4. CASE NormalizeCommit
  <2>1. /\ normalized' = [normalized EXCEPT ![resolving.txn] = resolving.merchant]
        /\ resolved' = resolved \cup {resolving.txn} /\ resolving' = None
      BY <1>4 DEF NormalizeCommit
  <2> QED
      BY <2>1 DEF WrittenOnce
<1>5. CASE NormalizeFails
    BY <1>5 DEF NormalizeFails, WrittenOnce
<1>6. CASE RiskStep
    BY <1>1, <1>6 DEF RiskStep, Take, RecordLate, Read1, Read2, Read3, Evaluate, Announce,
                      CommitWork, Advance, Fail, Restart
<1>7. CASE ReplayClear \/ ReplaySeek \/ UNCHANGED vars
    BY <1>1, <1>7 DEF ReplayClear, ReplaySeek, vars
<1> QED
    BY <1>2, <1>3, <1>4, <1>5, <1>6, <1>7 DEF Next

\* A row that is written stays as it is, and one that is not may be.
LEMMA RowsStay ==
    ASSUME WrittenOnce, [Next]_vars, NEW u \in Txns, normalized[u] # Absent
    PROVE  normalized'[u] = normalized[u]
<1> USE DEF ledgerVars
<1>1. ASSUME NEW t \in Txns, PostTransaction(t) \/ Normalize(t)
      PROVE  normalized' = normalized
    BY <1>1 DEF PostTransaction, Normalize
<1>2. CASE NormalizeCommit
  <2>1. resolving.txn # u
      BY <1>2 DEF NormalizeCommit, WrittenOnce
  <2>2. normalized' = [normalized EXCEPT ![resolving.txn] = resolving.merchant]
      BY <1>2 DEF NormalizeCommit
  <2> QED
      BY <2>1, <2>2 DEF WrittenOnce
<1>3. CASE NormalizeFails
    BY <1>3 DEF NormalizeFails
<1>4. CASE RiskStep
    BY <1>4 DEF RiskStep, Take, RecordLate, Read1, Read2, Read3, Evaluate, Announce,
                CommitWork, Advance, Fail, Restart
<1>5. CASE ReplayClear \/ ReplaySeek \/ UNCHANGED vars
    BY <1>5 DEF ReplayClear, ReplaySeek, vars
<1> QED
    BY <1>1, <1>2, <1>3, <1>4, <1>5 DEF Next

\* What agrees with the database goes on agreeing with it.
LEMMA AgreesStays ==
    ASSUME Types, WrittenOnce, [Next]_vars, NEW f, NEW k, NEW w \in Windows, Agrees(f, k, w)
    PROVE  f[w] = Contents(k, w, f.unseen[w])' /\ Pending(k, w)' \subseteq f.unseen[w]
<1>1. \A u \in Txns : normalized[u] # Absent => normalized'[u] = normalized[u]
    BY RowsStay
<1>2. Pending(k, w)' \subseteq Pending(k, w)
  <2>1. CASE w = "week"
      BY <1>1, <2>1 DEF Pending
  <2>2. CASE w # "week"
      BY <2>2, Grows DEF Pending
  <2> QED
      BY <2>1, <2>2
<1>3. f[w] = Contents(k, w, f.unseen[w])'
  <2>1. CASE w = "week"
    <3>1. \A u \in Pool(k, w) \ f.unseen[w] : normalized'[u] = normalized[u]
        BY <1>1, <2>1 DEF Agrees, Pending, Pool
    <3> QED
        BY <2>1, <3>1 DEF Agrees, Contents, Pool
  <2>2. CASE w # "week"
      BY <2>2 DEF Agrees, Contents, Pool
  <2> QED
      BY <2>1, <2>2
<1> QED
    BY <1>2, <1>3 DEF Agrees

\* A query that runs now agrees with the database.
LEMMA QueryAgrees ==
    ASSUME Types, NEW t \in Txns
    PROVE  /\ \A w \in {"hour", "day", "base"} : WindowOf(t, w) = Contents(Key(t), w, Unseen(t, w))
           /\ WeekOf(t) = Contents(Key(t), "week", Unseen(t, "week"))
           /\ \A w \in Windows : Unseen(t, w) = Pending(Key(t), w)
<1> USE DEF Key, Pool, Contents, Unseen
<1>1. ASSUME NEW w \in {"hour", "day", "base"}
      PROVE  WindowOf(t, w) = Contents(Key(t), w, Unseen(t, w))
    BY DEF WindowOf, Types
<1>2. WeekOf(t) = Contents(Key(t), "week", Unseen(t, "week"))
  <2>1. Contents(Key(t), "week", Unseen(t, "week"))
           = {[txn |-> u, merchant |-> normalized[u]] : u \in Pool(Key(t), "week") \ Unseen(t, "week")}
      OBVIOUS
  <2>2. Pool(Key(t), "week") \ Unseen(t, "week")
           = {u \in Txns : /\ normalized[u] # Absent /\ Account[u] = Account[t]
                           /\ At[u] <= At[t] /\ At[u] > At[t] - Duration["week"]}
      OBVIOUS
  <2>3. WeekOf(t) = {r \in NormalizedRows : /\ Account[r.txn] = Account[t] /\ At[r.txn] <= At[t]
                                           /\ At[r.txn] > At[t] - Duration["week"]}
      BY DEF WeekOf, MerchantRows
  <2>4. \A r : r \in NormalizedRows <=>
                  \E u \in Txns : normalized[u] # Absent /\ r = [txn |-> u, merchant |-> normalized[u]]
      BY DEF NormalizedRows
  <2> QED
      BY <2>1, <2>2, <2>3, <2>4
<1>3. \A w \in Windows : Unseen(t, w) = Pending(Key(t), w)
    BY DEF Pending
<1> QED
    BY <1>1, <1>2, <1>3

\* Only COMMIT writes feature rows.
LEMMA OnlyCommitWrites == ASSUME [Next]_vars, ~CommitWork PROVE UNCHANGED features
<1> USE DEF ledgerVars, workVars, storeVars, riskVars, operatorVars
<1>1. CASE \E t \in Txns : PostTransaction(t) \/ Normalize(t)
    BY <1>1 DEF PostTransaction, Normalize
<1>2. CASE NormalizeCommit \/ NormalizeFails \/ ReplayClear \/ ReplaySeek \/ UNCHANGED vars
    BY <1>2 DEF NormalizeCommit, NormalizeFails, ReplayClear, ReplaySeek, vars
<1>3. CASE RiskStep
    BY <1>3 DEF RiskStep, Take, RecordLate, Read1, Read2, Read3, Evaluate, Announce, Advance, Fail,
                Restart
<1> QED
    BY <1>1, <1>2, <1>3 DEF Next

\* COMMIT replaces one row by the one just computed.
LEMMA CommitRow ==
    ASSUME Types, Functional, CommitWork
    PROVE  /\ DOMAIN features' = DOMAIN features \cup {Key(Msg.txn)}
           /\ \A k \in DOMAIN features' : k # Key(Msg.txn) => features'[k] = features[k]
           /\ features'[Key(Msg.txn)] = Row
           /\ UNCHANGED <<posted, normalized>> /\ WindowsRead' = {}
           /\ \A w \in Windows :
                 /\ Agrees(Row, Key(Msg.txn), w)
                 /\ Key(Msg.txn) \in DOMAIN features =>
                       seen.unseen[w] \subseteq features[Key(Msg.txn)].unseen[w]
<1>1. features' = [k \in DOMAIN features \cup {Key(Msg.txn)} |->
                      IF k = Key(Msg.txn) THEN Row ELSE features[k]]
    BY DEF CommitWork
<1>2. pc = "signal" /\ pc' = "advance" /\ UNCHANGED <<posted, normalized>>
    BY DEF CommitWork, ledgerVars
<1>3. WindowsRead = Windows /\ WindowsRead' = {}
    BY <1>2 DEF WindowsRead
<1>4. Row.unseen = seen.unseen /\ \A w \in Windows : Row[w] = seen[w]
    BY DEF Row, Windows
<1>5. \A w \in Windows : /\ Agrees(seen, Key(Msg.txn), w)
                         /\ Key(Msg.txn) \in DOMAIN features =>
                               seen.unseen[w] \subseteq features[Key(Msg.txn)].unseen[w]
    BY <1>3 DEF Functional
<1> HIDE DEF Row
<1>6. \A w \in Windows : Agrees(Row, Key(Msg.txn), w)
    BY <1>4, <1>5 DEF Agrees
<1> QED
    BY <1>1, <1>2, <1>3, <1>5, <1>6

\* The row a message is for is fixed while it is in hand.
LEMMA KeyStays ==
    ASSUME Types, [Next]_vars, Busy, cur' = cur PROVE Key(Msg.txn)' = Key(Msg.txn)
<1>1. Msg' = Msg
    BY Grows DEF Types, Msg, Busy
<1> QED
    BY <1>1 DEF Key

\* A query adds a column that agrees with the database and sees all that any
\* stored row has seen.
LEMMA ReadKeeps ==
    ASSUME Functional, UNCHANGED <<posted, normalized, topic, features, cur>>, NEW w0 \in Windows,
           WindowsRead' = WindowsRead \cup {w0},
           seen'[w0] = Contents(Key(Msg.txn), w0, seen'.unseen[w0]),
           seen'.unseen[w0] = Pending(Key(Msg.txn), w0),
           \A v \in WindowsRead \ {w0} : seen'[v] = seen[v] /\ seen'.unseen[v] = seen.unseen[v]
    PROVE  Functional'
<1>1. Key(Msg.txn)' = Key(Msg.txn)
    BY DEF Key, Msg
<1>2. \A U, k, w : Contents(k, w, U)' = Contents(k, w, U) /\ Pending(k, w)' = Pending(k, w)
    BY DEF Contents, Pending, Pool
<1>3. \A k \in DOMAIN features' : \A w \in Windows : Agrees(features[k], k, w)'
    BY <1>2 DEF Functional, Agrees
<1>4. ASSUME NEW w \in WindowsRead'
      PROVE  /\ Agrees(seen, Key(Msg.txn), w)'
             /\ Key(Msg.txn)' \in DOMAIN features' =>
                   seen'.unseen[w] \subseteq features'[Key(Msg.txn)'].unseen[w]
  <2>1. CASE w = w0
      BY <1>1, <1>2, <2>1 DEF Functional, Agrees
  <2>2. CASE w # w0
      BY <1>1, <1>2, <1>4, <2>2 DEF Functional, Agrees
  <2> QED
      BY <2>1, <2>2
<1> QED
    BY <1>3, <1>4 DEF Functional

\* Every step of the specification keeps Functional.
LEMMA NextFunctional == Types /\ WrittenOnce /\ Functional /\ [Next]_vars => Functional'
<1> SUFFICES ASSUME Types, WrittenOnce, Functional, [Next]_vars PROVE Functional'
    OBVIOUS
<1> USE DEF ledgerVars, workVars, storeVars, riskVars, operatorVars
<1>m. Busy => Msg.txn \in Txns
    BY DEF Types, Msg, Busy
<1>f. ~CommitWork => \A k \in DOMAIN features' : \A w \in Windows : Agrees(features[k], k, w)'
  <2> SUFFICES ASSUME ~CommitWork, NEW k \in DOMAIN features, NEW w \in Windows
               PROVE  Agrees(features[k], k, w)'
      BY OnlyCommitWrites
  <2>1. UNCHANGED features /\ Agrees(features[k], k, w)
      BY OnlyCommitWrites DEF Functional
  <2>2. PICK f : f = features[k]
      OBVIOUS
  <2>3. f[w] = Contents(k, w, f.unseen[w])' /\ Pending(k, w)' \subseteq f.unseen[w]
      BY <2>1, <2>2, AgreesStays
  <2> QED
      BY <2>1, <2>2, <2>3 DEF Agrees
<1>0. CASE ~CommitWork /\ UNCHANGED <<cur, pc, seen>>
  <2>1. WindowsRead' = WindowsRead /\ (WindowsRead # {} => Busy) /\ WindowsRead \subseteq Windows
      BY <1>0 DEF WindowsRead, Busy, Windows
  <2>2. UNCHANGED features /\ (Busy => Key(Msg.txn)' = Key(Msg.txn))
      BY <1>0, OnlyCommitWrites, KeyStays
  <2>3. ASSUME NEW w \in WindowsRead
        PROVE  /\ Agrees(seen, Key(Msg.txn), w)'
               /\ Key(Msg.txn)' \in DOMAIN features' =>
                     seen'.unseen[w] \subseteq features'[Key(Msg.txn)'].unseen[w]
    <3>1. PICK f, k : f = seen /\ k = Key(Msg.txn)
        OBVIOUS
    <3>2. Agrees(f, k, w) /\ w \in Windows
        BY <2>1, <3>1 DEF Functional
    <3>3. f[w] = Contents(k, w, f.unseen[w])' /\ Pending(k, w)' \subseteq f.unseen[w]
        BY <3>2, AgreesStays
    <3>4. seen' = f /\ Key(Msg.txn)' = k
        BY <1>0, <2>1, <2>2, <3>1
    <3>5. Agrees(seen, Key(Msg.txn), w)'
        BY <3>3, <3>4 DEF Agrees
    <3> QED
        BY <1>0, <2>2, <3>1, <3>4, <3>5 DEF Functional
  <2> QED
      BY <1>0, <1>f, <2>1, <2>3 DEF Functional
<1>1. CASE \E t \in Txns : PostTransaction(t) \/ Normalize(t)
  <2>1. UNCHANGED <<cur, pc, seen>> /\ (CommitWork => pc' = "advance" /\ pc = "signal")
      BY <1>1 DEF PostTransaction, Normalize, CommitWork
  <2> QED
      BY <1>0, <2>1
<1>2. CASE NormalizeCommit \/ NormalizeFails \/ ReplayClear \/ ReplaySeek \/ UNCHANGED vars
  <2>1. UNCHANGED <<cur, pc, seen>> /\ (CommitWork => pc' = "advance" /\ pc = "signal")
      BY <1>2 DEF NormalizeCommit, NormalizeFails, ReplayClear, ReplaySeek, vars, CommitWork
  <2> QED
      BY <1>0, <2>1
<1>3. CASE ~CommitWork /\ (Take \/ RecordLate \/ Advance \/ Fail \/ Restart)
  <2>1. pc' \notin {"read2", "read3", "read4", "signal"}
      BY <1>3 DEF Take, RecordLate, Advance, Fail, Restart
  <2>2. WindowsRead' = {}
      BY <2>1 DEF WindowsRead
  <2> QED
      BY <1>3, <1>f, <2>2 DEF Functional
<1>4. CASE Read1
  <2>1. /\ WindowsRead = {} /\ WindowsRead' = {"hour"} /\ Busy
        /\ UNCHANGED <<posted, normalized, topic, features, cur>>
      BY <1>4 DEF Read1, Busy, WindowsRead
  <2>2. seen' = Queried(Nothing, "hour")
      BY <1>4 DEF Read1, Queries
  <2>3. seen'["hour"] = WindowOf(Msg.txn, "hour") /\ seen'.unseen["hour"] = Unseen(Msg.txn, "hour")
      BY <2>2, QueryWrites, NothingShaped
  <2> QED
      BY <1>m, <2>1, <2>3, QueryAgrees, ReadKeeps DEF Windows
<1>5. CASE Read2
  <2>1. /\ WindowsRead = {"hour"} /\ WindowsRead' = {"hour", "day"} /\ Busy
        /\ UNCHANGED <<posted, normalized, topic, features, cur>>
      BY <1>5 DEF Read2, Busy, WindowsRead
  <2>2. seen' = Queried(seen, "day")
      BY <1>5 DEF Read2, Queries
  <2>3. /\ seen'["day"] = WindowOf(Msg.txn, "day") /\ seen'.unseen["day"] = Unseen(Msg.txn, "day")
        /\ seen'["hour"] = seen["hour"] /\ seen'.unseen["hour"] = seen.unseen["hour"]
      BY <2>2, QueryWrites DEF Types, Windows
  <2> QED
      BY <1>m, <2>1, <2>3, QueryAgrees, ReadKeeps DEF Windows
<1>6. CASE Read3
  <2>1. /\ WindowsRead = {"hour", "day"} /\ WindowsRead' = {"hour", "day", "base"} /\ Busy
        /\ UNCHANGED <<posted, normalized, topic, features, cur>>
      BY <1>6 DEF Read3, Busy, WindowsRead
  <2>2. seen' = Queried(seen, "base")
      BY <1>6 DEF Read3, Queries
  <2>3. /\ seen'["base"] = WindowOf(Msg.txn, "base") /\ seen'.unseen["base"] = Unseen(Msg.txn, "base")
        /\ \A v \in {"hour", "day"} : seen'[v] = seen[v] /\ seen'.unseen[v] = seen.unseen[v]
      BY <2>2, QueryWrites DEF Types, Windows
  <2> QED
      BY <1>m, <2>1, <2>3, QueryAgrees, ReadKeeps DEF Windows
<1>7. CASE Evaluate
  <2>1. /\ WindowsRead = {"hour", "day", "base"} /\ WindowsRead' = Windows /\ Busy
        /\ UNCHANGED <<posted, normalized, topic, features, cur>>
      BY <1>7 DEF Evaluate, Busy, WindowsRead
  <2>2. /\ seen'["week"] = WeekOf(Msg.txn) /\ seen'.unseen["week"] = Unseen(Msg.txn, "week")
        /\ \A v \in {"hour", "day", "base"} : seen'[v] = seen[v] /\ seen'.unseen[v] = seen.unseen[v]
      BY <1>7, EvaluateWrites DEF Types, Windows
  <2> QED
      BY <1>m, <2>1, <2>2, QueryAgrees, ReadKeeps DEF Windows
<1>8. CASE Announce
  <2>1. UNCHANGED <<cur, pc, seen>> /\ (CommitWork => pc' = "advance" /\ pc = "signal")
      BY <1>8 DEF Announce, CommitWork
  <2> QED
      BY <1>0, <2>1
<1>9. CASE CommitWork
  <2>1. /\ DOMAIN features' = DOMAIN features \cup {Key(Msg.txn)}
        /\ \A k \in DOMAIN features' : k # Key(Msg.txn) => features'[k] = features[k]
        /\ features'[Key(Msg.txn)] = Row
        /\ UNCHANGED <<posted, normalized>> /\ WindowsRead' = {}
      BY <1>9, CommitRow
  <2>2. ASSUME NEW k \in DOMAIN features', NEW w \in Windows PROVE Agrees(features[k], k, w)'
    <3>1. CASE k = Key(Msg.txn)
      <4>1. Agrees(Row, k, w)
          BY <1>9, <3>1, CommitRow
      <4> HIDE DEF Row
      <4> QED
          BY <2>1, <3>1, <4>1 DEF Agrees, Contents, Pending, Pool
    <3>2. CASE k # Key(Msg.txn)
      <4>1. features'[k] = features[k] /\ Agrees(features[k], k, w)
          BY <2>1, <3>2 DEF Functional
      <4> QED
          BY <2>1, <4>1 DEF Agrees, Contents, Pending, Pool
    <3> QED
        BY <3>1, <3>2
  <2> QED
      BY <2>1, <2>2 DEF Functional
<1> QED
    BY <1>1, <1>2, <1>3, <1>4, <1>5, <1>6, <1>7, <1>8, <1>9 DEF Next, RiskStep

\* Replaying the stream recomputes the same row: whatever is replayed, retried
\* or posted meanwhile, a stored row is never removed, and what is written over
\* it has all that was in each of its windows, and beyond that only entries, or
\* rows of the normalizer, that had not committed when the window was read
\* (compute.py).
THEOREM ReplayRecomputes == Spec => ReplayIsDeterministic
<1>1. Init => Functional
    BY DEF Init, Functional, WindowsRead
<1> DEFINE Recomputed(k) ==
              /\ k \in DOMAIN features'
              /\ \A w \in Windows : features[k][w] \subseteq features'[k][w]
              /\ \A w \in Windows \ {"week"} :
                    features'[k][w] \ features[k][w] \subseteq features[k].unseen[w]
              /\ \A r \in features'[k].week \ features[k].week :
                    r.txn \in features[k].unseen["week"]
<1>2. ASSUME Types, Functional, [Next]_vars, features' # features, NEW k \in DOMAIN features
      PROVE  Recomputed(k)
  <2>1. CommitWork
      BY <1>2, OnlyCommitWrites
  <2>2. k \in DOMAIN features' /\ (k # Key(Msg.txn) => features'[k] = features[k])
      BY <1>2, <2>1, CommitRow
  <2>3. CASE k # Key(Msg.txn)
      BY <2>2, <2>3
  <2>4. CASE k = Key(Msg.txn)
    <3>1. \A w \in Windows : /\ Agrees(features[k], k, w) /\ Agrees(features'[k], k, w)
                             /\ features'[k].unseen[w] \subseteq features[k].unseen[w]
      <4>1. features'[k] = Row /\ Row.unseen = seen.unseen
          BY <1>2, <2>1, <2>4, CommitRow DEF Row
      <4>2. \A w \in Windows : Agrees(Row, k, w) /\ seen.unseen[w] \subseteq features[k].unseen[w]
          BY <1>2, <2>1, <2>4, CommitRow
      <4> HIDE DEF Row
      <4> QED
          BY <1>2, <4>1, <4>2 DEF Functional
    <3>2. \A w \in Windows : /\ features[k][w] = Contents(k, w, features[k].unseen[w])
                             /\ features'[k][w] = Contents(k, w, features'[k].unseen[w])
        BY <3>1 DEF Agrees
    <3>3. ASSUME NEW w \in Windows, w # "week"
          PROVE  /\ features[k][w] \subseteq features'[k][w]
                 /\ features'[k][w] \ features[k][w] \subseteq features[k].unseen[w]
        BY <3>1, <3>2, <3>3 DEF Contents
    <3>4. features[k].week \subseteq features'[k].week
        BY <3>1, <3>2 DEF Contents, Windows
    <3>5. ASSUME NEW r \in features'[k].week \ features[k].week
          PROVE  r.txn \in features[k].unseen["week"]
        BY <3>2, <3>5 DEF Contents, Windows
    <3> QED
        BY <2>2, <3>3, <3>4, <3>5 DEF Windows
  <2> QED
      BY <2>3, <2>4
<1>3. Types /\ Functional /\ [Next]_vars => [\A k \in DOMAIN features : Recomputed(k)]_features
  <2> HIDE DEF Recomputed
  <2> QED
      BY <1>2
<1> QED
    BY <1>1, <1>3, TypesHold, InitWrittenOnce, NextWrittenOnce, NextFunctional, PTL
    DEF Spec, ReplayIsDeterministic
-----------------------------------------------------------------------------
(* Events are late only behind a delivered one.                              *)

\* Until a replay, what the worker remembers was delivered no later than the
\* message it took last.
Remembered ==
    /\ replays \in Nat
    /\ replays = 0 =>
       /\ ~replaying /\ cur <= offset + 1
       /\ maxSeen # Never => \E j \in 1 .. cur : At[topic[j].txn] = maxSeen
       /\ pc = "late" => \E j \in 1 .. cur - 1 : At[topic[j].txn] > At[Msg.txn] + Watermark
       /\ LateOnlyBehindDelivered

\* The topic only grows, so what was late stays behind the message it was late for.
LEMMA LateStays ==
    ASSUME Types, LateOnlyBehindDelivered, [Next]_vars, replays = 0, late' = late
    PROVE  LateOnlyBehindDelivered'
<1>1. Len(topic) <= Len(topic') /\ \A i \in 1 .. Len(topic) : topic'[i] = topic[i]
    BY Grows
<1>2. Types'
    BY NextTypes
<1>3. Len(topic) \in Nat /\ Len(topic') \in Nat
    BY <1>2 DEF Types
<1>4. ASSUME NEW l \in late'
      PROVE  \E i, j \in 1 .. Len(topic') :
                j < i /\ topic'[i].txn = l.txn /\ At[topic'[j].txn] > At[l.txn] + Watermark
  <2>1. PICK i \in 1 .. Len(topic), j \in 1 .. Len(topic) :
           j < i /\ topic[i].txn = l.txn /\ At[topic[j].txn] > At[l.txn] + Watermark
      BY <1>4 DEF LateOnlyBehindDelivered
  <2>2. i \in 1 .. Len(topic') /\ j \in 1 .. Len(topic')
      BY <1>1, <1>3, <2>1
  <2> QED
      BY <1>1, <2>1, <2>2
<1> QED
    BY <1>4 DEF LateOnlyBehindDelivered

\* Every step of the specification keeps Remembered.
LEMMA NextRemembered == Types /\ Remembered /\ [Next]_vars => Remembered'
<1> SUFFICES ASSUME Types, Remembered, [Next]_vars PROVE Remembered'
    OBVIOUS
<1> USE DEF ledgerVars, workVars, storeVars, riskVars, operatorVars
<1>t. \A i \in 1 .. Len(topic) : topic'[i] = topic[i]
    BY Grows
<1>n. Len(topic) \in Nat /\ offset \in 0 .. Len(topic) /\ cur \in 0 .. Len(topic)
    BY DEF Types
<1>a. \A i \in 1 .. Len(topic) : topic[i].txn \in Txns /\ At[topic[i].txn] \in Nat
    BY WindowAssumption DEF Types
<1>x. replays \in Nat /\ replays' \in Nat /\ (replays' = 0 => replays = 0)
  <2>1. UNCHANGED replays \/ replays' = replays + 1
      BY DEF Next, RiskStep, PostTransaction, Normalize, NormalizeCommit, NormalizeFails, Take,
             RecordLate, Read1, Read2, Read3, Evaluate, Announce, CommitWork, Advance, Fail, Restart,
             ReplayClear, ReplaySeek, vars
  <2> QED
      BY <2>1 DEF Remembered
<1>r. CASE replays = 0
  <2>r. /\ ~replaying /\ cur <= offset + 1 /\ LateOnlyBehindDelivered
        /\ maxSeen # Never => \E j \in 1 .. cur : At[topic[j].txn] = maxSeen
        /\ pc = "late" => \E j \in 1 .. cur - 1 : At[topic[j].txn] > At[Msg.txn] + Watermark
      BY <1>r DEF Remembered
  <2>k. maxSeen # Never => \E j \in 1 .. cur : At[topic'[j].txn] = maxSeen
      BY <1>t, <1>n, <2>r
  <2>0. CASE /\ UNCHANGED <<cur, late, replaying>> /\ offset <= offset' /\ offset' \in Int
             /\ maxSeen' \in {maxSeen, Never}
             /\ pc' # "late" \/ pc' = pc
    <3>1. LateOnlyBehindDelivered'
        BY <1>r, <2>r, <2>0, LateStays
    <3>b. ~replaying'
        BY <2>0, <2>r, Zenon
    <3>c. cur' = cur /\ offset <= offset' /\ offset' \in Int /\ cur <= offset + 1
        BY <2>0, <2>r
    <3>d. cur \in Int /\ offset \in Int
        BY <1>n
    <3>e. \A c, o, p \in Int : c <= o + 1 /\ o <= p => c <= p + 1
        OBVIOUS
    <3>2. cur' <= offset' + 1
        BY <3>c, <3>d, <3>e
    <3>3. maxSeen' # Never => \E j \in 1 .. cur' : At[topic'[j].txn] = maxSeen'
        BY <2>0, <2>k
    <3>4. pc' = "late" => \E j \in 1 .. cur' - 1 : At[topic'[j].txn] > At[topic'[cur'].txn] + Watermark
      <4>1. CASE pc = "late"
        <5>1. PICK j \in 1 .. cur - 1 : At[topic[j].txn] > At[topic[cur].txn] + Watermark
            BY <2>r, <4>1 DEF Msg
        <5>2. topic'[j] = topic[j] /\ topic'[cur] = topic[cur]
            BY <1>t, <1>n, <5>1
        <5> QED
            BY <2>0, <5>1, <5>2
      <4>2. CASE pc # "late"
          BY <2>0, <4>2
      <4> QED
          BY <4>1, <4>2
    <3> QED
        BY <1>x, <3>b, <3>1, <3>2, <3>3, <3>4 DEF Remembered, Msg
  <2>1. CASE \E t \in Txns : PostTransaction(t) \/ Normalize(t)
      BY <1>n, <2>0, <2>1 DEF PostTransaction, Normalize
  <2>2. CASE NormalizeCommit \/ NormalizeFails \/ UNCHANGED vars
      BY <1>n, <2>0, <2>2 DEF NormalizeCommit, NormalizeFails, vars
  <2>3. CASE Read1 \/ Read2 \/ Read3 \/ Evaluate \/ Announce \/ CommitWork \/ Fail \/ Restart
    <3>1. /\ UNCHANGED <<cur, late, replaying, offset>> /\ maxSeen' \in {maxSeen, Never}
          /\ pc' # "late"
        BY <2>3 DEF Read1, Read2, Read3, Evaluate, Announce, CommitWork, Fail, Restart
    <3> QED
        BY <1>n, <2>0, <3>1
  <2>4. CASE Advance
    <3>1. offset <= offset' /\ offset' \in Int
        BY <1>n, <2>4 DEF Advance, Larger
    <3> QED
        BY <2>0, <2>4, <3>1 DEF Advance
  <2>5. CASE ReplayClear \/ ReplaySeek
      BY <1>r, <1>x, <2>5, <2>r DEF ReplayClear, ReplaySeek, Remembered
  <2>6. CASE Take
    <3> DEFINE t == topic[offset + 1].txn
    <3>1. /\ offset < Len(topic) /\ cur' = offset + 1
          /\ UNCHANGED <<topic, offset, late, replaying>>
        BY <2>6 DEF Take
    <3>2. /\ offset + 1 \in 1 .. Len(topic) /\ At[t] \in Nat
          /\ maxSeen # Never => maxSeen \in Nat
        BY <1>n, <1>a, <2>r, <3>1
    <3>3. LateOnlyBehindDelivered'
        BY <1>r, <2>r, <3>1, LateStays
    <3>5. maxSeen # Never => \E j \in 1 .. cur' : At[topic[j].txn] = maxSeen
        BY <1>n, <2>r, <3>1
    <3>6. CASE t \in scored
      <4>1. pc' = "advance" /\ UNCHANGED maxSeen
          BY <2>6, <3>6 DEF Take
      <4> QED
          BY <1>x, <1>n, <2>r, <3>1, <3>3, <3>5, <4>1 DEF Remembered
    <3>7. CASE t \notin scored
      <4>1. /\ maxSeen' = Larger(maxSeen, At[t])
            /\ pc' = IF At[t] < maxSeen' - Watermark THEN "late" ELSE "read1"
          BY <2>6, <3>7 DEF Take, Newest
      <4>2. maxSeen' = At[t] \/ (maxSeen' = maxSeen /\ maxSeen # Never)
          BY <3>2, <4>1 DEF Larger, Never
      <4>3. \E j \in 1 .. cur' : At[topic[j].txn] = maxSeen'
          BY <1>n, <3>1, <3>5, <4>2
      <4>4. ASSUME pc' = "late"
            PROVE  \E j \in 1 .. cur' - 1 : At[topic[j].txn] > At[t] + Watermark
        <5>1. maxSeen' \in Nat /\ At[t] < maxSeen' - Watermark
            BY <3>2, <4>1, <4>2, <4>4
        <5>2. PICK j \in 1 .. cur' : At[topic[j].txn] = maxSeen'
            BY <4>3
        <5>3. maxSeen' > At[t] + Watermark /\ maxSeen' # At[t]
            BY <3>2, <5>1, WindowAssumption
        <5>4. j # cur'
            BY <3>1, <5>2, <5>3
        <5>5. j \in 1 .. cur' - 1
            BY <1>n, <3>1, <5>2, <5>4
        <5> QED
            BY <5>2, <5>3, <5>5
      <4>5. Msg'.txn = t
          BY <3>1 DEF Msg
      <4> QED
          BY <1>x, <1>n, <2>r, <3>1, <3>3, <4>3, <4>4, <4>5 DEF Remembered
    <3> QED
        BY <3>6, <3>7
  <2>7. CASE RecordLate
    <3>1. /\ UNCHANGED <<topic, offset, cur, maxSeen, replaying>> /\ pc' = "advance" /\ pc = "late"
          /\ late' = late \cup {[txn |-> Msg.txn, watermark |-> maxSeen - Watermark]}
        BY <2>7 DEF RecordLate
    <3>2. PICK j \in 1 .. cur - 1 : At[topic[j].txn] > At[Msg.txn] + Watermark
        BY <2>r, <3>1
    <3>3. cur \in 1 .. Len(topic) /\ j \in 1 .. Len(topic) /\ j < cur
        BY <1>n, <3>2
    <3>4. ASSUME NEW l \in late'
          PROVE  \E i, k \in 1 .. Len(topic) :
                    k < i /\ topic[i].txn = l.txn /\ At[topic[k].txn] > At[l.txn] + Watermark
      <4>1. CASE l \in late
          BY <1>r, <2>r, <4>1 DEF LateOnlyBehindDelivered
      <4>2. CASE l \notin late
        <5>1. l.txn = Msg.txn
            BY <3>1, <4>2
        <5> QED
            BY <3>2, <3>3, <5>1 DEF Msg
      <4> QED
          BY <4>1, <4>2
    <3>5. LateOnlyBehindDelivered'
        BY <3>1, <3>4 DEF LateOnlyBehindDelivered
    <3> QED
        BY <1>x, <2>r, <3>1, <3>5 DEF Remembered
  <2> QED
      BY <2>1, <2>2, <2>3, <2>4, <2>5, <2>6, <2>7 DEF Next, RiskStep
<1> QED
    BY <1>r, <1>x DEF Remembered

\* Until a replay, an event is recorded as late only if a message delivered
\* before it is newer by more than the watermark (risk.py): no restart, rolled
\* back attempt or transaction not yet delivered makes it late.
THEOREM LateBehindDelivered == Spec => []LateOnlyBehindDelivered
<1>1. Init => Remembered
    BY DEF Init, Remembered, LateOnlyBehindDelivered
<1>2. Remembered => LateOnlyBehindDelivered
    BY DEF Remembered, LateOnlyBehindDelivered
<1> QED
    BY <1>1, <1>2, TypesHold, NextRemembered, PTL DEF Spec
-----------------------------------------------------------------------------
(* Sums over finite sets.                                                    *)

\* Induction over the natural numbers, for the set of those with a property.
LEMMA Induction ==
    ASSUME NEW T, 0 \in T, \A n \in Nat : n \in T => n + 1 \in T
    PROVE  Nat \subseteq T
<1> SUFFICES ASSUME Nat \ T # {} PROVE FALSE
    OBVIOUS
<1>1. PICK m \in Nat \ T : \A y \in Nat \ T : ~(<<y, m>> \in OpToRel(<, Nat))
    BY NatLessThanWellFounded, WFMin, Nat \ T \subseteq Nat
<1>2. \A y \in Nat \ T : ~(y < m)
    BY <1>1 DEF OpToRel
<1>3. m # 0 /\ m - 1 \in Nat
    BY SMT
<1>4. m - 1 \in T
    BY <1>2, <1>3, m - 1 < m
<1> QED
    BY <1>3, <1>4, (m - 1) + 1 = m

\* Taking an element out of a finite set leaves a smaller one.
LEMMA OneLess ==
    ASSUME NEW S, IsFiniteSet(S), NEW x \in S
    PROVE  /\ IsFiniteSet(S \ {x}) /\ Cardinality(S) \in Nat /\ Cardinality(S \ {x}) \in Nat
           /\ Cardinality(S \ {x}) = Cardinality(S) - 1
  BY FS_RemoveElement, FS_CardinalityType

\* Induction over the subsets of a finite set: a family that holds a subset as
\* soon as it holds it without any one of its elements holds them all.
LEMMA SubsetInduction ==
    ASSUME NEW U, IsFiniteSet(U), NEW T,
           \A S \in SUBSET U : (\A x \in S : S \ {x} \in T) => S \in T
    PROVE  \A S \in SUBSET U : S \in T
<1> DEFINE N == {n \in Nat : \A S \in SUBSET U : Cardinality(S) <= n => S \in T}
<1>f. \A S \in SUBSET U : IsFiniteSet(S) /\ Cardinality(S) \in Nat
    BY FS_Subset, FS_CardinalityType
<1>1. 0 \in N
  <2> SUFFICES ASSUME NEW S \in SUBSET U, Cardinality(S) <= 0 PROVE S \in T
      OBVIOUS
  <2>1. S = {}
      BY <1>f, FS_EmptySet
  <2> QED
      BY <2>1
<1>2. ASSUME NEW n \in Nat, n \in N PROVE n + 1 \in N
  <2> SUFFICES ASSUME NEW S \in SUBSET U, Cardinality(S) <= n + 1 PROVE S \in T
      OBVIOUS
  <2>1. ASSUME NEW x \in S PROVE S \ {x} \in T
    <3>1. S \ {x} \in SUBSET U /\ Cardinality(S \ {x}) <= n
        BY <1>f, OneLess
    <3> QED
        BY <1>2, <3>1
  <2> QED
      BY <2>1
<1>3. Nat \subseteq N
  <2> HIDE DEF N
  <2> QED
      BY <1>1, <1>2, Induction
<1> QED
    BY <1>3, <1>f

\* The element the sum over s takes next, and the recursion of MapThenSumSet
\* for the weights w.
First(s) == CHOOSE x \in s : TRUE
SumStep(f, w, D) == [s \in D |-> IF s = {} THEN 0 ELSE w[First(s)] + f[s \ {First(s)}]]
IsSum(f, w, S) == f = SumStep(f, w, SUBSET S)

\* The recursion is well defined.
LEMMA SumExists ==
    ASSUME NEW S, IsFiniteSet(S), NEW w
    PROVE  \E f : IsSum(f, w, S)
<1> DEFINE Upto(n) == {s \in SUBSET S : Cardinality(s) <= n}
           N == {n \in Nat : \E f : f = SumStep(f, w, Upto(n))}
<1>f. \A s \in SUBSET S : IsFiniteSet(s) /\ Cardinality(s) \in Nat /\ Cardinality(s) <= Cardinality(S)
    BY FS_Subset, FS_CardinalityType
<1>1. 0 \in N
  <2> DEFINE f == [s \in Upto(0) |-> 0]
  <2>1. \A s \in Upto(0) : s = {}
      BY <1>f, FS_EmptySet
  <2>2. f = SumStep(f, w, Upto(0))
      BY <2>1 DEF SumStep
  <2> QED
      BY <2>2
<1>2. ASSUME NEW n \in Nat, n \in N PROVE n + 1 \in N
  <2>1. PICK f : f = SumStep(f, w, Upto(n))
      BY <1>2
  <2> DEFINE g == SumStep(f, w, Upto(n + 1))
  <2>2. \A s \in Upto(n) : s \in Upto(n + 1) /\ g[s] = f[s]
    <3> TAKE s \in Upto(n)
    <3>1. s \in Upto(n + 1)
        BY <1>f
    <3> QED
        BY <2>1, <3>1 DEF SumStep
  <2>3. \A s \in Upto(n + 1) : s # {} => s \ {First(s)} \in Upto(n)
    <3> SUFFICES ASSUME NEW s \in Upto(n + 1), s # {} PROVE s \ {First(s)} \in Upto(n)
        OBVIOUS
    <3>1. First(s) \in s
        BY DEF First
    <3> QED
        BY <1>f, <3>1, OneLess
  <2>4. \A s \in Upto(n + 1) :
           g[s] = IF s = {} THEN 0 ELSE w[First(s)] + g[s \ {First(s)}]
      BY <2>2, <2>3 DEF SumStep
  <2>5. g = [s \in Upto(n + 1) |-> g[s]]
      BY DEF SumStep
  <2> HIDE DEF g, Upto
  <2>6. g = SumStep(g, w, Upto(n + 1))
      BY <2>4, <2>5 DEF SumStep
  <2> QED
      BY <2>6
<1>3. Cardinality(S) \in N
  <2> HIDE DEF N
  <2>1. Nat \subseteq N
      BY <1>1, <1>2, Induction
  <2> QED
      BY <2>1, FS_CardinalityType
<1>4. Upto(Cardinality(S)) = SUBSET S
    BY <1>f
<1> HIDE DEF Upto
<1> QED
    BY <1>3, <1>4 DEF IsSum

\* What a sum is: 0 over the empty set, and over another one the weight of any
\* one of its elements more than over the rest.
SumOf(w, S) == (CHOOSE f : IsSum(f, w, S))[S]

\* The recurrence, on every subset.
LEMMA SumRecurs ==
    ASSUME NEW S, NEW w, NEW f, IsSum(f, w, S)
    PROVE  \A s \in SUBSET S : f[s] = IF s = {} THEN 0 ELSE w[First(s)] + f[s \ {First(s)}]
  BY DEF IsSum, SumStep

\* A sum of integers is an integer.
LEMMA SumType ==
    ASSUME NEW S, IsFiniteSet(S), NEW w, \A x \in S : w[x] \in Int, NEW f, IsSum(f, w, S)
    PROVE  \A s \in SUBSET S : f[s] \in Int
<1> DEFINE T == {s \in SUBSET S : f[s] \in Int}
<1>1. ASSUME NEW s \in SUBSET S, \A x \in s : s \ {x} \in T PROVE s \in T
  <2>1. s # {} => First(s) \in s
      BY DEF First
  <2>2. f[s] = IF s = {} THEN 0 ELSE w[First(s)] + f[s \ {First(s)}]
      BY SumRecurs
  <2>3. CASE s = {}
      BY <2>2, <2>3
  <2>4. CASE s # {}
    <3>1. w[First(s)] \in Int /\ f[s \ {First(s)}] \in Int
        BY <1>1, <2>1, <2>4
    <3> QED
        BY <2>2, <2>4, <3>1
  <2> QED
      BY <2>3, <2>4
<1> HIDE DEF T
<1>2. \A s \in SUBSET S : s \in T
    BY <1>1, SubsetInduction
<1> QED
    BY <1>2 DEF T

\* The order in which the elements are taken does not matter.
LEMMA SumInAnyOrder ==
    ASSUME NEW S, IsFiniteSet(S), NEW w, \A x \in S : w[x] \in Int, NEW f, IsSum(f, w, S)
    PROVE  \A s \in SUBSET S : \A x \in s : f[s] = w[x] + f[s \ {x}]
<1> DEFINE T == {s \in SUBSET S : \A x \in s : f[s] = w[x] + f[s \ {x}]}
<1>1. ASSUME NEW s \in SUBSET S, \A x \in s : s \ {x} \in T PROVE s \in T
  <2> SUFFICES ASSUME NEW x \in s PROVE f[s] = w[x] + f[s \ {x}]
      OBVIOUS
  <2> DEFINE p == First(s)
  <2>1. p \in s
      BY DEF First
  <2> HIDE DEF p
  <2>2. f[s] = w[p] + f[s \ {p}]
      BY SumRecurs DEF p
  <2>3. CASE p = x
      BY <2>2, <2>3
  <2>4. CASE p # x
    <3>1. f[s \ {p}] = w[x] + f[(s \ {p}) \ {x}]
        BY <1>1, <2>1, <2>4
    <3>2. f[s \ {x}] = w[p] + f[(s \ {x}) \ {p}]
        BY <1>1, <2>1, <2>4
    <3>3. (s \ {p}) \ {x} = (s \ {x}) \ {p}
        OBVIOUS
    <3>4. w[p] \in Int /\ w[x] \in Int /\ f[(s \ {x}) \ {p}] \in Int
        BY <2>1, SumType, (s \ {x}) \ {p} \in SUBSET S
    <3>5. PICK i \in Int, j \in Int, k \in Int :
             i = w[p] /\ j = w[x] /\ k = f[(s \ {x}) \ {p}]
        BY <3>4
    <3>6. f[s] = i + (j + k) /\ w[x] + f[s \ {x}] = j + (i + k)
        BY <2>2, <3>1, <3>2, <3>3, <3>5
    <3> QED
        BY <3>6
  <2> QED
      BY <2>3, <2>4
<1> HIDE DEF T
<1>2. \A s \in SUBSET S : s \in T
    BY <1>1, SubsetInduction
<1> QED
    BY <1>2 DEF T

\* The sum over a set does not depend on the set the recursion was started on.
LEMMA SumUnique ==
    ASSUME NEW S, IsFiniteSet(S), NEW R \in SUBSET S, NEW w,
           NEW f, IsSum(f, w, S), NEW g, IsSum(g, w, R)
    PROVE  \A s \in SUBSET R : g[s] = f[s]
<1> DEFINE T == {s \in SUBSET R : g[s] = f[s]}
<1>0. IsFiniteSet(R)
    BY FS_Subset
<1>1. ASSUME NEW s \in SUBSET R, \A x \in s : s \ {x} \in T PROVE s \in T
  <2>1. s # {} => First(s) \in s
      BY DEF First
  <2>2. s \in SUBSET S
      OBVIOUS
  <2>3. f[s] = IF s = {} THEN 0 ELSE w[First(s)] + f[s \ {First(s)}]
      BY <2>2, SumRecurs
  <2>4. g[s] = IF s = {} THEN 0 ELSE w[First(s)] + g[s \ {First(s)}]
      BY SumRecurs
  <2> QED
      BY <1>1, <2>1, <2>3, <2>4
<1> HIDE DEF T
<1>2. \A s \in SUBSET R : s \in T
    BY <1>0, <1>1, SubsetInduction
<1> QED
    BY <1>2 DEF T

\* Sums add up element by element.
LEMMA SumAdds ==
    ASSUME NEW S, IsFiniteSet(S), NEW w, \A x \in S : w[x] \in Int
    PROVE  /\ SumOf(w, {}) = 0 /\ SumOf(w, S) \in Int
           /\ \A x \in S : SumOf(w, S) = w[x] + SumOf(w, S \ {x})
<1> DEFINE F(R) == CHOOSE f : IsSum(f, w, R)
<1>1. \A R \in SUBSET S : IsSum(F(R), w, R) /\ SumOf(w, R) = F(R)[R]
    BY FS_Subset, SumExists DEF SumOf
<1> HIDE DEF F
<1>2. IsSum(F(S), w, S) /\ IsSum(F({}), w, {}) /\ SumOf(w, S) = F(S)[S] /\ SumOf(w, {}) = F({})[{}]
    BY <1>1
<1>3. SumOf(w, {}) = 0
    BY <1>2, SumRecurs
<1>4. SumOf(w, S) \in Int
    BY <1>2, SumType
<1>5. ASSUME NEW x \in S PROVE SumOf(w, S) = w[x] + SumOf(w, S \ {x})
  <2>1. F(S)[S] = w[x] + F(S)[S \ {x}]
      BY <1>2, SumInAnyOrder
  <2>2. IsSum(F(S \ {x}), w, S \ {x}) /\ SumOf(w, S \ {x}) = F(S \ {x})[S \ {x}]
      BY <1>1
  <2>3. F(S \ {x})[S \ {x}] = F(S)[S \ {x}]
      BY <1>2, <2>2, SumUnique
  <2> QED
      BY <1>2, <2>1, <2>2, <2>3
<1> QED
    BY <1>3, <1>4, <1>5

\* Total and Squares are such sums.
Squared == [u \in Txns |-> Amount[u] * Amount[u]]

\* Total is the sum of the amounts.
LEMMA TotalIsSum == ASSUME NEW S PROVE Total(S) = SumOf(Amount, S)
<1>1. SumOf(Amount, S) = (CHOOSE f : f = [s \in SUBSET S |->
          IF s = {} THEN 0
          ELSE Amount[CHOOSE x \in s : TRUE] + f[s \ {CHOOSE x \in s : TRUE}]])[S]
    BY DEF SumOf, IsSum, SumStep, First
<1> QED
    BY <1>1 DEF Total, MapThenSumSet, MapThenFoldSet

\* Squares is the sum of their squares.
LEMMA SquaresIsSum ==
    ASSUME NEW S \in SUBSET Txns, IsFiniteSet(S) PROVE Squares(S) = SumOf(Squared, S)
<1> DEFINE Step(f) == [s \in SUBSET S |->
              IF s = {} THEN 0
              ELSE Amount[CHOOSE x \in s : TRUE] * Amount[CHOOSE x \in s : TRUE]
                   + f[s \ {CHOOSE x \in s : TRUE}]]
           h == CHOOSE f : f = Step(f)
           g == CHOOSE f : IsSum(f, Squared, S)
<1>1. Squares(S) = h[S]
    BY DEF Squares, MapThenSumSet, MapThenFoldSet
<1>2. ASSUME NEW f PROVE Step(f) = SumStep(f, Squared, SUBSET S)
  <2>1. \A s \in SUBSET S : s # {} => First(s) \in Txns
      BY DEF First
  <2> QED
      BY <2>1 DEF SumStep, Squared, First
<1> HIDE DEF Step
<1>3. IsSum(g, Squared, S)
    BY SumExists
<1>4. g = Step(g)
    BY <1>2, <1>3 DEF IsSum
<1>5. h = Step(h)
    BY <1>4
<1>6. IsSum(h, Squared, S)
    BY <1>2, <1>5 DEF IsSum
<1> HIDE DEF g, h
<1>7. h[S] = g[S]
    BY <1>3, <1>6, SumUnique
<1> QED
    BY <1>1, <1>7 DEF SumOf, g

\* Both, element by element.
LEMMA Sums ==
    ASSUME NEW S \in SUBSET Txns, IsFiniteSet(S)
    PROVE  /\ Total({}) = 0 /\ Squares({}) = 0 /\ Total(S) \in Int /\ Squares(S) \in Int
           /\ \A x \in S : /\ Total(S) = Amount[x] + Total(S \ {x})
                           /\ Squares(S) = Amount[x] * Amount[x] + Squares(S \ {x})
<1>1. \A x \in Txns : Amount[x] \in Int /\ Squared[x] = Amount[x] * Amount[x] /\ Squared[x] \in Int
    BY AmountAssumption DEF Squared
<1>2. IsFiniteSet({}) /\ \A x \in S : IsFiniteSet(S \ {x})
    BY FS_EmptySet, FS_RemoveElement
<1>3. /\ Total({}) = SumOf(Amount, {}) /\ Total(S) = SumOf(Amount, S)
      /\ \A x \in S : Total(S \ {x}) = SumOf(Amount, S \ {x})
    BY TotalIsSum
<1>4. /\ Squares({}) = SumOf(Squared, {}) /\ Squares(S) = SumOf(Squared, S)
      /\ \A x \in S : Squares(S \ {x}) = SumOf(Squared, S \ {x})
    BY <1>2, SquaresIsSum
<1>5. /\ SumOf(Amount, {}) = 0 /\ SumOf(Amount, S) \in Int
      /\ \A x \in S : SumOf(Amount, S) = Amount[x] + SumOf(Amount, S \ {x})
    BY <1>1, SumAdds
<1>6. /\ SumOf(Squared, {}) = 0 /\ SumOf(Squared, S) \in Int
      /\ \A x \in S : SumOf(Squared, S) = Squared[x] + SumOf(Squared, S \ {x})
    BY <1>1, SumAdds
<1> QED
    BY <1>1, <1>3, <1>4, <1>5, <1>6
-----------------------------------------------------------------------------
(* An outlier needs company.                                                 *)

\* A larger set has the larger total, and only the empty one has none.
LEMMA TotalGrows ==
    ASSUME NEW S \in SUBSET Txns, IsFiniteSet(S)
    PROVE  /\ \A H \in SUBSET S : Total(H) <= Total(S)
           /\ S # {} => Total(S) > 0
<1>a. \A x \in Txns : Amount[x] \in Int /\ Amount[x] > 0
    BY AmountAssumption
<1>s. \A s \in SUBSET S : /\ Total({}) = 0 /\ Total(s) \in Int
                          /\ \A x \in s : Total(s) = Amount[x] + Total(s \ {x})
    BY FS_Subset, Sums
<1> DEFINE T == {s \in SUBSET S : /\ Total(s) >= 0
                                  /\ s # {} => Total(s) > 0
                                  /\ \A H \in SUBSET s : Total(H) <= Total(s)}
<1>1. ASSUME NEW s \in SUBSET S, \A x \in s : s \ {x} \in T PROVE s \in T
  <2>1. CASE s = {}
      BY <1>s, <2>1
  <2>2. CASE s # {}
    <3>1. \A x \in s : Total(s \ {x}) >= 0 /\ Total(s) > Total(s \ {x})
        BY <1>1, <1>a, <1>s
    <3>2. Total(s) > 0
      <4>1. PICK x \in s : Total(s \ {x}) >= 0 /\ Total(s) > Total(s \ {x})
          BY <2>2, <3>1
      <4>2. Total(s) \in Int /\ Total(s \ {x}) \in Int
          BY <1>s
      <4> QED
          BY <4>1, <4>2
    <3>3. ASSUME NEW H \in SUBSET s PROVE Total(H) <= Total(s)
      <4>1. CASE H = s
          BY <4>1, <1>s
      <4>2. CASE H # s
        <5>1. PICK x \in s : H \in SUBSET (s \ {x})
            BY <4>2
        <5>2. Total(H) <= Total(s \ {x})
            BY <1>1, <5>1
        <5>3. Total(s \ {x}) < Total(s)
            BY <3>1
        <5>4. Total(H) \in Int /\ Total(s) \in Int /\ Total(s \ {x}) \in Int
            BY <1>s
        <5> QED
            BY <5>2, <5>3, <5>4
      <4> QED
          BY <4>1, <4>2
    <3> QED
        BY <3>2, <3>3, <1>s
  <2> QED
      BY <2>1, <2>2
<1> HIDE DEF T
<1>2. S \in T
    BY <1>1, SubsetInduction
<1> QED
    BY <1>2 DEF T

\* The squared distances of the amounts of S from any a are not negative in sum.
LEMMA DistancesAdd ==
    ASSUME NEW S \in SUBSET Txns, IsFiniteSet(S), NEW a \in Int
    PROVE  Squares(S) + Cardinality(S) * a * a - 2 * a * Total(S) >= 0
<1>s. \A s \in SUBSET S :
         /\ Total({}) = 0 /\ Squares({}) = 0 /\ Total(s) \in Int /\ Squares(s) \in Int
         /\ \A x \in s : /\ Total(s) = Amount[x] + Total(s \ {x})
                         /\ Squares(s) = Amount[x] * Amount[x] + Squares(s \ {x})
    BY FS_Subset, Sums
<1>c. Cardinality({}) = 0
    BY FS_EmptySet
<1> DEFINE T == {s \in SUBSET S : Squares(s) + Cardinality(s) * a * a - 2 * a * Total(s) >= 0}
<1>1. ASSUME NEW s \in SUBSET S, \A x \in s : s \ {x} \in T PROVE s \in T
  <2>1. CASE s = {}
      BY <1>s, <1>c, <2>1
  <2>2. ASSUME NEW x \in s PROVE s \in T
    <3>1. PICK b \in Int, n \in Int, t \in Int, q \in Int :
             /\ b = Amount[x] /\ n = Cardinality(s \ {x})
             /\ t = Total(s \ {x}) /\ q = Squares(s \ {x})
             /\ Cardinality(s) = n + 1
      <4>1. Amount[x] \in Int
          BY AmountAssumption
      <4>2. Cardinality(s \ {x}) \in Int /\ Cardinality(s) = Cardinality(s \ {x}) + 1
          BY OneLess, FS_Subset
      <4>3. Total(s \ {x}) \in Int /\ Squares(s \ {x}) \in Int
          BY <1>s, s \ {x} \in SUBSET S
      <4> QED
          BY <4>1, <4>2, <4>3
    <3>2. q + n * a * a - 2 * a * t >= 0
        BY <1>1, <3>1
    <3>3. Total(s) = b + t /\ Squares(s) = b * b + q
        BY <1>s, <3>1
    <3>4. (b * b + q) + (n + 1) * a * a - 2 * a * (b + t)
             = (q + n * a * a - 2 * a * t) + (b - a) * (b - a)
        OBVIOUS
    <3>5. (b - a) * (b - a) >= 0
        OBVIOUS
    <3>6. (b * b + q) + (n + 1) * a * a - 2 * a * (b + t) >= 0
        BY <3>2, <3>4, <3>5
    <3> QED
        BY <3>1, <3>3, <3>6
  <2> QED
      BY <2>1, <2>2
<1> HIDE DEF T
<1>2. S \in T
    BY <1>1, SubsetInduction
<1> QED
    BY <1>2 DEF T

\* The variance is not negative: the square of the total is at most the
\* number of entries times the sum of the squares.
LEMMA SpreadIsNatural ==
    ASSUME NEW S \in SUBSET Txns, IsFiniteSet(S)
    PROVE  Total(S) * Total(S) <= Cardinality(S) * Squares(S)
<1>s. \A s \in SUBSET S :
         /\ Total({}) = 0 /\ Squares({}) = 0 /\ Total(s) \in Int /\ Squares(s) \in Int
         /\ \A x \in s : /\ Total(s) = Amount[x] + Total(s \ {x})
                         /\ Squares(s) = Amount[x] * Amount[x] + Squares(s \ {x})
    BY FS_Subset, Sums
<1>c. Cardinality({}) = 0
    BY FS_EmptySet
<1> DEFINE T == {s \in SUBSET S : Total(s) * Total(s) <= Cardinality(s) * Squares(s)}
<1>1. ASSUME NEW s \in SUBSET S, \A x \in s : s \ {x} \in T PROVE s \in T
  <2>1. CASE s = {}
      BY <1>s, <1>c, <2>1
  <2>2. ASSUME NEW x \in s PROVE s \in T
    <3>1. PICK b \in Int, n \in Int, t \in Int, q \in Int :
             /\ b = Amount[x] /\ n = Cardinality(s \ {x})
             /\ t = Total(s \ {x}) /\ q = Squares(s \ {x})
             /\ Cardinality(s) = n + 1
      <4>1. Amount[x] \in Int
          BY AmountAssumption
      <4>2. Cardinality(s \ {x}) \in Int /\ Cardinality(s) = Cardinality(s \ {x}) + 1
          BY OneLess, FS_Subset
      <4>3. Total(s \ {x}) \in Int /\ Squares(s \ {x}) \in Int
          BY <1>s, s \ {x} \in SUBSET S
      <4> QED
          BY <4>1, <4>2, <4>3
    <3>2. t * t <= n * q
        BY <1>1, <3>1
    <3>3. Total(s) = b + t /\ Squares(s) = b * b + q
        BY <1>s, <3>1
    <3>4. q + n * b * b - 2 * b * t >= 0
        BY <3>1, DistancesAdd, FS_Subset, s \ {x} \in SUBSET Txns, IsFiniteSet(s \ {x})
    <3>5. (n + 1) * (b * b + q) - (b + t) * (b + t)
             = (n * q - t * t) + (q + n * b * b - 2 * b * t)
        OBVIOUS
    <3>6. (b + t) * (b + t) <= (n + 1) * (b * b + q)
        BY <3>2, <3>4, <3>5
    <3> QED
        BY <3>1, <3>3, <3>6
  <2> QED
      BY <2>1, <2>2
<1> HIDE DEF T
<1>2. S \in T
    BY <1>1, SubsetInduction
<1> QED
    BY <1>2 DEF T

\* No element of a sample of n lies further from its mean than sqrt(n - 1)
\* deviations; both sides are multiplied by n^2.
LEMMA OneOutlier ==
    ASSUME NEW S \in SUBSET Txns, IsFiniteSet(S), NEW t \in S
    PROVE  /\ Above(Amount[t], S) \in Int /\ Spread(S) \in Int /\ Cardinality(S) \in Nat
           /\ Above(Amount[t], S) * Above(Amount[t], S) <= (Cardinality(S) - 1) * Spread(S)
<1>1. PICK x \in Int, m \in Int, r \in Int, q \in Int :
         /\ x = Amount[t] /\ m = Cardinality(S \ {t})
         /\ r = Total(S \ {t}) /\ q = Squares(S \ {t})
         /\ m >= 0 /\ Cardinality(S) = m + 1
  <2>1. Amount[t] \in Int
      BY AmountAssumption
  <2>2. Cardinality(S \ {t}) \in Nat /\ Cardinality(S) = Cardinality(S \ {t}) + 1
      BY OneLess
  <2>3. Total(S \ {t}) \in Int /\ Squares(S \ {t}) \in Int
      BY Sums, OneLess, S \ {t} \in SUBSET Txns
  <2> QED
      BY <2>1, <2>2, <2>3
<1>2. Total(S) = x + r /\ Squares(S) = x * x + q
    BY <1>1, Sums
<1>3. r * r <= m * q
    BY <1>1, SpreadIsNatural, OneLess, S \ {t} \in SUBSET Txns
<1>4. Above(Amount[t], S) = x * (m + 1) - (x + r)
    BY <1>1, <1>2 DEF Above
<1>5. Spread(S) = (m + 1) * (x * x + q) - (x + r) * (x + r)
    BY <1>1, <1>2 DEF Spread
<1>6. x * (m + 1) - (x + r) = x * m - r
    OBVIOUS
<1>7. m * ((m + 1) * (x * x + q) - (x + r) * (x + r))
         = (x * m - r) * (x * m - r) + (m + 1) * (m * q - r * r)
    OBVIOUS
<1>8. (m + 1) * (m * q - r * r) >= 0
    BY <1>1, <1>3
<1>9. (x * m - r) * (x * m - r) <= m * ((m + 1) * (x * x + q) - (x + r) * (x + r))
    BY <1>7, <1>8
<1>10. Cardinality(S) - 1 = m
    BY <1>1
<1> QED
    BY <1>1, <1>4, <1>5, <1>6, <1>9, <1>10

\* What OutliersNeedHistory asks of a signal of that rule over that baseline.
HasHistory(rule, base) ==
    /\ rule = "velocity_1h" => Cardinality(base) > VelocityFactor
    /\ rule = "amount_zscore" => Cardinality(base) > ZScore * ZScore + 1

\* The two rules fire on a charge only over a baseline of that size, because
\* the baseline holds the charge and the hour before it.
LEMMA FiringNeedsHistory ==
    ASSUME NEW t \in Txns, NEW f, f.base \in SUBSET Txns, IsFiniteSet(f.base),
           f.hour \subseteq f.base, t \in f.base, NEW rule, Fires(rule, t, f)
    PROVE  HasHistory(rule, f.base)
<1> DEFINE n == Cardinality(f.base)
<1>1. ASSUME rule = "velocity_1h" PROVE n > VelocityFactor
  <2>1. Total(f.hour) * n > VelocityFactor * Total(f.base)
      BY <1>1 DEF Fires
  <2>2. Total(f.hour) <= Total(f.base) /\ Total(f.base) > 0
      BY TotalGrows
  <2>3. PICK h \in Int, b \in Int, k \in Nat, v \in Int :
           h = Total(f.hour) /\ b = Total(f.base) /\ k = n /\ v = VelocityFactor
      BY Sums, FS_Subset, FS_CardinalityType, ThresholdAssumption, f.hour \in SUBSET Txns
  <2>4. h * k > v * b /\ h <= b /\ b > 0
      BY <2>1, <2>2, <2>3
  <2>5. h * k <= b * k
      BY <2>4
  <2>6. v * b < k * b
      BY <2>4, <2>5
  <2>7. v < k
      BY <2>4, <2>6
  <2> QED
      BY <2>3, <2>7
<1>2. ASSUME rule = "amount_zscore" PROVE n > ZScore * ZScore + 1
  <2>1. /\ Spread(f.base) > 0
        /\ Above(Amount[t], f.base) * Above(Amount[t], f.base) > ZScore * ZScore * Spread(f.base)
      BY <1>2 DEF Fires
  <2>2. PICK a \in Int, s \in Int, k \in Nat, z \in Int :
           /\ a = Above(Amount[t], f.base) /\ s = Spread(f.base) /\ k = n /\ z = ZScore
           /\ a * a <= (k - 1) * s
      BY OneOutlier, ThresholdAssumption
  <2>3. s > 0 /\ z * z * s < (k - 1) * s
      BY <2>1, <2>2
  <2>4. PICK y \in Int : y = z * z
      OBVIOUS
  <2>5. y * s < (k - 1) * s
      BY <2>3, <2>4
  <2>6. y < k - 1
      BY <2>3, <2>5
  <2> QED
      BY <2>2, <2>4, <2>6
<1> QED
    BY <1>1, <1>2 DEF HasHistory

\* The charge in hand is in its baseline, the rules that fired on it have the
\* history, and so has every signal written for a charge, committed or not.
Backed ==
    /\ IsFiniteSet(posted)
    /\ pc \in {"read4", "signal"} =>
          seen.base \subseteq posted /\ (Spends[Msg.txn] => Msg.txn \in seen.base)
    /\ pc = "signal" =>
          /\ todo \subseteq DOMAIN Advisory
          /\ Spends[Msg.txn] => \A n \in todo : HasHistory(Advisory[n], seen.base)
    /\ \A s \in signals \cup rows : Spends[s.txn] => HasHistory(s.rule, s.base)

\* The rule whose turn it is is one of those still to be recorded.
LEMMA RuleIsNext == todo \subseteq DOMAIN Advisory /\ todo # {} => Min(todo) \in todo
<1> SUFFICES ASSUME todo \subseteq DOMAIN Advisory, todo # {} PROVE Min(todo) \in todo
    OBVIOUS
<1>1. todo \subseteq 1 .. 5
  <2>1. DOMAIN Advisory = 1 .. 5
      BY DEF Advisory
  <2> QED
      BY <2>1
<1>2. \A y \in todo : y = 1 \/ y = 2 \/ y = 3 \/ y = 4 \/ y = 5
    BY <1>1
<1>3. \E x \in todo : \A y \in todo : x <= y
  <2>1. CASE 1 \in todo
      BY <1>2, <2>1
  <2>2. CASE 1 \notin todo /\ 2 \in todo
      BY <1>2, <2>2
  <2>3. CASE 1 \notin todo /\ 2 \notin todo /\ 3 \in todo
      BY <1>2, <2>3
  <2>4. CASE 1 \notin todo /\ 2 \notin todo /\ 3 \notin todo /\ 4 \in todo
      BY <1>2, <2>4
  <2>5. CASE 1 \notin todo /\ 2 \notin todo /\ 3 \notin todo /\ 4 \notin todo
    <3>1. \A y \in todo : y = 5
        BY <1>2, <2>5
    <3> QED
        BY <3>1
  <2> QED
      BY <2>1, <2>2, <2>3, <2>4, <2>5
<1> QED
    BY <1>3 DEF Min

\* What was posted stays finite.
LEMMA PostedFinite == IsFiniteSet(posted) /\ [Next]_vars => IsFiniteSet(posted')
<1> SUFFICES ASSUME IsFiniteSet(posted), [Next]_vars PROVE IsFiniteSet(posted')
    OBVIOUS
<1> USE DEF ledgerVars
<1>1. ASSUME NEW t \in Txns, PostTransaction(t) PROVE IsFiniteSet(posted')
    BY <1>1, FS_AddElement DEF PostTransaction
<1>2. ASSUME NEW t \in Txns, Normalize(t) PROVE IsFiniteSet(posted')
    BY <1>2 DEF Normalize
<1>3. CASE NormalizeCommit \/ NormalizeFails \/ ReplayClear \/ ReplaySeek \/ UNCHANGED vars
    BY <1>3 DEF NormalizeCommit, NormalizeFails, ReplayClear, ReplaySeek, vars
<1>4. CASE RiskStep
    BY <1>4 DEF RiskStep, Take, RecordLate, Read1, Read2, Read3, Evaluate, Announce,
                CommitWork, Advance, Fail, Restart
<1> QED
    BY <1>1, <1>2, <1>3, <1>4 DEF Next

\* Every step of the specification keeps Backed.
LEMMA NextBacked == Types /\ Nest /\ Backed /\ [Next]_vars => Backed'
<1> SUFFICES ASSUME Types, Nest, Backed, [Next]_vars PROVE Backed'
    OBVIOUS
<1> USE DEF ledgerVars, workVars, storeVars, riskVars, operatorVars
<1>f. IsFiniteSet(posted')
    BY PostedFinite DEF Backed
<1>m. Busy => Msg.txn \in Txns /\ Msg.txn \in posted
    BY DEF Types, Msg, Busy
<1>g. Busy /\ cur' = cur => Msg' = Msg
    BY Grows DEF Types, Msg, Busy
<1>p. posted \subseteq posted'
    BY Grows
<1>0. CASE UNCHANGED <<cur, pc, seen, todo, rows, signals>>
    BY <1>0, <1>f, <1>g, <1>p DEF Backed, Busy
<1>1. CASE \E t \in Txns : PostTransaction(t) \/ Normalize(t)
    BY <1>0, <1>1 DEF PostTransaction, Normalize
<1>2. CASE NormalizeCommit \/ NormalizeFails \/ ReplayClear \/ ReplaySeek \/ UNCHANGED vars
    BY <1>0, <1>2 DEF NormalizeCommit, NormalizeFails, ReplayClear, ReplaySeek, vars
<1>3. CASE /\ pc' \notin {"read4", "signal"}
           /\ signals' \subseteq signals \cup rows /\ rows' \subseteq rows
    BY <1>3, <1>f DEF Backed
<1>4. CASE Take \/ RecordLate \/ Read1 \/ Read2
    BY <1>3, <1>4 DEF Take, RecordLate, Read1, Read2
<1>5. CASE CommitWork \/ Advance \/ Fail \/ Restart
    BY <1>3, <1>5 DEF CommitWork, Advance, Fail, Restart, NoWork
<1>6. CASE Read3
  <2>1. /\ pc = "read3" /\ pc' = "read4" /\ Busy
        /\ UNCHANGED <<cur, posted, rows, signals>>
      BY <1>6 DEF Read3, Busy
  <2>2. seen'.base = WindowOf(Msg.txn, "base")
    <3>1. seen' = Queried(seen, "base")
        BY <1>6 DEF Read3, Queries
    <3> QED
        BY <3>1, QueryWrites DEF Types
  <2>3. WindowOf(Msg.txn, "base") \subseteq posted
      BY DEF WindowOf
  <2>4. Spends[Msg.txn] => Msg.txn \in WindowOf(Msg.txn, "base")
      BY <1>m, <2>1, WindowAssumption DEF WindowOf
  <2> QED
      BY <2>1, <2>2, <2>3, <2>4, <1>f, <1>g DEF Backed
<1>7. CASE Evaluate
  <2>1. /\ pc = "read4" /\ pc' = "signal" /\ Busy /\ rows' = {}
        /\ UNCHANGED <<cur, posted, signals>>
      BY <1>7 DEF Evaluate, Busy
  <2>3. seen'.hour = seen.hour /\ seen'.base = seen.base
      BY <1>7, EvaluateWrites DEF Types, Windows
  <2>4. todo' = {n \in DOMAIN Advisory : Fires(Advisory[n], Msg.txn, seen')}
      BY <1>7 DEF Evaluate
  <2>5. /\ seen.base \subseteq posted /\ seen.hour \subseteq seen.base
        /\ Spends[Msg.txn] => Msg.txn \in seen.base
      BY <2>1 DEF Backed, Nest
  <2>6. seen'.base \in SUBSET Txns /\ IsFiniteSet(seen'.base)
      BY <2>3, <2>5, FS_Subset DEF Types, Backed
  <2>7. ASSUME Spends[Msg.txn], NEW n \in todo' PROVE HasHistory(Advisory[n], seen'.base)
      BY <1>m, <2>1, <2>3, <2>4, <2>5, <2>6, <2>7, FiringNeedsHistory
  <2> QED
      BY <1>f, <1>g, <2>1, <2>3, <2>4, <2>5, <2>7 DEF Backed
<1>8. CASE Announce
  <2>1. /\ pc = "signal" /\ pc' = "signal" /\ Busy /\ todo # {}
        /\ UNCHANGED <<cur, posted, seen, signals>>
        /\ todo' = todo \ {Min(todo)} /\ rows' = rows \cup {Signal}
      BY <1>8 DEF Announce, Busy
  <2>2. Signal.txn = Msg.txn /\ Signal.rule = Advisory[Min(todo)] /\ Signal.base = seen.base
      BY DEF Signal, Rule
  <2>3. Spends[Msg.txn] => HasHistory(Advisory[Min(todo)], seen.base)
      BY <2>1, RuleIsNext DEF Backed
  <2> HIDE DEF Signal
  <2> QED
      BY <1>f, <1>g, <2>1, <2>2, <2>3 DEF Backed
<1> QED
    BY <1>1, <1>2, <1>4, <1>5, <1>6, <1>7, <1>8 DEF Next, RiskStep

\* A signal that calls a charge an outlier of its account has more history
\* behind it than the threshold of its rule, although rules.py guards the
\* sample size nowhere: for every amount, every threshold and every commit
\* between the queries of compute.
THEOREM OutliersHaveHistory == Spec => []OutliersNeedHistory
<1>1. Init => Nest /\ Backed
    BY FS_EmptySet DEF Init, Nest, WindowsNest, Backed
<1>2. Backed => OutliersNeedHistory
    BY DEF Backed, OutliersNeedHistory, HasHistory
<1> QED
    BY <1>1, <1>2, TypesHold, NextNest, NextBacked, PTL DEF Spec
=============================================================================
