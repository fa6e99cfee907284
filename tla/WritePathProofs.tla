--------------------------- MODULE WritePathProofs ---------------------------
(***************************************************************************)
(* Machine-checked proofs about WritePath, for every number of threads,    *)
(* keys, accounts and requests.                                            *)
(*                                                                         *)
(* TypeOK /\ Inv is inductive.  Most actions end a transaction by rolling  *)
(* it back, and are treated together (Ends); the others have a step each.  *)
(* On top of it stand three more: CacheInv (what a snapshot sums up),      *)
(* RowsFit /\ ScreenHolds (what the velocity screen let pass) and          *)
(* FloorsInv (what a thread has checked against the floors and holds).     *)
(***************************************************************************)
EXTENDS WritePath, SequenceTheorems, FiniteSetTheorems, TLAPS

Leg == [account : Accounts, direction : Directions,
        amount : Nat \ {0}, currency : {Currency[a] : a \in Accounts}]

PostingType(b) == /\ b.amount \in Int
                  /\ b.split \in Seq([role : STRING, minor : Int])

-----------------------------------------------------------------------------
(* What posting rules produce.                                              *)

\* A rule's legs are on the accounts of the request, in its currency.
LEMMA RuleLegs ==
  ASSUME NEW b, PostingType(b), ValidPosting(b)
  PROVE  /\ Legs(b) \in Seq([account : Accounts, direction : Directions,
                             amount : Int, currency : {Currency[a] : a \in Accounts}])
         /\ Len(Legs(b)) >= 2
         /\ \A i \in DOMAIN Legs(b) : Legs(b)[i].amount > 0
<1> DEFINE Cur == {Currency[a] : a \in Accounts}
           L   == [account : Accounts, direction : Directions, amount : Int, currency : Cur]
<1>1. \A i \in DOMAIN Legs(b) : Legs(b)[i].amount > 0
  BY DEF ValidPosting, Buildable, JournalAccepts
<1>2. Len(Legs(b)) >= 2
  BY DEF ValidPosting, Buildable, JournalAccepts
<1>3. \A role \in DOMAIN b.accounts : b.accounts[role] \in Accounts /\ b.currency \in Cur
  BY DEF ValidPosting
<1>4. \A role \in DOMAIN b.accounts, d \in Directions, m \in Int :
         Entry(b.accounts[role], d, m, b.currency) \in L
  BY <1>3 DEF Entry
<1>5. CASE b.kind = "split_purchase"
  <2>1. /\ "funding" \in DOMAIN b.accounts
        /\ \A i \in DOMAIN b.split : b.split[i].role \in DOMAIN b.accounts
    BY <1>5 DEF ValidPosting, Buildable, RuleAccepts, Shape
  <2> DEFINE debits == [i \in DOMAIN b.split |->
                 Entry(b.accounts[b.split[i].role], "debit", b.split[i].minor, b.currency)]
  <2>2. DOMAIN b.split = 1 .. Len(b.split) /\ Len(b.split) \in Nat
    BY DEF PostingType
  <2>3. \A i \in DOMAIN b.split : b.split[i].minor \in Int
    <3>1. b.split \in Seq([role : STRING, minor : Int])
      BY DEF PostingType
    <3>2. \A i \in 1 .. Len(b.split) : b.split[i] \in [role : STRING, minor : Int]
      BY <3>1, ElementOfSeq
    <3> QED BY <2>2, <3>2
  <2>4. \A i \in DOMAIN b.split :
           Entry(b.accounts[b.split[i].role], "debit", b.split[i].minor, b.currency) \in L
    BY <1>4, <2>1, <2>3 DEF Directions
  <2>5. debits \in Seq(L)
    <3> HIDE DEF L
    <3>1. \A i \in 1 .. Len(b.split) :
             Entry(b.accounts[b.split[i].role], "debit", b.split[i].minor, b.currency) \in L
      BY <2>2, <2>4
    <3>2. debits \in [1 .. Len(b.split) -> L]
      BY <2>2, <3>1
    <3> QED BY <2>2, <3>2, SeqDef
  <2>6. Entry(b.accounts["funding"], "credit", b.amount, b.currency) \in L
    BY <1>4, <2>1 DEF Directions, PostingType
  <2>7. Legs(b) \in Seq(L)
    BY <1>5, <2>5, <2>6, AppendProperties DEF Legs, SplitPurchase
  <2> QED BY <1>1, <1>2, <2>7
<1>6. CASE b.kind # "split_purchase"
  <2>1. /\ b.kind \in DOMAIN Shape
        /\ Shape[b.kind][1] \in DOMAIN b.accounts
        /\ Shape[b.kind][2] \in DOMAIN b.accounts
    BY <1>6 DEF ValidPosting, Buildable, RuleAccepts
  <2>2. /\ Entry(b.accounts[Shape[b.kind][1]], "debit", b.amount, b.currency) \in L
        /\ Entry(b.accounts[Shape[b.kind][2]], "credit", b.amount, b.currency) \in L
    BY <1>4, <2>1 DEF Directions, PostingType
  <2>3. Legs(b) \in Seq(L)
    BY <1>6, <2>2 DEF Legs, Simple
  <2> QED BY <1>1, <1>2, <2>3
<1> QED BY <1>5, <1>6

\* The legs of a valid posting are typed, positive and at least two.
LEMMA LegsType ==
  ASSUME NEW b, PostingType(b), ValidPosting(b)
  PROVE  Legs(b) \in Seq(Leg) /\ Legs(b) # <<>>
<1> DEFINE L == [account : Accounts, direction : Directions,
                 amount : Int, currency : {Currency[a] : a \in Accounts}]
<1>1. /\ Legs(b) \in Seq(L)
      /\ Len(Legs(b)) >= 2
      /\ \A i \in DOMAIN Legs(b) : Legs(b)[i].amount > 0
  BY RuleLegs
<1>2. DOMAIN Legs(b) = 1 .. Len(Legs(b)) /\ Len(Legs(b)) \in Nat
  BY <1>1
<1>3. \A i \in 1 .. Len(Legs(b)) : Legs(b)[i] \in L
  BY <1>1, ElementOfSeq
<1>4. \A i \in 1 .. Len(Legs(b)) : Legs(b)[i] \in Leg
  BY <1>1, <1>2, <1>3 DEF Leg
<1>5. Legs(b) \in [1 .. Len(Legs(b)) -> Leg]
  <2> HIDE DEF L
  <2>1. Legs(b) = [i \in 1 .. Len(Legs(b)) |-> Legs(b)[i]]
    BY <1>1, SeqDef, <1>2
  <2> QED BY <1>4, <2>1
<1>6. Legs(b) \in Seq(Leg)
  BY <1>2, <1>5, SeqDef
<1> QED BY <1>1, <1>6

\* The mirror of typed rows is typed legs.
LEMMA ReversalType ==
  ASSUME NEW s \in Seq(Row)
  PROVE  /\ DOMAIN Reversal(s) = 1 .. Len(s)
         /\ \A i \in 1 .. Len(s) : /\ Reversal(s)[i].account \in Accounts
                                  /\ Reversal(s)[i].direction \in Directions
                                  /\ Reversal(s)[i].amount \in Nat \ {0}
                                  /\ Reversal(s)[i].currency \in {Currency[a] : a \in Accounts}
<1>1. DOMAIN s = 1 .. Len(s)
  OBVIOUS
<1>2. \A i \in 1 .. Len(s) : s[i] \in Row
  BY ElementOfSeq
<1>3. DOMAIN Reversal(s) = 1 .. Len(s)
  BY <1>1 DEF Reversal
<1>4. \A d : Opposite(d) \in Directions
  BY DEF Opposite, Directions
<1> QED BY <1>1, <1>2, <1>3, <1>4 DEF Reversal, Entry, Row

Txn == [req : Requests, rows : Seq(Row), reverses : Nat]

\* The committed transactions are numbered from 1 without gaps.
LEMMA TxnType ==
  ASSUME TypeOK
  PROVE  /\ txns \in Seq(Txn)
         /\ Len(txns) \in Nat
         /\ DOMAIN txns = 1 .. Len(txns)
         /\ \A i \in DOMAIN txns : /\ txns[i] \in Txn
                                  /\ txns[i].req \in Requests
                                  /\ txns[i].rows \in Seq(Row)
                                  /\ txns[i].reverses \in Nat
<1>1. txns \in Seq(Txn)
  BY DEF TypeOK, Txn
<1>2. Len(txns) \in Nat /\ DOMAIN txns = 1 .. Len(txns)
  BY <1>1
<1>3. \A i \in 1 .. Len(txns) : txns[i] \in Txn
  BY <1>1, ElementOfSeq
<1> QED BY <1>1, <1>2, <1>3 DEF Txn

\* The rows a thread inserts, whichever of the two operations it runs.
LEMMA InsertedType ==
  ASSUME TypeOK, Inv, NEW t \in Threads, pc[t] = "insert"
  PROVE  LET legs == LegsToInsert(t)
         IN  /\ Len(legs) \in Nat \ {0}
             /\ DOMAIN legs = 1 .. Len(legs)
             /\ \A i \in 1 .. Len(legs) :
                   /\ legs[i].account \in Accounts
                   /\ legs[i].direction \in Directions
                   /\ legs[i].amount \in Nat \ {0}
                   /\ legs[i].currency \in {Currency[a] : a \in Accounts}
<1>1. req[t] \in Requests
  BY DEF Inv, ThreadShape, FitsPlace
<1>2. CASE IsReversal(t)
  <2>1. Body(t).target \in DOMAIN txns
    BY <1>2 DEF Inv, ThreadShape, FitsPlace
  <2> DEFINE s == txns[Body(t).target].rows
  <2>2. s \in Seq(Row) /\ s # <<>>
    <3>1. s \in Seq(Row)
      BY <2>1, TxnType
    <3>2. s # <<>>
      BY <2>1 DEF Inv, TxnShape
    <3> QED BY <3>1, <3>2
  <2>3. Len(s) \in Nat \ {0}
    BY <2>2
  <2>4. LegsToInsert(t) = Reversal(s)
    BY <1>2 DEF LegsToInsert
  <2> HIDE DEF s
  <2>5. Len(Reversal(s)) = Len(s)
    BY <2>2, <2>3, ReversalType, LenProperties DEF Reversal
  <2> QED BY <2>2, <2>3, <2>4, <2>5, ReversalType
<1>3. CASE ~IsReversal(t)
  <2> DEFINE b == Body(t)
  <2>1. ValidPosting(b) /\ PostingType(b)
    BY <1>1, <1>3, RequestAssumption DEF Inv, ThreadShape, FitsPlace, PostingType, IsReversal, Body
  <2>2. Legs(b) \in Seq(Leg) /\ Legs(b) # <<>>
    BY <2>1, LegsType
  <2>3. LegsToInsert(t) = Legs(b)
    BY <1>3 DEF LegsToInsert
  <2>4. \A i \in 1 .. Len(Legs(b)) : Legs(b)[i] \in Leg
    BY <2>2, ElementOfSeq
  <2>5. Len(Legs(b)) \in Nat \ {0} /\ DOMAIN Legs(b) = 1 .. Len(Legs(b))
    BY <2>2
  <2> QED BY <2>3, <2>4, <2>5 DEF Leg
<1> QED BY <1>2, <1>3
-----------------------------------------------------------------------------
(* Type correctness.                                                        *)

\* Every way a database transaction ends without a commit.
Ends(t) ==
    /\ pc[t] # "idle"
    /\ Release(t)
    /\ reply' = [reply EXCEPT ![t] = 0]
    /\ \E next \in {"respond", "decline", "idle"} :
          /\ pc' = [pc EXCEPT ![t] = next]
          /\ req' = IF next = "idle" THEN [req EXCEPT ![t] = NoRequest] ELSE req
    /\ UNCHANGED <<tables, serials, snapVars, signals, sent, answers>>

RollsBack(t) ==
    \/ RefuseKeyReuse(t) \/ RejectPosting(t) \/ DeclinePosting(t) \/ RefuseFloor(t)
    \/ RejectReversal(t) \/ RefuseSecondReversal(t) \/ LockTimeout(t) \/ DeadlockAbort(t)
    \/ Crash(t)

\* Every way a transaction is rolled back, refused or cut off ends it (unit_of_work).
LEMMA RollsBackEnds ==
  ASSUME NEW t \in Threads, RollsBack(t)
  PROVE  Ends(t)
<1>1. CASE Crash(t)
  BY <1>1 DEF Crash, RollBack, Ends
<1>2. CASE DeclinePosting(t)
  BY <1>2 DEF DeclinePosting, RollBack, Ends
<1>3. CASE RefuseKeyReuse(t) \/ RejectPosting(t) \/ RefuseFloor(t) \/ RejectReversal(t)
           \/ RefuseSecondReversal(t) \/ LockTimeout(t) \/ DeadlockAbort(t)
  <2>1. pc[t] # "idle" /\ Fail(t)
    BY <1>3 DEF RefuseKeyReuse, RejectPosting, RefuseFloor, RejectReversal,
                RefuseSecondReversal, LockTimeout, DeadlockAbort
  <2> QED BY <2>1 DEF Fail, RollBack, Ends
<1> QED BY <1>1, <1>2, <1>3 DEF RollsBack

\* Every step keeps the types.  Inv is used where a thread relies on what an
\* earlier step of its handler checked.
LEMMA TypeStep ==
  ASSUME TypeOK, Inv, [Next]_vars
  PROVE  TypeOK'
<1> USE DEF InTransaction
<1>1. ASSUME NEW t \in Threads, Ends(t)
      PROVE  TypeOK'
  BY <1>1 DEF TypeOK, Ends, Release, tables, serials, snapVars, Procs
<1>2. ASSUME NEW t \in Threads, NEW r \in Requests, Send(t, r)
      PROVE  TypeOK'
  BY <1>2 DEF TypeOK, Send, tables, serials, locks, work, snapVars
<1>3. ASSUME NEW t \in Threads, Claim(t) \/ ReadOriginal(t)
      PROVE  TypeOK'
  BY <1>3 DEF TypeOK, Claim, ReadOriginal, Goto, tables, serials, locks, work, snapVars
<1>4. ASSUME NEW t \in Threads, Replay(t)
      PROVE  TypeOK'
  <2>1. PICK row \in keys : reply' = [reply EXCEPT ![t] = row.txn]
    BY <1>4 DEF Replay
  <2>2. row.txn \in Nat
    BY DEF TypeOK
  <2> QED BY <1>4, <2>1, <2>2 DEF TypeOK, Replay, tables, serials, locks, work, snapVars
<1>5. ASSUME NEW t \in Threads, BuildPosting(t)
      PROVE  TypeOK'
  <2>1. AccountsOf(Legs(Body(t))) \in Seq(Accounts)
    <3> DEFINE legs == Legs(Body(t))
    <3>1. ValidPosting(Body(t)) /\ PostingType(Body(t))
      BY <1>5, RequestAssumption DEF BuildPosting, Inv, ThreadShape, FitsPlace, PostingType, IsReversal, Body
    <3>2. legs \in Seq(Leg)
      BY <3>1, LegsType
    <3> HIDE DEF legs
    <3>3. \A i \in 1 .. Len(legs) : legs[i] \in Leg
      BY <3>2, ElementOfSeq
    <3>4. DOMAIN legs = 1 .. Len(legs) /\ Len(legs) \in Nat
      BY <3>2
    <3>5. AccountsOf(legs) \in [1 .. Len(legs) -> Accounts]
      BY <3>3, <3>4 DEF AccountsOf, Leg
    <3> QED BY <3>4, <3>5, SeqDef DEF legs
  <2> QED BY <1>5, <2>1 DEF TypeOK, BuildPosting, Goto, tables, serials, locks, snapVars
<1>6. ASSUME NEW t \in Threads, SkipFloor(t) \/ PassFloor(t)
      PROVE  TypeOK'
  <2>1. todo[t] \in Seq(Accounts) /\ todo[t] # <<>>
    BY <1>6 DEF SkipFloor, PassFloor, Inv, ThreadShape, FitsPlace, TypeOK
  <2>2. Tail(todo[t]) \in Seq(Accounts)
    BY <2>1
  <2> QED BY <1>6, <2>2
          DEF TypeOK, SkipFloor, PassFloor, NextFloor, Goto, tables, serials, locks, snapVars
<1>7. ASSUME NEW t \in Threads, LockAccount(t)
      PROVE  TypeOK'
  <2>1. Head(todo[t]) \in Accounts
    BY <1>7 DEF LockAccount, Inv, ThreadShape, FitsPlace, TypeOK
  <2> QED BY <1>7, <2>1
          DEF TypeOK, LockAccount, Goto, tables, serials, work, snapVars, Procs
<1>8. ASSUME NEW t \in Threads, InsertRows(t)
      PROVE  TypeOK'
  <2> DEFINE legs == LegsToInsert(t)
             new  == [i \in DOMAIN legs |->
                        [id |-> entrySeq + i, account |-> legs[i].account,
                         direction |-> legs[i].direction, amount |-> legs[i].amount,
                         currency |-> legs[i].currency]]
  <2>1. /\ Len(legs) \in Nat \ {0} /\ DOMAIN legs = 1 .. Len(legs)
        /\ \A i \in 1 .. Len(legs) :
              /\ legs[i].account \in Accounts
              /\ legs[i].direction \in Directions
              /\ legs[i].amount \in Nat \ {0}
              /\ legs[i].currency \in {Currency[a] : a \in Accounts}
    BY <1>8, InsertedType DEF InsertRows
  <2>2. /\ rows' = [rows EXCEPT ![t] = new]
        /\ entrySeq' = entrySeq + Len(legs)
        /\ todo' = [todo EXCEPT ![t] = AccountsOf(legs)]
    BY <1>8 DEF InsertRows
  <2> HIDE DEF legs
  <2>3. entrySeq \in Nat
    BY DEF TypeOK
  <2>4. new \in [1 .. Len(legs) -> Row]
    BY <2>1, <2>3 DEF Row
  <2>5. AccountsOf(legs) \in [1 .. Len(legs) -> Accounts]
    BY <2>1 DEF AccountsOf
  <2>6. new \in Seq(Row) /\ AccountsOf(legs) \in Seq(Accounts)
    BY <2>1, <2>4, <2>5, SeqDef
  <2>7. Goto(t, "share") /\ UNCHANGED <<outboxSeq, locks, event>>
    BY <1>8 DEF InsertRows
  <2>8. entrySeq' \in Nat
    BY <2>1, <2>2, <2>3
  <2> HIDE DEF new
  <2>9. rows' \in [Threads -> Seq(Row)] /\ todo' \in [Threads -> Seq(Accounts)]
    BY <2>2, <2>6 DEF TypeOK
  <2> QED BY <2>7, <2>8, <2>9 DEF TypeOK, Goto, tables, locks, snapVars
<1>9. ASSUME NEW t \in Threads, ShareAccount(t)
      PROVE  TypeOK'
  <2>1. todo[t] \in Seq(Accounts) /\ todo[t] # <<>>
    BY <1>9 DEF ShareAccount, Inv, ThreadShape, FitsPlace, TypeOK
  <2>2. Head(todo[t]) \in Accounts /\ Tail(todo[t]) \in Seq(Accounts)
    BY <2>1
  <2> QED BY <1>9, <2>2
          DEF TypeOK, ShareAccount, Goto, tables, serials, snapVars, Procs
<1>10. ASSUME NEW t \in Threads, Emit(t)
       PROVE  TypeOK'
  BY <1>10 DEF TypeOK, Emit, Goto, tables, locks, snapVars
<1>11. ASSUME NEW t \in Threads, Commit(t)
       PROVE  TypeOK'
  <2> DEFINE new == [req |-> req[t], rows |-> rows[t],
                     reverses |-> IF IsReversal(t) THEN Body(t).target ELSE 0]
  <2>1. req[t] \in Requests /\ rows[t] \in Seq(Row)
    BY <1>11 DEF Commit, Inv, ThreadShape, FitsPlace, TypeOK
  <2>2. /\ IsReversal(t) => Body(t).target \in Nat \ {0}
        /\ Key(t) \in Keys \cup {NoKey} /\ Body(t) \in Bodies
    BY <2>1, RequestAssumption DEF IsReversal, Body, Key, Bodies
  <2>3. new \in Txn
    BY <2>1, <2>2 DEF Txn
  <2>4. txns' = Append(txns, new)
    BY <1>11 DEF Commit
  <2> HIDE DEF new
  <2>5. txns' \in Seq(Txn) /\ Len(txns') = Len(txns) + 1 /\ Len(txns) \in Nat
    BY <2>3, <2>4, TxnType, AppendProperties
  <2>6. txns' \in Seq([req : Requests, rows : Seq(Row), reverses : Nat])
    BY <2>5 DEF Txn
  <2>7. NextTxn \in Nat \ {0}
    BY <2>5 DEF NextTxn
  <2>8. keys' \subseteq [key : Keys, body : Bodies, txn : Nat \ {0}]
    BY <1>11, <2>2, <2>7 DEF Commit, TypeOK
  <2>9. reversed' \subseteq Nat \ {0}
    BY <1>11, <2>2 DEF Commit, TypeOK
  <2>10. \A e \in outbox' : e.id \in Nat \ {0} /\ e.txn \in Nat \ {0}
    <3>1. event[t] \in Nat \ {0}
      BY <1>11 DEF Commit, Inv, EventIdsDistinct, TypeOK
    <3> QED BY <1>11, <2>7, <3>1 DEF Commit, TypeOK
  <2>11. \A s \in snapshots' \cup snapRows' : s.account \in Accounts /\ s.seen \in 0 .. Len(txns')
    BY <1>11, <2>5 DEF Commit, snapVars, TypeOK
  <2> QED BY <1>11, <2>6, <2>7, <2>8, <2>9, <2>10, <2>11
          DEF TypeOK, Commit, Release, serials, snapVars, Procs
<1>12. ASSUME NEW t \in Threads, RecordDecline(t)
       PROVE  TypeOK'
  BY <1>12 DEF TypeOK, RecordDecline, tables, serials, locks, work, snapVars
<1>13. ASSUME NEW t \in Threads, Respond(t)
       PROVE  TypeOK'
  <2>1. req[t] \in Requests /\ reply[t] \in Nat
    BY <1>13 DEF Respond, Inv, ThreadShape, FitsPlace, TypeOK
  <2>2. answers' \subseteq [req : Requests, txn : Nat \ {0}]
    BY <1>13, <2>1 DEF Respond, TypeOK
  <2> QED BY <1>13, <2>2 DEF TypeOK, Respond, tables, serials, locks, work, snapVars
<1>14. ASSUME SnapStart
       PROVE  TypeOK'
  BY <1>14 DEF TypeOK, SnapStart, StaleAccounts, tables, serials, locks, work
<1>15. ASSUME NEW a \in Accounts, SnapCompute(a)
       PROVE  TypeOK'
  <2>1. \A s \in snapRows' : s.account \in Accounts /\ s.seen \in 0 .. Len(txns)
    BY <1>15, TxnType DEF SnapCompute, TypeOK
  <2> QED BY <1>15, <2>1 DEF TypeOK, SnapCompute, tables, serials, locks, work
<1>16. ASSUME SnapShare
       PROVE  TypeOK'
  <2>1. SnapWaiting \subseteq Accounts
    BY DEF SnapWaiting, TypeOK
  <2> QED BY <1>16, <2>1 DEF TypeOK, SnapShare, tables, serials, work, Procs
<1>17. ASSUME NEW written, SnapEnd(written), written \subseteq snapRows
       PROVE  TypeOK'
  BY <1>17 DEF TypeOK, SnapEnd, tables, serials, work, Procs
<1>18. ASSUME UNCHANGED vars
       PROVE  TypeOK'
  BY <1>18 DEF TypeOK, vars, tables, serials, locks, work, snapVars
<1>19. ASSUME NEW t \in Threads, ServerStep(t) \/ Crash(t)
       PROVE  TypeOK'
  BY <1>19, <1>1, <1>3, <1>4, <1>5, <1>6, <1>7, <1>8, <1>9, <1>10, <1>11, <1>12, <1>13,
     RollsBackEnds DEF ServerStep, RollsBack
<1> QED BY <1>2, <1>14, <1>15, <1>16, <1>17, <1>18, <1>19
        DEF Next, SnapStep, SnapCommit, SnapAbort
-----------------------------------------------------------------------------
(* The inductive invariant.                                                 *)

\* A step of t that leaves the committed ledger and every other process alone.
Local(t) ==
    /\ UNCHANGED <<tables, answers>>
    /\ outboxSeq' >= outboxSeq
    /\ \A u \in Threads \ {t} : /\ pc'[u] = pc[u] /\ req'[u] = req[u] /\ reply'[u] = reply[u]
                                /\ todo'[u] = todo[u] /\ rows'[u] = rows[u] /\ event'[u] = event[u]
    /\ \A p \in Procs \ {t} : forUpdate'[p] = forUpdate[p] /\ keyShare'[p] = keyShare[p]

\* What t itself must establish for such a step to keep the invariant: it keeps
\* the claims it had, or takes those nobody else has.
Writing == {"share", "emit", "commit"}

KeepsClaim(t) ==
    pc'[t] \in InTransaction /\ req'[t].key # NoKey =>
       \/ pc[t] \in InTransaction /\ req'[t] = req[t]
       \/ /\ \A row \in keys : row.key # req'[t].key
          /\ \A u \in Threads \ {t} : ~HoldsKey(u, req'[t].key)

KeepsReversal(t) ==
    pc'[t] \in Writing /\ req'[t].body.op = "reverse" =>
       /\ req'[t] = req[t]
       /\ \/ pc[t] \in Writing
          \/ /\ ~ReversedInLedger(Body(t).target)
             /\ \A u \in Threads \ {t} : ~HoldsReversal(u, Body(t).target)

KeepsLocks(t) ==
    \A p \in Procs \ {t} : /\ forUpdate'[t] \cap (forUpdate[p] \cup keyShare[p]) = {}
                           /\ keyShare'[t] \cap forUpdate[p] = {}

RepliesTruly(t) ==
    pc'[t] = "respond" /\ reply'[t] # 0 =>
       reply'[t] \in DOMAIN txns /\ txns[reply'[t]].req = req'[t]

DrawsFreshId(t) ==
    pc'[t] = "commit" => event'[t] = outboxSeq + 1 /\ outboxSeq' = outboxSeq + 1

\* A step that leaves the committed tables alone is a matter of the thread that
\* takes it: what it now holds must exclude what the others hold.
LEMMA LocalStep ==
  ASSUME TypeOK, TypeOK', Inv, NEW t \in Threads, Local(t),
         FitsPlace(t)', SharesItsAccounts(t)',
         KeepsClaim(t), KeepsReversal(t), KeepsLocks(t), RepliesTruly(t), DrawsFreshId(t)
  PROVE  Inv'
<1>1. /\ UNCHANGED <<keys, txns, reversed, outbox, answers>>
      /\ \A u \in Threads \ {t} : /\ pc'[u] = pc[u] /\ req'[u] = req[u] /\ reply'[u] = reply[u]
                                  /\ todo'[u] = todo[u] /\ rows'[u] = rows[u] /\ event'[u] = event[u]
  BY DEF Local, tables
<1>2. ThreadShape'
  <2>1. \A u \in Threads \ {t} : FitsPlace(u)'
    BY <1>1 DEF Inv, ThreadShape, FitsPlace, Key, Body, IsReversal
  <2> QED BY <2>1 DEF ThreadShape
<1>3. TxnShape' /\ KeysMatchLedger' /\ AnswersAreTrue' /\ ReversedOnce' /\ OneEventPerTxn'
  BY <1>1 DEF Inv, TxnShape, KeysMatchLedger, AnswersAreTrue, ReversedOnce, OneEventPerTxn,
              ReversedInLedger
<1>4. ClaimsExclusive'
  BY <1>1 DEF Inv, ClaimsExclusive, KeepsClaim, HoldsKey, Key
<1>5. RepliesAreTrue'
  BY <1>1 DEF Inv, RepliesAreTrue, RepliesTruly
<1>6. ReversalsExclusive'
  BY <1>1 DEF Inv, ReversalsExclusive, KeepsReversal, Writing, HoldsReversal, ReversedInLedger,
              IsReversal, Body
<1>7. EventIdsDistinct'
  <2>1. outboxSeq \in Nat /\ outboxSeq' \in Nat /\ outboxSeq' >= outboxSeq
    BY DEF TypeOK, Local
  <2>2. \A e \in outbox : e.id \in Nat /\ e.id <= outboxSeq
    BY DEF Inv, EventIdsDistinct, TypeOK
  <2>3. \A u \in Threads \ {t} : pc'[u] = "commit" =>
           /\ event'[u] \in 1 .. outboxSeq
           /\ \A e \in outbox : e.id # event'[u]
           /\ \A v \in Threads \ {t, u} : pc'[v] = "commit" => event'[v] # event'[u]
    BY <1>1 DEF Inv, EventIdsDistinct
  <2>4. pc'[t] = "commit" => event'[t] = outboxSeq + 1 /\ outboxSeq' = outboxSeq + 1
    BY DEF DrawsFreshId
  <2> QED BY <1>1, <2>1, <2>2, <2>3, <2>4 DEF EventIdsDistinct
<1>8. LocksExclusive'
  <2>1. \A u \in Threads \ {t} : SharesItsAccounts(u)'
    <3>1. \A u \in Threads \ {t} : keyShare'[u] = keyShare[u]
      BY DEF Local, Procs
    <3> QED BY <1>1, <3>1 DEF Inv, LocksExclusive, SharesItsAccounts
  <2>2. \A p, q \in Procs : p # q => forUpdate'[p] \cap (forUpdate'[q] \cup keyShare'[q]) = {}
    BY DEF Local, KeepsLocks, Inv, LocksExclusive, Procs
  <2> QED BY <2>1, <2>2 DEF LocksExclusive
<1> QED BY <1>2, <1>3, <1>4, <1>5, <1>6, <1>7, <1>8 DEF Inv

\* Whom a thread waits for, statement by statement.
LEMMA WaitsAt ==
  ASSUME NEW t \in Threads
  PROVE  /\ pc[t] = "claim" => ThreadWaitsFor(t) = {u \in Threads \ {t} : HoldsKey(u, Key(t))}
         /\ pc[t] = "lock" /\ NeedsFloorCheck(Head(todo[t]), Legs(Body(t))) =>
               ThreadWaitsFor(t) = UpdateBlockers(t, Head(todo[t]))
         /\ pc[t] = "insert" /\ IsReversal(t) =>
               ThreadWaitsFor(t) = {u \in Threads \ {t} : HoldsReversal(u, Body(t).target)}
         /\ pc[t] = "share" => ThreadWaitsFor(t) = ShareBlockers(t, Head(todo[t]))
BY DEF ThreadWaitsFor

\* Locks that are kept or given back disturb nobody.
LEMMA LocksShrink ==
  ASSUME Inv, NEW t \in Threads,
         forUpdate'[t] \subseteq forUpdate[t], keyShare'[t] \subseteq keyShare[t]
  PROVE  KeepsLocks(t)
BY DEF Inv, LocksExclusive, KeepsLocks, Procs

\* A rollback (unit_of_work, handle_app_error) gives up claims and locks only.
LEMMA EndsInv ==
  ASSUME TypeOK, TypeOK', Inv, NEW t \in Threads, Ends(t)
  PROVE  Inv'
<1>1. /\ pc'[t] \in {"respond", "decline", "idle"}
      /\ pc'[t] # "idle" => req'[t] = req[t]
      /\ reply'[t] = 0
      /\ forUpdate'[t] = {} /\ keyShare'[t] = {}
  BY DEF Ends, Release, TypeOK, Procs
<1>2. Local(t)
  BY DEF Ends, Release, TypeOK, Local, tables, serials
<1>3. FitsPlace(t)'
  BY <1>1 DEF FitsPlace, Ends, Inv, ThreadShape
<1>4. SharesItsAccounts(t)'
  BY <1>1 DEF SharesItsAccounts
<1>5. KeepsLocks(t)
  BY <1>1, LocksShrink
<1>6. KeepsClaim(t) /\ KeepsReversal(t) /\ RepliesTruly(t) /\ DrawsFreshId(t)
  BY <1>1 DEF KeepsClaim, KeepsReversal, RepliesTruly, DrawsFreshId, InTransaction, Writing
<1> QED BY <1>2, <1>3, <1>4, <1>5, <1>6, LocalStep

\* A request that arrives holds nothing yet.
LEMMA SendInv ==
  ASSUME TypeOK, TypeOK', Inv, NEW t \in Threads, NEW r \in Requests, Send(t, r)
  PROVE  Inv'
<1>1. /\ pc'[t] = IF r.key = NoKey THEN "build" ELSE "claim"
      /\ req'[t] = r
      /\ forUpdate' = forUpdate /\ keyShare' = keyShare
  BY DEF Send, TypeOK, locks
<1>2. Local(t)
  BY DEF Send, TypeOK, Local, tables, serials, locks, work
<1>3. FitsPlace(t)'
  BY <1>1 DEF FitsPlace, Key
<1>4. SharesItsAccounts(t)'
  BY <1>1 DEF SharesItsAccounts
<1>5. KeepsLocks(t)
  BY <1>1, LocksShrink
<1>6. KeepsClaim(t) /\ KeepsReversal(t) /\ RepliesTruly(t) /\ DrawsFreshId(t)
  BY <1>1 DEF KeepsClaim, KeepsReversal, RepliesTruly, DrawsFreshId, InTransaction, Writing
<1> QED BY <1>2, <1>3, <1>4, <1>5, <1>6, LocalStep

\* INSERT ... ON CONFLICT DO NOTHING waits for every uncommitted row of the key,
\* so the claim it makes is the only one.
LEMMA ClaimInv ==
  ASSUME TypeOK, TypeOK', Inv, NEW t \in Threads, Claim(t)
  PROVE  Inv'
<1>1. /\ pc[t] = "claim" /\ pc'[t] = "build" /\ req' = req
      /\ forUpdate' = forUpdate /\ keyShare' = keyShare
      /\ \A row \in keys : row.key # Key(t)
      /\ ThreadWaitsFor(t) = {}
  BY DEF Claim, Goto, TypeOK, locks
<1>2. Local(t)
  BY DEF Claim, Goto, TypeOK, Local, tables, serials, locks, work
<1>3. FitsPlace(t)'
  BY <1>1 DEF FitsPlace, Inv, ThreadShape
<1>4. SharesItsAccounts(t)'
  BY <1>1 DEF SharesItsAccounts
<1>5. KeepsLocks(t)
  BY <1>1, LocksShrink
<1>6. KeepsClaim(t)
  BY <1>1, WaitsAt DEF KeepsClaim, Key
<1>7. KeepsReversal(t) /\ RepliesTruly(t) /\ DrawsFreshId(t)
  BY <1>1 DEF KeepsReversal, RepliesTruly, DrawsFreshId, Writing
<1> QED BY <1>2, <1>3, <1>4, <1>5, <1>6, <1>7, LocalStep

\* A replayed response is the one stored with the completed key, which matches
\* the ledger; a request is its key and its body.
LEMMA ReplayInv ==
  ASSUME TypeOK, TypeOK', Inv, NEW t \in Threads, Replay(t)
  PROVE  Inv'
<1>1. PICK row \in keys : /\ row.key = Key(t) /\ row.body = Body(t)
                          /\ reply' = [reply EXCEPT ![t] = row.txn]
  BY DEF Replay
<1>2. /\ pc[t] = "claim" /\ pc'[t] = "respond" /\ req' = req /\ reply'[t] = row.txn
      /\ forUpdate' = forUpdate /\ keyShare' = keyShare
  BY <1>1 DEF Replay, TypeOK, locks
<1>3. req[t] \in Requests /\ req[t] = [key |-> Key(t), body |-> Body(t)]
  BY <1>2, RequestAssumption DEF Inv, ThreadShape, FitsPlace, Key, Body
<1>4. Local(t)
  BY DEF Replay, TypeOK, Local, tables, serials, locks, work
<1>5. FitsPlace(t)'
  BY <1>2, <1>3 DEF FitsPlace
<1>6. SharesItsAccounts(t)'
  BY <1>2 DEF SharesItsAccounts
<1>7. KeepsLocks(t)
  BY <1>2, LocksShrink
<1>8. RepliesTruly(t)
  BY <1>1, <1>2, <1>3 DEF RepliesTruly, Inv, KeysMatchLedger
<1>9. KeepsClaim(t) /\ KeepsReversal(t) /\ DrawsFreshId(t)
  BY <1>2 DEF KeepsClaim, KeepsReversal, DrawsFreshId, InTransaction, Writing
<1> QED BY <1>4, <1>5, <1>6, <1>7, <1>8, <1>9, LocalStep

\* Inside a transaction, before its rows are written, a thread keeps its claim.
LEMMA StaysOpen ==
  ASSUME TypeOK, TypeOK', Inv, NEW t \in Threads, Local(t), FitsPlace(t)', KeepsLocks(t),
         pc[t] \in InTransaction, req'[t] = req[t],
         pc'[t] \in {"lock", "check", "insert"}
  PROVE  Inv'
<1>1. SharesItsAccounts(t)'
  BY DEF SharesItsAccounts
<1>2. KeepsClaim(t) /\ KeepsReversal(t) /\ RepliesTruly(t) /\ DrawsFreshId(t)
  BY DEF KeepsClaim, KeepsReversal, RepliesTruly, DrawsFreshId, Writing
<1> QED BY <1>1, <1>2, LocalStep

\* The checks and the screen of post_transaction take no lock.
LEMMA BuildPostingInv ==
  ASSUME TypeOK, TypeOK', Inv, NEW t \in Threads, BuildPosting(t)
  PROVE  Inv'
<1>1. /\ pc[t] = "build" /\ pc'[t] = "lock" /\ req' = req /\ txns' = txns
      /\ ~IsReversal(t) /\ ValidPosting(Body(t))
      /\ todo'[t] = AccountsOf(Legs(Body(t)))
      /\ forUpdate' = forUpdate /\ keyShare' = keyShare
  BY DEF BuildPosting, Goto, TypeOK, locks, tables
<1>2. Local(t)
  BY DEF BuildPosting, Goto, TypeOK, Local, tables, serials, locks
<1>3. req[t] \in Requests
  BY <1>1 DEF Inv, ThreadShape, FitsPlace
<1>4. AccountsOf(Legs(Body(t))) # <<>>
  <2>1. PostingType(Body(t))
    BY <1>1, <1>3, RequestAssumption DEF PostingType, IsReversal, Body
  <2>2. Legs(Body(t)) \in Seq(Leg) /\ Legs(Body(t)) # <<>>
    BY <1>1, <2>1, LegsType
  <2>3. 1 \in DOMAIN Legs(Body(t))
    BY <2>2
  <2> QED BY <2>3 DEF AccountsOf
<1>5. FitsPlace(t)'
  BY <1>1, <1>3, <1>4 DEF FitsPlace, IsReversal, Body
<1> QED BY <1>1, <1>2, <1>5, LocksShrink, StaysOpen DEF InTransaction

\* Going on in the loop of _check_floors keeps what is held.
LEMMA NextFloorInv ==
  ASSUME TypeOK, TypeOK', Inv, NEW t \in Threads, SkipFloor(t) \/ PassFloor(t)
  PROVE  Inv'
<1>1. /\ pc[t] \in {"lock", "check"} /\ req' = req /\ txns' = txns
      /\ pc'[t] = IF Tail(todo[t]) = <<>> THEN "insert" ELSE "lock"
      /\ todo'[t] = Tail(todo[t])
      /\ forUpdate' = forUpdate /\ keyShare' = keyShare
  BY DEF SkipFloor, PassFloor, NextFloor, Goto, TypeOK, locks, tables
<1>2. Local(t)
  BY DEF SkipFloor, PassFloor, NextFloor, Goto, TypeOK, Local, tables, serials, locks
<1>3. FitsPlace(t)'
  BY <1>1 DEF FitsPlace, Inv, ThreadShape, IsReversal, Body
<1> QED BY <1>1, <1>2, <1>3, LocksShrink, StaysOpen DEF InTransaction

\* FOR UPDATE waits for every other lock on the row.
LEMMA LockAccountInv ==
  ASSUME TypeOK, TypeOK', Inv, NEW t \in Threads, LockAccount(t)
  PROVE  Inv'
<1>1. /\ pc[t] = "lock" /\ pc'[t] = "check" /\ req' = req /\ todo' = todo /\ txns' = txns
      /\ forUpdate'[t] = forUpdate[t] \cup {Head(todo[t])} /\ keyShare' = keyShare
      /\ ThreadWaitsFor(t) = {} /\ NeedsFloorCheck(Head(todo[t]), Legs(Body(t)))
  BY DEF LockAccount, Goto, TypeOK, work, tables, Procs
<1>2. Local(t)
  BY DEF LockAccount, Goto, TypeOK, Local, tables, serials, work
<1>3. FitsPlace(t)'
  BY <1>1 DEF FitsPlace, Inv, ThreadShape, IsReversal, Body
<1>4. UpdateBlockers(t, Head(todo[t])) = {}
  BY <1>1, WaitsAt
<1>5. KeepsLocks(t)
  BY <1>1, <1>4 DEF KeepsLocks, UpdateBlockers, Inv, LocksExclusive, Procs
<1> QED BY <1>1, <1>2, <1>3, <1>5, StaysOpen DEF InTransaction

\* reverse_transaction reads its original and takes nothing.
LEMMA ReadOriginalInv ==
  ASSUME TypeOK, TypeOK', Inv, NEW t \in Threads, ReadOriginal(t)
  PROVE  Inv'
<1>1. /\ pc[t] = "build" /\ pc'[t] = "insert" /\ req' = req /\ txns' = txns
      /\ IsReversal(t) /\ Body(t).target \in DOMAIN txns
      /\ forUpdate' = forUpdate /\ keyShare' = keyShare
  BY DEF ReadOriginal, Goto, TypeOK, locks, tables
<1>2. Local(t)
  BY DEF ReadOriginal, Goto, TypeOK, Local, tables, serials, locks, work
<1>3. FitsPlace(t)'
  BY <1>1 DEF FitsPlace, Inv, ThreadShape, IsReversal, Body
<1> QED BY <1>1, <1>2, <1>3, LocksShrink, StaysOpen DEF InTransaction

\* The unique index on reverses_id waits for every uncommitted reversal.
LEMMA InsertRowsInv ==
  ASSUME TypeOK, TypeOK', Inv, NEW t \in Threads, InsertRows(t)
  PROVE  Inv'
<1> DEFINE legs == LegsToInsert(t)
<1>1. /\ pc[t] = "insert" /\ ThreadWaitsFor(t) = {}
      /\ IsReversal(t) => ~ReversedInLedger(Body(t).target)
      /\ Goto(t, "share") /\ UNCHANGED <<outboxSeq, locks, event>>
      /\ todo' = [todo EXCEPT ![t] = AccountsOf(legs)]
  BY DEF InsertRows
<1>2. Len(legs) \in Nat \ {0} /\ DOMAIN legs = 1 .. Len(legs)
  BY <1>1, InsertedType
<1>3. /\ DOMAIN rows'[t] = DOMAIN legs
      /\ \A n \in DOMAIN legs : rows'[t][n].account = legs[n].account
      /\ \A u \in Threads \ {t} : rows'[u] = rows[u]
  BY DEF InsertRows, TypeOK
<1>4. /\ DOMAIN todo'[t] = DOMAIN legs
      /\ \A n \in DOMAIN legs : todo'[t][n] = legs[n].account
      /\ \A u \in Threads \ {t} : todo'[u] = todo[u]
  BY <1>1 DEF AccountsOf, TypeOK
<1>5. rows'[t] # <<>> /\ todo'[t] # <<>>
  <2>1. 1 \in DOMAIN rows'[t] /\ 1 \in DOMAIN todo'[t]
    BY <1>2, <1>3, <1>4
  <2> QED BY <2>1
<1> HIDE DEF legs
<1>6. /\ pc'[t] = "share" /\ req' = req /\ txns' = txns
      /\ forUpdate' = forUpdate /\ keyShare' = keyShare
  BY <1>1 DEF Goto, TypeOK, locks, tables
<1>7. Local(t)
  BY <1>1, <1>3, <1>4 DEF Goto, TypeOK, Local, tables, locks
<1>8. FitsPlace(t)'
  BY <1>1, <1>5, <1>6 DEF FitsPlace, Inv, ThreadShape, IsReversal, Body
<1>9. SharesItsAccounts(t)'
  BY <1>3, <1>4, <1>6 DEF SharesItsAccounts
<1>10. KeepsLocks(t)
  BY <1>6, LocksShrink
<1>11. KeepsReversal(t)
  BY <1>1, <1>6, WaitsAt DEF KeepsReversal, IsReversal, Body
<1>12. KeepsClaim(t) /\ RepliesTruly(t) /\ DrawsFreshId(t)
  BY <1>1, <1>6 DEF KeepsClaim, RepliesTruly, DrawsFreshId, InTransaction
<1> QED BY <1>7, <1>8, <1>9, <1>10, <1>11, <1>12, LocalStep

\* FOR KEY SHARE waits for FOR UPDATE; the accounts still to be shared shrink
\* from the front.
LEMMA ShareAccountInv ==
  ASSUME TypeOK, TypeOK', Inv, NEW t \in Threads, ShareAccount(t)
  PROVE  Inv'
<1>1. /\ pc[t] = "share" /\ req' = req /\ txns' = txns /\ rows' = rows
      /\ pc'[t] = IF Tail(todo[t]) = <<>> THEN "emit" ELSE "share"
      /\ todo'[t] = Tail(todo[t])
      /\ keyShare'[t] = keyShare[t] \cup {Head(todo[t])} /\ forUpdate' = forUpdate
      /\ ThreadWaitsFor(t) = {}
  BY DEF ShareAccount, Goto, TypeOK, tables, Procs
<1>2. Local(t)
  BY DEF ShareAccount, Goto, TypeOK, Local, tables, serials
<1>3. FitsPlace(t)'
  BY <1>1 DEF FitsPlace, Inv, ThreadShape, IsReversal, Body
<1>4. SharesItsAccounts(t)'
  <2> DEFINE s == todo[t]
  <2>1. s \in Seq(Accounts) /\ s # <<>>
    BY <1>1 DEF TypeOK, Inv, ThreadShape, FitsPlace
  <2>2. \A n \in DOMAIN rows[t] :
           rows[t][n].account \in keyShare[t] \cup {s[m] : m \in DOMAIN s}
    BY <1>1 DEF Inv, LocksExclusive, SharesItsAccounts
  <2> HIDE DEF s
  <2>3. \A m \in DOMAIN s : s[m] = Head(s) \/ \E k \in DOMAIN Tail(s) : s[m] = Tail(s)[k]
    <3> SUFFICES ASSUME NEW m \in DOMAIN s, m # 1
                 PROVE  \E k \in DOMAIN Tail(s) : s[m] = Tail(s)[k]
      BY <2>1
    <3>1. m \in 2 .. Len(s) /\ Len(s) \in Nat
      BY <2>1
    <3>2. /\ Tail(s) \in Seq(Accounts) /\ Len(Tail(s)) = Len(s) - 1
          /\ \A i \in 1 .. Len(Tail(s)) : Tail(s)[i] = s[i + 1]
      BY <2>1, HeadTailProperties
    <3>3. m - 1 \in DOMAIN Tail(s) /\ s[m] = Tail(s)[m - 1]
      BY <3>1, <3>2
    <3> QED BY <3>3
  <2>4. \A n \in DOMAIN rows[t] :
           rows[t][n].account \in keyShare'[t] \cup {Tail(s)[m] : m \in DOMAIN Tail(s)}
    BY <1>1, <2>2, <2>3 DEF s
  <2>5. Tail(s) = <<>> => {Tail(s)[m] : m \in DOMAIN Tail(s)} = {}
    OBVIOUS
  <2> QED BY <1>1, <2>4, <2>5 DEF SharesItsAccounts, s
<1>5. KeepsLocks(t)
  <2>1. ShareBlockers(t, Head(todo[t])) = {}
    BY <1>1, WaitsAt
  <2> QED BY <1>1, <2>1 DEF KeepsLocks, ShareBlockers, Inv, LocksExclusive, Procs
<1>6. KeepsClaim(t) /\ KeepsReversal(t) /\ RepliesTruly(t) /\ DrawsFreshId(t)
  BY <1>1 DEF KeepsClaim, KeepsReversal, RepliesTruly, DrawsFreshId, InTransaction, Writing
<1> QED BY <1>2, <1>3, <1>4, <1>5, <1>6, LocalStep

\* The outbox id that emit draws is a new one.
LEMMA EmitInv ==
  ASSUME TypeOK, TypeOK', Inv, NEW t \in Threads, Emit(t)
  PROVE  Inv'
<1>1. /\ pc[t] = "emit" /\ pc'[t] = "commit" /\ req' = req /\ txns' = txns /\ rows' = rows
      /\ event'[t] = outboxSeq + 1 /\ outboxSeq' = outboxSeq + 1
      /\ forUpdate' = forUpdate /\ keyShare' = keyShare
  BY DEF Emit, Goto, TypeOK, locks, tables
<1>2. Local(t)
  BY DEF Emit, Goto, TypeOK, Local, tables, locks
<1>3. FitsPlace(t)'
  BY <1>1 DEF FitsPlace, Inv, ThreadShape, IsReversal, Body
<1>4. SharesItsAccounts(t)'
  BY <1>1 DEF SharesItsAccounts, Inv, LocksExclusive
<1>5. KeepsLocks(t)
  BY <1>1, LocksShrink
<1>6. KeepsClaim(t) /\ KeepsReversal(t) /\ RepliesTruly(t) /\ DrawsFreshId(t)
  BY <1>1 DEF KeepsClaim, KeepsReversal, RepliesTruly, DrawsFreshId, InTransaction, Writing
<1> QED BY <1>2, <1>3, <1>4, <1>5, <1>6, LocalStep

\* record_decline runs after the rollback and claims nothing.
LEMMA RecordDeclineInv ==
  ASSUME TypeOK, TypeOK', Inv, NEW t \in Threads, RecordDecline(t)
  PROVE  Inv'
<1>1. /\ pc[t] = "decline" /\ pc'[t] = "respond" /\ req' = req /\ reply' = reply
      /\ forUpdate' = forUpdate /\ keyShare' = keyShare
  BY DEF RecordDecline, TypeOK, locks
<1>2. Local(t)
  BY DEF RecordDecline, TypeOK, Local, tables, serials, locks, work
<1>3. FitsPlace(t)'
  BY <1>1 DEF FitsPlace, Inv, ThreadShape
<1>4. SharesItsAccounts(t)'
  BY <1>1 DEF SharesItsAccounts
<1>5. KeepsLocks(t)
  BY <1>1, LocksShrink
<1>6. reply[t] = 0
  BY <1>1 DEF Inv, ThreadShape, FitsPlace
<1>7. KeepsClaim(t) /\ KeepsReversal(t) /\ RepliesTruly(t) /\ DrawsFreshId(t)
  BY <1>1, <1>6 DEF KeepsClaim, KeepsReversal, RepliesTruly, DrawsFreshId, InTransaction, Writing
<1> QED BY <1>2, <1>3, <1>4, <1>5, <1>7, LocalStep

\* A response says what its reply, true by the invariant, says.
LEMMA RespondInv ==
  ASSUME TypeOK, TypeOK', Inv, NEW t \in Threads, Respond(t)
  PROVE  Inv'
<1>1. /\ pc[t] = "respond" /\ pc' = [pc EXCEPT ![t] = "idle"]
      /\ req' = [req EXCEPT ![t] = NoRequest] /\ reply' = [reply EXCEPT ![t] = 0]
      /\ UNCHANGED <<keys, txns, reversed, outbox, outboxSeq, todo, rows, event, forUpdate, keyShare>>
  BY DEF Respond, tables, serials, locks, work
<1>2. /\ pc'[t] = "idle"
      /\ \A u \in Threads \ {t} : pc'[u] = pc[u] /\ req'[u] = req[u] /\ reply'[u] = reply[u]
  BY <1>1 DEF TypeOK
<1>3. AnswersAreTrue'
  <2>1. \A a \in answers' : a \in answers \/ (reply[t] # 0 /\ a = [req |-> req[t], txn |-> reply[t]])
    BY DEF Respond
  <2> QED BY <1>1, <2>1 DEF Inv, AnswersAreTrue, RepliesAreTrue
<1>4. ThreadShape'
  BY <1>1, <1>2 DEF Inv, ThreadShape, FitsPlace, Key, Body, IsReversal
<1>5. TxnShape' /\ KeysMatchLedger' /\ ReversedOnce' /\ OneEventPerTxn'
  BY <1>1 DEF Inv, TxnShape, KeysMatchLedger, ReversedOnce, OneEventPerTxn, ReversedInLedger
<1>6. ClaimsExclusive'
  BY <1>1, <1>2 DEF Inv, ClaimsExclusive, HoldsKey, Key, InTransaction
<1>7. RepliesAreTrue'
  BY <1>1, <1>2 DEF Inv, RepliesAreTrue
<1>8. ReversalsExclusive'
  BY <1>1, <1>2 DEF Inv, ReversalsExclusive, HoldsReversal, ReversedInLedger, IsReversal, Body
<1>9. EventIdsDistinct'
  BY <1>1, <1>2 DEF Inv, EventIdsDistinct
<1>10. LocksExclusive'
  BY <1>1, <1>2 DEF Inv, LocksExclusive, SharesItsAccounts
<1> QED BY <1>3, <1>4, <1>5, <1>6, <1>7, <1>8, <1>9, <1>10 DEF Inv

\* COMMIT.  The claim of the thread is the only one on its key and its original,
\* and its event id was drawn for it alone.
LEMMA CommitInv ==
  ASSUME TypeOK, TypeOK', Inv, NEW t \in Threads, Commit(t)
  PROVE  Inv'
<1> DEFINE x   == IF IsReversal(t) THEN Body(t).target ELSE 0
           new == [req |-> req[t], rows |-> rows[t], reverses |-> x]
           n   == Len(txns) + 1
           ev  == [id |-> event[t], txn |-> n, partition |-> PrimaryAccount(rows[t]),
                   type |-> IF IsReversal(t) THEN "transaction.reversed" ELSE "transaction.created"]
<1>1. pc[t] = "commit" /\ txns' = Append(txns, new) /\ outbox' = outbox \cup {ev}
  BY DEF Commit, NextTxn
<1>2. /\ req' = req /\ outboxSeq' = outboxSeq /\ answers' = answers
      /\ pc'[t] = "respond" /\ reply'[t] = n
      /\ forUpdate'[t] = {} /\ keyShare'[t] = {}
  BY DEF Commit, Release, serials, NextTxn, TypeOK, Procs
<1>3. /\ \A u \in Threads \ {t} : /\ pc'[u] = pc[u] /\ reply'[u] = reply[u]
                                  /\ todo'[u] = todo[u] /\ rows'[u] = rows[u] /\ event'[u] = event[u]
      /\ \A p \in Procs \ {t} : forUpdate'[p] = forUpdate[p] /\ keyShare'[p] = keyShare[p]
  BY DEF Commit, Release, TypeOK, Procs
<1>4. /\ Len(txns) \in Nat /\ DOMAIN txns = 1 .. Len(txns)
      /\ DOMAIN txns' = 1 .. n
      /\ \A i \in DOMAIN txns : txns'[i] = txns[i]
      /\ txns'[n] = new
  <2>1. txns \in Seq(Txn) /\ txns' \in Seq(Txn)
    BY TxnType DEF TypeOK, Txn
  <2>2. Len(txns) \in Nat /\ DOMAIN txns = 1 .. Len(txns)
    BY <2>1
  <2> HIDE DEF new
  <2> QED BY <1>1, <2>1, <2>2
<1>5. /\ req[t] \in Requests /\ req[t] = [key |-> Key(t), body |-> Body(t)]
      /\ IsReversal(t) => Body(t).target \in Nat \ {0}
      /\ rows[t] # <<>>
  BY <1>1, RequestAssumption DEF Inv, ThreadShape, FitsPlace, Key, Body, IsReversal
<1>6. x # 0 <=> IsReversal(t)
  BY <1>5
<1>7. ThreadShape'
  <2>1. \A u \in Threads \ {t} : FitsPlace(u)'
    BY <1>2, <1>3, <1>4 DEF Inv, ThreadShape, FitsPlace, Key, Body, IsReversal
  <2>2. FitsPlace(t)'
    BY <1>2, <1>5 DEF FitsPlace
  <2> QED BY <2>1, <2>2 DEF ThreadShape
<1>8. TxnShape'
  BY <1>4, <1>5 DEF Inv, TxnShape, IsReversal, Body
<1>9. ReversedOnce'
  <2>1. IsReversal(t) => x \in DOMAIN txns /\ ~ReversedInLedger(x)
    BY <1>1 DEF Inv, ThreadShape, FitsPlace, ReversalsExclusive
  <2>2. reversed' = reversed \cup (IF IsReversal(t) THEN {x} ELSE {})
    BY DEF Commit
  <2>3. \A i \in DOMAIN txns : txns[i].reverses \in Nat /\ txns[i].reverses < i
    BY TxnType DEF Inv, ReversedOnce
  <2>4. \A i \in DOMAIN txns : x # 0 => txns[i].reverses # x
    BY <1>6, <2>1 DEF ReversedInLedger
  <2> HIDE DEF x
  <2>5. \A i, j \in DOMAIN txns' :
           txns'[i].reverses = txns'[j].reverses /\ txns'[i].reverses # 0 => i = j
    BY <1>4, <2>4 DEF Inv, ReversedOnce
  <2>6. \A i \in DOMAIN txns' : txns'[i].reverses < i
    BY <1>4, <1>6, <2>1, <2>3
  <2>7. reversed' = {y \in DOMAIN txns' : ReversedInLedger(y)'}
    <3>1. \A y \in DOMAIN txns' : ReversedInLedger(y)' <=> ReversedInLedger(y) \/ y = x
      BY <1>4 DEF ReversedInLedger
    <3>2. ~ReversedInLedger(n)
      BY <1>4, <2>3 DEF ReversedInLedger
    <3>3. reversed = {y \in DOMAIN txns : ReversedInLedger(y)}
      BY DEF Inv, ReversedOnce
    <3>4. IsReversal(t) => x \in DOMAIN txns'
      BY <1>4, <2>1
    <3>5. ~IsReversal(t) => \A y \in DOMAIN txns' : y # x
      BY <1>4, <1>6
    <3> QED BY <1>4, <2>2, <3>1, <3>2, <3>3, <3>4, <3>5
  <2> QED BY <2>5, <2>6, <2>7 DEF ReversedOnce
<1>10. KeysMatchLedger'
  <2>1. keys' = keys \cup (IF Key(t) = NoKey THEN {}
                           ELSE {[key |-> Key(t), body |-> Body(t), txn |-> n]})
    BY DEF Commit, NextTxn
  <2>2. Key(t) # NoKey => \A row \in keys : row.key # Key(t)
    BY <1>1 DEF Inv, ClaimsExclusive, InTransaction
  <2>3. txns'[n].req = [key |-> Key(t), body |-> Body(t)]
    BY <1>4, <1>5
  <2>4. \A row \in keys' : /\ row.txn \in DOMAIN txns'
                           /\ txns'[row.txn].req = [key |-> row.key, body |-> row.body]
    <3> SUFFICES ASSUME NEW row \in keys'
                 PROVE  /\ row.txn \in DOMAIN txns'
                        /\ txns'[row.txn].req = [key |-> row.key, body |-> row.body]
      OBVIOUS
    <3>1. CASE row \in keys
      BY <1>4, <3>1 DEF Inv, KeysMatchLedger
    <3>2. CASE row = [key |-> Key(t), body |-> Body(t), txn |-> n]
      <4>1. row.key = Key(t) /\ row.body = Body(t) /\ row.txn = n
        BY <3>2
      <4> QED BY <1>4, <2>3, <4>1
    <3> QED BY <2>1, <3>1, <3>2
  <2>5. \A i \in DOMAIN txns' : txns'[i].req.key # NoKey =>
           [key |-> txns'[i].req.key, body |-> txns'[i].req.body, txn |-> i] \in keys'
    <3>1. \A i \in DOMAIN txns : txns[i].req.key # NoKey =>
             [key |-> txns[i].req.key, body |-> txns[i].req.body, txn |-> i] \in keys
      BY DEF Inv, KeysMatchLedger
    <3>2. Key(t) # NoKey => [key |-> Key(t), body |-> Body(t), txn |-> n] \in keys'
      BY <2>1
    <3>3. txns'[n].req.key = Key(t) /\ txns'[n].req.body = Body(t)
      BY <2>3
    <3>4. \A i \in DOMAIN txns' : i \in DOMAIN txns \/ i = n
      BY <1>4
    <3> QED BY <1>4, <2>1, <3>1, <3>2, <3>3, <3>4
  <2>6. \A r1, r2 \in keys' : r1.key = r2.key => r1 = r2
    BY <2>1, <2>2 DEF Inv, KeysMatchLedger
  <2> QED BY <2>4, <2>5, <2>6 DEF KeysMatchLedger
<1>11. ClaimsExclusive'
  <2> SUFFICES ASSUME NEW u \in Threads \ {t}, pc'[u] \in InTransaction, req'[u].key # NoKey
               PROVE  /\ \A row \in keys' : row.key # req'[u].key
                      /\ \A v \in Threads \ {u} : ~HoldsKey(v, Key(u))'
    BY <1>2 DEF ClaimsExclusive, Key, InTransaction
  <2>1. /\ pc[u] \in InTransaction /\ Key(u) # NoKey /\ req'[u].key = Key(u)
    BY <1>2, <1>3 DEF Key
  <2>2. Key(t) # Key(u)
    BY <1>1, <2>1 DEF Inv, ClaimsExclusive, HoldsKey, InTransaction
  <2>3. \A row \in keys' : row.key # Key(u)
    BY <2>1, <2>2 DEF Commit, Inv, ClaimsExclusive
  <2>4. \A v \in Threads \ {u} : ~HoldsKey(v, Key(u))
    BY <2>1 DEF Inv, ClaimsExclusive
  <2> QED BY <1>2, <1>3, <2>1, <2>3, <2>4 DEF HoldsKey, Key, InTransaction
<1>12. RepliesAreTrue'
  <2>1. n \in DOMAIN txns' /\ txns'[n].req = req'[t]
    BY <1>2, <1>4
  <2> QED BY <1>2, <1>3, <1>4, <2>1 DEF Inv, RepliesAreTrue
<1>13. AnswersAreTrue'
  BY <1>2, <1>4 DEF Inv, AnswersAreTrue
<1>14. ReversalsExclusive'
  <2> SUFFICES ASSUME NEW u \in Threads \ {t}, pc'[u] \in Writing, IsReversal(u)'
               PROVE  /\ ~ReversedInLedger(Body(u).target)'
                      /\ \A v \in Threads \ {u} : ~HoldsReversal(v, Body(u).target)'
    BY <1>2 DEF ReversalsExclusive, Writing
  <2>1. pc[u] \in Writing /\ IsReversal(u) /\ Body(u)' = Body(u)
    BY <1>2, <1>3 DEF IsReversal, Body
  <2>2. ~ReversedInLedger(Body(u).target) /\ Body(u).target # 0
    <3>1. req[u] \in Requests
      BY <2>1 DEF Inv, ThreadShape, FitsPlace, Writing
    <3> QED BY <2>1, <3>1, RequestAssumption DEF Inv, ReversalsExclusive, Writing, IsReversal, Body
  <2>3. Body(u).target # x
    <3>1. CASE IsReversal(t)
      BY <1>1, <2>1, <3>1 DEF Inv, ReversalsExclusive, HoldsReversal, Writing
    <3>2. CASE ~IsReversal(t)
      BY <2>2, <3>2
    <3> QED BY <3>1, <3>2
  <2> HIDE DEF x
  <2>4. ~ReversedInLedger(Body(u).target)'
    BY <1>4, <2>1, <2>2, <2>3 DEF ReversedInLedger
  <2>5. \A v \in Threads \ {u} : ~HoldsReversal(v, Body(u).target)
    BY <2>1 DEF Inv, ReversalsExclusive, Writing
  <2> QED BY <1>2, <1>3, <2>1, <2>4, <2>5 DEF HoldsReversal, IsReversal, Body
<1>15. OneEventPerTxn'
  <2>1. \A e \in outbox : e.txn \in DOMAIN txns /\ e.txn # n /\ e.id # event[t]
    BY <1>1, <1>4 DEF Inv, OneEventPerTxn, EventIdsDistinct
  <2>2. ev.id = event[t] /\ ev.txn = n /\ (ev.type = "transaction.reversed" <=> IsReversal(t))
    OBVIOUS
  <2>3. new.reverses # 0 <=> IsReversal(t)
    BY <1>6
  <2> HIDE DEF ev, new
  <2> QED BY <1>1, <1>4, <2>1, <2>2, <2>3 DEF Inv, OneEventPerTxn
<1>16. EventIdsDistinct'
  <2>1. \A e \in outbox' : e \in outbox \/ e.id = event[t]
    BY <1>1
  <2> HIDE DEF ev
  <2>2. event[t] \in 1 .. outboxSeq /\ outboxSeq \in Nat
    BY <1>1 DEF Inv, EventIdsDistinct, TypeOK
  <2>3. \A e \in outbox' : e.id <= outboxSeq'
    BY <1>2, <2>1, <2>2 DEF Inv, EventIdsDistinct
  <2>4. \A u \in Threads \ {t} : pc[u] = "commit" =>
           /\ event[u] \in 1 .. outboxSeq /\ event[u] # event[t]
           /\ \A e \in outbox' : e.id # event[u]
    BY <1>1, <2>1 DEF Inv, EventIdsDistinct
  <2> QED BY <1>2, <1>3, <2>3, <2>4 DEF Inv, EventIdsDistinct
<1>17. LocksExclusive'
  <2>1. \A u \in Threads \ {t} : SharesItsAccounts(u)'
    BY <1>3 DEF Inv, LocksExclusive, SharesItsAccounts, Procs
  <2>2. SharesItsAccounts(t)'
    BY <1>2 DEF SharesItsAccounts
  <2>3. \A p, q \in Procs : p # q => forUpdate'[p] \cap (forUpdate'[q] \cup keyShare'[q]) = {}
    BY <1>2, <1>3 DEF Inv, LocksExclusive
  <2> QED BY <2>1, <2>2, <2>3 DEF LocksExclusive
<1> QED BY <1>7, <1>8, <1>9, <1>10, <1>11, <1>12, <1>13, <1>14, <1>15, <1>16, <1>17 DEF Inv

\* The snapshot job touches nothing the invariant speaks of but its own key share
\* locks, and waits like everyone else before it takes one.
LEMMA SnapInv ==
  ASSUME TypeOK, TypeOK', Inv,
         UNCHANGED <<tables, outboxSeq, forUpdate, work, pc, req, reply, answers>>,
         \A t \in Threads : keyShare'[t] = keyShare[t],
         \A p \in Threads : keyShare'[Snapshotter] \cap forUpdate[p] = {}
  PROVE  Inv'
<1>1. /\ UNCHANGED <<keys, txns, reversed, outbox, outboxSeq, forUpdate, pc, req, reply, answers>>
      /\ UNCHANGED <<todo, rows, event>>
  BY DEF tables, work
<1>2. ThreadShape'
  BY <1>1 DEF Inv, ThreadShape, FitsPlace, Key, Body, IsReversal
<1>3. TxnShape' /\ KeysMatchLedger' /\ AnswersAreTrue' /\ ReversedOnce' /\ OneEventPerTxn'
  BY <1>1 DEF Inv, TxnShape, KeysMatchLedger, AnswersAreTrue, ReversedOnce, OneEventPerTxn,
              ReversedInLedger
<1>4. ClaimsExclusive' /\ RepliesAreTrue'
  BY <1>1 DEF Inv, ClaimsExclusive, RepliesAreTrue, HoldsKey, Key
<1>5. ReversalsExclusive'
  BY <1>1 DEF Inv, ReversalsExclusive, HoldsReversal, ReversedInLedger, IsReversal, Body
<1>6. EventIdsDistinct'
  BY <1>1 DEF Inv, EventIdsDistinct
<1>7. LocksExclusive'
  <2>1. \A t \in Threads : SharesItsAccounts(t)'
    BY <1>1 DEF Inv, LocksExclusive, SharesItsAccounts
  <2>2. \A p, q \in Procs : p # q => forUpdate'[p] \cap (forUpdate'[q] \cup keyShare'[q]) = {}
    BY <1>1 DEF Inv, LocksExclusive, Procs
  <2> QED BY <2>1, <2>2 DEF LocksExclusive
<1> QED BY <1>2, <1>3, <1>4, <1>5, <1>6, <1>7 DEF Inv

\* Every step of every process keeps the invariant.
LEMMA InvStep ==
  ASSUME TypeOK, TypeOK', Inv, [Next]_vars
  PROVE  Inv'
<1>1. ASSUME NEW t \in Threads, ServerStep(t) \/ Crash(t)
      PROVE  Inv'
  BY <1>1, RollsBackEnds, EndsInv, ClaimInv, ReplayInv, BuildPostingInv, NextFloorInv,
     LockAccountInv, ReadOriginalInv, InsertRowsInv, ShareAccountInv, EmitInv, CommitInv,
     RecordDeclineInv, RespondInv DEF ServerStep, RollsBack
<1>2. ASSUME NEW t \in Threads, NEW r \in Requests, Send(t, r)
      PROVE  Inv'
  BY <1>2, SendInv
<1>3. \A p \in Threads : keyShare[Snapshotter] \cap forUpdate[p] = {}
  BY ProcessAssumption DEF Inv, LocksExclusive, Procs
<1>4. ASSUME SnapStart \/ (\E a \in Accounts : SnapCompute(a)) \/ UNCHANGED vars
      PROVE  Inv'
  <2>1. UNCHANGED <<tables, outboxSeq, forUpdate, keyShare, work, pc, req, reply, answers>>
    BY <1>4 DEF SnapStart, SnapCompute, vars, serials, locks
  <2> QED BY <1>3, <2>1, SnapInv
<1>5. ASSUME SnapShare
      PROVE  Inv'
  <2>1. UNCHANGED <<tables, outboxSeq, forUpdate, work, pc, req, reply, answers>>
    BY <1>5 DEF SnapShare, serials
  <2>2. /\ keyShare'[Snapshotter] = keyShare[Snapshotter] \cup SnapWaiting
        /\ \A t \in Threads : keyShare'[t] = keyShare[t]
    BY <1>5, ProcessAssumption DEF SnapShare, TypeOK, Procs
  <2>3. \A a \in SnapWaiting : ShareBlockers(Snapshotter, a) = {}
    BY <1>5 DEF SnapShare, SnapWaitsFor
  <2>4. \A p \in Threads : SnapWaiting \cap forUpdate[p] = {}
    BY <2>3, ProcessAssumption DEF ShareBlockers, Procs
  <2> QED BY <1>3, <2>1, <2>2, <2>4, SnapInv
<1>6. ASSUME NEW written, SnapEnd(written)
      PROVE  Inv'
  <2>1. UNCHANGED <<tables, outboxSeq, forUpdate, work, pc, req, reply, answers>>
    BY <1>6 DEF SnapEnd, serials
  <2>2. keyShare'[Snapshotter] = {} /\ \A t \in Threads : keyShare'[t] = keyShare[t]
    BY <1>6, ProcessAssumption DEF SnapEnd, TypeOK, Procs
  <2> QED BY <2>1, <2>2, SnapInv
<1> QED BY <1>1, <1>2, <1>4, <1>5, <1>6 DEF Next, SnapStep, SnapCommit, SnapAbort

\* The empty database satisfies the invariant.
LEMMA InitInv ==
  ASSUME Init
  PROVE  TypeOK /\ Inv
<1>1. TypeOK
  BY DEF Init, TypeOK, Procs, InTransaction
<1>2. txns = <<>> /\ DOMAIN txns = {}
  BY DEF Init
<1>3. \A t \in Threads : pc[t] = "idle"
  BY DEF Init
<1>4. ThreadShape /\ ClaimsExclusive /\ RepliesAreTrue /\ ReversalsExclusive /\ EventIdsDistinct
  BY <1>3 DEF Init, ThreadShape, FitsPlace, ClaimsExclusive, RepliesAreTrue, ReversalsExclusive,
              EventIdsDistinct, InTransaction
<1>5. TxnShape /\ KeysMatchLedger /\ AnswersAreTrue /\ ReversedOnce /\ OneEventPerTxn
  BY <1>2 DEF Init, TxnShape, KeysMatchLedger, AnswersAreTrue, ReversedOnce, OneEventPerTxn
<1>6. LocksExclusive
  BY <1>3 DEF Init, LocksExclusive, SharesItsAccounts
<1> QED BY <1>1, <1>4, <1>5, <1>6 DEF Inv

-----------------------------------------------------------------------------
(* The theorems.                                                            *)

\* Whatever the threads, the snapshot job, the clients and the crashes do, every
\* variable keeps its type and claims, index entries, row locks and drawn ids
\* stay exclusive.
THEOREM Invariance == Spec => [](TypeOK /\ Inv)
<1>1. Init => TypeOK /\ Inv
  BY InitInv
<1>2. TypeOK /\ Inv /\ [Next]_vars => (TypeOK /\ Inv)'
  BY TypeStep, InvStep
<1> QED BY <1>1, <1>2, PTL DEF Spec

\* Every variable keeps its type.
THEOREM TypeCorrect == Spec => []TypeOK
BY Invariance, PTL

\* The inductive invariant the write path rests on.
THEOREM InvHolds == Spec => []Inv
BY Invariance, PTL

\* However requests are retried, raced and crashed, the work under one
\* idempotency key is done at most once: two transactions of one key have the
\* same completed row, hence the same id.
THEOREM ExactlyOncePerKey == Spec => []OneTxnPerKey
<1>1. TypeOK /\ Inv => OneTxnPerKey
  <2> SUFFICES ASSUME Inv, NEW i \in DOMAIN txns, NEW j \in DOMAIN txns,
                      txns[i].req.key = txns[j].req.key, txns[i].req.key # NoKey
               PROVE  i = j
    BY DEF OneTxnPerKey
  <2> DEFINE row(k) == [key |-> txns[k].req.key, body |-> txns[k].req.body, txn |-> k]
  <2>1. row(i) \in keys /\ row(j) \in keys
    BY DEF Inv, KeysMatchLedger
  <2>2. row(i) = row(j)
    BY <2>1 DEF Inv, KeysMatchLedger
  <2>3. row(i).txn = i /\ row(j).txn = j
    OBVIOUS
  <2> QED BY <2>2, <2>3
<1> QED BY <1>1, Invariance, PTL

\* Every success a client was told, fresh or replayed, is in the ledger for that
\* very request.
THEOREM ClientsAreToldTheTruth == Spec => []AnswersAreTrue
<1>1. TypeOK /\ Inv => AnswersAreTrue
  BY DEF Inv
<1> QED BY <1>1, Invariance, PTL

\* The outbox and the ledger commit together: one event per transaction, and
\* none without one.
THEOREM OutboxMatchesLedger == Spec => []OneEventPerTxn
<1>1. TypeOK /\ Inv => OneEventPerTxn
  BY DEF Inv
<1> QED BY <1>1, Invariance, PTL

\* A transaction is reversed at most once, although the status check of
\* reverse_transaction reads without a lock.
THEOREM AtMostOneReversal == Spec => []ReversedOnce
<1>1. TypeOK /\ Inv => ReversedOnce
  BY DEF Inv
<1> QED BY <1>1, Invariance, PTL

\* Only a commit changes the ledger or the outbox.
LEMMA WhoWrites ==
  ASSUME Next, ~\E t \in Threads : Commit(t)
  PROVE  txns' = txns /\ outbox' = outbox
<1>1. ASSUME NEW t \in Threads, NEW r \in Requests, Send(t, r)
      PROVE  txns' = txns /\ outbox' = outbox
  BY <1>1 DEF Send, tables
<1>2. ASSUME NEW t \in Threads, Ends(t)
      PROVE  txns' = txns /\ outbox' = outbox
  BY <1>2 DEF Ends, tables
<1>3. ASSUME NEW t \in Threads, ServerStep(t) \/ Crash(t)
      PROVE  txns' = txns /\ outbox' = outbox
  <2>1. CASE RollsBack(t)
    BY <1>2, <2>1, RollsBackEnds
  <2>2. CASE Claim(t) \/ BuildPosting(t) \/ SkipFloor(t) \/ LockAccount(t) \/ PassFloor(t)
             \/ ReadOriginal(t) \/ InsertRows(t) \/ ShareAccount(t) \/ Emit(t)
    BY <2>2 DEF Claim, BuildPosting, SkipFloor, LockAccount, PassFloor, NextFloor, ReadOriginal,
                InsertRows, ShareAccount, Emit, Goto, tables
  <2>3. CASE Replay(t) \/ RecordDecline(t) \/ Respond(t)
    BY <2>3 DEF Replay, RecordDecline, Respond, tables
  <2> QED BY <1>3, <2>1, <2>2, <2>3 DEF ServerStep, RollsBack
<1>4. ASSUME SnapStep \/ SnapAbort
      PROVE  txns' = txns /\ outbox' = outbox
  BY <1>4 DEF SnapStep, SnapAbort, SnapStart, SnapCompute, SnapShare, SnapCommit, SnapEnd, tables
<1> QED BY <1>1, <1>3, <1>4 DEF Next

\* While a thread holds an account FOR UPDATE nobody else commits an entry on it:
\* the committer holds every account of its entries FOR KEY SHARE, and FOR
\* UPDATE excludes that.
THEOREM RowLockIsEnough == Spec => LockFreezesAccount
<1> DEFINE Frozen ==
       \A t \in Threads : \A a \in forUpdate[t] \cap forUpdate'[t] :
          \A i \in DOMAIN txns' \ DOMAIN txns : \A n \in DOMAIN txns'[i].rows :
             txns'[i].rows[n].account # a
<1>1. TypeOK /\ Inv /\ [Next]_vars => [Frozen]_vars
  <2> SUFFICES ASSUME TypeOK, Inv, Next
               PROVE  Frozen
    OBVIOUS
  <2>1. CASE ~\E c \in Threads : Commit(c)
    BY <2>1, WhoWrites
  <2>2. ASSUME NEW c \in Threads, Commit(c)
        PROVE  Frozen
    <3> SUFFICES ASSUME NEW t \in Threads, NEW a \in forUpdate[t] \cap forUpdate'[t],
                        NEW i \in DOMAIN txns' \ DOMAIN txns,
                        NEW n \in DOMAIN txns'[i].rows
                 PROVE  txns'[i].rows[n].account # a
      OBVIOUS
    <3>1. forUpdate'[c] = {} /\ pc[c] = "commit"
      BY <2>2 DEF Commit, Release, TypeOK, Procs
    <3>2. t # c
      BY <3>1
    <3>3. txns'[i].rows = rows[c]
      <4> DEFINE new == [req |-> req[c], rows |-> rows[c],
                         reverses |-> IF IsReversal(c) THEN Body(c).target ELSE 0]
      <4>1. txns \in Seq(Txn) /\ Len(txns) \in Nat /\ DOMAIN txns = 1 .. Len(txns)
        BY TxnType
      <4>2. txns' = Append(txns, new)
        BY <2>2 DEF Commit
      <4>3. new.rows = rows[c]
        OBVIOUS
      <4> HIDE DEF new
      <4>4. DOMAIN txns' = 1 .. Len(txns) + 1 /\ txns'[Len(txns) + 1] = new
        BY <4>1, <4>2
      <4>5. i = Len(txns) + 1
        BY <4>1, <4>4
      <4> QED BY <4>3, <4>4, <4>5
    <3>4. rows[c][n].account \in keyShare[c]
      BY <3>1, <3>3 DEF Inv, LocksExclusive, SharesItsAccounts
    <3>5. forUpdate[t] \cap keyShare[c] = {}
      BY <3>2 DEF Inv, LocksExclusive, Procs
    <3> QED BY <3>3, <3>4, <3>5
  <2> QED BY <2>1, <2>2
<1> QED BY <1>1, Invariance, PTL DEF Spec, LockFreezesAccount

\* Only a response changes what clients were told.
LEMMA WhoAnswers ==
  ASSUME Next, ~\E t \in Threads : Respond(t)
  PROVE  answers' = answers
<1>1. ASSUME NEW t \in Threads, NEW r \in Requests, Send(t, r)
      PROVE  answers' = answers
  BY <1>1 DEF Send
<1>2. ASSUME NEW t \in Threads, ServerStep(t) \/ Crash(t)
      PROVE  answers' = answers
  <2>1. CASE RollsBack(t)
    BY <2>1, RollsBackEnds DEF Ends
  <2>2. CASE Claim(t) \/ BuildPosting(t) \/ SkipFloor(t) \/ LockAccount(t) \/ PassFloor(t)
             \/ ReadOriginal(t) \/ InsertRows(t) \/ ShareAccount(t) \/ Emit(t)
    BY <2>2 DEF Claim, BuildPosting, SkipFloor, LockAccount, PassFloor, NextFloor, ReadOriginal,
                InsertRows, ShareAccount, Emit, Goto
  <2>3. CASE Replay(t) \/ RecordDecline(t) \/ Commit(t)
    BY <2>3 DEF Replay, RecordDecline, Commit
  <2> QED BY <1>2, <2>1, <2>2, <2>3 DEF ServerStep, RollsBack
<1>3. ASSUME SnapStep \/ SnapAbort
      PROVE  answers' = answers
  BY <1>3 DEF SnapStep, SnapAbort, SnapStart, SnapCompute, SnapShare, SnapCommit, SnapEnd
<1> QED BY <1>1, <1>2, <1>3 DEF Next

\* The refinement mapping of the ledger.
Applied(s) == [i \in DOMAIN s |-> [req |-> s[i].req, reverses |-> s[i].reverses]]

\* Appending a transaction appends its image.
LEMMA AppliedAppend ==
  ASSUME NEW s \in Seq(Txn), NEW e \in Txn
  PROVE  /\ Applied(Append(s, e)) = Append(Applied(s), [req |-> e.req, reverses |-> e.reverses])
         /\ Len(Applied(s)) = Len(s)
         /\ DOMAIN Applied(s) = DOMAIN s
<1> DEFINE T == [req : Requests, reverses : Nat]
           f == [req |-> e.req, reverses |-> e.reverses]
<1>1. DOMAIN s = 1 .. Len(s) /\ Len(s) \in Nat
  OBVIOUS
<1>2. \A i \in 1 .. Len(s) : s[i] \in Txn
  BY ElementOfSeq
<1>3. Applied(s) \in [1 .. Len(s) -> T]
  BY <1>1, <1>2 DEF Applied, Txn
<1>4. Applied(s) \in Seq(T) /\ Len(Applied(s)) = Len(s)
  <2> HIDE DEF T
  <2>1. Applied(s) \in Seq(T)
    BY <1>1, <1>3, SeqDef
  <2>2. DOMAIN Applied(s) = 1 .. Len(s) /\ DOMAIN Applied(s) = 1 .. Len(Applied(s))
    BY <1>3, <2>1, LenProperties
  <2> QED BY <1>1, <2>1, <2>2, LenProperties
<1>5. f \in T
  BY DEF Txn
<1>6. /\ Append(Applied(s), f) \in Seq(T)
      /\ Len(Append(Applied(s), f)) = Len(s) + 1
      /\ \A i \in 1 .. Len(s) : Append(Applied(s), f)[i] = Applied(s)[i]
      /\ Append(Applied(s), f)[Len(s) + 1] = f
  <2> HIDE DEF T, f
  <2> QED BY <1>4, <1>5, AppendProperties
<1>7. /\ DOMAIN Append(s, e) = 1 .. Len(s) + 1
      /\ \A i \in 1 .. Len(s) : Append(s, e)[i] = s[i]
      /\ Append(s, e)[Len(s) + 1] = e
  BY <1>1
<1>8. /\ DOMAIN Applied(Append(s, e)) = 1 .. Len(s) + 1
      /\ \A i \in 1 .. Len(s) : Applied(Append(s, e))[i] = Applied(s)[i]
      /\ Applied(Append(s, e))[Len(s) + 1] = f
  BY <1>1, <1>7 DEF Applied
<1>9. Applied(Append(s, e)) \in [1 .. Len(s) + 1 -> T]
  <2>1. Applied(Append(s, e)) = [i \in 1 .. Len(s) + 1 |-> Applied(Append(s, e))[i]]
    BY <1>8 DEF Applied
  <2>2. \A i \in 1 .. Len(s) + 1 : Applied(Append(s, e))[i] \in T
    BY <1>1, <1>3, <1>5, <1>8
  <2> HIDE DEF T
  <2> QED BY <2>1, <2>2
<1>10. Applied(Append(s, e)) \in Seq(T) /\ Len(Applied(Append(s, e))) = Len(s) + 1
  <2> HIDE DEF T
  <2>1. Len(s) + 1 \in Nat
    BY <1>1
  <2>2. Applied(Append(s, e)) \in Seq(T)
    BY <1>9, <2>1, SeqDef
  <2>3. DOMAIN Applied(Append(s, e)) = 1 .. Len(Applied(Append(s, e)))
    BY <2>2, LenProperties
  <2> QED BY <1>1, <1>8, <2>2, <2>3, LenProperties
<1>11. Applied(Append(s, e)) = Append(Applied(s), f)
  <2> HIDE DEF T, f
  <2>1. \A i \in 1 .. Len(s) + 1 : Applied(Append(s, e))[i] = Append(Applied(s), f)[i]
    BY <1>1, <1>6, <1>8
  <2> QED BY <1>6, <1>10, <2>1, SeqEqual
<1>12. DOMAIN Applied(s) = DOMAIN s
  BY DEF Applied
<1> QED BY <1>4, <1>11, <1>12

\* The write path implements the abstract ledger of ExactlyOnce: a commit is one
\* Apply, a successful response one Answer, and every other step of every
\* process is invisible.
THEOREM Refinement == Spec => ImplementsExactlyOnce
<1>1. Init => Abstract!Init
  BY DEF Init, Abstract!Init
<1>2. TypeOK /\ TypeOK' /\ Inv /\ [Next]_vars => [Abstract!Next]_(Abstract!vars)
  <2> SUFFICES ASSUME TypeOK, TypeOK', Inv, [Next]_vars
               PROVE  Abstract!Next \/ UNCHANGED Abstract!vars
    OBVIOUS
  <2>1. ASSUME NEW t \in Threads, Commit(t)
        PROVE  Abstract!Next
    <3> DEFINE x   == IF IsReversal(t) THEN Body(t).target ELSE 0
               new == [req |-> req[t], rows |-> rows[t], reverses |-> x]
    <3>1. /\ pc[t] = "commit" /\ txns' = Append(txns, new) /\ answers' = answers
          /\ req[t] \in Requests /\ rows[t] \in Seq(Row)
      BY <2>1 DEF Commit, Inv, ThreadShape, FitsPlace, TypeOK
    <3>2. x \in Nat /\ x = Abstract!Original(req[t]) /\ (x # 0 => IsReversal(t))
      BY <3>1, RequestAssumption DEF Abstract!Original, IsReversal, Body
    <3>3. new \in Txn /\ txns \in Seq(Txn)
      BY <3>1, <3>2, TxnType DEF Txn
    <3>4. Applied(txns') = Append(Applied(txns), [req |-> req[t], reverses |-> x])
          /\ Len(Applied(txns)) = Len(txns)
      <4>1. new.req = req[t] /\ new.reverses = x
        OBVIOUS
      <4> HIDE DEF new, x
      <4> QED BY <3>1, <3>3, <4>1, AppliedAppend
    <3>5. {e.txn : e \in outbox'} = {e.txn : e \in outbox} \cup {Len(txns) + 1}
      <4>1. PICK ev : outbox' = outbox \cup {ev} /\ ev.txn = Len(txns) + 1
        <5> DEFINE ev == [id |-> event[t], txn |-> NextTxn, partition |-> PrimaryAccount(rows[t]),
                          type |-> IF IsReversal(t) THEN "transaction.reversed"
                                   ELSE "transaction.created"]
        <5>1. outbox' = outbox \cup {ev}
          BY <2>1 DEF Commit
        <5>2. ev.txn = Len(txns) + 1
          BY DEF NextTxn
        <5> HIDE DEF ev
        <5> QED BY <5>1, <5>2
      <4> QED BY <4>1
    <3>6. Key(t) = NoKey \/ \A i \in DOMAIN txns : txns[i].req.key # Key(t)
      <4>1. Key(t) # NoKey => \A row \in keys : row.key # Key(t)
        BY <3>1 DEF Inv, ClaimsExclusive, InTransaction
      <4>2. \A i \in DOMAIN txns : txns[i].req.key # NoKey =>
               [key |-> txns[i].req.key, body |-> txns[i].req.body, txn |-> i] \in keys
        BY DEF Inv, KeysMatchLedger
      <4> QED BY <4>1, <4>2
    <3>7. x # 0 => x \in DOMAIN txns /\ \A i \in DOMAIN txns : txns[i].reverses # x
      BY <3>1, <3>2 DEF Inv, ThreadShape, FitsPlace, ReversalsExclusive, ReversedInLedger
    <3>8. Abstract!KeyUnused(req[t])
      BY <3>6 DEF Abstract!KeyUnused, Key
    <3>9. x # 0 => Abstract!Reversible(x)
      BY <3>7 DEF Abstract!Reversible
    <3> HIDE DEF x, new
    <3>10. PICK r \in Requests : r = req[t]
      BY <3>1
    <3>11. Abstract!Apply(r)
      BY <3>1, <3>2, <3>4, <3>5, <3>8, <3>9, <3>10 DEF Abstract!Apply, Applied
    <3> QED BY <3>11 DEF Abstract!Next
  <2>2. ASSUME NEW t \in Threads, Respond(t), reply[t] # 0
        PROVE  Abstract!Next
    <3>1. /\ txns' = txns /\ outbox' = outbox
          /\ answers' = answers \cup {[req |-> req[t], txn |-> reply[t]]}
      BY <2>2 DEF Respond, tables
    <3>2. reply[t] \in DOMAIN txns /\ txns[reply[t]].req = req[t]
      BY <2>2 DEF Respond, Inv, RepliesAreTrue
    <3>3. Abstract!Answer(reply[t])
      BY <3>1, <3>2 DEF Abstract!Answer
    <3> QED BY <3>2, <3>3 DEF Abstract!Next
  <2>3. ASSUME NEW t \in Threads, Respond(t), reply[t] = 0
        PROVE  UNCHANGED Abstract!vars
    BY <2>3 DEF Respond, tables, Abstract!vars
  <2>4. CASE Next /\ (~\E t \in Threads : Commit(t)) /\ (~\E t \in Threads : Respond(t))
    BY <2>4, WhoWrites, WhoAnswers DEF Abstract!vars
  <2>5. CASE UNCHANGED vars
    BY <2>5 DEF vars, tables, Abstract!vars
  <2> QED BY <2>1, <2>2, <2>3, <2>4, <2>5
<1> QED BY <1>1, <1>2, Invariance, PTL DEF Spec, ImplementsExactlyOnce, Abstract!Spec

-----------------------------------------------------------------------------
(* Sums over the ledger.                                                    *)

\* The lemmas about sums are those of JournalProofs, for this chart of accounts.
Sums == INSTANCE JournalProofs WITH
    Postings <- {}, RawLegs <- {}, MaxTxns <- 0, journal <- <<>>, offered <- <<>>

\* The assumptions of Journal hold of it.
LEMMA SumsApply ==
  /\ Sums!AccountsAssumption /\ Sums!AccountTypeAssumption
  /\ Sums!RawLegsAssumption /\ Sums!PostingsAssumption
<1>1. Sums!AccountsAssumption
  BY ChartAssumption DEF Sums!AccountsAssumption, Sums!IsFiniteSet, IsFiniteSet
<1>2. Sums!AccountTypeAssumption
  BY ChartAssumption DEF Sums!AccountTypeAssumption, Sums!AccountTypes, AccountTypes
<1>3. Sums!RawLegsAssumption
  BY DEF Sums!RawLegsAssumption
<1>4. Sums!PostingsAssumption
  BY DEF Sums!PostingsAssumption
<1> QED BY <1>1, <1>2, <1>3, <1>4

\* Both mean the same sum.
LEMMA SameTotal == \A s : Total(s) = Sums!Total(s)
  BY DEF Total, Sums!Total, PrefixSums, Sums!PrefixSums

\* A function on 1 .. m with integer values has an integer total.
LEMMA TotalIsInt ==
  ASSUME NEW m \in Nat, NEW f \in [1 .. m -> Int]
  PROVE  Total(f) \in Int
<1>1. f \in Seq(Int)
  BY Sums!IntSeq, SumsApply
<1> QED BY <1>1, Sums!TotalType, SumsApply, SameTotal

\* Totals add, zeros add nothing, and a total grows by what is appended.
LEMMA TotalsAdd ==
  ASSUME NEW m \in Nat, NEW f \in [1 .. m -> Int], NEW g \in [1 .. m -> Int],
         NEW h \in [1 .. m -> Int], \A i \in 1 .. m : f[i] = g[i] + h[i]
  PROVE  Total(f) = Total(g) + Total(h)
<1>1. /\ f \in Seq(Int) /\ g \in Seq(Int) /\ h \in Seq(Int)
      /\ Len(f) = m /\ Len(g) = m /\ Len(h) = m
  BY Sums!IntSeq, SumsApply
<1>2. Len(g) = Len(f) /\ Len(h) = Len(f) /\ \A i \in 1 .. Len(f) : f[i] = g[i] + h[i]
  BY <1>1
<1>3. Sums!Total(f) = Sums!Total(g) + Sums!Total(h)
  BY <1>1, <1>2, Sums!TotalOfSum, SumsApply
<1> QED BY <1>3, SameTotal

\* See TotalsAdd.
LEMMA TotalOfNone ==
  ASSUME NEW m \in Nat, NEW f \in [1 .. m -> Int], \A i \in 1 .. m : f[i] = 0
  PROVE  Total(f) = 0
<1>1. f \in Seq(Int) /\ Len(f) = m
  BY Sums!IntSeq, SumsApply
<1>2. Sums!Total(f) = 0
  BY <1>1, Sums!TotalOfZeros, SumsApply
<1> QED BY <1>2, SameTotal

\* See TotalsAdd.
LEMMA TotalGrows ==
  ASSUME NEW m \in Nat, NEW f \in [1 .. m -> Int], NEW g \in [1 .. m + 1 -> Int],
         \A i \in 1 .. m : g[i] = f[i]
  PROVE  Total(g) = Total(f) + g[m + 1]
<1>1. /\ f \in Seq(Int) /\ g \in Seq(Int) /\ Len(f) = m /\ Len(g) = m + 1
  BY m + 1 \in Nat, Sums!IntSeq, SumsApply
<1>2. Len(g) = Len(f) + 1 /\ \A i \in 1 .. Len(f) : g[i] = f[i]
  BY <1>1
<1>3. Sums!Total(g) = Sums!Total(f) + g[Len(g)]
  BY <1>1, <1>2, Sums!TotalOfAppend, SumsApply
<1> QED BY <1>1, <1>3, SameTotal

\* What the entries of one transaction add to an account is an integer; those at
\* or below a cursor and those after it add up to all of them.
LEMMA MovedFacts ==
  ASSUME NEW a, NEW entries \in Seq(Row), NEW upTo \in Nat
  PROVE  /\ MovedAfter(a, 0, entries) \in Int
         /\ MovedAfter(a, upTo, entries) \in Int
         /\ MovedUpTo(a, upTo, entries) \in Int
         /\ MovedAfter(a, 0, entries) = MovedUpTo(a, upTo, entries) + MovedAfter(a, upTo, entries)
<1> DEFINE N == Len(entries)
           all   == [n \in DOMAIN entries |-> IF entries[n].account = a /\ entries[n].id > 0
                                              THEN Signed(AccountType, entries[n]) ELSE 0]
           early == [n \in DOMAIN entries |-> IF entries[n].account = a /\ entries[n].id <= upTo
                                              THEN Signed(AccountType, entries[n]) ELSE 0]
           late  == [n \in DOMAIN entries |-> IF entries[n].account = a /\ entries[n].id > upTo
                                              THEN Signed(AccountType, entries[n]) ELSE 0]
<1>1. N \in Nat /\ DOMAIN entries = 1 .. N
  OBVIOUS
<1>2. \A n \in 1 .. N : entries[n].id \in Nat \ {0} /\ Signed(AccountType, entries[n]) \in Int
  <2> TAKE n \in 1 .. N
  <2>1. entries[n] \in Row
    BY ElementOfSeq
  <2> QED BY <2>1 DEF Row, Signed
<1>3. all \in [1 .. N -> Int] /\ early \in [1 .. N -> Int] /\ late \in [1 .. N -> Int]
  BY <1>1, <1>2
<1>4. \A n \in 1 .. N : all[n] = early[n] + late[n]
  BY <1>1, <1>2
<1>5. /\ MovedAfter(a, 0, entries) = Total(all)
      /\ MovedAfter(a, upTo, entries) = Total(late)
      /\ MovedUpTo(a, upTo, entries) = Total(early)
  BY DEF MovedAfter, MovedUpTo
<1> HIDE DEF N, all, early, late
<1>6. Total(all) \in Int /\ Total(early) \in Int /\ Total(late) \in Int
  BY <1>1, <1>3, TotalIsInt
<1>7. Total(all) = Total(early) + Total(late)
  BY <1>1, <1>3, <1>4, TotalsAdd
<1> QED BY <1>5, <1>6, <1>7

\* Where all entries of an account are at or below the cursor, none are after it.
LEMMA MovedNone ==
  ASSUME NEW a, NEW entries \in Seq(Row), NEW upTo \in Nat,
         \A n \in DOMAIN entries : entries[n].account = a => entries[n].id <= upTo
  PROVE  MovedAfter(a, upTo, entries) = 0
<1> DEFINE N == Len(entries)
           late  == [n \in DOMAIN entries |-> IF entries[n].account = a /\ entries[n].id > upTo
                                              THEN Signed(AccountType, entries[n]) ELSE 0]
<1>1. N \in Nat /\ DOMAIN entries = 1 .. N
  OBVIOUS
<1>2. \A n \in 1 .. N : late[n] = 0
  <2> TAKE n \in 1 .. N
  <2>1. entries[n] \in Row
    BY ElementOfSeq
  <2> QED BY <1>1, <2>1 DEF Row
<1>3. late = [n \in 1 .. N |-> late[n]]
  BY <1>1
<1>4. MovedAfter(a, upTo, entries) = Total(late)
  BY DEF MovedAfter
<1> HIDE DEF N, late
<1> QED BY <1>1, <1>2, <1>3, <1>4, TotalOfNone

\* Entries are the lines of the committed transactions.
LEMMA EntriesAre ==
  ASSUME NEW a, NEW after
  PROVE  /\ \A i \in DOMAIN txns : \A n \in DOMAIN txns[i].rows :
               /\ EntryAt(<<i, n>>) = txns[i].rows[n]
               /\ <<i, n>> \in RowsOf(a, after)
                    <=> txns[i].rows[n].account = a /\ txns[i].rows[n].id > after
         /\ \A p \in RowsOf(a, after) :
               \E i \in DOMAIN txns : \E n \in DOMAIN txns[i].rows : p = <<i, n>>
BY DEF RowsOf, Entries, EntryAt

-----------------------------------------------------------------------------
(* The snapshot cache.                                                      *)

\* What of the first `seen` transactions a snapshot of a has to sum up.
SeenSum(a, seen) ==
    Total([i \in DOMAIN txns |-> IF i <= seen THEN MovedAfter(a, 0, txns[i].rows) ELSE 0])

\* A snapshot sums up the transactions it saw, whose entries on the account are
\* all at or below its cursor.
SnapshotOK(s) ==
    /\ s.upTo \in 0 .. entrySeq /\ s.seen \in 0 .. Len(txns)
    /\ \A i \in 1 .. s.seen : \A n \in DOMAIN txns[i].rows :
          txns[i].rows[n].account = s.account => txns[i].rows[n].id <= s.upTo
    /\ s.balance = SeenSum(s.account, s.seen)

\* Every entry, committed or not, has drawn its id; the job only folds accounts
\* that have entries.
EntryIdsDrawn ==
    /\ \A i \in DOMAIN txns : \A n \in DOMAIN txns[i].rows : txns[i].rows[n].id <= entrySeq
    /\ \A t \in Threads : \A n \in DOMAIN rows[t] : rows[t][n].id <= entrySeq
    /\ \A a \in snapTodo : RowsOf(a, 0) # {}

CacheInv == EntryIdsDrawn /\ \A s \in snapshots \cup snapRows : SnapshotOK(s)

\* A non-empty bounded set of numbers has a largest element.
LEMMA LargestExists ==
  ASSUME NEW m \in Nat, NEW S, S \subseteq 0 .. m, S # {}
  PROVE  \E x \in S : \A y \in S : y <= x
<1> DEFINE T == {k \in Nat : k <= m => \A x \in S : x < m - k}
<1> SUFFICES ASSUME \A x \in S : \E y \in S : ~(y <= x) PROVE FALSE
  OBVIOUS
<1>1. 0 \in T
  <2>1. \A x \in S : x \in Nat /\ x <= m /\ x # m
    OBVIOUS
  <2> QED BY <2>1
<1>2. ASSUME NEW k \in Nat, k \in T PROVE k + 1 \in T
  <2> SUFFICES ASSUME k + 1 <= m, NEW x \in S PROVE x < m - (k + 1)
    OBVIOUS
  <2>1. \A y \in S : y \in Nat /\ y < m - k
    BY <1>2
  <2>2. PICK y \in S : ~(y <= x)
    OBVIOUS
  <2> QED BY <2>1, <2>2
<1>3. Nat \subseteq T
  <2> HIDE DEF T
  <2> QED BY <1>1, <1>2, Sums!Induction, SumsApply
<1>4. PICK x \in S : TRUE
  OBVIOUS
<1>5. m \in T
  BY <1>3
<1> QED BY <1>4, <1>5

\* The newest snapshot is one of the committed ones, or the empty one.
LEMMA NewestIsOK ==
  ASSUME TypeOK, CacheInv, NEW a \in Accounts
  PROVE  /\ SnapshotOK(LatestSnapshot(a)) /\ LatestSnapshot(a).account = a
         /\ LatestSnapshot(a).upTo \in Nat
<1>1. entrySeq \in Nat /\ Len(txns) \in Nat /\ DOMAIN txns = 1 .. Len(txns)
  BY TxnType DEF TypeOK
<1>2. CASE SnapshotsOf(a) = {}
  <2> DEFINE s == [account |-> a, upTo |-> 0, balance |-> 0, seen |-> 0]
             none == [i \in DOMAIN txns |-> IF i <= 0 THEN MovedAfter(a, 0, txns[i].rows) ELSE 0]
  <2>1. LatestSnapshot(a) = s
    BY <1>2 DEF LatestSnapshot
  <2>2. \A i \in 1 .. Len(txns) : none[i] = 0
    BY <1>1
  <2>3. none = [i \in 1 .. Len(txns) |-> none[i]]
    BY <1>1
  <2>4. SeenSum(a, 0) = Total(none)
    BY DEF SeenSum
  <2> HIDE DEF none
  <2>5. Total(none) = 0
    BY <1>1, <2>2, <2>3, TotalOfNone
  <2> QED BY <1>1, <2>1, <2>4, <2>5 DEF SnapshotOK
<1>3. CASE SnapshotsOf(a) # {}
  <2>1. SnapshotsOf(a) \subseteq snapshots /\ \A s \in SnapshotsOf(a) : s.account = a
    BY DEF SnapshotsOf
  <2>2. \A s \in SnapshotsOf(a) : SnapshotOK(s) /\ s.upTo \in 0 .. entrySeq
    BY <2>1 DEF CacheInv, SnapshotOK
  <2>3. \E s \in SnapshotsOf(a) : \A o \in SnapshotsOf(a) : o.upTo <= s.upTo
    <3> DEFINE S == {s.upTo : s \in SnapshotsOf(a)}
    <3>1. S \subseteq 0 .. entrySeq /\ S # {}
      BY <1>3, <2>2
    <3>2. \E x \in S : \A y \in S : y <= x
      <4> HIDE DEF S
      <4> QED BY <1>1, <3>1, LargestExists
    <3> QED BY <3>2
  <2>4. LatestSnapshot(a) \in SnapshotsOf(a)
    BY <1>3, <2>3 DEF LatestSnapshot
  <2> QED BY <1>1, <2>1, <2>2, <2>4
<1> QED BY <1>2, <1>3

\* A step that adds no transaction, no snapshot and no entry row keeps what was
\* true of them.
LEMMA CacheFrame ==
  ASSUME TypeOK, TypeOK', CacheInv, txns' = txns, entrySeq' >= entrySeq,
         snapshots' \cup snapRows' \subseteq snapshots \cup snapRows, snapTodo' \subseteq snapTodo,
         \A t \in Threads : rows'[t] = rows[t] \/ rows'[t] = <<>>
  PROVE  CacheInv'
<1>1. entrySeq \in Nat /\ entrySeq' \in Nat
  BY DEF TypeOK
<1>2. \A i \in DOMAIN txns : \A n \in DOMAIN txns[i].rows : txns[i].rows[n].id \in Nat
  <2> TAKE i \in DOMAIN txns
  <2>1. txns[i].rows \in Seq(Row)
    BY TxnType
  <2> TAKE n \in DOMAIN txns[i].rows
  <2>2. txns[i].rows[n] \in Row
    BY <2>1, ElementOfSeq
  <2> QED BY <2>2 DEF Row
<1>3. \A t \in Threads : \A n \in DOMAIN rows[t] : rows[t][n].id \in Nat
  <2> TAKE t \in Threads
  <2>1. rows[t] \in Seq(Row)
    BY DEF TypeOK
  <2> TAKE n \in DOMAIN rows[t]
  <2>2. rows[t][n] \in Row
    BY <2>1, ElementOfSeq
  <2> QED BY <2>2 DEF Row
<1>4. EntryIdsDrawn'
  <2>1. \A i \in DOMAIN txns' : \A n \in DOMAIN txns'[i].rows : txns'[i].rows[n].id <= entrySeq'
    BY <1>1, <1>2 DEF CacheInv, EntryIdsDrawn
  <2>2. \A t \in Threads : \A n \in DOMAIN rows'[t] : rows'[t][n].id <= entrySeq'
    <3> TAKE t \in Threads
    <3>1. CASE rows'[t] = rows[t]
      BY <1>1, <1>3, <3>1 DEF CacheInv, EntryIdsDrawn
    <3>2. CASE rows'[t] = <<>>
      BY <3>2
    <3> QED BY <3>1, <3>2
  <2>3. \A a \in snapTodo' : RowsOf(a, 0)' # {}
    BY DEF CacheInv, EntryIdsDrawn, RowsOf, Entries, EntryAt
  <2> QED BY <2>1, <2>2, <2>3 DEF EntryIdsDrawn
<1>5. ASSUME NEW s \in snapshots \cup snapRows PROVE SnapshotOK(s)'
  <2>1. SnapshotOK(s)
    BY DEF CacheInv
  <2>2. SeenSum(s.account, s.seen)' = SeenSum(s.account, s.seen)
    BY DEF SeenSum
  <2> QED BY <1>1, <2>1, <2>2 DEF SnapshotOK
<1> QED BY <1>4, <1>5 DEF CacheInv

\* What a COMMIT appends to the ledger.
LEMMA CommitAppends ==
  ASSUME TypeOK, Inv, NEW t \in Threads, Commit(t)
  PROVE  /\ DOMAIN txns = 1 .. Len(txns) /\ Len(txns) \in Nat
         /\ DOMAIN txns' = 1 .. Len(txns) + 1 /\ Len(txns') = Len(txns) + 1
         /\ \A i \in DOMAIN txns : txns'[i] = txns[i]
         /\ txns'[Len(txns) + 1].rows = rows[t]
         /\ txns'[Len(txns) + 1].req = req[t]
         /\ txns'[Len(txns) + 1].reverses = IF IsReversal(t) THEN Body(t).target ELSE 0
<1> DEFINE new == [req |-> req[t], rows |-> rows[t],
                   reverses |-> IF IsReversal(t) THEN Body(t).target ELSE 0]
<1>1. txns \in Seq(Txn) /\ Len(txns) \in Nat /\ DOMAIN txns = 1 .. Len(txns)
  BY TxnType
<1>2. txns' = Append(txns, new)
  BY DEF Commit
<1>3. /\ new.rows = rows[t] /\ new.req = req[t]
      /\ new.reverses = IF IsReversal(t) THEN Body(t).target ELSE 0
  OBVIOUS
<1> HIDE DEF new
<1>4. /\ DOMAIN txns' = 1 .. Len(txns) + 1 /\ txns'[Len(txns) + 1] = new /\ Len(txns') = Len(txns) + 1
      /\ \A i \in 1 .. Len(txns) : txns'[i] = txns[i]
  BY <1>1, <1>2
<1> QED BY <1>1, <1>3, <1>4

\* A COMMIT leaves the snapshots right: it is one of the entries they did not see.
LEMMA CommitCache ==
  ASSUME TypeOK, TypeOK', Inv, CacheInv, NEW t \in Threads, Commit(t)
  PROVE  CacheInv'
<1> DEFINE N == Len(txns)
<1>1. /\ DOMAIN txns = 1 .. N /\ N \in Nat
      /\ DOMAIN txns' = 1 .. N + 1 /\ Len(txns') = N + 1
      /\ \A i \in 1 .. N : txns'[i] = txns[i]
      /\ txns'[N + 1].rows = rows[t]
  BY CommitAppends
<1>2. /\ entrySeq' = entrySeq /\ snapshots' = snapshots /\ snapRows' = snapRows /\ snapTodo' = snapTodo
      /\ \A u \in Threads : rows'[u] = rows[u] \/ rows'[u] = <<>>
  BY DEF Commit, Release, serials, snapVars, TypeOK
<1>3. EntryIdsDrawn'
  <2>1. \A i \in DOMAIN txns' : \A n \in DOMAIN txns'[i].rows : txns'[i].rows[n].id <= entrySeq'
    <3> TAKE i \in DOMAIN txns'
    <3>1. CASE i \in 1 .. N
      BY <1>1, <1>2, <3>1 DEF CacheInv, EntryIdsDrawn
    <3>2. CASE i = N + 1
      BY <1>1, <1>2, <3>2 DEF CacheInv, EntryIdsDrawn
    <3> QED BY <1>1, <3>1, <3>2
  <2>2. \A u \in Threads : \A n \in DOMAIN rows'[u] : rows'[u][n].id <= entrySeq'
    BY <1>2 DEF CacheInv, EntryIdsDrawn
  <2>3. ASSUME NEW a \in snapTodo' PROVE RowsOf(a, 0)' # {}
    <3>1. PICK p \in RowsOf(a, 0) : TRUE
      BY <1>2, <2>3 DEF CacheInv, EntryIdsDrawn
    <3>2. PICK i \in DOMAIN txns : \E n \in DOMAIN txns[i].rows : p = <<i, n>>
      BY <3>1, EntriesAre
    <3>3. PICK n \in DOMAIN txns[i].rows : p = <<i, n>>
      BY <3>2
    <3>4. txns[i].rows[n].account = a /\ txns[i].rows[n].id > 0
      BY <3>1, <3>3 DEF RowsOf, EntryAt
    <3>5. i \in DOMAIN txns' /\ n \in DOMAIN txns'[i].rows /\ txns'[i] = txns[i]
      BY <1>1, <3>2, <3>3
    <3>6. <<i, n>> \in RowsOf(a, 0)'
      BY <3>4, <3>5 DEF RowsOf, Entries, EntryAt
    <3> QED BY <3>6
  <2> QED BY <2>1, <2>2, <2>3 DEF EntryIdsDrawn
<1>4. ASSUME NEW s \in snapshots \cup snapRows PROVE SnapshotOK(s)'
  <2>1. SnapshotOK(s) /\ s.seen \in 0 .. N
    BY DEF CacheInv, SnapshotOK
  <2>2. \A i \in 1 .. s.seen : i \in 1 .. N
    BY <1>1, <2>1
  <2> DEFINE f == [i \in DOMAIN txns |-> IF i <= s.seen THEN MovedAfter(s.account, 0, txns[i].rows) ELSE 0]
             g == [i \in DOMAIN txns' |-> IF i <= s.seen THEN MovedAfter(s.account, 0, txns'[i].rows) ELSE 0]
  <2>3. \A i \in 1 .. N : MovedAfter(s.account, 0, txns[i].rows) \in Int
    <3> TAKE i \in 1 .. N
    <3>1. txns[i].rows \in Seq(Row)
      BY <1>1, TxnType
    <3> QED BY <3>1, MovedFacts, 0 \in Nat
  <2>4. f \in [1 .. N -> Int] /\ g \in [1 .. N + 1 -> Int]
    <3>1. \A i \in 1 .. N + 1 : i <= s.seen => i \in 1 .. N
      BY <1>1, <2>1
    <3> QED BY <1>1, <2>3, <3>1
  <2>5. (\A i \in 1 .. N : g[i] = f[i]) /\ g[N + 1] = 0
    BY <1>1, <2>1
  <2>6. SeenSum(s.account, s.seen) = Total(f) /\ SeenSum(s.account, s.seen)' = Total(g)
    BY DEF SeenSum
  <2> HIDE DEF f, g
  <2>7. Total(g) = Total(f)
    <3>1. Total(g) = Total(f) + g[N + 1]
      BY <1>1, <2>4, <2>5, TotalGrows
    <3>2. Total(f) \in Int
      BY <1>1, <2>4, TotalIsInt
    <3> QED BY <2>5, <3>1, <3>2
  <2>8. \A i \in 1 .. s.seen : txns'[i] = txns[i]
    BY <1>1, <2>2
  <2> HIDE DEF N
  <2> QED BY <1>1, <1>2, <2>1, <2>6, <2>7, <2>8 DEF SnapshotOK, N
<1> QED BY <1>2, <1>3, <1>4 DEF CacheInv

\* INSERT INTO entries draws an id for every row.
LEMMA InsertRowsCache ==
  ASSUME TypeOK, TypeOK', Inv, CacheInv, NEW t \in Threads, InsertRows(t)
  PROVE  CacheInv'
<1> DEFINE legs == LegsToInsert(t)
<1>1. /\ Len(legs) \in Nat \ {0} /\ DOMAIN legs = 1 .. Len(legs)
      /\ rows' = [rows EXCEPT ![t] =
            [i \in DOMAIN legs |->
                [id |-> entrySeq + i, account |-> legs[i].account,
                 direction |-> legs[i].direction, amount |-> legs[i].amount,
                 currency |-> legs[i].currency]]]
      /\ entrySeq' = entrySeq + Len(legs)
  BY InsertedType DEF InsertRows
<1> HIDE DEF legs
<1>2. /\ entrySeq \in Nat /\ txns' = txns /\ snapshots' = snapshots /\ snapRows' = snapRows
      /\ snapTodo' = snapTodo
  BY DEF InsertRows, Goto, tables, snapVars, TypeOK
<1>3. \A n \in DOMAIN rows'[t] : rows'[t][n].id <= entrySeq'
  <2>1. \A n \in 1 .. Len(legs) : rows'[t][n].id = entrySeq + n
    BY <1>1 DEF TypeOK
  <2>2. DOMAIN rows'[t] = 1 .. Len(legs)
    BY <1>1 DEF TypeOK
  <2> QED BY <1>1, <1>2, <2>1, <2>2
<1>4. \A u \in Threads \ {t} : rows'[u] = rows[u]
  BY <1>1 DEF TypeOK
<1>5. \A i \in DOMAIN txns : \A n \in DOMAIN txns[i].rows : txns[i].rows[n].id \in Nat
  <2> TAKE i \in DOMAIN txns
  <2>1. txns[i].rows \in Seq(Row)
    BY TxnType
  <2> TAKE n \in DOMAIN txns[i].rows
  <2>2. txns[i].rows[n] \in Row
    BY <2>1, ElementOfSeq
  <2> QED BY <2>2 DEF Row
<1>6. \A u \in Threads : \A n \in DOMAIN rows[u] : rows[u][n].id \in Nat
  <2> TAKE u \in Threads
  <2>1. rows[u] \in Seq(Row)
    BY DEF TypeOK
  <2> TAKE n \in DOMAIN rows[u]
  <2>2. rows[u][n] \in Row
    BY <2>1, ElementOfSeq
  <2> QED BY <2>2 DEF Row
<1>7. entrySeq' \in Nat /\ entrySeq <= entrySeq'
  BY <1>1, <1>2
<1>8. EntryIdsDrawn'
  <2>1. \A i \in DOMAIN txns' : \A n \in DOMAIN txns'[i].rows : txns'[i].rows[n].id <= entrySeq'
    BY <1>2, <1>5, <1>7 DEF CacheInv, EntryIdsDrawn
  <2>2. \A u \in Threads : \A n \in DOMAIN rows'[u] : rows'[u][n].id <= entrySeq'
    BY <1>2, <1>3, <1>4, <1>6, <1>7 DEF CacheInv, EntryIdsDrawn
  <2>3. \A a \in snapTodo' : RowsOf(a, 0)' # {}
    BY <1>2 DEF CacheInv, EntryIdsDrawn, RowsOf, Entries, EntryAt
  <2> QED BY <2>1, <2>2, <2>3 DEF EntryIdsDrawn
<1>9. ASSUME NEW s \in snapshots \cup snapRows PROVE SnapshotOK(s)'
  <2>1. SnapshotOK(s)
    BY DEF CacheInv
  <2>2. SeenSum(s.account, s.seen)' = SeenSum(s.account, s.seen)
    BY <1>2 DEF SeenSum
  <2> QED BY <1>2, <1>7, <2>1, <2>2 DEF SnapshotOK
<1> QED BY <1>2, <1>8, <1>9 DEF CacheInv

\* The job starts on accounts that have entries.
LEMMA SnapStartCache ==
  ASSUME TypeOK, TypeOK', CacheInv, SnapStart
  PROVE  CacheInv'
<1>1. /\ txns' = txns /\ rows' = rows /\ entrySeq' = entrySeq /\ snapshots' = snapshots
      /\ snapRows' = snapRows /\ snapTodo' = StaleAccounts
  BY DEF SnapStart, tables, work, serials
<1>2. ASSUME NEW a \in StaleAccounts PROVE RowsOf(a, 0) # {}
  <2>1. a \in Accounts /\ RowsOf(a, LatestSnapshot(a).upTo) # {}
    BY DEF StaleAccounts
  <2>2. LatestSnapshot(a).upTo \in Nat
    BY <2>1, NewestIsOK
  <2>3. PICK p \in RowsOf(a, LatestSnapshot(a).upTo) : TRUE
    BY <2>1
  <2>4. PICK i \in DOMAIN txns : \E n \in DOMAIN txns[i].rows : p = <<i, n>>
    BY <2>3, EntriesAre
  <2>5. PICK n \in DOMAIN txns[i].rows : p = <<i, n>>
    BY <2>4
  <2>6. txns[i].rows \in Seq(Row)
    BY TxnType
  <2>7. txns[i].rows[n].id > 0
    <3>1. txns[i].rows[n] \in Row
      BY <2>6, ElementOfSeq
    <3> QED BY <3>1 DEF Row
  <2>8. txns[i].rows[n].account = a
    BY <2>3, <2>5, EntriesAre
  <2> QED BY <2>7, <2>8, EntriesAre
<1>3. EntryIdsDrawn'
  <2>1. \A a \in snapTodo' : RowsOf(a, 0)' # {}
    BY <1>1, <1>2 DEF RowsOf, Entries, EntryAt
  <2> QED BY <1>1, <2>1 DEF CacheInv, EntryIdsDrawn
<1>4. ASSUME NEW s \in snapshots \cup snapRows PROVE SnapshotOK(s)'
  <2>1. SeenSum(s.account, s.seen)' = SeenSum(s.account, s.seen)
    BY <1>1 DEF SeenSum
  <2> QED BY <1>1, <2>1 DEF CacheInv, SnapshotOK
<1> QED BY <1>1, <1>3, <1>4 DEF CacheInv

\* write_snapshot sums up everything it sees, up to the highest id.
LEMMA SnapComputeCache ==
  ASSUME TypeOK, TypeOK', CacheInv, NEW a \in Accounts, SnapCompute(a)
  PROVE  CacheInv'
<1> DEFINE ids == {EntryAt(p).id : p \in RowsOf(a, 0)}
           new == [account |-> a, upTo |-> Max(ids), balance |-> TrueBalance(a), seen |-> Len(txns)]
           N   == Len(txns)
<1>1. /\ txns' = txns /\ rows' = rows /\ entrySeq' = entrySeq /\ snapshots' = snapshots
      /\ snapRows' = snapRows \cup {new} /\ snapTodo' = snapTodo \ {a} /\ a \in snapTodo
  BY DEF SnapCompute, tables, work, serials
<1>2. N \in Nat /\ DOMAIN txns = 1 .. N /\ entrySeq \in Nat
  BY TxnType DEF TypeOK
<1>3. \A i \in DOMAIN txns : \A n \in DOMAIN txns[i].rows :
         /\ txns[i].rows[n].id \in 1 .. entrySeq
         /\ txns[i].rows[n].account = a => txns[i].rows[n].id \in ids
  <2> TAKE i \in DOMAIN txns
  <2>1. txns[i].rows \in Seq(Row)
    BY TxnType
  <2> TAKE n \in DOMAIN txns[i].rows
  <2>2. txns[i].rows[n] \in Row
    BY <2>1, ElementOfSeq
  <2>3. txns[i].rows[n].id \in 1 .. entrySeq
    BY <1>2, <2>2 DEF Row, CacheInv, EntryIdsDrawn
  <2>4. txns[i].rows[n].account = a =>
           <<i, n>> \in RowsOf(a, 0) /\ EntryAt(<<i, n>>) = txns[i].rows[n]
    BY <2>3, EntriesAre
  <2> QED BY <2>3, <2>4
<1>4. ids # {} /\ ids \subseteq 1 .. entrySeq
  <2>1. RowsOf(a, 0) # {}
    BY <1>1 DEF CacheInv, EntryIdsDrawn
  <2>2. ASSUME NEW p \in RowsOf(a, 0) PROVE EntryAt(p).id \in 1 .. entrySeq
    <3>1. PICK i \in DOMAIN txns : \E n \in DOMAIN txns[i].rows : p = <<i, n>>
      BY EntriesAre
    <3>2. PICK n \in DOMAIN txns[i].rows : p = <<i, n>>
      BY <3>1
    <3> QED BY <1>3, <3>2, EntriesAre
  <2> QED BY <2>1, <2>2
<1>5. Max(ids) \in ids /\ \A y \in ids : y <= Max(ids)
  <2> HIDE DEF ids
  <2>1. \E x \in ids : \A y \in ids : y <= x
    <3>1. ids \subseteq 0 .. entrySeq
      BY <1>4
    <3> QED BY <1>2, <1>4, <3>1, LargestExists
  <2>2. \E x \in ids : \A y \in ids : x >= y
    BY <1>4, <2>1
  <2>3. Max(ids) \in ids /\ \A y \in ids : Max(ids) >= y
    BY <2>2 DEF Max
  <2> QED BY <1>4, <2>3
<1>6. PICK s : s = new
  OBVIOUS
<1>7. /\ s.account = a /\ s.seen = N /\ s.upTo \in 1 .. entrySeq /\ s.balance = TrueBalance(a)
      /\ \A y \in ids : y <= s.upTo
  <2>1. s.account = a /\ s.seen = N /\ s.upTo = Max(ids) /\ s.balance = TrueBalance(a)
    BY <1>6
  <2> HIDE DEF ids, new, N
  <2> QED BY <1>4, <1>5, <2>1
<1>8. snapRows' = snapRows \cup {s}
  BY <1>1, <1>6
<1>9. SnapshotOK(s)'
  <2>1. \A i \in 1 .. N : \A n \in DOMAIN txns[i].rows :
           txns[i].rows[n].account = a => txns[i].rows[n].id <= s.upTo
    <3> HIDE DEF ids, new
    <3> QED BY <1>2, <1>3, <1>7
  <2>2. SeenSum(a, N) = TrueBalance(a)
    <3>1. [i \in DOMAIN txns |-> IF i <= N THEN MovedAfter(a, 0, txns[i].rows) ELSE 0]
             = [i \in DOMAIN txns |-> MovedAfter(a, 0, txns[i].rows)]
      BY <1>2
    <3> QED BY <3>1 DEF SeenSum, TrueBalance, SumAfter
  <2>3. SeenSum(s.account, s.seen)' = SeenSum(s.account, s.seen)
    BY <1>1 DEF SeenSum
  <2> HIDE DEF ids, new
  <2> QED BY <1>1, <1>2, <1>7, <2>1, <2>2, <2>3 DEF SnapshotOK
<1> HIDE DEF new
<1>10. EntryIdsDrawn'
  <2>1. \A x \in snapTodo' : RowsOf(x, 0)' # {}
    BY <1>1 DEF CacheInv, EntryIdsDrawn, RowsOf, Entries, EntryAt
  <2> QED BY <1>1, <2>1 DEF CacheInv, EntryIdsDrawn
<1>11. ASSUME NEW o \in snapshots \cup snapRows PROVE SnapshotOK(o)'
  <2>1. SeenSum(o.account, o.seen)' = SeenSum(o.account, o.seen)
    BY <1>1 DEF SeenSum
  <2> QED BY <1>1, <2>1 DEF CacheInv, SnapshotOK
<1> QED BY <1>1, <1>8, <1>9, <1>10, <1>11 DEF CacheInv

\* A posting, a reversal, a crash and the snapshot job in any order: every step
\* keeps the snapshots right.
LEMMA CacheStep ==
  ASSUME TypeOK, TypeOK', Inv, CacheInv, [Next]_vars
  PROVE  CacheInv'
<1> DEFINE Frame == /\ txns' = txns /\ entrySeq' >= entrySeq
                    /\ snapshots' \cup snapRows' \subseteq snapshots \cup snapRows
                    /\ snapTodo' \subseteq snapTodo
                    /\ \A t \in Threads : rows'[t] = rows[t] \/ rows'[t] = <<>>
<1>1. entrySeq \in Nat
  BY DEF TypeOK
<1>2. Frame => CacheInv'
  BY CacheFrame
<1>3. ASSUME NEW t \in Threads, Ends(t) PROVE Frame
  <2>1. rows' = [rows EXCEPT ![t] = <<>>]
    BY <1>3 DEF Ends, Release
  <2>2. /\ txns' = txns /\ entrySeq' = entrySeq
        /\ snapshots' = snapshots /\ snapRows' = snapRows /\ snapTodo' = snapTodo
    BY <1>3 DEF Ends, tables, serials, snapVars
  <2> QED BY <1>1, <2>1, <2>2 DEF TypeOK
<1>4. ASSUME UNCHANGED <<txns, entrySeq, snapshots, snapRows, snapTodo, rows>> PROVE Frame
  BY <1>1, <1>4
<1>5. ASSUME NEW t \in Threads,
             \/ \E r \in Requests : Send(t, r)
             \/ Claim(t) \/ Replay(t) \/ BuildPosting(t) \/ SkipFloor(t) \/ PassFloor(t)
             \/ LockAccount(t) \/ ReadOriginal(t) \/ ShareAccount(t) \/ Emit(t)
             \/ RecordDecline(t) \/ Respond(t)
      PROVE  Frame
  <2>1. UNCHANGED <<txns, entrySeq, snapshots, snapRows, snapTodo, rows>>
    BY <1>5 DEF Send, Claim, Replay, BuildPosting, SkipFloor, PassFloor, NextFloor, LockAccount,
                ReadOriginal, ShareAccount, Emit, RecordDecline, Respond, Goto,
                tables, serials, locks, work, snapVars
  <2> QED BY <1>4, <2>1
<1>6. ASSUME SnapShare PROVE Frame
  <2>1. UNCHANGED <<txns, entrySeq, snapshots, snapRows, snapTodo, rows>>
    BY <1>6 DEF SnapShare, tables, serials, work
  <2> QED BY <1>4, <2>1
<1>7. ASSUME NEW written, written \subseteq snapRows, SnapEnd(written) PROVE Frame
  BY <1>1, <1>7 DEF SnapEnd, tables, serials, work
<1>8. CASE UNCHANGED vars
  <2>1. UNCHANGED <<txns, entrySeq, snapshots, snapRows, snapTodo, rows>>
    BY <1>8 DEF vars, tables, serials, work, snapVars
  <2> QED BY <1>2, <1>4, <2>1
<1> HIDE DEF Frame
<1>9. ASSUME NEW t \in Threads, ServerStep(t) \/ Crash(t) PROVE CacheInv'
  BY <1>2, <1>3, <1>5, <1>9, RollsBackEnds, InsertRowsCache, CommitCache DEF ServerStep, RollsBack
<1>10. CASE SnapStep
  BY <1>2, <1>6, <1>7, <1>10, SnapStartCache, SnapComputeCache DEF SnapStep, SnapCommit
<1>11. CASE SnapAbort
  BY <1>2, <1>7, <1>11 DEF SnapAbort
<1> QED BY <1>2, <1>5, <1>8, <1>9, <1>10, <1>11 DEF Next

\* Nothing is cached at the start.
LEMMA CacheInit == Init => CacheInv
  BY DEF Init, CacheInv, EntryIdsDrawn

\* The invariant of the cache.
THEOREM CacheInvariance == Spec => []CacheInv
<1>1. TypeOK /\ TypeOK' /\ Inv /\ CacheInv /\ [Next]_vars => CacheInv'
  BY CacheStep
<1> QED BY <1>1, CacheInit, Invariance, PTL DEF Spec

\* The cached balance differs from the recomputed one by exactly the entries
\* that drew an id at or below the snapshot's cursor and committed after the
\* snapshot was computed (AccountRepository.balance, write_snapshot, reconcile).
THEOREM CacheErrsByLateEntries == Spec => []CacheErrorIsLateEntries
<1>1. ASSUME TypeOK, CacheInv PROVE CacheErrorIsLateEntries
  <2> SUFFICES ASSUME NEW a \in Accounts
               PROVE  Balance(a) + LateSum(a, LatestSnapshot(a)) = TrueBalance(a)
    BY DEF CacheErrorIsLateEntries
  <2>1. PICK s : s = LatestSnapshot(a)
    OBVIOUS
  <2> DEFINE N == Len(txns)
             all   == [i \in DOMAIN txns |-> MovedAfter(a, 0, txns[i].rows)]
             seen  == [i \in DOMAIN txns |-> IF i <= s.seen THEN MovedAfter(a, 0, txns[i].rows) ELSE 0]
             after == [i \in DOMAIN txns |-> MovedAfter(a, s.upTo, txns[i].rows)]
             late  == [i \in DOMAIN txns |->
                         IF i <= s.seen THEN 0 ELSE MovedUpTo(a, s.upTo, txns[i].rows)]
             rest  == [i \in DOMAIN txns |-> after[i] + late[i]]
  <2>2. N \in Nat /\ DOMAIN txns = 1 .. N /\ \A i \in 1 .. N : txns[i].rows \in Seq(Row)
    BY <1>1, TxnType
  <2>3. SnapshotOK(s) /\ s.account = a /\ s.upTo \in Nat
    BY <1>1, <2>1, NewestIsOK
  <2>4. \A i \in 1 .. N : /\ all[i] \in Int /\ after[i] \in Int
                          /\ MovedUpTo(a, s.upTo, txns[i].rows) \in Int
                          /\ all[i] = MovedUpTo(a, s.upTo, txns[i].rows) + after[i]
    BY <2>2, <2>3, MovedFacts
  <2>5. \A i \in 1 .. N : i <= s.seen => after[i] = 0
    <3> TAKE i \in 1 .. N
    <3> HAVE i <= s.seen
    <3>1. i \in 1 .. s.seen
      BY <2>3 DEF SnapshotOK
    <3>2. \A n \in DOMAIN txns[i].rows : txns[i].rows[n].account = a => txns[i].rows[n].id <= s.upTo
      BY <2>3, <3>1 DEF SnapshotOK
    <3> QED BY <2>2, <2>3, <3>2, MovedNone
  <2>6. /\ all \in [1 .. N -> Int] /\ seen \in [1 .. N -> Int] /\ after \in [1 .. N -> Int]
        /\ late \in [1 .. N -> Int] /\ rest \in [1 .. N -> Int]
    BY <2>2, <2>4
  <2>7. \A i \in 1 .. N : all[i] = seen[i] + rest[i]
    <3> TAKE i \in 1 .. N
    <3>1. CASE i <= s.seen
      BY <2>2, <2>4, <2>5, <3>1
    <3>2. CASE ~(i <= s.seen)
      BY <2>2, <2>4, <3>2
    <3> QED BY <3>1, <3>2
  <2>8. \A i \in 1 .. N : rest[i] = after[i] + late[i]
    BY <2>2
  <2>9. /\ TrueBalance(a) = Total(all) /\ Balance(a) = s.balance + Total(after)
        /\ s.balance = Total(seen) /\ LateSum(a, LatestSnapshot(a)) = Total(late)
    BY <2>1, <2>3 DEF TrueBalance, Balance, SumAfter, SnapshotOK, SeenSum, LateSum
  <2> HIDE DEF N, all, seen, after, late, rest
  <2>10. Total(all) = Total(seen) + Total(rest)
    BY <2>2, <2>6, <2>7, TotalsAdd
  <2>11. Total(rest) = Total(after) + Total(late)
    BY <2>2, <2>6, <2>8, TotalsAdd
  <2>12. Total(seen) \in Int /\ Total(after) \in Int /\ Total(late) \in Int
    BY <2>2, <2>6, TotalIsInt
  <2> QED BY <2>9, <2>10, <2>11, <2>12
<1> QED BY <1>1, CacheInvariance, TypeCorrect, PTL

-----------------------------------------------------------------------------
(* The velocity limit.                                                      *)

\* A posting that has passed the screen.
Screened == {"lock", "check", "insert", "share", "emit", "commit"}

\* Where a thread that is past the screen, or has inserted its rows, comes from.
LEMMA HowItGotThere ==
  ASSUME TypeOK, [Next]_vars, NEW u \in Threads
  PROVE  /\ pc'[u] \in Screened =>
               \/ BuildPosting(u) \/ ReadOriginal(u)
               \/ pc[u] \in Screened /\ req'[u] = req[u]
         /\ pc'[u] \in Writing =>
               \/ InsertRows(u)
               \/ pc[u] \in Writing /\ rows'[u] = rows[u] /\ req'[u] = req[u]
<1> DEFINE Goal == /\ pc'[u] \in Screened =>
                         \/ BuildPosting(u) \/ ReadOriginal(u)
                         \/ pc[u] \in Screened /\ req'[u] = req[u]
                   /\ pc'[u] \in Writing =>
                         \/ InsertRows(u)
                         \/ pc[u] \in Writing /\ rows'[u] = rows[u] /\ req'[u] = req[u]
<1>0. Writing \subseteq Screened
  BY DEF Writing, Screened
<1>1. ASSUME UNCHANGED <<pc, req, rows>> PROVE Goal
  BY <1>0, <1>1
<1>2. ASSUME NEW t \in Threads, Ends(t) PROVE Goal
  <2>1. PICK next \in {"respond", "decline", "idle"} :
           /\ pc' = [pc EXCEPT ![t] = next]
           /\ req' = IF next = "idle" THEN [req EXCEPT ![t] = NoRequest] ELSE req
    BY <1>2 DEF Ends
  <2>2. rows' = [rows EXCEPT ![t] = <<>>]
    BY <1>2 DEF Ends, Release
  <2>3. CASE u = t
    BY <2>1, <2>3 DEF TypeOK, Screened, Writing
  <2>4. CASE u # t
    BY <2>1, <2>2, <2>4 DEF TypeOK, Screened, Writing
  <2> QED BY <2>3, <2>4
<1>3. ASSUME NEW t \in Threads, \E r \in Requests : Send(t, r) PROVE Goal
  BY <1>3 DEF Send, work, TypeOK, Screened, Writing
<1>4. ASSUME NEW t \in Threads, Claim(t) \/ Replay(t) \/ RecordDecline(t) \/ Respond(t) PROVE Goal
  BY <1>4 DEF Claim, Replay, RecordDecline, Respond, Goto, work, TypeOK, Screened, Writing
<1>5. ASSUME NEW t \in Threads, BuildPosting(t) \/ ReadOriginal(t) PROVE Goal
  <2>1. /\ req' = req /\ rows' = rows
        /\ \E next \in {"lock", "insert"} : pc' = [pc EXCEPT ![t] = next]
    BY <1>5 DEF BuildPosting, ReadOriginal, Goto, work
  <2>2. CASE u = t
    BY <1>5, <2>1, <2>2 DEF TypeOK, Screened, Writing
  <2>3. CASE u # t
    BY <2>1, <2>3 DEF TypeOK, Screened, Writing
  <2> QED BY <2>2, <2>3
<1>6. ASSUME NEW t \in Threads,
             SkipFloor(t) \/ PassFloor(t) \/ LockAccount(t) \/ ShareAccount(t) \/ Emit(t)
      PROVE  Goal
  <2>1. /\ req' = req /\ rows' = rows
        /\ \/ pc[t] \in {"lock", "check"} /\ \E next \in {"lock", "check", "insert"} :
                 pc' = [pc EXCEPT ![t] = next]
           \/ pc[t] \in {"share", "emit"} /\ \E next \in {"share", "emit", "commit"} :
                 pc' = [pc EXCEPT ![t] = next]
    BY <1>6 DEF SkipFloor, PassFloor, NextFloor, LockAccount, ShareAccount, Emit, Goto, work
  <2>2. CASE u = t
    BY <2>1, <2>2 DEF TypeOK, Screened, Writing
  <2>3. CASE u # t
    BY <2>1, <2>3 DEF TypeOK, Screened, Writing
  <2> QED BY <2>2, <2>3
<1>7. ASSUME NEW t \in Threads, InsertRows(t) PROVE Goal
  <2>1. /\ req' = req /\ pc[t] = "insert" /\ pc' = [pc EXCEPT ![t] = "share"]
        /\ \E new : rows' = [rows EXCEPT ![t] = new]
    BY <1>7 DEF InsertRows, Goto
  <2>2. CASE u = t
    BY <1>7, <2>1, <2>2 DEF TypeOK, Screened, Writing
  <2>3. CASE u # t
    BY <2>1, <2>3 DEF TypeOK, Screened, Writing
  <2> QED BY <2>2, <2>3
<1>8. ASSUME NEW t \in Threads, Commit(t) PROVE Goal
  <2>1. /\ req' = req /\ pc' = [pc EXCEPT ![t] = "respond"] /\ rows' = [rows EXCEPT ![t] = <<>>]
    BY <1>8 DEF Commit, Release
  <2> QED BY <2>1 DEF TypeOK, Screened, Writing
<1>9. ASSUME SnapStep \/ SnapAbort PROVE Goal
  <2>1. UNCHANGED <<pc, req, rows>>
    BY <1>9 DEF SnapStep, SnapAbort, SnapStart, SnapCompute, SnapShare, SnapCommit, SnapEnd, work
  <2> QED BY <1>1, <2>1
<1>10. ASSUME UNCHANGED vars PROVE Goal
  BY <1>1, <1>10 DEF vars, work
<1> HIDE DEF Goal
<1>11. ASSUME NEW t \in Threads, ServerStep(t) \/ Crash(t) PROVE Goal
  BY <1>2, <1>4, <1>5, <1>6, <1>7, <1>8, <1>11, RollsBackEnds DEF ServerStep, RollsBack
<1>12. ASSUME NEW t \in Threads, NEW r \in Requests, Send(t, r) PROVE Goal
  BY <1>3, <1>12
<1>13. ASSUME Next PROVE Goal
  BY <1>9, <1>11, <1>12, <1>13 DEF Next
<1>14. Goal
  BY <1>10, <1>13
<1> QED BY <1>14 DEF Goal

\* Entry rows that carry the accounts, sides and amounts of legs.
SameLegs(entries, legs) ==
    /\ DOMAIN entries = DOMAIN legs
    /\ \A n \in DOMAIN legs : /\ entries[n].account = legs[n].account
                              /\ entries[n].direction = legs[n].direction
                              /\ entries[n].amount = legs[n].amount

\* What a posting has inserted, committed or not, are its legs.
RowsFit ==
    /\ \A i \in DOMAIN txns : txns[i].req.body.op = "post" =>
          SameLegs(txns[i].rows, Legs(txns[i].req.body))
    /\ \A t \in Threads : pc[t] \in Writing /\ ~IsReversal(t) => SameLegs(rows[t], Legs(Body(t)))

\* Every step keeps it.
LEMMA RowsFitStep ==
  ASSUME TypeOK, TypeOK', Inv, RowsFit, [Next]_vars
  PROVE  RowsFit'
<1>1. ASSUME NEW t \in Threads, pc'[t] \in Writing, ~IsReversal(t)'
      PROVE  SameLegs(rows'[t], Legs(Body(t)'))
  <2>1. CASE InsertRows(t)
    <3>1. ~IsReversal(t) /\ Body(t)' = Body(t)
      BY <1>1, <2>1 DEF InsertRows, Goto, IsReversal, Body
    <3> DEFINE legs == LegsToInsert(t)
    <3>2. rows' = [rows EXCEPT ![t] =
               [i \in DOMAIN legs |->
                   [id |-> entrySeq + i, account |-> legs[i].account,
                    direction |-> legs[i].direction, amount |-> legs[i].amount,
                    currency |-> legs[i].currency]]]
      BY <2>1 DEF InsertRows
    <3>3. legs = Legs(Body(t))
      BY <3>1 DEF LegsToInsert
    <3> HIDE DEF legs
    <3>4. rows'[t] = [i \in DOMAIN legs |->
                   [id |-> entrySeq + i, account |-> legs[i].account,
                    direction |-> legs[i].direction, amount |-> legs[i].amount,
                    currency |-> legs[i].currency]]
      BY <3>2 DEF TypeOK
    <3>5. SameLegs(rows'[t], legs)
      BY <3>4 DEF SameLegs
    <3> QED BY <3>1, <3>3, <3>5
  <2>2. CASE pc[t] \in Writing /\ rows'[t] = rows[t] /\ req'[t] = req[t]
    BY <1>1, <2>2 DEF RowsFit, IsReversal, Body
  <2> QED BY <1>1, <2>1, <2>2, HowItGotThere
<1>2. ASSUME NEW i \in DOMAIN txns', txns'[i].req.body.op = "post"
      PROVE  SameLegs(txns'[i].rows, Legs(txns'[i].req.body))
  <2>1. CASE txns' = txns
    BY <1>2, <2>1 DEF RowsFit
  <2>2. ASSUME NEW t \in Threads, Commit(t)
        PROVE  SameLegs(txns'[i].rows, Legs(txns'[i].req.body))
    <3>1. CASE i \in DOMAIN txns
      BY <1>2, <2>2, <3>1, CommitAppends DEF RowsFit
    <3>2. CASE i = Len(txns) + 1
      <4>1. txns'[i].rows = rows[t] /\ txns'[i].req = req[t] /\ pc[t] \in Writing
        BY <2>2, <3>2, CommitAppends DEF Commit, Writing
      <4>2. ~IsReversal(t)
        BY <1>2, <4>1 DEF IsReversal, Body
      <4> QED BY <4>1, <4>2 DEF RowsFit, Body
    <3> QED BY <1>2, <2>2, <3>1, <3>2, CommitAppends
  <2>3. CASE UNCHANGED vars
    BY <2>1, <2>3 DEF vars, tables
  <2> QED BY <2>1, <2>2, <2>3, WhoWrites
<1> QED BY <1>1, <1>2 DEF RowsFit

\* The committed transactions that spend from a, and the open ones.
Spent(a) == {i \in DOMAIN txns : SpendsFrom(txns[i].req.body, a)}
Spending(a) == {t \in Threads : pc[t] \in Screened /\ SpendsFrom(Body(t), a)}

\* Those that passed the screen, whether they have committed or not.
ScreenHolds ==
    \A a \in Accounts : SmallCredits(a) =>
       Cardinality(Spent(a)) + Cardinality(Spending(a)) <= VelocityLimit + Cardinality(Threads)

\* Each of these sets is finite, and every transaction that spends has an entry
\* the screen counts.
LEMMA SpentFacts ==
  ASSUME TypeOK, RowsFit, NEW a \in Accounts
  PROVE  /\ IsFiniteSet(Spent(a)) /\ IsFiniteSet(Spending(a))
         /\ Cardinality(Spent(a)) \in Nat /\ Cardinality(Spending(a)) \in Nat
         /\ Cardinality(Threads) \in Nat /\ Cardinality(Spending(a)) <= Cardinality(Threads)
         /\ Cardinality(Credits(a)) \in Nat
         /\ Cardinality(Spent(a)) <= Cardinality(Credits(a))
<1> DEFINE N == Len(txns)
<1>1. N \in Nat /\ DOMAIN txns = 1 .. N /\ \A i \in 1 .. N : txns[i].rows \in Seq(Row)
  BY TxnType
<1>2. IsFiniteSet(1 .. N)
  BY <1>1, FS_Interval
<1>3. IsFiniteSet(Spending(a)) /\ Cardinality(Spending(a)) <= Cardinality(Threads)
  BY ThreadsAssumption, FS_Subset, Spending(a) \in SUBSET Threads DEF Spending
<1>4. IsFiniteSet(Entries)
  <2> DEFINE Lines == [i \in 1 .. N |-> {i} \X DOMAIN txns[i].rows]
             S     == {Lines[i] : i \in 1 .. N}
  <2>1. \A i \in 1 .. N : IsFiniteSet(Lines[i])
    <3> TAKE i \in 1 .. N
    <3>1. txns[i].rows \in Seq(Row)
      BY <1>1
    <3>2. Len(txns[i].rows) \in Nat /\ DOMAIN txns[i].rows = 1 .. Len(txns[i].rows)
      BY <3>1
    <3>3. IsFiniteSet(DOMAIN txns[i].rows)
      <4>1. \A k \in Nat : IsFiniteSet(1 .. k)
        BY FS_Interval
      <4> QED BY <3>2, <4>1
    <3>4. IsFiniteSet({i})
      BY FS_Singleton
    <3>5. IsFiniteSet({i} \X DOMAIN txns[i].rows)
      BY <3>3, <3>4, FS_Product
    <3> QED BY <3>5
  <2>2. Lines \in Surjection(1 .. N, S)
    BY DEF Surjection
  <2>3. IsFiniteSet(S)
    BY <1>2, <2>2, FS_Surjection
  <2>4. \A X \in S : IsFiniteSet(X)
    BY <2>1
  <2>5. Entries = UNION S
    BY <1>1 DEF Entries
  <2> HIDE DEF S
  <2> QED BY <2>3, <2>4, <2>5, FS_UNION
<1>5. IsFiniteSet(Credits(a))
  BY <1>4, FS_Subset, Credits(a) \in SUBSET Entries DEF Credits, RowsOf
<1>6. \A i \in Spent(a) : \E p \in Credits(a) : p[1] = i
  <2> TAKE i \in Spent(a)
  <2>1. /\ i \in 1 .. N /\ txns[i].rows \in Seq(Row) /\ SpendsFrom(txns[i].req.body, a)
        /\ SameLegs(txns[i].rows, Legs(txns[i].req.body))
    BY <1>1 DEF Spent, SpendsFrom, RowsFit
  <2>2. PICK n \in DOMAIN txns[i].rows :
           txns[i].rows[n].account = a /\ txns[i].rows[n].direction = "credit"
    BY <2>1 DEF SpendsFrom, SameLegs
  <2>3. txns[i].rows[n].id > 0
    <3>1. txns[i].rows[n] \in Row
      BY <2>1, ElementOfSeq
    <3> QED BY <3>1 DEF Row
  <2>4. <<i, n>> \in RowsOf(a, 0) /\ EntryAt(<<i, n>>) = txns[i].rows[n]
    BY <1>1, <2>1, <2>2, <2>3, EntriesAre
  <2>5. <<i, n>> \in Credits(a) /\ <<i, n>>[1] = i
    BY <2>2, <2>4 DEF Credits
  <2> QED BY <2>5
<1>7. Cardinality(Spent(a)) <= Cardinality(Credits(a))
  <2> DEFINE f == [i \in Spent(a) |-> CHOOSE p \in Credits(a) : p[1] = i]
  <2>1. \A i \in Spent(a) : f[i] \in Credits(a) /\ f[i][1] = i
    BY <1>6
  <2>2. f \in [Spent(a) -> Credits(a)]
    BY <2>1
  <2>3. f \in Injection(Spent(a), Credits(a))
    BY <2>1, <2>2 DEF Injection, IsInjective
  <2> QED BY <1>5, <2>3, FS_Injection
<1>8. IsFiniteSet(Spent(a))
  BY <1>1, <1>2, FS_Subset, Spent(a) \in SUBSET (1 .. N) DEF Spent
<1> QED BY <1>3, <1>5, <1>7, <1>8, ThreadsAssumption, FS_CardinalityType

\* The ledger only grows, so an account with small credits had only those.
LEMMA SmallBefore ==
  ASSUME TypeOK, Inv, [Next]_vars, NEW a, SmallCredits(a)'
  PROVE  SmallCredits(a)
<1>1. CASE txns' = txns
  BY <1>1 DEF SmallCredits, Credits, RowsOf, Entries, EntryAt
<1>2. ASSUME NEW t \in Threads, Commit(t) PROVE SmallCredits(a)
  <2>1. /\ DOMAIN txns \subseteq DOMAIN txns'
        /\ \A i \in DOMAIN txns : txns'[i] = txns[i]
    BY <1>2, CommitAppends
  <2> SUFFICES ASSUME NEW p \in Credits(a) PROVE EntryAt(p).amount < SmallAmount
    BY DEF SmallCredits
  <2>2. PICK i \in DOMAIN txns : \E n \in DOMAIN txns[i].rows : p = <<i, n>>
    BY EntriesAre DEF Credits
  <2>3. PICK n \in DOMAIN txns[i].rows : p = <<i, n>>
    BY <2>2
  <2>4. p \in Credits(a)' /\ EntryAt(p)' = EntryAt(p)
    BY <2>1, <2>3 DEF Credits, RowsOf, Entries, EntryAt
  <2> QED BY <2>4 DEF SmallCredits
<1>3. CASE UNCHANGED vars
  BY <1>1, <1>3 DEF vars, tables
<1> QED BY <1>1, <1>2, <1>3, WhoWrites

\* Only a posting that the screen lets pass begins to spend from an account.
LEMMA WhoSpends ==
  ASSUME TypeOK, [Next]_vars, NEW a \in Accounts, NEW u \in Threads,
         pc'[u] \in Screened, SpendsFrom(Body(u)', a)
  PROVE  \/ BuildPosting(u) /\ SpendsFrom(Body(u), a)
         \/ pc[u] \in Screened /\ Body(u)' = Body(u) /\ SpendsFrom(Body(u), a)
<1>1. CASE BuildPosting(u)
  BY <1>1 DEF BuildPosting, Goto, Body
<1>2. ~ReadOriginal(u)
  BY DEF ReadOriginal, Goto, IsReversal, Body, SpendsFrom
<1>3. CASE pc[u] \in Screened /\ req'[u] = req[u]
  BY <1>3 DEF Body
<1> QED BY <1>1, <1>2, <1>3, HowItGotThere

\* Every step keeps the bound: a posting is screened against every credit that is
\* committed, and the others that pass meanwhile are in flight.
LEMMA ScreenHoldsStep ==
  ASSUME TypeOK, Inv, RowsFit, ScreenHolds, [Next]_vars
  PROVE  ScreenHolds'
<1> SUFFICES ASSUME NEW a \in Accounts, SmallCredits(a)'
             PROVE  Cardinality(Spent(a)') + Cardinality(Spending(a)')
                       <= VelocityLimit + Cardinality(Threads)
  BY DEF ScreenHolds
<1> DEFINE N == Len(txns)
<1>1. SmallCredits(a)
  BY SmallBefore
<1>2. /\ IsFiniteSet(Spent(a)) /\ IsFiniteSet(Spending(a))
      /\ Cardinality(Spent(a)) \in Nat /\ Cardinality(Spending(a)) \in Nat
      /\ Cardinality(Threads) \in Nat /\ Cardinality(Credits(a)) \in Nat
      /\ Cardinality(Spent(a)) <= Cardinality(Credits(a)) /\ VelocityLimit \in Nat
  BY SpentFacts, LimitAssumption
<1>3. Cardinality(Spent(a)) + Cardinality(Spending(a)) <= VelocityLimit + Cardinality(Threads)
  BY <1>1 DEF ScreenHolds
<1>4. txns' = txns => Spent(a)' = Spent(a)
  BY DEF Spent
<1>5. /\ IsFiniteSet(Spending(a)') /\ Cardinality(Spending(a)') \in Nat
      /\ Cardinality(Spending(a)') <= Cardinality(Threads)
  <2>1. Spending(a)' \subseteq Threads
    BY DEF Spending
  <2> QED BY <2>1, ThreadsAssumption, FS_Subset, FS_CardinalityType
<1>6. ASSUME NEW t \in Threads, BuildPosting(t), SpendsFrom(Body(t), a)
      PROVE  Cardinality(Spent(a)') + Cardinality(Spending(a)')
                <= VelocityLimit + Cardinality(Threads)
  <2>1. txns' = txns /\ ~Blocked(Body(t))
    BY <1>6 DEF BuildPosting, Goto, tables
  <2>2. ~(Cardinality(Credits(a)) > VelocityLimit)
    BY <1>1, <1>6, <2>1 DEF Blocked, SpendsFrom
  <2> QED BY <1>2, <1>4, <1>5, <2>1, <2>2
<1>7. ASSUME ~\E t \in Threads : BuildPosting(t) /\ SpendsFrom(Body(t), a)
      PROVE  Spending(a)' \subseteq Spending(a)
  <2> SUFFICES ASSUME NEW u \in Spending(a)' PROVE u \in Spending(a)
    OBVIOUS
  <2>1. u \in Threads /\ pc'[u] \in Screened /\ SpendsFrom(Body(u)', a)
    BY DEF Spending
  <2> QED BY <1>7, <2>1, WhoSpends DEF Spending
<1>8. ASSUME Spending(a)' \subseteq Spending(a), txns' = txns
      PROVE  Cardinality(Spent(a)') + Cardinality(Spending(a)')
                <= VelocityLimit + Cardinality(Threads)
  <2>1. Cardinality(Spending(a)') <= Cardinality(Spending(a))
    BY <1>2, <1>8, FS_Subset
  <2> QED BY <1>2, <1>3, <1>4, <1>5, <1>8, <2>1
<1>9. ASSUME NEW t \in Threads, Commit(t), Spending(a)' \subseteq Spending(a)
      PROVE  Cardinality(Spent(a)') + Cardinality(Spending(a)')
                <= VelocityLimit + Cardinality(Threads)
  <2>1. /\ DOMAIN txns = 1 .. N /\ N \in Nat /\ DOMAIN txns' = 1 .. N + 1
        /\ \A i \in 1 .. N : txns'[i] = txns[i]
        /\ txns'[N + 1].req = req[t]
    BY <1>9, CommitAppends
  <2>2. /\ Spent(a)' \subseteq Spent(a) \cup {N + 1}
        /\ SpendsFrom(Body(t), a) \/ Spent(a)' \subseteq Spent(a)
    BY <2>1 DEF Spent, Body
  <2>3. Cardinality(Spending(a)') <= Cardinality(Spending(a))
    BY <1>2, <1>9, FS_Subset
  <2>4. CASE Spent(a)' \subseteq Spent(a)
    <3>1. Cardinality(Spent(a)') <= Cardinality(Spent(a)) /\ Cardinality(Spent(a)') \in Nat
      BY <1>2, <2>4, FS_Subset, FS_CardinalityType
    <3> QED BY <1>2, <1>3, <1>5, <2>3, <3>1
  <2>5. CASE SpendsFrom(Body(t), a)
    <3>1. pc[t] = "commit" /\ pc'[t] = "respond"
      BY <1>9 DEF Commit, TypeOK
    <3>2. t \in Spending(a) /\ t \notin Spending(a)'
      BY <2>5, <3>1 DEF Spending, Screened
    <3>3. /\ Cardinality(Spending(a) \ {t}) = Cardinality(Spending(a)) - 1
          /\ IsFiniteSet(Spending(a) \ {t})
      BY <1>2, <3>2, FS_RemoveElement
    <3>4. Cardinality(Spending(a)') <= Cardinality(Spending(a) \ {t})
      BY <1>9, <3>2, <3>3, FS_Subset, Spending(a)' \subseteq Spending(a) \ {t}
    <3>5. /\ IsFiniteSet(Spent(a) \cup {N + 1})
          /\ Cardinality(Spent(a) \cup {N + 1}) <= Cardinality(Spent(a)) + 1
      <4>1. N + 1 \notin Spent(a)
        BY <2>1 DEF Spent
      <4>2. /\ IsFiniteSet(Spent(a) \cup {N + 1})
            /\ Cardinality(Spent(a) \cup {N + 1}) = Cardinality(Spent(a)) + 1
        <5> HIDE DEF N
        <5> QED BY <1>2, <4>1, FS_AddElement
      <4> QED BY <1>2, <4>2
    <3>6. /\ Cardinality(Spent(a)') <= Cardinality(Spent(a) \cup {N + 1})
          /\ Cardinality(Spent(a)') \in Nat /\ Cardinality(Spent(a) \cup {N + 1}) \in Nat
      BY <2>2, <3>5, FS_Subset, FS_CardinalityType
    <3> QED BY <1>2, <1>3, <1>5, <3>3, <3>4, <3>5, <3>6
  <2> QED BY <2>2, <2>4, <2>5
<1>10. txns' = txns \/ \E t \in Threads : Commit(t)
  BY WhoWrites DEF vars, tables
<1> QED BY <1>6, <1>7, <1>8, <1>9, <1>10

\* An empty ledger has spent nothing.
LEMMA ScreenInit ==
  ASSUME Init
  PROVE  RowsFit /\ ScreenHolds
<1>1. txns = <<>> /\ \A t \in Threads : pc[t] = "idle"
  BY DEF Init
<1>2. RowsFit
  BY <1>1 DEF RowsFit, Writing
<1>3. \A a \in Accounts : Spent(a) = {} /\ Spending(a) = {}
  BY <1>1 DEF Spent, Spending, Screened
<1>4. Cardinality(Threads) \in Nat /\ Cardinality({}) = 0
  BY ThreadsAssumption, FS_CardinalityType, FS_EmptySet
<1>5. \A a \in Accounts : Cardinality(Spent(a)) = 0 /\ Cardinality(Spending(a)) = 0
  BY <1>3, <1>4
<1>6. VelocityLimit + Cardinality(Threads) >= 0
  BY <1>4, LimitAssumption
<1> QED BY <1>2, <1>5, <1>6 DEF ScreenHolds

\* What is inserted and committed are the legs of the postings, and those the
\* screen let pass are counted.
THEOREM ScreenInvariance == Spec => [](RowsFit /\ ScreenHolds)
<1>1. TypeOK /\ TypeOK' /\ Inv /\ RowsFit /\ ScreenHolds /\ [Next]_vars => (RowsFit /\ ScreenHolds)'
  BY RowsFitStep, ScreenHoldsStep
<1>2. Init => RowsFit /\ ScreenHolds
  BY ScreenInit
<1> QED BY <1>1, <1>2, Invariance, PTL DEF Spec

\* The blocking screen reads without a lock, so more postings than its limit can
\* spend from an account of small credits; never more than there are threads.
THEOREM OvershootIsBounded == Spec => []VelocityOvershootBounded
<1>1. TypeOK /\ RowsFit /\ ScreenHolds => VelocityOvershootBounded
  <2> SUFFICES ASSUME TypeOK, RowsFit, ScreenHolds, NEW a \in Accounts, SmallCredits(a)
               PROVE  Cardinality(Spent(a)) <= VelocityLimit + Cardinality(Threads)
    BY DEF VelocityOvershootBounded, Spent
  <2>1. Cardinality(Spent(a)) + Cardinality(Spending(a)) <= VelocityLimit + Cardinality(Threads)
    BY DEF ScreenHolds
  <2> QED BY <2>1, SpentFacts, LimitAssumption
<1> QED BY <1>1, Invariance, ScreenInvariance, PTL

-----------------------------------------------------------------------------
(* The floors.                                                              *)

\* Both modules mean the same deltas and balances.
LEMMA SameDeltas ==
  \A legs : /\ Deltas(AccountType, legs) = Sums!Deltas(AccountType, legs)
            /\ \A a : BalanceOf(AccountType, a, legs) = Sums!BalanceOf(AccountType, a, legs)
<1>1. \A e : Signed(AccountType, e) = Sums!Signed(AccountType, e)
  BY DEF Signed, Sums!Signed, NormalBalance, Sums!NormalBalance
<1>2. \A d, e : AddDelta(AccountType, d, e) = Sums!AddDelta(AccountType, d, e)
  BY <1>1 DEF AddDelta, Sums!AddDelta
<1>3. \A legs : DeltasUpTo(AccountType, legs) = Sums!DeltasUpTo(AccountType, legs)
  BY <1>2 DEF DeltasUpTo, Sums!DeltasUpTo
<1>4. \A legs : Deltas(AccountType, legs) = Sums!Deltas(AccountType, legs)
  BY <1>3 DEF Deltas, Sums!Deltas
<1>5. \A legs, a : BalanceOf(AccountType, a, legs) = Sums!BalanceOf(AccountType, a, legs)
  BY <1>1, SameTotal DEF BalanceOf, Sums!BalanceOf
<1> QED BY <1>4, <1>5

\* The dictionary of _check_floors holds the balance of the legs for every account
\* they move.
LEMMA DeltaIsBalance ==
  ASSUME NEW b, PostingType(b), ValidPosting(b), NEW a \in Accounts,
         BalanceOf(AccountType, a, Legs(b)) # 0
  PROVE  DeltaOf(a, Legs(b)) = BalanceOf(AccountType, a, Legs(b))
<1>1. PICK legs : legs = Legs(b)
  OBVIOUS
<1>2. legs \in Seq(Leg)
  BY <1>1, LegsType
<1>3. \A i \in 1 .. Len(legs) : legs[i].account \in Accounts /\ legs[i].amount \in Int
  <2> TAKE i \in 1 .. Len(legs)
  <2>1. legs[i] \in Leg
    BY <1>2, ElementOfSeq
  <2> QED BY <2>1 DEF Leg
<1> DEFINE D == Deltas(AccountType, legs)
           B == [x \in Accounts |-> BalanceOf(AccountType, x, legs)]
<1>4. Sums!ListsBalances(D, B)
  <2>1. Sums!ListsBalances(Sums!Deltas(AccountType, legs),
                           [x \in Accounts |-> Sums!BalanceOf(AccountType, x, legs)])
    BY <1>2, <1>3, Sums!DeltasListBalances, SumsApply
  <2>2. D = Sums!Deltas(AccountType, legs)
        /\ B = [x \in Accounts |-> Sums!BalanceOf(AccountType, x, legs)]
    BY SameDeltas
  <2> HIDE DEF D, B
  <2> QED BY <2>1, <2>2
<1>5. B[a] # 0 /\ B[a] = BalanceOf(AccountType, a, legs)
  BY <1>1
<1> HIDE DEF B, D
<1>6. PICK k \in 1 .. Len(D) : D[k].account = a
  BY <1>4, <1>5 DEF Sums!ListsBalances
<1>7. DOMAIN D = 1 .. Len(D)
  BY <1>4 DEF Sums!ListsBalances
<1>8. \A m \in DOMAIN D : D[m].account = a => m = k
  BY <1>4, <1>6, <1>7 DEF Sums!ListsBalances
<1>9. (CHOOSE i \in DOMAIN D : D[i].account = a) = k
  BY <1>6, <1>7, <1>8
<1>10. D[k].delta = B[a]
  BY <1>4, <1>6 DEF Sums!ListsBalances
<1>11. DeltaOf(a, legs) = D[k].delta
  BY <1>9 DEF DeltaOf, D
<1> QED BY <1>1, <1>5, <1>10, <1>11

\* Entries that carry the accounts, sides and amounts of typed legs have their
\* balance, and all of it when they come after the cursor; an account without an
\* entry has none.
LEMMA BalanceFacts ==
  ASSUME NEW a, NEW entries \in Seq(Row)
  PROVE  /\ BalanceOf(AccountType, a, entries) \in Int
         /\ \A legs : SameLegs(entries, legs) =>
               BalanceOf(AccountType, a, entries) = BalanceOf(AccountType, a, legs)
         /\ \A upTo \in Nat :
               (\A n \in DOMAIN entries : entries[n].account = a => entries[n].id > upTo)
                  => MovedAfter(a, upTo, entries) = BalanceOf(AccountType, a, entries)
<1> DEFINE N == Len(entries)
           f == [n \in DOMAIN entries |-> IF entries[n].account = a
                                          THEN Signed(AccountType, entries[n]) ELSE 0]
<1>1. N \in Nat /\ DOMAIN entries = 1 .. N
  OBVIOUS
<1>2. BalanceOf(AccountType, a, entries) = Total(f)
  BY DEF BalanceOf
<1>3. f \in [1 .. N -> Int]
  <2>1. ASSUME NEW n \in 1 .. N PROVE Signed(AccountType, entries[n]) \in Int
    <3>1. entries[n] \in Row
      BY ElementOfSeq
    <3> QED BY <3>1 DEF Row, Signed
  <2> QED BY <1>1, <2>1
<1>4. Total(f) \in Int
  <2> HIDE DEF f
  <2> QED BY <1>1, <1>3, TotalIsInt
<1>5. ASSUME NEW legs, SameLegs(entries, legs)
      PROVE  BalanceOf(AccountType, a, entries) = BalanceOf(AccountType, a, legs)
  <2> DEFINE g == [n \in DOMAIN legs |-> IF legs[n].account = a
                                         THEN Signed(AccountType, legs[n]) ELSE 0]
  <2>1. f = g
    BY <1>5 DEF SameLegs, Signed
  <2>2. BalanceOf(AccountType, a, legs) = Total(g)
    BY DEF BalanceOf
  <2> HIDE DEF f, g
  <2> QED BY <1>2, <2>1, <2>2
<1>6. ASSUME NEW upTo \in Nat,
             \A n \in DOMAIN entries : entries[n].account = a => entries[n].id > upTo
      PROVE  MovedAfter(a, upTo, entries) = BalanceOf(AccountType, a, entries)
  <2> DEFINE g == [n \in DOMAIN entries |-> IF entries[n].account = a /\ entries[n].id > upTo
                                            THEN Signed(AccountType, entries[n]) ELSE 0]
  <2>1. f = g
    BY <1>6
  <2>2. MovedAfter(a, upTo, entries) = Total(g)
    BY DEF MovedAfter
  <2> HIDE DEF f, g
  <2> QED BY <1>2, <2>1, <2>2
<1> QED BY <1>2, <1>4, <1>5, <1>6

\* An account that a posting lowers is on its legs.
LEMMA MovedIsOnLegs ==
  ASSUME NEW b, PostingType(b), ValidPosting(b), NEW a \in Accounts,
         BalanceOf(AccountType, a, Legs(b)) # 0
  PROVE  \E n \in DOMAIN Legs(b) : Legs(b)[n].account = a
<1> SUFFICES ASSUME \A n \in DOMAIN Legs(b) : Legs(b)[n].account # a PROVE FALSE
  OBVIOUS
<1>1. PICK legs : legs = Legs(b)
  OBVIOUS
<1> DEFINE N == Len(legs)
           f == [n \in DOMAIN legs |-> IF legs[n].account = a
                                       THEN Signed(AccountType, legs[n]) ELSE 0]
<1>2. N \in Nat /\ DOMAIN legs = 1 .. N
  BY <1>1, LegsType
<1>3. BalanceOf(AccountType, a, legs) = Total(f)
  BY DEF BalanceOf
<1>4. f \in [1 .. N -> Int] /\ \A n \in 1 .. N : f[n] = 0
  BY <1>1, <1>2
<1>5. Total(f) = 0
  <2> HIDE DEF f, N
  <2> QED BY <1>2, <1>4, TotalOfNone
<1> QED BY <1>1, <1>3, <1>5

\* The posting of t lowers a, which has a floor.
Lowers(t, a) == Floor[a] # NoFloor /\ BalanceOf(AccountType, a, Legs(Body(t))) < 0

\* t holds a, whose balance bears the posting.
FloorKept(t, a) ==
    a \in forUpdate[t] /\ Balance(a) + BalanceOf(AccountType, a, Legs(Body(t))) >= Floor[a]

\* Every floored account a posting lowers is still to be locked, or is locked and
\* bears it; the entries of t on an account it has locked came after the newest
\* snapshot of it.
FloorInv(t) ==
    /\ pc[t] \in Screened /\ ~IsReversal(t) =>
          \A a \in Accounts : Lowers(t, a) =>
             \/ pc[t] \in {"lock", "check"} /\ \E n \in DOMAIN todo[t] : todo[t][n] = a
             \/ FloorKept(t, a)
    /\ pc[t] = "check" => Head(todo[t]) \in forUpdate[t]
    /\ pc[t] \in Writing =>
          \A n \in DOMAIN rows[t] :
             rows[t][n].account \in forUpdate[t] =>
                rows[t][n].id > LatestSnapshot(rows[t][n].account).upTo

\* The snapshot job has met the foreign keys of its rows whenever it goes on.
SnapHolds ==
    /\ snapPc = "run" => \A s \in snapRows : s.account \in keyShare[Snapshotter]
    /\ snapPc = "idle" => snapRows = {}

FloorsInv == SnapHolds /\ \A t \in Threads : FloorInv(t)

\* The job keeps what it holds.
LEMMA SnapHoldsStep ==
  ASSUME TypeOK, SnapHolds, [Next]_vars
  PROVE  SnapHolds'
<1>1. ASSUME UNCHANGED <<snapPc, snapRows>>, keyShare'[Snapshotter] = keyShare[Snapshotter]
      PROVE  SnapHolds'
  BY <1>1 DEF SnapHolds
<1>2. ASSUME NEW t \in Threads, ServerStep(t) \/ Crash(t) \/ \E r \in Requests : Send(t, r)
      PROVE  UNCHANGED <<snapPc, snapRows>> /\ keyShare'[Snapshotter] = keyShare[Snapshotter]
  <2>0. t # Snapshotter
    BY ProcessAssumption
  <2>1. CASE RollsBack(t)
    BY <2>0, <2>1, RollsBackEnds DEF Ends, Release, snapVars, TypeOK, Procs
  <2>2. CASE \/ Claim(t) \/ Replay(t) \/ BuildPosting(t) \/ SkipFloor(t) \/ LockAccount(t)
             \/ PassFloor(t) \/ ReadOriginal(t) \/ InsertRows(t) \/ Emit(t)
             \/ RecordDecline(t) \/ Respond(t) \/ \E r \in Requests : Send(t, r)
    BY <2>2 DEF Claim, Replay, BuildPosting, SkipFloor, LockAccount, PassFloor, NextFloor,
                ReadOriginal, InsertRows, Emit, RecordDecline, Respond, Send, Goto, snapVars, locks
  <2>3. CASE ShareAccount(t)
    BY <2>0, <2>3 DEF ShareAccount, Goto, snapVars, TypeOK, Procs
  <2>4. CASE Commit(t)
    BY <2>0, <2>4 DEF Commit, Release, snapVars, TypeOK, Procs
  <2> QED BY <1>2, <2>1, <2>2, <2>3, <2>4 DEF ServerStep, RollsBack
<1>3. ASSUME SnapStart PROVE SnapHolds'
  BY <1>3 DEF SnapStart, SnapHolds, locks
<1>4. ASSUME NEW a \in Accounts, SnapCompute(a) PROVE SnapHolds'
  BY <1>4 DEF SnapCompute, SnapHolds
<1>5. ASSUME SnapShare PROVE SnapHolds'
  BY <1>5 DEF SnapShare, SnapHolds, SnapWaiting, TypeOK, Procs
<1>6. ASSUME NEW written, SnapEnd(written) PROVE SnapHolds'
  BY <1>6 DEF SnapEnd, SnapHolds
<1>7. CASE UNCHANGED vars
  BY <1>1, <1>7 DEF vars, snapVars, locks
<1> QED BY <1>1, <1>2, <1>3, <1>4, <1>5, <1>6, <1>7 DEF Next, SnapStep, SnapCommit, SnapAbort

\* Only a commit of the job changes the snapshots, and those it commits are of
\* accounts it holds.
LEMMA WhoSnapshots ==
  ASSUME TypeOK, SnapHolds, [Next]_vars
  PROVE  \/ snapshots' = snapshots
         \/ /\ \A s \in snapRows : s.account \in keyShare[Snapshotter]
            /\ snapshots' = snapshots \cup snapRows
<1>1. ASSUME NEW t \in Threads, ServerStep(t) \/ Crash(t) \/ \E r \in Requests : Send(t, r)
      PROVE  snapshots' = snapshots
  <2>1. CASE RollsBack(t)
    BY <2>1, RollsBackEnds DEF Ends, snapVars
  <2>2. CASE \/ Claim(t) \/ Replay(t) \/ BuildPosting(t) \/ SkipFloor(t) \/ LockAccount(t)
             \/ PassFloor(t) \/ ReadOriginal(t) \/ InsertRows(t) \/ Emit(t) \/ ShareAccount(t)
             \/ RecordDecline(t) \/ Respond(t) \/ Commit(t) \/ \E r \in Requests : Send(t, r)
    BY <2>2 DEF Claim, Replay, BuildPosting, SkipFloor, LockAccount, PassFloor, NextFloor, Commit,
                ReadOriginal, InsertRows, Emit, ShareAccount, RecordDecline, Respond, Send, Goto, snapVars
  <2> QED BY <1>1, <2>1, <2>2 DEF ServerStep, RollsBack
<1>2. ASSUME SnapStart \/ SnapShare \/ SnapAbort \/ \E a \in Accounts : SnapCompute(a)
      PROVE  snapshots' = snapshots
  BY <1>2 DEF SnapStart, SnapShare, SnapAbort, SnapCompute, SnapEnd
<1>3. ASSUME SnapCommit
      PROVE  /\ \A s \in snapRows : s.account \in keyShare[Snapshotter]
             /\ snapshots' = snapshots \cup snapRows
  BY <1>3 DEF SnapCommit, SnapEnd, SnapHolds
<1>4. CASE UNCHANGED vars
  BY <1>4 DEF vars, snapVars
<1> QED BY <1>1, <1>2, <1>3, <1>4 DEF Next, SnapStep

\* An account that a thread holds FOR UPDATE keeps its newest snapshot and its
\* balance: the job would need FOR KEY SHARE, and so would an entry.
LEMMA HeldIsFrozen ==
  ASSUME TypeOK, TypeOK', Inv, CacheInv, SnapHolds, [Next]_vars,
         NEW t \in Threads, NEW a \in forUpdate[t], a \in forUpdate'[t]
  PROVE  LatestSnapshot(a)' = LatestSnapshot(a) /\ Balance(a)' = Balance(a)
<1>0. a \in Accounts /\ t # Snapshotter
  BY ProcessAssumption DEF TypeOK, Procs
<1>1. SnapshotsOf(a)' = SnapshotsOf(a)
  <2>1. a \notin keyShare[Snapshotter]
    BY <1>0 DEF Inv, LocksExclusive, Procs
  <2> QED BY <2>1, WhoSnapshots DEF SnapshotsOf
<1>2. LatestSnapshot(a)' = LatestSnapshot(a)
  BY <1>1 DEF LatestSnapshot
<1>3. PICK s : s = LatestSnapshot(a)
  OBVIOUS
<1>4. s.upTo \in Nat
  BY <1>0, <1>3, NewestIsOK
<1>5. SumAfter(a, s.upTo)' = SumAfter(a, s.upTo)
  <2>1. CASE txns' = txns
    BY <2>1 DEF SumAfter
  <2>2. ASSUME NEW c \in Threads, Commit(c)
        PROVE  SumAfter(a, s.upTo)' = SumAfter(a, s.upTo)
    <3> DEFINE N == Len(txns)
               f == [i \in DOMAIN txns |-> MovedAfter(a, s.upTo, txns[i].rows)]
               g == [i \in DOMAIN txns' |-> MovedAfter(a, s.upTo, txns'[i].rows)]
    <3>1. /\ DOMAIN txns = 1 .. N /\ N \in Nat /\ DOMAIN txns' = 1 .. N + 1
          /\ \A i \in 1 .. N : txns'[i] = txns[i]
          /\ txns'[N + 1].rows = rows[c]
      BY <2>2, CommitAppends
    <3>2. \A i \in 1 .. N : MovedAfter(a, s.upTo, txns[i].rows) \in Int
      BY <1>4, <3>1, MovedFacts, TxnType
    <3>3. pc[c] = "commit" /\ forUpdate'[c] = {}
      BY <2>2 DEF Commit, Release, TypeOK, Procs
    <3>4. \A n \in DOMAIN rows[c] : rows[c][n].account # a
      <4>1. \A n \in DOMAIN rows[c] : rows[c][n].account \in keyShare[c]
        BY <3>3 DEF Inv, LocksExclusive, SharesItsAccounts
      <4>2. a \notin keyShare[c]
        BY <3>3 DEF Inv, LocksExclusive, Procs
      <4> QED BY <4>1, <4>2
    <3>5. rows[c] \in Seq(Row)
      BY DEF TypeOK
    <3>6. MovedAfter(a, s.upTo, rows[c]) = 0
      BY <1>4, <3>4, <3>5, MovedNone
    <3>7. f \in [1 .. N -> Int] /\ g \in [1 .. N + 1 -> Int]
      BY <3>1, <3>2, <3>6
    <3>8. (\A i \in 1 .. N : g[i] = f[i]) /\ g[N + 1] = 0
      BY <3>1, <3>6
    <3>9. SumAfter(a, s.upTo) = Total(f) /\ SumAfter(a, s.upTo)' = Total(g)
      BY DEF SumAfter
    <3> HIDE DEF f, g
    <3>10. Total(g) = Total(f) + g[N + 1] /\ Total(f) \in Int
      BY <3>1, <3>7, <3>8, TotalGrows, TotalIsInt
    <3> QED BY <3>8, <3>9, <3>10
  <2>3. txns' = txns \/ \E c \in Threads : Commit(c)
    BY WhoWrites DEF vars, tables
  <2> QED BY <2>1, <2>2, <2>3
<1>6. Balance(a) = s.balance + SumAfter(a, s.upTo)
  BY <1>3 DEF Balance
<1>7. Balance(a)' = s.balance + SumAfter(a, s.upTo)'
  BY <1>2, <1>3 DEF Balance
<1> QED BY <1>2, <1>5, <1>6, <1>7

\* The balances recomputed after a cursor, and what late entries add, are integers.
LEMMA SumAfterIsInt ==
  ASSUME TypeOK, NEW a, NEW upTo \in Nat
  PROVE  SumAfter(a, upTo) \in Int
<1>1. Len(txns) \in Nat /\ DOMAIN txns = 1 .. Len(txns) /\ \A i \in DOMAIN txns : txns[i].rows \in Seq(Row)
  BY TxnType
<1> DEFINE N == Len(txns)
           f == [i \in DOMAIN txns |-> MovedAfter(a, upTo, txns[i].rows)]
<1>2. f \in [1 .. N -> Int]
  BY <1>1, MovedFacts
<1>3. SumAfter(a, upTo) = Total(f)
  BY DEF SumAfter
<1> HIDE DEF f
<1> QED BY <1>1, <1>2, <1>3, TotalIsInt

\* See SumAfterIsInt.
LEMMA LateSumIsInt ==
  ASSUME TypeOK, CacheInv, NEW a \in Accounts
  PROVE  LateSum(a, LatestSnapshot(a)) \in Int
<1>1. PICK s : s = LatestSnapshot(a)
  OBVIOUS
<1>2. SnapshotOK(s) /\ s.upTo \in Nat
  BY <1>1, NewestIsOK
<1>3. Len(txns) \in Nat /\ DOMAIN txns = 1 .. Len(txns) /\ \A i \in DOMAIN txns : txns[i].rows \in Seq(Row)
  BY TxnType
<1> DEFINE N == Len(txns)
           f == [i \in DOMAIN txns |->
                   IF i <= s.seen THEN 0 ELSE MovedUpTo(a, s.upTo, txns[i].rows)]
<1>4. \A i \in 1 .. N : MovedUpTo(a, s.upTo, txns[i].rows) \in Int
  BY <1>2, <1>3, MovedFacts
<1>5. f \in [1 .. N -> Int]
  BY <1>3, <1>4
<1>6. LateSum(a, s) = Total(f)
  BY DEF LateSum
<1> HIDE DEF f
<1> QED BY <1>1, <1>3, <1>5, <1>6, TotalIsInt

\* See SumAfterIsInt.
LEMMA SnapshotBalanceIsInt ==
  ASSUME TypeOK, CacheInv, NEW a \in Accounts
  PROVE  LatestSnapshot(a).balance \in Int
<1>1. PICK s : s = LatestSnapshot(a)
  OBVIOUS
<1>2. SnapshotOK(s)
  BY <1>1, NewestIsOK
<1>3. Len(txns) \in Nat /\ DOMAIN txns = 1 .. Len(txns) /\ \A i \in DOMAIN txns : txns[i].rows \in Seq(Row)
  BY TxnType
<1> DEFINE N == Len(txns)
           g == [i \in DOMAIN txns |-> IF i <= s.seen THEN MovedAfter(s.account, 0, txns[i].rows) ELSE 0]
<1>4. g \in [1 .. N -> Int]
  <2>1. \A i \in 1 .. N : MovedAfter(s.account, 0, txns[i].rows) \in Int
    BY <1>3, MovedFacts, 0 \in Nat
  <2> QED BY <1>3, <2>1
<1>5. s.balance = Total(g)
  BY <1>2 DEF SnapshotOK, SeenSum
<1> HIDE DEF g
<1> QED BY <1>1, <1>3, <1>4, <1>5, TotalIsInt

\* The cached balance is an integer.
LEMMA BalanceIsInt ==
  ASSUME TypeOK, CacheInv, NEW a \in Accounts
  PROVE  Balance(a) \in Int
<1>1. LatestSnapshot(a).upTo \in Nat
  BY NewestIsOK
<1>2. SumAfter(a, LatestSnapshot(a).upTo) \in Int /\ LatestSnapshot(a).balance \in Int
  BY <1>1, SumAfterIsInt, SnapshotBalanceIsInt
<1> QED BY <1>2 DEF Balance

\* What a posting adds to an account is an integer.
LEMMA LegsBalanceIsInt ==
  ASSUME NEW b, PostingType(b), ValidPosting(b), NEW a
  PROVE  BalanceOf(AccountType, a, Legs(b)) \in Int
<1>1. PICK legs : legs = Legs(b)
  OBVIOUS
<1>2. legs \in Seq(Leg)
  BY <1>1, LegsType
<1> DEFINE N == Len(legs)
           f == [n \in DOMAIN legs |-> IF legs[n].account = a
                                       THEN Signed(AccountType, legs[n]) ELSE 0]
<1>3. N \in Nat /\ DOMAIN legs = 1 .. N
  BY <1>2
<1>4. ASSUME NEW n \in 1 .. N PROVE Signed(AccountType, legs[n]) \in Int
  <2>1. legs[n] \in Leg
    BY <1>2, ElementOfSeq
  <2> QED BY <2>1 DEF Leg, Signed
<1>5. f \in [1 .. N -> Int]
  BY <1>3, <1>4
<1>6. BalanceOf(AccountType, a, legs) = Total(f)
  BY DEF BalanceOf
<1> HIDE DEF f
<1> QED BY <1>1, <1>3, <1>5, <1>6, TotalIsInt

\* What the theorems about floors compute with are integers.
BalancesAreInt ==
    \A a \in Accounts : Balance(a) \in Int /\ LateSum(a, LatestSnapshot(a)) \in Int

\* A step of another process leaves a thread its locks and their balances.
LEMMA FloorFrame ==
  ASSUME TypeOK, TypeOK', Inv, CacheInv, SnapHolds, [Next]_vars, NEW t \in Threads, FloorInv(t),
         pc'[t] = pc[t], req'[t] = req[t], todo'[t] = todo[t], rows'[t] = rows[t],
         forUpdate'[t] = forUpdate[t]
  PROVE  FloorInv(t)'
<1>1. \A a \in forUpdate[t] : LatestSnapshot(a)' = LatestSnapshot(a) /\ Balance(a)' = Balance(a)
  BY HeldIsFrozen
<1>2. IsReversal(t)' = IsReversal(t) /\ \A a : Lowers(t, a)' = Lowers(t, a)
  BY DEF IsReversal, Body, Lowers
<1>3. \A a : FloorKept(t, a) => FloorKept(t, a)'
  BY <1>1 DEF FloorKept, Body
<1>4. pc'[t] \in Writing =>
          \A n \in DOMAIN rows'[t] :
             rows'[t][n].account \in forUpdate'[t] =>
                rows'[t][n].id > LatestSnapshot(rows[t][n].account)'.upTo
  BY <1>1 DEF FloorInv
<1>5. pc'[t] \in Screened /\ ~IsReversal(t)' =>
          \A a \in Accounts : Lowers(t, a)' =>
             \/ pc'[t] \in {"lock", "check"} /\ \E n \in DOMAIN todo'[t] : todo'[t][n] = a
             \/ FloorKept(t, a)'
  BY <1>2, <1>3 DEF FloorInv
<1>6. pc'[t] = "check" => Head(todo'[t]) \in forUpdate'[t]
  BY DEF FloorInv
<1> QED BY <1>4, <1>5, <1>6 DEF FloorInv

\* A thread that serves no screened posting owes nothing.
LEMMA FloorIdle ==
  ASSUME NEW t \in Threads, pc'[t] \notin Screened
  PROVE  FloorInv(t)'
BY DEF FloorInv, Screened, Writing

\* What a thread in the loop of _check_floors serves.
LEMMA InTheLoop ==
  ASSUME TypeOK, Inv, NEW t \in Threads, pc[t] \in {"build", "lock", "check", "insert"},
         ~IsReversal(t), pc[t] = "build" => ValidPosting(Body(t))
  PROVE  PostingType(Body(t)) /\ ValidPosting(Body(t))
<1>1. req[t] \in Requests /\ ValidPosting(Body(t))
  BY DEF Inv, ThreadShape, FitsPlace
<1> QED BY <1>1, RequestAssumption DEF PostingType, IsReversal, Body

\* A posting that passes the screen has every account it moves before it.
LEMMA BuildPostingFloors ==
  ASSUME TypeOK, TypeOK', Inv, NEW t \in Threads, BuildPosting(t)
  PROVE  FloorInv(t)'
<1>1. /\ pc[t] = "build" /\ ~IsReversal(t) /\ ValidPosting(Body(t)) /\ pc'[t] = "lock"
      /\ todo'[t] = AccountsOf(Legs(Body(t))) /\ req' = req
  BY DEF BuildPosting, Goto, TypeOK
<1>2. PostingType(Body(t)) /\ Body(t)' = Body(t)
  BY <1>1, InTheLoop DEF Body
<1>3. ASSUME NEW a \in Accounts, Lowers(t, a)'
      PROVE  \E n \in DOMAIN todo'[t] : todo'[t][n] = a
  <2>1. BalanceOf(AccountType, a, Legs(Body(t))) # 0
    BY <1>2, <1>3 DEF Lowers
  <2>2. \E n \in DOMAIN Legs(Body(t)) : Legs(Body(t))[n].account = a
    BY <1>1, <1>2, <2>1, MovedIsOnLegs
  <2> QED BY <1>1, <2>2 DEF AccountsOf
<1> QED BY <1>1, <1>3 DEF FloorInv, Writing

\* The tail of a sequence holds all but its head.
LEMMA TailHolds ==
  ASSUME NEW S, NEW s \in Seq(S), s # <<>>, NEW x, \E n \in DOMAIN s : s[n] = x, x # Head(s)
  PROVE  Tail(s) # <<>> /\ \E n \in DOMAIN Tail(s) : Tail(s)[n] = x
<1>1. Len(s) \in Nat \ {0} /\ DOMAIN s = 1 .. Len(s) /\ Head(s) = s[1]
  OBVIOUS
<1>2. PICK n \in 1 .. Len(s) : s[n] = x
  BY <1>1
<1>3. n # 1 /\ n - 1 \in 1 .. Len(s) - 1 /\ (n - 1) + 1 = n
  BY <1>1, <1>2
<1>4. /\ Len(Tail(s)) = Len(s) - 1 /\ Tail(s) \in Seq(S)
      /\ \A i \in 1 .. Len(Tail(s)) : Tail(s)[i] = s[i + 1]
  BY HeadTailProperties
<1>5. DOMAIN Tail(s) = 1 .. Len(Tail(s))
  BY <1>4
<1>6. n - 1 \in DOMAIN Tail(s) /\ Tail(s)[n - 1] = x
  BY <1>2, <1>3, <1>4, <1>5
<1> QED BY <1>5, <1>6

\* The loop of _check_floors goes past an account it need not check, or one whose
\* balance bears the posting.
LEMMA NextFloorFloors ==
  ASSUME TypeOK, TypeOK', Inv, CacheInv, SnapHolds, [Next]_vars,
         NEW t \in Threads, FloorInv(t), SkipFloor(t) \/ PassFloor(t)
  PROVE  FloorInv(t)'
<1> DEFINE h == Head(todo[t])
<1>1. /\ pc[t] \in {"lock", "check"}
      /\ pc'[t] = IF Tail(todo[t]) = <<>> THEN "insert" ELSE "lock"
      /\ todo'[t] = Tail(todo[t])
      /\ req' = req /\ forUpdate' = forUpdate
  BY DEF SkipFloor, PassFloor, NextFloor, Goto, TypeOK, locks
<1>2. todo[t] \in Seq(Accounts) /\ todo[t] # <<>> /\ ~IsReversal(t) /\ ValidPosting(Body(t))
  BY <1>1 DEF Inv, ThreadShape, FitsPlace, TypeOK
<1>3. PostingType(Body(t)) /\ Body(t)' = Body(t) /\ (\A a : Lowers(t, a)' = Lowers(t, a))
  BY <1>1, <1>2, InTheLoop DEF Body, Lowers
<1>4. \A a \in forUpdate[t] : Balance(a)' = Balance(a)
  BY <1>1, HeldIsFrozen
<1>5. \A a : FloorKept(t, a) => FloorKept(t, a)'
  BY <1>1, <1>3, <1>4 DEF FloorKept
<1>6. h \in Accounts
  BY <1>2
<1>7. ASSUME Lowers(t, h) PROVE FloorKept(t, h)
  <2>1. DeltaOf(h, Legs(Body(t))) = BalanceOf(AccountType, h, Legs(Body(t)))
    BY <1>2, <1>3, <1>6, <1>7, DeltaIsBalance DEF Lowers
  <2>2. NeedsFloorCheck(h, Legs(Body(t)))
    BY <1>7, <2>1 DEF Lowers, NeedsFloorCheck
  <2>3. PassFloor(t)
    BY <2>2 DEF SkipFloor
  <2>4. h \in forUpdate[t]
    BY <2>3 DEF PassFloor, FloorInv
  <2>5. Balance(h) + BalanceOf(AccountType, h, Legs(Body(t))) >= Floor[h]
    <3>1. ~(Balance(h) + DeltaOf(h, Legs(Body(t))) < Floor[h])
      BY <2>3 DEF PassFloor, BelowFloor
    <3>2. Floor[h] \in Int
      BY <1>6, <1>7, ChartAssumption DEF Lowers
    <3>3. Balance(h) \in Int /\ BalanceOf(AccountType, h, Legs(Body(t))) \in Int
      BY <1>2, <1>3, <1>6, BalanceIsInt, LegsBalanceIsInt
    <3> QED BY <2>1, <3>1, <3>2, <3>3
  <2> QED BY <2>4, <2>5 DEF FloorKept
<1>8. ASSUME NEW a \in Accounts, Lowers(t, a)
      PROVE  \/ FloorKept(t, a)
             \/ Tail(todo[t]) # <<>> /\ \E n \in DOMAIN Tail(todo[t]) : Tail(todo[t])[n] = a
  <2>1. CASE a = h
    BY <1>7, <1>8, <2>1
  <2>2. CASE a # h /\ \E n \in DOMAIN todo[t] : todo[t][n] = a
    BY <1>2, <2>2, TailHolds
  <2>3. CASE FloorKept(t, a)
    BY <2>3
  <2> QED BY <1>1, <1>2, <1>8, <2>1, <2>2, <2>3 DEF FloorInv, Screened
<1>9. ASSUME NEW a \in Accounts, Lowers(t, a)'
      PROVE  \/ pc'[t] \in {"lock", "check"} /\ \E n \in DOMAIN todo'[t] : todo'[t][n] = a
             \/ FloorKept(t, a)'
  BY <1>1, <1>3, <1>5, <1>8, <1>9
<1> QED BY <1>1, <1>9 DEF FloorInv, Writing

\* SELECT ... FOR UPDATE adds one account to those held.
LEMMA LockAccountFloors ==
  ASSUME TypeOK, TypeOK', Inv, CacheInv, SnapHolds, [Next]_vars,
         NEW t \in Threads, FloorInv(t), LockAccount(t)
  PROVE  FloorInv(t)'
<1>1. /\ pc[t] = "lock" /\ pc'[t] = "check" /\ req' = req /\ todo' = todo
      /\ forUpdate'[t] = forUpdate[t] \cup {Head(todo[t])}
  BY DEF LockAccount, Goto, TypeOK, work, Procs
<1>2. IsReversal(t)' = IsReversal(t) /\ Body(t)' = Body(t) /\ \A a : Lowers(t, a)' = Lowers(t, a)
  BY <1>1 DEF IsReversal, Body, Lowers
<1>3. \A a \in forUpdate[t] : Balance(a)' = Balance(a)
  BY <1>1, HeldIsFrozen
<1>4. \A a : FloorKept(t, a) => FloorKept(t, a)'
  BY <1>1, <1>2, <1>3 DEF FloorKept
<1>5. ASSUME NEW a \in Accounts, Lowers(t, a)', ~IsReversal(t)'
      PROVE  (\E n \in DOMAIN todo'[t] : todo'[t][n] = a) \/ FloorKept(t, a)'
  BY <1>1, <1>2, <1>4, <1>5 DEF FloorInv, Screened
<1> QED BY <1>1, <1>5 DEF FloorInv, Writing

\* The rows inserted draw ids above every cursor.
LEMMA InsertRowsFloors ==
  ASSUME TypeOK, TypeOK', Inv, CacheInv, SnapHolds, [Next]_vars,
         NEW t \in Threads, FloorInv(t), InsertRows(t)
  PROVE  FloorInv(t)'
<1>1. /\ pc[t] = "insert" /\ pc'[t] = "share" /\ req' = req /\ forUpdate' = forUpdate
  BY DEF InsertRows, Goto, TypeOK, locks
<1>2. IsReversal(t)' = IsReversal(t) /\ Body(t)' = Body(t) /\ \A a : Lowers(t, a)' = Lowers(t, a)
  BY <1>1 DEF IsReversal, Body, Lowers
<1>3. \A a \in forUpdate[t] : LatestSnapshot(a)' = LatestSnapshot(a) /\ Balance(a)' = Balance(a)
  BY <1>1, HeldIsFrozen
<1>4. \A a : FloorKept(t, a) => FloorKept(t, a)'
  BY <1>1, <1>2, <1>3 DEF FloorKept
<1>5. ASSUME NEW a \in Accounts, Lowers(t, a)', ~IsReversal(t)'
      PROVE  FloorKept(t, a)'
  BY <1>1, <1>2, <1>4, <1>5 DEF FloorInv, Screened
<1>6. ASSUME NEW n \in DOMAIN rows'[t], rows'[t][n].account \in forUpdate'[t]
      PROVE  rows'[t][n].id > LatestSnapshot(rows[t][n].account)'.upTo
  <2> DEFINE legs == LegsToInsert(t)
  <2>1. Len(legs) \in Nat \ {0} /\ DOMAIN legs = 1 .. Len(legs)
    BY <1>1, InsertedType
  <2>2. rows'[t] = [i \in DOMAIN legs |->
                   [id |-> entrySeq + i, account |-> legs[i].account,
                    direction |-> legs[i].direction, amount |-> legs[i].amount,
                    currency |-> legs[i].currency]]
    BY DEF InsertRows, TypeOK
  <2> HIDE DEF legs
  <2>3. n \in 1 .. Len(legs) /\ rows'[t][n].id = entrySeq + n
    BY <1>6, <2>1, <2>2
  <2>4. PICK x : x = rows'[t][n].account
    OBVIOUS
  <2>5. x \in forUpdate[t] /\ x \in Accounts
    BY <1>1, <1>6, <2>4 DEF TypeOK, Procs
  <2>6. LatestSnapshot(x)' = LatestSnapshot(x)
    BY <1>3, <2>5
  <2>7. LatestSnapshot(x).upTo \in 0 .. entrySeq /\ entrySeq \in Nat
    BY <2>5, NewestIsOK DEF SnapshotOK, TypeOK
  <2>8. LatestSnapshot(rows[t][n].account)' = LatestSnapshot(x)'
    BY <2>4
  <2>9. rows'[t][n].id > LatestSnapshot(x)'.upTo
    BY <2>3, <2>6, <2>7
  <2> QED BY <2>8, <2>9
<1>7. pc'[t] = "share" => pc'[t] # "check"
  OBVIOUS
<1> QED BY <1>1, <1>5, <1>6 DEF FloorInv, Screened

\* Foreign keys and the outbox row leave a thread its locks.
LEMMA WritingFloors ==
  ASSUME TypeOK, TypeOK', Inv, CacheInv, SnapHolds, [Next]_vars,
         NEW t \in Threads, FloorInv(t), ShareAccount(t) \/ Emit(t)
  PROVE  FloorInv(t)'
<1>1. /\ pc[t] \in Writing /\ pc'[t] \in Writing /\ req' = req /\ rows' = rows
      /\ forUpdate' = forUpdate
  BY DEF ShareAccount, Emit, Goto, TypeOK, locks, Writing
<1>2. IsReversal(t)' = IsReversal(t) /\ Body(t)' = Body(t) /\ \A a : Lowers(t, a)' = Lowers(t, a)
  BY <1>1 DEF IsReversal, Body, Lowers
<1>3. \A a \in forUpdate[t] : LatestSnapshot(a)' = LatestSnapshot(a) /\ Balance(a)' = Balance(a)
  BY <1>1, HeldIsFrozen
<1>4. \A a : FloorKept(t, a) => FloorKept(t, a)'
  BY <1>1, <1>2, <1>3 DEF FloorKept
<1>5. ASSUME NEW a \in Accounts, Lowers(t, a)', ~IsReversal(t)'
      PROVE  FloorKept(t, a)'
  BY <1>1, <1>2, <1>4, <1>5 DEF FloorInv, Screened, Writing
<1>6. \A n \in DOMAIN rows'[t] : rows'[t][n].account \in forUpdate'[t] =>
          rows'[t][n].id > LatestSnapshot(rows[t][n].account)'.upTo
  BY <1>1, <1>3 DEF FloorInv
<1>7. pc'[t] # "check"
  BY <1>1 DEF Writing
<1> QED BY <1>1, <1>5, <1>6, <1>7 DEF FloorInv, Screened, Writing

\* Every step of every process keeps what the threads owe to the floors.
LEMMA FloorsStep ==
  ASSUME TypeOK, TypeOK', Inv, CacheInv, FloorsInv, [Next]_vars
  PROVE  FloorsInv'
<1>1. SnapHolds /\ SnapHolds' /\ \A t \in Threads : FloorInv(t)
  BY SnapHoldsStep DEF FloorsInv
<1> SUFFICES ASSUME NEW u \in Threads PROVE FloorInv(u)'
  BY <1>1 DEF FloorsInv
<1> DEFINE Same == /\ pc'[u] = pc[u] /\ req'[u] = req[u] /\ todo'[u] = todo[u] /\ rows'[u] = rows[u]
                   /\ forUpdate'[u] = forUpdate[u]
<1>2. Same => FloorInv(u)'
  BY <1>1, FloorFrame
<1>3. u # Snapshotter
  BY ProcessAssumption
<1>4. ASSUME NEW t \in Threads, Ends(t) PROVE u = t \/ Same
  BY <1>4 DEF Ends, Release, TypeOK, Procs
<1>5. ASSUME NEW t \in Threads, Ends(t) PROVE pc'[t] \notin Screened
  BY <1>5 DEF Ends, TypeOK, Screened
<1>6. ASSUME NEW t \in Threads, \E r \in Requests : Send(t, r)
      PROVE  (u = t \/ Same) /\ pc'[t] \notin Screened
  BY <1>6 DEF Send, TypeOK, Screened, work, locks
<1>7. ASSUME NEW t \in Threads, Claim(t) \/ Replay(t) \/ RecordDecline(t) \/ Respond(t)
      PROVE  (u = t \/ Same) /\ pc'[t] \notin Screened
  BY <1>7 DEF Claim, Replay, RecordDecline, Respond, Goto, TypeOK, Screened, work, locks
<1>8. ASSUME NEW t \in Threads, Commit(t)
      PROVE  (u = t \/ Same) /\ pc'[t] \notin Screened
  BY <1>8 DEF Commit, Release, TypeOK, Screened, Procs
<1>9. ASSUME NEW t \in Threads,
             \/ BuildPosting(t) \/ ReadOriginal(t) \/ SkipFloor(t) \/ PassFloor(t)
             \/ LockAccount(t) \/ InsertRows(t) \/ ShareAccount(t) \/ Emit(t)
      PROVE  u = t \/ Same
  BY <1>9 DEF BuildPosting, ReadOriginal, SkipFloor, PassFloor, NextFloor, LockAccount, InsertRows,
              ShareAccount, Emit, Goto, TypeOK, Procs, work, locks
<1>10. ASSUME ReadOriginal(u) PROVE FloorInv(u)'
  <2>1. IsReversal(u)' /\ pc'[u] = "insert"
    BY <1>10 DEF ReadOriginal, Goto, IsReversal, Body, TypeOK
  <2> QED BY <2>1 DEF FloorInv, Writing
<1>11. ASSUME SnapStep \/ SnapAbort PROVE Same
  BY <1>11 DEF SnapStep, SnapAbort, SnapStart, SnapCompute, SnapShare, SnapCommit, SnapEnd, work, locks
<1>12. ASSUME UNCHANGED vars PROVE Same
  BY <1>12 DEF vars, work, locks
<1> HIDE DEF Same
<1>13. ASSUME NEW t \in Threads, ServerStep(t) \/ Crash(t), u # t PROVE FloorInv(u)'
  BY <1>2, <1>4, <1>7, <1>8, <1>9, <1>13, RollsBackEnds DEF ServerStep, RollsBack
<1>14. ASSUME ServerStep(u) \/ Crash(u) PROVE FloorInv(u)'
  <2>1. CASE pc'[u] \notin Screened
    BY <2>1, FloorIdle
  <2>2. CASE BuildPosting(u)
    BY <2>2, BuildPostingFloors
  <2>3. CASE SkipFloor(u) \/ PassFloor(u)
    BY <1>1, <2>3, NextFloorFloors
  <2>4. CASE LockAccount(u)
    BY <1>1, <2>4, LockAccountFloors
  <2>5. CASE InsertRows(u)
    BY <1>1, <2>5, InsertRowsFloors
  <2>6. CASE ShareAccount(u) \/ Emit(u)
    BY <1>1, <2>6, WritingFloors
  <2> QED BY <1>5, <1>7, <1>8, <1>10, <1>14, <2>1, <2>2, <2>3, <2>4, <2>5, <2>6, RollsBackEnds
          DEF ServerStep, RollsBack
<1>15. ASSUME NEW t \in Threads, \E r \in Requests : Send(t, r) PROVE FloorInv(u)'
  BY <1>2, <1>6, <1>15, FloorIdle
<1> QED BY <1>2, <1>11, <1>12, <1>13, <1>14, <1>15 DEF Next

\* Nobody owes anything at the start.
LEMMA FloorsInit == Init => FloorsInv
  BY DEF Init, FloorsInv, FloorInv, SnapHolds, Screened, Writing

\* What every thread has checked against the floors holds until it commits.
THEOREM FloorsInvariance == Spec => []FloorsInv
<1>1. TypeOK /\ TypeOK' /\ Inv /\ CacheInv /\ FloorsInv /\ [Next]_vars => FloorsInv'
  BY FloorsStep
<1> QED BY <1>1, FloorsInit, Invariance, CacheInvariance, PTL DEF Spec

\* A posting that lowers an account leaves its cached balance at the floor.
LEMMA CommitKeepsFloor ==
  ASSUME TypeOK, TypeOK', Inv, CacheInv, RowsFit, FloorsInv,
         NEW t \in Threads, Commit(t), ~IsReversal(t), NEW a \in Accounts, Floor[a] # NoFloor,
         BalanceOf(AccountType, a, rows[t]) < 0
  PROVE  Balance(a)' >= Floor[a]
<1> DEFINE N == Len(txns)
<1>1. /\ DOMAIN txns = 1 .. N /\ N \in Nat /\ DOMAIN txns' = 1 .. N + 1
      /\ \A i \in 1 .. N : txns'[i] = txns[i]
      /\ txns'[N + 1].rows = rows[t]
  BY CommitAppends
<1>2. pc[t] = "commit" /\ snapshots' = snapshots /\ rows[t] \in Seq(Row)
  BY DEF Commit, snapVars, TypeOK
<1>3. SameLegs(rows[t], Legs(Body(t)))
  BY <1>2 DEF RowsFit, Writing
<1>4. /\ BalanceOf(AccountType, a, rows[t]) = BalanceOf(AccountType, a, Legs(Body(t)))
      /\ BalanceOf(AccountType, a, rows[t]) \in Int
  BY <1>2, <1>3, BalanceFacts
<1>5. FloorKept(t, a)
  BY <1>2, <1>4 DEF FloorsInv, FloorInv, Lowers, Screened
<1>6. PICK s : s = LatestSnapshot(a)
  OBVIOUS
<1>7. s.upTo \in Nat
  BY <1>6, NewestIsOK
<1>8. \A n \in DOMAIN rows[t] : rows[t][n].account = a => rows[t][n].id > s.upTo
  BY <1>2, <1>5, <1>6 DEF FloorsInv, FloorInv, FloorKept, Writing
<1>9. MovedAfter(a, s.upTo, rows[t]) = BalanceOf(AccountType, a, rows[t])
  BY <1>2, <1>7, <1>8, BalanceFacts
<1> DEFINE f == [i \in DOMAIN txns |-> MovedAfter(a, s.upTo, txns[i].rows)]
           g == [i \in DOMAIN txns' |-> MovedAfter(a, s.upTo, txns'[i].rows)]
<1>10. f \in [1 .. N -> Int]
  BY <1>1, <1>7, MovedFacts, TxnType
<1>11. g \in [1 .. N + 1 -> Int] /\ (\A i \in 1 .. N : g[i] = f[i])
       /\ g[N + 1] = BalanceOf(AccountType, a, rows[t])
  BY <1>1, <1>4, <1>9, <1>10
<1>12. LatestSnapshot(a)' = s
  <2>1. SnapshotsOf(a)' = SnapshotsOf(a)
    BY <1>2 DEF SnapshotsOf
  <2> QED BY <1>6, <2>1 DEF LatestSnapshot
<1>13. Balance(a) = s.balance + Total(f) /\ Balance(a)' = s.balance + Total(g)
  BY <1>6, <1>12 DEF Balance, SumAfter
<1> HIDE DEF f, g
<1>14. Total(g) = Total(f) + g[N + 1] /\ Total(f) \in Int
  BY <1>1, <1>10, <1>11, TotalGrows, TotalIsInt
<1>15. Balance(a) \in Int /\ Floor[a] \in Int
  BY BalanceIsInt, ChartAssumption
<1>16. s.balance \in Int
  BY <1>6, SnapshotBalanceIsInt
<1> QED BY <1>4, <1>5, <1>11, <1>13, <1>14, <1>15, <1>16 DEF FloorKept

\* The step of PostingsKeepFloors, over the cached balance.
KeepsCachedFloors ==
    \A i \in DOMAIN txns' \ DOMAIN txns : txns'[i].reverses = 0 =>
       \A a \in Accounts :
          Floor[a] # NoFloor /\ BalanceOf(AccountType, a, txns'[i].rows) < 0
             => Balance(a)' >= Floor[a]

\* Every step keeps the cached balances above the floors.
LEMMA CachedFloorsStep ==
  ASSUME TypeOK, TypeOK', Inv, CacheInv, RowsFit, FloorsInv, [Next]_vars
  PROVE  KeepsCachedFloors
<1>1. CASE txns' = txns
  BY <1>1 DEF KeepsCachedFloors
<1>2. ASSUME NEW t \in Threads, Commit(t)
      PROVE  KeepsCachedFloors
  <2> SUFFICES ASSUME NEW i \in DOMAIN txns' \ DOMAIN txns, txns'[i].reverses = 0,
                      NEW a \in Accounts, Floor[a] # NoFloor,
                      BalanceOf(AccountType, a, txns'[i].rows) < 0
               PROVE  Balance(a)' >= Floor[a]
    BY DEF KeepsCachedFloors
  <2>1. i = Len(txns) + 1
    BY <1>2, CommitAppends
  <2>2. /\ txns'[i].rows = rows[t]
        /\ txns'[i].reverses = IF IsReversal(t) THEN Body(t).target ELSE 0
    BY <1>2, <2>1, CommitAppends
  <2>3. req[t] \in Requests
    BY <1>2 DEF Commit, Inv, ThreadShape, FitsPlace
  <2>4. ~IsReversal(t)
    BY <2>2, <2>3, RequestAssumption DEF IsReversal, Body
  <2> QED BY <1>2, <2>2, <2>4, CommitKeepsFloor
<1>3. txns' = txns \/ \E t \in Threads : Commit(t)
  BY WhoWrites DEF vars, tables
<1> QED BY <1>1, <1>2, <1>3

\* A posting that lowers a floored account leaves its recomputed balance no
\* further below the floor than the entries the cache missed: the row lock keeps
\* the balance _check_floors read, and its snapshot, current until COMMIT.
FloorsUpToLateEntries ==
    [][\A i \in DOMAIN txns' \ DOMAIN txns : txns'[i].reverses = 0 =>
          \A a \in Accounts :
             Floor[a] # NoFloor /\ BalanceOf(AccountType, a, txns'[i].rows) < 0
                => TrueBalance(a)' >= Floor[a] + LateSum(a, LatestSnapshot(a))']_vars

\* Whatever snapshots are taken, the floors are kept up to the late entries.
THEOREM FloorsKeptUpToLateEntries == Spec => FloorsUpToLateEntries
<1> DEFINE Kept == \A i \in DOMAIN txns' \ DOMAIN txns : txns'[i].reverses = 0 =>
                      \A a \in Accounts :
                         Floor[a] # NoFloor /\ BalanceOf(AccountType, a, txns'[i].rows) < 0
                            => TrueBalance(a)' >= Floor[a] + LateSum(a, LatestSnapshot(a))'
<1>1. ASSUME TypeOK, TypeOK', Inv, CacheInv, RowsFit, FloorsInv,
             CacheErrorIsLateEntries', BalancesAreInt', [Next]_vars
      PROVE  Kept
  <2>1. KeepsCachedFloors
    BY <1>1, CachedFloorsStep
  <2>2. \A a \in Accounts : /\ Balance(a)' + LateSum(a, LatestSnapshot(a))' = TrueBalance(a)'
                            /\ Balance(a)' \in Int /\ LateSum(a, LatestSnapshot(a))' \in Int
    BY <1>1 DEF CacheErrorIsLateEntries, BalancesAreInt
  <2>3. ASSUME NEW a \in Accounts, Floor[a] # NoFloor, Balance(a)' >= Floor[a]
        PROVE  TrueBalance(a)' >= Floor[a] + LateSum(a, LatestSnapshot(a))'
    <3>1. PICK b, l : b = Balance(a)' /\ l = LateSum(a, LatestSnapshot(a))'
      OBVIOUS
    <3>2. b \in Int /\ l \in Int /\ Floor[a] \in Int /\ b >= Floor[a] /\ TrueBalance(a)' = b + l
      BY <2>2, <2>3, <3>1, ChartAssumption
    <3>3. b + l >= Floor[a] + l
      BY <3>2
    <3> QED BY <3>1, <3>2, <3>3
  <2> QED BY <2>1, <2>3 DEF KeepsCachedFloors
<1>2. TypeOK /\ CacheInv => BalancesAreInt
  BY BalanceIsInt, LateSumIsInt DEF BalancesAreInt
<1> HIDE DEF Kept
<1>3. TypeOK /\ TypeOK' /\ Inv /\ CacheInv /\ RowsFit /\ FloorsInv /\ CacheErrorIsLateEntries'
         /\ BalancesAreInt' /\ [Next]_vars => Kept
  BY <1>1
<1>4. Spec => [][Kept]_vars
  BY <1>2, <1>3, Invariance, CacheInvariance, CacheErrsByLateEntries, ScreenInvariance,
     FloorsInvariance, PTL DEF Spec
<1> QED BY <1>4 DEF FloorsUpToLateEntries, Kept

\* The cache agrees with the entries, as when no snapshot is taken while ids are
\* drawn and not committed.
CacheExact == \A a \in Accounts : Balance(a) = TrueBalance(a)

\* Where the cache is exact, a posting that lowers a floored account leaves it at
\* or above its floor, however postings, reversals and crashes interleave.
THEOREM FloorsKept == Spec /\ []CacheExact => PostingsKeepFloors
<1> DEFINE Kept == \A i \in DOMAIN txns' \ DOMAIN txns : txns'[i].reverses = 0 =>
                      \A a \in Accounts :
                         Floor[a] # NoFloor /\ BalanceOf(AccountType, a, txns'[i].rows) < 0
                            => TrueBalance(a)' >= Floor[a]
<1>1. ASSUME TypeOK, TypeOK', Inv, CacheInv, RowsFit, FloorsInv, CacheExact', [Next]_vars
      PROVE  Kept
  <2>1. KeepsCachedFloors
    BY <1>1, CachedFloorsStep
  <2>2. \A a \in Accounts : Balance(a)' = TrueBalance(a)'
    BY <1>1 DEF CacheExact
  <2> QED BY <2>1, <2>2 DEF KeepsCachedFloors
<1> HIDE DEF Kept
<1>2. TypeOK /\ TypeOK' /\ Inv /\ CacheInv /\ RowsFit /\ FloorsInv /\ CacheExact' /\ [Next]_vars
         => Kept
  BY <1>1
<1>3. Spec /\ []CacheExact => [][Kept]_vars
  BY <1>2, Invariance, CacheInvariance, ScreenInvariance, FloorsInvariance, PTL DEF Spec
<1> QED BY <1>3 DEF PostingsKeepFloors, Kept

\* Without snapshots the cache is exact.
LEMMA ExactWithoutSnapshots ==
  ASSUME MaxSnapshots = 0
  PROVE  Spec => []CacheExact
<1> DEFINE None == snapshots = {} /\ snapPc = "idle" /\ snapRows = {}
<1>1. Init => None
  BY DEF Init
<1>2. None /\ TypeOK /\ SnapHolds /\ [Next]_vars => None'
  <2> SUFFICES ASSUME None, TypeOK, SnapHolds, [Next]_vars
               PROVE  None'
    OBVIOUS
  <2>1. ~SnapStart
    BY FS_EmptySet DEF SnapStart
  <2>2. ASSUME SnapStep \/ SnapAbort PROVE None'
    BY <2>1, <2>2 DEF SnapStep, SnapCompute, SnapShare, SnapCommit, SnapAbort
  <2>3. ASSUME NEW t \in Threads, ServerStep(t) \/ Crash(t) \/ \E r \in Requests : Send(t, r)
        PROVE  None'
    <3>1. UNCHANGED snapVars
      <4>1. CASE RollsBack(t)
        BY <4>1, RollsBackEnds DEF Ends
      <4>2. CASE \/ Claim(t) \/ Replay(t) \/ BuildPosting(t) \/ SkipFloor(t) \/ LockAccount(t)
                 \/ PassFloor(t) \/ ReadOriginal(t) \/ InsertRows(t) \/ Emit(t) \/ ShareAccount(t)
                 \/ RecordDecline(t) \/ Respond(t) \/ Commit(t) \/ \E r \in Requests : Send(t, r)
        BY <4>2 DEF Claim, Replay, BuildPosting, SkipFloor, LockAccount, PassFloor, NextFloor, Commit,
                    ReadOriginal, InsertRows, Emit, ShareAccount, RecordDecline, Respond, Send, Goto
      <4> QED BY <2>3, <4>1, <4>2 DEF ServerStep, RollsBack
    <3> QED BY <3>1 DEF snapVars
  <2>4. CASE UNCHANGED vars
    BY <2>4 DEF vars, snapVars
  <2> QED BY <2>2, <2>3, <2>4 DEF Next
<1>3. None /\ TypeOK /\ CacheInv => CacheExact
  <2> SUFFICES ASSUME None, TypeOK, CacheInv, NEW a \in Accounts
               PROVE  Balance(a) = TrueBalance(a)
    BY DEF CacheExact
  <2>1. LatestSnapshot(a).balance = 0 /\ LatestSnapshot(a).upTo = 0
    BY DEF LatestSnapshot, SnapshotsOf
  <2>2. Balance(a) = 0 + SumAfter(a, 0) /\ TrueBalance(a) = SumAfter(a, 0)
    BY <2>1 DEF Balance, TrueBalance
  <2>3. SumAfter(a, 0) \in Int
    BY 0 \in Nat, SumAfterIsInt
  <2> QED BY <2>2, <2>3
<1> HIDE DEF None
<1>4. FloorsInv => SnapHolds
  BY DEF FloorsInv
<1> QED BY <1>1, <1>2, <1>3, <1>4, Invariance, CacheInvariance, FloorsInvariance, PTL DEF Spec

\* Before the first snapshot job the floors are kept whatever happens.
THEOREM FloorsKeptWithoutSnapshots ==
  ASSUME MaxSnapshots = 0
  PROVE  Spec => PostingsKeepFloors
BY ExactWithoutSnapshots, FloorsKept, PTL
=============================================================================
