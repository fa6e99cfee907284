------------------------------ MODULE WritePath ------------------------------
(***************************************************************************)
(* The write path of the API: POST /transactions, /transfers and           *)
(* /transactions/{id}/reversals, from the idempotency key to the response, *)
(* as API threads execute it against one READ COMMITTED Postgres database, *)
(* with the snapshot job (cli.py snapshot) running beside them.            *)
(*                                                                         *)
(* A thread runs one request at a time inside one database transaction:    *)
(* claim the key, build and screen the posting (or read the original of a  *)
(* reversal), lock and check the floored accounts, insert the transaction  *)
(* and its entries, wait for the foreign keys, append the outbox row,      *)
(* complete the key, commit.  What a thread has written and not committed  *)
(* is in its own variables; the tables hold what is committed.             *)
(*                                                                         *)
(* Postgres is external and modelled from how the code uses it: an INSERT  *)
(* that meets an uncommitted row of a unique index waits for its writer;   *)
(* FOR UPDATE on an account conflicts with every other lock on the row;    *)
(* a foreign key takes FOR KEY SHARE, which conflicts with FOR UPDATE      *)
(* only; a BIGSERIAL is advanced at once and is never rolled back; a       *)
(* transaction that waits is cancelled by lock_timeout, where the code     *)
(* sets it, or by the deadlock detector.                                   *)
(***************************************************************************)
EXTENDS PostingRules

CONSTANTS
    Threads,            \* API threads, each with a pooled connection
    Snapshotter,        \* the process that runs the snapshot job
    Keys,               \* idempotency keys of one API key
    NoKey,              \* the request carries no Idempotency-Key header
    Accounts,           \* account ids of the tenant and mode
    AccountType,        \* account -> account type
    Currency,           \* account -> currency
    Floor,              \* account -> minimum_balance, or NoFloor
    NoFloor,
    Requests,           \* what clients send: [key, body]
    NoRequest,          \* an idle thread serves none
    VelocityLimit,      \* txn_count_1h above which the blocking rule fires (12)
    SmallAmount,        \* max_amount_1h below which it fires (500)
    SnapshotThreshold,  \* --threshold of the snapshot job
    MaxSends,           \* bound: how many requests clients send, retries included
    MaxSnapshots        \* bound: no snapshot job starts once there are so many rows

\* A body is a posting (PostingRules) or the reversal of a transaction id.
Bodies == {r.body : r \in Requests}

ASSUME ProcessAssumption  == Snapshotter \notin Threads
ASSUME KeyAssumption      == NoKey \notin Keys
ASSUME IdleAssumption     == NoRequest \notin Requests
ASSUME ThreadsAssumption  == IsFiniteSet(Threads)
ASSUME LimitAssumption    == VelocityLimit \in Nat /\ SmallAmount \in Int
ASSUME ChartAssumption    ==
    /\ IsFiniteSet(Accounts) /\ AccountType \in [Accounts -> AccountTypes]
    /\ \A a \in Accounts : Floor[a] # NoFloor => Floor[a] \in Int
ASSUME RequestAssumption  ==
    \A r \in Requests : /\ r = [key |-> r.key, body |-> r.body]
                        /\ r.key \in Keys \cup {NoKey}
                        /\ r.body.op \in {"post", "reverse"}
                        /\ r.body.op = "reverse" => r.body.target \in Nat \ {0}
                        /\ r.body.op = "post" =>
                              /\ r.body.amount \in Int
                              /\ r.body.split \in Seq([role : STRING, minor : Int])

VARIABLES
    keys,       \* idempotency_keys: completed rows [key, body, txn]
    txns,       \* transactions with their entries: a txn id is an index
    reversed,   \* ids of the transactions whose status is 'reversed'
    outbox,     \* outbox rows [id, type, txn, partition]
    signals,    \* number of decline signals recorded
    snapshots,  \* balance_snapshots rows [account, upTo, balance, seen]
    entrySeq,   \* the BIGSERIAL of entries
    outboxSeq,  \* the BIGSERIAL of outbox
    pc,         \* thread -> the next statement of its handler
    req,        \* thread -> the request it serves
    todo,       \* thread -> accounts it still has to lock, in order
    rows,       \* thread -> entry rows inserted and not committed
    event,      \* thread -> outbox id inserted and not committed, 0 if none
    reply,      \* thread -> the txn id to answer, 0 for an error
    forUpdate,  \* process -> accounts it holds FOR UPDATE
    keyShare,   \* process -> accounts it holds FOR KEY SHARE
    snapPc,     \* the snapshot job: idle, run, wait
    snapTodo,   \* stale accounts it has not folded yet
    snapRows,   \* snapshot rows inserted and not committed
    sent,       \* how many requests clients sent, retries included
    answers     \* successful responses clients received: [req, txn]

tables  == <<keys, txns, reversed, outbox>>
serials == <<entrySeq, outboxSeq>>
locks   == <<forUpdate, keyShare>>
work    == <<todo, rows, event>>
snapVars == <<snapPc, snapTodo, snapRows, snapshots>>
vars == <<tables, serials, locks, work, snapVars, signals, pc, req, reply, sent, answers>>

Procs == Threads \cup {Snapshotter}

Key(t) == req[t].key
Body(t) == req[t].body
IsReversal(t) == Body(t).op = "reverse"

\* The states of a thread whose database transaction is open past the claim.
InTransaction == {"build", "lock", "check", "insert", "share", "emit", "commit"}
-----------------------------------------------------------------------------
(* Committed data.                                                          *)

\* The entries table; an entry is named by its transaction and its line.
Entries == UNION {{i} \X DOMAIN txns[i].rows : i \in DOMAIN txns}
EntryAt(p) == txns[p[1]].rows[p[2]]

RowsOf(a, after) == {p \in Entries : EntryAt(p).account = a /\ EntryAt(p).id > after}

\* What the entries of one transaction with an id above after add to a.
MovedAfter(a, after, entries) ==
    Total([n \in DOMAIN entries |-> IF entries[n].account = a /\ entries[n].id > after
                                    THEN Signed(AccountType, entries[n]) ELSE 0])

SumAfter(a, after) == Total([i \in DOMAIN txns |-> MovedAfter(a, after, txns[i].rows)])

SnapshotsOf(a) == {s \in snapshots : s.account = a}

\* The newest snapshot of an account; upTo 0 and balance 0 when there is none.
LatestSnapshot(a) ==
    IF SnapshotsOf(a) = {} THEN [account |-> a, upTo |-> 0, balance |-> 0, seen |-> 0]
    ELSE CHOOSE s \in SnapshotsOf(a) : \A o \in SnapshotsOf(a) : o.upTo <= s.upTo

\* Mutant: the tail of the balance starts at the cursor, not after it.
BalanceInclusive(a) == LET s == LatestSnapshot(a)
                       IN  s.balance + SumAfter(a, s.upTo - 1)

\* AccountRepository.balance: the newest snapshot plus the entries after it.
Balance(a) == LET s == LatestSnapshot(a)
              IN  s.balance + SumAfter(a, s.upTo)

\* What reconcile recomputes from the entries alone.
TrueBalance(a) == SumAfter(a, 0)

\* The account the blocking screen looks at, in its role's order of preference.
ScreenedRole(body) == IF "funding" \in DOMAIN body.accounts THEN "funding" ELSE "source"
IsScreened(body) == {"funding", "source"} \cap DOMAIN body.accounts # {}

Credits(a) == {p \in RowsOf(a, 0) : EntryAt(p).direction = "credit"}

SmallCredits(a) == \A p \in Credits(a) : EntryAt(p).amount < SmallAmount

\* Mutant: the velocity limit is off by one.
BlockedLate(body) ==
    /\ IsScreened(body)
    /\ LET a == body.accounts[ScreenedRole(body)]
       IN  Cardinality(Credits(a)) > VelocityLimit + 1 /\ SmallCredits(a)

\* velocity_probe and the rule card_testing_block; every posting of the model
\* falls in the same hour.
Blocked(body) ==
    /\ IsScreened(body)
    /\ LET a == body.accounts[ScreenedRole(body)]
       IN  Cardinality(Credits(a)) > VelocityLimit /\ SmallCredits(a)

\* The checks of post_transaction before the screen: the accounts exist, are in
\* the posting's currency, and a rule builds a balanced transaction from them.
ValidPosting(body) ==
    /\ \A role \in DOMAIN body.accounts :
          /\ body.accounts[role] \in Accounts
          /\ Currency[body.accounts[role]] = body.currency
    /\ Buildable(body)

AccountsOf(legs) == [i \in DOMAIN legs |-> legs[i].account]

DeltaOf(a, legs) ==
    LET deltas == Deltas(AccountType, legs)
    IN  deltas[CHOOSE i \in DOMAIN deltas : deltas[i].account = a].delta

\* _check_floors passes over accounts without a floor and those not decreased.
NeedsFloorCheck(a, legs) == Floor[a] # NoFloor /\ DeltaOf(a, legs) < 0

\* The legs a thread inserts: its posting's, or the mirror of its original's.
LegsToInsert(t) == IF IsReversal(t) THEN Reversal(txns[Body(t).target].rows)
                   ELSE Legs(Body(t))
-----------------------------------------------------------------------------
(* Locks and waiting.                                                       *)

\* The uncommitted idempotency row of k: inserted by claim, gone when its
\* transaction ends.
HoldsKey(t, k) == pc[t] \in InTransaction /\ Key(t) = k

\* The uncommitted entry of transactions_reverses_idx for an original x.
HoldsReversal(t, x) ==
    pc[t] \in {"share", "emit", "commit"} /\ IsReversal(t) /\ Body(t).target = x

ReversedInLedger(x) == \E i \in DOMAIN txns : txns[i].reverses = x

UpdateBlockers(p, a) == {q \in Procs \ {p} : a \in forUpdate[q] \cup keyShare[q]}

\* Mutant: accounts.lock says FOR NO KEY UPDATE, which a foreign key passes.
ShareBlockersNoKeyUpdate(p, a) == {}

ShareBlockers(p, a) == {q \in Procs \ {p} : a \in forUpdate[q]}

\* The account whose snapshot row waits for its foreign key.
SnapWaiting == {s.account : s \in snapRows} \ keyShare[Snapshotter]

ThreadWaitsFor(t) ==
    CASE pc[t] = "claim"  -> {u \in Threads \ {t} : HoldsKey(u, Key(t))}
      [] pc[t] = "lock"   -> IF NeedsFloorCheck(Head(todo[t]), Legs(Body(t)))
                             THEN UpdateBlockers(t, Head(todo[t])) ELSE {}
      [] pc[t] = "insert" -> IF IsReversal(t)
                             THEN {u \in Threads \ {t} : HoldsReversal(u, Body(t).target)}
                             ELSE {}
      [] pc[t] = "share"  -> ShareBlockers(t, Head(todo[t]))
      [] OTHER            -> {}

SnapWaitsFor == IF snapPc = "wait"
                THEN UNION {ShareBlockers(Snapshotter, a) : a \in SnapWaiting} ELSE {}

WaitsFor(p) == IF p = Snapshotter THEN SnapWaitsFor ELSE ThreadWaitsFor(p)

\* A cycle of the wait-for graph: everyone in it waits for someone in it, and no
\* smaller set has that property.
Stuck(C) == C # {} /\ \A p \in C : WaitsFor(p) \cap C # {}
Deadlocked(p) == \E C \in SUBSET Procs : /\ p \in C /\ Stuck(C)
                                         /\ \A D \in SUBSET C : Stuck(D) => D = C
-----------------------------------------------------------------------------
(* How a transaction ends.                                                  *)

\* Rollback: locks and uncommitted rows are gone.
Release(t) ==
    /\ forUpdate' = [forUpdate EXCEPT ![t] = {}]
    /\ keyShare'  = [keyShare EXCEPT ![t] = {}]
    /\ todo'      = [todo EXCEPT ![t] = <<>>]
    /\ rows'      = [rows EXCEPT ![t] = <<>>]
    /\ event'     = [event EXCEPT ![t] = 0]

\* Mutant: unit_of_work gives the connection back without a rollback.
RollBackKeepingLocks(t, next) ==
    /\ pc'    = [pc EXCEPT ![t] = next]
    /\ reply' = [reply EXCEPT ![t] = 0]
    /\ UNCHANGED <<tables, serials, locks, work, snapVars, signals, sent, answers>>

\* An exception leaves unit_of_work: rollback, then pc says how it is answered.
RollBack(t, next) ==
    /\ Release(t)
    /\ pc'    = [pc EXCEPT ![t] = next]
    /\ reply' = [reply EXCEPT ![t] = 0]
    /\ UNCHANGED <<tables, serials, snapVars, signals, sent, answers>>

Fail(t) == RollBack(t, "respond") /\ UNCHANGED req

Goto(t, next) ==
    /\ pc' = [pc EXCEPT ![t] = next]
    /\ UNCHANGED <<tables, snapVars, signals, req, reply, sent, answers>>
-----------------------------------------------------------------------------
(* The client and the idempotency key.                                      *)

\* A client sends a request, for the first time or again: it may retry after
\* an error, a lost response or a timeout of its own.
Send(t, r) ==
    /\ pc[t] = "idle"
    /\ sent < MaxSends
    /\ sent' = sent + 1
    /\ req'  = [req EXCEPT ![t] = r]
    /\ pc'   = [pc EXCEPT ![t] = IF r.key = NoKey THEN "build" ELSE "claim"]
    /\ UNCHANGED <<tables, serials, locks, work, snapVars, signals, reply, answers>>

\* Mutant: the key is looked up and then inserted, without a unique index.
ClaimUnindexed(t) ==
    /\ pc[t] = "claim"
    /\ \A row \in keys : row.key # Key(t)
    /\ Goto(t, "build")
    /\ UNCHANGED <<serials, locks, work>>

\* INSERT ... ON CONFLICT DO NOTHING returned a row.
Claim(t) ==
    /\ pc[t] = "claim"
    /\ \A row \in keys : row.key # Key(t)
    /\ ThreadWaitsFor(t) = {}
    /\ Goto(t, "build")
    /\ UNCHANGED <<serials, locks, work>>

\* The key's row is completed by the same request: its response is replayed.
Replay(t) ==
    /\ pc[t] = "claim"
    /\ \E row \in keys : /\ row.key = Key(t)
                         /\ row.body = Body(t)
                         /\ reply' = [reply EXCEPT ![t] = row.txn]
    /\ pc' = [pc EXCEPT ![t] = "respond"]
    /\ UNCHANGED <<tables, serials, locks, work, snapVars, signals, req, sent, answers>>

\* The key's row is completed by another request: 409, the client's bug.
RefuseKeyReuse(t) ==
    /\ pc[t] = "claim"
    /\ \E row \in keys : row.key = Key(t) /\ row.body # Body(t)
    /\ Fail(t)
-----------------------------------------------------------------------------
(* post_transaction and reverse_transaction.                                *)

RejectPosting(t) ==
    /\ pc[t] = "build" /\ ~IsReversal(t)
    /\ ~ValidPosting(Body(t))
    /\ Fail(t)

\* _screen raises TransactionDeclined; the handler records it after rollback.
DeclinePosting(t) ==
    /\ pc[t] = "build" /\ ~IsReversal(t)
    /\ ValidPosting(Body(t))
    /\ Blocked(Body(t))
    /\ RollBack(t, "decline") /\ UNCHANGED req

\* The screen reads committed entries and takes no lock.  The loop of
\* _check_floors visits an account once; here one with two legs is visited twice,
\* and its balance, frozen by its lock, gives the same answer.
BuildPosting(t) ==
    /\ pc[t] = "build" /\ ~IsReversal(t)
    /\ ValidPosting(Body(t))
    /\ ~Blocked(Body(t))
    /\ todo' = [todo EXCEPT ![t] = AccountsOf(Legs(Body(t)))]
    /\ Goto(t, "lock")
    /\ UNCHANGED <<serials, locks, rows, event>>

\* The loop of _check_floors goes on to its next account, or ends.
NextFloor(t) ==
    /\ todo' = [todo EXCEPT ![t] = Tail(@)]
    /\ Goto(t, IF Tail(todo[t]) = <<>> THEN "insert" ELSE "lock")
    /\ UNCHANGED <<serials, locks, rows, event>>

SkipFloor(t) ==
    /\ pc[t] = "lock"
    /\ ~NeedsFloorCheck(Head(todo[t]), Legs(Body(t)))
    /\ NextFloor(t)

\* Mutant: the account is read without FOR UPDATE.
LockAccountPlain(t) ==
    /\ pc[t] = "lock"
    /\ NeedsFloorCheck(Head(todo[t]), Legs(Body(t)))
    /\ Goto(t, "check")
    /\ UNCHANGED <<serials, locks, work>>

\* accounts.lock: SELECT ... FOR UPDATE.
LockAccount(t) ==
    /\ pc[t] = "lock"
    /\ NeedsFloorCheck(Head(todo[t]), Legs(Body(t)))
    /\ ThreadWaitsFor(t) = {}
    /\ forUpdate' = [forUpdate EXCEPT ![t] = @ \cup {Head(todo[t])}]
    /\ Goto(t, "check")
    /\ UNCHANGED <<serials, keyShare, work>>

BelowFloor(t) == LET a == Head(todo[t])
                 IN  Balance(a) + DeltaOf(a, Legs(Body(t))) < Floor[a]

\* InsufficientFunds.
RefuseFloor(t) == pc[t] = "check" /\ BelowFloor(t) /\ Fail(t)

PassFloor(t) == pc[t] = "check" /\ ~BelowFloor(t) /\ NextFloor(t)

\* No such original, or its status says it was reversed before.
RejectReversal(t) ==
    /\ pc[t] = "build" /\ IsReversal(t)
    /\ Body(t).target \notin DOMAIN txns \/ Body(t).target \in reversed
    /\ Fail(t)

\* The original is read into a JournalTransaction, without its reverses_id.
ReadOriginal(t) ==
    /\ pc[t] = "build" /\ IsReversal(t)
    /\ Body(t).target \in DOMAIN txns \ reversed
    /\ Goto(t, "insert")
    /\ UNCHANGED <<serials, locks, work>>

\* A reversal of the same original committed meanwhile: UniqueViolation, 500.
RefuseSecondReversal(t) ==
    /\ pc[t] = "insert" /\ IsReversal(t)
    /\ ReversedInLedger(Body(t).target)
    /\ Fail(t)

\* Mutant: transactions_reverses_idx is not unique.
InsertRowsUnindexed(t) ==
    /\ pc[t] = "insert"
    /\ LET legs == LegsToInsert(t)
       IN  /\ rows' = [rows EXCEPT ![t] =
                 [i \in DOMAIN legs |->
                     [id |-> entrySeq + i, account |-> legs[i].account,
                      direction |-> legs[i].direction, amount |-> legs[i].amount,
                      currency |-> legs[i].currency]]]
           /\ entrySeq' = entrySeq + Len(legs)
           /\ todo' = [todo EXCEPT ![t] = AccountsOf(legs)]
    /\ Goto(t, "share")
    /\ UNCHANGED <<outboxSeq, locks, event>>

\* INSERT INTO transactions, then the multi-row INSERT INTO entries: the ids
\* are drawn first, the foreign keys to accounts are checked after.
InsertRows(t) ==
    /\ pc[t] = "insert"
    /\ IsReversal(t) => ~ReversedInLedger(Body(t).target)
    /\ ThreadWaitsFor(t) = {}
    /\ LET legs == LegsToInsert(t)
       IN  /\ rows' = [rows EXCEPT ![t] =
                 [i \in DOMAIN legs |->
                     [id |-> entrySeq + i, account |-> legs[i].account,
                      direction |-> legs[i].direction, amount |-> legs[i].amount,
                      currency |-> legs[i].currency]]]
           /\ entrySeq' = entrySeq + Len(legs)
           /\ todo' = [todo EXCEPT ![t] = AccountsOf(legs)]
    /\ Goto(t, "share")
    /\ UNCHANGED <<outboxSeq, locks, event>>

\* The foreign key of the next entry: FOR KEY SHARE on its account.
ShareAccount(t) ==
    /\ pc[t] = "share"
    /\ ThreadWaitsFor(t) = {}
    /\ keyShare' = [keyShare EXCEPT ![t] = @ \cup {Head(todo[t])}]
    /\ todo' = [todo EXCEPT ![t] = Tail(@)]
    /\ Goto(t, IF Tail(todo[t]) = <<>> THEN "emit" ELSE "share")
    /\ UNCHANGED <<serials, forUpdate, rows, event>>

\* mark_reversed, the outbox row and slot.complete: writes to rows no other
\* open transaction touches.
Emit(t) ==
    /\ pc[t] = "emit"
    /\ outboxSeq' = outboxSeq + 1
    /\ event' = [event EXCEPT ![t] = outboxSeq + 1]
    /\ Goto(t, "commit")
    /\ UNCHANGED <<entrySeq, locks, todo, rows>>

NextTxn == Len(txns) + 1

\* COMMIT: the ledger rows, the status of the original, the event and the
\* completed key become visible together.
Commit(t) ==
    /\ pc[t] = "commit"
    /\ txns' = Append(txns, [req |-> req[t], rows |-> rows[t],
                             reverses |-> IF IsReversal(t) THEN Body(t).target ELSE 0])
    /\ reversed' = reversed \cup (IF IsReversal(t) THEN {Body(t).target} ELSE {})
    /\ outbox' = outbox \cup
          {[id |-> event[t], txn |-> NextTxn, partition |-> PrimaryAccount(rows[t]),
            type |-> IF IsReversal(t) THEN "transaction.reversed" ELSE "transaction.created"]}
    /\ keys' = keys \cup (IF Key(t) = NoKey THEN {}
                          ELSE {[key |-> Key(t), body |-> Body(t), txn |-> NextTxn]})
    /\ reply' = [reply EXCEPT ![t] = NextTxn]
    /\ pc' = [pc EXCEPT ![t] = "respond"]
    /\ Release(t)
    /\ UNCHANGED <<serials, snapVars, signals, req, sent, answers>>
-----------------------------------------------------------------------------
(* The end of a request.                                                    *)

\* record_decline in a transaction of its own; a failure to record is logged
\* and swallowed.
RecordDecline(t) ==
    /\ pc[t] = "decline"
    /\ signals' \in {signals, signals + 1}
    /\ pc' = [pc EXCEPT ![t] = "respond"]
    /\ UNCHANGED <<tables, serials, locks, work, snapVars, req, reply, sent, answers>>

Respond(t) ==
    /\ pc[t] = "respond"
    /\ answers' = IF reply[t] = 0 THEN answers
                  ELSE answers \cup {[req |-> req[t], txn |-> reply[t]]}
    /\ pc' = [pc EXCEPT ![t] = "idle"]
    /\ req' = [req EXCEPT ![t] = NoRequest]
    /\ reply' = [reply EXCEPT ![t] = 0]
    /\ UNCHANGED <<tables, serials, locks, work, snapVars, signals, sent>>

\* lock_timeout, which the code sets only for requests with a key: 409 at the
\* claim, 500 later; either way everything rolls back.
LockTimeout(t) == pc[t] # "idle" /\ Key(t) # NoKey /\ ThreadWaitsFor(t) # {} /\ Fail(t)

\* Postgres breaks a deadlock by cancelling one transaction of the cycle.
DeadlockAbort(t) == pc[t] # "idle" /\ Deadlocked(t) /\ Fail(t)

\* The process or its connection dies: the server rolls back what is open and
\* the client gets no response.
Crash(t) ==
    /\ pc[t] # "idle"
    /\ RollBack(t, "idle")
    /\ req' = [req EXCEPT ![t] = NoRequest]
-----------------------------------------------------------------------------
(* The snapshot job.                                                        *)

\* The accounts with a tail of entries after their newest snapshot, of at least
\* the threshold; the join lists none without a tail.
StaleAccounts ==
    {a \in Accounts : LET tail == RowsOf(a, LatestSnapshot(a).upTo)
                      IN  tail # {} /\ Cardinality(tail) >= SnapshotThreshold}

SnapStart ==
    /\ snapPc = "idle"
    /\ Cardinality(snapshots) < MaxSnapshots
    /\ StaleAccounts # {}
    /\ snapPc' = "run" /\ snapTodo' = StaleAccounts
    /\ UNCHANGED <<tables, serials, locks, work, snapRows, snapshots, signals, pc, req, reply, sent, answers>>

\* write_snapshot of one account: everything it can see, up to the highest id.
\* A stale account has an entry above its newest snapshot, so the insert meets
\* no row of the same cursor.  seen is the length of the ledger at that moment;
\* the code stores no such thing, the properties need it.
SnapCompute(a) ==
    /\ snapPc = "run" /\ a \in snapTodo
    /\ snapRows' = snapRows \cup
          {[account |-> a, upTo |-> Max({EntryAt(p).id : p \in RowsOf(a, 0)}),
            balance |-> TrueBalance(a), seen |-> Len(txns)]}
    /\ snapTodo' = snapTodo \ {a}
    /\ snapPc' = "wait"
    /\ UNCHANGED <<tables, serials, locks, work, snapshots, signals, pc, req, reply, sent, answers>>

\* The foreign key of the snapshot row.
SnapShare ==
    /\ snapPc = "wait"
    /\ SnapWaitsFor = {}
    /\ keyShare' = [keyShare EXCEPT ![Snapshotter] = @ \cup SnapWaiting]
    /\ snapPc' = "run"
    /\ UNCHANGED <<tables, serials, forUpdate, work, snapTodo, snapRows, snapshots, signals, pc, req, reply, sent, answers>>

SnapEnd(written) ==
    /\ snapshots' = snapshots \cup written
    /\ snapPc' = "idle" /\ snapTodo' = {} /\ snapRows' = {}
    /\ keyShare' = [keyShare EXCEPT ![Snapshotter] = {}]
    /\ UNCHANGED <<tables, serials, forUpdate, work, signals, pc, req, reply, sent, answers>>

SnapCommit == snapPc = "run" /\ snapTodo = {} /\ SnapEnd(snapRows)

\* The job is chosen as a deadlock victim, or dies.
SnapAbort == snapPc # "idle" /\ SnapEnd({})
-----------------------------------------------------------------------------
Init ==
    /\ keys = {} /\ txns = <<>> /\ reversed = {} /\ outbox = {}
    /\ signals = 0 /\ snapshots = {}
    /\ entrySeq = 0 /\ outboxSeq = 0
    /\ pc = [t \in Threads |-> "idle"]
    /\ req = [t \in Threads |-> NoRequest]
    /\ todo = [t \in Threads |-> <<>>]
    /\ rows = [t \in Threads |-> <<>>]
    /\ event = [t \in Threads |-> 0]
    /\ reply = [t \in Threads |-> 0]
    /\ forUpdate = [p \in Procs |-> {}]
    /\ keyShare = [p \in Procs |-> {}]
    /\ snapPc = "idle" /\ snapTodo = {} /\ snapRows = {}
    /\ sent = 0
    /\ answers = {}

\* What the server does on its own once it has a request.
ServerStep(t) ==
    \/ Claim(t) \/ Replay(t) \/ RefuseKeyReuse(t)
    \/ RejectPosting(t) \/ DeclinePosting(t) \/ BuildPosting(t)
    \/ SkipFloor(t) \/ LockAccount(t) \/ RefuseFloor(t) \/ PassFloor(t)
    \/ RejectReversal(t) \/ ReadOriginal(t) \/ RefuseSecondReversal(t)
    \/ InsertRows(t) \/ ShareAccount(t) \/ Emit(t) \/ Commit(t)
    \/ RecordDecline(t) \/ Respond(t)
    \/ LockTimeout(t) \/ DeadlockAbort(t)

SnapStep == SnapStart \/ (\E a \in Accounts : SnapCompute(a)) \/ SnapShare \/ SnapCommit

Next ==
    \/ \E t \in Threads, r \in Requests : Send(t, r)
    \/ \E t \in Threads : ServerStep(t)
    \/ \E t \in Threads : Crash(t)
    \/ SnapStep
    \/ SnapAbort

Spec == Init /\ [][Next]_vars

\* A thread that can run does run: the handler has no wait but the ones of
\* Postgres, and those end by lock_timeout, the deadlock detector or the end
\* of the transaction waited for.  Clients and crashes are not fair.
FairSpec == Spec /\ \A t \in Threads : WF_vars(ServerStep(t))
-----------------------------------------------------------------------------
(* Properties.                                                              *)

Row == [id : Nat \ {0}, account : Accounts, direction : Directions,
        amount : Nat \ {0}, currency : {Currency[a] : a \in Accounts}]

TypeOK ==
    /\ keys \subseteq [key : Keys, body : Bodies, txn : Nat \ {0}]
    /\ txns \in Seq([req : Requests, rows : Seq(Row), reverses : Nat])
    /\ reversed \subseteq Nat \ {0}
    /\ \A e \in outbox : e.id \in Nat \ {0} /\ e.txn \in Nat \ {0}
    /\ signals \in Nat /\ entrySeq \in Nat /\ outboxSeq \in Nat
    /\ \A s \in snapshots \cup snapRows : s.account \in Accounts /\ s.seen \in 0 .. Len(txns)
    /\ snapPc \in {"idle", "run", "wait"} /\ snapTodo \subseteq Accounts
    /\ pc \in [Threads -> {"idle", "claim", "decline", "respond"} \cup InTransaction]
    /\ req \in [Threads -> Requests \cup {NoRequest}]
    /\ todo \in [Threads -> Seq(Accounts)]
    /\ rows \in [Threads -> Seq(Row)]
    /\ event \in [Threads -> Nat] /\ reply \in [Threads -> Nat]
    /\ forUpdate \in [Procs -> SUBSET Accounts] /\ keyShare \in [Procs -> SUBSET Accounts]
    /\ sent \in Nat
    /\ answers \subseteq [req : Requests, txn : Nat \ {0}]

\* However often a request is sent, concurrently or after a crash or a lost
\* response, the work under one idempotency key is done at most once.
OneTxnPerKey ==
    \A i, j \in DOMAIN txns :
       txns[i].req.key = txns[j].req.key /\ txns[i].req.key # NoKey => i = j

\* A success answered to a client, fresh or replayed, names a transaction that
\* is in the ledger and was posted for that very request: never for another
\* body under the same key, never one that was rolled back.
AnswersAreTrue ==
    \A a \in answers : a.txn \in DOMAIN txns /\ txns[a.txn].req = a.req

\* The outbox holds exactly one event per committed transaction, of its type,
\* and no event of a transaction that did not commit (emit, append_outbox).
OneEventPerTxn ==
    /\ \A i \in DOMAIN txns : \E e \in outbox :
          /\ e.txn = i
          /\ (e.type = "transaction.reversed") <=> (txns[i].reverses # 0)
    /\ \A e, f \in outbox : (e.txn = f.txn \/ e.id = f.id) => e = f
    /\ \A e \in outbox : e.txn \in DOMAIN txns

\* Two concurrent reversals both pass the status check; the ledger still holds
\* at most one reversal of a transaction, committed after it, and its status
\* says so exactly when it is there.
ReversedOnce ==
    /\ \A i, j \in DOMAIN txns :
          txns[i].reverses = txns[j].reverses /\ txns[i].reverses # 0 => i = j
    /\ reversed = {x \in DOMAIN txns : ReversedInLedger(x)}
    /\ \A i \in DOMAIN txns : txns[i].reverses < i

\* While a thread holds an account FOR UPDATE, nobody else commits an entry on
\* it: not a posting, and not a reversal or a deposit, which take no such lock
\* and meet it only through the foreign key of their entries.
LockFreezesAccount ==
    [][\A t \in Threads : \A a \in forUpdate[t] \cap forUpdate'[t] :
          \A i \in DOMAIN txns' \ DOMAIN txns : \A n \in DOMAIN txns'[i].rows :
             txns'[i].rows[n].account # a]_vars

\* A posting that lowers a floored account leaves it at or above its floor, at
\* the moment it commits and on the balance recomputed from the entries: the
\* row lock keeps the balance read by _check_floors current until COMMIT.
PostingsKeepFloors ==
    [][\A i \in DOMAIN txns' \ DOMAIN txns : txns'[i].reverses = 0 =>
          \A a \in Accounts :
             Floor[a] # NoFloor /\ BalanceOf(AccountType, a, txns'[i].rows) < 0
                => TrueBalance(a)' >= Floor[a]]_vars

\* The screen lets body spend from a: it looks at a, and body credits a (a refund
\* debits the account it is screened on).
SpendsFrom(body, a) ==
    /\ body.op = "post" /\ IsScreened(body) /\ body.accounts[ScreenedRole(body)] = a
    /\ \E n \in DOMAIN Legs(body) : Legs(body)[n].account = a /\ Legs(body)[n].direction = "credit"

\* The screen reads without a lock, so concurrent postings overshoot its limit,
\* by no more than the number of requests in flight.
VelocityOvershootBounded ==
    \A a \in Accounts : SmallCredits(a) =>
       Cardinality({i \in DOMAIN txns : SpendsFrom(txns[i].req.body, a)})
          <= VelocityLimit + Cardinality(Threads)

MovedUpTo(a, upTo, entries) ==
    Total([n \in DOMAIN entries |-> IF entries[n].account = a /\ entries[n].id <= upTo
                                    THEN Signed(AccountType, entries[n]) ELSE 0])

\* What entries that drew an id at or below the cursor of snapshot s, and were
\* committed after s was computed, add to a.
LateSum(a, s) ==
    Total([i \in DOMAIN txns |->
              IF i <= s.seen THEN 0 ELSE MovedUpTo(a, s.upTo, txns[i].rows)])

\* The cached balance differs from the recomputed one by exactly the entries
\* that drew an id at or below the snapshot's cursor and committed after the
\* snapshot was computed.
CacheErrorIsLateEntries ==
    \A a \in Accounts : Balance(a) + LateSum(a, LatestSnapshot(a)) = TrueBalance(a)

\* Every request a thread takes on ends, whatever it has to wait for: no set of
\* transactions blocks itself for good.
EveryRequestEnds == \A t \in Threads : pc[t] # "idle" ~> pc[t] = "idle"

\* The parts of the inductive invariant.  A thread's variables fit its place in
\* the handler.
FitsPlace(t) ==
    /\ pc[t] # "idle" => req[t] \in Requests
    /\ pc[t] = "claim" => Key(t) # NoKey
    /\ pc[t] = "decline" => reply[t] = 0
    /\ pc[t] \in {"lock", "check", "share"} => todo[t] # <<>>
    /\ pc[t] \in {"share", "emit", "commit"} => rows[t] # <<>>
    /\ pc[t] \in {"lock", "check"} => ~IsReversal(t)
    /\ pc[t] \in {"lock", "check", "insert"} /\ ~IsReversal(t) => ValidPosting(Body(t))
    /\ pc[t] \in {"insert", "share", "emit", "commit"} /\ IsReversal(t)
          => Body(t).target \in DOMAIN txns

ThreadShape == \A t \in Threads : FitsPlace(t)

\* A transaction has entries, and its reverses_id is what its request asks for.
TxnShape ==
    \A i \in DOMAIN txns :
       /\ txns[i].rows # <<>>
       /\ txns[i].reverses =
             IF txns[i].req.body.op = "reverse" THEN txns[i].req.body.target ELSE 0

\* The completed keys are exactly the keys of the ledger, each naming the one
\* transaction of its request.
KeysMatchLedger ==
    /\ \A row \in keys : /\ row.txn \in DOMAIN txns
                         /\ txns[row.txn].req = [key |-> row.key, body |-> row.body]
    /\ \A i \in DOMAIN txns : txns[i].req.key # NoKey =>
          [key |-> txns[i].req.key, body |-> txns[i].req.body, txn |-> i] \in keys
    /\ \A r1, r2 \in keys : r1.key = r2.key => r1 = r2

\* A key claimed by an open transaction is completed by nobody and claimed by
\* nobody else.
ClaimsExclusive ==
    \A t \in Threads : pc[t] \in InTransaction /\ Key(t) # NoKey =>
       /\ \A row \in keys : row.key # Key(t)
       /\ \A u \in Threads \ {t} : ~HoldsKey(u, Key(t))

\* The response a thread is about to send is true.
RepliesAreTrue ==
    \A t \in Threads : pc[t] = "respond" /\ reply[t] # 0 =>
       reply[t] \in DOMAIN txns /\ txns[reply[t]].req = req[t]

\* An open reversal owns the unique index entry of its original.
ReversalsExclusive ==
    \A t \in Threads : pc[t] \in {"share", "emit", "commit"} /\ IsReversal(t) =>
       /\ ~ReversedInLedger(Body(t).target)
       /\ \A u \in Threads \ {t} : ~HoldsReversal(u, Body(t).target)

\* Outbox ids, committed and pending, are distinct and drawn from the sequence.
EventIdsDistinct ==
    /\ \A e \in outbox : e.id <= outboxSeq
    /\ \A t \in Threads : pc[t] = "commit" =>
          /\ event[t] \in 1 .. outboxSeq
          /\ \A e \in outbox : e.id # event[t]
          /\ \A u \in Threads \ {t} : pc[u] = "commit" => event[u] # event[t]

\* A transaction that is past its foreign keys holds the accounts of its entries.
SharesItsAccounts(t) ==
    /\ pc[t] = "share" => \A n \in DOMAIN rows[t] :
          rows[t][n].account \in keyShare[t] \cup {todo[t][m] : m \in DOMAIN todo[t]}
    /\ pc[t] \in {"emit", "commit"} => \A n \in DOMAIN rows[t] :
          rows[t][n].account \in keyShare[t]

\* FOR UPDATE excludes every other lock on the account.
LocksExclusive ==
    /\ \A p, q \in Procs : p # q => forUpdate[p] \cap (forUpdate[q] \cup keyShare[q]) = {}
    /\ \A t \in Threads : SharesItsAccounts(t)

\* What every thread relies on while others run, crash and retry: claims, index
\* entries, row locks and drawn ids are exclusive, and the committed tables
\* agree with one another.
Inv == /\ ThreadShape /\ TxnShape /\ KeysMatchLedger /\ ClaimsExclusive /\ RepliesAreTrue
       /\ AnswersAreTrue /\ ReversedOnce /\ ReversalsExclusive
       /\ OneEventPerTxn /\ EventIdsDistinct /\ LocksExclusive

\* The write path implements the abstract ledger: every step of every thread is
\* one atomic, at-most-once application of a request, one true answer, or
\* nothing at all.
Abstract == INSTANCE ExactlyOnce WITH
    ledger   <- [i \in DOMAIN txns |-> [req |-> txns[i].req, reverses |-> txns[i].reverses]],
    events   <- {e.txn : e \in outbox},
    answered <- answers

ImplementsExactlyOnce == Abstract!Spec
=============================================================================
