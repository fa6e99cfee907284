------------------------------- MODULE Reads -------------------------------
(***************************************************************************)
(* What a client that reads more than once may rely on: the pages of GET   *)
(* /v1/transactions, the feed GET /v1/ledger/entries, and                  *)
(* the bitemporal balances, while requests keep committing.                *)
(*                                                                         *)
(* A transaction carries three orders that need not agree: the ULID minted *)
(* by its process (ids.py), the BIGSERIAL of its entry, and recorded_at,   *)
(* which is now() and so the beginning of its database transaction.  All   *)
(* three are fixed before COMMIT makes it visible.                         *)
(*                                                                         *)
(* The encoding of a ULID is positional and of fixed length, so the order  *)
(* of the strings is the order of <<milliseconds, randomness>>, written    *)
(* here as one number.  Readers write nothing: each is checked alone with  *)
(* the writers.                                                            *)
(***************************************************************************)
EXTENDS Integers, FiniteSets, Sequences

CONSTANTS
    Procs,      \* API processes
    MaxTxns,    \* bound: transactions begun
    MaxRandom,  \* 2^80 - 1
    Wanted,     \* transactions the account and category filters let through
    Limit,      \* limit of a page, and of a poll of the feed
    Effective,  \* transaction -> the effective_at its client asks for
    MaxBack,    \* bound: how far the clock of a host may be set back
    MaxClock,   \* bound
    MaxRestarts \* bound: restarts of API processes

Txns == 1 .. MaxTxns
Readers == {"pages", "feed", "audit"}

ASSUME BoundsAssumption ==
    /\ MaxTxns \in Nat /\ MaxRandom \in Nat /\ MaxBack \in Nat /\ MaxClock \in Nat /\ MaxRestarts \in Nat
    /\ Limit \in Nat \ {0} /\ Effective \in [Txns -> Nat] /\ Wanted \subseteq Txns

VARIABLES
    clock,
    lastMs, lastRandom, \* process -> the globals of ids.py
    restarts,
    txns,       \* transaction -> [pc, id, entry, recorded]; effective_at is a constant
    lastEntry,  \* the BIGSERIAL of entries
    reader,     \* which of the readers runs
    walk,       \* [pc, cursor, pages, start]: pages got, what was visible first
    feed,       \* [since, got, passed]: passed is what was in flight below since
    audit       \* [at, shown, open]: what the dashboard showed at time at
clocks == <<clock, lastMs, lastRandom, restarts>>
readers == <<walk, feed, audit>>
vars == <<clocks, txns, lastEntry, reader, readers>>

NoTxn == [pc |-> "new", id |-> 0, entry |-> 0, recorded |-> 0]
Never == -1

\* Rows visible to a query: READ COMMITTED.
Committed == {n \in Txns : txns[n].pc = "committed"}
Open == {n \in Txns : txns[n].pc \in {"begun", "inserted"}}
-----------------------------------------------------------------------------
(* Writers.                                                                 *)

Span == MaxRandom + 1
Ulid(ms, random) == ms * Span + random

\* Mutant: the randomness is redrawn within a millisecond.
MintedRedrawing(p, now, random) == <<IF now > lastMs[p] THEN now ELSE lastMs[p], random>>

\* ids.ulid: the new value of the two globals.
Minted(p, now, random) ==
    CASE now > lastMs[p] -> <<now, random>>
      [] now <= lastMs[p] /\ lastRandom[p] >= MaxRandom -> <<lastMs[p] + 1, random>>
      [] OTHER -> <<lastMs[p], lastRandom[p] + 1>>

\* A request opens its transaction, which fixes now(), and mints the id.
Begin(n, p) ==
    /\ txns[n].pc = "new" /\ \A k \in Txns : k < n => txns[k].pc # "new"
    /\ \E back \in 0 .. MaxBack, random \in 0 .. MaxRandom :
          LET ulid == Minted(p, clock - back, random)
          IN  /\ lastMs' = [lastMs EXCEPT ![p] = ulid[1]]
              /\ lastRandom' = [lastRandom EXCEPT ![p] = ulid[2]]
              /\ txns' = [txns EXCEPT ![n] =
                    [pc |-> "begun", id |-> Ulid(ulid[1], ulid[2]), entry |-> 0, recorded |-> clock]]
    /\ UNCHANGED <<clock, restarts, lastEntry, reader, readers>>

\* transactions.insert and entries.insert_many: the entry's id is drawn.  Two
\* equal ULIDs of two processes are refused by the primary key.
Insert(n) ==
    /\ txns[n].pc = "begun"
    /\ \A k \in Txns \ {n} : txns[k].pc \in {"inserted", "committed"} => txns[k].id # txns[n].id
    /\ lastEntry' = lastEntry + 1
    /\ txns' = [txns EXCEPT ![n].pc = "inserted", ![n].entry = lastEntry + 1]
    /\ UNCHANGED <<clocks, reader, readers>>

Commit(n) ==
    /\ txns[n].pc = "inserted"
    /\ txns' = [txns EXCEPT ![n].pc = "committed"]
    /\ UNCHANGED <<clocks, lastEntry, reader, readers>>

\* The request fails: its ids are drawn and never used.
Rollback(n) ==
    /\ n \in Open
    /\ txns' = [txns EXCEPT ![n] = [NoTxn EXCEPT !.pc = "gone"]]
    /\ UNCHANGED <<clocks, lastEntry, reader, readers>>

\* A process is started again and forgets; Postgres rolls back the requests of
\* the old one, or has their COMMIT already.
Restart(p) ==
    /\ restarts < MaxRestarts
    /\ restarts' = restarts + 1
    /\ lastMs' = [lastMs EXCEPT ![p] = 0] /\ lastRandom' = [lastRandom EXCEPT ![p] = 0]
    /\ UNCHANGED <<clock, txns, lastEntry, reader, readers>>

Tick ==
    /\ clock < MaxClock
    /\ clock' = clock + 1
    /\ UNCHANGED <<lastMs, lastRandom, restarts, txns, lastEntry, reader, readers>>
-----------------------------------------------------------------------------
(* GET /v1/transactions, page after page.                                   *)

\* WHERE the filters hold and id < starting_after (none on the first page).
Rows == {txns[n].id : n \in {k \in Committed \cap Wanted : walk.cursor # Never => txns[k].id < walk.cursor}}

\* ORDER BY id DESC LIMIT: the rows with fewer than limit rows above them.
Page(rows) == {id \in rows : Cardinality({other \in rows : other > id}) < Limit}

\* Mutant: a full page says that there is more only when two more rows follow.
HasMoreLate(rows) == Cardinality(rows \ Page(rows)) > 1

\* One extra row was fetched to answer has_more.
HasMore(rows) == rows \ Page(rows) # {}

\* The client continues after the last row of the page.
Cursor(page) == IF page = {} THEN {walk.cursor} ELSE {id \in page : \A other \in page : id <= other}

\* list_transactions; what is visible when the first page is asked for is noted.
ListTransactions ==
    /\ reader = "pages" /\ walk.pc = "more"
    /\ \E cursor \in Cursor(Page(Rows)) :
          walk' = [pc     |-> IF HasMore(Rows) THEN "more" ELSE "done",
                   cursor |-> cursor,
                   pages  |-> Append(walk.pages, Page(Rows)),
                   start  |-> IF walk.pages = <<>> THEN Rows ELSE walk.start]
    /\ UNCHANGED <<clocks, txns, lastEntry, reader, feed, audit>>
-----------------------------------------------------------------------------
(* GET /v1/ledger/entries?since_entry_id=, again and again.                 *)

After(since) == {txns[n].entry : n \in {k \in Committed \cap Wanted : txns[k].entry > since}}

\* Mutant: the newest entries first.
OldestNewest(entries) == {e \in entries : Cardinality({other \in entries : other > e}) < Limit}

\* ORDER BY id LIMIT.
Oldest(entries) == {e \in entries : Cardinality({other \in entries : other < e}) < Limit}

\* In flight, with an entry before since.
Drawn(since) == {n \in Open : txns[n].pc = "inserted" /\ txns[n].entry < since}

ListEntries ==
    LET got == Oldest(After(feed.since))
    IN  /\ reader = "feed"
        /\ \E since \in got :
              /\ \A other \in got : other <= since
              /\ feed' = [since  |-> since,
                          got    |-> feed.got \cup got,
                          passed |-> feed.passed \cup {txns[n].entry : n \in Drawn(since)}]
        /\ UNCHANGED <<clocks, txns, lastEntry, reader, walk, audit>>
-----------------------------------------------------------------------------
(* Balances in two times.  Amounts do not matter: a balance is told apart   *)
(* by the transactions it counts.                                           *)

\* Mutant: what was known is read off the business time.
BalanceAtEffective(asOf, known) ==
    {n \in Committed : Effective[n] <= asOf /\ Effective[n] <= known}

\* Mutant: the boundary is excluded.
BalanceAtStrict(asOf, known) ==
    {n \in Committed : Effective[n] <= asOf /\ txns[n].recorded < known}

\* balance_at with both filters.
BalanceAt(asOf, known) ==
    {n \in Committed : Effective[n] <= asOf /\ txns[n].recorded <= known}

\* The dashboard shows every account at some instant: the point of
\* balance_history at that instant.
BalanceHistory(at) == {n \in Committed : Effective[n] <= at}

Show ==
    /\ reader = "audit" /\ audit.at = Never
    /\ audit' = [at |-> clock, shown |-> BalanceHistory(clock), open |-> Open]
    /\ UNCHANGED <<clocks, txns, lastEntry, reader, walk, feed>>
-----------------------------------------------------------------------------
Init ==
    /\ clock = MaxBack
    /\ lastMs = [p \in Procs |-> 0] /\ lastRandom = [p \in Procs |-> 0]
    /\ restarts = 0
    /\ txns = [n \in Txns |-> NoTxn] /\ lastEntry = 0
    /\ reader \in Readers
    /\ walk = [pc |-> "more", cursor |-> Never, pages |-> <<>>, start |-> {}]
    /\ feed = [since |-> 0, got |-> {}, passed |-> {}]
    /\ audit = [at |-> Never, shown |-> {}, open |-> {}]

Next ==
    \/ \E n \in Txns, p \in Procs : Begin(n, p)
    \/ \E n \in Txns : Insert(n) \/ Commit(n) \/ Rollback(n)
    \/ \E p \in Procs : Restart(p)
    \/ Tick
    \/ ListTransactions \/ ListEntries \/ Show

Spec == Init /\ [][Next]_vars
-----------------------------------------------------------------------------
(* Properties.                                                              *)

TypeOK ==
    /\ clock \in Nat /\ lastEntry \in Nat /\ reader \in Readers
    /\ lastMs \in [Procs -> Nat] /\ lastRandom \in [Procs -> 0 .. MaxRandom] /\ restarts \in Nat
    /\ txns \in [Txns -> [pc : {"new", "begun", "inserted", "committed", "gone"}, id : Nat,
                          entry : 0 .. lastEntry, recorded : 0 .. clock]]
    /\ walk \in [pc : {"more", "done"}, cursor : Nat \cup {Never}, pages : Seq(SUBSET Nat), start : SUBSET Nat]
    /\ feed \in [since : 0 .. lastEntry, got : SUBSET (1 .. lastEntry), passed : SUBSET (1 .. lastEntry)]
    /\ audit \in [at : Nat \cup {Never}, shown : SUBSET Txns, open : SUBSET Txns]

\* "ids are strictly increasing even under a tight loop" (ids.py): as long as a
\* process runs each id it mints is greater than the one before, whether its
\* host's clock stands still, is set back, or the randomness is used up.
IdsIncrease ==
    [][\A n \in Txns : txns[n].pc = "new" /\ txns'[n].pc = "begun" =>
          \E p \in Procs : /\ txns'[n].id = Ulid(lastMs'[p], lastRandom'[p])
                           /\ txns'[n].id > Ulid(lastMs[p], lastRandom[p])]_vars

\* "A cursor cannot skip" (TransactionRepository.list): a walk that ended has
\* returned every transaction visible when it began, whatever was committed
\* meanwhile, above the cursor or below it.
WalkIsComplete ==
    \A id \in walk.start : walk.pc = "done" \/ id >= walk.cursor =>
       \E i \in DOMAIN walk.pages : id \in walk.pages[i]

\* ... and no transaction twice: every page is below the one before.
PagesDescend ==
    \A i, j \in DOMAIN walk.pages : i < j =>
       \A high \in walk.pages[i], low \in walk.pages[j] : low < high

\* A client that polls the feed with the last id it saw misses an entry only
\* if its transaction was still in flight, with its id drawn, when the client
\* was handed a later one.
FeedMissesOnlyInFlight ==
    \A n \in Committed \cap Wanted :
       txns[n].entry <= feed.since => txns[n].entry \in feed.got \cup feed.passed

\* "reproduce exactly what the dashboard showed on a past date" (balance_at):
\* nothing that was shown is missing, and only transactions in flight at that
\* moment, or begun in the same instant, are added.
KnownIsWhatWasShown ==
    LET answer == BalanceAt(audit.at, audit.at)
    IN  audit.at # Never =>
          /\ audit.shown \subseteq answer
          /\ \A n \in answer \ audit.shown : n \in audit.open \/ txns[n].recorded = audit.at

\* What was known at a time that has passed is settled as soon as the requests
\* of that time are: no later posting, backdated or not, changes the answer.
KnownIsFinal ==
    [][\A at \in 0 .. MaxClock, asOf \in {Effective[n] : n \in Txns} :
          at < clock /\ (\A n \in Open : txns[n].recorded > at) =>
             BalanceAt(asOf, at)' = BalanceAt(asOf, at)]_vars
=============================================================================
