# LedgerFlow: TLA+ models and proofs

LedgerFlow is a double-entry ledger behind an HTTP API. A posting, its event
and its idempotency record commit in one Postgres transaction; an outbox relay
feeds an event stream; consumers normalize, score and fan out webhooks. The
modules here model the parts of it that are hard to test: concurrent requests,
retries, crashes, lock waits, and what several correct pieces do together.

Paths are relative to the repository root (`src/ledgerflow/...`,
`migrations/...`).

## Inventory

| Component | State | Operations | What is hard | What makes it correct |
|---|---|---|---|---|
| Domain (`domain/ledger.py`, `domain/posting.py`) | none (values) | posting rules, `JournalTransaction`, `reverse`, `balance_of` | splits, several legs on one account, currencies | every transaction balances per currency; Python check and SQL trigger are the same rule; a reversal cancels |
| Idempotency (`api/idempotency.py`) | `idempotency_keys` | claim, wait, replay, refuse, complete | duplicate in flight, crash after COMMIT, key reuse, lock timeout | one execution per key; a client is only told what happened |
| Services (`application/services.py`) | `transactions`, `entries`, `outbox` | `post_transaction`, `transfer`, `reverse_transaction`, `_screen`, `_check_floors`, `emit`, `record_decline` | check-then-act, opposite lock orders, concurrent reversals | floors, at most one reversal, one event per transaction |
| Balance cache (`repositories.py`, `cli.py snapshot`) | `balance_snapshots` | `balance`, `write_snapshot`, `reconcile` | ids are drawn before they are visible | cached = recomputed |
| Outbox relay (`workers/outbox_relay.py`) | `outbox.published_at` | claim batch (SKIP LOCKED), publish, mark | crash between publish and mark, several relays | nothing lost, order per account |
| Stream (`stream/pg.py`, `stream/kafka.py`) | `stream_messages`, `consumer_offsets` | publish, poll, commit, seek | offsets drawn before they are visible, seek against commit | every message is polled by every group |
| Runner (`workers/runner.py`) | `processed_events`, `dead_letters` | `process_one`, retries, dead letter, replay, redrive | crash between work and offset, duplicates, poison messages | effectively once; nothing stranded |
| Normalizer (`workers/normalizer.py`, `normalization/`) | `normalized_transactions`, topic `transactions.normalized.v1` | `handle`, `resolve` | publishing on another connection before the work commits; the prior depends on what was resolved before | one merchant row per event; duplicates absorbed downstream |
| Risk worker (`workers/risk.py`, `features/compute.py`, `features/rules.py`) | `account_features`, `late_arrivals`, `fraud_signals`, watermark in memory | `handle`, `compute`, `advisory`, `record_late_arrival`, `insert_signal` | four queries on four snapshots; the watermark survives rollbacks and not restarts; replay | nothing dropped silently, windows consistent and reproducible, signals announced, no outliers without history |
| Webhooks (`workers/webhooks.py`) | `webhook_deliveries`, `webhook_endpoints` | fan-out, dispatch, back off, exhaust, disable, retry | crash in a batch, disabled endpoints, schedule edges | at least once, bounded attempts |
| Rate limiter (`api/ratelimit.py`, `deps.context`) | token bucket in Redis, its fallback in Postgres | `check`, `_check_pg`, Retry-After | requests overtake each other, hosts disagree on the time, keys expire, denied requests are charged | capacity plus refill over any stretch of time; who waits is served |
| Reads (`repositories.py` lists and balances, `routers/resources.py`, `ids.py`) | none (cursors at the clients) | pages, entry feed, `balance_at`, `balance_history`; `ulid` | three orders (ULID, entry id, recorded_at) that are not the order of commits | pages skip and repeat nothing; what the feed and "as known at" may miss or add |
| Load generator (`loadgen.py`) | running balances of its passes | `_timeline`, `_with_card_payoffs`, `_fit_to_checking`, `generate` | balances believed before anything is posted or declined | what it fits is accepted; the card is not overpaid |
| Auth, versions, schemas, serializers, money | none or lookups | | | |
| Spark jobs, merchant text matching | derived | | numeric and string algorithms | |
| Benchmark, dashboard, CLI reset/seed | none | | | |

Components interact through Postgres only: API threads share tables and row
locks; the relay reads the outbox rows the threads commit; consumers read the
stream the relay writes; a webhook pass reads the deliveries the fan-out
consumer commits. Redis, when configured, holds nothing but rate limits.
Operators act through the API: replay and redrive change the consumers'
tables, retry and redeliver those of the webhooks.

## Modules

* `PostingRules` — the pure operators: the legs each posting rule builds
  (`Legs`), what a rule refuses (`RuleAccepts`), the two double-entry checks
  (`JournalAccepts` for Python, `TriggerAccepts` for SQL), `Reversal`,
  `BalanceOf`, and the deltas of the floor check (`Deltas`). Sums and deltas
  are recursive functions over the legs, which the proofs can reason about.
* `Journal` — the domain layer alone: transactions are constructed from rules
  or from raw legs, accepted or refused, and reversed.
* `JournalProofs` — the theorems about `Journal`, and the lemmas about sums.
* `ExactlyOnce` — the abstract promise of the write path: a ledger, its events
  and the answers clients got; a request is applied in one step, at most once
  per key.
* `WritePath` — `POST /transactions`, `/transfers` and
  `/transactions/{id}/reversals` as API threads execute them against Postgres,
  with the snapshot job beside them.
* `WritePathProofs` — the theorems about `WritePath`.
* `MCJournal`, `MCWritePath` — instances for TLC.
* `Pipeline` — from the outbox to the consumers: relay processes, the Postgres
  stream, the consumer loop, dead letters, replay and redrive.
* `PipelineProofs` — the theorems about `Pipeline`.
* `Webhooks` — fan-out to deliveries and the dispatch passes that attempt them.
* `WebhooksProofs` — the theorems about `Webhooks`.
* `Scoring` — the handlers of the normalizer and of the risk worker:
  merchants, windows, late arrivals, the advisory rules, signals.
* `RateLimiter` — the token bucket of one API key, as the Lua script and as the
  Postgres statement keep it.
* `Reads` — clients that read more than once while requests commit: pages, the
  entry feed, balances in two times; and the minting of ULIDs.
* `LoadGen` — the passes of the load generator against the ledger they post to.
* `ScoringProofs`, `RateLimiterProofs`, `ReadsProofs`, `LoadGenProofs` — the
  theorems about these four.
* `MCPipeline`, `MCWebhooks`, `MCScoring`, `MCRateLimiter`, `MCReads`,
  `MCLoadGen` — instances for TLC.

`WritePath` ends with a committed outbox row; `Pipeline!AppendOutbox` is that
commit. `Pipeline` gives each event to a group's handler; `Webhooks!Fanout` is
such a handler, run once per event, and `Scoring` opens those of the normalizer
and the risk group. `LoadGen!Decline` is the screen of `WritePath` seen from
outside; `Reads!Begin`, `Insert` and `Commit` are a request of `WritePath`
reduced to the ids and times it draws.

### How WritePath corresponds to the code

A thread's `pc` names the next statement that can wait or that others can see:

| `pc` | Code | Actions |
|---|---|---|
| `idle` | no request | `Send` |
| `claim` | `idempotent`: `INSERT ... ON CONFLICT DO NOTHING` on the key | `Claim`, `Replay`, `RefuseKeyReuse` |
| `build` | account checks, `build_transaction`, `_screen`; or the read of the original | `RejectPosting`, `DeclinePosting`, `BuildPosting`, `RejectReversal`, `ReadOriginal` |
| `lock`, `check` | the loop of `_check_floors` | `SkipFloor`, `LockAccount`, `RefuseFloor`, `PassFloor` |
| `insert` | `transactions.insert`, `entries.insert_many` | `InsertRows`, `RefuseSecondReversal` |
| `share` | the foreign key of each entry | `ShareAccount` |
| `emit` | `mark_reversed`, `emit`, `slot.complete` | `Emit` |
| `commit` | COMMIT | `Commit` |
| `decline` | `record_decline` after the rollback | `RecordDecline` |
| `respond` | the response | `Respond` |

At any of these a thread may crash (`Crash`), be cancelled by the deadlock
detector (`DeadlockAbort`) or, with a key, by `lock_timeout` (`LockTimeout`).
What a transaction wrote and did not commit is in `rows`, `event`, and the
locks in `forUpdate` and `keyShare`; the tables hold committed rows only. A
committed transaction's id is its position in `txns`, so `txns` is in commit
order while entry ids (`entrySeq`) are in the order they were drawn.

Postgres is external. Its lock conflicts and its deadlock detector are
modelled from how the code uses them and are marked external in the map.

Simplifications of `WritePath`, each safe for the properties stated:

* `in_progress` idempotency rows are never visible, because claim and
  completion commit together, and `purge_expired` is called nowhere. Lease
  takeover and key expiry therefore cannot be reached and are left out.
* `_check_floors` visits each account once; `BuildPosting` lists an account
  once per leg. Locking it again and checking the frozen balance again gives
  the same answer.
* The status of an account is folded into its existence: nothing in the code
  closes an account.
* All postings fall in one velocity hour.
* One snapshot job runs at a time.

### How Pipeline corresponds to the code

| State | Code | Actions |
|---|---|---|
| `relayPc = "idle"` | `relay_once` is called again | `ClaimUnpublished` |
| `relayPc = "run"` | its loop over the claimed rows: each publish draws an offset, then commits it | `DrawOffset`, `Publish`, `PublishFails`, `MarkPublished`, `RelayCrash` |
| `pc = "idle"` | `run`: poll | `Poll` |
| `"claim"`, `"handle"`, `"finish"` | `process_one`: `claim_event`, `handle`, COMMIT | `ClaimEvent`, `Handle`, `Finish`, `FailAttempt`, `CommitUnsure`, `FailPoison` |
| `"dead"` | the dead letter, in a transaction of its own | `DeadLetter` |
| `"offset"` | `stream.commit` | `CommitOffset` |
| `replay.pc` | `create_replay`: head, the transaction that clears claims, seek | `ReplayHead`, `ReplayClear`, `ReplaySeek`, `ReplayCrash` |
| | `redrive` | `Redrive` |

An event is the number of its outbox row and becomes visible in any order,
except in the partitions of `Serialized`: those stand for accounts with a floor
and postings that lower them, which hold the account's row lock from before the
id is drawn until COMMIT. `ConsumerCrash` is also how a shutdown ends: the loop
stops after a message and the rest of the batch is forgotten. Only the relay's
publish is split in two steps; the normalizer is the only publisher of its
topic. The offset numbers of all topics come from one sequence, as in
`migrations/002_stream.sql`.

### How Webhooks corresponds to the code

A worker is in `fanout` while `run(WebhookFanout())` loops, and reaches `start`
when that returns (`DrainedOnce` with `--once`, else `Signal`). `dispatch_once`
is `ClaimDue`, one `Attempt` per delivery in any order, `Disable` or
`WaitToDisable` for each exhausted one, and `Commit`; the process then exits
and may be started again. The transaction stays open over all POSTs of a pass,
so `Crash` and `DeadlockAbort` roll back the records of POSTs that were made.
`posts`, `accepted` and `retried` are history for the properties. Time is
abstract: a put-off delivery becomes due some time later (`TimePasses`).

### How Scoring corresponds to the code

| State | Code | Actions |
|---|---|---|
| `posted` | committed transactions with a descriptor; `effective_at` is a constant of each | `PostTransaction` |
| `resolving` | the open transaction of `Normalizer.handle`, its event already published | `Normalize`, `NormalizeCommit`, `NormalizeFails` |
| `pc = "idle"` | `process_one` begins: claim, then the watermark | `Take` |
| `"late"` | `record_late_arrival` | `RecordLate` |
| `"read1"` to `"read4"` | the queries of `compute`: hour, day, baseline, merchants | `Read1`, `Read2`, `Read3`, `Evaluate` |
| `"signal"` | the loop over `advisory(...)`, then COMMIT | `Announce`, `CommitWork` |
| `"advance"` | `stream.commit` | `Advance` |
| any | an exception in the handler; a restart of the process | `Fail`, `Restart` |
| `replaying` | `create_replay`: claims cleared, then the offset moved | `ReplayClear`, `ReplaySeek` |

An aggregate of a window is the set of entries it is taken over, and
`distinct_merchants_7d` the set of the normalizer's rows it counts merchants of
(`week`). A stored row keeps all four with, as history, what had not committed
when each query ran (`unseen`). Only the risk group is replayed. The rules are
compared in whole numbers: with n entries, n times the mean and n squared times
the variance are integers. The thresholds of the instance are small, so that
each of the five rules fires within its three purchases.

### How RateLimiter corresponds to the code

`Arrive` reads `time.time()`; `CheckRedis` is the script, run atomically with
that time; `RedisFails` is the exception that `check` catches, before or after
the script ran; `BeginPg` fixes `now()` and `CheckPg` is the upsert with the
row locked. `Expire` is EXPIRE. Redis hands a script's number back as an
integer, so what `CheckRedis` is told is whole requests (`Truncated`); the
Postgres row is exact. In the instance of the run a token is one tick and
`Truncated` changes nothing; the proofs hold for any `Cost`. Tokens are measured
in the time it takes to refill them, which makes the arithmetic exact. `Measure`
starts a new stretch of time to account for, so the budgets hold over every stretch.

### How Reads corresponds to the code

A request is `Begin` (now() and the ULID), `Insert` (the entry id), `Commit` or
`Rollback`. `ListTransactions` is one page of `TransactionRepository.list`,
`ListEntries` one poll of `EntryRepository.list`, `Show` what the dashboard
displays at an instant. Readers write nothing, so each is checked alone beside
the writers (`reader`), which keeps the state small and loses no behaviour.
Amounts play no role: a balance is the set of transactions it counts.

### How LoadGen corresponds to the code

The passes keep the order of the events, so one step takes an event through
`_with_card_payoffs` (`Owing`), `_fit_to_checking` (`Fitted`, `Fitting`) and
`post_transaction` (`Accept`, `Decline`, `Overdraft`). `owed`, `checking` and
`held` are the balances the passes carry, `ledger` what is posted. Random draws
are choices. `Commit` is the end of the one transaction, `RecordDecline` the
loop after it.

## Runs

| Run | Asks | Bound and why it is enough |
|---|---|---|
| `journal` | Do the rules, the two checks, the deltas and reversals agree? | 3 transactions: a posting, another, and a reversal of either; 2 currencies, up to 3 raw legs |
| `requests` | Is the write path exactly-once, do row locks protect floors, does every request end? | 2 threads, 3 sends: an original, a concurrent duplicate and a retry after a crash; a key reused by another body; a transfer and two competing reversals; opposite transfers that deadlock. Fairness, no symmetry. What the theorems cover needs no larger instance |
| `limits` | How far can the blocking screen be overshot, and what exactly can the balance cache miss? | limit 0, 2 threads, 3 sends: overshoot, then be declined; 2 snapshot rows, one before and one after a late commit |
| `delivery` | Is anything lost, repeated, reordered or stuck behind the outbox? | 2 events of one account, one of them poison, batches of 2, normalizer and risk in a chain, 2 attempts, 2 faults at any steps: a crash inside a batch, a redelivery, and a second fault during recovery. Fairness |
| `operators` | What can operators repeat? | 2 events, one poison, a replay and a redrive, 2 faults |
| `dispatch` | Are attempts bounded, exclusive and recorded whole? | 2 workers, 2 endpoints, 2 delays: a delivery fails, waits, and is exhausted while the other pass does the same; 1 crash, 1 manual retry of each delivery |
| `dispatch_live` | Does every delivery end? | 2 workers, 1 delay, a redelivery, so that both passes hold deliveries of both endpoints and deadlock when they disable them. Fairness |
| `scoring` | Is any event dropped silently, do windows read at different times agree, is a replay reproducible up to what had not committed, can a rule fire without history? | 3 purchases of one account, two within an hour and one late behind either; 2 attempts, failures at the late one, 1 restart or failed normalization, 1 replay, so that an event is late, fails, is redelivered and is replayed in one behaviour |
| `limiter` | Does either bucket ever grant more than its budget, and is waiting for Retry-After enough? | 2 handlers (one obedient client, one not), capacity of 2 requests, skew and lag of a tick, lock waits of 2, 5 ticks: drain, be overtaken, be denied, refill, expire (at 4), and 1 failure of Redis |
| `reads` | Do pages skip or repeat, what does the feed miss, what does "as known at" add? | 2 processes (symmetric), 3 transactions, pages of 1, a random part of 2 values so that it is used up within a millisecond, clocks set back by 1, a restart |
| `loadgen` | How far may the three balances the passes believe in be from the ledger? | 7 posted events: 3 openings and 4 more, e.g. charge, refund, payment, purchase; 1 decline and 1 dropped transfer at any place |
| `relays_skip` | a finding, see below | 2 relays and no faults, the shortest that shows it |

In `requests` the fairness is `WF` on each thread's own steps. A handler has no
waits but those of Postgres, and each of them ends: `lock_timeout`, the
deadlock detector, or the end of the transaction waited for. Clients, crashes
and the snapshot job are not fair.

In `delivery` each relay and each consumer is weakly fair: they are loops that
never stop by themselves, and a process that died is started again. The number
of faults is bounded; operators and clients are not fair. In `dispatch_live`
each worker's own steps, its restart and the passing of time are weakly fair.
What an endpoint answers is not, and nobody has to send a signal. `Scoring`,
`RateLimiter`, `Reads` and `LoadGen` state safety only; that the consumer loop
`Scoring` runs in makes progress is `EveryEventSettles` of `Pipeline`.

Each run checks the properties that say most, and those the provers cannot
reach. What is left to the proofs alone holds for every instance: the types of
the modules other than `Pipeline` and `Webhooks`; `Inv`, `OneTxnPerKey`,
`AnswersAreTrue` and `OneEventPerTxn`, of which `ImplementsExactlyOnce` is the
summary; `ClaimsGuardEffects`; `PagesDescend`; and `CheckingNotOverestimated`,
`OwedIsOnTheCard` and `DeclinesOfKeptRuns` of the load generator.

Deadlock checking is off in the runs because the bounded environment stops
sending; that the system itself does not get stuck is `EveryRequestEnds`,
`EveryEventSettles` and `EveryDeliverySettles`.

## Findings

* `relays_skip` — an offset is drawn before its message is visible, so with two
  publishers a group commits past a message it never saw. With one relay
  `NothingLost` holds.

Other divergences between the code and what its comments say, seen while
modelling and in no run of their own:

Write path

* `reverse_transaction` does not call `_check_floors` (`services.py:380`):
  deposit, spend, reverse the deposit leaves an account with floor 0 below
  zero, against `001_core.sql:62` "0 = may not go negative". Postings alone
  keep the floors (`PostingsKeepFloors`).
* `write_snapshot` folds up to the highest *visible* entry id
  (`repositories.py:215`). An entry with a lower id that commits later is behind
  the cursor and `balance()` never counts it. The run `limits` shows that this
  is the only way in which the cache is wrong (`CacheErrorIsLateEntries`).
* `reverse_transaction` rebuilds the original without its `reverses_id`, so the
  domain's refusal to reverse a reversal (`domain/ledger.py:182`) never fires.

Pipeline and webhooks

* A redriven event is behind the group's offset, and nothing polls it again
  (`resources.py:354`).
* `workers/__init__.py:26` runs `dispatch_once` only after the fan-out loop has
  ended, which without `--once` takes a signal.
* With two relays the second may publish rows behind those the first holds
  before it; `SerializedOrder` then fails. Even one relay publishes an account's
  events out of order when nothing serializes their commits, since outbox ids
  are drawn before COMMIT; that is why the property speaks of `Serialized`.
* `commit` takes the GREATEST offset, so a consumer in the middle of a batch
  undoes the seek of a replay after its claims are gone.
* The normalizer publishes on another connection, before its claim commits. The
  claims of the consumers behind it absorb the duplicates (`EffectivelyOnce`).
* The first entry of the backoff schedule is never used (`WaitsInOrder`).
* One exhausted delivery disables an endpoint that accepts others.
* The Kafka adapter's `commit` ignores the offset it is given (`kafka.py:92`)
  and commits everything consumed; a crash inside a batch then loses the rest
  of it. This is the mutant `CommitBatchOffset`, which breaks `NothingLost`.

Risk

* A replay reaches a running worker whose watermark is already at the newest
  event, so older events become late arrivals again instead of being rebuilt
  (`README.md:101`, "delete its output and replay the stream").
  `LateOnlyBehindDelivered` is therefore stated without replays.
* A replay does not recompute identical features (`compute.py:12`) when
  something committed late, and for `distinct_merchants_7d` (`risk.py:68`) this
  needs no late entry: the normalizer publishes before its COMMIT, so the row of
  the event itself may be missing from the first computation and counted by the
  second. `tests/test_features.py:71` compares three columns of entries and
  drains every worker first. `ReplayIsDeterministic` says exactly how any stored
  column may grow. A replay of the normalizer itself is not modelled; its upsert
  may replace the merchant of a row (`repositories.py:844`) and change the
  merchant count of features computed after it in any way.
* `novel_merchant` (`rules.py:66`) counts the event's own normalized row, so in
  the usual order a first purchase at a resolved merchant has frequency 1 and
  the rule stays silent; it fires when the normalizer's COMMIT comes after the
  query, or when no merchant was resolved.
* `rules.py:60` has no sample-size guard. For a charge its own entry in the
  baseline is guard enough (`OutliersNeedHistory`); a refund or income is not in
  it, and can be an outlier of two entries.
* A signal announced by an attempt that was rolled back names a row that does
  not exist; the row that is kept is announced too (`SignalsAreAnnounced`).
* `spark/jobs.py` parses the Kafka value without its envelope, aggregates
  [start, end) where the online windows are (start, end], counts refunds, and
  overwrites a partition by `window_end` alone.

Reads and limits

* The lists of events and entries always answer `has_more: false`.
* A balance as known at an instant includes transactions that were in flight
  then and had shown nothing yet; `KnownIsWhatWasShown` says that is all.
* On Postgres `now()` is read before the row lock. A request that was overtaken
  and denied is lifted to the floor, which gives tokens away; `PgBudget` counts
  them.
* With a limit below 120 a minute a client denied by the Postgres bucket that
  waits as long as it is told may be denied again, and with 60 or less again and
  again: the floor is a whole request deep and Retry-After counts from zero.
  `RateAssumption` excludes such limits (the default is 600).

Load generator

* Rent, cash spending and market losses are not fitted, and can make the ledger
  refuse an event and the run roll back (`OnlyUnfittedEventsOverdraw`), although
  `tests/test_loadgen.py:89` says "every event the generator emits is one the
  ledger accepts".

## Proofs

`JournalProofs` proves, for every finite chart of accounts, every request and
every sequence of legs, of any length and in any currencies:

* `BooksBalance` — `AccountingEquation`, the accounting equation;
* `TwoChecksAgree` — `ChecksAgree`, the Python check and the SQL trigger are
  one rule;
* `DeltasAreBalances` — `DeltasMatchBalances`, the dictionary of
  `_check_floors` is the change of `balance_of`;
* `ReversalsCancel` — `ReversalCancels`.

What a sum computes is proved by induction over its length. The library's
induction theorems take an operator as a parameter, which the provers cannot
instantiate; `Induction` says the same of a set of numbers (one that holds 0
and with n holds n + 1 holds them all) and follows from the well-foundedness of
`<` on `Nat`. From it: the recursive functions exist and satisfy their
recurrences (`PrefixSumsStep`, `DeltasStep`), totals add, subtract, negate and
grow by what is appended, and summing per account and then over the accounts
is summing over the legs (`SumsByName`). The accounting equation rests on the
last: the legs move the debit-normal and the credit-normal accounts by amounts
that differ by the drift (`SidesMoveByDrift`), and the constructor accepts only
a drift of 0, in each currency. The invariant (`Recorded`) adds that a reversal
stands after its original and mirrors its legs. Assumptions, in `Journal`:
there are finitely many accounts, each of one of the five types, and requests
and legs have the fields the domain classes give them.

`WritePathProofs` proves, for every set of threads, keys, accounts and requests
and for every bound:

* `Invariance`, `TypeCorrect`, `InvHolds` — `TypeOK` and the inductive `Inv`;
* `ExactlyOncePerKey`, `ClientsAreToldTheTruth`, `OutboxMatchesLedger`,
  `AtMostOneReversal` — the safety properties of the runs;
* `RowLockIsEnough` — the action property `LockFreezesAccount`;
* `Refinement` — `WritePath` implements `ExactlyOnce`;
* `CacheErrsByLateEntries` — `CacheErrorIsLateEntries`, by how much the
  snapshot cache is wrong;
* `OvershootIsBounded` — `VelocityOvershootBounded`;
* `FloorsKept` — `PostingsKeepFloors` as long as the cached balances agree with
  the entries (`CacheExact`); `FloorsKeptWithoutSnapshots`, the same without a
  hypothesis on the states when no snapshot is taken, as in the run `requests`;
  and `FloorsKeptUpToLateEntries`: with any snapshots a posting leaves the
  recomputed balance below the floor by no more than what the cache missed.
  That much it can miss: `_check_floors` reads the cached balance.

Assumptions, all in `WritePath` and evaluated by TLC on every run: the
snapshotter is not a thread, `NoKey` is not a key, `NoRequest` is not a
request, requests have the shape the schemas enforce, threads and accounts are
finitely many, accounts have one of the five types, floors and the limits of
the screen are integers.

The argument. None of the properties is inductive alone. That a key is used
once holds because an open claim excludes other claims *and* completed rows
(`ClaimsExclusive`), which in turn needs that completed rows and the ledger
agree (`KeysMatchLedger`). Answers are true because a reply waiting to be sent
is (`RepliesAreTrue`), and because the ledger only grows. One reversal per
original needs that an open reversal owns its index entry
(`ReversalsExclusive`); one event per transaction needs that drawn ids are
distinct (`EventIdsDistinct`); and that a locked account is frozen needs that
past its foreign keys a transaction holds FOR KEY SHARE on all its accounts
(`LocksExclusive`, `SharesItsAccounts`). `Inv` is their conjunction; one lemma
per action shows that it is preserved.

Three more invariants stand on it. `CacheInv`: every id in the tables or in an
open transaction has been drawn, and a snapshot's balance is the sum over the
transactions it saw, whose entries on the account are all at or below its
cursor; the late entries are what is left (`SnapshotOK`). `ScreenHolds`: for an
account of small credits, the committed postings that spend from it and those
that have passed the screen together exceed the limit by at most the number of
threads; a posting passes when the committed ones are within the limit, and one
that commits only moves from the second set to the first. It needs that the
rows inserted are the legs that were screened (`RowsFit`). `FloorsInv`: a
floored account that the posting of a thread lowers is still on its list or is
held FOR UPDATE with a balance that bears the posting. That this stays so until
COMMIT is `HeldIsFrozen`: neither an entry nor a snapshot of a held account can
commit, because both need FOR KEY SHARE; that the posting lowers the cached
balance by just its legs needs that its entries drew ids above the cursor of
the snapshot. The facts about sums are those of `JournalProofs`, instantiated
for the chart of accounts (`Sums`).

`PipelineProofs` proves, for every set of relays, groups, events and bounds:

* `PipelineTypes` — `TypeOK`;
* `ClaimsGuard` — `ClaimsGuardEffects`, the inductive part of the next;
* `ProcessedEffectivelyOnce` — `EffectivelyOnce`;
* `MarkedIsPublished` — the first two conjuncts of `NothingLost`: a row marked
  published is in the stream and so is every derived event whose work
  committed, for any number of relays, replays and redrives;

and for one relay (`SoleRelay`), any crashes, redeliveries and retries:

* `NothingIsLost` — `NothingLost` as long as no operator replayed or redrove
  (`Untouched`);
* `PartitionsStayInOrder` — `SerializedOrder`, with operators too.

`EffectivelyOnce` alone is not inductive: that the next COMMIT stays within the
bound needs that the event being handled is unclaimed, and that an unclaimed
event was worked on only as often as claims were taken away. `OnceInv` is
`ClaimsGuardEffects` with the types of the variables it mentions. Relays and
faults leave it alone (`FrameOnce`, `LeaveOnce`); `CommitWorkOnce` is the step
that counts. For the flow, `FlowInv` follows an event through the relay
(`RelaySide`, `Relayed`), the stream (`Offsets`) and the handler
(`ConsumerSide`, `Derived`). That a group skips nothing needs more: its
batch is what follows its offset, without a gap, and everything up to its
offset is settled (`ReadInOrder`). No message appears behind a reader, because
the one a relay has yet to commit is above all that is visible and no reader is
past it (`LedgerInOrder`). With two relays it does not:
`relays_skip` is the counterexample, so the hypothesis cannot be dropped.
`Untouched` is needed because a redriven event is behind the offset by design.
Order within a partition needs `LedgerInOrder` and that whatever precedes a
claimed row in its partition is marked, sent, or claimed before it
(`ClaimsInOrder`). Assumptions, in `Pipeline`: the bound on events, which are
numbered in commit order, is a natural number (`EventsAssumption`), and the
offsets a replay may start from are integers (`ReplayFromAssumption`).

`WebhooksProofs` proves, for any workers, endpoints, events, schedule and
bounds, `TypeCorrect`, `PostsAreBounded`, `AcceptedOnlyOnce`,
`ExhaustionDisables` and `WaitsFollowSchedule`. A delivery whose outcome is not
committed yet may have one POST and one acceptance more than its row accounts
for (`CountsOK`); a pass that ends by COMMIT moves them into the row, one that
is rolled back into `aborts`. That no two passes have the
same delivery is `Locked` (FOR UPDATE SKIP LOCKED); that the endpoint of an
exhausted delivery stays disabled until an operator enables it needs that
every exhausted outcome of a pass has disabled its endpoint or is the next to do
so (`DisablesFirst`). `EndpointsAssumption`: endpoints are finitely many.

`ScoringProofs` proves, for every set of transactions, windows and bounds,
`TypeCorrect`, `StoredWindowsNest`, `NoSilentDrop`, `EverySignalAnnounced`,
`LateBehindDelivered`, `OutliersHaveHistory` and the action property
`ReplayRecomputes`.
Each property has an invariant that follows the message in hand: what compute
has read lies within the window it reads next, because the ledger only grows
(`Nest`); every event before the message in hand has left a trace, and so has
every claimed one (`Traced`), which is what makes skipping a claimed event safe
also when a replay moves the offset in between; rows are announced before their
transaction commits (`Announced`). A stored row is a function of its key and of
what was posted when it was read, and what is being read knows at least as much
(`Functional`), so computing it again changes nothing else. This covers the hour,
the day and the baseline, whose entries only ever commit, and the merchants of
the week, because the normalizer writes each row once (`WrittenOnce`). What the
worker remembers was in the topic before (`Remembered`). `WindowAssumption` orders the
windows, `AmountAssumption` says that amounts are positive and
`ThresholdAssumption` that the thresholds are integers.

`OutliersHaveHistory` says that with the thresholds of `rules.py` (5 and 4) a
charge is flagged for velocity only over at least 6 baseline entries, and for
its z-score only over at least 18. Two facts about sums carry it: the hour lies
in the baseline and amounts are positive (`TotalGrows`), and no member of a
sample of n lies further than sqrt(n - 1) deviations from the mean
(`OneOutlier`, from the inequality of Cauchy and Schwarz, `SpreadIsNatural`). The
invariant (`Backed`) adds that a charge is in the baseline it is compared with
and that the rules still to be announced fired on it. Below both is
`SubsetInduction` over the subsets of a finite set, from which the sum of
`MapThenSumSet` exists and adds up in any order (`SumExists`,
`SumInAnyOrder`). The arithmetic is exact, where the code divides floats.

`RateLimiterProofs` proves `TypeCorrect`, `RedisKeepsBudget`, `PgKeepsBudget`,
`ExpiryChangesNothing` and `WaitingIsEnough` for any number of handlers and any
capacity. `TypeCorrect` bounds both buckets by their capacity and the Postgres
bucket by minus one request from below. What was granted plus what is left is bounded by the capacity and the
refill since the stretch began (the potential of the bucket), also for a
request stamped earlier than the bucket; a dead key is at least a window old.
`SlackAssumption` and `RateAssumption` say how large delays and clock
differences may be.

`ReadsProofs` proves `TypeCorrect`, `CursorCannotSkip`, `CursorCannotRepeat`,
`FeedIsNearlyComplete`, `KnownMatchesShown`, and the action properties
`UlidsIncrease` and `KnownSettles`, for any number of processes, transactions
and rows per page. The walk needs that everything returned is at or above the
cursor and that a page is closed upwards (`PageIsTop`), the feed that also
uncommitted entries below the cursor are accounted for.

`LoadGenProofs` proves `TypeCorrect`, `PassIsCautious`,
`FittedEventsAreAccepted`, `PaymentsAreCovered`, `OwedIsCharged` and
`DeclinesFollowCommit` for every history. One lemma takes an event of any shape
through the passes and the ledger (`EmitKeeps`); the others show which shapes
there are.

Only model-checked: liveness (`EveryRequestEnds`, `EveryEventSettles`,
`EveryDeliverySettles`), which is out of the provers' reach. Every
invariant and every action property of the runs is stated by a theorem, three of
them under a hypothesis: `SerializedOrder` for one relay, `NothingLost` for one
relay until an operator replays or redrives (with two relays it is false, as the
run `relays_skip` shows), `PostingsKeepFloors` as long as the cached balances
are exact.

## Not modelled, and the plan

Built so far, most important first: the write path and its refinement, the
pipeline, the webhooks, the handlers of the workers, the limiter, reads, the
load generator. What is left, in order:

1. `Delivery` — an abstract specification of the pipeline (an event is taken
   once per group, some time after it was committed) and `Pipeline` shown to
   implement it with one relay.
2. The Kafka adapter as a second stream under the consumer loop of `Pipeline`.

Not modelled: text cleaning and trigram similarity (string algorithms), the
Spark jobs (batch aggregation on an external engine), the key lookup of
authentication and the rewriting of responses by API version (stateless),
serializers, schemas, money (a value type, integers here), the dashboard and its
analytics queries, the benchmark, and the operator commands reset, seed and
serve.
