------------------------------- MODULE LoadGen -------------------------------
(***************************************************************************)
(* The synthetic history of loadgen.py.  _timeline makes the events of a   *)
(* person's finances; _with_card_payoffs adds the card payments; the pass  *)
(* _fit_to_checking adapts what checking cannot pay for; generate posts    *)
(* the result to the ledger in one transaction and records the declines    *)
(* afterwards.  Each pass carries a balance of its own, computed before    *)
(* anything is posted, and the properties are about how far those three    *)
(* beliefs may be from the ledger.                                         *)
(*                                                                         *)
(* The passes walk the events in the order of their times and keep it, so  *)
(* one step takes one event through all of them.  Random draws are         *)
(* choices.  The accounts that money never leaves are not tracked.         *)
(***************************************************************************)
EXTENDS Integers

CONSTANTS
    Opening,      \* OPENING: account -> what it was worth on day one
    Paychecks,    \* amounts of income, of gains and of interest
    RentAmount,   \* the rent of this run
    Amounts,      \* amounts of everything else that is bought or moved
    Losses,       \* what the market may take at a mark
    Buffer,       \* BUFFER: the cushion left in checking
    Round,        \* reduced transfers are multiples of this
    Count,        \* count: events that are posted at most
    MaxDeclines,  \* bound: events a blocking rule refuses
    MaxSkips      \* bound: transfers that are dropped

Floored == {"checking", "cash", "investments"}
Tracked == Floored \cup {"card"}

ASSUME OpeningAssumption == Opening \in [Floored -> Nat]
ASSUME AmountsAssumption ==
    Paychecks \subseteq Nat /\ RentAmount \in Nat /\ Amounts \subseteq Nat /\ Losses \subseteq Nat
ASSUME FitAssumption == Buffer \in Nat /\ Round \in Nat \ {0}

VARIABLES
    opened,    \* accounts whose opening balance is posted
    held,      \* _timeline: what it takes the investments to be worth
    owed,      \* _with_card_payoffs: what it takes to be owed on the card
    checking,  \* _fit_to_checking: what it takes checking to hold
    ledger,    \* the balances the posted entries give
    status,    \* running, committed, aborted, stopped
    culprit,   \* the event on which an aborted run died
    posted,    \* events handed to post_transaction
    skips,     \* adapted["transfers_skipped"]
    declines,  \* declined events, kept until the end
    recorded,  \* declines recorded as fraud signals
    declinedOnCard, refundedToCard   \* history: sums of charges and refunds
posting == <<ledger, status, culprit, posted, declines, declinedOnCard, refundedToCard>>
vars == <<opened, held, owed, checking, posting, skips, recorded>>

Zero == [a \in Tracked |-> 0]

\* An event: to names its expense or destination, from the account that funds it.
Event(kind, to, from, amount) == [kind |-> kind, to |-> to, from |-> from, amount |-> amount]

Nothing == Event("none", "none", "none", 0)
-----------------------------------------------------------------------------
(* _timeline: what each of its sections can emit.                           *)

Income == {Event("deposit", "checking", "income", n) : n \in Paychecks}
Rent == {Event("card_purchase", "rent", "checking", RentAmount)}
Contributions == {Event("transfer", "investments", "checking", n) : n \in Amounts}
SavingsTransfers == {Event("transfer", "savings", "checking", n) : n \in Amounts}
Subscriptions == {Event("card_purchase", "bills", "card", n) : n \in Amounts}
Habits == {Event("card_purchase", "shopping", f, n) : f \in {"card", "checking"}, n \in Amounts}
Withdrawals == {Event("transfer", "cash", "checking", n) : n \in Amounts}
CashSpending == {Event("card_purchase", "general", "cash", n) : n \in Amounts}
UnresolvedTail == {Event("card_purchase", "general", "checking", n) : n \in Amounts}
Interest == {Event("deposit", "savings", "interest", n) : n \in Paychecks}
Refunds == {Event("refund", "shopping", "card", n) : n \in Amounts}
CardTesting == {Event("card_purchase", "general", "card", n) : n \in Amounts}
Outlier == {Event("card_purchase", "travel", "card", n) : n \in Amounts}

Timeline == UNION {Income, Rent, Contributions, SavingsTransfers, Subscriptions, Habits,
                   Withdrawals, CashSpending, UnresolvedTail, Interest, Refunds,
                   CardTesting, Outlier}

\* The market moves: a gain is a deposit, a loss a purchase funded by the asset.
Gains == {Event("deposit", "investments", "gains", n) : n \in Paychecks}
MarketLosses == {Event("card_purchase", "losses", "investments", n) :
                    n \in {l \in Losses : l < held}}
-----------------------------------------------------------------------------
(* The passes.                                                              *)

\* The amount of an event that reaches an account less what leaves it.
InTo(e, a) == e.amount * (IF e.kind = "refund" THEN (IF e.from = a THEN 1 ELSE 0)
                                               ELSE (IF e.to = a THEN 1 ELSE 0))
OutOf(e, a) == e.amount * (IF e.kind = "refund" THEN 0 ELSE (IF e.from = a THEN 1 ELSE 0))

\* The balance _with_card_payoffs carries: a charge raises it, a refund or a
\* payment lowers it.
Owing(e) == owed + OutOf(e, "card") - InTo(e, "card")

\* pay: in full, or 45 to 80 percent of it, and never nothing.
Payments ==
    LET amounts == {owed} \cup {(owed * p) \div 100 : p \in 45 .. 80}
    IN  {Event("transfer", "card", "checking", IF n < 1 THEN 1 ELSE n) : n \in amounts}

Available == checking - Buffer

SpendsChecking(e) == e.kind \in {"transfer", "card_purchase"} /\ e.from = "checking"

TooMuch(e) == SpendsChecking(e) /\ e.amount > Available

\* What is there, in round amounts.
Trimmed == IF Available > 0 THEN (Available \div Round) * Round ELSE 0

Skipped(e) == TooMuch(e) /\ e.kind = "transfer" /\ Trimmed <= 0

\* Mutant: no event is adapted.
FittedNever(e) == e

\* _fit_to_checking: a transfer is reduced, a purchase moves to the card, rent
\* is paid whatever is left.
Fitted(e) ==
    IF ~TooMuch(e) THEN e
    ELSE IF e.kind = "transfer" THEN [e EXCEPT !.amount = Trimmed]
    ELSE IF e.to = "rent" THEN e
    ELSE [e EXCEPT !.from = "card"]

\* The balance _fit_to_checking carries.
Fitting(e) ==
    IF InTo(e, "checking") # 0 THEN checking + InTo(e, "checking")
    ELSE IF SpendsChecking(Fitted(e)) /\ ~Skipped(e) THEN checking - Fitted(e).amount
    ELSE checking
-----------------------------------------------------------------------------
(* generate: post_transaction for each event, in one transaction.           *)

\* Purchases raise what is owed on the card and lower the assets.
Moved(e) == [a \in Tracked |-> IF a = "card" THEN ledger[a] + OutOf(e, a) - InTo(e, a)
                                              ELSE ledger[a] + InTo(e, a) - OutOf(e, a)]

Overdraws(e) == \E a \in Floored : OutOf(e, a) > 0 /\ Moved(e)[a] < 0

Accept(e) ==
    /\ ~Overdraws(e)
    /\ ledger' = Moved(e)
    /\ refundedToCard' = refundedToCard + InTo(e, "card") * (IF e.kind = "refund" THEN 1 ELSE 0)
    /\ UNCHANGED <<status, culprit, declines, declinedOnCard>>

\* A blocking rule refuses the event, before its floors are looked at.  Which
\* events it refuses depends on the hour before them (WritePath!Screened).
Decline(e) ==
    /\ e.kind \in {"transfer", "card_purchase", "refund"} /\ declines < MaxDeclines
    /\ declines' = declines + 1
    /\ declinedOnCard' = declinedOnCard + OutOf(e, "card")
    /\ UNCHANGED <<ledger, status, culprit, refundedToCard>>

\* InsufficientFunds leaves the loop, and everything posted rolls back.
Overdraft(e) ==
    /\ Overdraws(e)
    /\ status' = "aborted" /\ culprit' = e /\ ledger' = Zero
    /\ UNCHANGED <<declines, declinedOnCard, refundedToCard>>

Post(e) ==
    /\ posted < Count
    /\ posted' = posted + 1
    /\ Accept(e) \/ Decline(e) \/ Overdraft(e)

\* One event through the passes.  An event that is skipped is never posted.
Emit(e) ==
    /\ status = "running"
    /\ owed' = Owing(e)
    /\ checking' = Fitting(e)
    /\ IF Skipped(e) THEN skips < MaxSkips /\ skips' = skips + 1 /\ UNCHANGED posting
                     ELSE Post(Fitted(e)) /\ UNCHANGED skips
    /\ UNCHANGED recorded

OpeningBalance(a) ==
    /\ a \notin opened
    /\ opened' = opened \cup {a}
    /\ held' = IF a = "investments" THEN Opening[a] ELSE held
    /\ IF Opening[a] <= 0 THEN status = "running" /\ UNCHANGED <<owed, checking, posting, skips, recorded>>
                          ELSE Emit(Event("opening_balance", a, "opening", Opening[a]))

\* Times are drawn to the day and then given an hour, so on the first day some
\* events come before the opening balances.
Early == Income \cup Subscriptions \cup Habits

Live ==
    /\ \E e \in Timeline :
          /\ opened = Floored \/ (opened = {} /\ e \in Early)
          /\ Emit(e) /\ held' = held + InTo(e, "investments")
    /\ UNCHANGED opened

Mark ==
    /\ opened = Floored /\ held > 0
    /\ \E e \in Gains \cup MarketLosses :
          Emit(e) /\ held' = held + InTo(e, "investments") - OutOf(e, "investments")
    /\ UNCHANGED opened

\* Mutant: the payment comes due whether or not anything is owed.
PayCardAnyway ==
    /\ opened = Floored
    /\ \E e \in Payments : Emit(e)
    /\ UNCHANGED <<opened, held>>

\* A statement comes due while something is owed.
PayCard ==
    /\ opened = Floored /\ owed > 0
    /\ \E e \in Payments : Emit(e)
    /\ UNCHANGED <<opened, held>>

\* The events up to now are posted; the transaction commits.
Commit ==
    /\ status = "running" /\ opened = Floored
    /\ status' = "committed"
    /\ UNCHANGED <<opened, held, owed, checking, ledger, culprit, posted, skips, declines, recorded,
                   declinedOnCard, refundedToCard>>

\* record_decline, in a transaction of its own.
RecordDecline ==
    /\ status = "committed" /\ recorded < declines
    /\ recorded' = recorded + 1
    /\ UNCHANGED <<opened, held, owed, checking, posting, skips>>

\* The process dies: an open transaction rolls back, later declines are lost.
Crash ==
    /\ status \in {"running", "committed"}
    /\ status' = IF status = "running" THEN "aborted" ELSE "stopped"
    /\ ledger' = IF status = "running" THEN Zero ELSE ledger
    /\ UNCHANGED <<opened, held, owed, checking, culprit, posted, skips, declines, recorded,
                   declinedOnCard, refundedToCard>>
-----------------------------------------------------------------------------
Init ==
    /\ opened = {} /\ held = 0 /\ owed = 0 /\ checking = 0
    /\ ledger = Zero /\ status = "running" /\ culprit = Nothing
    /\ posted = 0 /\ skips = 0 /\ declines = 0 /\ recorded = 0
    /\ declinedOnCard = 0 /\ refundedToCard = 0

Next ==
    \/ \E a \in Floored : OpeningBalance(a)
    \/ Live \/ Mark \/ PayCard
    \/ Commit \/ RecordDecline \/ Crash

Spec == Init /\ [][Next]_vars
-----------------------------------------------------------------------------
(* Properties.                                                              *)

Kept == status # "aborted"

TypeOK ==
    /\ opened \subseteq Floored
    /\ held \in Int /\ owed \in Int /\ checking \in Int
    /\ ledger \in [Tracked -> Int]
    /\ status \in {"running", "committed", "aborted", "stopped"}
    /\ posted \in Nat /\ skips \in Nat /\ declines \in Nat /\ recorded \in 0 .. declines
    /\ declinedOnCard \in Nat /\ refundedToCard \in Nat

\* _fit_to_checking never believes checking holds more than it does: events
\* declined later only leave more there.
CheckingNotOverestimated == Kept => checking <= ledger["checking"]

\* Which postings the ledger may reject: the pass makes every transfer, card
\* payment and ordinary purchase from checking affordable, so a run can only
\* die on rent, on cash spent faster than it is withdrawn, and on a market
\* loss computed from contributions that were reduced.
OnlyUnfittedEventsOverdraw ==
    culprit # Nothing =>
       \/ culprit.to = "rent"
       \/ culprit.from \in {"cash", "investments"}

\* The card is never paid more than was charged: however purchases move to it,
\* payments shrink and charges are declined after the payments were computed,
\* it ends in credit by no more than its refunds and the declined charges.
CardNotOverpaid == Kept => ledger["card"] + declinedOnCard + refundedToCard >= 0

\* What is owed according to the payments pass is on the card, declined
\* charges aside.
OwedIsOnTheCard == Kept => owed <= ledger["card"] + declinedOnCard

\* A decline is on record only for a run whose postings are in the ledger.
DeclinesOfKeptRuns == recorded > 0 => Kept
=============================================================================
