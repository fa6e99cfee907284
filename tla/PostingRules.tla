---------------------------- MODULE PostingRules ----------------------------
(***************************************************************************)
(* The pure part of the ledger: the map from a business event to its legs  *)
(* (domain/posting.py), the checks a journal transaction must pass         *)
(* (domain/ledger.py), the deferred trigger that repeats the balance check *)
(* in the database (migrations/001_core.sql) and the signed effect of a    *)
(* leg on an account (domain/ledger.py and application/services.py).       *)
(*                                                                         *)
(* A leg is a record [account, direction, amount, currency].  A posting    *)
(* request is a record                                                     *)
(*   [kind, accounts (role -> account), amount, currency, split]           *)
(* where split is the parsed "split" metadata entry: a sequence of         *)
(* [role, minor] records, empty when the entry is absent.                  *)
(***************************************************************************)
EXTENDS Integers, Sequences, SequencesExt

Directions == {"debit", "credit"}

AccountTypes == {"asset", "liability", "equity", "revenue", "expense"}

Opposite(d) == IF d = "debit" THEN "credit" ELSE "debit"

\* AccountType.normal_balance: the side on which an account of this type grows.
NormalBalance(type) == IF type \in {"asset", "expense"} THEN "debit" ELSE "credit"

Entry(account, direction, amount, currency) ==
    [account |-> account, direction |-> direction, amount |-> amount, currency |-> currency]

\* sum() over a sequence of integers, by its prefix sums.
PrefixSums(s) == LET sum[n \in 0 .. Len(s)] == IF n = 0 THEN 0 ELSE sum[n - 1] + s[n]
                 IN  sum

Total(s) == PrefixSums(s)[Len(s)]

-----------------------------------------------------------------------------
(* The registry of posting rules: (debit role, credit role) of each kind.   *)

Shape == [card_purchase   |-> <<"expense", "funding">>,
          deposit         |-> <<"destination", "income">>,
          opening_balance |-> <<"destination", "equity">>,
          transfer        |-> <<"destination", "source">>,
          fee             |-> <<"fee_expense", "funding">>,
          refund          |-> <<"funding", "expense">>]

\* The roles that start with "expense_"; two of them are enough to split.
SplitRoles == {"expense_1", "expense_2"}

Simple(debit, credit, p) ==
    << Entry(p.accounts[debit], "debit", p.amount, p.currency),
       Entry(p.accounts[credit], "credit", p.amount, p.currency) >>

SplitPurchase(p) ==
    Append([i \in DOMAIN p.split |->
               Entry(p.accounts[p.split[i].role], "debit", p.split[i].minor, p.currency)],
           Entry(p.accounts["funding"], "credit", p.amount, p.currency))

\* PostingRule.build of the rule registered under p.kind.
Legs(p) == IF p.kind = "split_purchase"
           THEN SplitPurchase(p)
           ELSE Simple(Shape[p.kind][1], Shape[p.kind][2], p)

Allocated(split) == Total([i \in DOMAIN split |-> split[i].minor])

\* What the rule itself refuses, before a JournalTransaction is constructed.
RuleAccepts(p) ==
    \/ /\ p.kind \in DOMAIN Shape
       /\ {Shape[p.kind][1], Shape[p.kind][2]} \subseteq DOMAIN p.accounts
       /\ p.kind = "transfer" => p.accounts["source"] # p.accounts["destination"]
    \/ /\ p.kind = "split_purchase"
       /\ SplitRoles \cap DOMAIN p.accounts # {}
       /\ p.split # <<>>
       /\ {p.split[i].role : i \in DOMAIN p.split} \cup {"funding"} \subseteq DOMAIN p.accounts
       /\ Allocated(p.split) = p.amount

-----------------------------------------------------------------------------
(* The double-entry checks.                                                 *)

Currencies(legs) == {legs[i].currency : i \in DOMAIN legs}

\* A debit counts for, a credit against.
DebitSigned(e) == IF e.direction = "debit" THEN e.amount ELSE -e.amount

\* The entry of a currency in the drift dictionary.
Drift(currency, legs) ==
    Total([i \in DOMAIN legs |-> IF legs[i].currency = currency THEN DebitSigned(legs[i]) ELSE 0])

\* Mutant: debits and credits are compared over all currencies together.
JournalAcceptsMixed(legs) ==
    /\ \A i \in DOMAIN legs : legs[i].amount > 0
    /\ Len(legs) >= 2
    /\ Total([i \in DOMAIN legs |-> DebitSigned(legs[i])]) = 0

\* Entry.__post_init__ and JournalTransaction.__post_init__.
JournalAccepts(legs) ==
    /\ \A i \in DOMAIN legs : legs[i].amount > 0
    /\ Len(legs) >= 2
    /\ \A c \in Currencies(legs) : Drift(c, legs) = 0

SideTotal(side, currency, legs) ==
    Total([i \in DOMAIN legs |-> IF legs[i].currency = currency /\ legs[i].direction = side
                                 THEN legs[i].amount ELSE 0])

\* Mutant: the trigger compares one currency only.
TriggerAcceptsMixed(legs) ==
    /\ \A i \in DOMAIN legs : legs[i].amount > 0
    /\ SideTotal("debit", legs[1].currency, legs) = SideTotal("credit", legs[1].currency, legs)

\* assert_transaction_balanced, the deferred constraint trigger, together with
\* the CHECK on entries.amount_minor: the debits and the credits of each
\* currency are totalled apart and compared.
TriggerAccepts(legs) ==
    /\ \A i \in DOMAIN legs : legs[i].amount > 0
    /\ \A c \in Currencies(legs) : SideTotal("debit", c, legs) = SideTotal("credit", c, legs)

\* build_transaction returns a transaction, rather than raising.
Buildable(p) == RuleAccepts(p) /\ JournalAccepts(Legs(p))

\* JournalTransaction.reverse, the legs of the correcting transaction.
Reversal(legs) ==
    [i \in DOMAIN legs |-> Entry(legs[i].account, Opposite(legs[i].direction),
                                 legs[i].amount, legs[i].currency)]

-----------------------------------------------------------------------------
(* The effect of legs on balances.  type is the account type of each account *)

\* Account.signed: positive when the leg moves the account its natural way.
Signed(type, e) ==
    IF e.direction = NormalBalance(type[e.account]) THEN e.amount ELSE -e.amount

\* balance_of, "the definition" every cached balance must agree with.
BalanceOf(type, account, legs) ==
    Total([i \in DOMAIN legs |-> IF legs[i].account = account THEN Signed(type, legs[i]) ELSE 0])

\* Mutant: a second leg on the same account replaces the first.
PutDelta(type, deltas, e) ==
    IF \E i \in DOMAIN deltas : deltas[i].account = e.account
    THEN [i \in DOMAIN deltas |->
             IF deltas[i].account = e.account
             THEN [account |-> e.account, delta |-> Signed(type, e)]
             ELSE deltas[i]]
    ELSE Append(deltas, [account |-> e.account, delta |-> Signed(type, e)])

\* One leg of the loop of _check_floors: the account's delta is increased, or
\* the account enters the dictionary.
AddDelta(type, deltas, e) ==
    IF \E i \in DOMAIN deltas : deltas[i].account = e.account
    THEN [i \in DOMAIN deltas |->
             IF deltas[i].account = e.account
             THEN [account |-> e.account, delta |-> deltas[i].delta + Signed(type, e)]
             ELSE deltas[i]]
    ELSE Append(deltas, [account |-> e.account, delta |-> Signed(type, e)])

\* The dictionary after each leg.
DeltasUpTo(type, legs) ==
    LET upTo[n \in 0 .. Len(legs)] ==
            IF n = 0 THEN <<>> ELSE AddDelta(type, upTo[n - 1], legs[n])
    IN  upTo

\* The dictionary _check_floors builds, in insertion order: one [account, delta]
\* per account of the posting, at the place of the account's first leg.
Deltas(type, legs) == DeltasUpTo(type, legs)[Len(legs)]

\* _primary_account: the first credited account, the event's partition key.
PrimaryAccount(legs) ==
    LET credits == {i \in DOMAIN legs : legs[i].direction = "credit"}
    IN  IF credits # {} THEN legs[Min(credits)].account ELSE legs[1].account
=============================================================================
