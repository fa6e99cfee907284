------------------------------- MODULE Journal -------------------------------
(***************************************************************************)
(* The domain layer on its own (domain/ledger.py, domain/posting.py): a    *)
(* journal to which transactions are offered, either built by a posting    *)
(* rule or constructed from legs directly, and in which a transaction can  *)
(* be reversed.  No database, no concurrency: this is the in-memory model  *)
(* the services use and the double-entry promises it makes.                *)
(***************************************************************************)
EXTENDS PostingRules

CONSTANTS
    Accounts,       \* account ids
    AccountType,    \* account -> account type
    Postings,       \* posting requests offered to build_transaction
    RawLegs,        \* leg sequences offered to the JournalTransaction constructor
    MaxTxns         \* bound on the length of the journal

\* Every currency in play, and the legs that can be offered in them.
CurrencySet == {p.currency : p \in Postings} \cup UNION {Currencies(legs) : legs \in RawLegs}

Leg == [account : Accounts, direction : Directions, amount : Int, currency : CurrencySet]

ASSUME AccountsAssumption    == IsFiniteSet(Accounts)
ASSUME AccountTypeAssumption == AccountType \in [Accounts -> AccountTypes]
ASSUME RawLegsAssumption     == RawLegs \subseteq Seq(Leg)
ASSUME PostingsAssumption    ==
    \A p \in Postings : /\ p.amount \in Int
                        /\ \A role \in DOMAIN p.accounts : p.accounts[role] \in Accounts
                        /\ p.split \in Seq([role : STRING, minor : Int])

VARIABLES
    journal,        \* the accepted transactions, each [legs, reverses (0: none)]
    offered         \* the legs last offered to the constructor
vars == <<journal, offered>>

Init == journal = <<>> /\ offered = <<>>

\* The JournalTransaction constructor: it returns a transaction or raises.
Construct(legs, reverses) ==
    /\ offered' = legs
    /\ journal' = IF JournalAccepts(legs)
                  THEN Append(journal, [legs |-> legs, reverses |-> reverses])
                  ELSE journal

\* build_transaction: a rule that refuses the request raises before the
\* constructor runs.
BuildTransaction(p) == RuleAccepts(p) /\ Construct(Legs(p), 0)

\* Mutant: the check of reverse is dropped.
ReverseAnyTransaction(i) == Construct(Reversal(journal[i].legs), i)

\* JournalTransaction.reverse: a transaction that is itself a reversal is refused.
ReverseTransaction(i) ==
    /\ journal[i].reverses = 0
    /\ Construct(Reversal(journal[i].legs), i)

Next == /\ Len(journal) < MaxTxns
        /\ \/ \E p \in Postings : BuildTransaction(p)
           \/ \E legs \in RawLegs : Construct(legs, 0)
           \/ \E i \in DOMAIN journal : ReverseTransaction(i)

Spec == Init /\ [][Next]_vars
-----------------------------------------------------------------------------
\* What one transaction, and what the whole journal, does to an account in a
\* currency.
Movement(a, currency, legs) ==
    Total([i \in DOMAIN legs |->
              IF legs[i].account = a /\ legs[i].currency = currency
              THEN Signed(AccountType, legs[i]) ELSE 0])

Balance(a, currency) ==
    Total([i \in DOMAIN journal |-> Movement(a, currency, journal[i].legs)])

\* The accounts that grow on one side, in some order, and their joint balance.
Side(side) == SetToSeq({a \in Accounts : NormalBalance(AccountType[a]) = side})

TotalBalance(side, currency) ==
    Total([k \in DOMAIN Side(side) |-> Balance(Side(side)[k], currency)])

\* The accounting equation: whatever is posted and reversed, in each currency
\* the balances of the debit-normal accounts add up to the balances of the
\* credit-normal ones.  It relates the signs of Account.signed, the legs every
\* posting rule produces and the balance check of the constructor.
AccountingEquation ==
    \A c \in CurrencySet : TotalBalance("debit", c) = TotalBalance("credit", c)

\* The check in Python and the trigger in SQL are two programs for one rule.
\* On two legs or more they agree on every input, so the trigger never rejects
\* at COMMIT what the domain accepted, and rejects all the domain would refuse.
ChecksAgree ==
    Len(offered) >= 2 => (JournalAccepts(offered) <=> TriggerAccepts(offered))

\* The deltas of _check_floors are the change of balance_of that the posting
\* causes, account by account, no account missing and none counted twice.
DeltasMatchBalances ==
    \A i \in DOMAIN journal :
       LET legs   == journal[i].legs
           deltas == Deltas(AccountType, legs)
       IN  /\ \A k, m \in DOMAIN deltas : deltas[k].account = deltas[m].account => k = m
           /\ \A k \in DOMAIN deltas :
                 deltas[k].delta = BalanceOf(AccountType, deltas[k].account, legs)
           /\ \A a \in Accounts : BalanceOf(AccountType, a, legs) # 0 =>
                 \E k \in DOMAIN deltas : deltas[k].account = a

\* A reversal takes back exactly what its original did to every account, and a
\* reversal is never itself reversed.
ReversalCancels ==
    \A i \in DOMAIN journal : journal[i].reverses # 0 =>
       /\ journal[journal[i].reverses].reverses = 0
       /\ \A a \in Accounts :
             BalanceOf(AccountType, a, journal[i].legs)
                = -BalanceOf(AccountType, a, journal[journal[i].reverses].legs)
=============================================================================
