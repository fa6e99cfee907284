----------------------------- MODULE MCWritePath -----------------------------
(* Instances of WritePath for TLC.  Accounts: cash and save are assets, which *)
(* some runs floor at 0; food is an expense and pay a revenue, both unbounded. *)
EXTENDS WritePath

CONSTANTS t1, t2, k1, k2

TwoThreads == {t1, t2}
Symmetry == Permutations(Threads)

MCAccounts == {"cash", "save", "food", "pay"}
MCAccountType == [cash |-> "asset", save |-> "asset", food |-> "expense", pay |-> "revenue"]
MCCurrency == [a \in MCAccounts |-> "usd"]
NoFloors == [a \in MCAccounts |-> NoFloor]
Overdrafts == [NoFloors EXCEPT !["cash"] = -1, !["save"] = -1]

Post(kind, accounts, amount) ==
    [op |-> "post", kind |-> kind, accounts |-> accounts, amount |-> amount,
     currency |-> "usd", split |-> <<>>]
ReverseOf(x) == [op |-> "reverse", target |-> x]
Ask(key, body) == [key |-> key, body |-> body]

Deposit(to, m) == Post("deposit", [destination |-> to, income |-> "pay"], m)
Purchase(m) == Post("card_purchase", [expense |-> "food", funding |-> "cash"], m)
Transfer(from, to, m) == Post("transfer", [source |-> from, destination |-> to], m)

\* Transfers in opposite directions between floored accounts, one of them under
\* a key that a second body reuses; a second key, used by a request that is
\* refused and by a reversal; and a reversal without a key.
MixedRequests ==
    {Ask(k1, Transfer("cash", "save", 1)), Ask(k1, Transfer("cash", "save", 2)),
     Ask(NoKey, Transfer("save", "cash", 1)), Ask(k2, Transfer("cash", "cash", 1)),
     Ask(k2, ReverseOf(1)), Ask(NoKey, ReverseOf(1))}

\* A purchase is screened, a deposit is not.
SnapshotRequests == {Ask(NoKey, Deposit("cash", 1)), Ask(NoKey, Purchase(1))}
=============================================================================
