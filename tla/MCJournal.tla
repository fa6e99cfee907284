------------------------------ MODULE MCJournal ------------------------------
(* Four accounts of three types, every simple kind with its own roles, the   *)
(* split purchase with right and wrong splits, and raw leg sequences in two  *)
(* currencies.                                                               *)
EXTENDS Journal

MCAccounts == {"cash", "card", "food", "pay"}

MCAccountType == [cash |-> "asset", card |-> "liability", food |-> "expense", pay |-> "revenue"]

Request(kind, accounts, amount, split) ==
    [kind |-> kind, accounts |-> accounts, amount |-> amount, currency |-> "usd", split |-> split]

Split(a, b) == << [role |-> "expense_1", minor |-> a], [role |-> "expense_2", minor |-> b] >>

TwoCategories(funding) == [funding |-> funding, expense_1 |-> "food", expense_2 |-> "card"]

MCPostings ==
    {Request("card_purchase", [expense |-> "food", funding |-> "card"], 2, <<>>),
     Request("deposit", [destination |-> "cash", income |-> "pay"], 3, <<>>),
     Request("opening_balance", [destination |-> "cash", equity |-> "pay"], 1, <<>>),
     Request("fee", [fee_expense |-> "food", funding |-> "cash"], 1, <<>>),
     Request("refund", [expense |-> "food", funding |-> "card"], 1, <<>>),
     Request("refund", [expense |-> "food"], 1, <<>>)}
    \cup {Request("transfer", [source |-> "cash", destination |-> d], m, <<>>) :
             d \in {"cash", "card"}, m \in {0, 2}}
    \cup {Request("split_purchase", TwoCategories("cash"), 3, s) : s \in {<<>>, Split(1, 2), Split(2, 2), Split(0, 3)}}

RawLeg == {Entry("cash", d, m, c) : d \in Directions, m \in {1, 2}, c \in {"usd", "eur"}}

LegsOn(d) == {e \in RawLeg : e.direction = d}

MCRawLegs == {<<e>> : e \in LegsOn("debit")}
             \cup {<<e, f>> : e \in RawLeg, f \in LegsOn("credit")}
             \cup {<<e, f, g>> : e \in LegsOn("debit"),
                                f \in {x \in LegsOn("debit") : x.amount = 1}, g \in LegsOn("credit")}
=============================================================================
