---------------------------- MODULE LoadGenProofs ----------------------------
(***************************************************************************)
(* Proofs about LoadGen, for any opening balances, amounts and number of   *)
(* events.  The three beliefs of the passes are compared with the ledger   *)
(* in one inductive invariant; a step is one event, of one of five shapes. *)
(***************************************************************************)
EXTENDS LoadGen, TLAPS

Assets == {"checking", "savings", "investments", "cash"}
Expenses == {"rent", "bills", "shopping", "general", "travel", "losses"}
Sources == {"income", "gains", "interest", "opening"}

\* The shapes of the events that reach the passes.
Shaped(e) ==
    /\ e.amount \in Nat
    /\ \/ e.kind \in {"deposit", "opening_balance"} /\ e.to \in Assets /\ e.from \in Sources
       \/ e.kind = "transfer" /\ e.from = "checking" /\ e.to \in Assets \ {"checking"}
       \/ e.kind = "transfer" /\ e.from = "checking" /\ e.to = "card" /\ e.amount <= owed
       \/ e.kind = "card_purchase" /\ e.to \in Expenses /\ e.from \in Tracked
       \/ e.kind = "refund" /\ e.from = "card" /\ e.to = "shopping"

IsEvent(e) == e = Event(e.kind, e.to, e.from, e.amount)

IInv == /\ TypeOK /\ CheckingNotOverestimated /\ OnlyUnfittedEventsOverdraw
        /\ CardNotOverpaid /\ OwedIsOnTheCard
        /\ recorded > 0 => status \in {"committed", "stopped"}
-----------------------------------------------------------------------------
\* Rounding down does not add.
LEMMA RoundedDown ==
    ASSUME NEW x \in Nat, NEW r \in Nat \ {0}
    PROVE  (x \div r) * r \in Nat /\ (x \div r) * r <= x
<1>1. x \div r \in Nat /\ x % r \in Nat /\ x = r * (x \div r) + (x % r)
  OBVIOUS
<1>2. QED
  BY <1>1

\* A share of what is owed is no more than that.
LEMMA ShareOfOwed ==
    ASSUME NEW o \in Nat, NEW p \in 0 .. 100
    PROVE  (o * p) \div 100 \in Nat /\ (o * p) \div 100 <= o
<1>1. o * p \in Nat /\ o * p <= o * 100
  OBVIOUS
<1>2. QED
  BY <1>1

\* What the pass leaves of an event: an event of a shape, no larger, and from
\* checking only what is there, unless it is rent.
LEMMA FittedIsShaped ==
    ASSUME IInv, NEW e, IsEvent(e), Shaped(e), ~Skipped(e)
    PROVE  LET f == Fitted(e) IN
           /\ IsEvent(f) /\ f.kind = e.kind /\ f.to = e.to
           /\ f.amount \in Nat /\ f.amount <= e.amount
           /\ \/ (f.from = e.from /\ (f.amount = e.amount \/ e.kind = "transfer"))
              \/ (f.from = "card" /\ e.kind = "card_purchase" /\ e.from = "checking" /\ f.amount = e.amount)
           /\ SpendsChecking(f) => f.amount <= checking - Buffer \/ f.to = "rent"
<1> DEFINE f == Fitted(e)
<1>1. /\ checking \in Int /\ Buffer \in Nat /\ e.amount \in Nat
  BY FitAssumption DEF IInv, TypeOK, Shaped
<1>2. CASE ~TooMuch(e)
  <2>1. f = e
    BY <1>2 DEF Fitted
  <2>2. SpendsChecking(e) => e.amount <= checking - Buffer
    BY <1>1, <1>2 DEF TooMuch, Available
  <2>3. QED
    BY <2>1, <2>2, <1>1
<1>3. CASE TooMuch(e) /\ e.kind = "transfer"
  <2>1. f = [e EXCEPT !.amount = Trimmed]
    BY <1>3 DEF Fitted
  <2>2. Trimmed \in Int /\ Trimmed > 0
    BY <1>1, <1>3, RoundedDown, FitAssumption DEF Skipped, Trimmed, Available
  <2>3. Trimmed <= Available
    BY <1>1, <2>2, RoundedDown, FitAssumption DEF Trimmed, Available
  <2>4. Trimmed < e.amount
    BY <2>2, <2>3, <1>1, <1>3 DEF TooMuch, Available
  <2>5. f = Event(e.kind, e.to, e.from, Trimmed)
    BY <2>1 DEF IsEvent, Event
  <2>6. QED
    BY <2>2, <2>3, <2>4, <2>5, <1>1, <1>3 DEF IsEvent, Event, Available
<1>4. CASE TooMuch(e) /\ e.kind # "transfer" /\ e.to = "rent"
  <2>1. f = e
    BY <1>4 DEF Fitted
  <2>2. QED
    BY <2>1, <1>1, <1>4
<1>5. CASE TooMuch(e) /\ e.kind # "transfer" /\ e.to # "rent"
  <2>1. f = [e EXCEPT !.from = "card"]
    BY <1>5 DEF Fitted
  <2>2. f = Event(e.kind, e.to, "card", e.amount)
    BY <2>1 DEF IsEvent, Event
  <2>3. e.kind = "card_purchase" /\ e.from = "checking"
    BY <1>5 DEF TooMuch, SpendsChecking
  <2>4. QED
    BY <2>2, <2>3, <1>1 DEF IsEvent, Event, SpendsChecking
<1>6. QED
  BY <1>2, <1>3, <1>4, <1>5

\* One event through the passes and into the ledger.
LEMMA EmitKeeps ==
    ASSUME IInv, NEW e, IsEvent(e), Shaped(e), Emit(e), held' \in Int, opened' \subseteq Floored
    PROVE  IInv'
<1> DEFINE f == Fitted(e)
<1>t. /\ owed \in Int /\ checking \in Int /\ ledger \in [Tracked -> Int] /\ status = "running"
      /\ posted \in Nat /\ skips \in Nat /\ declines \in Nat /\ recorded = 0
      /\ declinedOnCard \in Nat /\ refundedToCard \in Nat /\ e.amount \in Nat
  BY DEF IInv, TypeOK, Emit, Shaped
<1>k. /\ checking <= ledger["checking"] /\ owed <= ledger["card"] + declinedOnCard
      /\ ledger["card"] + declinedOnCard + refundedToCard >= 0
  BY <1>t DEF IInv, Kept, CheckingNotOverestimated, CardNotOverpaid, OwedIsOnTheCard
<1>o. owed' = Owing(e) /\ checking' = Fitting(e) /\ recorded' = 0
  BY <1>t DEF Emit
<1>v. "checking" \in Tracked /\ "card" \in Tracked /\ "cash" \in Tracked /\ "investments" \in Tracked
  BY DEF Tracked, Floored
<1>1. CASE Skipped(e)
  <2>1. /\ SpendsChecking(e) /\ e.kind = "transfer" /\ e.from = "checking" /\ e.to # "checking"
    BY <1>1 DEF Skipped, TooMuch, SpendsChecking, Shaped, Assets, Expenses
  <2>2. /\ UNCHANGED <<ledger, status, culprit, posted, declines, declinedOnCard, refundedToCard>>
        /\ skips' = skips + 1
    BY <1>1 DEF Emit, posting
  <2>3. checking' = checking
    BY <1>1, <1>o, <2>1, <1>t DEF Fitting, InTo
  <2>4. owed' \in Int /\ owed' <= owed
    BY <1>o, <2>1, <1>t DEF Owing, InTo, OutOf
  <2>5. TypeOK'
    BY <2>2, <2>3, <2>4, <1>o, <1>t DEF IInv, TypeOK
  <2>6. owed' <= ledger["card"] + declinedOnCard
    BY <2>4, <1>k, <1>t, <1>v
  <2>7. QED
    BY <2>2, <2>3, <2>5, <2>6, <1>o, <1>k
       DEF IInv, CheckingNotOverestimated, CardNotOverpaid, OwedIsOnTheCard, OnlyUnfittedEventsOverdraw
<1>2. CASE ~Skipped(e)
  <2>f. /\ IsEvent(f) /\ f.kind = e.kind /\ f.to = e.to
        /\ f.amount \in Nat /\ f.amount <= e.amount
        /\ \/ (f.from = e.from /\ (f.amount = e.amount \/ e.kind = "transfer"))
           \/ (f.from = "card" /\ e.kind = "card_purchase" /\ e.from = "checking" /\ f.amount = e.amount)
        /\ SpendsChecking(f) => f.amount <= checking - Buffer \/ f.to = "rent"
    BY <1>2, FittedIsShaped
  <2>p. Post(f) /\ skips' = skips
    BY <1>2 DEF Emit
  <2> HIDE DEF f
  <2>c. checking' = (IF InTo(e, "checking") # 0 THEN checking + InTo(e, "checking")
                     ELSE IF SpendsChecking(f) THEN checking - f.amount ELSE checking)
    BY <1>o, <1>2 DEF Fitting, f
  <2>q. posted' = posted + 1 /\ (Accept(f) \/ Decline(f) \/ Overdraft(f))
    BY <2>p DEF Post
  \* What the event moves, in numbers.
  <2>1. /\ InTo(f, "card") \in Nat /\ OutOf(f, "card") \in Nat
        /\ InTo(f, "checking") \in Nat /\ OutOf(f, "checking") \in Nat
        /\ Owing(e) \in Int /\ checking' \in Int
    BY <2>f, <2>c, <1>t DEF InTo, OutOf, Owing
  <2>2. Owing(e) <= owed + OutOf(f, "card") - InTo(f, "card")
    BY <2>f, <1>t DEF Owing, InTo, OutOf, Shaped, Assets, Expenses, Sources, Tracked, Floored
  <2>3. checking' <= checking + InTo(f, "checking") - OutOf(f, "checking")
    BY <2>f, <2>c, <1>t DEF InTo, OutOf, SpendsChecking, Shaped, Assets, Expenses, Sources, Tracked, Floored
  <2>4. e.kind \in {"transfer", "card_purchase", "refund"} => checking' <= checking /\ Owing(e) <= owed + OutOf(f, "card")
    BY <2>f, <2>c, <1>t DEF Owing, InTo, OutOf, SpendsChecking, Shaped, Assets, Expenses, Sources, Tracked, Floored
  <2>5. InTo(f, "card") > 0 /\ f.kind # "refund" => InTo(f, "card") <= owed
    BY <2>f, <1>t DEF InTo, Shaped, Assets, Expenses, Sources, Tracked, Floored
  <2>6. CASE Accept(f)
    <3>1. /\ ledger' = Moved(f)
          /\ refundedToCard' = refundedToCard + InTo(f, "card") * (IF f.kind = "refund" THEN 1 ELSE 0)
          /\ UNCHANGED <<status, culprit, declines, declinedOnCard>>
      BY <2>6 DEF Accept
    <3>2. /\ ledger'["checking"] = ledger["checking"] + InTo(f, "checking") - OutOf(f, "checking")
          /\ ledger'["card"] = ledger["card"] + OutOf(f, "card") - InTo(f, "card")
      BY <3>1, <1>v DEF Moved
    <3>3. ledger' \in [Tracked -> Int]
      BY <3>1, <2>f, <1>t DEF Moved, InTo, OutOf
    <3>4. /\ refundedToCard' \in Nat /\ refundedToCard' >= refundedToCard
          /\ f.kind = "refund" => refundedToCard' = refundedToCard + InTo(f, "card")
      BY <3>1, <2>1, <1>t
    <3>5. ledger'["card"] + declinedOnCard' + refundedToCard' >= 0
      BY <3>1, <3>2, <3>4, <2>1, <2>5, <1>t, <1>k, <1>v
    <3>6. checking' <= ledger'["checking"] /\ owed' <= ledger'["card"] + declinedOnCard'
      BY <3>1, <3>2, <2>1, <2>2, <2>3, <1>o, <1>t, <1>k, <1>v
    <3>7. QED
      BY <3>1, <3>3, <3>4, <3>5, <3>6, <2>1, <2>p, <2>q, <1>o, <1>t
         DEF IInv, TypeOK, Kept, CheckingNotOverestimated, CardNotOverpaid, OwedIsOnTheCard,
             OnlyUnfittedEventsOverdraw
  <2>7. CASE Decline(f)
    <3>1. /\ f.kind \in {"transfer", "card_purchase", "refund"} /\ declines' = declines + 1
          /\ declinedOnCard' = declinedOnCard + OutOf(f, "card")
          /\ UNCHANGED <<ledger, status, culprit, refundedToCard>>
      BY <2>7 DEF Decline
    <3>2. checking' <= ledger'["checking"] /\ owed' <= ledger'["card"] + declinedOnCard'
      BY <3>1, <2>f, <2>1, <2>4, <1>o, <1>t, <1>k, <1>v
    <3>3. ledger'["card"] + declinedOnCard' + refundedToCard' >= 0 /\ declinedOnCard' \in Nat
      BY <3>1, <2>1, <1>t, <1>k, <1>v
    <3>4. QED
      BY <3>1, <3>2, <3>3, <2>1, <2>p, <2>q, <1>o, <1>t
         DEF IInv, TypeOK, Kept, CheckingNotOverestimated, CardNotOverpaid, OwedIsOnTheCard,
             OnlyUnfittedEventsOverdraw
  <2>8. CASE Overdraft(f)
    <3>1. /\ Overdraws(f) /\ status' = "aborted" /\ culprit' = f /\ ledger' = Zero
          /\ UNCHANGED <<declines, declinedOnCard, refundedToCard>>
      BY <2>8 DEF Overdraft
    <3>2. PICK a \in Floored : OutOf(f, a) > 0 /\ Moved(f)[a] < 0
      BY <3>1 DEF Overdraws
    <3>3. f.from = a /\ f.kind # "refund" /\ OutOf(f, a) = f.amount /\ f.amount > 0
      BY <3>2, <2>f DEF OutOf
    <3>4. ASSUME a = "checking", f.to # "rent" PROVE FALSE
      <4>1. SpendsChecking(f)
        BY <3>3, <3>4, <2>f DEF SpendsChecking, Shaped, Sources
      <4>2. f.amount <= checking - Buffer
        BY <4>1, <3>4, <2>f
      <4>3. Moved(f)["checking"] = ledger["checking"] + InTo(f, "checking") - OutOf(f, "checking")
        BY <1>v DEF Moved
      <4>4. QED
        BY <4>2, <4>3, <3>2, <3>3, <3>4, <2>1, <1>t, <1>k, <1>v, FitAssumption
    <3>5. f.to = "rent" \/ f.from \in {"cash", "investments"}
      BY <3>2, <3>3, <3>4 DEF Floored
    <3>6. OnlyUnfittedEventsOverdraw'
      BY <3>1, <3>5 DEF OnlyUnfittedEventsOverdraw
    <3>7. Zero \in [Tracked -> Int]
      BY DEF Zero
    <3>8. QED
      BY <3>1, <3>6, <3>7, <2>1, <2>p, <2>q, <1>o, <1>t
         DEF IInv, TypeOK, Kept, CheckingNotOverestimated, CardNotOverpaid, OwedIsOnTheCard
  <2>9. QED
    BY <2>6, <2>7, <2>8, <2>q
<1>3. QED
  BY <1>1, <1>2

\* The initial state.
LEMMA InitOK == Init => IInv
BY DEF Init, IInv, TypeOK, Kept, CheckingNotOverestimated, CardNotOverpaid, OwedIsOnTheCard,
       OnlyUnfittedEventsOverdraw, Zero, Tracked, Floored

\* Opening balances, the events of _timeline and the payments have the shapes.
LEMMA EventsAreShaped ==
    /\ \A a \in Floored : LET e == Event("opening_balance", a, "opening", Opening[a])
                          IN  IsEvent(e) /\ Shaped(e)
    /\ \A e \in Timeline \cup Gains \cup MarketLosses : IsEvent(e) /\ Shaped(e)
    /\ IInv /\ owed > 0 => \A e \in Payments : IsEvent(e) /\ Shaped(e)
<1>1. \A a \in Floored : LET e == Event("opening_balance", a, "opening", Opening[a])
                         IN  IsEvent(e) /\ Shaped(e)
  BY OpeningAssumption DEF Event, IsEvent, Shaped, Assets, Sources, Floored
<1>2. ASSUME NEW e \in Income \cup Interest \cup Gains PROVE IsEvent(e) /\ Shaped(e)
  BY <1>2, AmountsAssumption
     DEF Income, Interest, Gains, Event, IsEvent, Shaped, Assets, Sources
<1>3. ASSUME NEW e \in Contributions \cup SavingsTransfers \cup Withdrawals PROVE IsEvent(e) /\ Shaped(e)
  BY <1>3, AmountsAssumption
     DEF Contributions, SavingsTransfers, Withdrawals, Event, IsEvent, Shaped, Assets
<1>4. ASSUME NEW e \in Rent \cup Subscriptions \cup CashSpending \cup UnresolvedTail \cup CardTesting \cup Outlier
      PROVE  IsEvent(e) /\ Shaped(e)
  BY <1>4, AmountsAssumption
     DEF Rent, Subscriptions, CashSpending, UnresolvedTail, CardTesting, Outlier, Event, IsEvent, Shaped,
         Expenses, Tracked, Floored
<1>5. ASSUME NEW e \in Habits \cup MarketLosses PROVE IsEvent(e) /\ Shaped(e)
  BY <1>5, AmountsAssumption
     DEF Habits, MarketLosses, Event, IsEvent, Shaped, Expenses, Tracked, Floored
<1>6. ASSUME NEW e \in Refunds PROVE IsEvent(e) /\ Shaped(e)
  BY <1>6, AmountsAssumption DEF Refunds, Event, IsEvent, Shaped
<1>7. ASSUME IInv, owed > 0, NEW e \in Payments PROVE IsEvent(e) /\ Shaped(e)
  <2>1. owed \in Nat /\ owed >= 1
    BY <1>7 DEF IInv, TypeOK
  <2>2. PICK n \in {owed} \cup {(owed * p) \div 100 : p \in 45 .. 80} :
           e = Event("transfer", "card", "checking", IF n < 1 THEN 1 ELSE n)
    BY <1>7 DEF Payments
  <2>3. n \in Nat /\ n <= owed
    <3>1. CASE n = owed
      BY <3>1, <2>1
    <3>2. ASSUME NEW p \in 45 .. 80, n = (owed * p) \div 100 PROVE n \in Nat /\ n <= owed
      BY <3>2, <2>1, ShareOfOwed
    <3>3. QED
      BY <2>2, <3>1, <3>2
  <2>4. (IF n < 1 THEN 1 ELSE n) \in Nat /\ (IF n < 1 THEN 1 ELSE n) <= owed
    BY <2>1, <2>3
  <2>5. QED
    BY <2>2, <2>4 DEF Event, IsEvent, Shaped
<1>8. QED
  BY <1>1, <1>2, <1>3, <1>4, <1>5, <1>6, <1>7 DEF Timeline

\* Every step of the generator preserves the inductive invariant.
LEMMA NextKeeps == IInv /\ [Next]_vars => IInv'
<1> SUFFICES ASSUME IInv, [Next]_vars PROVE IInv'
  OBVIOUS
<1>1. ASSUME NEW a \in Floored, OpeningBalance(a) PROVE IInv'
  <2>1. /\ opened' \subseteq Floored /\ held' \in Int
    BY <1>1, OpeningAssumption DEF OpeningBalance, IInv, TypeOK
  <2>2. CASE Opening[a] <= 0
    BY <1>1, <2>1, <2>2
       DEF OpeningBalance, posting, IInv, TypeOK, Kept, CheckingNotOverestimated, CardNotOverpaid, OwedIsOnTheCard,
           OnlyUnfittedEventsOverdraw
  <2>3. CASE ~(Opening[a] <= 0)
    <3>1. PICK e : e = Event("opening_balance", a, "opening", Opening[a])
      OBVIOUS
    <3>2. Emit(e)
      BY <1>1, <2>3, <3>1 DEF OpeningBalance
    <3>3. IsEvent(e) /\ Shaped(e)
      BY <3>1, EventsAreShaped
    <3>4. QED
      BY <3>2, <3>3, <2>1, EmitKeeps
  <2>4. QED
    BY <2>2, <2>3
<1>2. CASE Live
  <2>1. PICK e \in Timeline : Emit(e) /\ held' = held + InTo(e, "investments")
    BY <1>2 DEF Live
  <2>2. IsEvent(e) /\ Shaped(e)
    BY EventsAreShaped
  <2>3. held' \in Int /\ opened' \subseteq Floored
    BY <1>2, <2>1, <2>2 DEF Live, IInv, TypeOK, InTo, Shaped
  <2>4. QED
    BY <2>1, <2>2, <2>3, EmitKeeps
<1>3. CASE Mark
  <2>1. PICK e \in Gains \cup MarketLosses :
           Emit(e) /\ held' = held + InTo(e, "investments") - OutOf(e, "investments")
    BY <1>3 DEF Mark
  <2>2. IsEvent(e) /\ Shaped(e)
    BY EventsAreShaped
  <2>3. held' \in Int /\ opened' \subseteq Floored
    BY <1>3, <2>1, <2>2 DEF Mark, IInv, TypeOK, InTo, OutOf, Shaped
  <2>4. QED
    BY <2>1, <2>2, <2>3, EmitKeeps
<1>4. CASE PayCard
  <2>1. PICK e \in Payments : Emit(e)
    BY <1>4 DEF PayCard
  <2>2. IsEvent(e) /\ Shaped(e)
    BY <1>4, EventsAreShaped DEF PayCard
  <2>3. held' \in Int /\ opened' \subseteq Floored
    BY <1>4 DEF PayCard, IInv, TypeOK
  <2>4. QED
    BY <2>1, <2>2, <2>3, EmitKeeps
<1>5. CASE Commit
  BY <1>5 DEF Commit, IInv, TypeOK, Kept, CheckingNotOverestimated, CardNotOverpaid, OwedIsOnTheCard,
              OnlyUnfittedEventsOverdraw
<1>6. CASE RecordDecline
  BY <1>6 DEF RecordDecline, posting, IInv, TypeOK, Kept, CheckingNotOverestimated, CardNotOverpaid,
              OwedIsOnTheCard, OnlyUnfittedEventsOverdraw
<1>7. CASE Crash
  BY <1>7 DEF Crash, IInv, TypeOK, Kept, CheckingNotOverestimated, CardNotOverpaid, OwedIsOnTheCard,
              OnlyUnfittedEventsOverdraw, Zero
<1>8. CASE UNCHANGED vars
  BY <1>8 DEF vars, posting, IInv, TypeOK, Kept, CheckingNotOverestimated, CardNotOverpaid, OwedIsOnTheCard,
              OnlyUnfittedEventsOverdraw
<1>9. QED
  BY <1>1, <1>2, <1>3, <1>4, <1>5, <1>6, <1>7, <1>8 DEF Next

\* The inductive invariant holds in every reachable state.
LEMMA Invariant == Spec => []IInv
BY InitOK, NextKeeps, PTL DEF Spec

\* The balance _fit_to_checking carries never exceeds what checking holds.
THEOREM PassIsCautious == Spec => []CheckingNotOverestimated
<1>1. IInv => CheckingNotOverestimated
  BY DEF IInv
<1>2. QED
  BY <1>1, Invariant, PTL

\* A run dies only on rent, on cash or on a market loss.
THEOREM FittedEventsAreAccepted == Spec => []OnlyUnfittedEventsOverdraw
<1>1. IInv => OnlyUnfittedEventsOverdraw
  BY DEF IInv
<1>2. QED
  BY <1>1, Invariant, PTL

\* The card payments never exceed the charges, refunds and declines aside.
THEOREM PaymentsAreCovered == Spec => []CardNotOverpaid
<1>1. IInv => CardNotOverpaid
  BY DEF IInv
<1>2. QED
  BY <1>1, Invariant, PTL

\* What _with_card_payoffs takes to be owed is on the card, declined charges aside.
THEOREM OwedIsCharged == Spec => []OwedIsOnTheCard
<1>1. IInv => OwedIsOnTheCard
  BY DEF IInv
<1>2. QED
  BY <1>1, Invariant, PTL

\* Every state of the generator is well typed: balances stay whole numbers of
\* cents and no more declines are recorded than there were.
THEOREM TypeCorrect == Spec => []TypeOK
<1>1. IInv => TypeOK
  BY DEF IInv
<1>2. QED
  BY <1>1, Invariant, PTL

\* Declines are on record only for runs that were kept.
THEOREM DeclinesFollowCommit == Spec => []DeclinesOfKeptRuns
<1>1. IInv => DeclinesOfKeptRuns
  BY DEF IInv, DeclinesOfKeptRuns, Kept
<1>2. QED
  BY <1>1, Invariant, PTL
=============================================================================
