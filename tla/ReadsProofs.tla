----------------------------- MODULE ReadsProofs -----------------------------
(***************************************************************************)
(* Proofs about Reads, for any number of processes, transactions and rows  *)
(* per page.                                                               *)
(***************************************************************************)
EXTENDS Reads, FiniteSetTheorems, WellFoundedInduction, TLAPS

WantedRows == {txns[n].id : n \in Committed \cap Wanted}

\* What is written: the clock of a host set back is still a time, and no two
\* entries share an id.
LedgerInv ==
    /\ clock >= MaxBack
    /\ \A n \in Txns : txns[n].pc \in {"inserted", "committed"} => txns[n].entry \in 1 .. lastEntry
    /\ \A k, n \in Txns : ( /\ txns[k].pc \in {"inserted", "committed"}
                            /\ txns[n].pc \in {"inserted", "committed"}
                            /\ txns[k].entry = txns[n].entry ) => k = n

\* Everything returned so far is at or above the cursor, and a walk without a
\* cursor has not begun, or found nothing.
WalkInv ==
    /\ walk.cursor = Never => \/ walk.pages = <<>>
                              \/ walk.pc = "done"
    /\ walk.cursor = Never => walk.start = {}
    /\ walk.pages = <<>> => walk.cursor = Never
    /\ \A i \in DOMAIN walk.pages : \A id \in walk.pages[i] : walk.cursor # Never /\ walk.cursor <= id
    /\ walk.start \subseteq WantedRows
    /\ WalkIsComplete
    /\ PagesDescend

\* Not only the committed entries, also those to be committed.
FeedInv ==
    \A n \in Wanted : txns[n].pc \in {"inserted", "committed"} /\ txns[n].entry <= feed.since =>
       txns[n].entry \in feed.got \cup feed.passed

\* Whoever was not there at the time began later.
AuditInv ==
    audit.at # Never =>
       /\ audit.at <= clock
       /\ \A n \in audit.shown : n \in Committed /\ Effective[n] <= audit.at /\ txns[n].recorded <= audit.at
       /\ \A n \in Txns : n \in Committed \cup Open /\ Effective[n] <= audit.at =>
             n \in audit.shown \cup audit.open \/ txns[n].recorded >= audit.at

Row(entries, now) == [pc : {"new", "begun", "inserted", "committed", "gone"}, id : Nat,
                      entry : 0 .. entries, recorded : 0 .. now]

IInv == TypeOK /\ LedgerInv /\ WalkInv /\ FeedInv /\ AuditInv
-----------------------------------------------------------------------------
\* What is above a greater number is above a smaller one.
LEMMA AboveShrinks ==
    ASSUME NEW S \in SUBSET Nat, NEW a \in Nat, NEW b \in Nat, a <= b
    PROVE  /\ {y \in S : y > b} \in SUBSET {y \in S : y > a}
           /\ {y \in S : y < a} \in SUBSET {y \in S : y < b}
<1>1. ASSUME NEW y \in S PROVE /\ y > b => y > a
                               /\ y < a => y < b
  <2>1. y \in Nat
    OBVIOUS
  <2> QED BY <2>1
<1> QED BY <1>1

\* A finite set of numbers has a greatest one: the set of what is above it is
\* minimal.
LEMMA HasGreatest ==
    ASSUME NEW S \in SUBSET Nat, IsFiniteSet(S), S # {}
    PROVE  \E x \in S : {y \in S : y > x} = {}
<1> DEFINE Above(x) == {y \in S : y > x}
           T == {Above(x) : x \in S}
<1>1. T \subseteq FiniteSubsetsOf(S) /\ T # {}
  <2>1. ASSUME NEW x \in S PROVE Above(x) \in SUBSET S /\ IsFiniteSet(Above(x))
    BY FS_Subset
  <2> QED BY <2>1 DEF FiniteSubsetsOf
<1>2. IsWellFoundedOn(StrictSubsetOrdering(S), FiniteSubsetsOf(S))
  BY FS_StrictSubsetOrderingWellFounded
<1>3. PICK U \in T : \A V \in T : ~ (<<V, U>> \in StrictSubsetOrdering(S))
  <2> HIDE DEF T
  <2> QED BY <1>1, <1>2, WFMin
<1>4. PICK x \in S : U = Above(x)
  OBVIOUS
<1>5. ASSUME NEW y \in Above(x) PROVE FALSE
  <2>1. y \in S /\ Above(y) \in T
    OBVIOUS
  <2>5. Above(y) \subseteq Above(x)
    <3>1. x \in Nat /\ y \in Nat /\ x <= y
      OBVIOUS
    <3> QED BY <3>1, AboveShrinks
  <2>6. Above(y) # Above(x)
    <3>1. y \in Above(x) /\ y \notin Above(y)
      OBVIOUS
    <3> QED BY <3>1
  <2>2. <<Above(y), Above(x)>> \in StrictSubsetOrdering(S)
    <3>1. Above(y) \in SUBSET S /\ Above(x) \in SUBSET S
      OBVIOUS
    <3> HIDE DEF Above
    <3> QED BY <2>5, <2>6, <3>1 DEF StrictSubsetOrdering
  <2> HIDE DEF Above
  <2> QED BY <2>1, <2>2, <1>3, <1>4
<1> QED BY <1>5

\* A page of a table that is not empty is not empty.
LEMMA PageNotEmpty ==
    ASSUME NEW S \in SUBSET Nat, IsFiniteSet(S), S # {}
    PROVE  Page(S) # {}
<1>1. PICK x \in S : {y \in S : y > x} = {}
  BY HasGreatest
<1>2. Cardinality({y \in S : y > x}) = 0
  BY <1>1, FS_EmptySet
<1> QED BY <1>2, BoundsAssumption DEF Page

\* A page is closed upwards.
LEMMA PageIsTop ==
    ASSUME NEW S \in SUBSET Nat, IsFiniteSet(S), NEW low \in Page(S), NEW x \in S, low <= x
    PROVE  x \in Page(S)
<1>1. low \in S /\ Cardinality({y \in S : y > low}) < Limit
  BY DEF Page
<1>2. {y \in S : y > x} \in SUBSET {y \in S : y > low}
  BY <1>1, AboveShrinks
<1>3. IsFiniteSet({y \in S : y > low})
  <2>1. {y \in S : y > low} \in SUBSET S
    OBVIOUS
  <2> QED BY <2>1, FS_Subset
<1>4. Cardinality({y \in S : y > x}) <= Cardinality({y \in S : y > low})
  BY <1>2, <1>3, FS_Subset
<1>5. Cardinality({y \in S : y > x}) \in Nat /\ Cardinality({y \in S : y > low}) \in Nat
  BY <1>2, <1>3, FS_Subset, FS_CardinalityType
<1> QED BY <1>1, <1>4, <1>5, BoundsAssumption DEF Page

\* A poll of the feed is closed downwards.
LEMMA OldestIsBottom ==
    ASSUME NEW S \in SUBSET Nat, IsFiniteSet(S), NEW high \in Oldest(S), NEW x \in S, x <= high
    PROVE  x \in Oldest(S)
<1>1. high \in S /\ Cardinality({y \in S : y < high}) < Limit
  BY DEF Oldest
<1>2. {y \in S : y < x} \in SUBSET {y \in S : y < high}
  BY <1>1, AboveShrinks
<1>3. IsFiniteSet({y \in S : y < high})
  <2>1. {y \in S : y < high} \in SUBSET S
    OBVIOUS
  <2> QED BY <2>1, FS_Subset
<1>4. Cardinality({y \in S : y < x}) <= Cardinality({y \in S : y < high})
  BY <1>2, <1>3, FS_Subset
<1>5. Cardinality({y \in S : y < x}) \in Nat /\ Cardinality({y \in S : y < high}) \in Nat
  BY <1>2, <1>3, FS_Subset, FS_CardinalityType
<1> QED BY <1>1, <1>4, <1>5, BoundsAssumption DEF Oldest

\* Any column of a set of transactions is a finite set.
LEMMA ColumnIsFinite ==
    ASSUME NEW K \in SUBSET Txns, NEW f \in [Txns -> Nat]
    PROVE  {f[n] : n \in K} \in SUBSET Nat /\ IsFiniteSet({f[n] : n \in K})
<1> DEFINE T == {f[n] : n \in K}
           g == [n \in K |-> f[n]]
<1>1. IsFiniteSet(K)
  <2>1. IsFiniteSet(1 .. MaxTxns)
    BY FS_Interval, BoundsAssumption
  <2> QED BY <2>1, FS_Subset DEF Txns
<1>2. g \in Surjection(K, T)
  BY DEF Surjection
<1>3. IsFiniteSet(T)
  <2> HIDE DEF g, T
  <2> QED BY <1>1, <1>2, FS_Surjection
<1> QED BY <1>3

\* Greater milliseconds weigh more than any randomness.
LEMMA MsFirst ==
    ASSUME NEW a \in Nat, NEW b \in Nat, a < b, NEW r \in 0 .. MaxRandom, NEW q \in 0 .. MaxRandom
    PROVE  Ulid(a, r) < Ulid(b, q)
<1>1. MaxRandom + 1 \in Nat
  BY BoundsAssumption
<1>2. \A m \in Nat : a * m + m <= b * m
  <2>1. SUFFICES ASSUME NEW m \in Nat PROVE a * m + m <= b * m
    OBVIOUS
  <2>2. (b - a - 1) * m >= 0
    OBVIOUS
  <2>3. (b - a - 1) * m = b * m - a * m - m
    OBVIOUS
  <2> QED BY <2>2, <2>3
<1>3. a * (MaxRandom + 1) \in Int /\ b * (MaxRandom + 1) \in Int
  BY <1>1
<1> QED BY <1>1, <1>2, <1>3, BoundsAssumption DEF Ulid, Span

\* A ULID is a number.
LEMMA UlidIsNat ==
    ASSUME NEW a \in Nat, NEW r \in 0 .. MaxRandom
    PROVE  Ulid(a, r) \in Nat
<1>1. a * (MaxRandom + 1) \in Nat
  BY BoundsAssumption
<1> QED BY <1>1 DEF Ulid, Span
-----------------------------------------------------------------------------
\* What ulid returns is typed, and greater than what it returned before.
LEMMA MintedGrows ==
    ASSUME TypeOK, LedgerInv, NEW p \in Procs, NEW back \in 0 .. MaxBack, NEW random \in 0 .. MaxRandom
    PROVE  LET ulid == Minted(p, clock - back, random)
           IN  /\ ulid[1] \in Nat /\ ulid[2] \in 0 .. MaxRandom
               /\ Ulid(ulid[1], ulid[2]) > Ulid(lastMs[p], lastRandom[p])
<1> DEFINE now == clock - back
<1>1. /\ now \in Nat /\ lastMs[p] \in Nat /\ lastRandom[p] \in 0 .. MaxRandom
      /\ MaxRandom \in Nat
  BY BoundsAssumption DEF TypeOK, LedgerInv
<1> HIDE DEF now
<1>2. CASE now > lastMs[p]
  <2>1. Minted(p, now, random) = <<now, random>>
    BY <1>1, <1>2 DEF Minted
  <2>2. Ulid(lastMs[p], lastRandom[p]) < Ulid(now, random)
    BY <1>1, <1>2, MsFirst
  <2>3. Ulid(lastMs[p], lastRandom[p]) \in Nat /\ Ulid(now, random) \in Nat
    BY <1>1, UlidIsNat
  <2> QED BY <1>1, <2>1, <2>2, <2>3 DEF now
<1>3. CASE now <= lastMs[p] /\ lastRandom[p] >= MaxRandom
  <2>1. Minted(p, now, random) = <<lastMs[p] + 1, random>>
    BY <1>1, <1>3 DEF Minted
  <2>2. Ulid(lastMs[p], lastRandom[p]) < Ulid(lastMs[p] + 1, random)
    BY <1>1, MsFirst
  <2>3. Ulid(lastMs[p], lastRandom[p]) \in Nat /\ Ulid(lastMs[p] + 1, random) \in Nat
    <3>1. lastMs[p] + 1 \in Nat
      BY <1>1
    <3> QED BY <1>1, <3>1, UlidIsNat
  <2> QED BY <1>1, <2>1, <2>2, <2>3 DEF now
<1>4. CASE now <= lastMs[p] /\ lastRandom[p] < MaxRandom
  <2>1. Minted(p, now, random) = <<lastMs[p], lastRandom[p] + 1>>
    BY <1>1, <1>4 DEF Minted
  <2>2. lastMs[p] * Span \in Nat
    BY <1>1 DEF Span
  <2>3. Ulid(lastMs[p], lastRandom[p]) < Ulid(lastMs[p], lastRandom[p] + 1)
    BY <1>1, <2>2 DEF Ulid
  <2>4. Ulid(lastMs[p], lastRandom[p]) \in Nat /\ Ulid(lastMs[p], lastRandom[p] + 1) \in Nat
    BY <1>1, <1>4, UlidIsNat
  <2> QED BY <1>1, <1>4, <2>1, <2>3, <2>4 DEF now
<1> QED BY <1>1, <1>2, <1>3, <1>4

\* The rows a query selects are numbers, and finitely many.
LEMMA RowsAreFinite ==
    ASSUME TypeOK
    PROVE  /\ Rows \in SUBSET Nat /\ IsFiniteSet(Rows)
           /\ \A since : After(since) \in SUBSET Nat /\ IsFiniteSet(After(since))
<1>1. [n \in Txns |-> txns[n].id] \in [Txns -> Nat] /\ [n \in Txns |-> txns[n].entry] \in [Txns -> Nat]
  BY DEF TypeOK
<1>2. Rows \in SUBSET Nat /\ IsFiniteSet(Rows)
  <2> DEFINE K == {k \in Committed \cap Wanted : walk.cursor # Never => txns[k].id < walk.cursor}
             f == [n \in Txns |-> txns[n].id]
  <2>1. K \in SUBSET Txns /\ Rows = {f[n] : n \in K}
    BY DEF Rows, Committed
  <2> HIDE DEF K, f
  <2>2. {f[n] : n \in K} \in SUBSET Nat /\ IsFiniteSet({f[n] : n \in K})
    BY <1>1, <2>1, ColumnIsFinite DEF f
  <2> QED BY <2>1, <2>2
<1>3. ASSUME NEW since PROVE After(since) \in SUBSET Nat /\ IsFiniteSet(After(since))
  <2> DEFINE K == {k \in Committed \cap Wanted : txns[k].entry > since}
             f == [n \in Txns |-> txns[n].entry]
  <2>1. K \in SUBSET Txns /\ After(since) = {f[n] : n \in K}
    BY DEF After, Committed
  <2> HIDE DEF K, f
  <2>2. {f[n] : n \in K} \in SUBSET Nat /\ IsFiniteSet({f[n] : n \in K})
    BY <1>1, <2>1, ColumnIsFinite DEF f
  <2> QED BY <2>1, <2>2
<1> QED BY <1>2, <1>3
-----------------------------------------------------------------------------
\* The initial state.
LEMMA InitOK == Init => IInv
<1> SUFFICES ASSUME Init PROVE IInv
  OBVIOUS
<1>1. TypeOK
  BY BoundsAssumption DEF Init, TypeOK, NoTxn, Never, Readers
<1>2. LedgerInv
  <2>1. \A n \in Txns : txns[n].pc = "new"
    BY DEF Init, NoTxn
  <2>2. clock >= MaxBack
    BY BoundsAssumption DEF Init
  <2>3. \A n \in Txns : txns[n].pc \notin {"inserted", "committed"}
    BY <2>1
  <2> QED BY <2>2, <2>3 DEF LedgerInv
<1>3. WalkInv
  BY DEF Init, WalkInv, WalkIsComplete, PagesDescend, Never
<1>4. FeedInv
  BY BoundsAssumption DEF Init, FeedInv, NoTxn
<1>5. AuditInv
  BY DEF Init, AuditInv
<1> QED BY <1>1, <1>2, <1>3, <1>4, <1>5 DEF IInv

\* What a writer may do to the table: rows that are committed stay as they are.
LEMMA CommittedStays ==
    ASSUME TypeOK, [Next]_vars
    PROVE  \A n \in Txns : txns[n].pc = "committed" => txns'[n] = txns[n]
<1>1. ASSUME NEW n \in Txns, NEW p \in Procs, Begin(n, p)
      PROVE  \A k \in Txns : txns[k].pc = "committed" => txns'[k] = txns[k]
  BY <1>1 DEF Begin, TypeOK
<1>2. ASSUME NEW n \in Txns, Insert(n) \/ Commit(n) \/ Rollback(n)
      PROVE  \A k \in Txns : txns[k].pc = "committed" => txns'[k] = txns[k]
  BY <1>2 DEF Insert, Commit, Rollback, Open, TypeOK
<1> QED BY <1>1, <1>2 DEF Next, vars, Restart, Tick, ListTransactions, ListEntries, Show

\* A request that begins.
LEMMA BeginKeeps ==
    ASSUME IInv, NEW n \in Txns, NEW p \in Procs, Begin(n, p)
    PROVE  TypeOK' /\ LedgerInv' /\ FeedInv' /\ AuditInv'
<1> USE DEF IInv
<1>1. PICK back \in 0 .. MaxBack, random \in 0 .. MaxRandom :
         LET ulid == Minted(p, clock - back, random)
         IN  /\ lastMs' = [lastMs EXCEPT ![p] = ulid[1]]
             /\ lastRandom' = [lastRandom EXCEPT ![p] = ulid[2]]
             /\ txns' = [txns EXCEPT ![n] =
                   [pc |-> "begun", id |-> Ulid(ulid[1], ulid[2]), entry |-> 0, recorded |-> clock]]
  BY DEF Begin
<1> DEFINE ulid == Minted(p, clock - back, random)
<1>2. ulid[1] \in Nat /\ ulid[2] \in 0 .. MaxRandom
  BY MintedGrows
<1>3. Ulid(ulid[1], ulid[2]) \in Nat
  BY <1>2, UlidIsNat
<1>4. /\ txns' = [txns EXCEPT ![n] =
            [pc |-> "begun", id |-> Ulid(ulid[1], ulid[2]), entry |-> 0, recorded |-> clock]]
      /\ lastMs' = [lastMs EXCEPT ![p] = ulid[1]] /\ lastRandom' = [lastRandom EXCEPT ![p] = ulid[2]]
      /\ UNCHANGED <<clock, restarts, lastEntry, reader, walk, feed, audit>> /\ txns[n].pc = "new"
  BY <1>1 DEF Begin, readers
<1> HIDE DEF ulid
<1>5. TypeOK'
  <2>1. txns' \in [Txns -> Row(lastEntry', clock')]
    BY <1>3, <1>4 DEF TypeOK, Row
  <2>2. lastMs' \in [Procs -> Nat] /\ lastRandom' \in [Procs -> 0 .. MaxRandom]
    BY <1>2, <1>4 DEF TypeOK
  <2> QED BY <1>4, <2>1, <2>2 DEF TypeOK, Row
<1>6. LedgerInv'
  BY <1>4 DEF LedgerInv, TypeOK
<1>7. FeedInv'
  BY <1>4, BoundsAssumption DEF FeedInv, TypeOK
<1>8. AuditInv'
  BY <1>4 DEF AuditInv, Committed, Open, TypeOK
<1> QED BY <1>5, <1>6, <1>7, <1>8

\* The insertion of its rows.
LEMMA InsertKeeps ==
    ASSUME IInv, NEW n \in Txns, Insert(n)
    PROVE  TypeOK' /\ LedgerInv' /\ FeedInv' /\ AuditInv'
<1> USE DEF IInv
<1>1. /\ txns' = [txns EXCEPT ![n] = [txns[n] EXCEPT !.pc = "inserted", !.entry = lastEntry + 1]]
      /\ lastEntry' = lastEntry + 1 /\ txns[n].pc = "begun"
      /\ UNCHANGED <<clock, lastMs, lastRandom, restarts, reader, walk, feed, audit>>
  BY DEF Insert, readers, clocks, TypeOK
<1>2. TypeOK'
  <2>1. lastEntry' \in Nat /\ 0 .. lastEntry \subseteq 0 .. lastEntry' /\ 1 .. lastEntry \subseteq 1 .. lastEntry'
    BY <1>1 DEF TypeOK
  <2>2. ASSUME NEW k \in Txns PROVE txns'[k] \in Row(lastEntry', clock')
    <3>1. txns[k] \in Row(lastEntry, clock) /\ txns[n] \in Row(lastEntry, clock)
      BY DEF TypeOK, Row
    <3>2. Row(lastEntry, clock) \subseteq Row(lastEntry', clock')
      BY <1>1, <2>1 DEF Row
    <3>3. CASE k # n
      BY <1>1, <3>1, <3>2, <3>3 DEF TypeOK
    <3>4. CASE k = n
      <4>1. txns'[k] = [txns[n] EXCEPT !.pc = "inserted", !.entry = lastEntry + 1]
        BY <1>1, <3>4 DEF TypeOK
      <4>2. lastEntry + 1 \in 0 .. lastEntry'
        BY <1>1 DEF TypeOK
      <4>3. txns[n] \in Row(lastEntry', clock')
        BY <3>1, <3>2
      <4> QED BY <4>1, <4>2, <4>3 DEF Row
    <3> QED BY <3>3, <3>4
  <2>3. txns' \in [Txns -> Row(lastEntry', clock')]
    BY <1>1, <2>2 DEF TypeOK
  <2>4. feed' \in [since : 0 .. lastEntry', got : SUBSET (1 .. lastEntry'), passed : SUBSET (1 .. lastEntry')]
    BY <1>1, <2>1 DEF TypeOK
  <2> QED BY <1>1, <2>1, <2>3, <2>4 DEF TypeOK, Row
<1>3. LedgerInv'
  <2>1. lastEntry \in Nat /\ clock' >= MaxBack
    BY <1>1 DEF TypeOK, LedgerInv
  <2>2. txns'[n].entry = lastEntry + 1
    BY <1>1 DEF TypeOK
  <2>3. ASSUME NEW k \in Txns, k # n, txns'[k].pc \in {"inserted", "committed"}
        PROVE  txns'[k] = txns[k] /\ txns[k].entry \in 1 .. lastEntry
    <3>1. txns'[k] = txns[k]
      BY <1>1, <2>3 DEF TypeOK
    <3> QED BY <2>3, <3>1 DEF LedgerInv
  <2>4. ASSUME NEW k \in Txns, txns'[k].pc \in {"inserted", "committed"} PROVE txns'[k].entry \in 1 .. lastEntry'
    BY <1>1, <2>1, <2>2, <2>3, <2>4
  <2>5. ASSUME NEW k \in Txns, NEW j \in Txns, txns'[k].pc \in {"inserted", "committed"},
               txns'[j].pc \in {"inserted", "committed"}, txns'[k].entry = txns'[j].entry
        PROVE  k = j
    <3>1. CASE k # n /\ j # n
      BY <2>3, <2>5, <3>1 DEF LedgerInv
    <3>2. CASE k = n \/ j = n
      BY <2>1, <2>2, <2>3, <2>5, <3>2
    <3> QED BY <3>1, <3>2
  <2> QED BY <2>1, <2>4, <2>5 DEF LedgerInv
<1>4. FeedInv'
  <2>1. SUFFICES ASSUME NEW k \in Wanted, txns'[k].pc \in {"inserted", "committed"},
                        txns'[k].entry <= feed.since
                 PROVE  txns'[k].entry \in feed.got \cup feed.passed
    BY <1>1 DEF FeedInv
  <2>2. k \in Txns /\ feed.since \in Nat /\ feed.since <= lastEntry
    BY BoundsAssumption DEF TypeOK
  <2>3. k # n /\ txns'[k] = txns[k]
    BY <1>1, <2>1, <2>2 DEF TypeOK
  <2> QED BY <2>1, <2>3 DEF FeedInv
<1>5. AuditInv'
  BY <1>1 DEF AuditInv, Committed, Open, TypeOK
<1> QED BY <1>2, <1>3, <1>4, <1>5

\* Its end.
LEMMA EndKeeps ==
    ASSUME IInv, NEW n \in Txns, Commit(n) \/ Rollback(n)
    PROVE  TypeOK' /\ LedgerInv' /\ FeedInv' /\ AuditInv'
<1> USE DEF IInv
<1>1. /\ \/ txns[n].pc = "inserted" /\ txns' = [txns EXCEPT ![n] = [txns[n] EXCEPT !.pc = "committed"]]
         \/ /\ txns[n].pc \in {"begun", "inserted"}
            /\ txns' = [txns EXCEPT ![n] = [pc |-> "gone", id |-> 0, entry |-> 0, recorded |-> 0]]
      /\ UNCHANGED <<clock, lastMs, lastRandom, restarts, lastEntry, reader, walk, feed, audit>>
  BY DEF Commit, Rollback, NoTxn, Open, readers, clocks, TypeOK
<1> DEFINE row == txns'[n]
<1>2. /\ \A k \in Txns \ {n} : txns'[k] = txns[k]
      /\ row \in Row(lastEntry, clock)
      /\ txns' \in [Txns -> Row(lastEntry, clock)]
  <2>1. txns \in [Txns -> Row(lastEntry, clock)] /\ lastEntry \in Nat /\ clock \in Nat
    BY DEF TypeOK, Row
  <2>2. [pc |-> "gone", id |-> 0, entry |-> 0, recorded |-> 0] \in Row(lastEntry, clock)
    BY <2>1 DEF Row
  <2>3. [txns[n] EXCEPT !.pc = "committed"] \in Row(lastEntry, clock)
    BY <2>1 DEF Row
  <2> QED BY <1>1, <2>1, <2>2, <2>3
<1>3. \/ /\ row.pc = "committed" /\ txns[n].pc = "inserted"
         /\ row.entry = txns[n].entry /\ row.recorded = txns[n].recorded
      \/ row.pc = "gone" /\ txns[n].pc # "committed"
  BY <1>1 DEF TypeOK
<1>4. TypeOK'
  BY <1>1, <1>2 DEF TypeOK, Row
<1>5. LedgerInv'
  <2>1. clock' >= MaxBack /\ lastEntry' = lastEntry
    BY <1>1 DEF LedgerInv
  <2>2. ASSUME NEW k \in Txns, txns'[k].pc \in {"inserted", "committed"}
        PROVE  txns[k].pc \in {"inserted", "committed"} /\ txns'[k].entry = txns[k].entry
    BY <1>2, <1>3, <2>2
  <2> QED BY <2>1, <2>2 DEF LedgerInv
<1>6. FeedInv'
  BY <1>1, <1>2, <1>3, BoundsAssumption DEF FeedInv
<1>7. AuditInv'
  BY <1>1, <1>2, <1>3 DEF AuditInv, Committed, Open
<1> QED BY <1>4, <1>5, <1>6, <1>7

\* Time and restarts.
LEMMA ClockKeeps ==
    ASSUME IInv, Tick \/ \E p \in Procs : Restart(p)
    PROVE  TypeOK' /\ LedgerInv' /\ FeedInv' /\ AuditInv'
<1> USE DEF IInv
<1>1. /\ UNCHANGED <<txns, lastEntry, reader, walk, feed, audit>>
      /\ clock' \in Nat /\ clock' >= clock
      /\ lastMs' \in [Procs -> Nat] /\ lastRandom' \in [Procs -> 0 .. MaxRandom] /\ restarts' \in Nat
  <2>1. CASE Tick
    BY <2>1 DEF Tick, readers, TypeOK
  <2>2. ASSUME NEW p \in Procs, Restart(p)
        PROVE  /\ UNCHANGED <<txns, lastEntry, reader, walk, feed, audit, clock>>
               /\ lastMs' \in [Procs -> Nat] /\ lastRandom' \in [Procs -> 0 .. MaxRandom] /\ restarts' \in Nat
    BY <2>2, BoundsAssumption DEF Restart, readers, TypeOK
  <2>3. clock \in Nat /\ clock >= clock
    BY DEF TypeOK
  <2> QED BY <2>1, <2>2, <2>3
<1>2. TypeOK'
  <2>1. 0 .. clock \subseteq 0 .. clock'
    BY <1>1 DEF TypeOK
  <2>2. txns' \in [Txns -> Row(lastEntry', clock')]
    BY <1>1, <2>1 DEF TypeOK, Row
  <2> QED BY <1>1, <2>2 DEF TypeOK, Row
<1>3. LedgerInv'
  BY <1>1, BoundsAssumption DEF LedgerInv, TypeOK
<1>4. FeedInv' /\ AuditInv'
  BY <1>1 DEF FeedInv, AuditInv, Committed, Open, TypeOK
<1> QED BY <1>2, <1>3, <1>4
\* A poll of the feed.
LEMMA FeedKeeps ==
    ASSUME IInv, ListEntries
    PROVE  TypeOK' /\ LedgerInv' /\ FeedInv' /\ AuditInv'
<1> USE DEF IInv
<1> DEFINE got == Oldest(After(feed.since))
<1>1. PICK since \in got :
         /\ \A other \in got : other <= since
         /\ feed' = [since |-> since, got |-> feed.got \cup got,
                     passed |-> feed.passed \cup {txns[n].entry : n \in Drawn(since)}]
  BY DEF ListEntries
<1>2. UNCHANGED <<clock, lastMs, lastRandom, restarts, txns, lastEntry, reader, walk, audit>>
  BY DEF ListEntries, clocks
<1>3. After(feed.since) \in SUBSET Nat /\ IsFiniteSet(After(feed.since))
  BY RowsAreFinite
<1>4. got \subseteq 1 .. lastEntry /\ since \in 1 .. lastEntry
  <2>1. got \subseteq After(feed.since)
    BY DEF Oldest
  <2>2. After(feed.since) \subseteq 1 .. lastEntry
    BY DEF After, Committed, LedgerInv
  <2> QED BY <2>1, <2>2
<1>5. {txns[n].entry : n \in Drawn(since)} \subseteq 1 .. lastEntry
  BY DEF Drawn, Open, LedgerInv
<1>6. TypeOK'
  <2>1. 1 .. lastEntry \subseteq 0 .. lastEntry
    BY DEF TypeOK
  <2>2. feed' \in [since : 0 .. lastEntry, got : SUBSET (1 .. lastEntry), passed : SUBSET (1 .. lastEntry)]
    BY <1>1, <1>4, <1>5, <2>1 DEF TypeOK
  <2> QED BY <1>2, <2>2 DEF TypeOK
<1>7. LedgerInv' /\ AuditInv'
  BY <1>2 DEF LedgerInv, AuditInv, Committed, Open
<1>8. FeedInv'
  <2>1. SUFFICES ASSUME NEW n \in Wanted, txns[n].pc \in {"inserted", "committed"}, txns[n].entry <= since
                 PROVE  txns[n].entry \in feed'.got \cup feed'.passed
    BY <1>1, <1>2 DEF FeedInv
  <2>2. /\ n \in Txns /\ txns[n].entry \in Nat /\ since \in Nat /\ feed.since \in Nat
        /\ feed.got \subseteq feed'.got /\ feed.passed \subseteq feed'.passed
    BY <1>1, <1>4, BoundsAssumption DEF TypeOK
  <2>3. CASE txns[n].entry <= feed.since
    BY <2>1, <2>2, <2>3 DEF FeedInv
  <2>4. CASE txns[n].entry > feed.since /\ txns[n].pc = "committed"
    <3>1. txns[n].entry \in After(feed.since)
      BY <2>1, <2>2, <2>4 DEF After, Committed
    <3>2. txns[n].entry \in got
      BY <1>1, <1>3, <2>1, <3>1, OldestIsBottom
    <3> QED BY <1>1, <3>2
  <2>5. CASE txns[n].entry > feed.since /\ txns[n].pc = "inserted"
    <3>1. since \in After(feed.since)
      BY <1>1 DEF Oldest
    <3>2. PICK k \in Committed : txns[k].entry = since
      BY <3>1 DEF After
    <3>3. k \in Txns /\ txns[k].pc = "committed" /\ k # n
      BY <2>5, <3>2 DEF Committed
    <3>4. txns[n].entry # since
      BY <2>2, <2>5, <3>2, <3>3 DEF LedgerInv
    <3>5. n \in Drawn(since)
      BY <2>1, <2>2, <2>5, <3>4 DEF Drawn, Open
    <3> QED BY <1>1, <3>5
  <2> QED BY <2>1, <2>2, <2>3, <2>4, <2>5
<1> QED BY <1>6, <1>7, <1>8

\* The dashboard.
LEMMA ShowKeeps ==
    ASSUME IInv, Show
    PROVE  TypeOK' /\ LedgerInv' /\ FeedInv' /\ AuditInv'
<1> USE DEF IInv
<1>1. /\ audit' = [at |-> clock, shown |-> BalanceHistory(clock), open |-> Open]
      /\ UNCHANGED <<clock, lastMs, lastRandom, restarts, txns, lastEntry, reader, walk, feed>>
  BY DEF Show, clocks
<1>2. BalanceHistory(clock) \subseteq Txns /\ Open \subseteq Txns
  BY DEF BalanceHistory, Committed, Open
<1>3. TypeOK'
  BY <1>1, <1>2 DEF TypeOK
<1>4. LedgerInv' /\ FeedInv'
  BY <1>1 DEF LedgerInv, FeedInv
<1>5. AuditInv'
  <2>1. audit'.at = clock /\ audit'.shown = BalanceHistory(clock) /\ audit'.open = Open
    BY <1>1
  <2>2. Committed' = Committed /\ Open' = Open /\ txns' = txns /\ clock' = clock
    BY <1>1 DEF Committed, Open
  <2>3. clock <= clock /\ \A n \in Txns : txns[n].recorded <= clock
    BY DEF TypeOK
  <2>4. \A n \in BalanceHistory(clock) : n \in Committed /\ n \in Txns /\ Effective[n] <= clock
    BY DEF BalanceHistory, Committed
  <2>5. \A n \in Txns : n \in Committed \cup Open /\ Effective[n] <= clock =>
           n \in BalanceHistory(clock) \cup Open
    BY DEF BalanceHistory
  <2> QED BY <2>1, <2>2, <2>3, <2>4, <2>5 DEF AuditInv
<1> QED BY <1>3, <1>4, <1>5
\* A page leaves the rest of the state alone.
LEMMA PageKeepsRest ==
    ASSUME IInv, ListTransactions
    PROVE  TypeOK' /\ LedgerInv' /\ FeedInv' /\ AuditInv'
<1> USE DEF IInv
<1>1. PICK cursor \in Cursor(Page(Rows)) :
         walk' = [pc     |-> IF HasMore(Rows) THEN "more" ELSE "done",
                  cursor |-> cursor,
                  pages  |-> Append(walk.pages, Page(Rows)),
                  start  |-> IF walk.pages = <<>> THEN Rows ELSE walk.start]
  BY DEF ListTransactions
<1>2. UNCHANGED <<clock, lastMs, lastRandom, restarts, txns, lastEntry, reader, feed, audit>>
  BY DEF ListTransactions, clocks
<1>3. Rows \subseteq Nat /\ Page(Rows) \subseteq Nat /\ cursor \in Nat \cup {Never}
  BY RowsAreFinite DEF Page, Cursor, TypeOK
<1>4. walk' \in [pc : {"more", "done"}, cursor : Nat \cup {Never}, pages : Seq(SUBSET Nat), start : SUBSET Nat]
  <2>1. Append(walk.pages, Page(Rows)) \in Seq(SUBSET Nat)
    BY <1>3 DEF TypeOK
  <2>2. (IF walk.pages = <<>> THEN Rows ELSE walk.start) \in SUBSET Nat
    BY <1>3 DEF TypeOK
  <2> QED BY <1>1, <1>3, <2>1, <2>2
<1>5. TypeOK'
  BY <1>2, <1>4 DEF TypeOK
<1> QED BY <1>2, <1>5 DEF LedgerInv, FeedInv, AuditInv, Committed, Open

\* A page keeps what is known of the walk.
LEMMA PageKeepsWalk ==
    ASSUME IInv, ListTransactions
    PROVE  WalkInv'
<1> USE DEF IInv
<1> DEFINE page == Page(Rows)
           N == Len(walk.pages)
<1>1. PICK cursor \in Cursor(page) :
         walk' = [pc     |-> IF HasMore(Rows) THEN "more" ELSE "done",
                  cursor |-> cursor,
                  pages  |-> Append(walk.pages, page),
                  start  |-> IF walk.pages = <<>> THEN Rows ELSE walk.start]
  BY DEF ListTransactions
<1>2. /\ walk.pages \in Seq(SUBSET Nat) /\ N \in Nat /\ walk.start \subseteq Nat
      /\ walk.cursor \in Nat \cup {Never} /\ walk.pc = "more"
  BY DEF TypeOK, ListTransactions
<1>3. Rows \in SUBSET Nat /\ IsFiniteSet(Rows)
  BY RowsAreFinite
<1>4. page \subseteq Rows /\ (page = {} => Rows = {})
  BY <1>3, PageNotEmpty DEF Page
<1>5. /\ WantedRows' = WantedRows /\ Rows \subseteq WantedRows
      /\ \A id \in WantedRows : walk.cursor = Never \/ id < walk.cursor => id \in Rows
      /\ \A id \in Rows : walk.cursor # Never => id < walk.cursor
  BY DEF WantedRows, Rows, ListTransactions, Committed
<1>6. /\ page = {} => cursor = walk.cursor
      /\ page # {} => cursor \in page /\ \A id \in page : cursor <= id
  BY DEF Cursor
<1>7. \A id \in Rows : cursor # Never /\ cursor <= id => id \in page
  <2>1. SUFFICES ASSUME NEW id \in Rows, cursor # Never, cursor <= id PROVE id \in page
    OBVIOUS
  <2>2. page # {}
    BY <1>4
  <2> QED BY <1>3, <1>6, <2>1, <2>2, PageIsTop
<1>8. /\ walk'.pages = Append(walk.pages, page) /\ walk'.cursor = cursor
      /\ DOMAIN walk'.pages = 1 .. N + 1 /\ DOMAIN walk.pages = 1 .. N
      /\ walk'.pages[N + 1] = page /\ \A i \in 1 .. N : walk'.pages[i] = walk.pages[i]
  BY <1>1, <1>2
<1>9. /\ walk'.start = IF walk.pages = <<>> THEN Rows ELSE walk.start
      /\ walk'.pc = "done" => Rows \subseteq page
      /\ walk'.pc # "done" => Rows # {}
  BY <1>1, <1>4 DEF HasMore
<1>10. /\ walk.pages = <<>> <=> N = 0
       /\ walk.pages = <<>> => walk.cursor = Never
       /\ walk.cursor = Never => walk.pages = <<>>
  BY <1>2 DEF WalkInv
<1>11. Never \notin Nat /\ page \subseteq Nat /\ cursor \in Nat \cup {Never}
  <2>1. Never \notin Nat
    BY DEF Never
  <2>2. page \subseteq Nat
    BY <1>3, <1>4
  <2>3. cursor \in Nat \cup {Never}
    <3> HIDE DEF page
    <3> QED BY <1>2, <1>6, <2>2
  <2> QED BY <2>1, <2>2, <2>3
<1>12. \A i \in 1 .. N : \A id \in walk.pages[i] : id \in Nat /\ walk.cursor # Never /\ walk.cursor <= id
  BY <1>2, <1>8 DEF WalkInv
<1>13. \A low \in page : walk.cursor # Never => low < walk.cursor
  BY <1>4, <1>5
<1> HIDE DEF page, N
<1>14. walk'.cursor = Never => walk'.pc = "done" /\ walk'.start = {}
  <2>1. SUFFICES ASSUME cursor = Never PROVE walk'.pc = "done" /\ walk'.start = {}
    BY <1>8
  <2>2. page = {} /\ walk.cursor = Never
    BY <1>6, <1>11, <2>1
  <2> QED BY <1>4, <1>9, <1>10, <2>2
<1>15. walk'.pages # <<>>
  BY <1>8, <1>2
<1>16. ASSUME NEW i \in 1 .. N + 1, NEW id \in walk'.pages[i]
       PROVE  cursor # Never /\ cursor <= id
  <2>1. CASE i = N + 1
    BY <1>6, <1>8, <1>11, <1>16, <2>1
  <2>2. CASE i \in 1 .. N
    <3>1. id \in Nat /\ walk.cursor # Never /\ walk.cursor <= id /\ walk.cursor \in Nat
      BY <1>2, <1>8, <1>12, <1>16, <2>2
    <3>2. CASE page = {}
      BY <1>6, <3>1, <3>2
    <3>3. CASE page # {}
      <4>1. cursor \in Nat /\ cursor < walk.cursor
        BY <1>6, <1>11, <1>13, <3>1, <3>3
      <4> QED BY <1>11, <3>1, <4>1
    <3> QED BY <3>2, <3>3
  <2>3. i = N + 1 \/ i \in 1 .. N
    BY <1>2 DEF N
  <2> QED BY <2>1, <2>2, <2>3
<1>17. walk'.start \subseteq WantedRows'
  BY <1>5, <1>9 DEF WalkInv
<1>18. PagesDescend'
  <2>1. SUFFICES ASSUME NEW i \in 1 .. N + 1, NEW j \in 1 .. N + 1, i < j,
                        NEW high \in walk'.pages[i], NEW low \in walk'.pages[j]
                 PROVE  low < high
    BY <1>8 DEF PagesDescend
  <2>2. i \in 1 .. N /\ walk'.pages[i] = walk.pages[i]
    BY <1>2, <1>8, <2>1 DEF N
  <2>3. CASE j = N + 1
    <3>1. low \in Nat /\ high \in Nat /\ walk.cursor # Never /\ walk.cursor \in Nat
      BY <1>2, <1>8, <1>11, <1>12, <2>1, <2>2, <2>3
    <3>2. walk.cursor <= high /\ low < walk.cursor
      BY <1>8, <1>12, <1>13, <2>1, <2>2, <2>3, <3>1
    <3> QED BY <3>1, <3>2
  <2>4. CASE j \in 1 .. N
    BY <1>8, <2>1, <2>2, <2>4 DEF WalkInv, PagesDescend
  <2>5. j = N + 1 \/ j \in 1 .. N
    BY <1>2 DEF N
  <2> QED BY <2>3, <2>4, <2>5
<1>19. WalkIsComplete'
  <2>1. SUFFICES ASSUME NEW id \in walk'.start, walk'.pc = "done" \/ id >= cursor
                 PROVE  \E i \in 1 .. N + 1 : id \in walk'.pages[i]
    BY <1>8 DEF WalkIsComplete
  <2>2. id \in WantedRows /\ id \in Nat /\ N + 1 \in 1 .. N + 1
    <3>1. id \in WantedRows
      BY <1>5, <1>17, <2>1
    <3>2. walk'.start \subseteq Nat
      BY <1>2, <1>3, <1>9
    <3>3. N + 1 \in 1 .. N + 1
      BY <1>2 DEF N
    <3> QED BY <2>1, <3>1, <3>2, <3>3
  <2>3. CASE id \in Rows
    <3>1. cursor # Never
      BY <1>14, <1>8, <2>1
    <3>2. id \in page
      BY <1>7, <1>9, <1>11, <2>1, <2>2, <2>3, <3>1
    <3> QED BY <1>8, <2>2, <3>2
  <2>4. CASE id \notin Rows
    <3>1. walk.cursor # Never /\ ~(id < walk.cursor) /\ id \in walk.start
      BY <1>5, <1>9, <2>1, <2>2, <2>4
    <3>2. walk.cursor \in Nat /\ id >= walk.cursor
      BY <1>2, <2>2, <3>1
    <3>3. \E i \in 1 .. N : id \in walk.pages[i]
      BY <1>8, <3>1, <3>2 DEF WalkInv, WalkIsComplete
    <3> QED BY <1>2, <1>8, <3>3 DEF N
  <2> QED BY <2>3, <2>4
<1> QED BY <1>8, <1>14, <1>15, <1>16, <1>17, <1>18, <1>19 DEF WalkInv
\* Every other step leaves the walk alone and only adds rows.
LEMMA OthersKeepWalk ==
    ASSUME IInv, [Next]_vars, walk' = walk
    PROVE  WalkInv'
<1> USE DEF IInv
<1>1. \A n \in Txns : txns[n].pc = "committed" => txns'[n] = txns[n]
  BY CommittedStays
<1>2. WantedRows \subseteq WantedRows'
  BY <1>1, BoundsAssumption DEF WantedRows, Committed
<1> QED BY <1>2 DEF WalkInv, WalkIsComplete, PagesDescend

\* The invariant is inductive.
LEMMA NextKeeps == IInv /\ [Next]_vars => IInv'
<1> SUFFICES ASSUME IInv, [Next]_vars PROVE IInv'
  OBVIOUS
<1>1. ASSUME NEW n \in Txns, NEW p \in Procs, Begin(n, p) PROVE IInv'
  <2>1. walk' = walk
    BY <1>1 DEF Begin, readers
  <2> QED BY <1>1, <2>1, BeginKeeps, OthersKeepWalk DEF IInv
<1>2. ASSUME NEW n \in Txns, Insert(n) \/ Commit(n) \/ Rollback(n) PROVE IInv'
  <2>1. walk' = walk
    BY <1>2 DEF Insert, Commit, Rollback, readers
  <2> QED BY <1>2, <2>1, InsertKeeps, EndKeeps, OthersKeepWalk DEF IInv
<1>3. CASE Tick \/ \E p \in Procs : Restart(p)
  <2>1. walk' = walk
    BY <1>3 DEF Tick, Restart, readers
  <2> QED BY <1>3, <2>1, ClockKeeps, OthersKeepWalk DEF IInv
<1>4. CASE ListTransactions
  BY <1>4, PageKeepsRest, PageKeepsWalk DEF IInv
<1>5. CASE ListEntries
  <2>1. walk' = walk
    BY <1>5 DEF ListEntries
  <2> QED BY <1>5, <2>1, FeedKeeps, OthersKeepWalk DEF IInv
<1>6. CASE Show
  <2>1. walk' = walk
    BY <1>6 DEF Show
  <2> QED BY <1>6, <2>1, ShowKeeps, OthersKeepWalk DEF IInv
<1>7. CASE UNCHANGED vars
  BY <1>7 DEF vars, clocks, readers, IInv, TypeOK, LedgerInv, WalkInv, WalkIsComplete, PagesDescend,
              WantedRows, FeedInv, AuditInv, Committed, Open
<1> QED BY <1>1, <1>2, <1>3, <1>4, <1>5, <1>6, <1>7 DEF Next

\* The inductive invariant holds in every reachable state.
LEMMA Invariant == Spec => []IInv
BY InitOK, NextKeeps, PTL DEF Spec

\* The state of writers and readers is of the types that are declared.
THEOREM TypeCorrect == Spec => []TypeOK
<1>1. IInv => TypeOK
  BY DEF IInv
<1> QED BY <1>1, Invariant, PTL

\* Walking the pages of GET /v1/transactions returns whatever was visible at
\* the first page (TransactionRepository.list).
THEOREM CursorCannotSkip == Spec => []WalkIsComplete
<1>1. IInv => WalkIsComplete
  BY DEF IInv, WalkInv
<1> QED BY <1>1, Invariant, PTL

\* Pages descend, so that no transaction is on two of them.
THEOREM CursorCannotRepeat == Spec => []PagesDescend
<1>1. IInv => PagesDescend
  BY DEF IInv, WalkInv
<1> QED BY <1>1, Invariant, PTL

\* ids.ulid never goes back while its process runs, whatever the clock does.
THEOREM UlidsIncrease == Spec => IdsIncrease
<1> DEFINE Step == \A n \in Txns : txns[n].pc = "new" /\ txns'[n].pc = "begun" =>
                     \E p \in Procs : /\ txns'[n].id = Ulid(lastMs'[p], lastRandom'[p])
                                      /\ txns'[n].id > Ulid(lastMs[p], lastRandom[p])
<1>1. ASSUME IInv, [Next]_vars PROVE Step
  <2>1. ASSUME NEW k \in Txns, NEW p \in Procs, Begin(k, p) PROVE Step
    <3>1. PICK back \in 0 .. MaxBack, random \in 0 .. MaxRandom :
             LET ulid == Minted(p, clock - back, random)
             IN  /\ lastMs' = [lastMs EXCEPT ![p] = ulid[1]]
                 /\ lastRandom' = [lastRandom EXCEPT ![p] = ulid[2]]
                 /\ txns' = [txns EXCEPT ![k] =
                       [pc |-> "begun", id |-> Ulid(ulid[1], ulid[2]), entry |-> 0, recorded |-> clock]]
      BY <2>1 DEF Begin
    <3> DEFINE ulid == Minted(p, clock - back, random)
    <3>2. Ulid(ulid[1], ulid[2]) > Ulid(lastMs[p], lastRandom[p])
      BY <1>1, MintedGrows DEF IInv
    <3>3. /\ txns' = [txns EXCEPT ![k] =
                [pc |-> "begun", id |-> Ulid(ulid[1], ulid[2]), entry |-> 0, recorded |-> clock]]
          /\ lastMs' = [lastMs EXCEPT ![p] = ulid[1]] /\ lastRandom' = [lastRandom EXCEPT ![p] = ulid[2]]
      BY <3>1
    <3> HIDE DEF ulid
    <3>4. lastMs'[p] = ulid[1] /\ lastRandom'[p] = ulid[2]
      BY <1>1, <3>3 DEF IInv, TypeOK
    <3>5. txns'[k].id = Ulid(ulid[1], ulid[2]) /\ \A n \in Txns \ {k} : txns'[n] = txns[n]
      BY <1>1, <3>3 DEF IInv, TypeOK
    <3> QED BY <3>2, <3>4, <3>5
  <2>2. ASSUME NEW k \in Txns, Insert(k) \/ Commit(k) \/ Rollback(k) PROVE Step
    <3>1. txns'[k].pc # "begun" /\ \A n \in Txns \ {k} : txns'[n] = txns[n]
      <4>1. CASE Insert(k)
        BY <1>1, <4>1 DEF Insert, IInv, TypeOK
      <4>2. CASE Commit(k)
        BY <1>1, <4>2 DEF Commit, IInv, TypeOK
      <4>3. CASE Rollback(k)
        BY <1>1, <4>3 DEF Rollback, NoTxn, IInv, TypeOK
      <4> QED BY <2>2, <4>1, <4>2, <4>3
    <3> QED BY <3>1
  <2>3. CASE UNCHANGED txns
    BY <2>3
  <2> QED BY <1>1, <2>1, <2>2, <2>3 DEF Next, vars, Restart, Tick, ListTransactions, ListEntries, Show
<1> QED BY <1>1, Invariant, PTL DEF Spec, IdsIncrease

\* Once the requests of a past instant are settled, balance_at as known then
\* never changes again, whatever is posted or backdated later.
THEOREM KnownSettles == Spec => KnownIsFinal
<1> DEFINE Step == \A at \in 0 .. MaxClock, asOf \in {Effective[n] : n \in Txns} :
                     at < clock /\ (\A n \in Open : txns[n].recorded > at) =>
                        BalanceAt(asOf, at)' = BalanceAt(asOf, at)
<1>1. ASSUME IInv, [Next]_vars PROVE Step
  <2>1. SUFFICES ASSUME NEW at \in 0 .. MaxClock, NEW asOf \in {Effective[n] : n \in Txns},
                        at < clock, \A n \in Open : txns[n].recorded > at
                 PROVE  BalanceAt(asOf, at)' = BalanceAt(asOf, at)
    OBVIOUS
  <2>2. \A n \in Txns : n \in Committed => n \in Committed' /\ txns'[n] = txns[n]
    BY <1>1, CommittedStays DEF IInv, Committed
  <2>3. \A n \in Txns : n \in Committed' /\ n \notin Committed => ~(txns'[n].recorded <= at)
    <3>1. ASSUME NEW k \in Txns, NEW p \in Procs, Begin(k, p) PROVE Committed' \subseteq Committed
      BY <1>1, <3>1 DEF Begin, Committed, IInv, TypeOK
    <3>2. ASSUME NEW k \in Txns, Insert(k) \/ Rollback(k) PROVE Committed' \subseteq Committed
      <4>1. txns'[k].pc # "committed" /\ \A n \in Txns \ {k} : txns'[n] = txns[n]
        <5>1. CASE Insert(k)
          BY <1>1, <5>1 DEF Insert, IInv, TypeOK
        <5>2. CASE Rollback(k)
          BY <1>1, <5>2 DEF Rollback, NoTxn, IInv, TypeOK
        <5> QED BY <3>2, <5>1, <5>2
      <4> QED BY <4>1 DEF Committed
    <3>3. ASSUME NEW k \in Txns, Commit(k)
          PROVE  \A n \in Txns : n \in Committed' /\ n \notin Committed => ~(txns'[n].recorded <= at)
      <4>1. k \in Open /\ txns[k].recorded \in Nat /\ txns'[k].recorded = txns[k].recorded
        BY <1>1, <3>3 DEF Commit, Open, IInv, TypeOK
      <4>2. \A n \in Txns \ {k} : txns'[n] = txns[n]
        BY <1>1, <3>3 DEF Commit, IInv, TypeOK
      <4>3. ~(txns'[k].recorded <= at)
        BY <2>1, <4>1
      <4> QED BY <4>2, <4>3 DEF Committed
    <3>4. CASE UNCHANGED txns
      BY <3>4 DEF Committed
    <3> QED BY <1>1, <3>1, <3>2, <3>3, <3>4 DEF Next, vars, Restart, Tick, ListTransactions, ListEntries, Show
  <2>4. Committed \subseteq Txns /\ Committed' \subseteq Txns
    BY DEF Committed
  <2> QED BY <2>2, <2>3, <2>4 DEF BalanceAt
<1> QED BY <1>1, Invariant, PTL DEF Spec, KnownIsFinal

\* The feed of GET /v1/ledger/entries misses only what was in flight
\* (EntryRepository.list).
THEOREM FeedIsNearlyComplete == Spec => []FeedMissesOnlyInFlight
<1>1. IInv => FeedMissesOnlyInFlight
  BY DEF IInv, FeedInv, FeedMissesOnlyInFlight, Committed
<1> QED BY <1>1, Invariant, PTL

\* balance_at with as_known_at gives back what was shown, and what was in flight.
THEOREM KnownMatchesShown == Spec => []KnownIsWhatWasShown
<1>1. ASSUME IInv PROVE KnownIsWhatWasShown
  <2>1. SUFFICES ASSUME audit.at # Never
                 PROVE  /\ audit.shown \subseteq BalanceAt(audit.at, audit.at)
                        /\ \A n \in BalanceAt(audit.at, audit.at) \ audit.shown :
                              n \in audit.open \/ txns[n].recorded = audit.at
    BY DEF KnownIsWhatWasShown
  <2>2. /\ \A n \in audit.shown : n \in Committed /\ Effective[n] <= audit.at /\ txns[n].recorded <= audit.at
        /\ \A n \in Txns : n \in Committed \cup Open /\ Effective[n] <= audit.at =>
              n \in audit.shown \cup audit.open \/ txns[n].recorded >= audit.at
    BY <1>1, <2>1 DEF IInv, AuditInv
  <2>3. audit.shown \subseteq BalanceAt(audit.at, audit.at)
    BY <2>2 DEF BalanceAt
  <2>4. ASSUME NEW n \in BalanceAt(audit.at, audit.at) \ audit.shown
        PROVE  n \in audit.open \/ txns[n].recorded = audit.at
    <3>1. n \in Txns /\ n \in Committed /\ Effective[n] <= audit.at /\ txns[n].recorded <= audit.at
      BY <2>4 DEF BalanceAt, Committed
    <3>2. txns[n].recorded \in Nat /\ audit.at \in Nat
      BY <1>1, <2>1, <3>1 DEF IInv, TypeOK
    <3> QED BY <2>2, <2>4, <3>1, <3>2
  <2> QED BY <2>3, <2>4
<1> QED BY <1>1, Invariant, PTL
=============================================================================
