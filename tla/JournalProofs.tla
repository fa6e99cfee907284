---------------------------- MODULE JournalProofs ----------------------------
(***************************************************************************)
(* The theorems about Journal: the accounting equation, the agreement of   *)
(* the two balance checks, the deltas of _check_floors and the effect of a *)
(* reversal, for every chart of accounts, every request and every leg      *)
(* sequence of any length.                                                 *)
(*                                                                         *)
(* The sums of PostingRules are recursive functions.  What they compute is *)
(* proved by induction over the natural numbers, in the form "a set that   *)
(* holds 0 and with n holds n + 1 holds them all", which follows from the  *)
(* well-foundedness of < on Nat.                                           *)
(***************************************************************************)
EXTENDS Journal, WellFoundedInduction, FiniteSetTheorems, SequenceTheorems, TLAPS

(* Induction and sums.                                                      *)

\* Induction over the natural numbers, for the set of those with a property.
LEMMA Induction ==
  ASSUME NEW T, 0 \in T, \A n \in Nat : n \in T => n + 1 \in T
  PROVE  Nat \subseteq T
<1> SUFFICES ASSUME Nat \ T # {} PROVE FALSE
  OBVIOUS
<1>1. PICK m \in Nat \ T : \A y \in Nat \ T : ~(<<y, m>> \in OpToRel(<, Nat))
  BY NatLessThanWellFounded, WFMin, Nat \ T \subseteq Nat
<1>2. \A y \in Nat \ T : ~(y < m)
  BY <1>1 DEF OpToRel
<1>3. m # 0 /\ m - 1 \in Nat
  BY SMT
<1>4. m - 1 \in T
  BY <1>2, <1>3, m - 1 < m
<1> QED BY <1>3, <1>4, (m - 1) + 1 = m

\* A sequence has prefix sums: the recursion of PrefixSums is well defined.
LEMMA PrefixSumsExist ==
  ASSUME NEW s \in Seq(Int)
  PROVE  \E f : f = [n \in 0 .. Len(s) |-> IF n = 0 THEN 0 ELSE f[n - 1] + s[n]]
<1> DEFINE T == {k \in Nat : k <= Len(s) =>
                   \E f : f = [n \in 0 .. k |-> IF n = 0 THEN 0 ELSE f[n - 1] + s[n]]}
<1>1. 0 \in T
  <2> DEFINE f == [n \in 0 .. 0 |-> 0]
  <2>1. f = [n \in 0 .. 0 |-> IF n = 0 THEN 0 ELSE f[n - 1] + s[n]]
    OBVIOUS
  <2> QED BY <2>1
<1>2. ASSUME NEW k \in Nat, k \in T PROVE k + 1 \in T
  <2> SUFFICES ASSUME k + 1 <= Len(s)
               PROVE  \E f : f = [n \in 0 .. (k + 1) |-> IF n = 0 THEN 0 ELSE f[n - 1] + s[n]]
    OBVIOUS
  <2>1. PICK f : f = [n \in 0 .. k |-> IF n = 0 THEN 0 ELSE f[n - 1] + s[n]]
    BY <1>2
  <2> DEFINE g == [n \in 0 .. (k + 1) |-> IF n = k + 1 THEN f[k] + s[k + 1] ELSE f[n]]
  <2>2. \A n \in 0 .. (k + 1) : g[n] = IF n = 0 THEN 0 ELSE g[n - 1] + s[n]
    <3> TAKE n \in 0 .. (k + 1)
    <3>1. CASE n = k + 1
      <4>1. n # 0 /\ n - 1 = k /\ k \in 0 .. (k + 1) /\ k # k + 1
        BY <3>1
      <4> QED BY <4>1, <3>1
    <3>2. CASE n # k + 1
      <4>1. n \in 0 .. k
        BY <3>2
      <4>2. f[n] = IF n = 0 THEN 0 ELSE f[n - 1] + s[n]
        BY <4>1, <2>1
      <4>3. n # 0 => n - 1 \in 0 .. (k + 1) /\ n - 1 # k + 1
        BY <4>1
      <4> QED BY <4>2, <4>3, <3>2
    <3> QED BY <3>1, <3>2
  <2>3. g = [n \in 0 .. (k + 1) |-> IF n = 0 THEN 0 ELSE g[n - 1] + s[n]]
    <3> HIDE DEF g
    <3>1. g = [n \in 0 .. (k + 1) |-> g[n]]
      BY DEF g
    <3> QED BY <3>1, <2>2
  <2> QED BY <2>3
<1>3. Nat \subseteq T
  <2> HIDE DEF T
  <2> QED BY <1>1, <1>2, Induction
<1> QED BY <1>3, Len(s) \in Nat

\* The recurrence of the prefix sums.
LEMMA PrefixSumsStep ==
  ASSUME NEW s \in Seq(Int)
  PROVE  /\ PrefixSums(s)[0] = 0
         /\ \A n \in Nat : n < Len(s) => PrefixSums(s)[n + 1] = PrefixSums(s)[n] + s[n + 1]
<1> DEFINE G(f) == [n \in 0 .. Len(s) |-> IF n = 0 THEN 0 ELSE f[n - 1] + s[n]]
<1>1. PrefixSums(s) = CHOOSE f : f = G(f)
  BY DEF PrefixSums
<1>2. PrefixSums(s) = G(PrefixSums(s))
  BY <1>1, PrefixSumsExist
<1>3. \A n \in 0 .. Len(s) :
         PrefixSums(s)[n] = IF n = 0 THEN 0 ELSE PrefixSums(s)[n - 1] + s[n]
  BY <1>2
<1>4. Len(s) \in Nat /\ 0 \in 0 .. Len(s)
  OBVIOUS
<1>5. PrefixSums(s)[0] = 0
  BY <1>3, <1>4
<1>6. ASSUME NEW n \in Nat, n < Len(s)
      PROVE  PrefixSums(s)[n + 1] = PrefixSums(s)[n] + s[n + 1]
  <2>1. n + 1 \in 0 .. Len(s) /\ n + 1 # 0 /\ (n + 1) - 1 = n
    BY <1>4, <1>6
  <2> QED BY <1>3, <2>1
<1> QED BY <1>5, <1>6

\* The prefix sums of integers are integers.
LEMMA PrefixSumsType ==
  ASSUME NEW s \in Seq(Int)
  PROVE  \A n \in 0 .. Len(s) : PrefixSums(s)[n] \in Int
<1> DEFINE T == {n \in Nat : n <= Len(s) => PrefixSums(s)[n] \in Int}
<1>1. 0 \in T
  BY PrefixSumsStep
<1>2. ASSUME NEW n \in Nat, n \in T PROVE n + 1 \in T
  <2> SUFFICES ASSUME n + 1 <= Len(s) PROVE PrefixSums(s)[n + 1] \in Int
    OBVIOUS
  <2>1. n < Len(s) /\ n <= Len(s) /\ n + 1 \in 1 .. Len(s) /\ Len(s) \in Nat
    OBVIOUS
  <2>2. s[n + 1] \in Int
    BY <2>1, ElementOfSeq
  <2>3. PrefixSums(s)[n] \in Int
    BY <1>2, <2>1
  <2> QED BY <2>1, <2>2, <2>3, PrefixSumsStep
<1>3. Nat \subseteq T
  <2> HIDE DEF T
  <2> QED BY <1>1, <1>2, Induction
<1> QED BY <1>3

\* A total is an integer.
LEMMA TotalType ==
  ASSUME NEW s \in Seq(Int)
  PROVE  Total(s) \in Int
BY PrefixSumsType, Len(s) \in 0 .. Len(s) DEF Total

\* Totals add: the total of a pointwise sum is the sum of the totals.
LEMMA TotalOfSum ==
  ASSUME NEW s \in Seq(Int), NEW t \in Seq(Int), NEW u \in Seq(Int),
         Len(t) = Len(s), Len(u) = Len(s),
         \A i \in 1 .. Len(s) : s[i] = t[i] + u[i]
  PROVE  Total(s) = Total(t) + Total(u)
<1> DEFINE T == {n \in Nat : n <= Len(s) =>
                   PrefixSums(s)[n] = PrefixSums(t)[n] + PrefixSums(u)[n]}
<1>1. 0 \in T
  BY PrefixSumsStep
<1>2. ASSUME NEW n \in Nat, n \in T PROVE n + 1 \in T
  <2> SUFFICES ASSUME n + 1 <= Len(s)
               PROVE  PrefixSums(s)[n + 1] = PrefixSums(t)[n + 1] + PrefixSums(u)[n + 1]
    OBVIOUS
  <2>1. n < Len(s) /\ n \in 0 .. Len(s) /\ n + 1 \in 1 .. Len(s) /\ Len(s) \in Nat
    OBVIOUS
  <2>2. t[n + 1] \in Int /\ u[n + 1] \in Int /\ s[n + 1] = t[n + 1] + u[n + 1]
    BY <2>1, ElementOfSeq
  <2>3. PrefixSums(t)[n] \in Int /\ PrefixSums(u)[n] \in Int
    BY <2>1, PrefixSumsType
  <2>4. /\ PrefixSums(s)[n + 1] = PrefixSums(s)[n] + s[n + 1]
        /\ PrefixSums(t)[n + 1] = PrefixSums(t)[n] + t[n + 1]
        /\ PrefixSums(u)[n + 1] = PrefixSums(u)[n] + u[n + 1]
    BY <2>1, PrefixSumsStep
  <2>5. PrefixSums(s)[n] = PrefixSums(t)[n] + PrefixSums(u)[n]
    BY <1>2, <2>1
  <2>6. PICK a \in Int, b \in Int, c \in Int, d \in Int :
           a = PrefixSums(t)[n] /\ b = PrefixSums(u)[n] /\ c = t[n + 1] /\ d = u[n + 1]
    BY <2>2, <2>3
  <2>7. (a + b) + (c + d) = (a + c) + (b + d)
    OBVIOUS
  <2> QED BY <2>2, <2>4, <2>5, <2>6, <2>7
<1>3. Nat \subseteq T
  <2> HIDE DEF T
  <2> QED BY <1>1, <1>2, Induction
<1>4. Len(s) \in T
  BY <1>3, Len(s) \in Nat
<1> QED BY <1>4 DEF Total

\* A sequence of zeros adds up to zero.
LEMMA TotalOfZeros ==
  ASSUME NEW s \in Seq(Int), \A i \in 1 .. Len(s) : s[i] = 0
  PROVE  Total(s) = 0
<1> DEFINE T == {n \in Nat : n <= Len(s) => PrefixSums(s)[n] = 0}
<1>1. 0 \in T
  BY PrefixSumsStep
<1>2. ASSUME NEW n \in Nat, n \in T PROVE n + 1 \in T
  <2> SUFFICES ASSUME n + 1 <= Len(s) PROVE PrefixSums(s)[n + 1] = 0
    OBVIOUS
  <2>1. n < Len(s) /\ n <= Len(s) /\ n + 1 \in 1 .. Len(s)
    OBVIOUS
  <2> QED BY <1>2, <2>1, PrefixSumsStep
<1>3. Nat \subseteq T
  <2> HIDE DEF T
  <2> QED BY <1>1, <1>2, Induction
<1>4. Len(s) \in T
  BY <1>3, Len(s) \in Nat
<1> QED BY <1>4 DEF Total

\* The prefix sums of a prefix are those of the whole.
LEMMA PrefixSumsAgree ==
  ASSUME NEW s \in Seq(Int), NEW t \in Seq(Int), Len(s) <= Len(t),
         \A i \in 1 .. Len(s) : t[i] = s[i]
  PROVE  \A n \in 0 .. Len(s) : PrefixSums(t)[n] = PrefixSums(s)[n]
<1> DEFINE T == {n \in Nat : n <= Len(s) => PrefixSums(t)[n] = PrefixSums(s)[n]}
<1>1. 0 \in T
  BY PrefixSumsStep
<1>2. ASSUME NEW n \in Nat, n \in T PROVE n + 1 \in T
  <2> SUFFICES ASSUME n + 1 <= Len(s) PROVE PrefixSums(t)[n + 1] = PrefixSums(s)[n + 1]
    OBVIOUS
  <2>1. n < Len(s) /\ n < Len(t) /\ n <= Len(s) /\ n + 1 \in 1 .. Len(s)
    OBVIOUS
  <2> QED BY <1>2, <2>1, PrefixSumsStep
<1>3. Nat \subseteq T
  <2> HIDE DEF T
  <2> QED BY <1>1, <1>2, Induction
<1> QED BY <1>3

\* A total grows by what is appended.
LEMMA TotalOfAppend ==
  ASSUME NEW s \in Seq(Int), NEW t \in Seq(Int), Len(t) = Len(s) + 1,
         \A i \in 1 .. Len(s) : t[i] = s[i]
  PROVE  Total(t) = Total(s) + t[Len(t)]
<1>1. Len(s) \in Nat /\ Len(s) < Len(t) /\ Len(s) \in 0 .. Len(s)
  OBVIOUS
<1>2. PrefixSums(t)[Len(s)] = PrefixSums(s)[Len(s)]
  BY <1>1, PrefixSumsAgree
<1> QED BY <1>1, <1>2, PrefixSumsStep DEF Total

\* A function on 1 .. m with integer values is a sequence of length m.
LEMMA IntSeq ==
  ASSUME NEW m \in Nat, NEW f \in [1 .. m -> Int]
  PROVE  /\ f \in Seq(Int) /\ Len(f) = m /\ DOMAIN f = 1 .. m
BY SeqDef

\* Changing one element by d changes the total by d.
LEMMA TotalChangedAt ==
  ASSUME NEW s \in Seq(Int), NEW t \in Seq(Int), Len(t) = Len(s),
         NEW k \in 1 .. Len(s), NEW d \in Int, t[k] = s[k] + d,
         \A i \in 1 .. Len(s) : i # k => t[i] = s[i]
  PROVE  Total(t) = Total(s) + d
<1> DEFINE u == [i \in 1 .. Len(s) |-> IF i = k THEN d ELSE 0]
<1>1. Len(s) \in Nat
  OBVIOUS
<1>2. u \in [1 .. Len(s) -> Int]
  OBVIOUS
<1>3. u \in Seq(Int) /\ Len(u) = Len(s)
  <2> HIDE DEF u
  <2> QED BY <1>1, <1>2, IntSeq
<1>4. \A i \in 1 .. Len(s) : u[i] = IF i = k THEN d ELSE 0
  OBVIOUS
<1> HIDE DEF u
<1> DEFINE T == {n \in Nat : n <= Len(s) => PrefixSums(u)[n] = IF n < k THEN 0 ELSE d}
<1>5. 0 \in T
  BY <1>3, PrefixSumsStep
<1>6. ASSUME NEW n \in Nat, n \in T PROVE n + 1 \in T
  <2> SUFFICES ASSUME n + 1 <= Len(s)
               PROVE  PrefixSums(u)[n + 1] = IF n + 1 < k THEN 0 ELSE d
    OBVIOUS
  <2>1. n < Len(u) /\ n <= Len(s) /\ n + 1 \in 1 .. Len(s)
    BY <1>1, <1>3
  <2>2. PrefixSums(u)[n + 1] = PrefixSums(u)[n] + u[n + 1]
    BY <1>3, <2>1, PrefixSumsStep
  <2>3. PrefixSums(u)[n] = IF n < k THEN 0 ELSE d
    BY <1>6, <2>1
  <2>4. u[n + 1] = IF n + 1 = k THEN d ELSE 0
    BY <1>4, <2>1
  <2> QED BY <2>2, <2>3, <2>4
<1>7. Nat \subseteq T
  <2> HIDE DEF T
  <2> QED BY <1>5, <1>6, Induction
<1>8. Len(s) \in T /\ ~(Len(s) < k)
  BY <1>1, <1>7
<1>9. Total(u) = d
  BY <1>1, <1>3, <1>8 DEF Total
<1>10. \A i \in 1 .. Len(t) : t[i] = s[i] + u[i]
  <2> TAKE i \in 1 .. Len(t)
  <2>1. s[i] \in Int
    BY ElementOfSeq
  <2> QED BY <1>4, <2>1
<1>11. Total(t) = Total(s) + Total(u)
  BY <1>3, <1>10, TotalOfSum
<1> QED BY <1>9, <1>11

\* The total of a pointwise difference is the difference of the totals.
LEMMA TotalOfDifference ==
  ASSUME NEW s \in Seq(Int), NEW t \in Seq(Int), NEW u \in Seq(Int),
         Len(t) = Len(s), Len(u) = Len(s),
         \A i \in 1 .. Len(s) : s[i] = t[i] - u[i]
  PROVE  Total(s) = Total(t) - Total(u)
<1>1. \A i \in 1 .. Len(t) : t[i] = s[i] + u[i]
  <2> TAKE i \in 1 .. Len(t)
  <2>1. t[i] \in Int /\ u[i] \in Int /\ s[i] = t[i] - u[i]
    BY ElementOfSeq
  <2> QED BY <2>1
<1>2. Total(t) = Total(s) + Total(u)
  <2>1. Len(s) = Len(t) /\ Len(u) = Len(t)
    OBVIOUS
  <2> QED BY <1>1, <2>1, TotalOfSum
<1>3. Total(s) \in Int /\ Total(t) \in Int /\ Total(u) \in Int
  BY TotalType
<1> QED BY <1>2, <1>3

\* Negating every element negates the total.
LEMMA TotalOfNegation ==
  ASSUME NEW s \in Seq(Int), NEW t \in Seq(Int), Len(t) = Len(s),
         \A i \in 1 .. Len(s) : t[i] = -s[i]
  PROVE  Total(t) = -Total(s)
<1> DEFINE z == [i \in 1 .. Len(s) |-> 0]
<1>1. Len(s) \in Nat /\ z \in [1 .. Len(s) -> Int]
  OBVIOUS
<1>2. z \in Seq(Int) /\ Len(z) = Len(s)
  <2> HIDE DEF z
  <2> QED BY <1>1, IntSeq
<1>3. \A i \in 1 .. Len(s) : z[i] = 0
  OBVIOUS
<1> HIDE DEF z
<1>4. \A i \in 1 .. Len(t) : t[i] = z[i] - s[i]
  <2> TAKE i \in 1 .. Len(t)
  <2>1. s[i] \in Int /\ t[i] = -s[i] /\ z[i] = 0
    BY <1>3, ElementOfSeq
  <2> QED BY <2>1
<1>5. Total(t) = Total(z) - Total(s)
  <2>1. Len(z) = Len(t) /\ Len(s) = Len(t)
    BY <1>2
  <2> QED BY <1>2, <1>4, <2>1, TotalOfDifference
<1>6. Total(z) = 0
  BY <1>2, <1>3, TotalOfZeros
<1>7. Total(s) \in Int
  BY TotalType
<1> QED BY <1>5, <1>6, <1>7

\* name lists m different names, of[i] is the name element i of v belongs to,
\* part[k] keeps the elements of the k-th name, sums[k] is their total, and any
\* keeps the elements of all the names.
SumsPerName(m, name, v, of, part, any, sums) ==
    /\ m \in Nat /\ \A j, k \in 1 .. m : name[j] = name[k] => j = k
    /\ v \in Seq(Int) /\ any \in Seq(Int) /\ sums \in Seq(Int)
    /\ Len(any) = Len(v) /\ Len(sums) = m
    /\ \A k \in 1 .. m : /\ part[k] \in Seq(Int) /\ Len(part[k]) = Len(v)
                         /\ sums[k] = Total(part[k])
    /\ \A k \in 1 .. m, i \in 1 .. Len(v) : part[k][i] = IF of[i] = name[k] THEN v[i] ELSE 0
    /\ \A i \in 1 .. Len(v) : any[i] = IF \E k \in 1 .. m : of[i] = name[k] THEN v[i] ELSE 0

\* Summing per name and then over the names is summing what any of them has.
LEMMA SumsByName ==
  ASSUME NEW m, NEW name, NEW v, NEW of, NEW part, NEW any, NEW sums,
         SumsPerName(m, name, v, of, part, any, sums)
  PROVE  Total(sums) = Total(any)
<1> DEFINE Row(n)  == [k \in 1 .. m |-> PrefixSums(part[k])[n]]
<1>1. /\ m \in Nat /\ v \in Seq(Int) /\ Len(v) \in Nat
      /\ \A i \in 1 .. Len(v) : v[i] \in Int
  BY ElementOfSeq DEF SumsPerName
<1>2. \A k \in 1 .. m : part[k] \in Seq(Int) /\ Len(part[k]) = Len(v)
  BY DEF SumsPerName
<1>3. any \in Seq(Int) /\ Len(any) = Len(v)
  BY DEF SumsPerName
<1>4. \A k \in 1 .. m, i \in 1 .. Len(v) : part[k][i] = IF of[i] = name[k] THEN v[i] ELSE 0
  BY DEF SumsPerName
<1>5. \A i \in 1 .. Len(v) : any[i] = IF \E k \in 1 .. m : of[i] = name[k] THEN v[i] ELSE 0
  BY DEF SumsPerName
<1>6. \A n \in 0 .. Len(v) : /\ Row(n) \in Seq(Int) /\ Len(Row(n)) = m
                            /\ \A k \in 1 .. m : Row(n)[k] = PrefixSums(part[k])[n]
  <2> TAKE n \in 0 .. Len(v)
  <2>1. \A k \in 1 .. m : PrefixSums(part[k])[n] \in Int
    BY <1>2, PrefixSumsType
  <2>2. Row(n) \in [1 .. m -> Int] /\ \A k \in 1 .. m : Row(n)[k] = PrefixSums(part[k])[n]
    BY <2>1
  <2> HIDE DEF Row
  <2> QED BY <1>1, <2>2, IntSeq
<1> HIDE DEF Row
<1> DEFINE T == {n \in Nat : n <= Len(v) => Total(Row(n)) = PrefixSums(any)[n]}
<1>7. 0 \in T
  <2>1. \A k \in 1 .. m : Row(0)[k] = 0
    <3>1. 0 \in 0 .. Len(v)
      BY <1>1
    <3>2. \A k \in 1 .. m : PrefixSums(part[k])[0] = 0
      BY <1>2, PrefixSumsStep
    <3>3. \A k \in 1 .. m : Row(0)[k] = PrefixSums(part[k])[0]
      BY DEF Row
    <3> QED BY <3>2, <3>3
  <2>2. Row(0) \in Seq(Int) /\ Len(Row(0)) = m
    BY <1>1, <1>6
  <2>3. Total(Row(0)) = 0
    BY <2>1, <2>2, TotalOfZeros
  <2>4. PrefixSums(any)[0] = 0
    BY <1>3, PrefixSumsStep
  <2> QED BY <2>3, <2>4
<1>8. ASSUME NEW n \in Nat, n \in T PROVE n + 1 \in T
  <2> SUFFICES ASSUME n + 1 <= Len(v) PROVE Total(Row(n + 1)) = PrefixSums(any)[n + 1]
    OBVIOUS
  <2>1. n < Len(v) /\ n \in 0 .. Len(v) /\ n + 1 \in 0 .. Len(v) /\ n + 1 \in 1 .. Len(v)
    BY <1>1
  <2>2. \A k \in 1 .. m : Row(n + 1)[k] = Row(n)[k] + (IF of[n + 1] = name[k] THEN v[n + 1] ELSE 0)
    <3> TAKE k \in 1 .. m
    <3>1. PrefixSums(part[k])[n + 1] = PrefixSums(part[k])[n] + part[k][n + 1]
      BY <1>2, <2>1, PrefixSumsStep
    <3> QED BY <1>4, <1>6, <2>1, <3>1
  <2>3. /\ Row(n) \in Seq(Int) /\ Len(Row(n)) = m
        /\ Row(n + 1) \in Seq(Int) /\ Len(Row(n + 1)) = m
    BY <1>6, <2>1
  <2>4. \A k \in 1 .. m : Row(n)[k] \in Int
    BY <2>3, ElementOfSeq
  <2>5. PrefixSums(any)[n + 1] = Total(Row(n)) + any[n + 1]
    BY <1>3, <1>8, <2>1, PrefixSumsStep
  <2>6. Total(Row(n)) \in Int /\ v[n + 1] \in Int
    BY <1>1, <2>1, <2>3, TotalType
  <2>7. CASE \E k \in 1 .. m : of[n + 1] = name[k]
    <3>1. PICK k \in 1 .. m : of[n + 1] = name[k]
      BY <2>7
    <3>2. any[n + 1] = v[n + 1]
      BY <1>5, <2>1, <2>7
    <3>3. Row(n + 1)[k] = Row(n)[k] + v[n + 1]
      BY <2>2, <3>1
    <3>4. \A j \in 1 .. m : j # k => Row(n + 1)[j] = Row(n)[j]
      <4>1. \A j \in 1 .. m : j # k => of[n + 1] # name[j]
        BY <3>1 DEF SumsPerName
      <4> QED BY <2>2, <2>4, <4>1
    <3>5. Total(Row(n + 1)) = Total(Row(n)) + v[n + 1]
      <4>1. /\ Len(Row(n + 1)) = Len(Row(n)) /\ k \in 1 .. Len(Row(n))
            /\ \A j \in 1 .. Len(Row(n)) : j # k => Row(n + 1)[j] = Row(n)[j]
        BY <2>3, <3>4
      <4> QED BY <2>3, <2>6, <3>3, <4>1, TotalChangedAt
    <3> QED BY <2>5, <3>2, <3>5
  <2>8. CASE ~\E k \in 1 .. m : of[n + 1] = name[k]
    <3>1. any[n + 1] = 0
      BY <1>5, <2>1, <2>8
    <3>2. \A j \in 1 .. m : Row(n + 1)[j] = Row(n)[j]
      BY <2>2, <2>4, <2>8
    <3>3. Row(n + 1) = Row(n)
      BY <2>3, <3>2, SeqEqual
    <3> QED BY <2>5, <2>6, <3>1, <3>3
  <2> QED BY <2>7, <2>8
<1>9. Nat \subseteq T
  <2> HIDE DEF T
  <2> QED BY <1>7, <1>8, Induction
<1>10. Total(Row(Len(v))) = Total(any)
  BY <1>1, <1>3, <1>9 DEF Total
<1>11. Row(Len(v)) = sums
  <2>1. /\ Row(Len(v)) \in Seq(Int) /\ Len(Row(Len(v))) = m
        /\ sums \in Seq(Int) /\ Len(sums) = m
    BY <1>1, <1>6 DEF SumsPerName
  <2>2. \A k \in 1 .. m : Row(Len(v))[k] = sums[k]
    <3>1. \A k \in 1 .. m : Row(Len(v))[k] = PrefixSums(part[k])[Len(v)]
      BY DEF Row
    <3>2. \A k \in 1 .. m : sums[k] = PrefixSums(part[k])[Len(v)]
      BY DEF SumsPerName, Total
    <3> QED BY <3>1, <3>2
  <2> QED BY <2>1, <2>2, SeqEqual
<1> QED BY <1>10, <1>11

-----------------------------------------------------------------------------
(* Legs.                                                                    *)

\* What typed legs look like, position by position.
LEMMA LegFacts ==
  ASSUME NEW legs \in Seq(Leg)
  PROVE  /\ Len(legs) \in Nat /\ DOMAIN legs = 1 .. Len(legs)
         /\ \A i \in 1 .. Len(legs) :
               /\ legs[i].account \in Accounts /\ legs[i].direction \in {"debit", "credit"}
               /\ legs[i].amount \in Int /\ legs[i].currency \in CurrencySet
               /\ DebitSigned(legs[i]) \in Int /\ Signed(AccountType, legs[i]) \in Int
<1>1. Len(legs) \in Nat /\ DOMAIN legs = 1 .. Len(legs)
  OBVIOUS
<1>2. \A i \in 1 .. Len(legs) : legs[i] \in Leg
  BY ElementOfSeq
<1> QED BY <1>1, <1>2 DEF Leg, Directions, DebitSigned, Signed

\* The rules build typed legs from a typed request.
LEMMA RuleLegsTyped ==
  ASSUME NEW p \in Postings, RuleAccepts(p)
  PROVE  Legs(p) \in Seq(Leg)
<1>1. \A a, d, m : a \in Accounts /\ d \in Directions /\ m \in Int => Entry(a, d, m, p.currency) \in Leg
  BY DEF Entry, Leg, CurrencySet
<1>2. CASE p.kind = "split_purchase"
  <2>1. /\ {p.split[i].role : i \in DOMAIN p.split} \cup {"funding"} \subseteq DOMAIN p.accounts
    <3>1. "split_purchase" \notin DOMAIN Shape
      BY DEF Shape
    <3> QED BY <1>2, <3>1 DEF RuleAccepts
  <2>2. /\ p.split \in Seq([role : STRING, minor : Int]) /\ Len(p.split) \in Nat
        /\ DOMAIN p.split = 1 .. Len(p.split)
    BY PostingsAssumption
  <2>3. \A i \in 1 .. Len(p.split) : p.split[i].minor \in Int
    <3>1. \A i \in 1 .. Len(p.split) : p.split[i] \in [role : STRING, minor : Int]
      BY <2>2, ElementOfSeq
    <3> QED BY <3>1
  <2> DEFINE debits == [i \in DOMAIN p.split |->
               Entry(p.accounts[p.split[i].role], "debit", p.split[i].minor, p.currency)]
  <2>4. \A i \in 1 .. Len(p.split) :
           Entry(p.accounts[p.split[i].role], "debit", p.split[i].minor, p.currency) \in Leg
    BY <1>1, <2>1, <2>2, <2>3, PostingsAssumption DEF Directions
  <2>5. debits \in [1 .. Len(p.split) -> Leg]
    BY <2>2, <2>4
  <2>6. debits \in Seq(Leg)
    <3> HIDE DEF debits
    <3> QED BY <2>2, <2>5, SeqDef
  <2>7. Entry(p.accounts["funding"], "credit", p.amount, p.currency) \in Leg
    BY <1>1, <2>1, PostingsAssumption DEF Directions
  <2> QED BY <1>2, <2>6, <2>7, AppendProperties DEF Legs, SplitPurchase
<1>3. CASE p.kind # "split_purchase"
  <2>1. Shape[p.kind][1] \in DOMAIN p.accounts /\ Shape[p.kind][2] \in DOMAIN p.accounts
    BY <1>3 DEF RuleAccepts
  <2>2. /\ Entry(p.accounts[Shape[p.kind][1]], "debit", p.amount, p.currency) \in Leg
        /\ Entry(p.accounts[Shape[p.kind][2]], "credit", p.amount, p.currency) \in Leg
    BY <1>1, <2>1, PostingsAssumption DEF Directions
  <2> QED BY <1>3, <2>2 DEF Legs, Simple
<1> QED BY <1>2, <1>3

\* The mirror of typed legs is typed and has as many legs.
LEMMA ReversalTyped ==
  ASSUME NEW legs \in Seq(Leg)
  PROVE  /\ Reversal(legs) \in Seq(Leg) /\ Len(Reversal(legs)) = Len(legs)
         /\ \A i \in 1 .. Len(legs) :
               Reversal(legs)[i] = Entry(legs[i].account, Opposite(legs[i].direction),
                                         legs[i].amount, legs[i].currency)
<1>1. Len(legs) \in Nat /\ DOMAIN legs = 1 .. Len(legs)
  OBVIOUS
<1>2. \A i \in 1 .. Len(legs) :
         Entry(legs[i].account, Opposite(legs[i].direction), legs[i].amount, legs[i].currency) \in Leg
  BY LegFacts DEF Entry, Leg, Opposite, Directions
<1>3. Reversal(legs) \in [1 .. Len(legs) -> Leg]
  BY <1>1, <1>2 DEF Reversal
<1>4. Reversal(legs) \in Seq(Leg) /\ Len(Reversal(legs)) = Len(legs)
  BY <1>1, <1>3, SeqDef
<1> QED BY <1>1, <1>4 DEF Reversal

\* The drift of a currency is the difference of its two side totals.
LEMMA DriftIsDifference ==
  ASSUME NEW legs \in Seq(Leg), NEW c
  PROVE  /\ Drift(c, legs) = SideTotal("debit", c, legs) - SideTotal("credit", c, legs)
         /\ SideTotal("debit", c, legs) \in Int /\ SideTotal("credit", c, legs) \in Int
<1> DEFINE s == [i \in DOMAIN legs |-> IF legs[i].currency = c THEN DebitSigned(legs[i]) ELSE 0]
           t == [i \in DOMAIN legs |-> IF legs[i].currency = c /\ legs[i].direction = "debit"
                                       THEN legs[i].amount ELSE 0]
           u == [i \in DOMAIN legs |-> IF legs[i].currency = c /\ legs[i].direction = "credit"
                                       THEN legs[i].amount ELSE 0]
<1>1. /\ s \in [1 .. Len(legs) -> Int] /\ t \in [1 .. Len(legs) -> Int]
      /\ u \in [1 .. Len(legs) -> Int] /\ Len(legs) \in Nat
  BY LegFacts
<1>2. \A i \in 1 .. Len(legs) : s[i] = t[i] - u[i]
  BY LegFacts DEF DebitSigned
<1>3. Drift(c, legs) = Total(s) /\ SideTotal("debit", c, legs) = Total(t)
      /\ SideTotal("credit", c, legs) = Total(u)
  BY DEF Drift, SideTotal
<1> HIDE DEF s, t, u
<1>4. /\ s \in Seq(Int) /\ t \in Seq(Int) /\ u \in Seq(Int)
      /\ Len(s) = Len(legs) /\ Len(t) = Len(legs) /\ Len(u) = Len(legs)
  BY <1>1, IntSeq
<1>5. Total(s) = Total(t) - Total(u)
  <2>1. Len(t) = Len(s) /\ Len(u) = Len(s) /\ \A i \in 1 .. Len(s) : s[i] = t[i] - u[i]
    BY <1>2, <1>4
  <2> QED BY <1>4, <2>1, TotalOfDifference
<1> QED BY <1>3, <1>4, <1>5, TotalType

\* The check of the constructor and the trigger agree on two legs or more.
LEMMA ChecksAgreeOnLegs ==
  ASSUME NEW legs \in Seq(Leg), Len(legs) >= 2
  PROVE  JournalAccepts(legs) <=> TriggerAccepts(legs)
<1>1. \A c \in Currencies(legs) :
         Drift(c, legs) = 0 <=> SideTotal("debit", c, legs) = SideTotal("credit", c, legs)
  BY DriftIsDifference
<1> QED BY <1>1 DEF JournalAccepts, TriggerAccepts

\* A reversal does the opposite to every account.
LEMMA ReversalNegates ==
  ASSUME NEW legs \in Seq(Leg), NEW a
  PROVE  BalanceOf(AccountType, a, Reversal(legs)) = -BalanceOf(AccountType, a, legs)
<1> DEFINE s == [i \in DOMAIN legs |-> IF legs[i].account = a THEN Signed(AccountType, legs[i]) ELSE 0]
           t == [i \in DOMAIN Reversal(legs) |->
                    IF Reversal(legs)[i].account = a THEN Signed(AccountType, Reversal(legs)[i]) ELSE 0]
<1>1. DOMAIN legs = 1 .. Len(legs) /\ DOMAIN Reversal(legs) = 1 .. Len(legs) /\ Len(legs) \in Nat
  BY DEF Reversal
<1>2. s \in [1 .. Len(legs) -> Int]
  BY <1>1, LegFacts
<1>3. t \in [1 .. Len(legs) -> Int]
  <2>1. Reversal(legs) \in Seq(Leg) /\ Len(Reversal(legs)) = Len(legs)
    BY ReversalTyped
  <2>2. \A i \in 1 .. Len(legs) : Signed(AccountType, Reversal(legs)[i]) \in Int
    BY <2>1, LegFacts
  <2> QED BY <1>1, <2>2
<1>4. \A i \in 1 .. Len(legs) : t[i] = -s[i]
  <2> TAKE i \in 1 .. Len(legs)
  <2>1. Reversal(legs)[i] = Entry(legs[i].account, Opposite(legs[i].direction),
                                  legs[i].amount, legs[i].currency)
    BY ReversalTyped
  <2>2. /\ Reversal(legs)[i].account = legs[i].account
        /\ Reversal(legs)[i].direction = Opposite(legs[i].direction)
        /\ Reversal(legs)[i].amount = legs[i].amount
    BY <2>1 DEF Entry
  <2>3. legs[i].direction \in {"debit", "credit"} /\ legs[i].amount \in Int
    BY LegFacts
  <2>4. NormalBalance(AccountType[legs[i].account]) \in {"debit", "credit"}
    BY DEF NormalBalance
  <2>5. Signed(AccountType, Reversal(legs)[i]) = -Signed(AccountType, legs[i])
    BY <2>2, <2>3, <2>4 DEF Signed, Opposite
  <2> QED BY <1>1, <2>2, <2>5
<1>5. BalanceOf(AccountType, a, Reversal(legs)) = Total(t) /\ BalanceOf(AccountType, a, legs) = Total(s)
  BY DEF BalanceOf
<1> HIDE DEF s, t
<1>6. s \in Seq(Int) /\ t \in Seq(Int) /\ Len(s) = Len(legs) /\ Len(t) = Len(legs)
  BY <1>1, <1>2, <1>3, IntSeq
<1>7. Len(t) = Len(s) /\ \A i \in 1 .. Len(s) : t[i] = -s[i]
  BY <1>4, <1>6
<1> QED BY <1>5, <1>6, <1>7, TotalOfNegation

-----------------------------------------------------------------------------
(* The accounting equation.                                                 *)

\* The list of a side's accounts names each of them once.
LEMMA SideFacts ==
  ASSUME NEW side
  PROVE  /\ Len(Side(side)) \in Nat /\ DOMAIN Side(side) = 1 .. Len(Side(side))
         /\ \A j, k \in 1 .. Len(Side(side)) : Side(side)[j] = Side(side)[k] => j = k
         /\ \A a : (\E k \in 1 .. Len(Side(side)) : a = Side(side)[k])
                      <=> (a \in Accounts /\ NormalBalance(AccountType[a]) = side)
<1> DEFINE S == {a \in Accounts : NormalBalance(AccountType[a]) = side}
           N == Cardinality(S)
           f == Side(side)
<1>1. IsFiniteSet(S)
  BY AccountsAssumption, FS_Subset
<1> HIDE DEF S
<1>2. N \in Nat /\ ExistsBijection(1 .. N, S)
  BY <1>1, FS_CardinalityType
<1>3. \E g \in [1 .. N -> S] : IsInjective(g)
  BY <1>2 DEF ExistsBijection, Bijection, Injection
<1>4. f = CHOOSE g \in [1 .. N -> S] : IsInjective(g)
  BY DEF Side, SetToSeq, S
<1>5. f \in [1 .. N -> S] /\ IsInjective(f)
  <2> HIDE DEF N, f
  <2> QED BY <1>3, <1>4
<1>6. f \in Surjection(1 .. N, S)
  <2>1. f \in Injection(1 .. N, S)
    BY <1>5 DEF Injection
  <2>2. Cardinality(1 .. N) = N
    BY <1>2, FS_Interval
  <2> HIDE DEF N, f
  <2> QED BY <1>1, <2>1, <2>2, FS_Injection DEF N
<1>7. DOMAIN f = 1 .. N /\ Len(f) = N
  BY <1>2, <1>5, SeqDef
<1>8. \A j, k \in 1 .. N : f[j] = f[k] => j = k
  BY <1>5, <1>7 DEF IsInjective
<1>9. \A a : (\E k \in 1 .. N : a = f[k]) <=> a \in S
  BY <1>5, <1>6 DEF Surjection
<1> QED BY <1>2, <1>7, <1>8, <1>9 DEF S

\* What a leg sequence does to the accounts of one side together.
SideMovement(side, c, legs) ==
    Total([k \in 1 .. Len(Side(side)) |-> Movement(Side(side)[k], c, legs)])

\* The movement of an account is an integer.
LEMMA MovementType ==
  ASSUME NEW legs \in Seq(Leg), NEW a, NEW c
  PROVE  Movement(a, c, legs) \in Int
<1> DEFINE s == [i \in DOMAIN legs |->
                   IF legs[i].account = a /\ legs[i].currency = c
                   THEN Signed(AccountType, legs[i]) ELSE 0]
<1>1. s \in [1 .. Len(legs) -> Int] /\ Len(legs) \in Nat
  BY LegFacts
<1>2. Movement(a, c, legs) = Total(s)
  BY DEF Movement
<1> HIDE DEF s
<1> QED BY <1>1, <1>2, IntSeq, TotalType

\* The legs move the two sides by amounts that differ by the drift.
LEMMA SidesMoveByDrift ==
  ASSUME NEW legs \in Seq(Leg), NEW c
  PROVE  /\ Drift(c, legs) = SideMovement("debit", c, legs) - SideMovement("credit", c, legs)
         /\ SideMovement("debit", c, legs) \in Int /\ SideMovement("credit", c, legs) \in Int
<1> DEFINE N     == Len(legs)
           of    == [i \in 1 .. N |-> legs[i].account]
           v     == [i \in 1 .. N |-> IF legs[i].currency = c THEN Signed(AccountType, legs[i]) ELSE 0]
           On(side) == [i \in 1 .. N |->
                          IF \E k \in 1 .. Len(Side(side)) : of[i] = Side(side)[k] THEN v[i] ELSE 0]
           drift == [i \in 1 .. N |-> IF legs[i].currency = c THEN DebitSigned(legs[i]) ELSE 0]
<1>1. N \in Nat /\ DOMAIN legs = 1 .. N
  BY LegFacts
<1>2. v \in [1 .. N -> Int]
  BY LegFacts
<1>3. v \in Seq(Int) /\ Len(v) = N
  <2> HIDE DEF v, N
  <2> QED BY <1>1, <1>2, IntSeq
<1>4. ASSUME NEW side PROVE SideMovement(side, c, legs) = Total(On(side))
  <2> DEFINE m    == Len(Side(side))
             name == Side(side)
             part == [k \in 1 .. m |-> [i \in 1 .. N |-> IF of[i] = name[k] THEN v[i] ELSE 0]]
             any  == On(side)
             sums == [k \in 1 .. m |-> Movement(name[k], c, legs)]
  <2>1. m \in Nat /\ \A j, k \in 1 .. m : name[j] = name[k] => j = k
    BY SideFacts
  <2>2. \A k \in 1 .. m : part[k] \in [1 .. N -> Int]
    BY <1>2
  <2>3. \A k \in 1 .. m, i \in 1 .. N : part[k][i] = IF of[i] = name[k] THEN v[i] ELSE 0
    OBVIOUS
  <2>4. \A k \in 1 .. m : sums[k] = Total(part[k])
    <3> TAKE k \in 1 .. m
    <3>1. [i \in DOMAIN legs |->
             IF legs[i].account = name[k] /\ legs[i].currency = c
             THEN Signed(AccountType, legs[i]) ELSE 0] = part[k]
      BY <1>1
    <3> QED BY <3>1 DEF Movement
  <2>5. any \in [1 .. N -> Int]
    BY <1>2
  <2>6. \A i \in 1 .. N : any[i] = IF \E k \in 1 .. m : of[i] = name[k] THEN v[i] ELSE 0
    OBVIOUS
  <2>7. sums \in [1 .. m -> Int] /\ SideMovement(side, c, legs) = Total(sums)
    BY MovementType DEF SideMovement
  <2> HIDE DEF m, name, part, any, sums, v, of, N
  <2>8. /\ any \in Seq(Int) /\ Len(any) = Len(v) /\ sums \in Seq(Int) /\ Len(sums) = m
        /\ \A k \in 1 .. m : part[k] \in Seq(Int) /\ Len(part[k]) = Len(v)
    BY <1>1, <1>3, <2>1, <2>2, <2>5, <2>7, IntSeq
  <2>9. Total(sums) = Total(any)
    <3>1. v \in Seq(Int) /\ any \in Seq(Int) /\ sums \in Seq(Int) /\ Len(any) = Len(v) /\ Len(sums) = m
      BY <1>3, <2>8
    <3>2. \A k \in 1 .. m : /\ part[k] \in Seq(Int) /\ Len(part[k]) = Len(v)
                            /\ sums[k] = Total(part[k])
      BY <2>4, <2>8
    <3>3. /\ \A k \in 1 .. m, i \in 1 .. Len(v) :
                part[k][i] = IF of[i] = name[k] THEN v[i] ELSE 0
          /\ \A i \in 1 .. Len(v) :
                any[i] = IF \E k \in 1 .. m : of[i] = name[k] THEN v[i] ELSE 0
      BY <1>3, <2>3, <2>6
    <3>4. SumsPerName(m, name, v, of, part, any, sums)
      BY <2>1, <3>1, <3>2, <3>3 DEF SumsPerName
    <3> QED BY <3>4, SumsByName
  <2> QED BY <2>7, <2>9 DEF any
<1>5. \A side : On(side) \in [1 .. N -> Int]
  BY <1>2
<1>6. \A i \in 1 .. N : drift[i] = On("debit")[i] - On("credit")[i]
  <2> TAKE i \in 1 .. N
  <2>1. /\ legs[i].account \in Accounts /\ legs[i].direction \in {"debit", "credit"}
        /\ legs[i].amount \in Int
    BY LegFacts
  <2>2. NormalBalance(AccountType[legs[i].account]) \in {"debit", "credit"}
    BY DEF NormalBalance
  <2>3. \A side : On(side)[i] = IF NormalBalance(AccountType[legs[i].account]) = side THEN v[i] ELSE 0
    BY <2>1, SideFacts
  <2>4. /\ On("debit")[i]
              = IF NormalBalance(AccountType[legs[i].account]) = "debit" THEN v[i] ELSE 0
        /\ On("credit")[i]
              = IF NormalBalance(AccountType[legs[i].account]) = "credit" THEN v[i] ELSE 0
    BY <2>3
  <2>5. /\ v[i] = IF legs[i].currency = c THEN Signed(AccountType, legs[i]) ELSE 0
        /\ drift[i] = IF legs[i].currency = c THEN DebitSigned(legs[i]) ELSE 0
    OBVIOUS
  <2> HIDE DEF v, On, drift
  <2> QED BY <2>1, <2>2, <2>4, <2>5 DEF DebitSigned, Signed
<1>7. drift \in [1 .. N -> Int]
  BY LegFacts
<1>8. Drift(c, legs) = Total(drift)
  BY <1>1 DEF Drift
<1> HIDE DEF N, On, drift, v, of
<1>9. /\ drift \in Seq(Int) /\ Len(drift) = N
      /\ On("debit") \in Seq(Int) /\ Len(On("debit")) = N
      /\ On("credit") \in Seq(Int) /\ Len(On("credit")) = N
  BY <1>1, <1>5, <1>7, IntSeq
<1>10. Total(drift) = Total(On("debit")) - Total(On("credit"))
  <2>1. /\ Len(On("debit")) = Len(drift) /\ Len(On("credit")) = Len(drift)
        /\ \A i \in 1 .. Len(drift) : drift[i] = On("debit")[i] - On("credit")[i]
    BY <1>6, <1>9
  <2> QED BY <1>9, <2>1, TotalOfDifference
<1>11. Total(On("debit")) \in Int /\ Total(On("credit")) \in Int
  BY <1>9, TotalType
<1> QED BY <1>4, <1>8, <1>10, <1>11

\* Legs the constructor accepts move the two sides by the same amount, in every
\* currency, those they do not mention included.
LEMMA AcceptedMovesBothSides ==
  ASSUME NEW legs \in Seq(Leg), JournalAccepts(legs), NEW c
  PROVE  SideMovement("debit", c, legs) = SideMovement("credit", c, legs)
<1>1. Drift(c, legs) = 0
  <2>1. CASE c \in Currencies(legs)
    BY <2>1 DEF JournalAccepts
  <2>2. CASE c \notin Currencies(legs)
    <3> DEFINE s == [i \in DOMAIN legs |-> IF legs[i].currency = c THEN DebitSigned(legs[i]) ELSE 0]
    <3>1. Len(legs) \in Nat /\ DOMAIN legs = 1 .. Len(legs)
      BY LegFacts
    <3>2. \A i \in 1 .. Len(legs) : s[i] = 0
      BY <2>2, <3>1 DEF Currencies
    <3>3. s \in [1 .. Len(legs) -> Int]
      BY <3>1, LegFacts
    <3>4. Drift(c, legs) = Total(s)
      BY DEF Drift
    <3> HIDE DEF s
    <3>5. s \in Seq(Int) /\ Len(s) = Len(legs)
      BY <3>1, <3>3, IntSeq
    <3> QED BY <3>2, <3>4, <3>5, TotalOfZeros
  <2> QED BY <2>1, <2>2
<1> QED BY <1>1, SidesMoveByDrift

-----------------------------------------------------------------------------
(* The deltas of _check_floors.                                             *)

\* The dictionary is well defined after every leg.
LEMMA DeltasExist ==
  ASSUME NEW X, NEW legs \in Seq(X)
  PROVE  \E f : f = [n \in 0 .. Len(legs) |->
                       IF n = 0 THEN <<>> ELSE AddDelta(AccountType, f[n - 1], legs[n])]
<1> DEFINE T == {k \in Nat : k <= Len(legs) =>
                   \E f : f = [n \in 0 .. k |->
                       IF n = 0 THEN <<>> ELSE AddDelta(AccountType, f[n - 1], legs[n])]}
<1>1. 0 \in T
  <2> DEFINE f == [n \in 0 .. 0 |-> <<>>]
  <2>1. f = [n \in 0 .. 0 |-> IF n = 0 THEN <<>> ELSE AddDelta(AccountType, f[n - 1], legs[n])]
    OBVIOUS
  <2> QED BY <2>1
<1>2. ASSUME NEW k \in Nat, k \in T PROVE k + 1 \in T
  <2> SUFFICES ASSUME k + 1 <= Len(legs)
               PROVE  \E f : f = [n \in 0 .. (k + 1) |->
                         IF n = 0 THEN <<>> ELSE AddDelta(AccountType, f[n - 1], legs[n])]
    OBVIOUS
  <2>1. PICK f : f = [n \in 0 .. k |->
                        IF n = 0 THEN <<>> ELSE AddDelta(AccountType, f[n - 1], legs[n])]
    BY <1>2
  <2> DEFINE g == [n \in 0 .. (k + 1) |->
                     IF n = k + 1 THEN AddDelta(AccountType, f[k], legs[k + 1]) ELSE f[n]]
  <2>2. \A n \in 0 .. (k + 1) :
           g[n] = IF n = 0 THEN <<>> ELSE AddDelta(AccountType, g[n - 1], legs[n])
    <3> TAKE n \in 0 .. (k + 1)
    <3>1. CASE n = k + 1
      <4>1. n # 0 /\ n - 1 = k /\ k \in 0 .. (k + 1) /\ k # k + 1
        BY <3>1
      <4> QED BY <4>1, <3>1
    <3>2. CASE n # k + 1
      <4>1. n \in 0 .. k
        BY <3>2
      <4>2. f[n] = IF n = 0 THEN <<>> ELSE AddDelta(AccountType, f[n - 1], legs[n])
        BY <4>1, <2>1
      <4>3. n # 0 => n - 1 \in 0 .. (k + 1) /\ n - 1 # k + 1
        BY <4>1
      <4> QED BY <4>2, <4>3, <3>2
    <3> QED BY <3>1, <3>2
  <2>3. g = [n \in 0 .. (k + 1) |->
               IF n = 0 THEN <<>> ELSE AddDelta(AccountType, g[n - 1], legs[n])]
    <3> HIDE DEF g
    <3>1. g = [n \in 0 .. (k + 1) |-> g[n]]
      BY DEF g
    <3> QED BY <3>1, <2>2
  <2> QED BY <2>3
<1>3. Nat \subseteq T
  <2> HIDE DEF T
  <2> QED BY <1>1, <1>2, Induction
<1> QED BY <1>3, Len(legs) \in Nat

\* The dictionary grows leg by leg.
LEMMA DeltasStep ==
  ASSUME NEW X, NEW legs \in Seq(X)
  PROVE  /\ DeltasUpTo(AccountType, legs)[0] = <<>>
         /\ \A n \in Nat : n < Len(legs) =>
               DeltasUpTo(AccountType, legs)[n + 1]
                 = AddDelta(AccountType, DeltasUpTo(AccountType, legs)[n], legs[n + 1])
<1> DEFINE D    == DeltasUpTo(AccountType, legs)
           G(f) == [n \in 0 .. Len(legs) |->
                      IF n = 0 THEN <<>> ELSE AddDelta(AccountType, f[n - 1], legs[n])]
<1>1. D = CHOOSE f : f = G(f)
  BY DEF DeltasUpTo
<1>2. D = G(D)
  BY <1>1, DeltasExist
<1> HIDE DEF D
<1>3. \A n \in 0 .. Len(legs) :
         D[n] = IF n = 0 THEN <<>> ELSE AddDelta(AccountType, D[n - 1], legs[n])
  BY <1>2
<1>4. Len(legs) \in Nat /\ 0 \in 0 .. Len(legs)
  OBVIOUS
<1>5. D[0] = <<>>
  BY <1>3, <1>4
<1>6. ASSUME NEW n \in Nat, n < Len(legs)
      PROVE  D[n + 1] = AddDelta(AccountType, D[n], legs[n + 1])
  <2>1. n + 1 \in 0 .. Len(legs) /\ n + 1 # 0 /\ (n + 1) - 1 = n
    BY <1>4, <1>6
  <2> QED BY <1>3, <2>1
<1> QED BY <1>5, <1>6 DEF D

\* deltas lists the accounts of a posting with their balance so far: each once,
\* and all that have one.
ListsBalances(deltas, balance) ==
    /\ deltas \in Seq([account : Accounts, delta : Int])
    /\ \A k, m \in 1 .. Len(deltas) : deltas[k].account = deltas[m].account => k = m
    /\ \A k \in 1 .. Len(deltas) : deltas[k].delta = balance[deltas[k].account]
    /\ \A a \in Accounts : balance[a] # 0 => \E k \in 1 .. Len(deltas) : deltas[k].account = a

\* One leg more keeps the list right.
LEMMA AddDeltaLists ==
  ASSUME NEW deltas, NEW old \in [Accounts -> Int], NEW new \in [Accounts -> Int],
         NEW e, e.account \in Accounts, e.amount \in Int, ListsBalances(deltas, old),
         \A a \in Accounts : new[a] = old[a] + (IF e.account = a THEN Signed(AccountType, e) ELSE 0)
  PROVE  ListsBalances(AddDelta(AccountType, deltas, e), new)
<1> DEFINE R  == [account : Accounts, delta : Int]
           d  == Signed(AccountType, e)
           x  == e.account
           nd == AddDelta(AccountType, deltas, e)
<1>1. d \in Int /\ x \in Accounts
  BY DEF Signed
<1>2. /\ deltas \in Seq(R) /\ Len(deltas) \in Nat /\ DOMAIN deltas = 1 .. Len(deltas)
      /\ \A k \in 1 .. Len(deltas) : deltas[k] \in R
  <2>1. deltas \in Seq(R)
    BY DEF ListsBalances
  <2>2. \A k \in 1 .. Len(deltas) : deltas[k] \in R
    <3> HIDE DEF R
    <3> QED BY <2>1, ElementOfSeq
  <2>3. Len(deltas) \in Nat /\ DOMAIN deltas = 1 .. Len(deltas)
    <3> HIDE DEF R
    <3> QED BY <2>1
  <2> QED BY <2>1, <2>2, <2>3
<1>3. /\ new[x] = old[x] + d
      /\ \A a \in Accounts : a # x => new[a] = old[a]
  BY <1>1
<1>4. CASE \E i \in DOMAIN deltas : deltas[i].account = x
  <2>1. PICK j \in 1 .. Len(deltas) : deltas[j].account = x
    BY <1>2, <1>4
  <2>2. nd = [i \in 1 .. Len(deltas) |->
                 IF deltas[i].account = x
                 THEN [account |-> x, delta |-> deltas[i].delta + d]
                 ELSE deltas[i]]
    BY <1>2, <1>4 DEF AddDelta
  <2> HIDE DEF nd, d, x, R
  <2>3. \A i \in 1 .. Len(deltas) :
           /\ nd[i].account = deltas[i].account
           /\ nd[i].delta = IF deltas[i].account = x THEN deltas[i].delta + d ELSE deltas[i].delta
           /\ nd[i] \in R
    <3> TAKE i \in 1 .. Len(deltas)
    <3>1. /\ deltas[i].account \in Accounts /\ deltas[i].delta \in Int /\ deltas[i] \in R
          /\ nd[i] = IF deltas[i].account = x
                     THEN [account |-> x, delta |-> deltas[i].delta + d] ELSE deltas[i]
      BY <1>2, <2>2 DEF R
    <3>2. CASE deltas[i].account = x
      <4>1. nd[i] = [account |-> x, delta |-> deltas[i].delta + d] /\ deltas[i].delta + d \in Int
        BY <1>1, <3>1, <3>2
      <4> QED BY <1>1, <3>2, <4>1 DEF R
    <3>3. CASE deltas[i].account # x
      BY <3>1, <3>3
    <3> QED BY <3>2, <3>3
  <2>4. nd \in Seq(R) /\ Len(nd) = Len(deltas)
    <3>1. nd \in [1 .. Len(deltas) -> R]
      BY <2>2, <2>3
    <3> QED BY <1>2, <3>1, SeqDef
  <2>5. \A k, m \in 1 .. Len(nd) : nd[k].account = nd[m].account => k = m
    BY <2>3, <2>4 DEF ListsBalances
  <2>6. ASSUME NEW k \in 1 .. Len(nd) PROVE nd[k].delta = new[nd[k].account]
    <3>1. deltas[k].delta = old[deltas[k].account] /\ deltas[k].account \in Accounts
      BY <1>2, <2>4 DEF ListsBalances, R
    <3> QED BY <1>1, <1>3, <2>3, <2>4, <3>1
  <2>7. ASSUME NEW a \in Accounts, new[a] # 0
        PROVE  \E k \in 1 .. Len(nd) : nd[k].account = a
    <3>1. CASE a = x
      BY <2>1, <2>3, <2>4, <3>1
    <3>2. CASE a # x
      <4>1. old[a] # 0
        BY <1>3, <2>7, <3>2
      <4>2. PICK k \in 1 .. Len(deltas) : deltas[k].account = a
        BY <4>1 DEF ListsBalances
      <4> QED BY <2>3, <2>4, <4>2
    <3> QED BY <3>1, <3>2
  <2> QED BY <2>4, <2>5, <2>6, <2>7 DEF ListsBalances, R, nd
<1>5. CASE ~\E i \in DOMAIN deltas : deltas[i].account = x
  <2>1. nd = Append(deltas, [account |-> x, delta |-> d])
    BY <1>5 DEF AddDelta
  <2>2. [account |-> x, delta |-> d] \in R
    BY <1>1
  <2>3. old[x] = 0
    BY <1>1, <1>2, <1>5 DEF ListsBalances
  <2> HIDE DEF nd, d, x
  <2>4. /\ nd \in Seq(R) /\ Len(nd) = Len(deltas) + 1
        /\ \A i \in 1 .. Len(deltas) : nd[i] = deltas[i]
        /\ nd[Len(deltas) + 1] = [account |-> x, delta |-> d]
    BY <1>2, <2>1, <2>2, AppendProperties
  <2>5. /\ nd[Len(deltas) + 1].account = x /\ nd[Len(deltas) + 1].delta = d
        /\ \A i \in 1 .. Len(deltas) : deltas[i].account # x /\ deltas[i].account \in Accounts
        /\ \A i \in 1 .. Len(nd) : i = Len(deltas) + 1 \/ i \in 1 .. Len(deltas)
    <3>1. nd[Len(deltas) + 1].account = x /\ nd[Len(deltas) + 1].delta = d
      BY <2>4
    <3>2. \A i \in 1 .. Len(deltas) : deltas[i].account # x /\ deltas[i].account \in Accounts
      BY <1>2, <1>5
    <3>3. \A i \in 1 .. Len(nd) : i = Len(deltas) + 1 \/ i \in 1 .. Len(deltas)
      BY <1>2, <2>4
    <3> QED BY <3>1, <3>2, <3>3
  <2> HIDE DEF R
  <2>6. \A k, m \in 1 .. Len(nd) : nd[k].account = nd[m].account => k = m
    BY <2>4, <2>5 DEF ListsBalances
  <2>7. ASSUME NEW k \in 1 .. Len(nd) PROVE nd[k].delta = new[nd[k].account]
    <3>1. CASE k = Len(deltas) + 1
      BY <1>1, <1>3, <2>3, <2>5, <3>1
    <3>2. CASE k \in 1 .. Len(deltas)
      <4>1. deltas[k].delta = old[deltas[k].account]
        BY <3>2 DEF ListsBalances
      <4> QED BY <1>3, <2>4, <2>5, <3>2, <4>1
    <3> QED BY <2>5, <3>1, <3>2
  <2>8. ASSUME NEW a \in Accounts, new[a] # 0
        PROVE  \E k \in 1 .. Len(nd) : nd[k].account = a
    <3>1. CASE a = x
      <4>1. Len(deltas) + 1 \in 1 .. Len(nd)
        BY <1>2, <2>4
      <4> QED BY <2>5, <3>1, <4>1
    <3>2. CASE a # x
      <4>1. old[a] # 0
        BY <1>3, <2>8, <3>2
      <4>2. PICK k \in 1 .. Len(deltas) : deltas[k].account = a
        BY <4>1 DEF ListsBalances
      <4>3. k \in 1 .. Len(nd)
        BY <1>2, <2>4
      <4> QED BY <2>4, <4>2, <4>3
    <3> QED BY <3>1, <3>2
  <2> QED BY <2>4, <2>6, <2>7, <2>8 DEF ListsBalances, R, nd
<1> QED BY <1>4, <1>5

\* The dictionary of the whole posting lists the balances of its legs.
LEMMA DeltasListBalances ==
  ASSUME NEW X, NEW legs \in Seq(X),
         \A i \in 1 .. Len(legs) : legs[i].account \in Accounts /\ legs[i].amount \in Int
  PROVE  ListsBalances(Deltas(AccountType, legs),
                       [a \in Accounts |-> BalanceOf(AccountType, a, legs)])
<1> DEFINE N      == Len(legs)
           D      == DeltasUpTo(AccountType, legs)
           Of     == [a \in Accounts |-> [i \in DOMAIN legs |->
                        IF legs[i].account = a THEN Signed(AccountType, legs[i]) ELSE 0]]
           B(n)   == [a \in Accounts |-> PrefixSums(Of[a])[n]]
<1>1. /\ N \in Nat /\ DOMAIN legs = 1 .. N
      /\ \A i \in 1 .. N : legs[i].account \in Accounts /\ legs[i].amount \in Int
  OBVIOUS
<1>2. \A a \in Accounts, i \in 1 .. N :
         Of[a][i] = IF legs[i].account = a THEN Signed(AccountType, legs[i]) ELSE 0
  BY <1>1
<1>3. \A a \in Accounts : Of[a] \in [1 .. N -> Int]
  BY <1>1 DEF Signed
<1>4. \A a \in Accounts : BalanceOf(AccountType, a, legs) = Total(Of[a])
  BY DEF BalanceOf
<1> HIDE DEF Of
<1>5. \A a \in Accounts : Of[a] \in Seq(Int) /\ Len(Of[a]) = N
  <2> HIDE DEF N
  <2> QED BY <1>1, <1>3, IntSeq
<1>6. \A n \in 0 .. N : B(n) \in [Accounts -> Int]
  BY <1>5, PrefixSumsType
<1>7. \A n \in Nat : n < N =>
         \A a \in Accounts :
            B(n + 1)[a] = B(n)[a] + (IF legs[n + 1].account = a
                                     THEN Signed(AccountType, legs[n + 1]) ELSE 0)
  <2> SUFFICES ASSUME NEW n \in Nat, n < N, NEW a \in Accounts
               PROVE  PrefixSums(Of[a])[n + 1]
                        = PrefixSums(Of[a])[n] + (IF legs[n + 1].account = a
                                                  THEN Signed(AccountType, legs[n + 1]) ELSE 0)
    OBVIOUS
  <2>1. n < Len(Of[a]) /\ n + 1 \in 1 .. N
    BY <1>1, <1>5
  <2>2. PrefixSums(Of[a])[n + 1] = PrefixSums(Of[a])[n] + Of[a][n + 1]
    BY <1>5, <2>1, PrefixSumsStep
  <2> QED BY <1>2, <2>1, <2>2
<1>8. \A a \in Accounts : B(0)[a] = 0
  BY <1>5, PrefixSumsStep
<1> HIDE DEF D, B, N
<1> DEFINE T == {n \in Nat : n <= N => ListsBalances(D[n], B(n))}
<1>9. 0 \in T
  <2>1. D[0] = <<>>
    BY DeltasStep DEF D
  <2>2. <<>> \in Seq([account : Accounts, delta : Int]) /\ Len(<<>>) = 0
    OBVIOUS
  <2>3. D[0] \in Seq([account : Accounts, delta : Int]) /\ \A k \in 1 .. Len(D[0]) : FALSE
    BY <2>1, <2>2
  <2>4. ListsBalances(D[0], B(0))
    BY <1>8, <2>3 DEF ListsBalances
  <2> QED BY <2>4
<1>10. ASSUME NEW n \in Nat, n \in T PROVE n + 1 \in T
  <2> SUFFICES ASSUME n + 1 <= N PROVE ListsBalances(D[n + 1], B(n + 1))
    OBVIOUS
  <2>1. n < N /\ n <= N /\ n \in 0 .. N /\ n + 1 \in 0 .. N /\ n + 1 \in 1 .. N
    BY <1>1
  <2>2. ListsBalances(D[n], B(n)) /\ legs[n + 1].account \in Accounts /\ legs[n + 1].amount \in Int
    BY <1>1, <1>10, <2>1
  <2>3. B(n) \in [Accounts -> Int] /\ B(n + 1) \in [Accounts -> Int]
    BY <1>6, <2>1
  <2>4. ListsBalances(AddDelta(AccountType, D[n], legs[n + 1]), B(n + 1))
    BY <1>7, <2>1, <2>2, <2>3, AddDeltaLists
  <2>5. D[n + 1] = AddDelta(AccountType, D[n], legs[n + 1])
    BY <2>1, DeltasStep DEF D, N
  <2> QED BY <2>4, <2>5
<1>11. Nat \subseteq T
  <2> HIDE DEF T
  <2> QED BY <1>9, <1>10, Induction
<1>12. ListsBalances(D[N], B(N))
  BY <1>1, <1>11
<1>13. B(N) = [a \in Accounts |-> BalanceOf(AccountType, a, legs)]
  BY <1>4, <1>5 DEF B, Total
<1> QED BY <1>12, <1>13 DEF Deltas, D, N
-----------------------------------------------------------------------------
(* The invariant.                                                           *)

\* The journal holds typed transactions, and a reversal stands after its
\* original, which is not itself a reversal, and mirrors its legs.
Recorded ==
    /\ journal \in Seq([legs : Seq(Leg), reverses : Nat])
    /\ offered \in Seq(Leg)
    /\ \A i \in 1 .. Len(journal) : journal[i].reverses # 0 =>
          /\ journal[i].reverses \in 1 .. (i - 1)
          /\ journal[journal[i].reverses].reverses = 0
          /\ journal[i].legs = Reversal(journal[journal[i].reverses].legs)

Inv == Recorded /\ AccountingEquation

\* An account's balance and the joint balance of a side grow by what the
\* appended transaction moves.
LEMMA BalancesGrow ==
  ASSUME Recorded, NEW legs \in Seq(Leg), NEW r \in Nat, NEW side, NEW c,
         journal' = Append(journal, [legs |-> legs, reverses |-> r])
  PROVE  /\ TotalBalance(side, c)' = TotalBalance(side, c) + SideMovement(side, c, legs)
         /\ TotalBalance(side, c) \in Int
<1> DEFINE X    == [legs : Seq(Leg), reverses : Nat]
           N    == Len(journal)
           K    == Len(Side(side))
           tx   == [legs |-> legs, reverses |-> r]
           old(a) == [i \in 1 .. N |-> Movement(a, c, journal[i].legs)]
           new(a) == [i \in 1 .. (N + 1) |-> Movement(a, c, journal'[i].legs)]
<1>1. /\ N \in Nat /\ DOMAIN journal = 1 .. N
      /\ \A i \in 1 .. N : journal[i].legs \in Seq(Leg)
  <2>1. journal \in Seq(X)
    BY DEF Recorded
  <2>2. \A i \in 1 .. N : journal[i] \in X
    <3> HIDE DEF X
    <3> QED BY <2>1, ElementOfSeq
  <2>3. N \in Nat /\ DOMAIN journal = 1 .. N
    <3> HIDE DEF X
    <3> QED BY <2>1
  <2> QED BY <2>2, <2>3
<1>2. /\ DOMAIN journal' = 1 .. (N + 1)
      /\ \A i \in 1 .. N : journal'[i] = journal[i]
      /\ journal'[N + 1].legs = legs
  <2>1. journal \in Seq(X) /\ tx \in X
    BY DEF Recorded
  <2> HIDE DEF X
  <2>2. /\ Len(journal') = N + 1 /\ DOMAIN journal' = 1 .. (N + 1)
        /\ \A i \in 1 .. N : journal'[i] = journal[i]
        /\ journal'[N + 1] = tx
    BY <2>1, AppendProperties
  <2> QED BY <2>2
<1>3. \A a : old(a) \in [1 .. N -> Int] /\ new(a) \in [1 .. (N + 1) -> Int]
  <2> TAKE a
  <2>1. \A i \in 1 .. N : Movement(a, c, journal[i].legs) \in Int
    BY <1>1, MovementType
  <2>2. \A i \in 1 .. (N + 1) : Movement(a, c, journal'[i].legs) \in Int
    <3> TAKE i \in 1 .. (N + 1)
    <3>1. i = N + 1 \/ i \in 1 .. N
      BY <1>1
    <3> QED BY <1>2, <2>1, <3>1, MovementType
  <2> QED BY <2>1, <2>2
<1>4. \A a : /\ \A i \in 1 .. N : new(a)[i] = old(a)[i]
             /\ new(a)[N + 1] = Movement(a, c, legs)
  BY <1>1, <1>2
<1>5. \A a : Balance(a, c) = Total(old(a)) /\ Balance(a, c)' = Total(new(a))
  BY <1>1, <1>2 DEF Balance, Movement
<1> HIDE DEF old, new
<1>6. \A a : /\ Balance(a, c) \in Int /\ Balance(a, c)' = Balance(a, c) + Movement(a, c, legs)
  <2> TAKE a
  <2>1. /\ old(a) \in Seq(Int) /\ Len(old(a)) = N
        /\ new(a) \in Seq(Int) /\ Len(new(a)) = N + 1
    <3>1. N \in Nat /\ N + 1 \in Nat /\ old(a) \in [1 .. N -> Int] /\ new(a) \in [1 .. (N + 1) -> Int]
      BY <1>1, <1>3
    <3> HIDE DEF N
    <3> QED BY <3>1, IntSeq
  <2>2. Total(new(a)) = Total(old(a)) + new(a)[N + 1]
    BY <1>4, <2>1, TotalOfAppend
  <2> QED BY <1>4, <1>5, <2>1, <2>2, TotalType
<1> DEFINE s == [k \in 1 .. K |-> Balance(Side(side)[k], c)]
           t == [k \in 1 .. K |-> Balance(Side(side)[k], c)']
           u == [k \in 1 .. K |-> Movement(Side(side)[k], c, legs)]
<1>7. K \in Nat /\ DOMAIN Side(side) = 1 .. K
  BY SideFacts
<1>8. s \in [1 .. K -> Int] /\ t \in [1 .. K -> Int] /\ u \in [1 .. K -> Int]
  BY <1>6, MovementType
<1>9. \A k \in 1 .. K : t[k] = s[k] + u[k]
  BY <1>6
<1>10. /\ TotalBalance(side, c) = Total(s) /\ TotalBalance(side, c)' = Total(t)
       /\ SideMovement(side, c, legs) = Total(u)
  BY <1>7 DEF TotalBalance, SideMovement, Balance
<1> HIDE DEF s, t, u, K
<1>11. /\ s \in Seq(Int) /\ Len(s) = K /\ t \in Seq(Int) /\ Len(t) = K
       /\ u \in Seq(Int) /\ Len(u) = K
  BY <1>7, <1>8, IntSeq
<1>12. Total(t) = Total(s) + Total(u)
  <2>1. Len(s) = Len(t) /\ Len(u) = Len(t) /\ \A k \in 1 .. Len(t) : t[k] = s[k] + u[k]
    BY <1>9, <1>11
  <2> QED BY <1>11, <2>1, TotalOfSum
<1> QED BY <1>10, <1>11, <1>12, TotalType

\* An empty journal balances.
LEMMA InitInv ==
  ASSUME Init
  PROVE  Inv
<1>1. /\ journal \in Seq([legs : Seq(Leg), reverses : Nat]) /\ offered \in Seq(Leg)
      /\ Len(journal) = 0 /\ DOMAIN journal = {}
  BY DEF Init
<1>2. Recorded
  BY <1>1 DEF Recorded
<1>3. ASSUME NEW side, NEW c PROVE TotalBalance(side, c) = 0
  <2> DEFINE K == Len(Side(side))
             s == [k \in 1 .. K |-> Balance(Side(side)[k], c)]
  <2>1. K \in Nat /\ DOMAIN Side(side) = 1 .. K
    BY SideFacts
  <2>2. ASSUME NEW a PROVE Balance(a, c) = 0
    <3> DEFINE z == [i \in DOMAIN journal |-> Movement(a, c, journal[i].legs)]
    <3>1. z \in [1 .. 0 -> Int]
      BY <1>1
    <3>2. Balance(a, c) = Total(z)
      BY DEF Balance
    <3> HIDE DEF z
    <3>3. z \in Seq(Int) /\ Len(z) = 0
      BY <3>1, 0 \in Nat, IntSeq
    <3>4. \A i \in 1 .. Len(z) : z[i] = 0
      BY <3>3
    <3> QED BY <3>2, <3>3, <3>4, TotalOfZeros
  <2>3. s \in [1 .. K -> Int] /\ \A k \in 1 .. K : s[k] = 0
    BY <2>2
  <2>4. TotalBalance(side, c) = Total(s)
    BY <2>1 DEF TotalBalance
  <2> HIDE DEF s, K
  <2>5. s \in Seq(Int) /\ Len(s) = K
    BY <2>1, <2>3, IntSeq
  <2> QED BY <2>3, <2>4, <2>5, TotalOfZeros
<1> QED BY <1>2, <1>3 DEF Inv, AccountingEquation

\* The constructor keeps the invariant: it records what it was offered, and
\* what it accepts moves both sides alike.
LEMMA ConstructInv ==
  ASSUME Inv, NEW legs \in Seq(Leg), NEW r \in Nat, Construct(legs, r),
         r # 0 => /\ r \in 1 .. Len(journal) /\ journal[r].reverses = 0
                  /\ legs = Reversal(journal[r].legs)
  PROVE  Inv'
<1> DEFINE X  == [legs : Seq(Leg), reverses : Nat]
           tx == [legs |-> legs, reverses |-> r]
<1>1. offered' = legs /\ offered' \in Seq(Leg)
  BY DEF Construct
<1>2. CASE ~JournalAccepts(legs)
  <2>1. journal' = journal
    BY <1>2 DEF Construct
  <2>2. Recorded'
    BY <1>1, <2>1 DEF Inv, Recorded
  <2>3. AccountingEquation'
    BY <2>1 DEF Inv, AccountingEquation, TotalBalance, Balance
  <2> QED BY <2>2, <2>3 DEF Inv
<1>3. CASE JournalAccepts(legs)
  <2>1. journal' = Append(journal, tx)
    BY <1>3 DEF Construct
  <2>2. Recorded'
    <3>1. journal \in Seq(X) /\ tx \in X
      BY DEF Inv, Recorded
    <3>2. /\ tx.legs = legs /\ tx.reverses = r
      OBVIOUS
    <3> HIDE DEF X, tx
    <3>3. /\ Len(journal) \in Nat /\ journal' \in Seq(X) /\ Len(journal') = Len(journal) + 1
          /\ \A i \in 1 .. Len(journal) : journal'[i] = journal[i]
          /\ journal'[Len(journal) + 1] = tx
      BY <2>1, <3>1, AppendProperties
    <3>4. ASSUME NEW i \in 1 .. Len(journal'), journal'[i].reverses # 0
          PROVE  /\ journal'[i].reverses \in 1 .. (i - 1)
                 /\ journal'[journal'[i].reverses].reverses = 0
                 /\ journal'[i].legs = Reversal(journal'[journal'[i].reverses].legs)
      <4>1. CASE i = Len(journal) + 1
        <5>1. journal'[i].reverses = r /\ journal'[i].legs = legs /\ r \in 1 .. Len(journal)
          BY <3>2, <3>3, <3>4, <4>1
        <5>2. journal'[r] = journal[r] /\ r \in 1 .. (i - 1)
          BY <3>3, <4>1, <5>1
        <5> QED BY <3>4, <5>1, <5>2
      <4>2. CASE i \in 1 .. Len(journal)
        <5> DEFINE q == journal[i].reverses
        <5>1. journal'[i] = journal[i] /\ q # 0
          BY <3>3, <3>4, <4>2
        <5>2. /\ q \in 1 .. (i - 1) /\ journal[q].reverses = 0
              /\ journal[i].legs = Reversal(journal[q].legs)
          BY <4>2, <5>1 DEF Inv, Recorded
        <5>3. q \in 1 .. Len(journal)
          BY <3>3, <4>2, <5>2
        <5>4. journal'[q] = journal[q]
          BY <3>3, <5>3
        <5> QED BY <5>1, <5>2, <5>4
      <4> QED BY <3>3, <4>1, <4>2
    <3> QED BY <1>1, <3>3, <3>4 DEF Recorded, X
  <2>3. AccountingEquation'
    <3> SUFFICES ASSUME NEW c \in CurrencySet
                 PROVE  TotalBalance("debit", c)' = TotalBalance("credit", c)'
      BY DEF AccountingEquation
    <3>1. SideMovement("debit", c, legs) = SideMovement("credit", c, legs)
      BY <1>3, AcceptedMovesBothSides
    <3>2. TotalBalance("debit", c) = TotalBalance("credit", c)
      BY DEF Inv, AccountingEquation
    <3> QED BY <2>1, <3>1, <3>2, BalancesGrow DEF Inv
  <2> QED BY <2>2, <2>3 DEF Inv
<1> QED BY <1>2, <1>3

\* Every offer, of a rule, of raw legs or of a reversal, keeps the invariant.
LEMMA NextInv ==
  ASSUME Inv, [Next]_vars
  PROVE  Inv'
<1>1. CASE UNCHANGED vars
  BY <1>1 DEF vars, Inv, Recorded, AccountingEquation, TotalBalance, Balance
<1>2. ASSUME NEW p \in Postings, BuildTransaction(p) PROVE Inv'
  BY <1>2, RuleLegsTyped, ConstructInv DEF BuildTransaction
<1>3. ASSUME NEW legs \in RawLegs, Construct(legs, 0) PROVE Inv'
  BY <1>3, RawLegsAssumption, ConstructInv
<1>4. ASSUME NEW i \in DOMAIN journal, ReverseTransaction(i) PROVE Inv'
  <2> DEFINE X == [legs : Seq(Leg), reverses : Nat]
  <2>1. journal \in Seq(X)
    BY DEF Inv, Recorded
  <2>2. i \in 1 .. Len(journal) /\ i \in Nat /\ i # 0 /\ journal[i] \in X
    <3> HIDE DEF X
    <3> QED BY <2>1, ElementOfSeq
  <2>3. journal[i].legs \in Seq(Leg)
    BY <2>2
  <2>4. Reversal(journal[i].legs) \in Seq(Leg)
    BY <2>3, ReversalTyped
  <2>5. journal[i].reverses = 0 /\ Construct(Reversal(journal[i].legs), i)
    BY <1>4 DEF ReverseTransaction
  <2> QED BY <2>2, <2>4, <2>5, ConstructInv
<1> QED BY <1>1, <1>2, <1>3, <1>4 DEF Next

\* The invariant holds always.
LEMMA InvHolds == Spec => []Inv
BY InitInv, NextInv, PTL DEF Spec

\* Whatever is posted and reversed, the debit-normal and the credit-normal
\* accounts balance in every currency: the accounting equation of the ledger
\* JournalTransaction.__post_init__ guards.
THEOREM BooksBalance == Spec => []AccountingEquation
BY InvHolds, PTL DEF Inv

\* The constructor's check and the deferred trigger decide every offer of two
\* legs or more alike (__post_init__, assert_transaction_balanced).
THEOREM TwoChecksAgree == Spec => []ChecksAgree
<1>1. Inv => ChecksAgree
  BY ChecksAgreeOnLegs DEF Inv, Recorded, ChecksAgree
<1> QED BY <1>1, InvHolds, PTL

\* The dictionary of _check_floors lists every account the posting moves, once,
\* with the change of balance_of the posting causes.
THEOREM DeltasAreBalances == Spec => []DeltasMatchBalances
<1>1. ASSUME Inv PROVE DeltasMatchBalances
  <2> SUFFICES ASSUME NEW i \in DOMAIN journal
               PROVE  LET legs   == journal[i].legs
                          deltas == Deltas(AccountType, legs)
                      IN  /\ \A k, m \in DOMAIN deltas :
                                deltas[k].account = deltas[m].account => k = m
                          /\ \A k \in DOMAIN deltas :
                                deltas[k].delta = BalanceOf(AccountType, deltas[k].account, legs)
                          /\ \A a \in Accounts : BalanceOf(AccountType, a, legs) # 0 =>
                                \E k \in DOMAIN deltas : deltas[k].account = a
    BY DEF DeltasMatchBalances
  <2> DEFINE X      == [legs : Seq(Leg), reverses : Nat]
             R      == [account : Accounts, delta : Int]
             legs   == journal[i].legs
             deltas == Deltas(AccountType, legs)
             b      == [a \in Accounts |-> BalanceOf(AccountType, a, legs)]
  <2>1. journal \in Seq(X)
    BY <1>1 DEF Inv, Recorded
  <2>2. journal[i] \in X
    <3> HIDE DEF X
    <3> QED BY <2>1, ElementOfSeq
  <2>3. legs \in Seq(Leg)
    BY <2>2
  <2>4. ListsBalances(deltas, b)
    <3> HIDE DEF legs
    <3>1. \A j \in 1 .. Len(legs) : legs[j].account \in Accounts /\ legs[j].amount \in Int
      BY <2>3, LegFacts
    <3> QED BY <2>3, <3>1, DeltasListBalances
  <2>5. \A a \in Accounts : b[a] = BalanceOf(AccountType, a, legs)
    OBVIOUS
  <2> HIDE DEF deltas, legs, b
  <2>6. deltas \in Seq(R)
    BY <2>4 DEF ListsBalances
  <2>7. DOMAIN deltas = 1 .. Len(deltas) /\ \A k \in 1 .. Len(deltas) : deltas[k] \in R
    <3> HIDE DEF R
    <3> QED BY <2>6, ElementOfSeq
  <2>8. \A k \in 1 .. Len(deltas) : deltas[k].account \in Accounts
    BY <2>7
  <2>9. /\ \A k, m \in DOMAIN deltas : deltas[k].account = deltas[m].account => k = m
        /\ \A k \in DOMAIN deltas :
              deltas[k].delta = BalanceOf(AccountType, deltas[k].account, legs)
        /\ \A a \in Accounts : BalanceOf(AccountType, a, legs) # 0 =>
              \E k \in DOMAIN deltas : deltas[k].account = a
    BY <2>4, <2>5, <2>7, <2>8 DEF ListsBalances
  <2> QED BY <2>9 DEF deltas, legs
<1> QED BY <1>1, InvHolds, PTL

\* A reversal takes back what its original did to every account, and no
\* reversal is reversed (JournalTransaction.reverse).
THEOREM ReversalsCancel == Spec => []ReversalCancels
<1>1. ASSUME Inv PROVE ReversalCancels
  <2> SUFFICES ASSUME NEW i \in DOMAIN journal, journal[i].reverses # 0
               PROVE  /\ journal[journal[i].reverses].reverses = 0
                      /\ \A a \in Accounts :
                            BalanceOf(AccountType, a, journal[i].legs)
                              = -BalanceOf(AccountType, a, journal[journal[i].reverses].legs)
    BY DEF ReversalCancels
  <2> DEFINE X == [legs : Seq(Leg), reverses : Nat]
             q == journal[i].reverses
  <2>1. journal \in Seq(X)
    BY <1>1 DEF Inv, Recorded
  <2>2. i \in 1 .. Len(journal) /\ Len(journal) \in Nat
    <3> HIDE DEF X
    <3> QED BY <2>1
  <2>3. /\ q \in 1 .. (i - 1) /\ journal[q].reverses = 0
        /\ journal[i].legs = Reversal(journal[q].legs)
    BY <1>1, <2>2 DEF Inv, Recorded
  <2>4. q \in 1 .. Len(journal)
    BY <2>2, <2>3
  <2>5. journal[q] \in X
    <3> HIDE DEF X
    <3> QED BY <2>1, <2>4, ElementOfSeq
  <2>6. journal[q].legs \in Seq(Leg)
    BY <2>5
  <2> QED BY <2>3, <2>6, ReversalNegates
<1> QED BY <1>1, InvHolds, PTL
=============================================================================
