--------------------------- MODULE WebhooksProofs ---------------------------
(***************************************************************************)
(* Proofs about Webhooks, for any workers, endpoints, schedule and bounds. *)
(*                                                                         *)
(* The promises of a pass are about committed rows, but what breaks them   *)
(* happens before the commit: a POST counts when it is made, its attempt   *)
(* when it is committed.  The inductive invariant therefore relates each   *)
(* row to the uncommitted outcomes that other workers hold for it.         *)
(***************************************************************************)
EXTENDS Webhooks, FiniteSetTheorems, SequenceTheorems, TLAPS

Statuses == {"pending", "succeeded", "exhausted"}

Rows == [endpoint : Endpoints, event : Events, attempt : Nat, status : Statuses,
         due : BOOLEAN, waits : Seq(Nat)]

Ids == DOMAIN deliveries

\* The program counters of a worker inside the transaction of a pass.
Running == {"attempt", "disable", "wait"}

Types ==
    /\ endpoint \in [Endpoints -> {"none", "enabled", "disabled"}]
    /\ deliveries \in Seq(Rows)
    /\ fanned \subseteq Events
    /\ pc \in [Workers -> {"fanout", "start", "stopped"} \cup Running]
    /\ held \in [Workers -> SUBSET Ids]
    /\ results \in [Workers -> SUBSET [id : Ids, row : Rows]]
    /\ disabling \in [Workers -> SUBSET Endpoints]
    /\ target \in [Workers -> Nat]
    /\ posts \in [Ids -> Nat] /\ accepted \in [Ids -> Nat] /\ retried \in [Ids -> Nat]
    /\ redelivers \in Nat /\ aborts \in Nat

\* The outcomes one attempt of a row may have.
Answers(d) ==
    LET wait == Backoff(deliveries[d].attempt + 1)
    IN  {Outcome(d, "succeeded", <<>>),
         Outcome(d, IF wait = <<>> THEN "exhausted" ELSE "pending", wait)}

\* What a worker holds: only inside a pass, each delivery once, each still the
\* row it locked, and each outcome the outcome of that row.
PassOK(w) ==
    /\ pc[w] \notin Running => held[w] = {} /\ results[w] = {} /\ disabling[w] = {}
    /\ pc[w] \in {"disable", "wait"} => \E o \in results[w] : o.id = target[w]
    /\ \A d \in InPass(w) : deliveries[d].status = "pending" /\ deliveries[d].due
    /\ \A o \in results[w] : o.id \notin held[w] /\ o.row \in Answers(o.id)
    /\ \A o, q \in results[w] : o.id = q.id => o = q

Passes == \A w \in Workers : PassOK(w)

\* FOR UPDATE SKIP LOCKED: no delivery is in two passes.
Locked == \A v, w \in Workers : v # w => \A d \in InPass(v) : d \notin InPass(w)

\* An exhausted outcome has disabled its endpoint, or is the next to do so.
DisablesFirst ==
    \A w \in Workers : \A o \in results[w] :
       o.row.status = "exhausted" =>
          \/ deliveries[o.id].endpoint \in disabling[w]
          \/ pc[w] \in {"disable", "wait"} /\ target[w] = o.id

\* Attempts and waits of a committed row.
RowOK(d) ==
    /\ deliveries[d].attempt <= Len(Schedule) + retried[d]
    /\ deliveries[d].status = "pending" => deliveries[d].attempt < Len(Schedule) + retried[d]
    /\ deliveries[d].status = "pending" /\ retried[d] = 0 =>
          deliveries[d].waits = SubSeq(Schedule, 2, deliveries[d].attempt + 1)
    /\ deliveries[d].status = "exhausted" /\ retried[d] = 0 =>
          deliveries[d].waits = Tail(Schedule)

RowsOK == \A d \in Ids : RowOK(d)

\* No pass has an uncommitted outcome, or an uncommitted 2xx, for a delivery.
Unattempted(d) == \A w \in Workers : \A o \in results[w] : o.id # d
Unanswered(d) == \A w \in Workers : \A o \in results[w] : o.id = d => o.row.status # "succeeded"

\* POSTs and acceptances against the committed row: one more while an outcome
\* is uncommitted.
CountOK(d) ==
    /\ posts[d] <= deliveries[d].attempt + aborts + 1
    /\ Unattempted(d) => posts[d] <= deliveries[d].attempt + aborts
    /\ accepted[d] <= retried[d] + aborts + 1
    /\ deliveries[d].status # "succeeded" /\ Unanswered(d) => accepted[d] <= retried[d] + aborts

CountsOK == \A d \in Ids : CountOK(d)

Inv == /\ Types /\ Passes /\ Locked /\ DisablesFirst
       /\ RowsOK /\ CountsOK /\ ExhaustedDisables
-----------------------------------------------------------------------------
(* Operators.                                                               *)

\* The endpoints enqueue inserts rows for can be listed: SetToSeq is defined.
LEMMA SetToSeqEnumerates ==
    ASSUME NEW S, IsFiniteSet(S)
    PROVE  /\ Cardinality(S) \in Nat
           /\ SetToSeq(S) \in [1 .. Cardinality(S) -> S]
<1>1. Cardinality(S) \in Nat  BY FS_CardinalityType
<1>2. ExistsBijection(1 .. Cardinality(S), S)  BY <1>1, FS_NatBijection, FS_CardinalityType
<1>3. PICK f \in [1 .. Cardinality(S) -> S] : IsInjective(f)
  BY <1>2 DEF ExistsBijection, Bijection, Injection, IsInjective
<1>. QED  BY <1>1, <1>3 DEF SetToSeq

\* The types of one row and of its counters.
LEMMA RowTypes ==
    ASSUME Types, NEW d \in Ids
    PROVE  /\ deliveries[d] \in Rows
           /\ deliveries[d].endpoint \in Endpoints /\ deliveries[d].attempt \in Nat
           /\ deliveries[d].event \in Events /\ deliveries[d].status \in Statuses
           /\ deliveries[d].waits \in Seq(Nat)
           /\ posts[d] \in Nat /\ accepted[d] \in Nat /\ retried[d] \in Nat /\ aborts \in Nat
           /\ Len(Schedule) \in Nat
<1>1. deliveries[d] \in Rows  BY DEF Types, Ids
<1>2. /\ deliveries[d].endpoint \in Endpoints /\ deliveries[d].attempt \in Nat
      /\ deliveries[d].event \in Events /\ deliveries[d].status \in Statuses
      /\ deliveries[d].waits \in Seq(Nat)
  BY <1>1 DEF Rows
<1>3. posts[d] \in Nat /\ accepted[d] \in Nat /\ retried[d] \in Nat /\ aborts \in Nat
  BY DEF Types
<1>4. Len(Schedule) \in Nat  BY ScheduleAssumption
<1>. QED  BY <1>1, <1>2, <1>3, <1>4

\* What appending a batch of rows does to a table.
LEMMA ExtendedSeq ==
    ASSUME NEW S, NEW s \in Seq(S), NEW t \in Seq(S)
    PROVE  /\ s \o t \in Seq(S)
           /\ DOMAIN (s \o t) = 1 .. Len(s) + Len(t)
           /\ s \o t \in [1 .. Len(s) + Len(t) -> S]
           /\ \A i \in 1 .. Len(s) : (s \o t)[i] = s[i]
           /\ \A i \in 1 .. Len(t) : (s \o t)[Len(s) + i] = t[i]
<1>1. s \o t \in Seq(S) /\ Len(s \o t) = Len(s) + Len(t)  OBVIOUS
<1>2. DOMAIN (s \o t) = 1 .. Len(s) + Len(t)  BY <1>1
<1>3. s \o t \in [1 .. Len(s) + Len(t) -> S]  BY <1>1, LenProperties
<1>4. \A i \in 1 .. Len(s) : (s \o t)[i] = s[i]  OBVIOUS
<1>5. \A i \in 1 .. Len(t) : (s \o t)[Len(s) + i] = t[i]  OBVIOUS
<1>. QED  BY <1>1, <1>2, <1>3, <1>4, <1>5

\* enqueue appends pending rows and touches none of the rows before them.
LEMMA EnqueueGrows ==
    ASSUME Types, NEW e \in Events, Enqueue(e)
    PROVE  /\ deliveries' \in Seq(Rows) /\ Ids \subseteq Ids'
           /\ posts' \in [Ids' -> Nat] /\ accepted' \in [Ids' -> Nat] /\ retried' \in [Ids' -> Nat]
           /\ \A d \in Ids : /\ deliveries'[d] = deliveries[d] /\ posts'[d] = posts[d]
                             /\ accepted'[d] = accepted[d] /\ retried'[d] = retried[d]
           /\ \A d \in Ids' \ Ids :
                 /\ \E p \in Endpoints : deliveries'[d] = NewDelivery(p, e)
                 /\ posts'[d] = 0 /\ accepted'[d] = 0 /\ retried'[d] = 0
<1>. DEFINE S == EndpointsFor(e)
            n == Cardinality(S)
            new == [i \in 1 .. n |-> NewDelivery(SetToSeq(S)[i], e)]
            zeros == [i \in DOMAIN new |-> 0]
<1>1. IsFiniteSet(S)  BY EndpointsAssumption, FS_Subset DEF EndpointsFor
<1>2. n \in Nat /\ SetToSeq(S) \in [1 .. n -> S]  BY <1>1, SetToSeqEnumerates
<1>3. S \subseteq Endpoints  BY DEF EndpointsFor
<1>4. \A i \in 1 .. n : new[i] \in Rows /\ \E p \in Endpoints : new[i] = NewDelivery(p, e)
  <2>. SUFFICES ASSUME NEW i \in 1 .. n
                PROVE  new[i] \in Rows /\ \E p \in Endpoints : new[i] = NewDelivery(p, e)
    OBVIOUS
  <2>1. SetToSeq(S)[i] \in Endpoints  BY <1>2, <1>3
  <2>2. new[i] = NewDelivery(SetToSeq(S)[i], e)  OBVIOUS
  <2>3. NewDelivery(SetToSeq(S)[i], e) \in Rows
    BY <2>1, EmptySeq DEF NewDelivery, Rows, Statuses
  <2>. QED  BY <2>1, <2>2, <2>3
<1>5. new \in Seq(Rows) /\ Len(new) = n /\ zeros \in Seq(Nat) /\ Len(zeros) = n
      /\ \A i \in 1 .. n : zeros[i] = 0
  <2>. HIDE DEF n
  <2>1. new \in [1 .. n -> Rows] /\ zeros \in [1 .. n -> Nat]  BY <1>4
  <2>. QED  BY <2>1, <1>2
<1>6. /\ deliveries' = deliveries \o new
      /\ posts' = posts \o zeros /\ accepted' = accepted \o zeros /\ retried' = retried \o zeros
  BY DEF Enqueue
<1>7. /\ deliveries \in Seq(Rows) /\ posts \in Seq(Nat) /\ accepted \in Seq(Nat) /\ retried \in Seq(Nat)
      /\ Len(posts) = Len(deliveries) /\ Len(accepted) = Len(deliveries)
      /\ Len(retried) = Len(deliveries)
  <2>1. deliveries \in Seq(Rows)  BY DEF Types
  <2>2. /\ posts \in [DOMAIN deliveries -> Nat] /\ accepted \in [DOMAIN deliveries -> Nat]
        /\ retried \in [DOMAIN deliveries -> Nat]
    BY DEF Types, Ids
  <2>3. Len(deliveries) \in Nat /\ DOMAIN deliveries = 1 .. Len(deliveries)  BY <2>1
  <2>. DEFINE m == Len(deliveries)
  <2>4. posts \in [1 .. m -> Nat] /\ accepted \in [1 .. m -> Nat] /\ retried \in [1 .. m -> Nat]
    BY <2>2, <2>3
  <2>5. m \in Nat  BY <2>3
  <2>. HIDE DEF m
  <2>6. /\ posts \in Seq(Nat) /\ accepted \in Seq(Nat) /\ retried \in Seq(Nat)
        /\ Len(posts) = m /\ Len(accepted) = m /\ Len(retried) = m
    BY <2>4, <2>5
  <2>. QED  BY <2>1, <2>6 DEF m
<1>. DEFINE m == Len(deliveries)
<1>8. m \in Nat /\ Ids = 1 .. m  BY <1>7 DEF Ids
<1>9. /\ deliveries' \in Seq(Rows) /\ deliveries' \in [1 .. m + n -> Rows]
      /\ \A i \in 1 .. m : deliveries'[i] = deliveries[i]
      /\ \A i \in 1 .. n : deliveries'[m + i] = new[i]
  <2>. HIDE DEF n, new, zeros
  <2>. QED  BY <1>5, <1>6, <1>7, ExtendedSeq
<1>10. ASSUME NEW s \in Seq(Nat), Len(s) = m, NEW t, t = s \o zeros
       PROVE  /\ t \in [1 .. m + n -> Nat] /\ \A i \in 1 .. m : t[i] = s[i]
              /\ \A i \in 1 .. n : t[m + i] = 0
  <2>. HIDE DEF n, new, zeros, m
  <2>1. zeros \in Seq(Nat) /\ Len(zeros) = n /\ \A i \in 1 .. n : zeros[i] = 0  BY <1>5
  <2>2. Len(s) = m /\ t = s \o zeros  BY <1>10
  <2>3. t \in Seq(Nat) /\ Len(t) = m + n  BY <2>1, <2>2, ConcatProperties
  <2>4. t \in [1 .. m + n -> Nat]  BY <2>3, LenProperties
  <2>5. \A i \in 1 .. m : t[i] = s[i]  BY <2>1, <2>2
  <2>6. \A i \in 1 .. n : t[m + i] = zeros[i]  BY <2>1, <2>2
  <2>. QED  BY <2>1, <2>4, <2>5, <2>6
<1>. HIDE DEF n, new, zeros, m
<1>11. Ids' = 1 .. m + n  BY <1>9 DEF Ids
<1>12. /\ \A i \in 1 .. m : /\ posts'[i] = posts[i] /\ accepted'[i] = accepted[i]
                            /\ retried'[i] = retried[i]
       /\ \A i \in 1 .. n : posts'[m + i] = 0 /\ accepted'[m + i] = 0 /\ retried'[m + i] = 0
       /\ posts' \in [1 .. m + n -> Nat] /\ accepted' \in [1 .. m + n -> Nat]
       /\ retried' \in [1 .. m + n -> Nat]
  <2>1. Len(posts) = m /\ Len(accepted) = m /\ Len(retried) = m  BY <1>7 DEF m
  <2>. QED  BY <1>6, <1>7, <1>10, <2>1
<1>13. ASSUME NEW d \in Ids' \ Ids
       PROVE  \E i \in 1 .. n : d = m + i
  <2>1. d - m \in 1 .. n /\ d = m + (d - m)  BY <1>2, <1>8, <1>11
  <2>. QED  BY <2>1
<1>14. Ids \subseteq Ids'  BY <1>2, <1>8, <1>11
<1>. QED  BY <1>4, <1>8, <1>9, <1>11, <1>12, <1>13, <1>14

\* _backoff: the schedule counted from 0, and nothing past its end.
LEMMA BackoffCases ==
    ASSUME NEW a \in Nat
    PROVE  \/ /\ a < Len(Schedule) /\ Backoff(a) = <<Schedule[a + 1]>>
              /\ Schedule[a + 1] \in Nat /\ Backoff(a) # <<>> /\ Backoff(a) \in Seq(Nat)
           \/ /\ a >= Len(Schedule) /\ Backoff(a) = <<>> /\ Backoff(a) \in Seq(Nat)
<1>0. Schedule \in Seq(Nat) /\ Len(Schedule) \in Nat  BY ScheduleAssumption
<1>1. CASE a < Len(Schedule)
  <2>1. Backoff(a) = <<Schedule[a + 1]>>  BY <1>1 DEF Backoff
  <2>2. Schedule[a + 1] \in Nat  BY <1>0, <1>1
  <2>3. Backoff(a) # <<>> /\ Backoff(a) \in Seq(Nat)  BY <2>1, <2>2
  <2>. QED  BY <1>1, <2>1, <2>2, <2>3
<1>2. CASE a >= Len(Schedule)
  <2>1. Backoff(a) = <<>>  BY <1>0, <1>2 DEF Backoff
  <2>2. Backoff(a) \in Seq(Nat)  BY <2>1, EmptySeq
  <2>. QED  BY <1>2, <2>1, <2>2
<1>. QED  BY <1>0, <1>1, <1>2

\* What Outcome writes.
LEMMA OutcomeRow ==
    ASSUME Types, NEW d \in Ids, NEW status \in Statuses, NEW waits \in Seq(Nat)
    PROVE  /\ Outcome(d, status, waits) \in Rows
           /\ Outcome(d, status, waits).endpoint = deliveries[d].endpoint
           /\ Outcome(d, status, waits).attempt = deliveries[d].attempt + 1
           /\ Outcome(d, status, waits).status = status
           /\ Outcome(d, status, waits).waits = deliveries[d].waits \o waits
<1>1. deliveries[d] \in Rows  BY DEF Types, Ids
<1>2. deliveries[d].attempt \in Nat /\ deliveries[d].waits \in Seq(Nat)  BY <1>1 DEF Rows
<1>3. deliveries[d].waits \o waits \in Seq(Nat)  BY <1>2
<1>4. Outcome(d, status, waits) \in Rows
  <2>1. deliveries[d].attempt + 1 \in Nat  BY <1>2
  <2>. QED  BY <1>1, <1>3, <2>1, Zenon DEF Outcome, Rows
<1>5. ASSUME NEW r \in Rows, r = deliveries[d], NEW q, q = Outcome(d, status, waits)
      PROVE  /\ q.endpoint = r.endpoint /\ q.attempt = r.attempt + 1
             /\ q.status = status /\ q.waits = r.waits \o waits
  BY <1>5 DEF Outcome, Rows
<1>. QED  BY <1>1, <1>4, <1>5

\* An attempt leaves a row of the same delivery with one attempt more.
LEMMA AnswerRow ==
    ASSUME Types, NEW d \in Ids, NEW r \in Answers(d)
    PROVE  /\ r \in Rows
           /\ r.endpoint = deliveries[d].endpoint
           /\ r.attempt = deliveries[d].attempt + 1
           /\ \/ r.status = "succeeded"
              \/ /\ r.status = "pending" /\ r.attempt < Len(Schedule)
                 /\ r.waits = deliveries[d].waits \o <<Schedule[r.attempt + 1]>>
              \/ /\ r.status = "exhausted" /\ r.attempt >= Len(Schedule)
                 /\ r.waits = deliveries[d].waits
<1>. DEFINE a == deliveries[d].attempt + 1
            wait == Backoff(a)
            status == IF wait = <<>> THEN "exhausted" ELSE "pending"
<1>1. deliveries[d] \in Rows  BY DEF Types, Ids
<1>2. a \in Nat /\ deliveries[d].waits \in Seq(Nat)  BY <1>1 DEF Rows
<1>3. \/ r = Outcome(d, "succeeded", <<>>)
      \/ r = Outcome(d, status, wait)
  BY DEF Answers
<1>4. CASE r = Outcome(d, "succeeded", <<>>)
  BY <1>4, EmptySeq, OutcomeRow DEF Statuses
<1>5. CASE r = Outcome(d, status, wait)
  <2>1. \/ /\ a < Len(Schedule) /\ wait = <<Schedule[a + 1]>>
           /\ wait # <<>> /\ wait \in Seq(Nat)
        \/ /\ a >= Len(Schedule) /\ wait = <<>> /\ wait \in Seq(Nat)
    BY <1>2, BackoffCases
  <2>. HIDE DEF wait, a
  <2>2. status \in Statuses /\ wait \in Seq(Nat)  BY <2>1 DEF Statuses
  <2>. HIDE DEF status
  <2>3. /\ r \in Rows /\ r.endpoint = deliveries[d].endpoint
        /\ r.attempt = deliveries[d].attempt + 1
        /\ r.status = status /\ r.waits = deliveries[d].waits \o wait
    BY <1>5, <2>2, OutcomeRow
  <2>4. r.attempt = a  BY <2>3 DEF a
  <2>5. CASE a < Len(Schedule) /\ wait = <<Schedule[a + 1]>> /\ wait # <<>>
    <3>1. r.status = "pending"  BY <2>3, <2>5 DEF status
    <3>. QED  BY <2>3, <2>4, <2>5, <3>1
  <2>6. CASE a >= Len(Schedule) /\ wait = <<>>
    <3>1. r.status = "exhausted"  BY <2>3, <2>6 DEF status
    <3>2. r.waits = deliveries[d].waits  BY <1>2, <2>3, <2>6
    <3>. QED  BY <2>3, <2>4, <2>6, <3>1, <3>2
  <2>. QED  BY <2>1, <2>5, <2>6
<1>. QED  BY <1>3, <1>4, <1>5
-----------------------------------------------------------------------------
(* Every step keeps the invariant.                                          *)

\* What an attempt may write depends on the row alone.
LEMMA AnswersKept ==
    ASSUME NEW d, deliveries'[d] = deliveries[d]
    PROVE  Answers(d)' = Answers(d)
BY DEF Answers, Outcome

\* There is no delivery and no pass at first.
LEMMA InitInv == Init => Inv
<1>. SUFFICES ASSUME Init PROVE Inv  OBVIOUS
<1>0. Ids = {}  BY DEF Init, Ids
<1>1. Types
  <2>1. deliveries \in Seq(Rows) /\ posts \in [Ids -> Nat] /\ accepted \in [Ids -> Nat]
        /\ retried \in [Ids -> Nat]
    BY <1>0, EmptySeq DEF Init
  <2>. QED  BY <2>1 DEF Types, Init, Running
<1>2. Passes /\ Locked /\ DisablesFirst
  BY DEF Passes, PassOK, Locked, DisablesFirst, InPass, Init, Running
<1>3. RowsOK /\ CountsOK /\ ExhaustedDisables
  BY <1>0 DEF RowsOK, CountsOK, ExhaustedDisables, Ids
<1>. QED  BY <1>1, <1>2, <1>3 DEF Inv

\* New rows leave every pass as it is and start with no POST.
LEMMA GrowInv ==
    ASSUME Inv, NEW e \in Events, Enqueue(e), UNCHANGED <<endpoint, pc, pass, aborts>>,
           fanned' \subseteq Events, redelivers' \in Nat
    PROVE  Inv'
<1>. USE DEF Inv
<1>0. UNCHANGED <<endpoint, pc, held, results, disabling, target, aborts>>  BY DEF pass
<1>1. /\ deliveries' \in Seq(Rows) /\ Ids \subseteq Ids'
      /\ posts' \in [Ids' -> Nat] /\ accepted' \in [Ids' -> Nat] /\ retried' \in [Ids' -> Nat]
      /\ \A d \in Ids : /\ deliveries'[d] = deliveries[d] /\ posts'[d] = posts[d]
                        /\ accepted'[d] = accepted[d] /\ retried'[d] = retried[d]
  BY EnqueueGrows
<1>2. ASSUME NEW d \in Ids', d \notin Ids
      PROVE  /\ \E p \in Endpoints : deliveries'[d] = NewDelivery(p, e)
             /\ posts'[d] = 0 /\ accepted'[d] = 0 /\ retried'[d] = 0
  BY <1>2, EnqueueGrows
<1>3. Types'
  <2>1. /\ held' \in [Workers -> SUBSET Ids'] /\ results' \in [Workers -> SUBSET [id : Ids', row : Rows]]
    <3>1. SUBSET Ids \subseteq SUBSET Ids'  BY <1>1
    <3>2. SUBSET [id : Ids, row : Rows] \subseteq SUBSET [id : Ids', row : Rows]  BY <1>1
    <3>. QED  BY <1>0, <3>1, <3>2 DEF Types
  <2>. QED  BY <1>0, <1>1, <2>1 DEF Types
<1>4. ASSUME NEW w \in Workers
      PROVE  /\ held[w] \subseteq Ids /\ \A o \in results[w] : o.id \in Ids
             /\ InPass(w) \subseteq Ids /\ InPass(w)' = InPass(w)
  BY <1>0 DEF Types, InPass
<1>5. Passes'
  <2>. SUFFICES ASSUME NEW w \in Workers PROVE PassOK(w)'  BY DEF Passes
  <2>1. PassOK(w)  BY DEF Passes
  <2>2. \A d \in InPass(w)' : deliveries'[d].status = "pending" /\ deliveries'[d].due
    BY <1>1, <1>4, <2>1 DEF PassOK
  <2>3. \A o \in results'[w] : o.id \notin held'[w] /\ o.row \in Answers(o.id)'
    BY <1>0, <1>1, <1>4, <2>1, AnswersKept DEF PassOK
  <2>. QED  BY <1>0, <2>1, <2>2, <2>3 DEF PassOK
<1>6. Locked'  BY <1>4 DEF Locked
<1>7. DisablesFirst'  BY <1>0, <1>1, <1>4 DEF DisablesFirst
<1>8. RowsOK' /\ CountsOK' /\ ExhaustedDisables'
  <2>. SUFFICES ASSUME NEW d \in Ids'
                PROVE  /\ RowOK(d)' /\ CountOK(d)'
                       /\ deliveries'[d].status = "exhausted" =>
                             endpoint'[deliveries'[d].endpoint] = "disabled"
    BY DEF RowsOK, CountsOK, ExhaustedDisables, Ids
  <2>1. CASE d \in Ids
    <3>1. RowOK(d) /\ CountOK(d)  BY <2>1 DEF RowsOK, CountsOK
    <3>2. RowOK(d)'  BY <1>1, <2>1, <3>1 DEF RowOK
    <3>3. CountOK(d)'  BY <1>0, <1>1, <2>1, <3>1 DEF CountOK, Unattempted, Unanswered
    <3>. QED  BY <1>0, <1>1, <2>1, <3>2, <3>3 DEF ExhaustedDisables, Ids
  <2>2. CASE d \notin Ids
    <3>1. PICK p \in Endpoints : deliveries'[d] = NewDelivery(p, e)  BY <1>2, <2>2
    <3>2. /\ deliveries'[d].attempt = 0 /\ deliveries'[d].status = "pending"
          /\ deliveries'[d].waits = <<>>
      BY <3>1 DEF NewDelivery
    <3>3. posts'[d] = 0 /\ accepted'[d] = 0 /\ retried'[d] = 0  BY <1>2, <2>2
    <3>4. SubSeq(Schedule, 2, 1) = <<>>  BY ScheduleAssumption, SubSeqEmpty
    <3>5. Len(Schedule) \in Nat /\ Len(Schedule) > 0  BY ScheduleAssumption
    <3>6. RowOK(d)'  BY <3>2, <3>3, <3>4, <3>5 DEF RowOK
    <3>7. aborts' \in Nat  BY <1>3 DEF Types
    <3>8. CountOK(d)'  BY <3>2, <3>3, <3>7 DEF CountOK
    <3>. QED  BY <3>2, <3>6, <3>8
  <2>. QED  BY <2>1, <2>2
<1>. QED  BY <1>3, <1>5, <1>6, <1>7, <1>8
\* An endpoint is created once; a disabled one is not created again.
LEMMA CreateEndpointInv ==
    ASSUME Inv, NEW p \in Endpoints, CreateEndpoint(p)
    PROVE  Inv'
<1>. USE DEF Inv
<1>0. UNCHANGED <<deliveries, fanned, pc, held, results, disabling, target, posts, accepted,
                  retried, redelivers, aborts>>
  BY DEF CreateEndpoint, pass, history
<1>1. /\ endpoint' \in [Endpoints -> {"none", "enabled", "disabled"}]
      /\ \A q \in Endpoints : endpoint[q] = "disabled" => endpoint'[q] = "disabled"
  BY DEF CreateEndpoint, Types
<1>2. Types'  BY <1>0, <1>1 DEF Types, Ids
<1>3. Passes' /\ Locked' /\ DisablesFirst'
  <2>1. \A w : InPass(w)' = InPass(w)  BY <1>0 DEF InPass
  <2>2. \A d : Answers(d)' = Answers(d)  BY <1>0 DEF Answers, Outcome
  <2>3. Passes'  BY <1>0, <2>1, <2>2 DEF Passes, PassOK
  <2>4. Locked' /\ DisablesFirst'  BY <1>0, <2>1 DEF Locked, DisablesFirst
  <2>. QED  BY <2>3, <2>4
<1>4. RowsOK' /\ CountsOK'
  BY <1>0 DEF RowsOK, CountsOK, RowOK, CountOK, Ids, Unattempted, Unanswered
<1>5. ExhaustedDisables'
  <2>. SUFFICES ASSUME NEW d \in Ids, deliveries[d].status = "exhausted"
                PROVE  endpoint'[deliveries[d].endpoint] = "disabled"
    BY <1>0 DEF ExhaustedDisables, Ids
  <2>1. deliveries[d].endpoint \in Endpoints  BY RowTypes
  <2>2. endpoint[deliveries[d].endpoint] = "disabled"  BY DEF ExhaustedDisables, Ids
  <2>. QED  BY <1>1, <2>1, <2>2
<1>. QED  BY <1>2, <1>3, <1>4, <1>5

\* A step of one program counter, outside a pass or from disable to wait.
LEMMA PcInv ==
    ASSUME Inv, NEW w \in Workers, NEW to,
           \/ pc[w] \notin Running /\ to \in {"fanout", "start", "stopped"}
           \/ pc[w] = "disable" /\ to = "wait",
           pc' = [pc EXCEPT ![w] = to], UNCHANGED <<tables, pass, history, aborts>>
    PROVE  Inv'
<1>. USE DEF Inv
<1>0. UNCHANGED <<endpoint, deliveries, fanned, held, results, disabling, target, posts, accepted,
                  retried, redelivers, aborts>>
  BY DEF tables, pass, history
<1>1. pc' \in [Workers -> {"fanout", "start", "stopped"} \cup Running]
  BY DEF Types, Running
<1>2. \A v \in Workers : v # w => pc'[v] = pc[v]  BY DEF Types
<1>3. pc'[w] = to  BY DEF Types
<1>4. Types'  BY <1>0, <1>1 DEF Types, Ids
<1>5. Passes'
  <2>. SUFFICES ASSUME NEW v \in Workers PROVE PassOK(v)'  BY DEF Passes
  <2>1. PassOK(v)  BY DEF Passes
  <2>2. InPass(v)' = InPass(v) /\ \A d : Answers(d)' = Answers(d)
    BY <1>0 DEF InPass, Answers, Outcome
  <2>. QED  BY <1>0, <1>2, <1>3, <2>1, <2>2 DEF PassOK, Running
<1>6. Locked'  BY <1>0 DEF Locked, InPass
<1>7. DisablesFirst'
  <2>. SUFFICES ASSUME NEW v \in Workers, NEW o \in results[v], o.row.status = "exhausted"
                PROVE  \/ deliveries[o.id].endpoint \in disabling[v]
                       \/ pc'[v] \in {"disable", "wait"} /\ target[v] = o.id
    BY <1>0 DEF DisablesFirst
  <2>1. \/ deliveries[o.id].endpoint \in disabling[v]
        \/ pc[v] \in {"disable", "wait"} /\ target[v] = o.id
    BY DEF DisablesFirst
  <2>. QED  BY <1>2, <1>3, <2>1 DEF Running
<1>8. RowsOK' /\ CountsOK' /\ ExhaustedDisables'
  BY <1>0 DEF RowsOK, CountsOK, RowOK, CountOK, Ids, Unattempted, Unanswered, ExhaustedDisables
<1>. QED  BY <1>4, <1>5, <1>6, <1>7, <1>8

\* A delivery no pass holds, or that is not due, is changed outside the passes.
LEMMA RowUpdateInv ==
    ASSUME Inv, NEW d \in Ids, NEW r \in Rows, \A w \in Workers : d \notin InPass(w),
           deliveries' = [deliveries EXCEPT ![d] = r],
           r.endpoint = deliveries[d].endpoint, r.attempt = deliveries[d].attempt,
           r.waits = deliveries[d].waits, r.status = "pending",
           \/ deliveries[d].status = "pending" /\ retried' = retried
           \/ retried' = [retried EXCEPT ![d] = @ + 1],
           UNCHANGED <<endpoint, fanned, pc, pass, posts, accepted, redelivers, aborts>>
    PROVE  Inv'
<1>. USE DEF Inv
<1>0. UNCHANGED <<endpoint, fanned, pc, held, results, disabling, target, posts, accepted,
                  redelivers, aborts>>
  BY DEF pass
<1>1. /\ deliveries' \in Seq(Rows) /\ Ids' = Ids /\ deliveries'[d] = r
      /\ \A c \in Ids : c # d => deliveries'[c] = deliveries[c]
  BY DEF Types, Ids
<1>2. /\ retried' \in [Ids -> Nat] /\ \A c \in Ids : c # d => retried'[c] = retried[c]
      /\ \/ deliveries[d].status = "pending" /\ retried'[d] = retried[d]
         \/ retried'[d] = retried[d] + 1
  <2>1. retried \in [Ids -> Nat]  BY DEF Types
  <2>2. CASE deliveries[d].status = "pending" /\ retried' = retried  BY <2>1, <2>2
  <2>3. CASE retried' = [retried EXCEPT ![d] = @ + 1]  BY <2>1, <2>3
  <2>. QED  BY <2>2, <2>3
<1>3. Types'  BY <1>0, <1>1, <1>2 DEF Types
<1>4. ASSUME NEW w \in Workers
      PROVE  /\ InPass(w)' = InPass(w) /\ InPass(w) \subseteq Ids
             /\ \A c \in InPass(w) : deliveries'[c] = deliveries[c]
             /\ \A o \in results[w] : o.id \in InPass(w)
  <2>1. InPass(w)' = InPass(w)  BY <1>0 DEF InPass
  <2>2. InPass(w) \subseteq Ids  BY DEF InPass, Types
  <2>3. \A o \in results[w] : o.id \in InPass(w)  BY DEF InPass
  <2>. QED  BY <1>1, <2>1, <2>2, <2>3
<1>5. Passes'
  <2>. SUFFICES ASSUME NEW w \in Workers PROVE PassOK(w)'  BY DEF Passes
  <2>1. PassOK(w)  BY DEF Passes
  <2>2. \A c \in InPass(w)' : deliveries'[c].status = "pending" /\ deliveries'[c].due
    BY <1>4, <2>1 DEF PassOK
  <2>3. \A o \in results'[w] : o.id \notin held'[w] /\ o.row \in Answers(o.id)'
    BY <1>0, <1>4, <2>1, AnswersKept DEF PassOK
  <2>. QED  BY <1>0, <2>1, <2>2, <2>3 DEF PassOK
<1>6. Locked'  BY <1>4 DEF Locked
<1>7. DisablesFirst'  BY <1>0, <1>4 DEF DisablesFirst
<1>8. RowsOK' /\ CountsOK' /\ ExhaustedDisables'
  <2>. SUFFICES ASSUME NEW c \in Ids
                PROVE  /\ RowOK(c)' /\ CountOK(c)'
                       /\ deliveries'[c].status = "exhausted" =>
                             endpoint'[deliveries'[c].endpoint] = "disabled"
    BY <1>1 DEF RowsOK, CountsOK, ExhaustedDisables, Ids
  <2>1. RowOK(c) /\ CountOK(c)  BY DEF RowsOK, CountsOK
  <2>2. CASE c # d
    <3>1. deliveries'[c] = deliveries[c] /\ retried'[c] = retried[c]  BY <1>1, <1>2, <2>2
    <3>2. RowOK(c)'  BY <2>1, <3>1 DEF RowOK
    <3>3. CountOK(c)'  BY <1>0, <2>1, <3>1 DEF CountOK, Unattempted, Unanswered
    <3>. QED  BY <1>0, <3>1, <3>2, <3>3 DEF ExhaustedDisables, Ids
  <2>3. CASE c = d
    <3>1. /\ posts[d] \in Nat /\ accepted[d] \in Nat /\ retried[d] \in Nat /\ aborts \in Nat
          /\ deliveries[d].attempt \in Nat /\ Len(Schedule) \in Nat
      BY RowTypes
    <3>2. /\ deliveries'[d].attempt = deliveries[d].attempt /\ deliveries'[d].status = "pending"
          /\ deliveries'[d].waits = deliveries[d].waits
      BY <1>1
    <3>3. RowOK(d)'
      <4>1. CASE deliveries[d].status = "pending" /\ retried'[d] = retried[d]
        BY <2>1, <2>3, <3>2, <4>1 DEF RowOK
      <4>2. CASE retried'[d] = retried[d] + 1
        <5>1. deliveries[d].attempt <= Len(Schedule) + retried[d]  BY <2>1, <2>3 DEF RowOK
        <5>2. /\ deliveries'[d].attempt <= Len(Schedule) + retried'[d]
              /\ deliveries'[d].attempt < Len(Schedule) + retried'[d]
              /\ retried'[d] # 0
          BY <3>1, <3>2, <4>2, <5>1
        <5>. QED  BY <5>2 DEF RowOK
      <4>. QED  BY <1>2, <4>1, <4>2
    <3>4. Unattempted(d) /\ Unanswered(d)  BY DEF Unattempted, Unanswered, InPass
    <3>5. /\ posts[d] <= deliveries[d].attempt + aborts
          /\ accepted[d] <= retried[d] + aborts + 1
          /\ deliveries[d].status # "succeeded" => accepted[d] <= retried[d] + aborts
      BY <2>1, <2>3, <3>4 DEF CountOK
    <3>6. CountOK(d)'
      <4>1. posts'[d] = posts[d] /\ accepted'[d] = accepted[d] /\ aborts' = aborts  BY <1>0
      <4>2. /\ posts'[d] <= deliveries'[d].attempt + aborts'
            /\ posts'[d] <= deliveries'[d].attempt + aborts' + 1
        BY <3>1, <3>2, <3>5, <4>1
      <4>3. accepted'[d] <= retried'[d] + aborts' /\ accepted'[d] <= retried'[d] + aborts' + 1
        BY <1>2, <3>1, <3>5, <4>1
      <4>. QED  BY <4>2, <4>3 DEF CountOK
    <3>. QED  BY <2>3, <3>2, <3>3, <3>6
  <2>. QED  BY <2>2, <2>3
<1>. QED  BY <1>3, <1>5, <1>6, <1>7, <1>8
\* A wait ends.  The rows of a pass are due, so this is none of them.
LEMMA TimePassesInv ==
    ASSUME Inv, NEW d \in Ids, TimePasses(d)
    PROVE  Inv'
<1>. USE DEF Inv
<1>. DEFINE r == [deliveries[d] EXCEPT !.due = TRUE]
<1>1. deliveries[d] \in Rows  BY DEF Types, Ids
<1>2. r \in Rows  BY <1>1, Zenon DEF Rows
<1>3. /\ r.endpoint = deliveries[d].endpoint /\ r.attempt = deliveries[d].attempt
      /\ r.waits = deliveries[d].waits /\ r.status = "pending"
  BY <1>1 DEF Rows, TimePasses
<1>4. deliveries' = [deliveries EXCEPT ![d] = r]  BY DEF TimePasses
<1>5. \A w \in Workers : d \notin InPass(w)  BY DEF Passes, PassOK, TimePasses
<1>6. /\ deliveries[d].status = "pending" /\ retried' = retried
      /\ UNCHANGED <<endpoint, fanned, pc, pass, posts, accepted, redelivers, aborts>>
  BY DEF TimePasses, history
<1>. HIDE DEF r
<1>. QED  BY <1>2, <1>3, <1>4, <1>5, <1>6, RowUpdateInv

\* retry keeps the attempts, and allows one acceptance and one attempt more.
LEMMA RetryInv ==
    ASSUME Inv, NEW d \in Ids, Retry(d)
    PROVE  Inv'
<1>. USE DEF Inv
<1>. DEFINE r == [deliveries[d] EXCEPT !.status = "pending", !.due = TRUE]
<1>1. deliveries[d] \in Rows  BY DEF Types, Ids
<1>2. r \in Rows  BY <1>1, Zenon DEF Rows, Statuses
<1>3. /\ r.endpoint = deliveries[d].endpoint /\ r.attempt = deliveries[d].attempt
      /\ r.waits = deliveries[d].waits /\ r.status = "pending"
  BY <1>1 DEF Rows
<1>4. deliveries' = [deliveries EXCEPT ![d] = r]  BY DEF Retry
<1>5. \A w \in Workers : d \notin InPass(w)  BY DEF Retry
<1>6. /\ retried' = [retried EXCEPT ![d] = @ + 1]
      /\ UNCHANGED <<endpoint, fanned, pc, pass, posts, accepted, redelivers, aborts>>
  BY DEF Retry
<1>. HIDE DEF r
<1>. QED  BY <1>2, <1>3, <1>4, <1>5, <1>6, RowUpdateInv

\* claim_due takes due rows that no other pass has.
LEMMA ClaimDueInv ==
    ASSUME Inv, NEW w \in Workers, ClaimDue(w)
    PROVE  Inv'
<1>. USE DEF Inv
<1>0. UNCHANGED <<endpoint, deliveries, fanned, results, disabling, target, posts, accepted,
                  retried, redelivers, aborts>>
  BY DEF ClaimDue, tables, history
<1>1. PICK B : /\ B \subseteq Due \ UNION {InPass(v) : v \in Workers \ {w}}
               /\ held' = [held EXCEPT ![w] = B]
  BY DEF ClaimDue, Batches
<1>2. /\ B \subseteq Ids /\ \A d \in B : deliveries[d].status = "pending" /\ deliveries[d].due
      /\ \A v \in Workers : v # w => \A d \in B : d \notin InPass(v)
  BY <1>1 DEF Due, Ids
<1>3. /\ held' \in [Workers -> SUBSET Ids] /\ held'[w] = B
      /\ \A v \in Workers : v # w => held'[v] = held[v]
  BY <1>1, <1>2 DEF Types
<1>4. /\ pc' \in [Workers -> {"fanout", "start", "stopped"} \cup Running]
      /\ pc[w] = "start" /\ pc'[w] = "attempt"
      /\ \A v \in Workers : v # w => pc'[v] = pc[v]
  BY DEF ClaimDue, Types, Running
<1>5. Types'  BY <1>0, <1>3, <1>4 DEF Types, Ids
<1>6. results[w] = {} /\ disabling[w] = {}  BY <1>4 DEF Passes, PassOK, Running
<1>7. /\ InPass(w)' = B
      /\ \A v \in Workers : v # w => InPass(v)' = InPass(v)
  BY <1>0, <1>3, <1>6 DEF InPass
<1>8. Passes'
  <2>. SUFFICES ASSUME NEW v \in Workers PROVE PassOK(v)'  BY DEF Passes
  <2>1. PassOK(v) /\ \A d : Answers(d)' = Answers(d)  BY <1>0 DEF Passes, Answers, Outcome
  <2>2. CASE v = w  BY <1>0, <1>2, <1>3, <1>4, <1>6, <1>7, <2>2 DEF PassOK, Running
  <2>3. CASE v # w  BY <1>0, <1>3, <1>4, <1>7, <2>1, <2>3 DEF PassOK
  <2>. QED  BY <2>2, <2>3
<1>9. Locked'
  <2>. SUFFICES ASSUME NEW u \in Workers, NEW v \in Workers, u # v, NEW d \in InPass(u)'
                PROVE  d \notin InPass(v)'
    BY DEF Locked
  <2>1. CASE u = w  BY <1>2, <1>7, <2>1
  <2>2. CASE v = w  BY <1>2, <1>7, <2>2
  <2>3. CASE u # w /\ v # w  BY <1>7, <2>3 DEF Locked
  <2>. QED  BY <2>1, <2>2, <2>3
<1>10. DisablesFirst'  BY <1>0, <1>4, <1>6 DEF DisablesFirst
<1>11. RowsOK' /\ CountsOK' /\ ExhaustedDisables'
  BY <1>0 DEF RowsOK, CountsOK, RowOK, CountOK, Ids, Unattempted, Unanswered, ExhaustedDisables
<1>. QED  BY <1>5, <1>8, <1>9, <1>10, <1>11

\* A POST: its outcome stays with the pass, and its delivery leaves the rows to
\* attempt, so one pass makes at most one POST of a delivery.
LEMMA AttemptInv ==
    ASSUME Inv, NEW w \in Workers, NEW d \in held[w], NEW ok \in BOOLEAN, Attempt(w, d, ok)
    PROVE  Inv'
<1>. USE DEF Inv
<1>. DEFINE wait == Backoff(deliveries[d].attempt + 1)
            status == IF ok THEN "succeeded" ELSE IF wait = <<>> THEN "exhausted" ELSE "pending"
            row == Outcome(d, status, IF ok THEN <<>> ELSE wait)
            o == [id |-> d, row |-> row]
<1>0. UNCHANGED <<endpoint, deliveries, fanned, disabling, retried, redelivers, aborts>>
  BY DEF Attempt, tables
<1>1. d \in Ids /\ d \in InPass(w)  BY DEF Types, InPass
<1>2. row \in Answers(d)
  <2>1. CASE ok  BY <2>1 DEF Answers
  <2>2. CASE ~ok  BY <2>2 DEF Answers
  <2>. QED  BY <2>1, <2>2
<1>3. row \in Rows /\ row.status = status /\ (status = "succeeded" <=> ok)
  <2>1. row \in Rows  BY <1>1, <1>2, AnswerRow
  <2>2. deliveries[d].attempt + 1 \in Nat  BY <1>1, RowTypes
  <2>3. wait \in Seq(Nat)  BY <2>2, BackoffCases
  <2>4. CASE ok
    BY <1>1, <2>1, <2>4, EmptySeq, OutcomeRow DEF Statuses
  <2>5. CASE ~ok
    <3>1. status \in Statuses /\ status # "succeeded"  BY <2>5 DEF Statuses
    <3>2. row = Outcome(d, status, wait)  BY <2>5
    <3>. HIDE DEF status, row, wait
    <3>. QED  BY <1>1, <2>1, <2>3, <2>5, <3>1, <3>2, OutcomeRow
  <2>. QED  BY <2>4, <2>5
<1>4. /\ pc[w] = "attempt"
      /\ posts' = [posts EXCEPT ![d] = @ + 1]
      /\ accepted' = [accepted EXCEPT ![d] = IF ok THEN @ + 1 ELSE @]
      /\ held' = [held EXCEPT ![w] = @ \ {d}]
      /\ results' = [results EXCEPT ![w] = @ \cup {o}]
      /\ pc' = [pc EXCEPT ![w] = IF status = "exhausted" THEN "disable" ELSE "attempt"]
      /\ target' = [target EXCEPT ![w] = IF status = "exhausted" THEN d ELSE 0]
  BY DEF Attempt
<1>5. o.id = d /\ o.row = row /\ o \in [id : Ids, row : Rows]  BY <1>1, <1>3
<1>. HIDE DEF o, row, status, wait
<1>6. /\ held'[w] = held[w] \ {d} /\ results'[w] = results[w] \cup {o}
      /\ \A v \in Workers : v # w => held'[v] = held[v] /\ results'[v] = results[v]
      /\ held' \in [Workers -> SUBSET Ids] /\ results' \in [Workers -> SUBSET [id : Ids, row : Rows]]
  BY <1>4, <1>5 DEF Types
<1>7. /\ pc'[w] = (IF status = "exhausted" THEN "disable" ELSE "attempt")
      /\ target'[w] = (IF status = "exhausted" THEN d ELSE 0)
      /\ \A v \in Workers : v # w => pc'[v] = pc[v] /\ target'[v] = target[v]
      /\ pc' \in [Workers -> {"fanout", "start", "stopped"} \cup Running]
      /\ target' \in [Workers -> Nat]
  <2>1. d \in Nat  BY <1>1 DEF Types, Ids
  <2>. QED  BY <1>4, <2>1 DEF Types, Running
<1>8. /\ posts' \in [Ids -> Nat] /\ accepted' \in [Ids -> Nat]
      /\ posts'[d] = posts[d] + 1 /\ accepted'[d] = (IF ok THEN accepted[d] + 1 ELSE accepted[d])
      /\ \A c \in Ids : c # d => posts'[c] = posts[c] /\ accepted'[c] = accepted[c]
  BY <1>1, <1>4 DEF Types
<1>9. Types'  BY <1>0, <1>6, <1>7, <1>8 DEF Types, Ids
<1>10. \A v \in Workers : InPass(v)' = InPass(v)
  <2>. SUFFICES ASSUME NEW v \in Workers PROVE InPass(v)' = InPass(v)  OBVIOUS
  <2>1. CASE v = w
    <3>1. {q.id : q \in results[w] \cup {o}} = {q.id : q \in results[w]} \cup {d}  BY <1>5
    <3>. QED  BY <1>6, <2>1, <3>1 DEF InPass
  <2>2. CASE v # w  BY <1>6, <2>2 DEF InPass
  <2>. QED  BY <2>1, <2>2
<1>11. \A q \in results[w] : q.id # d  BY DEF Passes, PassOK
<1>12. Passes'
  <2>. SUFFICES ASSUME NEW v \in Workers PROVE PassOK(v)'  BY DEF Passes
  <2>1. PassOK(v) /\ \A c : Answers(c)' = Answers(c)  BY <1>0 DEF Passes, Answers, Outcome
  <2>2. \A c \in InPass(v)' : deliveries'[c].status = "pending" /\ deliveries'[c].due
    BY <1>0, <1>10, <2>1 DEF PassOK
  <2>3. CASE v = w
    <3>1. pc'[w] \in Running  BY <1>7 DEF Running
    <3>2. pc'[w] \in {"disable", "wait"} => o \in results'[w] /\ o.id = target'[w]
      BY <1>5, <1>6, <1>7
    <3>3. \A q \in results'[w] : q.id \notin held'[w] /\ q.row \in Answers(q.id)'
      BY <1>2, <1>5, <1>6, <2>1, <2>3 DEF PassOK
    <3>4. \A p, q \in results'[w] : p.id = q.id => p = q
      BY <1>5, <1>6, <1>11, <2>1, <2>3 DEF PassOK
    <3>. QED  BY <2>2, <2>3, <3>1, <3>2, <3>3, <3>4 DEF PassOK
  <2>4. CASE v # w  BY <1>0, <1>6, <1>7, <2>1, <2>2, <2>4 DEF PassOK
  <2>. QED  BY <2>3, <2>4
<1>13. Locked'  BY <1>10 DEF Locked
<1>14. DisablesFirst'
  <2>. SUFFICES ASSUME NEW v \in Workers, NEW q \in results'[v], q.row.status = "exhausted"
                PROVE  \/ deliveries'[q.id].endpoint \in disabling'[v]
                       \/ pc'[v] \in {"disable", "wait"} /\ target'[v] = q.id
    BY DEF DisablesFirst
  <2>1. CASE v # w  BY <1>0, <1>6, <1>7, <2>1 DEF DisablesFirst
  <2>2. CASE v = w /\ q = o  BY <1>3, <1>5, <1>7, <2>2
  <2>3. CASE v = w /\ q # o
    <3>1. q \in results[w]  BY <1>6, <2>3
    <3>. QED  BY <1>0, <1>4, <2>3, <3>1 DEF DisablesFirst
  <2>. QED  BY <2>1, <2>2, <2>3
<1>15. RowsOK' /\ ExhaustedDisables'
  BY <1>0 DEF RowsOK, RowOK, Ids, ExhaustedDisables
<1>16. CountsOK'
  <2>. SUFFICES ASSUME NEW c \in Ids PROVE CountOK(c)'  BY <1>0 DEF CountsOK, Ids
  <2>1. CountOK(c)  BY DEF CountsOK
  <2>2. CASE c # d
    <3>1. /\ Unattempted(c)' <=> Unattempted(c)
          /\ Unanswered(c)' <=> Unanswered(c)
      BY <1>5, <1>6, <2>2 DEF Unattempted, Unanswered
    <3>2. posts'[c] = posts[c] /\ accepted'[c] = accepted[c]  BY <1>8, <2>2
    <3>. QED  BY <1>0, <2>1, <3>1, <3>2 DEF CountOK
  <2>3. CASE c = d
    <3>1. Unattempted(d) /\ Unanswered(d)
      <4>1. ASSUME NEW v \in Workers, NEW q \in results[v] PROVE q.id # d
        <5>1. CASE v = w  BY <1>11, <5>1
        <5>2. CASE v # w  BY <1>1, <5>2 DEF Locked, InPass
        <5>. QED  BY <5>1, <5>2
      <4>. QED  BY <4>1 DEF Unattempted, Unanswered
    <3>2. ~Unattempted(d)' /\ (ok => ~Unanswered(d)')
      BY <1>3, <1>5, <1>6 DEF Unattempted, Unanswered
    <3>3. deliveries[d].status = "pending"  BY <1>1 DEF Passes, PassOK
    <3>4. /\ posts[d] <= deliveries[d].attempt + aborts
          /\ accepted[d] <= retried[d] + aborts
      BY <2>1, <2>3, <3>1, <3>3 DEF CountOK
    <3>5. /\ posts[d] \in Nat /\ accepted[d] \in Nat /\ retried[d] \in Nat /\ aborts \in Nat
          /\ deliveries[d].attempt \in Nat
      BY <1>1, RowTypes
    <3>6. CASE ok
      <4>1. accepted'[d] = accepted[d] + 1  BY <1>8, <3>6
      <4>. QED  BY <1>0, <1>8, <2>3, <3>2, <3>4, <3>5, <3>6, <4>1 DEF CountOK
    <3>7. CASE ~ok
      <4>1. accepted'[d] = accepted[d]  BY <1>8, <3>7
      <4>. QED  BY <1>0, <1>8, <2>3, <3>2, <3>4, <3>5, <4>1 DEF CountOK
    <3>. QED  BY <3>6, <3>7
  <2>. QED  BY <2>2, <2>3
<1>. QED  BY <1>9, <1>12, <1>13, <1>14, <1>15, <1>16
\* disable_endpoint gets the lock of the row.
LEMMA DisableInv ==
    ASSUME Inv, NEW w \in Workers, Disable(w)
    PROVE  Inv'
<1>. USE DEF Inv
<1>0. UNCHANGED <<endpoint, deliveries, fanned, held, results, posts, accepted, retried,
                  redelivers, aborts>>
  BY DEF Disable, tables, history
<1>1. pc[w] = "disable"  BY DEF Disable
<1>2. PICK q \in results[w] : q.id = target[w]  BY <1>1 DEF Passes, PassOK
<1>3. Target(w) \in Endpoints
  <2>1. target[w] \in Ids  BY <1>2 DEF Types
  <2>. QED  BY <2>1, RowTypes DEF Target
<1>4. /\ disabling'[w] = disabling[w] \cup {Target(w)} /\ pc'[w] = "attempt"
      /\ \A v \in Workers : v # w => /\ disabling'[v] = disabling[v] /\ pc'[v] = pc[v]
                                     /\ target'[v] = target[v]
      /\ disabling' \in [Workers -> SUBSET Endpoints] /\ target' \in [Workers -> Nat]
      /\ pc' \in [Workers -> {"fanout", "start", "stopped"} \cup Running]
  BY <1>3 DEF Disable, Types, Running
<1>5. Types'  BY <1>0, <1>4 DEF Types, Ids
<1>6. Passes'
  <2>. SUFFICES ASSUME NEW v \in Workers PROVE PassOK(v)'  BY DEF Passes
  <2>1. /\ PassOK(v) /\ InPass(v)' = InPass(v) /\ \A d : Answers(d)' = Answers(d)
    BY <1>0 DEF Passes, InPass, Answers, Outcome
  <2>2. CASE v = w  BY <1>0, <1>4, <2>1, <2>2 DEF PassOK, Running
  <2>3. CASE v # w  BY <1>0, <1>4, <2>1, <2>3 DEF PassOK
  <2>. QED  BY <2>2, <2>3
<1>7. Locked'  BY <1>0 DEF Locked, InPass
<1>8. DisablesFirst'
  <2>. SUFFICES ASSUME NEW v \in Workers, NEW o \in results[v], o.row.status = "exhausted"
                PROVE  \/ deliveries[o.id].endpoint \in disabling'[v]
                       \/ pc'[v] \in {"disable", "wait"} /\ target'[v] = o.id
    BY <1>0 DEF DisablesFirst
  <2>1. \/ deliveries[o.id].endpoint \in disabling[v]
        \/ pc[v] \in {"disable", "wait"} /\ target[v] = o.id
    BY DEF DisablesFirst
  <2>2. CASE v = w  BY <1>4, <2>1, <2>2 DEF Target
  <2>3. CASE v # w  BY <1>4, <2>1, <2>3
  <2>. QED  BY <2>2, <2>3
<1>9. RowsOK' /\ CountsOK' /\ ExhaustedDisables'
  BY <1>0 DEF RowsOK, CountsOK, RowOK, CountOK, Ids, Unattempted, Unanswered, ExhaustedDisables
<1>. QED  BY <1>5, <1>6, <1>7, <1>8, <1>9

\* The end of a transaction empties its pass and grants its locks to waiters.
LEMMA EndPassEffect ==
    ASSUME Inv, NEW w \in Workers, EndPass(w)
    PROVE  /\ held'[w] = {} /\ results'[w] = {} /\ disabling'[w] = {} /\ pc'[w] = "stopped"
           /\ held' \in [Workers -> SUBSET Ids]
           /\ results' \in [Workers -> SUBSET [id : Ids, row : Rows]]
           /\ disabling' \in [Workers -> SUBSET Endpoints] /\ target' \in [Workers -> Nat]
           /\ pc' \in [Workers -> {"fanout", "start", "stopped"} \cup Running]
           /\ \A v \in Workers : v # w =>
                 /\ held'[v] = held[v] /\ results'[v] = results[v]
                 /\ \/ /\ disabling'[v] = disabling[v] /\ pc'[v] = pc[v] /\ target'[v] = target[v]
                    \/ /\ pc[v] = "wait" /\ pc'[v] = "attempt"
                       /\ disabling'[v] = disabling[v] \cup {Target(v)}
<1>. USE DEF Inv
<1>1. PICK H \in Heirs(w) :
         /\ disabling' = [v \in Workers |->
               CASE v = w -> {} [] v \in H -> disabling[v] \cup {Target(v)} [] OTHER -> disabling[v]]
         /\ target' = [v \in Workers |-> IF v \in H \cup {w} THEN 0 ELSE target[v]]
         /\ pc' = [v \in Workers |->
               CASE v = w -> "stopped" [] v \in H -> "attempt" [] OTHER -> pc[v]]
  BY DEF EndPass
<1>2. ASSUME NEW v \in H PROVE v \in Workers /\ v # w /\ pc[v] = "wait" /\ Target(v) \in Endpoints
  <2>1. v \in Workers /\ w \in WaitsFor(v)  BY <1>1 DEF Heirs
  <2>2. pc[v] = "wait" /\ v # w  BY <2>1 DEF WaitsFor
  <2>3. PICK q \in results[v] : q.id = target[v]  BY <2>1, <2>2 DEF Passes, PassOK
  <2>4. target[v] \in Ids  BY <2>1, <2>3 DEF Types
  <2>. QED  BY <2>1, <2>2, <2>4, RowTypes DEF Target
<1>3. /\ held'[w] = {} /\ results'[w] = {} /\ held' \in [Workers -> SUBSET Ids]
      /\ results' \in [Workers -> SUBSET [id : Ids, row : Rows]]
      /\ \A v \in Workers : v # w => held'[v] = held[v] /\ results'[v] = results[v]
  BY DEF EndPass, Types
<1>4. ASSUME NEW v \in Workers
      PROVE  /\ v = w => disabling'[v] = {} /\ pc'[v] = "stopped" /\ target'[v] = 0
             /\ v # w /\ v \in H =>
                   disabling'[v] = disabling[v] \cup {Target(v)} /\ pc'[v] = "attempt" /\ target'[v] = 0
             /\ v # w /\ v \notin H =>
                   disabling'[v] = disabling[v] /\ pc'[v] = pc[v] /\ target'[v] = target[v]
  <2>1. CASE v = w  BY <1>1, <1>2, <2>1
  <2>2. CASE v # w /\ v \in H  BY <1>1, <2>2
  <2>3. CASE v # w /\ v \notin H  BY <1>1, <2>3
  <2>. QED  BY <2>1, <2>2, <2>3
<1>5. /\ disabling' \in [Workers -> SUBSET Endpoints] /\ target' \in [Workers -> Nat]
      /\ pc' \in [Workers -> {"fanout", "start", "stopped"} \cup Running]
  <2>1. ASSUME NEW v \in Workers
        PROVE  /\ disabling'[v] \in SUBSET Endpoints /\ target'[v] \in Nat
               /\ pc'[v] \in {"fanout", "start", "stopped"} \cup Running
    <3>1. /\ disabling[v] \in SUBSET Endpoints /\ target[v] \in Nat
          /\ pc[v] \in {"fanout", "start", "stopped"} \cup Running
      BY DEF Types
    <3>2. CASE v = w  BY <1>4, <3>2
    <3>3. CASE v # w /\ v \in H  BY <1>2, <1>4, <3>1, <3>3 DEF Running
    <3>4. CASE v # w /\ v \notin H  BY <1>4, <3>1, <3>4
    <3>. QED  BY <3>2, <3>3, <3>4
  <2>2. /\ disabling' = [v \in Workers |-> disabling'[v]] /\ target' = [v \in Workers |-> target'[v]]
        /\ pc' = [v \in Workers |-> pc'[v]]
    BY <1>1
  <2>. QED  BY <2>1, <2>2
<1>. QED  BY <1>2, <1>3, <1>4, <1>5

\* Whatever a transaction leaves behind, the other passes keep what they hold.
LEMMA EndPassInv ==
    ASSUME Inv, NEW w \in Workers, EndPass(w),
           deliveries' \in Seq(Rows), Ids' = Ids,
           \A v \in Workers : v # w => \A d \in InPass(v) : deliveries'[d] = deliveries[d],
           endpoint' \in [Endpoints -> {"none", "enabled", "disabled"}],
           aborts' \in Nat, UNCHANGED <<fanned, history>>
    PROVE  Types' /\ Passes' /\ Locked' /\ DisablesFirst'
<1>. USE DEF Inv
<1>0. UNCHANGED <<fanned, posts, accepted, retried, redelivers>>  BY DEF history
<1>1. /\ held'[w] = {} /\ results'[w] = {} /\ disabling'[w] = {} /\ pc'[w] = "stopped"
      /\ held' \in [Workers -> SUBSET Ids]
      /\ results' \in [Workers -> SUBSET [id : Ids, row : Rows]]
      /\ disabling' \in [Workers -> SUBSET Endpoints] /\ target' \in [Workers -> Nat]
      /\ pc' \in [Workers -> {"fanout", "start", "stopped"} \cup Running]
  BY EndPassEffect
<1>2. \A v \in Workers : v # w =>
         /\ held'[v] = held[v] /\ results'[v] = results[v]
         /\ \/ /\ disabling'[v] = disabling[v] /\ pc'[v] = pc[v] /\ target'[v] = target[v]
            \/ /\ pc[v] = "wait" /\ pc'[v] = "attempt"
               /\ disabling'[v] = disabling[v] \cup {Target(v)}
  BY EndPassEffect
<1>3. Types'  BY <1>0, <1>1 DEF Types
<1>4. /\ InPass(w)' = {}
      /\ \A v \in Workers : v # w => InPass(v)' = InPass(v)
  BY <1>1, <1>2 DEF InPass
<1>5. Passes'
  <2>. SUFFICES ASSUME NEW v \in Workers PROVE PassOK(v)'  BY DEF Passes
  <2>1. PassOK(v)  BY DEF Passes
  <2>2. CASE v = w  BY <1>1, <1>4, <2>2 DEF PassOK, Running
  <2>3. CASE v # w
    <3>1. \A d \in InPass(v)' : deliveries'[d].status = "pending" /\ deliveries'[d].due
      BY <1>4, <2>1, <2>3 DEF PassOK
    <3>2. \A o \in results[v] : deliveries'[o.id] = deliveries[o.id]  BY <2>3 DEF InPass
    <3>3. \A o \in results[v] : Answers(o.id)' = Answers(o.id)  BY <3>2, AnswersKept
    <3>4. \A o \in results'[v] : o.id \notin held'[v] /\ o.row \in Answers(o.id)'
      BY <1>2, <2>1, <2>3, <3>3 DEF PassOK
    <3>5. /\ pc'[v] \notin Running => held'[v] = {} /\ results'[v] = {} /\ disabling'[v] = {}
          /\ pc'[v] \in {"disable", "wait"} => \E o \in results'[v] : o.id = target'[v]
      BY <1>2, <2>1, <2>3 DEF PassOK, Running
    <3>. QED  BY <1>2, <2>1, <2>3, <3>1, <3>4, <3>5 DEF PassOK
  <2>. QED  BY <2>2, <2>3
<1>6. Locked'
  <2>. SUFFICES ASSUME NEW u \in Workers, NEW v \in Workers, u # v, NEW d \in InPass(u)'
                PROVE  d \notin InPass(v)'
    BY DEF Locked
  <2>. QED  BY <1>4 DEF Locked
<1>7. DisablesFirst'
  <2>. SUFFICES ASSUME NEW v \in Workers, NEW o \in results'[v], o.row.status = "exhausted"
                PROVE  \/ deliveries'[o.id].endpoint \in disabling'[v]
                       \/ pc'[v] \in {"disable", "wait"} /\ target'[v] = o.id
    BY DEF DisablesFirst
  <2>1. v # w /\ o \in results[v]  BY <1>1, <1>2
  <2>2. deliveries'[o.id] = deliveries[o.id]  BY <2>1 DEF InPass
  <2>3. \/ deliveries[o.id].endpoint \in disabling[v]
        \/ pc[v] \in {"disable", "wait"} /\ target[v] = o.id
    BY <2>1 DEF DisablesFirst
  <2>. QED  BY <1>2, <2>1, <2>2, <2>3 DEF Target
<1>. QED  BY <1>3, <1>5, <1>6, <1>7

\* Outcomes that are dropped cost one abort, which pays for their POSTs.
LEMMA RollBackInv ==
    ASSUME Inv, NEW w \in Workers, RollBack(w)
    PROVE  Inv'
<1>. USE DEF Inv
<1>0. /\ EndPass(w) /\ aborts' = aborts + 1 /\ aborts \in Nat
      /\ UNCHANGED <<endpoint, deliveries, fanned, history, posts, accepted, retried>>
  BY DEF RollBack, tables, history, Types
<1>1. Types' /\ Passes' /\ Locked' /\ DisablesFirst'
  BY <1>0, EndPassInv DEF Types, Ids
<1>2. RowsOK' /\ ExhaustedDisables'  BY <1>0 DEF RowsOK, RowOK, Ids, ExhaustedDisables
<1>3. CountsOK'
  <2>. SUFFICES ASSUME NEW d \in Ids PROVE CountOK(d)'  BY <1>0 DEF CountsOK, Ids
  <2>1. /\ posts[d] <= deliveries[d].attempt + aborts + 1
        /\ accepted[d] <= retried[d] + aborts + 1
    BY DEF CountsOK, CountOK
  <2>2. /\ posts[d] \in Nat /\ accepted[d] \in Nat /\ retried[d] \in Nat
        /\ deliveries[d].attempt \in Nat
    BY RowTypes
  <2>. QED  BY <1>0, <2>1, <2>2 DEF CountOK
<1>. QED  BY <1>1, <1>2, <1>3

\* What COMMIT writes: the outcome of each delivery of the pass, no other row.
LEMMA RecordedRows ==
    ASSUME Inv, NEW w \in Workers
    PROVE  /\ Recorded(w) \in Seq(Rows) /\ DOMAIN Recorded(w) = Ids
           /\ \A o \in results[w] : Recorded(w)[o.id] = o.row
           /\ \A d \in Ids : (\A o \in results[w] : o.id # d) => Recorded(w)[d] = deliveries[d]
<1>. USE DEF Inv
<1>. DEFINE rec == Recorded(w)
<1>1. \A o \in results[w] : o.id \in Ids /\ o.row \in Rows  BY DEF Types
<1>2. DOMAIN rec = Ids  BY DEF Recorded, Ids
<1>3. ASSUME NEW o \in results[w] PROVE rec[o.id] = o.row
  <2>1. PICK q \in results[w] : q.id = o.id /\ rec[o.id] = q.row
    BY <1>1 DEF Recorded, Ids
  <2>2. q = o  BY <2>1 DEF Passes, PassOK
  <2>. QED  BY <2>1, <2>2
<1>4. ASSUME NEW d \in Ids, \A o \in results[w] : o.id # d PROVE rec[d] = deliveries[d]
  BY <1>4 DEF Recorded, Ids
<1>5. \A d \in Ids : rec[d] \in Rows
  <2>1. \A d \in Ids : deliveries[d] \in Rows  BY DEF Types, Ids
  <2>. QED  BY <1>1, <1>3, <1>4, <2>1
<1>6. rec \in Seq(Rows)
  <2>1. Ids = 1 .. Len(deliveries) /\ Len(deliveries) \in Nat  BY DEF Types, Ids
  <2>2. rec = [d \in Ids |-> rec[d]]  BY DEF Recorded, Ids
  <2>3. rec \in [1 .. Len(deliveries) -> Rows]  BY <1>5, <2>1, <2>2
  <2>. QED  BY <2>1, <2>3
<1>. QED  BY <1>2, <1>3, <1>4, <1>6
\* One wait more is one entry more of the schedule.
LEMMA WaitsGrow ==
    ASSUME NEW a \in Nat, a > 0, a < Len(Schedule)
    PROVE  SubSeq(Schedule, 2, a) \o <<Schedule[a + 1]>> = SubSeq(Schedule, 2, a + 1)
<1>0. Schedule \in Seq(Nat) /\ Len(Schedule) \in Nat  BY ScheduleAssumption
<1>. DEFINE s == SubSeq(Schedule, 2, a)
            t == SubSeq(Schedule, 2, a + 1)
            u == s \o <<Schedule[a + 1]>>
<1>1. s \in Seq(Nat) /\ Len(s) = a - 1 /\ \A i \in 1 .. a - 1 : s[i] = Schedule[i + 1]
  BY <1>0
<1>2. t \in Seq(Nat) /\ Len(t) = a /\ \A i \in 1 .. a : t[i] = Schedule[i + 1]
  BY <1>0
<1>3. Schedule[a + 1] \in Nat  BY <1>0
<1>. HIDE DEF s, t
<1>4. u \in Seq(Nat) /\ Len(u) = a /\ (\A i \in 1 .. a - 1 : u[i] = s[i]) /\ u[a] = Schedule[a + 1]
  BY <1>1, <1>3
<1>. HIDE DEF u
<1>5. ASSUME NEW i \in 1 .. a PROVE u[i] = t[i]
  <2>1. CASE i = a  BY <1>2, <1>4, <2>1
  <2>2. CASE i # a
    <3>1. i \in 1 .. a - 1  BY <2>2
    <3>. QED  BY <1>1, <1>2, <1>4, <3>1
  <2>. QED  BY <2>1, <2>2
<1>6. u = t  BY <1>2, <1>4, <1>5, SeqEqual
<1>. QED  BY <1>6 DEF s, t, u

\* A whole pass is recorded at once, with the endpoints it disabled.
LEMMA CommitInv ==
    ASSUME Inv, NEW w \in Workers, Commit(w)
    PROVE  Inv'
<1>. USE DEF Inv
<1>0. /\ pc[w] = "attempt" /\ EndPass(w) /\ deliveries' = Recorded(w)
      /\ UNCHANGED <<fanned, history, posts, accepted, retried, aborts>>
  BY DEF Commit, history
<1>1. /\ deliveries' \in Seq(Rows) /\ Ids' = Ids
      /\ \A o \in results[w] : deliveries'[o.id] = o.row
      /\ \A d \in Ids : (\A o \in results[w] : o.id # d) => deliveries'[d] = deliveries[d]
  BY <1>0, RecordedRows DEF Ids
<1>2. /\ endpoint' \in [Endpoints -> {"none", "enabled", "disabled"}]
      /\ \A p \in Endpoints : p \in disabling[w] \/ endpoint[p] = "disabled"
                                 => endpoint'[p] = "disabled"
  BY DEF Commit, Types
<1>3. ASSUME NEW v \in Workers, v # w, NEW d \in InPass(v)
      PROVE  deliveries'[d] = deliveries[d]
  <2>1. d \in Ids  BY <1>3 DEF InPass, Types
  <2>2. \A o \in results[w] : o.id # d  BY <1>3 DEF Locked, InPass
  <2>. QED  BY <1>1, <2>1, <2>2
<1>4. Types' /\ Passes' /\ Locked' /\ DisablesFirst'
  <2>1. aborts' \in Nat  BY <1>0 DEF Types
  <2>. QED  BY <1>0, <1>1, <1>2, <1>3, <2>1, EndPassInv
<1>5. results'[w] = {} /\ \A v \in Workers : v # w => results'[v] = results[v]
  BY <1>0, EndPassEffect
<1>6. RowsOK' /\ CountsOK' /\ ExhaustedDisables'
  <2>. SUFFICES ASSUME NEW d \in Ids
                PROVE  /\ RowOK(d)' /\ CountOK(d)'
                       /\ deliveries'[d].status = "exhausted" =>
                             endpoint'[deliveries'[d].endpoint] = "disabled"
    BY <1>1 DEF RowsOK, CountsOK, ExhaustedDisables, Ids
  <2>1. RowOK(d) /\ CountOK(d)  BY DEF RowsOK, CountsOK
  <2>2. /\ deliveries[d].attempt \in Nat /\ deliveries[d].endpoint \in Endpoints
        /\ posts[d] \in Nat /\ accepted[d] \in Nat /\ retried[d] \in Nat /\ aborts \in Nat
        /\ deliveries[d].waits \in Seq(Nat) /\ Len(Schedule) \in Nat
    BY RowTypes
  <2>3. CASE \A o \in results[w] : o.id # d
    <3>1. deliveries'[d] = deliveries[d]  BY <1>1, <2>3
    <3>2. RowOK(d)'  BY <1>0, <2>1, <3>1 DEF RowOK
    <3>3. (Unattempted(d)' <=> Unattempted(d)) /\ (Unanswered(d)' <=> Unanswered(d))
      BY <1>5, <2>3 DEF Unattempted, Unanswered
    <3>4. CountOK(d)'  BY <1>0, <2>1, <3>1, <3>3 DEF CountOK
    <3>. QED  BY <1>2, <2>2, <3>1, <3>2, <3>4 DEF ExhaustedDisables, Ids
  <2>4. ASSUME NEW o \in results[w], o.id = d
        PROVE  /\ RowOK(d)' /\ CountOK(d)'
               /\ deliveries'[d].status = "exhausted" =>
                     endpoint'[deliveries'[d].endpoint] = "disabled"
    <3>. DEFINE r == o.row
                a == deliveries[d].attempt
    <3>1. deliveries'[d] = r  BY <1>1, <2>4
    <3>2. r \in Answers(d) /\ deliveries[d].status = "pending"
      BY <2>4 DEF Passes, PassOK, InPass
    <3>3. /\ r.endpoint = deliveries[d].endpoint /\ r.attempt = a + 1
          /\ \/ r.status = "succeeded"
             \/ /\ r.status = "pending" /\ r.attempt < Len(Schedule)
                /\ r.waits = deliveries[d].waits \o <<Schedule[r.attempt + 1]>>
             \/ /\ r.status = "exhausted" /\ r.attempt >= Len(Schedule)
                /\ r.waits = deliveries[d].waits
      BY <3>2, AnswerRow
    <3>4. /\ a < Len(Schedule) + retried[d] /\ Len(Schedule) \in Nat
          /\ retried[d] = 0 => deliveries[d].waits = SubSeq(Schedule, 2, a + 1)
      BY <2>1, <3>2, ScheduleAssumption DEF RowOK
    <3>. HIDE DEF r
    <3>5. RowOK(d)'
      <4>1. /\ deliveries'[d].attempt = a + 1 /\ retried'[d] = retried[d]
            /\ deliveries'[d].status = r.status /\ deliveries'[d].waits = r.waits
        BY <1>0, <3>1, <3>3
      <4>2. a + 1 <= Len(Schedule) + retried[d]
            /\ (r.status = "pending" => a + 1 < Len(Schedule) + retried[d])
        BY <2>2, <3>3, <3>4
      <4>3. ASSUME r.status = "pending", retried[d] = 0
            PROVE  r.waits = SubSeq(Schedule, 2, a + 2)
        <5>. DEFINE b == a + 1
        <5>1. b \in Nat /\ b > 0 /\ b < Len(Schedule)  BY <2>2, <3>3, <4>3
        <5>2. r.waits = SubSeq(Schedule, 2, b) \o <<Schedule[b + 1]>>
          BY <3>3, <3>4, <4>3
        <5>. HIDE DEF b
        <5>3. r.waits = SubSeq(Schedule, 2, b + 1)  BY <5>1, <5>2, WaitsGrow
        <5>. QED  BY <2>2, <5>3 DEF b
      <4>4. ASSUME r.status = "exhausted", retried[d] = 0
            PROVE  r.waits = Tail(Schedule)
        <5>1. a + 1 = Len(Schedule)  BY <2>2, <3>3, <3>4, <4>4
        <5>2. r.waits = SubSeq(Schedule, 2, Len(Schedule))  BY <3>3, <3>4, <4>4, <5>1
        <5>3. Schedule # <<>>  BY ScheduleAssumption
        <5>. QED  BY <5>2, <5>3, ScheduleAssumption, TailIsSubSeq
      <4>5. (a + 1) + 1 = a + 2  BY <2>2
      <4>. QED  BY <4>1, <4>2, <4>3, <4>4, <4>5 DEF RowOK
    <3>6. CountOK(d)'
      <4>1. posts[d] <= a + aborts + 1 /\ accepted[d] <= retried[d] + aborts + 1
        BY <2>1 DEF CountOK
      <4>2. ASSUME r.status # "succeeded" PROVE accepted[d] <= retried[d] + aborts
        <5>1. ASSUME NEW v \in Workers, NEW q \in results[v], q.id = d
              PROVE  q = o
          <6>1. v = w  BY <2>4, <5>1 DEF Locked, InPass
          <6>. QED  BY <2>4, <5>1, <6>1 DEF Passes, PassOK
        <5>2. Unanswered(d)  BY <4>2, <5>1 DEF Unanswered, r
        <5>. QED  BY <2>1, <3>2, <5>2 DEF CountOK
      <4>3. /\ deliveries'[d].attempt = a + 1 /\ deliveries'[d].status = r.status
            /\ posts'[d] = posts[d] /\ accepted'[d] = accepted[d] /\ retried'[d] = retried[d]
            /\ aborts' = aborts
        BY <1>0, <3>1, <3>3
      <4>4. posts'[d] <= deliveries'[d].attempt + aborts'
            /\ posts'[d] <= deliveries'[d].attempt + aborts' + 1
        BY <2>2, <4>1, <4>3
      <4>5. /\ accepted'[d] <= retried'[d] + aborts' + 1
            /\ deliveries'[d].status # "succeeded" => accepted'[d] <= retried'[d] + aborts'
        BY <4>1, <4>2, <4>3
      <4>. QED  BY <4>4, <4>5 DEF CountOK
    <3>7. ASSUME r.status = "exhausted"
          PROVE  endpoint'[r.endpoint] = "disabled"
      <4>1. deliveries[d].endpoint \in disabling[w]
        BY <1>0, <2>4, <3>7 DEF DisablesFirst, r
      <4>. QED  BY <1>2, <2>2, <3>3, <4>1
    <3>. QED  BY <3>1, <3>5, <3>6, <3>7
  <2>. QED  BY <2>3, <2>4
<1>. QED  BY <1>4, <1>6

\* Every step keeps the invariant.
LEMMA StepInv == Inv /\ [Next]_vars => Inv'
<1>. SUFFICES ASSUME Inv, [Next]_vars PROVE Inv'  OBVIOUS
<1>0. Types /\ Ids = DOMAIN deliveries  BY DEF Inv, Ids
<1>1. ASSUME NEW w \in Workers, NEW e \in Events, Fanout(w, e) PROVE Inv'
  <2>1. /\ Enqueue(e) /\ UNCHANGED <<endpoint, pc, pass, aborts>>
        /\ fanned' \subseteq Events /\ redelivers' \in Nat
    BY <1>0, <1>1 DEF Fanout, Types
  <2>. QED  BY <2>1, GrowInv
<1>2. ASSUME NEW w \in Workers, DrainedOnce(w) \/ Signal(w) PROVE Inv'
  BY <1>2, PcInv DEF DrainedOnce, Signal, Running
<1>3. ASSUME NEW w \in Workers, Restart(w) PROVE Inv'
  BY <1>3, PcInv DEF Restart, Running
<1>4. ASSUME NEW w \in Workers, WaitToDisable(w) PROVE Inv'
  BY <1>4, PcInv DEF WaitToDisable
<1>5. ASSUME NEW w \in Workers, ClaimDue(w) PROVE Inv'  BY <1>5, ClaimDueInv
<1>6. ASSUME NEW w \in Workers, NEW d \in held[w], NEW ok \in BOOLEAN, Attempt(w, d, ok) PROVE Inv'
  BY <1>6, AttemptInv
<1>7. ASSUME NEW w \in Workers, Disable(w) PROVE Inv'  BY <1>7, DisableInv
<1>8. ASSUME NEW w \in Workers, Commit(w) PROVE Inv'  BY <1>8, CommitInv
<1>9. ASSUME NEW w \in Workers, Crash(w) \/ DeadlockAbort(w) PROVE Inv'
  <2>1. RollBack(w)  BY <1>9 DEF Crash, DeadlockAbort
  <2>. QED  BY <2>1, RollBackInv
<1>10. ASSUME NEW p \in Endpoints, CreateEndpoint(p) PROVE Inv'  BY <1>10, CreateEndpointInv
<1>11. ASSUME NEW d \in DOMAIN deliveries, TimePasses(d) PROVE Inv'
  BY <1>0, <1>11, TimePassesInv
<1>12. ASSUME NEW d \in DOMAIN deliveries, Retry(d) PROVE Inv'  BY <1>0, <1>12, RetryInv
<1>13. ASSUME NEW e \in Events, Redeliver(e) PROVE Inv'
  <2>1. /\ Enqueue(e) /\ UNCHANGED <<endpoint, pc, pass, aborts>>
        /\ fanned' \subseteq Events /\ redelivers' \in Nat
    BY <1>0, <1>13 DEF Redeliver, Types
  <2>. QED  BY <2>1, GrowInv
<1>14. ASSUME UNCHANGED vars PROVE Inv'
  <2>0. UNCHANGED <<endpoint, deliveries, fanned, pc, held, results, disabling, target, posts,
                    accepted, retried, redelivers, aborts>>
    BY <1>14 DEF vars, tables, pass, history
  <2>1. Types' /\ Locked' /\ DisablesFirst' /\ ExhaustedDisables'
    BY <2>0 DEF Inv, Types, Ids, Locked, DisablesFirst, ExhaustedDisables, InPass
  <2>2. Passes'
    BY <2>0 DEF Inv, Passes, PassOK, InPass, Answers, Outcome
  <2>3. RowsOK' /\ CountsOK'
    BY <2>0 DEF Inv, RowsOK, CountsOK, RowOK, CountOK, Ids, Unattempted, Unanswered
  <2>. QED  BY <2>1, <2>2, <2>3 DEF Inv
<1>. QED
  BY <1>1, <1>2, <1>3, <1>4, <1>5, <1>6, <1>7, <1>8, <1>9, <1>10, <1>11, <1>12, <1>13, <1>14
     DEF Next, WorkerStep

\* The invariant holds in every reachable state.
LEMMA Invariance == Spec => []Inv
BY InitInv, StepInv, PTL DEF Spec

\* Every row is well typed, has made no more attempts than the schedule and the
\* manual retries allow, and every pass holds rows that exist.
THEOREM TypeCorrect == Spec => []TypeOK
<1>1. Inv => TypeOK
  <2>. SUFFICES ASSUME Inv PROVE TypeOK  OBVIOUS
  <2>1. ASSUME NEW d \in DOMAIN deliveries
        PROVE  /\ deliveries[d].endpoint \in Endpoints /\ deliveries[d].event \in Events
               /\ deliveries[d].status \in {"pending", "succeeded", "exhausted"}
               /\ deliveries[d].attempt \in 0 .. Len(Schedule) + retried[d]
    <3>1. deliveries[d] \in Rows /\ retried[d] \in Nat  BY DEF Inv, Types, Ids
    <3>2. deliveries[d].attempt <= Len(Schedule) + retried[d]
      BY DEF Inv, RowsOK, RowOK, Ids
    <3>3. Len(Schedule) \in Nat  BY ScheduleAssumption
    <3>. QED  BY <3>1, <3>2, <3>3 DEF Rows, Statuses
  <2>2. \A w \in Workers : InPass(w) \subseteq DOMAIN deliveries
    BY DEF Inv, Types, Ids, InPass
  <2>. QED  BY <2>1, <2>2 DEF TypeOK, Inv, Types, Running
<1>. QED  BY <1>1, Invariance, PTL

\* However many workers dispatch at once, a delivery is POSTed at most once per
\* entry of the backoff schedule, per manual retry and per rolled-back pass.
THEOREM PostsAreBounded == Spec => []PostsBounded
<1>1. Inv => PostsBounded
  <2>. SUFFICES ASSUME Inv, NEW d \in Ids
                PROVE  posts[d] <= Len(Schedule) + retried[d] + aborts
    BY DEF PostsBounded, Ids
  <2>1. RowOK(d) /\ CountOK(d)  BY DEF Inv, RowsOK, CountsOK
  <2>2. /\ deliveries[d].attempt \in Nat /\ posts[d] \in Nat /\ retried[d] \in Nat
        /\ aborts \in Nat /\ Len(Schedule) \in Nat
    BY RowTypes DEF Inv
  <2>3. CASE Unattempted(d)  BY <2>1, <2>2, <2>3 DEF RowOK, CountOK
  <2>4. CASE ~Unattempted(d)
    <3>1. PICK w \in Workers : d \in InPass(w)  BY <2>4 DEF Unattempted, InPass
    <3>2. deliveries[d].status = "pending"  BY <3>1 DEF Inv, Passes, PassOK
    <3>3. deliveries[d].attempt < Len(Schedule) + retried[d]  BY <2>1, <3>2 DEF RowOK
    <3>4. posts[d] <= deliveries[d].attempt + aborts + 1  BY <2>1 DEF CountOK
    <3>. QED  BY <2>2, <3>3, <3>4
  <2>. QED  BY <2>3, <2>4
<1>. QED  BY <1>1, Invariance, PTL

\* No two passes deliver the same row: an accepted delivery is sent again only
\* after a rolled-back pass or a manual retry.
THEOREM AcceptedOnlyOnce == Spec => []AcceptedOnce
<1>1. Inv => AcceptedOnce
  <2>. SUFFICES ASSUME Inv, NEW d \in Ids
                PROVE  accepted[d] <= 1 + retried[d] + aborts
    BY DEF AcceptedOnce, Ids
  <2>1. CountOK(d)  BY DEF Inv, CountsOK
  <2>2. accepted[d] \in Nat /\ retried[d] \in Nat /\ aborts \in Nat  BY DEF Inv, Types
  <2>. QED  BY <2>1, <2>2 DEF CountOK
<1>. QED  BY <1>1, Invariance, PTL

\* A delivery is never recorded as exhausted while its endpoint stays enabled.
THEOREM ExhaustionDisables == Spec => []ExhaustedDisables
BY Invariance, PTL DEF Inv

\* A delivery exhausted without a manual retry has waited through the whole
\* schedule, in order, but for its first delay.
THEOREM WaitsFollowSchedule == Spec => []WaitsInOrder
<1>1. Inv => WaitsInOrder  BY DEF Inv, RowsOK, RowOK, Ids, WaitsInOrder
<1>. QED  BY <1>1, Invariance, PTL
=============================================================================
