------------------------------- MODULE Webhooks -------------------------------
(***************************************************************************)
(* Webhook fan-out and delivery (workers/webhooks.py, WebhookRepository).  *)
(* A worker process fans events out to pending deliveries until its        *)
(* consumer loop ends, then makes one dispatch pass and exits.  A pass is  *)
(* one database transaction: it locks the due deliveries it will attempt,  *)
(* POSTs them one by one, and commits all their outcomes together.         *)
(*                                                                         *)
(* Events reach a worker through the consumer loop, once each (Pipeline).  *)
(* Time is abstract: a delivery that was put off becomes due at some later *)
(* moment; the length of each wait is kept for the properties.             *)
(***************************************************************************)
EXTENDS Integers, Sequences, FiniteSets, SequencesExt

CONSTANTS
    Workers,        \* processes that run fan-out and dispatch
    Endpoints,      \* webhook endpoint ids
    Events,         \* events of the ledger topic
    Subscribed,     \* endpoint -> the events of its enabled_events
    Schedule,       \* webhook_backoff_seconds, a sequence of delays
    Once,           \* whether the worker runs with --once
    BatchSize,      \* deliveries claimed by one pass
    MaxAborts,      \* bound: passes that crash or are cancelled
    MaxRetries,     \* bound: manual retries
    MaxRedelivers   \* bound: manual redeliveries of an event

ASSUME ScheduleAssumption == Schedule \in Seq(Nat) /\ Len(Schedule) > 0
ASSUME BatchAssumption == BatchSize \in Nat \ {0}
ASSUME OnceAssumption == Once \in BOOLEAN
ASSUME EndpointsAssumption == IsFiniteSet(Endpoints)

VARIABLES
    endpoint,   \* endpoint -> none, enabled, disabled
    deliveries, \* webhook_deliveries; a delivery id is an index
    fanned,     \* events the fan-out has claimed
    pc,         \* worker -> fanout, start, attempt, disable, wait, stopped
    held,       \* worker -> deliveries it has locked and not attempted
    results,    \* worker -> uncommitted outcomes: [id, row]
    disabling,  \* worker -> endpoints it has disabled and not committed
    target,     \* worker -> the delivery whose endpoint it disables next, 0: none
    posts,      \* delivery -> POSTs made, committed or not
    accepted,   \* delivery -> POSTs answered 2xx
    retried,    \* delivery -> manual retries
    redelivers, aborts
tables == <<endpoint, deliveries, fanned>>
pass == <<held, results, disabling, target>>
history == <<posts, accepted, retried, redelivers>>
vars == <<tables, pc, pass, history, aborts>>

\* enqueue: a pending row, due at once.
NewDelivery(p, e) == [endpoint |-> p, event |-> e, attempt |-> 0, status |-> "pending",
                      due |-> TRUE, waits |-> <<>>]

EndpointsFor(e) == {p \in Endpoints : endpoint[p] = "enabled" /\ e \in Subscribed[p]}

\* One row per enabled, subscribed endpoint.
Enqueue(e) ==
    LET new == [i \in 1 .. Cardinality(EndpointsFor(e)) |->
                   NewDelivery(SetToSeq(EndpointsFor(e))[i], e)]
        zeros == [i \in DOMAIN new |-> 0]
    IN  /\ deliveries' = deliveries \o new
        /\ posts' = posts \o zeros /\ accepted' = accepted \o zeros /\ retried' = retried \o zeros

CreateEndpoint(p) ==
    /\ endpoint[p] = "none"
    /\ endpoint' = [endpoint EXCEPT ![p] = "enabled"]
    /\ UNCHANGED <<deliveries, fanned, pc, pass, history, aborts>>

\* WebhookFanout.handle, in the transaction of its claim.
Fanout(w, e) ==
    /\ pc[w] = "fanout" /\ e \notin fanned
    /\ fanned' = fanned \cup {e}
    /\ Enqueue(e)
    /\ UNCHANGED <<endpoint, pc, pass, redelivers, aborts>>

\* The consumer loop returns: with --once when nothing is left to poll ...
DrainedOnce(w) ==
    /\ pc[w] = "fanout" /\ Once /\ Events \subseteq fanned
    /\ pc' = [pc EXCEPT ![w] = "start"]
    /\ UNCHANGED <<tables, pass, history, aborts>>

\* ... and otherwise only when a signal asks the process to stop.
Signal(w) ==
    /\ pc[w] = "fanout" /\ ~Once
    /\ pc' = [pc EXCEPT ![w] = "start"]
    /\ UNCHANGED <<tables, pass, history, aborts>>

Restart(w) ==
    /\ pc[w] = "stopped"
    /\ pc' = [pc EXCEPT ![w] = "fanout"]
    /\ UNCHANGED <<tables, pass, history, aborts>>

\* The moment a put-off delivery waits for arrives.
TimePasses(d) ==
    /\ deliveries[d].status = "pending" /\ ~deliveries[d].due
    /\ deliveries' = [deliveries EXCEPT ![d].due = TRUE]
    /\ UNCHANGED <<endpoint, fanned, pc, pass, history, aborts>>
-----------------------------------------------------------------------------
(* dispatch_once.                                                           *)

InPass(w) == held[w] \cup {o.id : o \in results[w]}

Due == {d \in DOMAIN deliveries : deliveries[d].status = "pending" /\ deliveries[d].due}

Batches(S) == {B \in SUBSET S : Cardinality(B) =
                  IF Cardinality(S) < BatchSize THEN Cardinality(S) ELSE BatchSize}

\* Mutant: the rows are not locked.
ClaimDueUnlocked(w) ==
    /\ pc[w] = "start"
    /\ \E B \in Batches(Due) : held' = [held EXCEPT ![w] = B]
    /\ pc' = [pc EXCEPT ![w] = "attempt"]
    /\ UNCHANGED <<tables, results, disabling, target, history, aborts>>

\* Mutant: deliveries of disabled endpoints are passed over.
ClaimDueEnabledOnly(w) ==
    /\ pc[w] = "start"
    /\ \E B \in Batches({d \in Due : endpoint[deliveries[d].endpoint] = "enabled"}
                         \ UNION {InPass(v) : v \in Workers \ {w}}) :
          held' = [held EXCEPT ![w] = B]
    /\ pc' = [pc EXCEPT ![w] = "attempt"]
    /\ UNCHANGED <<tables, results, disabling, target, history, aborts>>

\* claim_due: FOR UPDATE SKIP LOCKED, whatever the status of the endpoint.
ClaimDue(w) ==
    /\ pc[w] = "start"
    /\ \E B \in Batches(Due \ UNION {InPass(v) : v \in Workers \ {w}}) :
          held' = [held EXCEPT ![w] = B]
    /\ pc' = [pc EXCEPT ![w] = "attempt"]
    /\ UNCHANGED <<tables, results, disabling, target, history, aborts>>

\* Mutant: the schedule is indexed from 1, which gives one attempt more.
BackoffLate(attempt) == IF attempt <= Len(Schedule) THEN <<Schedule[attempt]>> ELSE <<>>

\* _backoff: schedule[attempt], counted from 0, or nothing past its end.
Backoff(attempt) == IF attempt < Len(Schedule) THEN <<Schedule[attempt + 1]>> ELSE <<>>

Outcome(d, status, waits) ==
    [deliveries[d] EXCEPT !.attempt = @ + 1, !.status = status, !.due = FALSE, !.waits = @ \o waits]

\* One POST is answered 2xx, or is not.  A delivery out of attempts goes on to
\* disable its endpoint.
Attempt(w, d, ok) ==
    LET wait   == Backoff(deliveries[d].attempt + 1)
        status == IF ok THEN "succeeded" ELSE IF wait = <<>> THEN "exhausted" ELSE "pending"
    IN  /\ pc[w] = "attempt" /\ d \in held[w]
        /\ posts' = [posts EXCEPT ![d] = @ + 1]
        /\ accepted' = [accepted EXCEPT ![d] = IF ok THEN @ + 1 ELSE @]
        /\ held' = [held EXCEPT ![w] = @ \ {d}]
        /\ results' = [results EXCEPT ![w] = @ \cup
              {[id |-> d, row |-> Outcome(d, status, IF ok THEN <<>> ELSE wait)]}]
        /\ pc' = [pc EXCEPT ![w] = IF status = "exhausted" THEN "disable" ELSE "attempt"]
        /\ target' = [target EXCEPT ![w] = IF status = "exhausted" THEN d ELSE 0]
        /\ UNCHANGED <<tables, disabling, retried, redelivers, aborts>>

Target(w) == deliveries[target[w]].endpoint

\* The workers whose uncommitted UPDATE of the same endpoint w waits for.
WaitsFor(w) == IF pc[w] = "wait"
               THEN {v \in Workers \ {w} : Target(w) \in disabling[v]} ELSE {}

Taken(w) == \E v \in Workers \ {w} : Target(w) \in disabling[v]

\* disable_endpoint: the row lock is free, or it is waited for.
Disable(w) ==
    /\ pc[w] = "disable" /\ ~Taken(w)
    /\ disabling' = [disabling EXCEPT ![w] = @ \cup {Target(w)}]
    /\ target' = [target EXCEPT ![w] = 0]
    /\ pc' = [pc EXCEPT ![w] = "attempt"]
    /\ UNCHANGED <<tables, held, results, history, aborts>>

WaitToDisable(w) ==
    /\ pc[w] = "disable" /\ Taken(w)
    /\ pc' = [pc EXCEPT ![w] = "wait"]
    /\ UNCHANGED <<tables, pass, history, aborts>>

\* One waiter for each endpoint whose lock w gives up.
Heirs(w) ==
    LET waiting == {v \in Workers : w \in WaitsFor(v)}
    IN  {H \in SUBSET waiting : /\ {Target(v) : v \in H} = {Target(v) : v \in waiting}
                                /\ \A u, v \in H : Target(u) = Target(v) => u = v}

\* The transaction of a pass ends: its locks go to those who wait for them.
EndPass(w) ==
    /\ held' = [held EXCEPT ![w] = {}]
    /\ results' = [results EXCEPT ![w] = {}]
    /\ \E H \in Heirs(w) :
          /\ disabling' = [v \in Workers |->
                CASE v = w -> {} [] v \in H -> disabling[v] \cup {Target(v)} [] OTHER -> disabling[v]]
          /\ target' = [v \in Workers |-> IF v \in H \cup {w} THEN 0 ELSE target[v]]
          /\ pc' = [v \in Workers |->
                CASE v = w -> "stopped" [] v \in H -> "attempt" [] OTHER -> pc[v]]

Recorded(w) ==
    [d \in DOMAIN deliveries |->
        IF \E o \in results[w] : o.id = d
        THEN (CHOOSE o \in results[w] : o.id = d).row ELSE deliveries[d]]

\* Mutant: the endpoint is disabled outside the transaction and rolled back.
CommitUndisabled(w) ==
    /\ pc[w] = "attempt" /\ held[w] = {}
    /\ deliveries' = Recorded(w)
    /\ EndPass(w)
    /\ UNCHANGED <<endpoint, fanned, history, aborts>>

\* COMMIT: the outcomes of all attempts of the pass, and the disabled endpoints.
Commit(w) ==
    /\ pc[w] = "attempt" /\ held[w] = {}
    /\ deliveries' = Recorded(w)
    /\ endpoint' = [p \in Endpoints |-> IF p \in disabling[w] THEN "disabled" ELSE endpoint[p]]
    /\ EndPass(w)
    /\ UNCHANGED <<fanned, history, aborts>>

RollBack(w) ==
    /\ EndPass(w)
    /\ aborts' = aborts + 1
    /\ UNCHANGED <<tables, history>>

\* The process dies in a pass: the POSTs were made, nothing of it is recorded.
Crash(w) == pc[w] \in {"attempt", "disable", "wait"} /\ aborts < MaxAborts /\ RollBack(w)

\* Everyone in a set of passes waits for someone in it.
Stuck(C) == C # {} /\ \A w \in C : WaitsFor(w) \cap C # {}

\* Passes that disable the same endpoints in different orders: Postgres cancels
\* one of the smallest such set.
DeadlockAbort(w) ==
    /\ \E C \in SUBSET Workers : /\ w \in C /\ Stuck(C)
                                 /\ \A D \in SUBSET C : Stuck(D) => D = C
    /\ RollBack(w)
-----------------------------------------------------------------------------
(* The operator: POST /webhook_deliveries/{id}/retry and                    *)
(* POST /events/{id}/redeliver.                                             *)

\* Mutant: a retry starts the delivery over.
RetryAfresh(d) ==
    /\ retried[d] < MaxRetries
    /\ \A w \in Workers : d \notin InPass(w)
    /\ deliveries' = [deliveries EXCEPT ![d].status = "pending", ![d].due = TRUE, ![d].attempt = 0]
    /\ retried' = [retried EXCEPT ![d] = @ + 1]
    /\ UNCHANGED <<endpoint, fanned, pc, pass, posts, accepted, redelivers, aborts>>

\* retry waits for a pass that holds the row; it keeps the attempt count.
Retry(d) ==
    /\ retried[d] < MaxRetries
    /\ \A w \in Workers : d \notin InPass(w)
    /\ deliveries' = [deliveries EXCEPT ![d].status = "pending", ![d].due = TRUE]
    /\ retried' = [retried EXCEPT ![d] = @ + 1]
    /\ UNCHANGED <<endpoint, fanned, pc, pass, posts, accepted, redelivers, aborts>>

Redeliver(e) ==
    /\ redelivers < MaxRedelivers
    /\ Enqueue(e)
    /\ redelivers' = redelivers + 1
    /\ UNCHANGED <<endpoint, fanned, pc, pass, aborts>>
-----------------------------------------------------------------------------
Init ==
    /\ endpoint = [p \in Endpoints |-> "none"]
    /\ deliveries = <<>> /\ fanned = {}
    /\ pc = [w \in Workers |-> "fanout"]
    /\ held = [w \in Workers |-> {}]
    /\ results = [w \in Workers |-> {}]
    /\ disabling = [w \in Workers |-> {}]
    /\ target = [w \in Workers |-> 0]
    /\ posts = <<>> /\ accepted = <<>> /\ retried = <<>>
    /\ redelivers = 0 /\ aborts = 0

WorkerStep(w) ==
    \/ \E e \in Events : Fanout(w, e)
    \/ DrainedOnce(w) \/ ClaimDue(w)
    \/ \E d \in held[w], ok \in BOOLEAN : Attempt(w, d, ok)
    \/ Disable(w) \/ WaitToDisable(w) \/ Commit(w) \/ DeadlockAbort(w)

Next ==
    \/ \E w \in Workers : WorkerStep(w) \/ Signal(w) \/ Restart(w) \/ Crash(w)
    \/ \E p \in Endpoints : CreateEndpoint(p)
    \/ \E d \in DOMAIN deliveries : TimePasses(d) \/ Retry(d)
    \/ \E e \in Events : Redeliver(e)

Spec == Init /\ [][Next]_vars

\* A process runs, is started again when it has stopped, and time passes.
\* Nobody has to send a signal, and what endpoints answer is not fair.
FairSpec ==
    /\ Spec
    /\ \A w \in Workers : WF_vars(WorkerStep(w)) /\ WF_vars(Restart(w))
    /\ WF_vars(\E d \in DOMAIN deliveries : TimePasses(d))
-----------------------------------------------------------------------------
(* Properties.                                                              *)

TypeOK ==
    /\ endpoint \in [Endpoints -> {"none", "enabled", "disabled"}]
    /\ \A d \in DOMAIN deliveries :
          /\ deliveries[d].endpoint \in Endpoints /\ deliveries[d].event \in Events
          /\ deliveries[d].status \in {"pending", "succeeded", "exhausted"}
          /\ deliveries[d].attempt \in 0 .. Len(Schedule) + retried[d]
    /\ fanned \subseteq Events
    /\ pc \in [Workers -> {"fanout", "start", "attempt", "disable", "wait", "stopped"}]
    /\ \A w \in Workers : InPass(w) \subseteq DOMAIN deliveries

\* A delivery is POSTed no more often than the schedule has entries, plus once
\* per manual retry and once per pass that was rolled back: attempts end.
PostsBounded ==
    \A d \in DOMAIN deliveries : posts[d] <= Len(Schedule) + retried[d] + aborts

\* An endpoint that accepted a delivery is not sent it again by a concurrent
\* pass; only a rolled-back pass or a manual retry repeats it.
AcceptedOnce ==
    \A d \in DOMAIN deliveries : accepted[d] <= 1 + retried[d] + aborts

\* An exhausted delivery and its disabled endpoint are recorded together, also
\* when two passes exhaust deliveries of one endpoint at once.
ExhaustedDisables ==
    \A d \in DOMAIN deliveries :
       deliveries[d].status = "exhausted" => endpoint[deliveries[d].endpoint] = "disabled"

\* A delivery exhausted without a manual retry has waited through the schedule
\* in order, except for its first delay, which _backoff never returns because
\* attempts are counted from 1; a rolled-back pass adds no wait.
WaitsInOrder ==
    \A d \in DOMAIN deliveries :
       deliveries[d].status = "exhausted" /\ retried[d] = 0 =>
          deliveries[d].waits = Tail(Schedule)

\* How many deliveries there can be within the bounds.
MaxDeliveries == Cardinality(Endpoints) * (Cardinality(Events) + MaxRedelivers)

Pending(d) == d \in DOMAIN deliveries /\ deliveries[d].status = "pending"

\* Every delivery is settled: none stays pending for good, though passes crash,
\* deadlock over the endpoints they disable, and are run again.
EveryDeliverySettles == \A d \in 1 .. MaxDeliveries : Pending(d) ~> ~Pending(d)
=============================================================================
