----------------------------- MODULE ExactlyOnce -----------------------------
(***************************************************************************)
(* What the write path promises its clients and its consumers, with no     *)
(* threads, no locks, no crashes and no retries in it: a ledger to which a *)
(* request is applied in one step, at most once per idempotency key,       *)
(* together with its event; a transaction is reversed at most once; and a  *)
(* success is only ever answered for a request that is in the ledger.      *)
(***************************************************************************)
EXTENDS Integers, Sequences

CONSTANTS Requests, NoKey

VARIABLES
    ledger,     \* the applied requests in commit order: [req, reverses]
    events,     \* the positions of the ledger that have an event
    answered    \* the successes clients were told: [req, txn]
vars == <<ledger, events, answered>>

Init == ledger = <<>> /\ events = {} /\ answered = {}

Original(r) == IF r.body.op = "reverse" THEN r.body.target ELSE 0

KeyUnused(r) == r.key = NoKey \/ \A i \in DOMAIN ledger : ledger[i].req.key # r.key

Reversible(x) == x \in DOMAIN ledger /\ \A i \in DOMAIN ledger : ledger[i].reverses # x

\* The request, its event and the use of its key are one step.
Apply(r) ==
    /\ KeyUnused(r)
    /\ Original(r) # 0 => Reversible(Original(r))
    /\ ledger' = Append(ledger, [req |-> r, reverses |-> Original(r)])
    /\ events' = events \cup {Len(ledger) + 1}
    /\ UNCHANGED answered

\* Tell a client, once or many times, where its request is in the ledger.
Answer(i) ==
    /\ answered' = answered \cup {[req |-> ledger[i].req, txn |-> i]}
    /\ UNCHANGED <<ledger, events>>

Next == (\E r \in Requests : Apply(r)) \/ (\E i \in DOMAIN ledger : Answer(i))

Spec == Init /\ [][Next]_vars
=============================================================================
