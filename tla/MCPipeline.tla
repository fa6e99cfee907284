----------------------------- MODULE MCPipeline -----------------------------
(* Instances of Pipeline for TLC.  The normalizer reads the ledger topic and *)
(* feeds the risk worker, as in workers/normalizer.py and workers/risk.py.   *)
EXTENDS Pipeline

CONSTANTS r1, r2

OneRelay == {r1}
TwoRelays == {r1, r2}

Both == {"normalizer", "risk"}
Normalizer == {"normalizer"}

MCInTopic == [g \in Groups |-> IF g = "risk" THEN "normalized" ELSE Ledger]
MCOutTopic == [g \in Groups |-> IF g = "normalizer" /\ "risk" \in Groups THEN "normalized" ELSE NoTopic]

\* One account for all events, and two accounts.
OneAccount == [e \in 1 .. MaxEvents |-> "cash"]
TwoAccounts == [e \in 1 .. MaxEvents |-> IF e = 2 THEN "pay" ELSE "cash"]
=============================================================================
