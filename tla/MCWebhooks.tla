----------------------------- MODULE MCWebhooks -----------------------------
(* Instances of Webhooks for TLC: two workers, and a schedule of two or of   *)
(* three delays in place of the six of config.py.                            *)
EXTENDS Webhooks

CONSTANTS w1, w2, p1, p2

TwoWorkers == {w1, w2}
AllEvents == [p \in Endpoints |-> Events]

OneDelay == <<60>>
TwoDelays == <<60, 300>>
=============================================================================
