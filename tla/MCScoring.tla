----------------------------- MODULE MCScoring -----------------------------
(* Three purchases of one account: t1 and t3 within an hour and within the  *)
(* watermark of each other, and t2, of the same day, which is late when it  *)
(* is delivered after either.                                               *)
EXTENDS Scoring

MCAccount == [t \in Txns |-> "checking"]
MCSpends == [t \in Txns |-> TRUE]
MCAt == [t1 |-> 4, t2 |-> 2, t3 |-> 5]
MCAmount == [t1 |-> 1, t2 |-> 2, t3 |-> 9]
MCBest == [t1 |-> "grocer", t2 |-> "grocer", t3 |-> "hotel"]
MCNeeds == [t1 |-> 0, t2 |-> 1, t3 |-> 0]
MCDuration == [hour |-> 2, day |-> 4, week |-> 5, base |-> 5]
=============================================================================
