----------------------------- MODULE MCLoadGen -----------------------------
(* An instance of LoadGen for TLC.  One unit stands for about 4 000 cents,   *)
(* so that a few events empty an account.                                    *)
EXTENDS LoadGen

MCOpening == [checking |-> 4, cash |-> 0, investments |-> 2]
=============================================================================
