----------------------------- MODULE MCObserver -----------------------------
(* Small instances of Observer: receives have the memo m1, which a         *)
(* withdrawal may draw too.                                                *)
EXTENDS Observer
CONSTANTS wd1, s1, rc1, m1, m2, r1, f1, put1, full
MCMemoOf == [t \in Receives |-> m1]
MCReceiverOf == [t \in Receives |-> r1]
=============================================================================
