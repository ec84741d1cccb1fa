----------------------------- MODULE MCDeposit -----------------------------
(* Small instances of Deposit.  Every deposit goes to the same payee, the  *)
(* case in which two deposits can sign one envelope.                       *)
EXTENDS Deposit
CONSTANTS t1, t2, p1, s1, s2, small, dust
MCPayeeOf == [t \in Tx |-> p1]
=============================================================================
