---------------------------- MODULE MCWithdrawal ----------------------------
(* Small instances of Withdrawal.                                          *)
EXTENDS Withdrawal
CONSTANTS t1, t2, m1, m2, s1, s2, full, part
=============================================================================
