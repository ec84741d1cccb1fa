------------------------------ MODULE MCSep31 ------------------------------
(* Small instances of Sep31: every receive drew the same memo, and every   *)
(* one but t2 has the receiver r1.                                         *)
EXTENDS Sep31
CONSTANTS t1, t2, m1, r1, f1, x1, put1, put2
MCMemoOf == [t \in Tx |-> m1]
MCReceiverOf == [t \in Tx |-> IF t = t2 THEN NoReceiver ELSE r1]
MCPaidMemo == [p \in Payment |-> m1]
=============================================================================
