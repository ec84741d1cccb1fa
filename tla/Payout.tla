------------------------------- MODULE Payout -------------------------------
(***************************************************************************)
(* What every kind of transfer promises about money leaving the anchor,    *)
(* whatever fails: each request pays a transfer out at most once, a payout *)
(* is recorded only after it happened, and reported only after it was      *)
(* recorded.  Deposit, Withdrawal and Sep31 implement it.                  *)
(*                                                                         *)
(* It does not promise ONE payout: a transfer that is asked for twice may  *)
(* be paid twice (the findings of DepositDouble and Sep31Double), and it   *)
(* promises no record and no report: a crash or an error may lose both.    *)
(***************************************************************************)
EXTENDS Naturals

CONSTANT Tx  \* the transfers

VARIABLES
  asked,     \* how many requests to pay each transfer out were accepted
  paid,      \* how many times each was paid out
  recorded,  \* transfers whose row says they were paid out
  reported   \* transfers the platform was told were paid out

vars == <<asked, paid, recorded, reported>>

Init ==
  /\ asked = [t \in Tx |-> 0] /\ paid = [t \in Tx |-> 0]
  /\ recorded = {} /\ reported = {}

Plus(f, T) == [t \in Tx |-> IF t \in T THEN f[t] + 1 ELSE f[t]]

(* One request may ask for several transfers.                              *)
Ask(T) ==
  /\ asked' = Plus(asked, T)
  /\ UNCHANGED <<paid, recorded, reported>>

(* One payment may stand for several transfers (DepositShared), but it     *)
(* spends a request of each.                                               *)
Pay(T) ==
  /\ \A t \in T : paid[t] < asked[t]
  /\ paid' = Plus(paid, T)
  /\ UNCHANGED <<asked, recorded, reported>>

Record(t) ==
  /\ paid[t] > 0
  /\ recorded' = recorded \cup {t}
  /\ UNCHANGED <<asked, paid, reported>>

Report(t) ==
  /\ t \in recorded
  /\ reported' = reported \cup {t}
  /\ UNCHANGED <<asked, paid, recorded>>

Next ==
  \/ \E T \in SUBSET Tx : Ask(T) \/ Pay(T)
  \/ \E t \in Tx : Record(t) \/ Report(t)

Spec == Init /\ [][Next]_vars
=============================================================================
