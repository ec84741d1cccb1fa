---------------------------- MODULE PayoutProofs ----------------------------
(***************************************************************************)
(* What follows from implementing Payout alone, proved once for the kinds  *)
(* of transfer that do: requests bound payouts, and every report stands on *)
(* a record and every record on a payout.                                  *)
(***************************************************************************)
EXTENDS Payout, TLAPS

TypeOK ==
  /\ asked \in [Tx -> Nat]
  /\ paid \in [Tx -> Nat]
  /\ recorded \subseteq Tx
  /\ reported \subseteq Tx

(* No transfer is paid out more often than it was asked for.               *)
WithinRequests == \A t \in Tx : paid[t] <= asked[t]

(* What is reported is recorded, and what is recorded was paid out.        *)
WordsFollowDeeds ==
  /\ reported \subseteq recorded
  /\ \A t \in recorded : paid[t] > 0

Inv == TypeOK /\ WithinRequests /\ WordsFollowDeeds

LEMMA PlusCounts ==
  ASSUME NEW f \in [Tx -> Nat], NEW T
  PROVE  /\ Plus(f, T) \in [Tx -> Nat]
         /\ \A t \in Tx : Plus(f, T)[t] = IF t \in T THEN f[t] + 1 ELSE f[t]
BY DEF Plus

LEMMA PayoutInit == Init => Inv
BY DEF Init, Inv, TypeOK, WithinRequests, WordsFollowDeeds

LEMMA AskKeeps == ASSUME Inv, NEW T \in SUBSET Tx, Ask(T) PROVE Inv'
<1>1. /\ asked' \in [Tx -> Nat]
      /\ \A t \in Tx : asked'[t] >= asked[t]
  BY PlusCounts DEF Ask, Inv, TypeOK
<1>2. WithinRequests'
  BY <1>1 DEF Ask, Inv, TypeOK, WithinRequests
<1> QED
  BY <1>1, <1>2 DEF Ask, Inv, TypeOK, WordsFollowDeeds

LEMMA PayKeeps == ASSUME Inv, NEW T \in SUBSET Tx, Pay(T) PROVE Inv'
<1>1. /\ paid' \in [Tx -> Nat]
      /\ \A t \in Tx : paid'[t] = IF t \in T THEN paid[t] + 1 ELSE paid[t]
  BY PlusCounts DEF Pay, Inv, TypeOK
<1>2. WithinRequests'
  BY <1>1 DEF Pay, Inv, TypeOK, WithinRequests
<1>3. WordsFollowDeeds'
  BY <1>1 DEF Pay, Inv, TypeOK, WordsFollowDeeds
<1> QED
  BY <1>1, <1>2, <1>3 DEF Pay, Inv, TypeOK

LEMMA RecordKeeps == ASSUME Inv, NEW t \in Tx, Record(t) PROVE Inv'
BY DEF Record, Inv, TypeOK, WithinRequests, WordsFollowDeeds

LEMMA ReportKeeps == ASSUME Inv, NEW t \in Tx, Report(t) PROVE Inv'
BY DEF Report, Inv, TypeOK, WithinRequests, WordsFollowDeeds

(* Whatever implements Payout (sep24/worker.rs, sep31/worker.rs) pays a    *)
(* transfer at most as often as it was asked to, records only what it      *)
(* paid and reports only what it recorded.                                 *)
THEOREM Promises == Spec => []Inv
<1>1. ASSUME Inv, [Next]_vars PROVE Inv'
  <2>1. CASE UNCHANGED vars
    BY <1>1, <2>1 DEF vars, Inv, TypeOK, WithinRequests, WordsFollowDeeds
  <2> QED
    BY <1>1, <2>1, AskKeeps, PayKeeps, RecordKeeps, ReportKeeps DEF Next
<1> QED
  BY <1>1, PayoutInit, PTL DEF Spec
=============================================================================
