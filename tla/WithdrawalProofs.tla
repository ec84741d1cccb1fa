-------------------------- MODULE WithdrawalProofs --------------------------
(***************************************************************************)
(* What holds of Withdrawal for every number of withdrawals, submissions,  *)
(* memos, payments and faults.                                             *)
(***************************************************************************)
EXTENDS Withdrawal, FiniteSetTheorems, SequenceTheorems, TLAPS

Waiting(t) == row[t].status = "awaiting_stellar_payment"

(* What the row of a withdrawal says, given what has happened to it.       *)
RowInv(t) ==
  /\ row[t].status = "absent" => row[t].hash = 0 /\ payouts[t] = 0
  /\ row[t].status # "absent" => row[t].memo \in Memo
  /\ row[t].status \notin {"absent", "received"} => FormStored(t)
  /\ row[t].status = "completed" => row[t].hash # 0
  /\ row[t].hash # 0 => /\ row[t].hash \in DOMAIN log
                        /\ log[row[t].hash].memo = row[t].memo
                        /\ payouts[t] > 0
  /\ payouts[t] > 0 =>
       /\ FormStored(t)
       /\ \E i \in DOMAIN log : log[i].memo = row[t].memo /\ <<t, i>> \in received
  /\ t \in sent => row[t].hash # 0
  /\ event[t] = "inserted" \/ t \in told => row[t].status # "absent"

SessionInv ==
  \A s \in Session :
    /\ sess[s].pc = "idle" => sess[s].tx = NoTx
    /\ sess[s].pc # "idle" => /\ sess[s].tx \in Tx /\ sess[s].asked \in Amount
                              /\ row[sess[s].tx].status # "absent"

(* The payment in hand has the memo of the row it was matched with, which  *)
(* waits until the observer itself moves it on.                            *)
ObsInv ==
  obs.pc # "idle" =>
    /\ obs.tx \in Tx /\ obs.item \in DOMAIN log /\ obs.item # 0
    /\ log[obs.item].memo = row[obs.tx].memo
    /\ row[obs.tx].status \notin {"absent", "received"}
    /\ obs.pc \in {"matched", "notified"} => Waiting(obs.tx)
    /\ obs.pc # "matched" => <<obs.tx, obs.item>> \in received
    /\ obs.pc \in {"paid", "recorded"} => payouts[obs.tx] > 0
    /\ obs.pc = "recorded" => row[obs.tx].hash # 0

(* Every submission is good for one payout: it has happened, it is about   *)
(* to, or the row still waits for its payment.                             *)
Ended(t)   == {s \in Session : sess[s].tx = t /\ sess[s].pc = "ended"}
Paying(t)  == obs.pc = "paying" /\ obs.tx = t
Weight(t)  == payouts[t] + (IF Waiting(t) THEN 1 ELSE 0) + (IF Paying(t) THEN 1 ELSE 0)
CountInv   == \A t \in Tx : Weight(t) <= Cardinality(Ended(t))

(* The inductive invariant.                                                *)
IInv ==
  /\ TypeOK
  /\ \A t \in Tx : RowInv(t)
  /\ SessionInv /\ ObsInv /\ CountInv

----------------------------------------------------------------------------
(* What a step that leaves a part alone leaves standing of it.             *)

(* Payments in the log, what the platform has heard, and what submissions  *)
(* brought stay.                                                           *)
Grows ==
  /\ \A s \in Session :
       sess[s].tx # NoTx => sess'[s].tx = sess[s].tx /\ sess'[s].asked = sess[s].asked
  /\ \A i \in DOMAIN log : i \in DOMAIN log' /\ log'[i] = log[i]
  /\ received \subseteq received'

LEMMA FormKeeps ==
  ASSUME NEW t \in Tx, Grows, row'[t].amount = row[t].amount, FormStored(t)
  PROVE  FormStored(t)'
<1>1. PICK s \in Session : sess[s].tx = t /\ sess[s].asked = row[t].amount
  BY DEF FormStored
<1>2. sess'[s].tx = t /\ sess'[s].asked = row[t].amount
  BY <1>1, WithdrawalAssumption DEF Grows
<1> QED
  BY <1>2 DEF FormStored

LEMMA RowKeeps ==
  ASSUME NEW t \in Tx, RowInv(t), Grows, row'[t] = row[t], payouts'[t] = payouts[t],
         t \in sent' => row[t].hash # 0,
         event'[t] = "inserted" \/ t \in told' => row[t].status # "absent"
  PROVE  RowInv(t)'
<1>1. FormStored(t) => FormStored(t)'
  BY FormKeeps
<1> QED
  BY <1>1 DEF RowInv, Grows

LEMMA SessionsKeep ==
  ASSUME TypeOK, SessionInv, sess' = sess,
         \A t \in Tx : row[t].status # "absent" => row'[t].status # "absent"
  PROVE  SessionInv'
BY DEF SessionInv

LEMMA ObsKeeps ==
  ASSUME ObsInv, Grows, obs' = obs, row' = row, payouts' = payouts
  PROVE  ObsInv'
BY DEF ObsInv, Grows, Waiting

LEMMA ObsIdle == ASSUME obs' = Idle PROVE ObsInv'
BY DEF ObsInv, Idle

LEMMA EndedFinite ==
  ASSUME NEW t \in Tx
  PROVE  /\ IsFiniteSet(Ended(t)) /\ Cardinality(Ended(t)) \in Nat
         /\ IsFiniteSet(Submissions(t)) /\ Cardinality(Submissions(t)) \in Nat
         /\ Cardinality(Ended(t)) <= Cardinality(Submissions(t))
<1>1. IsFiniteSet(Submissions(t)) /\ Ended(t) \subseteq Submissions(t)
  BY WithdrawalAssumption, FS_Subset DEF Submissions, Ended
<1>2. IsFiniteSet(Ended(t)) /\ Cardinality(Ended(t)) <= Cardinality(Submissions(t))
  BY <1>1, FS_Subset
<1> QED
  BY <1>1, <1>2, FS_CardinalityType

LEMMA CountKeeps ==
  ASSUME TypeOK, TypeOK', CountInv,
         \A t \in Tx : Weight(t)' <= Weight(t) /\ Ended(t) \subseteq Ended(t)'
  PROVE  CountInv'
<1> SUFFICES ASSUME NEW t \in Tx PROVE Weight(t)' <= Cardinality(Ended(t)')
  BY DEF CountInv
<1>1. IsFiniteSet(Ended(t)')
  <2>1. Ended(t)' \subseteq Session
    BY DEF Ended
  <2> QED
    BY <2>1, WithdrawalAssumption, FS_Subset
<1>2. /\ Cardinality(Ended(t)) <= Cardinality(Ended(t)')
      /\ Cardinality(Ended(t)) \in Nat /\ Cardinality(Ended(t)') \in Nat
  BY <1>1, EndedFinite, FS_Subset, FS_CardinalityType
<1>3. Weight(t) \in Nat /\ Weight(t)' \in Nat
  BY DEF TypeOK, Weight
<1> QED
  BY <1>2, <1>3 DEF CountInv

(* A step that touches neither sess, nor payouts, nor what waits.          *)
LEMMA CountSame ==
  ASSUME TypeOK, TypeOK', CountInv, sess' = sess, payouts' = payouts,
         \A t \in Tx : Waiting(t)' => Waiting(t),
         \A t \in Tx : Paying(t)' => Paying(t)
  PROVE  CountInv'
<1>1. \A t \in Tx : Ended(t)' = Ended(t)
  BY DEF Ended
<1>2. \A t \in Tx : Weight(t)' <= Weight(t)
  BY DEF Weight, TypeOK
<1> QED
  BY <1>1, <1>2, CountKeeps

----------------------------------------------------------------------------
(* The initial states, and one lemma per action.                           *)
LEMMA InitIInv == Init => IInv
<1> SUFFICES ASSUME Init PROVE IInv
  OBVIOUS
<1> USE WithdrawalAssumption DEF Init
<1>1. TypeOK
  <2>1. [status |-> "absent", memo |-> NoMemo, amount |-> NoAmount, hash |-> 0] \in Row
    BY DEF Row, Status
  <2>2. [pc |-> "idle", tx |-> NoTx, asked |-> NoAmount] \in Visit /\ Idle \in Job
    BY DEF Visit, Idle, Job
  <2>3. << >> \in Seq(LogItem)
    OBVIOUS
  <2> QED
    BY <2>1, <2>2, <2>3 DEF TypeOK, StreamTypeOK, StreamInit
<1>2. (\A t \in Tx : RowInv(t)) /\ SessionInv /\ ObsInv
  BY DEF RowInv, SessionInv, ObsInv, Idle
<1>3. CountInv
  <2> SUFFICES ASSUME NEW t \in Tx PROVE Weight(t) <= Cardinality(Ended(t))
    BY DEF CountInv
  <2>1. Ended(t) = {}
    BY DEF Ended
  <2>2. Weight(t) = 0
    BY DEF Weight, Waiting, Paying, Idle
  <2> QED
    BY <2>1, <2>2, FS_EmptySet
<1> QED
  BY <1>1, <1>2, <1>3 DEF IInv

LEMMA HandleCreatedStep ==
  ASSUME IInv, NEW t \in Tx, NEW m \in Memo, NEW a \in Amount \cup {NoAmount},
         HandleCreated(t, m, a)
  PROVE  IInv'
<1>1. /\ UNCHANGED <<log, pos, told, sess, obs, payouts, received, sent>>
      /\ faults' \in {faults, faults + 1}
      /\ row[t].status = "absent" /\ row' = Created(t, m, a)
      /\ event' \in {[event EXCEPT ![t] = "inserted"], [event EXCEPT ![t] = "ended"]}
  BY DEF HandleCreated, stream, outside, Fault, NoFault
<1>2. /\ row' \in [Tx -> Row] /\ \A x \in Tx \ {t} : row'[x] = row[x]
      /\ row'[t] = [row[t] EXCEPT !.status = "received", !.memo = m, !.amount = a]
  <2>1. [row[t] EXCEPT !.status = "received", !.memo = m, !.amount = a] \in Row
    BY DEF IInv, TypeOK, Row, Status
  <2> QED
    BY <1>1, <2>1 DEF Created, IInv, TypeOK
<1>3. /\ row'[t].status = "received" /\ row'[t].memo = m
      /\ row'[t].hash = row[t].hash
  BY <1>2 DEF IInv, TypeOK, Row
<1>4. TypeOK'
  BY <1>1, <1>2 DEF IInv, TypeOK, StreamTypeOK
<1>5. Grows
  BY <1>1 DEF Grows
<1>6. ASSUME NEW x \in Tx PROVE RowInv(x)'
  <2>1. RowInv(x)
    BY DEF IInv
  <2>2. CASE x = t
    BY <1>1, <1>3, <2>1, <2>2 DEF RowInv, IInv, TypeOK
  <2>3. CASE x # t
    <3>1. event'[x] = event[x]
      BY <1>1, <2>3 DEF IInv, TypeOK
    <3> QED
      BY <1>1, <1>2, <1>5, <2>1, <2>3, <3>1, RowKeeps DEF RowInv
  <2> QED
    BY <2>2, <2>3
<1>7. SessionInv'
  BY <1>1, <1>2, <1>3, SessionsKeep DEF IInv
<1>8. ObsInv'
  <2>1. obs.pc # "idle" => obs.tx # t
    BY <1>1 DEF IInv, ObsInv
  <2> QED
    BY <1>1, <1>2, <2>1 DEF IInv, ObsInv, Waiting
<1>9. CountInv'
  BY <1>1, <1>2, <1>3, <1>4, CountSame DEF IInv, Waiting, Paying
<1> QED
  BY <1>4, <1>6, <1>7, <1>8, <1>9 DEF IInv

LEMMA AssignDestinationStep ==
  ASSUME IInv, NEW t \in Tx, AssignDestination(t) PROVE IInv'
<1>1. /\ UNCHANGED <<log, pos, row, sess, obs, payouts, received, sent>>
      /\ faults' \in {faults, faults + 1}
      /\ event[t] = "inserted" /\ event' = [event EXCEPT ![t] = "ended"]
      /\ told' \in {told, told \cup {t}}
  BY DEF AssignDestination, stream, outside, Fault, NoFault
<1>2. TypeOK'
  BY <1>1 DEF IInv, TypeOK, StreamTypeOK
<1>3. Grows
  BY <1>1 DEF Grows
<1>4. ASSUME NEW x \in Tx PROVE RowInv(x)'
  <2>1. RowInv(x) /\ RowInv(t)
    BY DEF IInv
  <2>2. event'[x] = "inserted" \/ x \in told' => row[x].status # "absent"
    BY <1>1, <2>1 DEF RowInv, IInv, TypeOK
  <2> QED
    BY <1>1, <1>3, <2>1, <2>2, RowKeeps DEF RowInv
<1>5. SessionInv' /\ ObsInv' /\ CountInv'
  BY <1>1, <1>2, <1>3, SessionsKeep, ObsKeeps, CountSame DEF IInv, Waiting, Paying
<1> QED
  BY <1>2, <1>4, <1>5 DEF IInv

LEMMA CheckReceivedStep ==
  ASSUME IInv, NEW s \in Session, NEW t \in Tx, NEW a \in Amount, CheckReceived(s, t, a)
  PROVE  IInv'
<1>1. /\ UNCHANGED <<log, pos, row, event, told, obs, payouts, received, sent, faults>>
      /\ sess[s].pc = "idle" /\ row[t].status = "received"
      /\ sess' = [sess EXCEPT ![s] = [pc |-> "checked", tx |-> t, asked |-> a]]
  BY DEF CheckReceived, Accepts, stream, outside
<1>2. [pc |-> "checked", tx |-> t, asked |-> a] \in Visit
  BY DEF Visit
<1>3. /\ sess' \in [Session -> Visit] /\ sess'[s].pc = "checked"
      /\ sess'[s].tx = t /\ sess'[s].asked = a
      /\ \A u \in Session \ {s} : sess'[u] = sess[u]
  BY <1>1, <1>2 DEF IInv, TypeOK
<1>4. TypeOK'
  BY <1>1, <1>3 DEF IInv, TypeOK, StreamTypeOK
<1>5. Grows
  <2>1. sess[s].tx = NoTx
    BY <1>1 DEF IInv, SessionInv
  <2> QED
    BY <1>1, <1>3, <2>1 DEF Grows
<1>6. ASSUME NEW x \in Tx PROVE RowInv(x)'
  <2>1. RowInv(x)
    BY DEF IInv
  <2> QED
    BY <1>1, <1>5, <2>1, RowKeeps DEF RowInv
<1>7. SessionInv'
  BY <1>1, <1>3 DEF IInv, SessionInv
<1>8. ObsInv'
  BY <1>1, <1>5, ObsKeeps DEF IInv
<1>9. CountInv'
  <2> SUFFICES ASSUME NEW x \in Tx
               PROVE  Weight(x)' <= Weight(x) /\ Ended(x) \subseteq Ended(x)'
    BY <1>4, CountKeeps DEF IInv
  <2>1. Weight(x)' = Weight(x)
    BY <1>1 DEF Weight, Waiting, Paying
  <2>2. Weight(x) \in Nat
    BY DEF Weight, IInv, TypeOK
  <2>3. Ended(x) \subseteq Ended(x)'
    BY <1>1, <1>3 DEF Ended
  <2> QED
    BY <2>1, <2>2, <2>3
<1> QED
  BY <1>4, <1>6, <1>7, <1>8, <1>9 DEF IInv

LEMMA SubmitAmountStep ==
  ASSUME IInv, NEW s \in Session, SubmitAmount(s) PROVE IInv'
<1> DEFINE t == sess[s].tx
           a == sess[s].asked
<1>1. /\ UNCHANGED <<log, pos, event, obs, payouts, received, sent>>
      /\ faults' \in {faults, faults + 1}
      /\ sess[s].pc = "checked" /\ sess' = [sess EXCEPT ![s].pc = "ended"]
      /\ row' \in {row, Submitted(t, a)} /\ told' \in {told, told \cup {t}}
  BY DEF SubmitAmount, stream, outside, Fault, NoFault
<1>2. t \in Tx /\ a \in Amount /\ row[t].status # "absent"
  BY <1>1 DEF IInv, SessionInv
<1>3. /\ row' \in [Tx -> Row] /\ \A x \in Tx \ {t} : row'[x] = row[x]
      /\ row'[t].memo = row[t].memo /\ row'[t].hash = row[t].hash
      /\ \/ row'[t] = row[t]
         \/ row'[t].status = "awaiting_stellar_payment" /\ row'[t].amount = a
  <2> DEFINE r == [row[t] EXCEPT !.status = "awaiting_stellar_payment", !.amount = a]
  <2>1. r \in Row /\ r.memo = row[t].memo /\ r.hash = row[t].hash
        /\ r.status = "awaiting_stellar_payment" /\ r.amount = a
    <3>1. row[t] \in Row /\ a \in Amount
      BY <1>2 DEF IInv, TypeOK
    <3> HIDE DEF t, a
    <3> QED
      BY <3>1 DEF Row, Status
  <2>2. Submitted(t, a) = [row EXCEPT ![t] = r]
    BY DEF Submitted
  <2> HIDE DEF r
  <2>3. row' = row \/ row' = [row EXCEPT ![t] = r]
    BY <1>1, <2>2
  <2>4. row \in [Tx -> Row]
    BY DEF IInv, TypeOK
  <2>5. CASE row' = row
    BY <2>4, <2>5
  <2>6. CASE row' = [row EXCEPT ![t] = r]
    <3>1. row' \in [Tx -> Row] /\ row'[t] = r /\ \A x \in Tx \ {t} : row'[x] = row[x]
      BY <1>2, <2>1, <2>4, <2>6
    <3> QED
      BY <2>1, <3>1
  <2> QED
    BY <2>3, <2>5, <2>6
<1>4. /\ sess' \in [Session -> Visit] /\ sess'[s].pc = "ended"
      /\ sess'[s].tx = t /\ sess'[s].asked = a
      /\ \A u \in Session \ {s} : sess'[u] = sess[u]
  <2>1. sess' = [sess EXCEPT ![s] = [sess[s] EXCEPT !.pc = "ended"]]
    BY <1>1
  <2>2. [sess[s] EXCEPT !.pc = "ended"] \in Visit
    BY DEF IInv, TypeOK, Visit
  <2> QED
    BY <2>1, <2>2 DEF IInv, TypeOK, Visit
<1>5. TypeOK'
  BY <1>1, <1>2, <1>3, <1>4 DEF IInv, TypeOK, StreamTypeOK
<1>6. Grows
  BY <1>1, <1>4 DEF Grows
<1>7. ASSUME NEW x \in Tx PROVE RowInv(x)'
  <2>1. RowInv(x)
    BY DEF IInv
  <2>2. CASE x = t
    <3>1. CASE row'[t] = row[t]
      BY <1>1, <1>2, <1>6, <2>1, <2>2, <3>1, RowKeeps DEF RowInv
    <3>2. CASE row'[t].status = "awaiting_stellar_payment" /\ row'[t].amount = a
      <4>1. FormStored(x)'
        BY <1>4, <2>2, <3>2 DEF FormStored
      <4> HIDE DEF t, a
      <4> QED
        BY <1>1, <1>2, <1>3, <2>1, <2>2, <3>2, <4>1 DEF RowInv
    <3> QED
      BY <1>3, <3>1, <3>2
  <2>3. CASE x # t
    BY <1>1, <1>3, <1>6, <2>1, <2>3, RowKeeps DEF RowInv
  <2> QED
    BY <2>2, <2>3
<1>8. SessionInv'
  <2>1. \A x \in Tx : row[x].status # "absent" => row'[x].status # "absent"
    BY <1>3
  <2> QED
    BY <1>2, <1>4, <2>1 DEF IInv, SessionInv
<1>9. ObsInv'
  BY <1>1, <1>3 DEF IInv, ObsInv, Waiting
<1>10. CountInv'
  <2> SUFFICES ASSUME NEW x \in Tx PROVE Weight(x)' <= Cardinality(Ended(x)')
    BY DEF CountInv
  <2>1. Weight(x) <= Cardinality(Ended(x)) /\ Cardinality(Ended(x)) \in Nat
    BY EndedFinite DEF IInv, CountInv
  <2>2. CASE x = t
    <3>1. Ended(x)' = Ended(x) \cup {s} /\ s \notin Ended(x)
      BY <1>1, <1>4, <2>2 DEF Ended
    <3>2. Cardinality(Ended(x)') = Cardinality(Ended(x)) + 1
      BY <3>1, EndedFinite, FS_AddElement
    <3>3. Weight(x)' <= Weight(x) + 1 /\ Weight(x) \in Nat /\ Weight(x)' \in Nat
      BY <1>1, <1>5 DEF Weight, Paying, IInv, TypeOK
    <3> QED
      BY <2>1, <3>2, <3>3
  <2>3. CASE x # t
    <3>1. Ended(x)' = Ended(x)
      BY <1>1, <1>4, <2>3 DEF Ended
    <3>2. Weight(x)' = Weight(x)
      BY <1>1, <1>3, <2>3 DEF Weight, Waiting, Paying
    <3> QED
      BY <2>1, <3>1, <3>2
  <2> QED
    BY <2>2, <2>3
<1> QED
  BY <1>5, <1>7, <1>8, <1>9, <1>10 DEF IInv

(* A payment by anyone, and what the stream does while the observer idles. *)
LEMMA PayGrows ==
  ASSUME TypeOK, NEW m \in Memo, NEW a \in Amount, Pay(m, a)
  PROVE  /\ log' \in Seq(LogItem) /\ pos' = pos
         /\ \A i \in DOMAIN log : i \in DOMAIN log' /\ log'[i] = log[i]
<1>1. [memo |-> m, amount |-> a] \in LogItem
  BY DEF LogItem
<1>2. log \in Seq(LogItem) /\ log' = Append(log, [memo |-> m, amount |-> a])
  BY DEF Pay, TypeOK, StreamTypeOK
<1> QED
  BY <1>1, <1>2, AppendProperties DEF Pay

LEMMA StreamStep ==
  ASSUME IInv, UNCHANGED <<row, event, told, sess, obs, outside>>, Grows,
         StreamTypeOK', faults' \in {faults, faults + 1}
  PROVE  IInv'
<1>1. TypeOK'
  BY DEF IInv, TypeOK, outside
<1>2. ASSUME NEW x \in Tx PROVE RowInv(x)'
  <2>1. RowInv(x)
    BY DEF IInv
  <2> QED
    BY <2>1, RowKeeps DEF RowInv, outside
<1>3. SessionInv' /\ ObsInv' /\ CountInv'
  BY <1>1, SessionsKeep, ObsKeeps, CountSame DEF IInv, outside, Waiting, Paying
<1> QED
  BY <1>1, <1>2, <1>3 DEF IInv

LEMMA PaysStep ==
  ASSUME IInv, NEW m \in Memo, NEW a \in Amount, Pay(m, a),
         UNCHANGED <<row, event, told, sess, obs, outside, faults>>
  PROVE  IInv'
<1>1. Grows /\ StreamTypeOK'
  BY PayGrows DEF IInv, TypeOK, StreamTypeOK, Grows, outside
<1> QED
  BY <1>1, StreamStep

LEMMA WalletPaysStep ==
  ASSUME IInv, NEW t \in Tx, NEW a \in Amount, WalletPays(t, a) PROVE IInv'
<1>1. row[t].memo \in Memo
  BY DEF WalletPays, IInv, RowInv
<1> QED
  BY <1>1, PaysStep DEF WalletPays

LEMMA OpensStep == ASSUME IInv, Opens \/ StreamBreaks PROVE IInv'
<1>1. /\ UNCHANGED <<log, row, event, told, sess, obs, outside>>
      /\ pos' \in Nat \cup {Offline} /\ faults' \in {faults, faults + 1}
  <2>1. Len(log) \in Nat
    BY DEF IInv, TypeOK, StreamTypeOK
  <2> QED
    BY <2>1 DEF Opens, StreamBreaks, Connect, Disconnect, Fault
<1>2. Grows /\ StreamTypeOK'
  BY <1>1 DEF Grows, outside, IInv, TypeOK, StreamTypeOK
<1> QED
  BY <1>1, <1>2, StreamStep

LEMMA DeliverStep == ASSUME IInv, Deliver PROVE IInv'
<1> DEFINE i == pos + 1
<1>1. /\ UNCHANGED <<log, row, event, told, sess, payouts, received, sent>>
      /\ pos' = i /\ faults' \in {faults, faults + 1}
      /\ obs.pc = "idle" /\ pos # Offline /\ pos < Len(log)
      /\ \/ obs' = Idle
         \/ \E t \in Tx : Matches(t, log[i].memo) /\ obs' = Handle(t, i)
  BY DEF Deliver, Advance, HasNext, outside, Fault, NoFault
<1>2. pos \in Nat /\ i \in DOMAIN log /\ i # 0
  BY <1>1 DEF IInv, TypeOK, StreamTypeOK
<1>3. obs' \in Job
  <2>1. Idle \in Job /\ \A t \in Tx : Handle(t, i) \in Job
    BY <1>2 DEF Idle, Handle, Job
  <2> QED
    BY <1>1, <2>1
<1>4. TypeOK'
  BY <1>1, <1>2, <1>3 DEF IInv, TypeOK, StreamTypeOK
<1>5. Grows
  BY <1>1 DEF Grows
<1>6. ASSUME NEW x \in Tx PROVE RowInv(x)'
  <2>1. RowInv(x)
    BY DEF IInv
  <2> QED
    BY <1>1, <1>5, <2>1, RowKeeps DEF RowInv
<1>7. ObsInv'
  <2>1. ASSUME NEW t \in Tx, Matches(t, log[i].memo), obs' = Handle(t, i) PROVE ObsInv'
    <3>1. obs'.pc = "matched" /\ obs'.tx = t /\ obs'.item = i
      BY <2>1 DEF Handle
    <3>2. row[t].memo = log[i].memo /\ row[t].status = "awaiting_stellar_payment"
      BY <2>1 DEF Matches
    <3> HIDE DEF i
    <3> QED
      BY <1>1, <1>2, <3>1, <3>2 DEF ObsInv, Waiting
  <2> QED
    BY <1>1, <2>1, ObsIdle
<1>8. SessionInv'
  BY <1>1, SessionsKeep DEF IInv
<1>9. CountInv'
  <2>1. \A t \in Tx : ~Paying(t)'
    BY <1>1 DEF Paying, Handle, Idle
  <2>2. \A t \in Tx : Waiting(t)' => Waiting(t)
    BY <1>1 DEF Waiting
  <2> QED
    BY <1>1, <1>4, <2>1, <2>2, CountSame DEF IInv
<1> QED
  BY <1>4, <1>6, <1>7, <1>8, <1>9 DEF IInv

LEMMA NotifyReceivedStep == ASSUME IInv, NotifyReceived PROVE IInv'
<1>1. /\ UNCHANGED <<log, pos, row, event, told, sess, payouts, sent>>
      /\ faults' \in {faults, faults + 1}
      /\ obs.pc = "matched"
      /\ received' \in {received, received \cup {<<obs.tx, obs.item>>}}
      /\ \/ obs' = Idle
         \/ /\ obs' = [obs EXCEPT !.pc = "notified"]
            /\ received' = received \cup {<<obs.tx, obs.item>>}
  BY DEF NotifyReceived, stream, Fault, NoFault
<1>2. obs.tx \in Tx /\ obs.item \in Nat
  BY <1>1 DEF IInv, ObsInv, TypeOK, Job
<1>3. TypeOK'
  <2>1. Idle \in Job /\ [obs EXCEPT !.pc = "notified"] \in Job
    BY DEF Idle, Job, IInv, TypeOK
  <2>2. received' \subseteq Tx \X Nat
    BY <1>1, <1>2 DEF IInv, TypeOK
  <2>3. obs' \in Job
    BY <1>1, <2>1
  <2> QED
    BY <1>1, <2>2, <2>3 DEF IInv, TypeOK, StreamTypeOK
<1>4. Grows
  BY <1>1 DEF Grows
<1>5. ASSUME NEW x \in Tx PROVE RowInv(x)'
  <2>1. RowInv(x)
    BY DEF IInv
  <2> QED
    BY <1>1, <1>4, <2>1, RowKeeps DEF RowInv
<1>6. ObsInv'
  <2>1. CASE obs' = Idle
    BY <2>1, ObsIdle
  <2>2. ASSUME obs' = [obs EXCEPT !.pc = "notified"],
               received' = received \cup {<<obs.tx, obs.item>>}
        PROVE  ObsInv'
    <3>1. obs'.pc = "notified" /\ obs'.tx = obs.tx /\ obs'.item = obs.item
      BY <2>2 DEF IInv, TypeOK, Job
    <3> QED
      BY <1>1, <2>2, <3>1 DEF IInv, ObsInv, Waiting
  <2> QED
    BY <1>1, <2>1, <2>2
<1>7. SessionInv'
  BY <1>1, SessionsKeep DEF IInv
<1>8. CountInv'
  <2>1. \A t \in Tx : ~Paying(t)'
    BY <1>1 DEF Paying, Idle, IInv, TypeOK, Job
  <2> QED
    BY <1>1, <1>3, <2>1, CountSame DEF IInv, Waiting
<1> QED
  BY <1>3, <1>5, <1>6, <1>7, <1>8 DEF IInv

LEMMA SetPayoutPendingStep == ASSUME IInv, SetPayoutPending PROVE IInv'
<1> DEFINE t == obs.tx
<1>1. /\ UNCHANGED <<log, pos, event, told, sess, payouts, received, sent>>
      /\ faults' \in {faults, faults + 1}
      /\ obs.pc = "notified"
      /\ row' \in {row, PayoutPending(t)}
      /\ \/ obs' = Idle
         \/ obs' = [obs EXCEPT !.pc = "paying"] /\ row' = PayoutPending(t)
  BY DEF SetPayoutPending, stream, outside, Fault, NoFault
<1>2. t \in Tx /\ Waiting(t) /\ RowInv(t)
  BY <1>1 DEF IInv, ObsInv
<1>3. /\ row' \in [Tx -> Row] /\ \A x \in Tx \ {t} : row'[x] = row[x]
      /\ row'[t].memo = row[t].memo /\ row'[t].hash = row[t].hash
      /\ row'[t].amount = row[t].amount
      /\ row' = row \/ row' = PayoutPending(t)
      /\ row' = PayoutPending(t) => row'[t].status = "awaiting_offchain_payout"
  <2> DEFINE r == [row[t] EXCEPT !.status = "awaiting_offchain_payout"]
  <2>1. r \in Row /\ r.memo = row[t].memo /\ r.hash = row[t].hash
        /\ r.status = "awaiting_offchain_payout" /\ r.amount = row[t].amount
    <3>1. row[t] \in Row
      BY <1>2 DEF IInv, TypeOK
    <3> HIDE DEF t
    <3> QED
      BY <3>1 DEF Row, Status
  <2>2. PayoutPending(t) = [row EXCEPT ![t] = r]
    BY DEF PayoutPending
  <2>3. row \in [Tx -> Row] /\ (row' = row \/ row' = [row EXCEPT ![t] = r])
    BY <1>1, <2>2 DEF IInv, TypeOK
  <2> HIDE DEF t, r
  <2>4. CASE row' = [row EXCEPT ![t] = r]
    BY <1>2, <2>1, <2>2, <2>3, <2>4
  <2>5. CASE row' = row /\ row' # [row EXCEPT ![t] = r]
    BY <2>2, <2>3, <2>5
  <2> QED
    BY <2>3, <2>4, <2>5
<1>4. \/ obs' = Idle
      \/ /\ obs'.pc = "paying" /\ obs'.tx = t /\ obs'.item = obs.item
         /\ row' = PayoutPending(t)
  BY <1>1 DEF IInv, TypeOK, Job
<1>5. TypeOK'
  <2>1. Idle \in Job /\ [obs EXCEPT !.pc = "paying"] \in Job
    BY DEF Idle, Job, IInv, TypeOK
  <2>2. obs' \in Job /\ row' \in [Tx -> Row]
    BY <1>1, <1>3, <2>1
  <2>3. /\ UNCHANGED <<log, pos, event, told, sess, payouts, received, sent>>
        /\ faults' \in {faults, faults + 1}
    BY <1>1
  <2> QED
    BY <2>2, <2>3 DEF IInv, TypeOK, StreamTypeOK
<1>6. Grows
  BY <1>1 DEF Grows
<1>7. ASSUME NEW x \in Tx PROVE RowInv(x)'
  <2>1. RowInv(x)
    BY DEF IInv
  <2>2. CASE x = t
    <3>1. FormStored(x) => FormStored(x)'
      BY <1>3, <1>6, <2>2, FormKeeps
    <3> HIDE DEF t
    <3> QED
      BY <1>1, <1>2, <1>3, <2>1, <2>2, <3>1 DEF RowInv, Waiting
  <2>3. CASE x # t
    BY <1>1, <1>3, <1>6, <2>1, <2>3, RowKeeps DEF RowInv
  <2> QED
    BY <2>2, <2>3
<1>8. SessionInv'
  <2>1. \A x \in Tx : row[x].status # "absent" => row'[x].status # "absent"
    BY <1>3
  <2> QED
    BY <1>1, <2>1, SessionsKeep DEF IInv
<1>9. ObsInv'
  <2>1. CASE obs'.pc = "paying" /\ obs'.tx = t /\ obs'.item = obs.item
             /\ row' = PayoutPending(t)
    <3>1. row'[t].status \notin {"absent", "received"}
      BY <1>2, <1>3 DEF Waiting
    <3> QED
      BY <1>1, <1>3, <2>1, <3>1 DEF IInv, ObsInv, Waiting
  <2> QED
    BY <1>4, <2>1, ObsIdle
<1>10. CountInv'
  <2> SUFFICES ASSUME NEW x \in Tx
               PROVE  Weight(x)' <= Weight(x) /\ Ended(x) \subseteq Ended(x)'
    BY <1>5, CountKeeps DEF IInv
  <2>1. Ended(x)' = Ended(x)
    BY <1>1 DEF Ended
  <2>2. ~Paying(x) /\ (Paying(x)' => x = t /\ Waiting(x) /\ ~Waiting(x)')
    BY <1>1, <1>2, <1>3, <1>4 DEF Paying, Waiting, Idle, PayoutPending
  <2>3. Waiting(x)' => Waiting(x)
    BY <1>2, <1>3 DEF Waiting
  <2>4. payouts'[x] = payouts[x] /\ payouts[x] \in Nat
    BY <1>1 DEF IInv, TypeOK
  <2>5. Weight(x)' <= Weight(x)
    BY <2>2, <2>3, <2>4 DEF Weight
  <2> QED
    BY <2>1, <2>5
<1> QED
  BY <1>5, <1>7, <1>8, <1>9, <1>10 DEF IInv

LEMMA PayoutStep == ASSUME IInv, Payout PROVE IInv'
<1> DEFINE t == obs.tx
<1>1. /\ UNCHANGED <<log, pos, row, event, told, sess, received, sent, faults>>
      /\ obs.pc = "paying"
      /\ payouts' = [payouts EXCEPT ![t] = payouts[t] + 1]
      /\ obs' = [obs EXCEPT !.pc = "paid"]
  BY DEF Payout, stream
<1>2. /\ t \in Tx /\ RowInv(t) /\ obs.item \in DOMAIN log
      /\ log[obs.item].memo = row[t].memo /\ <<t, obs.item>> \in received
      /\ row[t].status \notin {"absent", "received"}
  BY <1>1 DEF IInv, ObsInv
<1>3. obs'.pc = "paid" /\ obs'.tx = t /\ obs'.item = obs.item /\ obs' \in Job
  BY <1>1 DEF IInv, TypeOK, Job
<1>4. /\ payouts' \in [Tx -> Nat] /\ payouts'[t] = payouts[t] + 1 /\ payouts[t] \in Nat
      /\ \A x \in Tx \ {t} : payouts'[x] = payouts[x]
  BY <1>1, <1>2 DEF IInv, TypeOK
<1>5. TypeOK'
  BY <1>1, <1>3, <1>4 DEF IInv, TypeOK, StreamTypeOK
<1>6. Grows
  BY <1>1 DEF Grows
<1>7. ASSUME NEW x \in Tx PROVE RowInv(x)'
  <2>1. RowInv(x)
    BY DEF IInv
  <2>2. CASE x = t
    <3>1. payouts'[t] > 0
      BY <1>4
    <3>2. FormStored(x) => FormStored(x)'
      BY <1>1, <1>6, FormKeeps
    <3> HIDE DEF t
    <3> QED
      BY <1>1, <1>2, <2>1, <2>2, <3>1, <3>2 DEF RowInv
  <2>3. CASE x # t
    BY <1>1, <1>4, <1>6, <2>1, <2>3, RowKeeps DEF RowInv
  <2> QED
    BY <2>2, <2>3
<1>8. SessionInv'
  BY <1>1, SessionsKeep DEF IInv
<1>9. ObsInv'
  BY <1>1, <1>2, <1>3, <1>4 DEF IInv, ObsInv, Waiting
<1>10. CountInv'
  <2> SUFFICES ASSUME NEW x \in Tx
               PROVE  Weight(x)' <= Weight(x) /\ Ended(x) \subseteq Ended(x)'
    BY <1>5, CountKeeps DEF IInv
  <2>1. Ended(x)' = Ended(x)
    BY <1>1 DEF Ended
  <2>2. ~Paying(x)' /\ (Paying(x) <=> x = t) /\ (Waiting(x)' <=> Waiting(x))
    BY <1>1, <1>3 DEF Paying, Waiting
  <2>3. /\ payouts[x] \in Nat /\ payouts'[x] \in Nat
        /\ payouts'[x] = (IF x = t THEN payouts[x] + 1 ELSE payouts[x])
    BY <1>4 DEF IInv, TypeOK
  <2>4. Weight(x)' <= Weight(x)
    BY <2>2, <2>3 DEF Weight
  <2> QED
    BY <2>1, <2>4
<1> QED
  BY <1>5, <1>7, <1>8, <1>9, <1>10 DEF IInv

LEMMA SetCompletedStep == ASSUME IInv, SetCompleted PROVE IInv'
<1> DEFINE t == obs.tx
           i == obs.item
<1>1. /\ UNCHANGED <<log, pos, event, told, sess, payouts, received, sent>>
      /\ faults' \in {faults, faults + 1}
      /\ obs.pc = "paid"
      /\ row' \in {row, Completed(t, i)}
      /\ \/ obs' = Idle
         \/ obs' = [obs EXCEPT !.pc = "recorded"] /\ row' = Completed(t, i)
  BY DEF SetCompleted, stream, outside, Fault, NoFault
<1>2. /\ t \in Tx /\ RowInv(t) /\ i \in DOMAIN log /\ i # 0 /\ i \in Nat
      /\ log[i].memo = row[t].memo /\ <<t, i>> \in received /\ payouts[t] > 0
      /\ row[t].status \notin {"absent", "received"}
  BY <1>1 DEF IInv, ObsInv, TypeOK, Job
<1>3. /\ row' \in [Tx -> Row] /\ \A x \in Tx \ {t} : row'[x] = row[x]
      /\ row'[t].memo = row[t].memo /\ row'[t].amount = row[t].amount
      /\ row' = row \/ row' = Completed(t, i)
      /\ row' = Completed(t, i) => row'[t].status = "completed" /\ row'[t].hash = i
  <2> DEFINE r == [row[t] EXCEPT !.status = "completed", !.hash = i]
  <2>1. r \in Row /\ r.memo = row[t].memo /\ r.hash = i
        /\ r.status = "completed" /\ r.amount = row[t].amount
    <3>1. row[t] \in Row
      BY <1>2 DEF IInv, TypeOK
    <3> HIDE DEF t, i
    <3> QED
      BY <1>2, <3>1 DEF Row, Status
  <2>2. Completed(t, i) = [row EXCEPT ![t] = r]
    BY DEF Completed
  <2>3. row \in [Tx -> Row] /\ (row' = row \/ row' = [row EXCEPT ![t] = r])
    BY <1>1, <2>2 DEF IInv, TypeOK
  <2> HIDE DEF t, i, r
  <2>4. CASE row' = [row EXCEPT ![t] = r]
    BY <1>2, <2>1, <2>2, <2>3, <2>4
  <2>5. CASE row' = row /\ row' # [row EXCEPT ![t] = r]
    BY <2>2, <2>3, <2>5
  <2> QED
    BY <2>3, <2>4, <2>5
<1>4. \/ obs' = Idle
      \/ /\ obs'.pc = "recorded" /\ obs'.tx = t /\ obs'.item = i
         /\ row' = Completed(t, i)
  BY <1>1 DEF IInv, TypeOK, Job
<1>5. TypeOK'
  <2>1. Idle \in Job /\ [obs EXCEPT !.pc = "recorded"] \in Job
    BY DEF Idle, Job, IInv, TypeOK
  <2> QED
    BY <1>1, <1>3, <2>1 DEF IInv, TypeOK, StreamTypeOK
<1>6. Grows
  BY <1>1 DEF Grows
<1>7. ASSUME NEW x \in Tx PROVE RowInv(x)'
  <2>1. RowInv(x)
    BY DEF IInv
  <2>2. CASE x = t /\ row' = Completed(t, i)
    <3>1. FormStored(x) => FormStored(x)'
      BY <1>3, <1>6, <2>2, FormKeeps
    <3> HIDE DEF t, i
    <3> QED
      BY <1>1, <1>2, <1>3, <2>2, <3>1 DEF RowInv
  <2>3. CASE row'[x] = row[x]
    BY <1>1, <1>6, <2>1, <2>3, RowKeeps DEF RowInv
  <2> QED
    BY <1>3, <2>2, <2>3
<1>8. SessionInv'
  <2>1. \A x \in Tx : row[x].status # "absent" => row'[x].status # "absent"
    BY <1>3
  <2> QED
    BY <1>1, <2>1, SessionsKeep DEF IInv
<1>9. ObsInv'
  <2>1. CASE /\ obs'.pc = "recorded" /\ obs'.tx = t /\ obs'.item = i
             /\ row' = Completed(t, i)
    <3> HIDE DEF t, i
    <3> QED
      BY <1>1, <1>2, <1>3, <2>1 DEF ObsInv, Waiting
  <2> QED
    BY <1>4, <2>1, ObsIdle
<1>10. CountInv'
  <2>1. \A x \in Tx : Waiting(x)' => Waiting(x)
    BY <1>3 DEF Waiting
  <2>2. \A x \in Tx : ~Paying(x)'
    BY <1>4 DEF Paying, Idle
  <2> QED
    BY <1>1, <1>5, <2>1, <2>2, CountSame DEF IInv
<1> QED
  BY <1>5, <1>7, <1>8, <1>9, <1>10 DEF IInv

LEMMA NotifySentStep == ASSUME IInv, NotifySent PROVE IInv'
<1>1. /\ UNCHANGED <<log, pos, row, event, told, sess, payouts, received>>
      /\ faults' \in {faults, faults + 1}
      /\ obs.pc = "recorded" /\ obs' = Idle
      /\ sent' \in {sent, sent \cup {obs.tx}}
  BY DEF NotifySent, stream, Fault, NoFault
<1>2. obs.tx \in Tx /\ row[obs.tx].hash # 0
  BY <1>1 DEF IInv, ObsInv
<1>3. TypeOK'
  <2>1. Idle \in Job
    BY DEF Idle, Job
  <2> QED
    BY <1>1, <1>2, <2>1 DEF IInv, TypeOK, StreamTypeOK
<1>4. Grows
  BY <1>1 DEF Grows
<1>5. ASSUME NEW x \in Tx PROVE RowInv(x)'
  <2>1. RowInv(x)
    BY DEF IInv
  <2> QED
    BY <1>1, <1>2, <1>4, <2>1, RowKeeps DEF RowInv
<1>6. SessionInv' /\ ObsInv'
  BY <1>1, SessionsKeep, ObsIdle DEF IInv
<1>7. CountInv'
  BY <1>1, <1>3, CountSame DEF IInv, Waiting, Paying, Idle
<1> QED
  BY <1>3, <1>5, <1>6, <1>7 DEF IInv

LEMMA CrashStep == ASSUME IInv, Crash PROVE IInv'
<1>1. /\ UNCHANGED <<log, row, told, payouts, received, sent>>
      /\ faults' \in {faults, faults + 1} /\ pos' = Offline /\ obs' = Idle
      /\ event' = [t \in Tx |-> IF event[t] = "inserted" THEN "ended" ELSE event[t]]
      /\ sess' = [s \in Session |->
           IF sess[s].pc = "checked" THEN [sess[s] EXCEPT !.pc = "ended"] ELSE sess[s]]
  BY DEF Crash, outside, Fault
<1>2. \A s \in Session :
        /\ sess'[s] \in Visit
        /\ sess'[s].tx = sess[s].tx /\ sess'[s].asked = sess[s].asked
        /\ sess'[s].pc = (IF sess[s].pc = "checked" THEN "ended" ELSE sess[s].pc)
  <2> SUFFICES ASSUME NEW s \in Session
      PROVE  /\ sess'[s] \in Visit
             /\ sess'[s].tx = sess[s].tx /\ sess'[s].asked = sess[s].asked
             /\ sess'[s].pc = (IF sess[s].pc = "checked" THEN "ended" ELSE sess[s].pc)
    OBVIOUS
  <2>1. sess[s] \in Visit
    BY DEF IInv, TypeOK
  <2>2. sess'[s] = IF sess[s].pc = "checked" THEN [sess[s] EXCEPT !.pc = "ended"]
                                             ELSE sess[s]
    BY <1>1
  <2> QED
    BY <2>1, <2>2 DEF Visit
<1>3. \A t \in Tx : event'[t] \in {"none", "ended"}
  BY <1>1 DEF IInv, TypeOK
<1>4. TypeOK'
  <2>1. Idle \in Job
    BY DEF Idle, Job
  <2>2. sess' \in [Session -> Visit]
    BY <1>1, <1>2
  <2>3. event' \in [Tx -> {"none", "inserted", "ended"}]
    BY <1>1, <1>3
  <2> QED
    BY <1>1, <2>1, <2>2, <2>3 DEF IInv, TypeOK, StreamTypeOK
<1>5. Grows
  BY <1>1, <1>2 DEF Grows
<1>6. ASSUME NEW x \in Tx PROVE RowInv(x)'
  <2>1. RowInv(x)
    BY DEF IInv
  <2> QED
    BY <1>1, <1>3, <1>5, <2>1, RowKeeps DEF RowInv
<1>7. SessionInv'
  BY <1>1, <1>2 DEF IInv, SessionInv
<1>8. ObsInv'
  BY <1>1, ObsIdle
<1>9. CountInv'
  <2> SUFFICES ASSUME NEW x \in Tx
               PROVE  Weight(x)' <= Weight(x) /\ Ended(x) \subseteq Ended(x)'
    BY <1>4, CountKeeps DEF IInv
  <2>1. Ended(x) \subseteq Ended(x)'
    BY <1>2 DEF Ended
  <2>2. ~Paying(x)' /\ (Waiting(x)' <=> Waiting(x))
    BY <1>1 DEF Paying, Idle, Waiting
  <2>3. payouts'[x] = payouts[x] /\ payouts[x] \in Nat
    BY <1>1 DEF IInv, TypeOK
  <2> QED
    BY <2>1, <2>2, <2>3 DEF Weight
<1> QED
  BY <1>4, <1>6, <1>7, <1>8, <1>9 DEF IInv

----------------------------------------------------------------------------
(* The theorems.                                                           *)
LEMMA NextIInv == ASSUME IInv, Next PROVE IInv'
<1>1. ASSUME NEW m \in SenderMemo, NEW a \in Amount, SenderPays(m, a) PROVE IInv'
  BY <1>1, PaysStep, WithdrawalAssumption DEF SenderPays
<1>2. CASE Observe
  BY <1>2, OpensStep, DeliverStep, NotifyReceivedStep, SetPayoutPendingStep, PayoutStep,
     SetCompletedStep, NotifySentStep DEF Observe, CompleteWithdrawal
<1> QED
  BY <1>1, <1>2, HandleCreatedStep, AssignDestinationStep, CheckReceivedStep,
     SubmitAmountStep, WalletPaysStep, OpensStep, CrashStep DEF Next

LEMMA StutterIInv == ASSUME IInv, UNCHANGED vars PROVE IInv'
<1>1. /\ UNCHANGED <<log, pos, row, event, told, sess, obs, payouts, received, sent>>
      /\ faults' = faults
  BY DEF vars, stream, outside
<1>2. Grows /\ StreamTypeOK'
  BY <1>1 DEF Grows, IInv, TypeOK, StreamTypeOK
<1> QED
  BY <1>1, <1>2, StreamStep DEF outside

(* Every reachable state is well typed and satisfies the inductive         *)
(* invariant: in particular each submission is good for one payout.        *)
THEOREM Invariance == Spec => [](TypeOK /\ IInv)
<1>1. IInv => TypeOK
  BY DEF IInv
<1> QED
  BY <1>1, InitIInv, NextIInv, StutterIInv, PTL DEF Spec

LEMMA OnceEach == IInv => SoloPaidOnce
<1> SUFFICES ASSUME IInv, NEW t \in Tx, Solo(t) PROVE payouts[t] <= 1
  BY DEF SoloPaidOnce
<1>1. Cardinality(Submissions(t)) <= 1
  <2>1. ASSUME NEW s \in Submissions(t) PROVE Submissions(t) = {s}
    BY DEF Submissions, Solo
  <2>2. CASE Submissions(t) = {}
    BY <2>2, FS_EmptySet
  <2>3. ASSUME NEW s \in Submissions(t) PROVE Cardinality(Submissions(t)) = 1
    BY <2>1, FS_Singleton
  <2> QED
    BY <2>2, <2>3
<1>2. payouts[t] \in Nat /\ payouts[t] <= Weight(t) /\ Weight(t) \in Nat
  BY DEF IInv, TypeOK, Weight
<1>3. Weight(t) <= Cardinality(Submissions(t))
  BY <1>2, EndedFinite DEF IInv, CountInv
<1> QED
  BY <1>1, <1>2, <1>3, EndedFinite

(* A withdrawal submitted once is paid out at most once, however often     *)
(* payments come or are replayed, and whatever fails (sep24/worker.rs).    *)
THEOREM WithdrawalsArePaidOnce == Spec => []SoloPaidOnce
<1> QED
  BY OnceEach, Invariance, PTL

(* A payout was preceded by a form's amount and by a payment with the      *)
(* row's memo of which the platform was told (sep24/worker.rs).            *)
THEOREM PayoutsWereBacked == Spec => []PayoutsAreBacked
<1>1. IInv => PayoutsAreBacked
  BY DEF IInv, RowInv, PayoutsAreBacked
<1> QED
  BY <1>1, Invariance, PTL

(* Completed rows and reports have had a payout, and a completed row names *)
(* a payment that carries its memo (sep24/worker.rs).                      *)
THEOREM NoFalseClaims == Spec => []ClaimsAreTrue
<1>1. IInv => ClaimsAreTrue
  BY DEF IInv, RowInv, ClaimsAreTrue
<1> QED
  BY <1>1, Invariance, PTL

----------------------------------------------------------------------------
(* Withdrawals implement Payout.                                           *)
LEMMA SameAsked ==
  ASSUME \A s \in Session : sess'[s].tx = sess[s].tx PROVE Asked' = Asked
BY DEF Asked, Submissions

LEMMA SameRecorded ==
  ASSUME \A t \in Tx : row'[t].hash = row[t].hash PROVE Recorded' = Recorded
BY DEF Recorded

(* A step that only touches what Payout does not see.                      *)
LEMMA Unseen ==
  ASSUME UNCHANGED <<payouts, sent>>,
         \A s \in Session : sess'[s].tx = sess[s].tx,
         \A t \in Tx : row'[t].hash = row[t].hash
  PROVE  UNCHANGED P!vars
BY SameAsked, SameRecorded DEF P!vars

LEMMA AsksOnce ==
  ASSUME IInv, NEW s \in Session, NEW t \in Tx, NEW a \in Amount, CheckReceived(s, t, a)
  PROVE  P!Ask({t})
<1>1. /\ UNCHANGED <<row, payouts, sent>> /\ sess[s].pc = "idle"
      /\ sess' = [sess EXCEPT ![s] = [pc |-> "checked", tx |-> t, asked |-> a]]
  BY DEF CheckReceived, outside
<1>2. /\ sess[s].tx = NoTx /\ sess'[s].tx = t
      /\ \A u \in Session \ {s} : sess'[u] = sess[u]
  BY <1>1 DEF IInv, TypeOK, SessionInv
<1>3. /\ Submissions(t)' = Submissions(t) \cup {s} /\ s \notin Submissions(t)
      /\ \A x \in Tx \ {t} : Submissions(x)' = Submissions(x)
  BY <1>2, WithdrawalAssumption DEF Submissions
<1>4. Cardinality(Submissions(t)') = Cardinality(Submissions(t)) + 1
  BY <1>3, EndedFinite, FS_AddElement
<1>5. Asked' = P!Plus(Asked, {t})
  BY <1>3, <1>4 DEF Asked, P!Plus
<1> QED
  BY <1>1, <1>5, SameRecorded DEF P!Ask

LEMMA PayoutPays == ASSUME IInv, Payout PROVE P!Pay({obs.tx})
<1> DEFINE t == obs.tx
<1>1. /\ UNCHANGED <<row, sess, sent>> /\ obs.pc = "paying"
      /\ payouts' = [payouts EXCEPT ![t] = payouts[t] + 1]
  BY DEF Payout
<1>2. t \in Tx /\ payouts \in [Tx -> Nat]
  BY <1>1 DEF IInv, ObsInv, TypeOK
<1>3. Weight(t) <= Cardinality(Submissions(t)) /\ Weight(t) \in Nat
  BY <1>2, EndedFinite DEF IInv, CountInv, Weight
<1>4. payouts[t] < Weight(t)
  BY <1>1, <1>2 DEF Weight, Paying
<1>5. payouts[t] < Asked[t]
  BY <1>2, <1>3, <1>4, EndedFinite DEF Asked
<1>6. payouts' = P!Plus(payouts, {t})
  BY <1>1, <1>2 DEF P!Plus
<1> QED
  BY <1>1, <1>5, <1>6, SameAsked, SameRecorded DEF P!Pay

LEMMA CompletedRecords ==
  ASSUME IInv, SetCompleted PROVE P!Record(obs.tx) \/ UNCHANGED P!vars
<1> DEFINE t == obs.tx
           i == obs.item
<1>1. /\ UNCHANGED <<sess, payouts, sent>> /\ obs.pc = "paid"
      /\ row' = row \/ row' = Completed(t, i)
  BY DEF SetCompleted, outside
<1>2. t \in Tx /\ payouts[t] > 0 /\ i # 0
  BY <1>1 DEF IInv, ObsInv
<1>3. CASE row' = Completed(t, i)
  <2>1. row'[t].hash = i /\ \A x \in Tx \ {t} : row'[x] = row[x]
    BY <1>2, <1>3 DEF Completed, IInv, TypeOK, Row
  <2>2. Recorded' = Recorded \cup {t}
    BY <1>2, <2>1 DEF Recorded
  <2> QED
    BY <1>1, <1>2, <2>2, SameAsked DEF P!Record
<1> QED
  BY <1>1, <1>3, Unseen

LEMMA SentReports == ASSUME IInv, NotifySent PROVE P!Report(obs.tx) \/ UNCHANGED P!vars
<1>1. /\ UNCHANGED <<row, sess, payouts>> /\ obs.pc = "recorded"
      /\ sent' = sent \/ sent' = sent \cup {obs.tx}
  BY DEF NotifySent
<1>2. obs.tx \in Recorded
  BY <1>1 DEF IInv, ObsInv, Recorded
<1> QED
  BY <1>1, <1>2, SameAsked, SameRecorded, Unseen DEF P!Report

LEMMA PayoutRefines == ASSUME IInv, Next PROVE [P!Next]_(P!vars)
<1>1. ASSUME NEW t \in Tx, NEW m \in Memo, NEW a \in Amount \cup {NoAmount},
             HandleCreated(t, m, a)
      PROVE  UNCHANGED P!vars
  BY <1>1, Unseen DEF HandleCreated, Created, outside, IInv, TypeOK, Row
<1>2. ASSUME NEW t \in Tx, AssignDestination(t) PROVE UNCHANGED P!vars
  BY <1>2, Unseen DEF AssignDestination, outside
<1>3. ASSUME NEW s \in Session, NEW t \in Tx, NEW a \in Amount, CheckReceived(s, t, a)
      PROVE  P!Next
  BY <1>3, AsksOnce DEF P!Next
<1>4. ASSUME NEW s \in Session, SubmitAmount(s) PROVE UNCHANGED P!vars
  <2>1. sess[s].tx \in Tx
    BY <1>4 DEF SubmitAmount, IInv, SessionInv
  <2>2. \A t \in Tx : Submitted(sess[s].tx, sess[s].asked)[t].hash = row[t].hash
    BY <2>1 DEF Submitted, IInv, TypeOK, Row
  <2>3. \A u \in Session : sess'[u].tx = sess[u].tx
    BY <1>4 DEF SubmitAmount, IInv, TypeOK, Visit
  <2> QED
    BY <1>4, <2>2, <2>3, Unseen DEF SubmitAmount, outside
<1>5. ASSUME UNCHANGED <<row, sess, outside>> PROVE UNCHANGED P!vars
  BY <1>5, Unseen DEF outside
<1>6. CASE NotifyReceived
  BY <1>6, Unseen DEF NotifyReceived
<1>7. CASE SetPayoutPending
  <2>1. obs.tx \in Tx
    BY <1>7 DEF SetPayoutPending, IInv, ObsInv
  <2>2. \A t \in Tx : PayoutPending(obs.tx)[t].hash = row[t].hash
    BY <2>1 DEF PayoutPending, IInv, TypeOK, Row
  <2> QED
    BY <1>7, <2>2, Unseen DEF SetPayoutPending, outside
<1>8. CASE Payout \/ SetCompleted \/ NotifySent
  <2>1. obs.tx \in Tx
    BY <1>8 DEF Payout, SetCompleted, NotifySent, IInv, ObsInv
  <2> QED
    BY <1>8, <2>1, PayoutPays, CompletedRecords, SentReports DEF P!Next
<1>9. CASE Crash
  BY <1>9, Unseen DEF Crash, outside, IInv, TypeOK, Visit
<1> QED
  BY <1>1, <1>2, <1>3, <1>4, <1>5, <1>6, <1>7, <1>8, <1>9
     DEF Next, Observe, Opens, Deliver, CompleteWithdrawal, StreamBreaks, WalletPays,
         SenderPays

LEMMA PayoutInit == Init => P!Init
<1> SUFFICES ASSUME Init PROVE P!Init
  OBVIOUS
<1>1. \A t \in Tx : Submissions(t) = {}
  BY WithdrawalAssumption DEF Init, Submissions
<1> QED
  BY <1>1, FS_EmptySet DEF P!Init, Asked, Recorded, Init

(* Withdrawals implement Payout: an accepted submission is paid out at     *)
(* most once, a row is completed only after a payout, and the platform is  *)
(* told only of completed rows (observer.rs, sep24/worker.rs).             *)
THEOREM WithdrawalsImplementPayout == Spec => ImplementsPayout
<1>1. ASSUME IInv, [Next]_vars PROVE [P!Next]_(P!vars)
  BY <1>1, PayoutRefines, Unseen DEF vars, outside
<1> QED
  BY <1>1, PayoutInit, Invariance, PTL DEF Spec, ImplementsPayout, P!Spec

(* What implementing Payout means here.                                    *)
PP == INSTANCE PayoutProofs WITH
        asked <- Asked, paid <- payouts, recorded <- Recorded, reported <- sent

(* Whatever is replayed or fails, a withdrawal is paid out at most as     *)
(* often as its form was submitted, and is reported as sent only once its  *)
(* row names the payment (sep24/worker.rs).                                *)
THEOREM SubmissionsBoundPayouts ==
  Spec => [](/\ \A t \in Tx : payouts[t] <= Asked[t]
             /\ sent \subseteq Recorded)
<1>1. PP!Inv => /\ \A t \in Tx : payouts[t] <= Asked[t]
                /\ sent \subseteq Recorded
  BY DEF PP!Inv, PP!WithinRequests, PP!WordsFollowDeeds
<1>2. PP!Init <=> P!Init
  BY DEF PP!Init, P!Init
<1>3. PP!Next <=> P!Next
  BY DEF PP!Next, P!Next, PP!Ask, P!Ask, PP!Pay, P!Pay, PP!Plus, P!Plus,
         PP!Record, P!Record, PP!Report, P!Report
<1>4. [P!Next]_(P!vars) => [PP!Next]_(PP!vars)
  BY <1>3 DEF PP!vars, P!vars
<1> QED
  BY <1>1, <1>2, <1>4, WithdrawalsImplementPayout, PP!Promises, PTL
  DEF ImplementsPayout, P!Spec, PP!Spec

----------------------------------------------------------------------------
(* Where nothing fails.  The observer has t's payout ahead of it, or has   *)
(* made it and is to record or report it.                                  *)
Held(t)    == obs.tx = t /\ obs.pc \in {"paying", "paid"}
Reports(t) == obs.tx = t /\ obs.pc \in {"paid", "recorded"}

Kept(t) ==
  /\ row[t].status = "awaiting_offchain_payout" => Held(t)
  /\ payouts[t] > 0 => t \in sent \/ Reports(t)

LEMMA KeptAs == NothingIsForgotten <=> (faults = 0 => \A t \in Tx : Kept(t))
BY DEF NothingIsForgotten, Kept, Held, Reports

(* A step that pays nothing out, and announces no payout.                  *)
LEMMA KeptStays ==
  ASSUME \A t \in Tx : Kept(t), payouts' = payouts, sent \subseteq sent',
         \A t \in Tx : row'[t].status = "awaiting_offchain_payout" =>
           row[t].status = "awaiting_offchain_payout",
         obs' = obs \/ obs.pc \in {"idle", "matched"}
  PROVE  \A t \in Tx : Kept(t)'
BY DEF Kept, Held, Reports

LEMMA KeptForms ==
  ASSUME IInv, \A t \in Tx : Kept(t), faults = 0, faults' = 0,
         NEW s \in Session, SubmitAmount(s)
  PROVE  \A t \in Tx : Kept(t)'
<1>1. PICK x \in Tx : x = sess[s].tx
  BY DEF SubmitAmount, IInv, SessionInv
<1>2. row' = Submitted(x, sess[s].asked) /\ UNCHANGED <<obs, payouts, sent>>
  <2>1. ~Fault
    BY DEF Fault
  <2> QED
    BY <1>1, <2>1 DEF SubmitAmount, outside
<1>3. /\ row'[x].status = "awaiting_stellar_payment"
      /\ \A t \in Tx \ {x} : row'[t] = row[t]
  BY <1>2 DEF Submitted, IInv, TypeOK, Row
<1> QED
  BY <1>2, <1>3, KeptStays

LEMMA KeptObserver ==
  ASSUME IInv, \A t \in Tx : Kept(t), faults = 0, faults' = 0, CompleteWithdrawal
  PROVE  \A t \in Tx : Kept(t)'
<1>1. PICK x \in Tx : x = obs.tx
  BY DEF CompleteWithdrawal, NotifyReceived, SetPayoutPending, Payout, SetCompleted,
     NotifySent, IInv, ObsInv
<1>2. ~Fault
  BY DEF Fault
<1>3. obs \in Job
  BY DEF IInv, TypeOK
<1>4. CASE NotifyReceived
  BY <1>2, <1>4, KeptStays DEF NotifyReceived
<1>5. CASE SetPayoutPending
  <2>1. /\ obs.pc = "notified" /\ row' = PayoutPending(x)
        /\ obs' = [obs EXCEPT !.pc = "paying"] /\ UNCHANGED <<payouts, sent>>
    BY <1>1, <1>2, <1>5 DEF SetPayoutPending, outside
  <2>2. \A t \in Tx \ {x} : row'[t] = row[t]
    BY <2>1 DEF PayoutPending, IInv, TypeOK
  <2>3. obs'.tx = x /\ obs'.pc = "paying"
    BY <1>1, <1>3, <2>1 DEF Job
  <2> QED
    BY <2>1, <2>2, <2>3 DEF Kept, Held, Reports
<1>6. CASE Payout
  <2>1. /\ obs.pc = "paying" /\ payouts' = [payouts EXCEPT ![x] = @ + 1]
        /\ obs' = [obs EXCEPT !.pc = "paid"] /\ UNCHANGED <<row, sent>>
    BY <1>1, <1>6 DEF Payout
  <2>2. \A t \in Tx \ {x} : payouts'[t] = payouts[t]
    BY <2>1 DEF IInv, TypeOK
  <2>3. obs'.tx = x /\ obs'.pc = "paid"
    BY <1>1, <1>3, <2>1 DEF Job
  <2> QED
    BY <1>1, <2>1, <2>2, <2>3 DEF Kept, Held, Reports
<1>7. CASE SetCompleted
  <2>1. /\ obs.pc = "paid" /\ row' = Completed(x, obs.item)
        /\ obs' = [obs EXCEPT !.pc = "recorded"] /\ UNCHANGED <<payouts, sent>>
    BY <1>1, <1>2, <1>7 DEF SetCompleted, outside
  <2>2. /\ row'[x].status = "completed"
        /\ \A t \in Tx \ {x} : row'[t] = row[t]
    BY <2>1 DEF Completed, IInv, TypeOK, Row
  <2>3. obs'.tx = x /\ obs'.pc = "recorded"
    BY <1>1, <1>3, <2>1 DEF Job
  <2> QED
    BY <1>1, <2>1, <2>2, <2>3 DEF Kept, Held, Reports
<1>8. CASE NotifySent
  <2>1. obs.pc = "recorded" /\ sent' = sent \cup {x} /\ UNCHANGED <<row, payouts>>
    BY <1>1, <1>2, <1>8 DEF NotifySent
  <2> QED
    BY <1>1, <2>1 DEF Kept, Held, Reports
<1> QED
  BY <1>4, <1>5, <1>6, <1>7, <1>8 DEF CompleteWithdrawal

LEMMA CalmInit == Init => NothingIsForgotten
BY DEF Init, NothingIsForgotten

LEMMA CalmStep ==
  ASSUME IInv, NothingIsForgotten, [Next]_vars PROVE NothingIsForgotten'
<1>1. faults \in Nat /\ (faults' = faults \/ faults' = faults + 1)
  BY DEF IInv, TypeOK, Next, Fault, NoFault, HandleCreated, AssignDestination,
     CheckReceived, SubmitAmount, WalletPays, SenderPays, Observe, Opens, Deliver,
     CompleteWithdrawal, NotifyReceived, SetPayoutPending, Payout, SetCompleted,
     NotifySent, StreamBreaks, Crash, vars
<1> SUFFICES ASSUME faults' = 0 PROVE \A t \in Tx : Kept(t)'
  BY KeptAs DEF NothingIsForgotten, Kept, Held, Reports
<1>2. faults = 0 /\ \A t \in Tx : Kept(t)
  BY <1>1, KeptAs
<1>3. ~Fault
  BY <1>2 DEF Fault
<1>4. ASSUME NEW t \in Tx, NEW m \in Memo, NEW a \in Amount \cup {NoAmount},
             HandleCreated(t, m, a)
      PROVE  \A x \in Tx : Kept(x)'
  <2>1. row' = Created(t, m, a) /\ UNCHANGED <<obs, payouts, sent>>
    BY <1>4 DEF HandleCreated, outside
  <2>2. row'[t].status = "received" /\ \A x \in Tx \ {t} : row'[x] = row[x]
    BY <2>1 DEF Created, IInv, TypeOK, Row
  <2> QED
    BY <1>2, <2>1, <2>2, KeptStays
<1>5. ASSUME \/ \E t \in Tx : AssignDestination(t)
             \/ \E s \in Session, t \in Tx, a \in Amount : CheckReceived(s, t, a)
             \/ \E t \in Tx, a \in Amount : WalletPays(t, a)
             \/ \E m \in SenderMemo, a \in Amount : SenderPays(m, a)
             \/ Opens \/ Deliver \/ UNCHANGED vars
      PROVE  \A x \in Tx : Kept(x)'
  <2>1. UNCHANGED <<row, payouts, sent>> /\ (obs' = obs \/ obs.pc = "idle")
    BY <1>5 DEF AssignDestination, CheckReceived, WalletPays, SenderPays, Opens, Deliver,
       outside, vars
  <2> QED
    BY <1>2, <2>1, KeptStays
<1>6. ~StreamBreaks /\ ~Crash
  BY <1>3 DEF StreamBreaks, Crash
<1> QED
  BY <1>2, <1>4, <1>5, <1>6, KeptForms, KeptObserver DEF Next, Observe

(* Where nothing fails no withdrawal is dropped half-way, however forms    *)
(* overlap and payments come (observer.rs, sep24/worker.rs).               *)
THEOREM NoWithdrawalIsForgotten == Spec => []NothingIsForgotten
<1>1. IInv /\ NothingIsForgotten /\ [Next]_vars => NothingIsForgotten'
  BY CalmStep
<1> QED
  BY <1>1, CalmInit, Invariance, PTL DEF Spec
=============================================================================
