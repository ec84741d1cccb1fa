--------------------------- MODULE ObserverProofs ---------------------------
(***************************************************************************)
(* Proofs about Observer.  Every action of it is an action of the module   *)
(* of one kind and leaves the other alone, or is nothing to both, so the   *)
(* invariants proved of Withdrawal and of Sep31 hold here too.  On top of  *)
(* them: until a stream is opened again no payment is used for two         *)
(* transfers, of one kind or of both, and therefore no more transfers are  *)
(* paid out than payments came in.                                         *)
(***************************************************************************)
EXTENDS Observer, FiniteSetTheorems, SequenceTheorems, TLAPS

LookingIsInLog ==
  /\ log \in Seq(LogItem)
  /\ pos \in Nat \cup {Offline}
  /\ Len(log) <= MaxPayments
  /\ looking \in 0..Len(log)

(* A step of the stream, whoever takes it, appends to the log at most.     *)
LEMMA LogGrows ==
  ASSUME log \in Seq(LogItem), NEW m, NEW a \in Amount, Pay(m, a),
         Len(log) <= MaxPayments
  PROVE  /\ log' \in Seq(LogItem)
         /\ Len(log) <= Len(log')
         /\ Len(log') <= MaxPayments
         /\ pos' = pos
PROOF
  <1> DEFINE i == [memo |-> m, amount |-> a]
  <1>1. i \in LogItem
    BY DEF LogItem, Pay
  <1> HIDE DEF i
  <1>2. log' = Append(log, i)
    BY DEF Pay, i
  <1>3. log' \in Seq(LogItem) /\ Len(log') = Len(log) + 1
    BY <1>1, <1>2, AppendProperties
  <1>4. Len(log) < MaxPayments
    BY DEF Pay
  <1>5. Len(log) \in Nat
    BY LenProperties
  <1>6. pos' = pos
    BY DEF Pay
  <1> QED BY <1>3, <1>4, <1>5, <1>6, ObserverAssumption

LEMMA LookingInit == Init => LookingIsInLog
PROOF
  <1> QED BY ObserverAssumption DEF Init, W!Init, W!StreamInit, StreamInit, LookingIsInLog

LEMMA LookingStep ==
  ASSUME LookingIsInLog, [Next]_vars
  PROVE  LookingIsInLog'
PROOF
  <1>0. Len(log) \in Nat
    BY LenProperties DEF LookingIsInLog
  <1>1. CASE Opens
    BY <1>0, <1>1 DEF Opens, W!Opens, W!Connect, own, LookingIsInLog
  <1>2. CASE TakeItem
    <2>1. pos \in Nat /\ pos < Len(log) /\ pos' = pos + 1 /\ log' = log
      BY <1>0, <1>2, ObserverAssumption
      DEF TakeItem, W!Deliver, W!Advance, W!HasNext, LookingIsInLog
    <2>2. looking' \in {0, pos + 1}
      BY <1>2 DEF TakeItem
    <2> QED BY <1>0, <2>1, <2>2 DEF LookingIsInLog
  <1>3. CASE LookUpReceive
    BY <1>0, <1>3 DEF LookUpReceive, stream, LookingIsInLog
  <1>4. CASE CompleteWithdrawal
    BY <1>4 DEF CompleteWithdrawal, W!CompleteWithdrawal, W!NotifyReceived,
       W!SetPayoutPending, W!Payout, W!SetCompleted, W!NotifySent, W!stream, own,
       LookingIsInLog
  <1>5. CASE CompleteReceive
    BY <1>5 DEF CompleteReceive, stream, own, LookingIsInLog
  <1>6. CASE StreamBreaks
    BY <1>6 DEF StreamBreaks, W!StreamBreaks, W!Disconnect, own, LookingIsInLog
  <1>7. CASE Crash
    BY <1>0, <1>7 DEF Crash, W!Crash, LookingIsInLog
  <1>8. CASE OfReceives
    BY <1>8 DEF OfReceives, stream, own, LookingIsInLog
  <1>9. CASE OfWithdrawals
    <2>1. looking' = looking
      BY <1>9 DEF OfWithdrawals, own
    <2>2. CASE \E t \in Withdrawals, a \in Amount : W!WalletPays(t, a)
      <3>1. PICK t \in Withdrawals, a \in Amount : W!WalletPays(t, a)
        BY <2>2
      <3>2. Pay(wRow[t].memo, a)
        BY <3>1 DEF W!WalletPays, W!Pay, Pay
      <3> QED BY <1>0, <2>1, <3>2, LogGrows DEF LookingIsInLog
    <2>3. CASE \E m \in {MemoOf[t] : t \in Receives}, a \in Amount : W!SenderPays(m, a)
      <3>1. PICK m \in {MemoOf[t] : t \in Receives}, a \in Amount : W!SenderPays(m, a)
        BY <2>3
      <3>2. Pay(m, a)
        BY <3>1 DEF W!SenderPays, W!Pay, Pay
      <3> QED BY <1>0, <2>1, <3>2, LogGrows DEF LookingIsInLog
    <2>4. CASE \/ \E t \in Withdrawals, m \in Memo, a \in Amount \cup {NoAmount} :
                      W!HandleCreated(t, m, a)
               \/ \E t \in Withdrawals : W!AssignDestination(t)
               \/ \E s \in Session, t \in Withdrawals, a \in Amount :
                      W!CheckReceived(s, t, a)
               \/ \E s \in Session : W!SubmitAmount(s)
      <3>1. log' = log /\ pos' = pos
        BY <2>4 DEF W!HandleCreated, W!AssignDestination, W!CheckReceived,
           W!SubmitAmount, W!stream
      <3> QED BY <2>1, <3>1 DEF LookingIsInLog
    <2> QED BY <1>9, <2>2, <2>3, <2>4 DEF OfWithdrawals
  <1>10. CASE UNCHANGED vars
    BY <1>10 DEF vars, stream, own, LookingIsInLog
  <1> QED BY <1>1, <1>2, <1>3, <1>4, <1>5, <1>6, <1>7, <1>8, <1>9, <1>10
          DEF Next, Observe

(* Every action is an action of the withdrawals, or leaves them alone.     *)
LEMMA StepsOfWithdrawals ==
  ASSUME [Next]_vars
  PROVE  [W!Next]_(W!vars)
PROOF
  <1>1. CASE Opens \/ TakeItem \/ CompleteWithdrawal
    BY <1>1 DEF Opens, TakeItem, CompleteWithdrawal, W!Next, W!Observe
  <1>2. CASE LookUpReceive \/ CompleteReceive \/ OfReceives \/ UNCHANGED vars
    BY <1>2 DEF LookUpReceive, CompleteReceive, OfReceives, vars, stream, ofWithdrawals,
       W!vars, W!stream, W!outside
  <1>3. CASE StreamBreaks \/ Crash
    BY <1>3 DEF StreamBreaks, Crash, W!Next
  <1>4. CASE OfWithdrawals
    BY <1>4 DEF OfWithdrawals, W!Next
  <1> QED BY <1>1, <1>2, <1>3, <1>4 DEF Next, Observe

(* And the same for the receives.                                          *)
LEMMA StepsOfReceives ==
  ASSUME LookingIsInLog, [Next]_vars
  PROVE  [S!Next]_(S!vars)
PROOF
  <1>1. CASE \/ Opens \/ TakeItem \/ CompleteWithdrawal \/ StreamBreaks \/ OfWithdrawals
             \/ UNCHANGED vars
    BY <1>1 DEF Opens, TakeItem, CompleteWithdrawal, StreamBreaks, OfWithdrawals, vars,
       ofReceives, S!vars, S!db, S!outside, S!bounds
  <1>2. CASE LookUpReceive
    <2>1. CASE UNCHANGED ofReceives
      BY <2>1 DEF ofReceives, S!vars, S!db, S!outside, S!bounds
    <2>2. CASE \E t \in Receives : S!Deliver(Item(looking), t)
      <3>1. looking \in 1..Len(log) /\ Len(log) \in Nat
        BY <1>2, LenProperties DEF LookUpReceive, LookingIsInLog
      <3>2. log[looking] \in LogItem
        BY <3>1, ElementOfSeq DEF LookingIsInLog
      <3>3. looking \in 1..MaxPayments
        BY <3>1, ObserverAssumption DEF LookingIsInLog
      <3>4. Item(looking) \in Payment
        BY <3>2, <3>3 DEF Item, Payment, LogItem
      <3> QED BY <2>2, <3>4 DEF S!Next
    <2> QED BY <1>2, <2>1, <2>2 DEF LookUpReceive
  <1>3. CASE CompleteReceive
    BY <1>3 DEF CompleteReceive, S!Next
  <1>4. CASE OfReceives
    BY <1>4 DEF OfReceives, S!Next
  <1>5. CASE Crash
    BY <1>5 DEF Crash, S!Next
  <1> QED BY <1>1, <1>2, <1>3, <1>4, <1>5 DEF Next, Observe

----------------------------------------------------------------------------
(* Invariance.  The theorems about Withdrawal and Sep31 are used here over *)
(* the variables of Observer.                                              *)

WP == INSTANCE WithdrawalProofs WITH
        Tx <- Withdrawals, SenderMemo <- {MemoOf[t] : t \in Receives},
        row <- wRow, payouts <- wPayouts, received <- wReceived, sent <- wSent,
        faults <- wFaults

SP == INSTANCE Sep31Proofs WITH
        Tx <- Receives, PaidMemo <- [p \in Payment |-> p[1]], Observer <- Watcher,
        MaxDeliveries <- MaxPayments * (MaxFaults + 1),
        row <- sRow, payouts <- sPayouts, received <- sReceived, sent <- sSent,
        faults <- sFaults

LEMMA WithdrawalsAssumed == WP!WithdrawalAssumption
PROOF
  <1>1. \A t \in Receives : MemoOf[t] \in Memo
    BY ObserverAssumption
  <1>2. WP!IsFiniteSet(Session)
    BY ObserverAssumption DEF IsFiniteSet, WP!IsFiniteSet
  <1> QED BY <1>1, <1>2, ObserverAssumption DEF WP!WithdrawalAssumption

LEMMA ReceivesAssumed == SP!Sep31Assumption
PROOF
  <1>1. SP!IsFiniteSet(Put)
    BY ObserverAssumption DEF IsFiniteSet, SP!IsFiniteSet
  <1>2. [p \in Payment |-> p[1]] \in [Payment -> Memo]
    BY DEF Payment
  <1>3. MaxPayments * (MaxFaults + 1) \in Nat
    BY ObserverAssumption
  <1> QED BY <1>1, <1>2, <1>3, ObserverAssumption DEF SP!Sep31Assumption

(* W and WP, and S and SP, are the same definitions under two names.       *)
LEMMA SameWithdrawals == W!Next <=> WP!Next
PROOF
  <1>1. \A t, m, a : W!HandleCreated(t, m, a) <=> WP!HandleCreated(t, m, a)
    BY DEF W!HandleCreated, WP!HandleCreated, W!Fault, WP!Fault, W!NoFault, WP!NoFault,
       W!stream, WP!stream, W!outside, WP!outside, W!Created, WP!Created
  <1>2. \A t : W!AssignDestination(t) <=> WP!AssignDestination(t)
    BY DEF W!AssignDestination, WP!AssignDestination, W!Fault, WP!Fault, W!NoFault,
       WP!NoFault, W!stream, WP!stream, W!outside, WP!outside
  <1>3. \A s, t, a : W!CheckReceived(s, t, a) <=> WP!CheckReceived(s, t, a)
    BY DEF W!CheckReceived, WP!CheckReceived, W!Fault, WP!Fault, W!NoFault, WP!NoFault,
       W!stream, WP!stream, W!outside, WP!outside, W!Accepts, WP!Accepts
  <1>4. \A s : W!SubmitAmount(s) <=> WP!SubmitAmount(s)
    BY DEF W!SubmitAmount, WP!SubmitAmount, W!Fault, WP!Fault, W!NoFault, WP!NoFault,
       W!stream, WP!stream, W!outside, WP!outside, W!Submitted, WP!Submitted
  <1>5. \A t, a : W!WalletPays(t, a) <=> WP!WalletPays(t, a)
    BY DEF W!WalletPays, WP!WalletPays, W!Fault, WP!Fault, W!NoFault, WP!NoFault,
       W!stream, WP!stream, W!outside, WP!outside, W!Pay, WP!Pay
  <1>6. \A m, a : W!SenderPays(m, a) <=> WP!SenderPays(m, a)
    BY DEF W!SenderPays, WP!SenderPays, W!Fault, WP!Fault, W!NoFault, WP!NoFault,
       W!stream, WP!stream, W!outside, WP!outside, W!Pay, WP!Pay
  <1>7. W!Opens <=> WP!Opens
    BY DEF W!Opens, WP!Opens, W!Fault, WP!Fault, W!NoFault, WP!NoFault, W!stream,
       WP!stream, W!outside, WP!outside, W!Connect, WP!Connect
  <1>8. W!Deliver <=> WP!Deliver
    BY DEF W!Deliver, WP!Deliver, W!Fault, WP!Fault, W!NoFault, WP!NoFault, W!stream,
       WP!stream, W!outside, WP!outside, W!Matches, WP!Matches, W!Handle, WP!Handle,
       W!Idle, WP!Idle, W!Advance, WP!Advance, W!HasNext, WP!HasNext
  <1>9. W!NotifyReceived <=> WP!NotifyReceived
    BY DEF W!NotifyReceived, WP!NotifyReceived, W!Fault, WP!Fault, W!NoFault,
       WP!NoFault, W!stream, WP!stream, W!outside, WP!outside, W!Idle, WP!Idle
  <1>10. W!SetPayoutPending <=> WP!SetPayoutPending
    BY DEF W!SetPayoutPending, WP!SetPayoutPending, W!Fault, WP!Fault, W!NoFault,
       WP!NoFault, W!stream, WP!stream, W!outside, WP!outside, W!Idle, WP!Idle,
       W!PayoutPending, WP!PayoutPending
  <1>11. W!Payout <=> WP!Payout
    BY DEF W!Payout, WP!Payout, W!Fault, WP!Fault, W!NoFault, WP!NoFault, W!stream,
       WP!stream, W!outside, WP!outside
  <1>12. W!SetCompleted <=> WP!SetCompleted
    BY DEF W!SetCompleted, WP!SetCompleted, W!Fault, WP!Fault, W!NoFault, WP!NoFault,
       W!stream, WP!stream, W!outside, WP!outside, W!Idle, WP!Idle, W!Completed,
       WP!Completed
  <1>13. W!NotifySent <=> WP!NotifySent
    BY DEF W!NotifySent, WP!NotifySent, W!Fault, WP!Fault, W!NoFault, WP!NoFault,
       W!stream, WP!stream, W!outside, WP!outside, W!Idle, WP!Idle
  <1>14. W!StreamBreaks <=> WP!StreamBreaks
    BY DEF W!StreamBreaks, WP!StreamBreaks, W!Fault, WP!Fault, W!NoFault, WP!NoFault,
       W!stream, WP!stream, W!outside, WP!outside, W!Disconnect, WP!Disconnect
  <1>15. W!Crash <=> WP!Crash
    BY DEF W!Crash, WP!Crash, W!Fault, WP!Fault, W!NoFault, WP!NoFault, W!stream,
       WP!stream, W!outside, WP!outside, W!Idle, WP!Idle
  <1> QED
    BY <1>1, <1>2, <1>3, <1>4, <1>5, <1>6, <1>7, <1>8, <1>9, <1>10, <1>11, <1>12, <1>13,
       <1>14, <1>15
    DEF W!Next, WP!Next, W!Observe, WP!Observe, W!CompleteWithdrawal,
       WP!CompleteWithdrawal


LEMMA SameReceives == S!Next <=> SP!Next
PROOF
  <1>1. \A t : S!HandleCreated(t) <=> SP!HandleCreated(t)
    BY DEF S!HandleCreated, SP!HandleCreated, S!Fault, SP!Fault, S!NoFault, SP!NoFault,
       S!db, SP!db, S!outside, SP!outside, S!bounds, SP!bounds, S!At, SP!At, S!Goto,
       SP!Goto, S!Rest, SP!Rest
  <1>2. \A p, t : S!Deliver(p, t) <=> SP!Deliver(p, t)
    BY DEF S!Deliver, SP!Deliver, S!Fault, SP!Fault, S!NoFault, SP!NoFault, S!db, SP!db,
       S!outside, SP!outside, S!bounds, SP!bounds, S!At, SP!At, S!Goto, SP!Goto, S!Rest,
       SP!Rest, S!Matches, SP!Matches
  <1>3. S!NotifyReceived <=> SP!NotifyReceived
    BY DEF S!NotifyReceived, SP!NotifyReceived, S!Fault, SP!Fault, S!NoFault,
       SP!NoFault, S!db, SP!db, S!outside, SP!outside, S!bounds, SP!bounds, S!At, SP!At,
       S!Goto, SP!Goto, S!Rest, SP!Rest, S!AfterReceived, SP!AfterReceived
  <1>4. \A w : S!CheckKyc(w) <=> SP!CheckKyc(w)
    BY DEF S!CheckKyc, SP!CheckKyc, S!Fault, SP!Fault, S!NoFault, SP!NoFault, S!db,
       SP!db, S!outside, SP!outside, S!bounds, SP!bounds, S!At, SP!At, S!Goto, SP!Goto,
       S!Rest, SP!Rest, S!Complete, SP!Complete
  <1>5. S!SetRequiredInfo <=> SP!SetRequiredInfo
    BY DEF S!SetRequiredInfo, SP!SetRequiredInfo, S!Fault, SP!Fault, S!NoFault,
       SP!NoFault, S!db, SP!db, S!outside, SP!outside, S!bounds, SP!bounds, S!At, SP!At,
       S!Goto, SP!Goto, S!Rest, SP!Rest, S!Gated, SP!Gated
  <1>6. \A w : S!Payout(w) <=> SP!Payout(w)
    BY DEF S!Payout, SP!Payout, S!Fault, SP!Fault, S!NoFault, SP!NoFault, S!db, SP!db,
       S!outside, SP!outside, S!bounds, SP!bounds, S!At, SP!At, S!Goto, SP!Goto, S!Rest,
       SP!Rest
  <1>7. \A w : S!SetCompleted(w) <=> SP!SetCompleted(w)
    BY DEF S!SetCompleted, SP!SetCompleted, S!Fault, SP!Fault, S!NoFault, SP!NoFault,
       S!db, SP!db, S!outside, SP!outside, S!bounds, SP!bounds, S!At, SP!At, S!Goto,
       SP!Goto, S!Rest, SP!Rest, S!Completed, SP!Completed
  <1>8. \A w : S!NotifySent(w) <=> SP!NotifySent(w)
    BY DEF S!NotifySent, SP!NotifySent, S!Fault, SP!Fault, S!NoFault, SP!NoFault, S!db,
       SP!db, S!outside, SP!outside, S!bounds, SP!bounds, S!At, SP!At, S!Goto, SP!Goto,
       S!Rest, SP!Rest
  <1>9. \A w, r, g, n, y : S!PutFinds(w, r, g, n, y) <=> SP!PutFinds(w, r, g, n, y)
    BY DEF S!PutFinds, SP!PutFinds, S!Fault, SP!Fault, S!NoFault, SP!NoFault, S!db,
       SP!db, S!outside, SP!outside, S!bounds, SP!bounds, S!At, SP!At, S!Goto, SP!Goto,
       S!Rest, SP!Rest
  <1>10. \A w, g : S!PutFindsNone(w, g) <=> SP!PutFindsNone(w, g)
    BY DEF S!PutFindsNone, SP!PutFindsNone, S!Fault, SP!Fault, S!NoFault, SP!NoFault,
       S!db, SP!db, S!outside, SP!outside, S!bounds, SP!bounds, S!At, SP!At, S!Goto,
       SP!Goto, S!Rest, SP!Rest
  <1>11. \A w, r : S!PutWrites(w, r) <=> SP!PutWrites(w, r)
    BY DEF S!PutWrites, SP!PutWrites, S!Fault, SP!Fault, S!NoFault, SP!NoFault, S!db,
       SP!db, S!outside, SP!outside, S!bounds, SP!bounds, S!At, SP!At, S!Goto, SP!Goto,
       S!Rest, SP!Rest, S!Written, SP!Written
  <1>12. \A w : S!FindPending(w) <=> SP!FindPending(w)
    BY DEF S!FindPending, SP!FindPending, S!Fault, SP!Fault, S!NoFault, SP!NoFault,
       S!db, SP!db, S!outside, SP!outside, S!bounds, SP!bounds, S!At, SP!At, S!Goto,
       SP!Goto, S!Rest, SP!Rest, S!PendingByReceiver, SP!PendingByReceiver
  <1>13. \A w, t : S!ResumeIfReady(w, t) <=> SP!ResumeIfReady(w, t)
    BY DEF S!ResumeIfReady, SP!ResumeIfReady, S!Fault, SP!Fault, S!NoFault, SP!NoFault,
       S!db, SP!db, S!outside, SP!outside, S!bounds, SP!bounds, S!At, SP!At, S!Goto,
       SP!Goto, S!Rest, SP!Rest
  <1>14. \A w : S!ResumeEnds(w) <=> SP!ResumeEnds(w)
    BY DEF S!ResumeEnds, SP!ResumeEnds, S!Fault, SP!Fault, S!NoFault, SP!NoFault, S!db,
       SP!db, S!outside, SP!outside, S!bounds, SP!bounds, S!At, SP!At, S!Goto, SP!Goto,
       S!Rest, SP!Rest
  <1>15. \A r : S!DeleteCustomer(r) <=> SP!DeleteCustomer(r)
    BY DEF S!DeleteCustomer, SP!DeleteCustomer, S!Fault, SP!Fault, S!NoFault,
       SP!NoFault, S!db, SP!db, S!outside, SP!outside, S!bounds, SP!bounds, S!At, SP!At,
       S!Goto, SP!Goto, S!Rest, SP!Rest
  <1>16. S!Crash <=> SP!Crash
    BY DEF S!Crash, SP!Crash, S!Fault, SP!Fault, S!NoFault, SP!NoFault, S!db, SP!db,
       S!outside, SP!outside, S!bounds, SP!bounds, S!At, SP!At, S!Goto, SP!Goto, S!Rest,
       SP!Rest, S!Fresh, SP!Fresh, S!Worker, SP!Worker
  <1> QED
    BY <1>1, <1>2, <1>3, <1>4, <1>5, <1>6, <1>7, <1>8, <1>9, <1>10, <1>11, <1>12, <1>13,
       <1>14, <1>15, <1>16
    DEF S!Next, SP!Next, S!CompleteReceive, SP!CompleteReceive, S!Settle, SP!Settle,
       S!Resume, SP!Resume, S!PutCustomer, SP!PutCustomer


Parts == LookingIsInLog /\ WP!IInv /\ SP!IInv /\ misses \in Nat /\ opened \in Nat

LEMMA PartsType == Parts => TypeOK
PROOF
  <1>1. WP!IInv => W!TypeOK
    BY DEF WP!IInv, WP!TypeOK, W!TypeOK, WP!StreamTypeOK, W!StreamTypeOK, WP!LogItem,
       W!LogItem, WP!Row, W!Row, WP!Visit, W!Visit, WP!Job, W!Job, WP!Status, W!Status
  <1>2. SP!IInv => S!TypeOK
    BY DEF SP!IInv, SP!TypeOK, S!TypeOK, SP!Row, S!Row, SP!Customer, S!Customer,
       SP!Task, S!Task, SP!Worker, S!Worker, SP!Label, S!Label, SP!Status, S!Status
  <1> QED BY <1>1, <1>2 DEF Parts, TypeOK, LookingIsInLog

LEMMA PartsInit == Init => Parts
PROOF
  <1> SUFFICES ASSUME Init PROVE Parts
    OBVIOUS
  <1>1. WP!Init
    BY DEF Init, W!Init, WP!Init, W!StreamInit, WP!StreamInit, W!Idle, WP!Idle
  <1>2. WP!IInv
    BY <1>1, WithdrawalsAssumed, WP!InitIInv DEF WP!WithdrawalAssumption
  <1>3. SP!Init
    BY DEF Init, S!Init, SP!Init, S!Fresh, SP!Fresh, S!Worker, SP!Worker
  <1>4. SP!IInv
    BY <1>3, ReceivesAssumed, SP!InitIInv DEF SP!Sep31Assumption
  <1> QED BY <1>2, <1>4, LookingInit DEF Parts, Init

LEMMA PartsStep == ASSUME Parts, [Next]_vars PROVE Parts'
PROOF
  <1>1. LookingIsInLog'
    BY LookingStep DEF Parts
  <1>2. WP!IInv'
    <2>1. CASE W!Next
      <3>1. WP!Next
        BY <2>1, SameWithdrawals
      <3> QED BY <3>1, WithdrawalsAssumed, WP!NextIInv DEF WP!WithdrawalAssumption, Parts
    <2>2. CASE UNCHANGED W!vars
      <3>1. UNCHANGED WP!vars
        BY <2>2 DEF W!vars, WP!vars, W!stream, WP!stream, W!outside, WP!outside
      <3> QED BY <3>1, WithdrawalsAssumed, WP!StutterIInv DEF WP!WithdrawalAssumption, Parts
    <2> QED BY <2>1, <2>2, StepsOfWithdrawals
  <1>3. SP!IInv'
    <2>1. [S!Next]_(S!vars)
      BY StepsOfReceives DEF Parts
    <2>2. [SP!Next]_(SP!vars)
      BY <2>1, SameReceives
      DEF S!vars, SP!vars, S!db, SP!db, S!outside, SP!outside, S!bounds, SP!bounds
    <2> QED BY <2>2, ReceivesAssumed, SP!IInvStep DEF SP!Sep31Assumption, Parts
  <1>4. misses' \in Nat /\ opened' \in Nat
    BY DEF Parts, Next, Observe, Opens, TakeItem, LookUpReceive, CompleteWithdrawal,
       CompleteReceive, StreamBreaks, Crash, OfWithdrawals, OfReceives, vars, own
  <1> QED BY <1>1, <1>2, <1>3, <1>4 DEF Parts

(* The inductive invariants of Withdrawal and of Sep31 hold of the two     *)
(* kinds over one stream, one task and its crashes, every state is well    *)
(* typed, and the payment a receive is looked up for is one of the log     *)
(* (observer.rs).                                                          *)
THEOREM Invariance == Spec => [](TypeOK /\ Parts)
PROOF
  <1>1. Parts /\ [Next]_vars => Parts'
    BY PartsStep
  <1> QED BY <1>1, PartsInit, PartsType, PTL DEF Spec

----------------------------------------------------------------------------
(* Which payment is taken for what.                                        *)

(* A receive has the payment at place i, whatever its memo.                *)
TakenAt(t, i) == \E p \in Payment : p[2] = i /\ TakenS(t, p)

(* Before a stream is opened again, what is taken has been delivered, and  *)
(* what is being looked up is not taken yet; nor is anything taken twice.  *)
Seen(i) == opened > 0 /\ i <= Len(log) /\ (pos # Offline => i <= pos /\ i # looking)

Fresher ==
  /\ looking # 0 => looking = pos
  /\ pos # Offline => pos <= Len(log) /\ opened > 0
  /\ \A i \in Nat \ {0} :
       /\ \A t \in Withdrawals : TakenW(t, i) => Seen(i)
       /\ \A t \in Receives : TakenAt(t, i) => Seen(i)
       /\ \A t, x \in Withdrawals : TakenW(t, i) /\ TakenW(x, i) => t = x
       /\ \A t, x \in Receives : TakenAt(t, i) /\ TakenAt(x, i) => t = x
       /\ \A t \in Withdrawals, x \in Receives : ~(TakenW(t, i) /\ TakenAt(x, i))

FreshInv == opened <= 1 => Fresher

LEMMA FreshInit == Init => FreshInv
PROOF
  <1> SUFFICES ASSUME Init PROVE Fresher
    BY DEF FreshInv
  <1>1. \A t \in Withdrawals, i \in Nat \ {0} : ~TakenW(t, i)
    BY DEF Init, W!Init, W!Idle, TakenW
  <1>2. \A t \in Receives, i \in Nat : ~TakenAt(t, i)
    BY ObserverAssumption DEF Init, S!Init, S!Fresh, S!Worker, TakenAt, TakenS
  <1>3. looking = 0 /\ pos = Offline
    BY DEF Init, W!Init, W!StreamInit
  <1> QED BY <1>1, <1>2, <1>3 DEF Fresher

(* A step that gives no transfer a payment.                                *)
TakesNoneW ==
  \A t \in Withdrawals, i \in Nat \ {0} : TakenW(t, i)' => TakenW(t, i)
TakesNoneS == \A t \in Receives, p \in Payment : TakenS(t, p)' => TakenS(t, p)

LEMMA FreshStays ==
  ASSUME Fresher, TakesNoneW, TakesNoneS, looking' \in {0, looking}, opened' = opened,
         pos' = pos \/ (pos' = Offline /\ looking' = 0),
         Len(log) \in Nat, Len(log') \in Nat, Len(log) <= Len(log'),
         pos \in Nat \cup {Offline}, opened \in Nat
  PROVE  Fresher'
PROOF
  <1>1. \A t \in Receives, i \in Nat \ {0} : TakenAt(t, i)' => TakenAt(t, i)
    BY DEF TakesNoneS, TakenAt
  <1>2. \A t \in Withdrawals, i \in Nat \ {0} : TakenW(t, i)' => TakenW(t, i)
    BY DEF TakesNoneW
  <1>3. /\ looking' # 0 => looking' = pos'
        /\ pos' # Offline => pos' <= Len(log') /\ opened' > 0
    BY ObserverAssumption DEF Fresher
  <1>4. \A i \in Nat \ {0} : i # 0 /\ (Seen(i) => Seen(i)')
    BY DEF Seen
  <1>5. ASSUME NEW i \in Nat \ {0}
        PROVE  /\ \A t \in Withdrawals : TakenW(t, i)' => Seen(i)'
               /\ \A t \in Receives : TakenAt(t, i)' => Seen(i)'
               /\ \A t, x \in Withdrawals : TakenW(t, i)' /\ TakenW(x, i)' => t = x
               /\ \A t, x \in Receives : TakenAt(t, i)' /\ TakenAt(x, i)' => t = x
               /\ \A t \in Withdrawals, x \in Receives : ~(TakenW(t, i)' /\ TakenAt(x, i)')
    BY <1>1, <1>2, <1>4 DEF Fresher
  <1> QED BY <1>3, <1>5 DEF Fresher

(* The first stream: nothing has been taken yet.                           *)
LEMMA FreshOpens ==
  ASSUME Fresher, TakesNoneW, TakesNoneS, opened = 0, looking = 0, looking' = 0,
         pos' \in {0, Len(log)}, log' = log, Len(log) \in Nat, opened' = 1
  PROVE  Fresher'
PROOF
  <1>1. \A t \in Receives, i \in Nat \ {0} : ~TakenAt(t, i)'
    BY DEF TakesNoneS, TakenAt, Fresher, Seen
  <1>2. \A t \in Withdrawals, i \in Nat \ {0} : ~TakenW(t, i)'
    BY DEF TakesNoneW, Fresher, Seen
  <1>3. pos' # Offline => pos' <= Len(log') /\ opened' > 0
    OBVIOUS
  <1> QED BY <1>1, <1>2, <1>3 DEF Fresher

(* A stream that was opened stays so.                                      *)
LEMMA OpenedGrows ==
  ASSUME [Next]_vars
  PROVE  opened' = opened \/ (Opens /\ opened' = opened + 1)
PROOF
  <1> QED BY DEF Next, Observe, Opens, TakeItem, LookUpReceive, CompleteWithdrawal,
             CompleteReceive, StreamBreaks, Crash, OfWithdrawals, OfReceives, vars, own

(* The log only grows, and not while the stream moves.                     *)
LEMMA LogOnlyGrows ==
  ASSUME LookingIsInLog, [Next]_vars
  PROVE  Len(log') \in Nat /\ Len(log) <= Len(log') /\ (log' = log \/ pos' = pos)
PROOF
  <1>1. Len(log) \in Nat /\ Len(log') \in Nat
    BY LookingStep, LenProperties DEF LookingIsInLog
  <1>2. CASE log' = log
    BY <1>1, <1>2
  <1>3. CASE \E m : \E a \in Amount : Pay(m, a)
    BY <1>1, <1>3, LogGrows DEF LookingIsInLog
  <1>4. ASSUME log' # log PROVE \E m : \E a \in Amount : Pay(m, a)
    <2>1. OfWithdrawals
      BY <1>4 DEF Next, Observe, Opens, W!Opens, W!Connect, TakeItem, W!Deliver, W!Advance,
         LookUpReceive, CompleteWithdrawal, W!CompleteWithdrawal, W!NotifyReceived,
         W!SetPayoutPending, W!Payout, W!SetCompleted, W!NotifySent, CompleteReceive,
         StreamBreaks, W!StreamBreaks, W!Disconnect, Crash, W!Crash, OfReceives, vars,
         stream, W!stream
    <2>2. CASE \E t \in Withdrawals, a \in Amount : W!WalletPays(t, a)
      <3>1. PICK t \in Withdrawals, a \in Amount : W!WalletPays(t, a)
        BY <2>2
      <3>2. Pay(wRow[t].memo, a)
        BY <3>1 DEF W!WalletPays, W!Pay, Pay
      <3> QED BY <3>2
    <2>3. CASE \E m \in {MemoOf[t] : t \in Receives}, a \in Amount : W!SenderPays(m, a)
      <3>1. PICK m \in {MemoOf[t] : t \in Receives}, a \in Amount : W!SenderPays(m, a)
        BY <2>3
      <3>2. Pay(m, a)
        BY <3>1 DEF W!SenderPays, W!Pay, Pay
      <3> QED BY <3>2
    <2> QED BY <1>4, <2>1, <2>2, <2>3
            DEF OfWithdrawals, W!HandleCreated, W!AssignDestination, W!CheckReceived,
                W!SubmitAmount, W!stream
  <1> QED BY <1>2, <1>3, <1>4

(* A withdrawal comes to a payment by the observer's hand only.            *)
LEMMA WithdrawalsTake ==
  ASSUME W!TypeOK, [W!Next]_(W!vars), ~W!Deliver PROVE TakesNoneW
PROOF
  <1> USE DEF TakesNoneW, TakenW
  <1>0. wRow \in [Withdrawals -> W!Row] /\ obs \in W!Job
    BY DEF W!TypeOK
  <1>1. CASE \E t \in Withdrawals, m \in Memo, a \in Amount \cup {NoAmount} :
               W!HandleCreated(t, m, a)
    BY <1>0, <1>1 DEF W!HandleCreated, W!Created, W!Row, W!outside
  <1>2. CASE \E s \in Session : W!SubmitAmount(s)
    BY <1>0, <1>2 DEF W!SubmitAmount, W!Submitted, W!Row, W!outside
  <1>3. CASE \/ \E t \in Withdrawals : W!AssignDestination(t)
             \/ \E s \in Session, t \in Withdrawals, a \in Amount : W!CheckReceived(s, t, a)
             \/ \E t \in Withdrawals, a \in Amount : W!WalletPays(t, a)
             \/ \E m \in {MemoOf[t] : t \in Receives}, a \in Amount : W!SenderPays(m, a)
             \/ W!Opens \/ W!StreamBreaks \/ UNCHANGED W!vars
    BY <1>3 DEF W!AssignDestination, W!CheckReceived, W!WalletPays, W!SenderPays, W!Opens,
       W!StreamBreaks, W!outside, W!vars
  <1>4. CASE W!NotifyReceived \/ W!Payout \/ W!NotifySent \/ W!Crash
    BY <1>0, <1>4
    DEF W!NotifyReceived, W!Payout, W!NotifySent, W!Crash, W!Idle, W!Job, W!outside
  <1>5. CASE W!SetPayoutPending
    BY <1>0, <1>5 DEF W!SetPayoutPending, W!PayoutPending, W!Idle, W!Job, W!Row, W!outside
  <1>6. CASE W!SetCompleted
    BY <1>0, <1>6 DEF W!SetCompleted, W!Completed, W!Idle, W!Job, W!Row, W!outside
  <1> QED BY <1>1, <1>2, <1>3, <1>4, <1>5, <1>6
          DEF W!Next, W!Observe, W!CompleteWithdrawal

(* The observer takes the next payment for one withdrawal, or for none.    *)
LEMMA DeliverTakes ==
  ASSUME W!Deliver
  PROVE  \A t \in Withdrawals, i \in Nat \ {0} :
           TakenW(t, i)' => TakenW(t, i) \/ (obs'.pc = "matched" /\ t = obs'.tx /\ i = pos + 1)
PROOF
  <1>1. /\ wRow' = wRow /\ wReceived' = wReceived
        /\ obs' = W!Idle \/ \E t \in Withdrawals : obs' = W!Handle(t, pos + 1)
    BY DEF W!Deliver, W!outside
  <1> QED BY <1>1 DEF TakenW, W!Idle, W!Handle

(* A receive comes to a payment by the observer's hand only, too; a row    *)
(* and a worker may copy it from one another.                              *)
SameHeld ==
  \A u \in Put \cup {Watcher} : work'[u].tx = work[u].tx /\ work'[u].hash = work[u].hash

LEMMA GotoHolds ==
  ASSUME S!TypeOK, NEW w, NEW l, S!Goto(w, l) PROVE SameHeld
PROOF
  <1>1. work \in [Put \cup {Watcher} -> S!Task]
    BY DEF S!TypeOK, S!Worker
  <1> QED BY <1>1 DEF S!Goto, S!Task, SameHeld

LEMMA QuietHolds ==
  ASSUME sRow' = sRow, sReceived' = sReceived, SameHeld PROVE TakesNoneS
PROOF
  <1> QED BY DEF TakesNoneS, TakenS, SameHeld

(* A worker stores or reports the payment it has in hand for its receive.  *)
LEMMA StoringHolds ==
  ASSUME SameHeld, NEW w \in Put \cup {Watcher},
         sReceived' \subseteq sReceived \cup {<<work[w].tx, work[w].hash>>},
         \A t \in Receives : \/ sRow'[t].hash = sRow[t].hash
                             \/ work[w].tx = t /\ sRow'[t].hash = work[w].hash
  PROVE  TakesNoneS
PROOF
  <1> QED BY DEF TakesNoneS, TakenS, SameHeld

(* The observer's work on a receive.                                       *)
LEMMA SettlingHolds ==
  ASSUME S!TypeOK, NEW w \in Put \cup {Watcher},
         S!CheckKyc(w) \/ S!Settle(w) \/ S!NotifyReceived \/ S!SetRequiredInfo
  PROVE  TakesNoneS
PROOF
  <1>0. Watcher \in Put \cup {Watcher} /\ sRow \in [Receives -> S!Row]
    BY DEF S!TypeOK
  <1>1. CASE S!CheckKyc(w)
    <2>1. PICK l : S!Goto(w, l)
      BY <1>1 DEF S!CheckKyc
    <2> QED BY <1>1, <2>1, GotoHolds, QuietHolds DEF S!CheckKyc, S!db, S!outside
  <1>2. CASE S!Payout(w)
    <2>1. PICK l : S!Goto(w, l)
      BY <1>2 DEF S!Payout
    <2> QED BY <1>2, <2>1, GotoHolds, QuietHolds DEF S!Payout, S!db, S!outside
  <1>3. CASE S!NotifySent(w)
    <2> QED BY <1>3, GotoHolds, QuietHolds DEF S!NotifySent, S!db, S!outside
  <1>4. CASE S!NotifyReceived
    <2>1. PICK l : S!Goto(Watcher, l)
      BY <1>4 DEF S!NotifyReceived
    <2>2. SameHeld
      BY <2>1, GotoHolds
    <2>3. sReceived' \subseteq sReceived \cup {<<work[Watcher].tx, work[Watcher].hash>>}
      BY <1>4 DEF S!NotifyReceived
    <2>4. sRow' = sRow
      BY <1>4 DEF S!NotifyReceived, S!db
    <2> QED BY <1>0, <2>2, <2>3, <2>4, StoringHolds
  <1>5. CASE S!SetCompleted(w)
    <2>1. PICK l : S!Goto(w, l)
      BY <1>5 DEF S!SetCompleted
    <2>2. SameHeld
      BY <2>1, GotoHolds
    <2>3. \A t \in Receives : \/ sRow'[t].hash = sRow[t].hash
                              \/ work[w].tx = t /\ sRow'[t].hash = work[w].hash
      BY <1>0, <1>5 DEF S!SetCompleted, S!Completed
    <2>4. sReceived' = sReceived
      BY <1>5 DEF S!SetCompleted, S!outside
    <2> QED BY <2>2, <2>3, <2>4, StoringHolds
  <1>6. CASE S!SetRequiredInfo
    <2>1. SameHeld
      BY <1>6, GotoHolds DEF S!SetRequiredInfo
    <2>2. \A t \in Receives : \/ sRow'[t].hash = sRow[t].hash
                              \/ work[Watcher].tx = t /\ sRow'[t].hash = work[Watcher].hash
      BY <1>0, <1>6 DEF S!SetRequiredInfo, S!Gated
    <2>3. sReceived' = sReceived
      BY <1>6 DEF S!SetRequiredInfo, S!outside
    <2> QED BY <1>0, <2>1, <2>2, <2>3, StoringHolds
  <1> QED BY <1>1, <1>2, <1>3, <1>4, <1>5, <1>6 DEF S!Settle

(* A resume task takes up a receive with the payment of its row.           *)
LEMMA ResumingHolds ==
  ASSUME S!TypeOK, NEW w \in Put, NEW t \in Receives, S!ResumeIfReady(w, t)
  PROVE  TakesNoneS
PROOF
  <1>0. work \in [Put \cup {Watcher} -> S!Task]
    BY DEF S!TypeOK, S!Worker
  <1>1. \A u \in Put \cup {Watcher} :
          \/ work'[u].tx = work[u].tx /\ work'[u].hash = work[u].hash
          \/ work'[u].tx = t /\ work'[u].hash = sRow[t].hash
    BY <1>0 DEF S!ResumeIfReady, S!Task
  <1>2. sRow' = sRow /\ sReceived' = sReceived
    BY DEF S!ResumeIfReady, S!db, S!outside
  <1> QED BY <1>1, <1>2 DEF TakesNoneS, TakenS

(* A crash takes what the workers had in hand, or leaves it where it was.  *)
LEMMA CrashHolds == ASSUME S!TypeOK, S!Crash PROVE TakesNoneS
PROOF
  <1>1. \A u \in Put \cup {Watcher} :
          \/ work'[u].tx = work[u].tx /\ work'[u].hash = work[u].hash
          \/ work'[u].tx = NoTx
    BY DEF S!Crash, S!TypeOK, S!Worker, S!Task, S!Fresh
  <1>2. sRow' = sRow /\ sReceived' = sReceived
    BY DEF S!Crash, S!db, S!outside
  <1> QED BY <1>1, <1>2, ObserverAssumption DEF TakesNoneS, TakenS

(* Events, PUTs and their resume tasks, and DELETEs.                       *)
LEMMA OthersHold ==
  ASSUME S!TypeOK, OfReceives \/ UNCHANGED ofReceives PROVE TakesNoneS
PROOF
  <1>0. /\ sRow \in [Receives -> S!Row]
        /\ work \in [Put \cup {Watcher} -> S!Task]
    BY DEF S!TypeOK, S!Worker
  <1>1. CASE \E t \in Receives : S!HandleCreated(t)
    <2>1. \A t \in Receives : sRow'[t].hash = sRow[t].hash
      BY <1>0, <1>1 DEF S!HandleCreated, S!Row
    <2>2. work' = work /\ sReceived' = sReceived
      BY <1>1 DEF S!HandleCreated, S!outside
    <2> QED BY <2>1, <2>2 DEF TakesNoneS, TakenS
  <1>2. CASE \E w \in Put : S!PutCustomer(w)
    <2>1. PICK w \in Put : S!PutCustomer(w)
      BY <1>2
    <2>2. PICK v : /\ work' = [work EXCEPT ![w] = v]
                   /\ sRow' = sRow /\ sReceived' = sReceived
                   /\ v.tx = work[w].tx /\ v.hash = work[w].hash
      <3>1. PICK gives :
              \/ \E r, nulls, typed : S!PutFinds(w, r, gives, nulls, typed)
              \/ S!PutFindsNone(w, gives)
        BY <2>1 DEF S!PutCustomer
      <3>2. work[w] \in S!Task
        BY <1>0
      <3>3. CASE S!PutFindsNone(w, gives)
        <4> DEFINE v == [work[w] EXCEPT !.pc = "unfound", !.gives = gives, !.typed = TRUE]
        <4>1. v.tx = work[w].tx /\ v.hash = work[w].hash
          BY <3>2 DEF S!Task
        <4>2. work' = [work EXCEPT ![w] = v] /\ sRow' = sRow /\ sReceived' = sReceived
          BY <3>3 DEF S!PutFindsNone, S!db, S!outside
        <4> QED BY <4>1, <4>2
      <3>4. CASE \E r, nulls, typed : S!PutFinds(w, r, gives, nulls, typed)
        <4>1. PICK r, nulls, typed : S!PutFinds(w, r, gives, nulls, typed)
          BY <3>4
        <4> DEFINE v == [work[w] EXCEPT !.pc = "found", !.id = r, !.gives = gives,
                                        !.nulls = nulls, !.typed = typed]
        <4>2. v.tx = work[w].tx /\ v.hash = work[w].hash
          BY <3>2 DEF S!Task
        <4>3. work' = [work EXCEPT ![w] = v] /\ sRow' = sRow /\ sReceived' = sReceived
          BY <4>1 DEF S!PutFinds, S!db, S!outside
        <4> QED BY <4>2, <4>3
      <3> QED BY <3>1, <3>3, <3>4
    <2>3. SameHeld
      BY <1>0, <2>2 DEF SameHeld
    <2> QED BY <2>2, <2>3, QuietHolds
  <1>3. CASE \E w \in Put : S!Resume(w)
    <2>1. PICK w \in Put : S!Resume(w)
      BY <1>3
    <2>2. CASE \E r \in Receiver : S!PutWrites(w, r)
      <3>1. PICK r \in Receiver : S!PutWrites(w, r)
        BY <2>2
      <3>2. SameHeld
        <4>1. CASE S!Goto(w, "ended")
          BY <4>1, GotoHolds
        <4>2. CASE work' = [work EXCEPT
                      ![w].pc = IF work[w].typed THEN "spawned" ELSE "ended", ![w].id = r]
          BY <1>0, <4>2 DEF S!Task, SameHeld
        <4> QED BY <3>1, <4>1, <4>2 DEF S!PutWrites
      <3> QED BY <3>1, <3>2, QuietHolds DEF S!PutWrites, S!outside
    <2>3. CASE S!FindPending(w)
      <3>1. SameHeld
        <4>1. CASE S!Goto(w, "ended")
          BY <4>1, GotoHolds
        <4>2. CASE work' = [work EXCEPT ![w].pc = "resuming",
                              ![w].todo = S!PendingByReceiver(work[w].id)]
          BY <1>0, <4>2 DEF S!Task, SameHeld
        <4> QED BY <2>3, <4>1, <4>2 DEF S!FindPending
      <3> QED BY <2>3, <3>1, QuietHolds DEF S!FindPending, S!db, S!outside
    <2>4. CASE \E t \in Receives : S!ResumeIfReady(w, t)
      BY <2>4, ResumingHolds
    <2>5. CASE S!CheckKyc(w) \/ S!Settle(w)
      BY <2>5, SettlingHolds
    <2>6. CASE S!ResumeEnds(w)
      BY <2>6, GotoHolds, QuietHolds DEF S!ResumeEnds, S!db, S!outside
    <2> QED BY <2>1, <2>2, <2>3, <2>4, <2>5, <2>6 DEF S!Resume
  <1>4. CASE (\E r \in Receiver : S!DeleteCustomer(r)) \/ UNCHANGED ofReceives
    BY <1>4 DEF S!DeleteCustomer, S!outside, ofReceives, TakesNoneS, TakenS
  <1> QED BY <1>1, <1>2, <1>3, <1>4 DEF OfReceives

(* A step takes a payment for at most one transfer: the observer hands it  *)
(* to a withdrawal, or looks a receive up for it, or gives it to one.      *)
LEMMA FreshStep == ASSUME Parts, FreshInv, [Next]_vars PROVE FreshInv'
PROOF
  <1> SUFFICES ASSUME opened' <= 1 PROVE Fresher'
    BY DEF FreshInv
  <1>1. Fresher /\ opened \in Nat
    BY OpenedGrows DEF FreshInv, Parts
  <1>2. /\ pos \in Nat \cup {Offline} /\ Offline \notin Nat
        /\ looking \in Nat /\ W!TypeOK /\ S!TypeOK
        /\ Len(log) \in Nat
    <2>1. Len(log) \in Nat
      BY LenProperties DEF Parts, LookingIsInLog
    <2> QED BY <2>1, PartsType, ObserverAssumption DEF Parts, LookingIsInLog, TypeOK
  <1>3. Len(log') \in Nat /\ Len(log) <= Len(log') /\ (log' = log \/ pos' = pos)
    BY LogOnlyGrows DEF Parts
  <1>5. [W!Next]_(W!vars)
    BY StepsOfWithdrawals
  <1>6. ASSUME pos' = pos \/ pos' = Offline PROVE ~W!Deliver
    BY <1>2, <1>6 DEF W!Deliver, W!Advance, W!HasNext
  <1>7. ASSUME ~W!Deliver PROVE TakesNoneW
    BY <1>2, <1>5, <1>7, WithdrawalsTake
  <1>8. ASSUME UNCHANGED ofReceives PROVE TakesNoneS
    BY <1>2, <1>8, OthersHold
  <1>9. ASSUME TakesNoneS, looking' \in {0, looking}, opened' = opened,
               pos' = pos \/ (pos' = Offline /\ looking' = 0)
        PROVE  Fresher'
    BY <1>1, <1>2, <1>3, <1>6, <1>7, <1>9, FreshStays
  <1>10. CASE CompleteReceive
    <2>1. pos' = pos /\ looking' = looking /\ opened' = opened
      BY <1>10 DEF CompleteReceive, stream, own
    <2>2. TakesNoneS
      BY <1>2, <1>10, SettlingHolds DEF CompleteReceive, S!CompleteReceive
    <2> QED BY <1>9, <2>1, <2>2
  <1>11. CASE OfReceives
    <2>1. pos' = pos /\ looking' = looking /\ opened' = opened
      BY <1>11 DEF OfReceives, stream, own
    <2> QED BY <1>2, <1>9, <1>11, <2>1, OthersHold
  <1>12. CASE OfWithdrawals \/ CompleteWithdrawal \/ UNCHANGED vars
    <2>1. pos' = pos
      BY <1>12
      DEF OfWithdrawals, W!HandleCreated, W!AssignDestination, W!CheckReceived,
          W!SubmitAmount, W!WalletPays, W!SenderPays, W!Pay, CompleteWithdrawal,
          W!CompleteWithdrawal, W!NotifyReceived, W!SetPayoutPending, W!Payout,
          W!SetCompleted, W!NotifySent, W!stream, vars, stream
    <2>2. looking' = looking /\ opened' = opened /\ UNCHANGED ofReceives
      BY <1>12 DEF OfWithdrawals, CompleteWithdrawal, vars, own
    <2> QED BY <1>8, <1>9, <2>1, <2>2
  <1>13. CASE Opens
    <2>1. /\ pos = Offline /\ pos' \in {0, Len(log)} /\ log' = log
          /\ looking = 0 /\ looking' = 0 /\ opened' = opened + 1 /\ UNCHANGED ofReceives
      BY <1>13 DEF Opens, Waiting, W!Opens, W!Connect
    <2>2. ~W!Deliver
      BY <2>1 DEF W!Deliver, W!Advance, W!HasNext
    <2>3. opened = 0 /\ opened' = 1
      BY <1>1, <2>1
    <2> QED BY <1>1, <1>2, <1>7, <1>8, <2>1, <2>2, <2>3, FreshOpens
  <1>14. CASE StreamBreaks \/ Crash
    <2>1. pos' = Offline /\ looking' = 0 /\ opened' = opened
      BY <1>14 DEF StreamBreaks, Waiting, Crash, W!StreamBreaks, W!Disconnect, W!Crash, own
    <2>2. TakesNoneS
      <3>1. CASE StreamBreaks
        BY <1>8, <3>1 DEF StreamBreaks
      <3>2. CASE Crash
        BY <1>2, <3>2, CrashHolds DEF Crash
      <3> QED BY <1>14, <3>1, <3>2
    <2> QED BY <1>9, <2>1, <2>2
  <1>15. CASE TakeItem
    <2>1. /\ pos \in Nat /\ pos # Offline /\ pos' = pos + 1 /\ pos' # Offline /\ looking = 0
          /\ UNCHANGED ofReceives /\ opened' = opened
          /\ W!Deliver /\ pos' <= Len(log) /\ log' = log
      BY <1>2, <1>15 DEF TakeItem, Waiting, W!Deliver, W!Advance, W!HasNext
    <2>2. \A t \in Receives, i \in Nat \ {0} : TakenAt(t, i)' <=> TakenAt(t, i)
      BY <2>1 DEF ofReceives, TakenAt, TakenS
    <2>3. CASE obs'.pc = "matched" /\ looking' = 0
      <3>1. \A t \in Withdrawals, i \in Nat \ {0} :
              TakenW(t, i)' => TakenW(t, i) \/ (t = obs'.tx /\ i = pos + 1)
        BY <2>1, DeliverTakes
      <3> QED BY <1>1, <1>2, <2>1, <2>2, <2>3, <3>1 DEF Fresher, Seen
    <2>4. CASE obs'.pc = "idle" /\ looking' \in {0, pos + 1}
      <3>1. \A t \in Withdrawals, i \in Nat \ {0} : TakenW(t, i)' => TakenW(t, i)
        BY <2>1, <2>4, DeliverTakes
      <3> QED BY <1>1, <1>2, <2>1, <2>2, <2>4, <3>1 DEF Fresher, Seen
    <2> QED BY <1>15, <2>3, <2>4 DEF TakeItem
  <1>16. CASE LookUpReceive
    <2>1. /\ pos' = pos /\ log' = log /\ looking # 0 /\ looking' = 0
          /\ opened' = opened /\ UNCHANGED ofWithdrawals
      BY <1>16 DEF LookUpReceive, stream
    <2>2. CASE UNCHANGED ofReceives
      BY <1>8, <1>9, <2>1, <2>2
    <2>3. CASE \E t \in Receives : S!Deliver(Item(looking), t)
      <3>1. PICK t \in Receives : S!Deliver(Item(looking), t)
        BY <2>3
      <3>2. /\ work \in [Put \cup {Watcher} -> S!Task]
            /\ Item(looking)[2] = looking
        BY <1>2 DEF S!TypeOK, S!Worker, Item
      <3>3. \A u \in Put \cup {Watcher} :
              \/ work'[u].tx = work[u].tx /\ work'[u].hash = work[u].hash
              \/ work'[u].tx = t /\ work'[u].hash = Item(looking)
        BY <3>1, <3>2 DEF S!Deliver, S!Task
      <3>4. sRow' = sRow /\ sReceived' = sReceived
        BY <3>1 DEF S!Deliver, S!db, S!outside
      <3>5. \A x \in Receives, p \in Payment :
              TakenS(x, p)' => TakenS(x, p) \/ (x = t /\ p = Item(looking))
        BY <3>3, <3>4 DEF TakenS
      <3>6. \A x \in Receives, i \in Nat \ {0} :
              TakenAt(x, i)' => TakenAt(x, i) \/ (x = t /\ i = looking)
        BY <3>2, <3>5 DEF TakenAt
      <3>7. \A x \in Withdrawals, i \in Nat \ {0} : TakenW(x, i)' => TakenW(x, i)
        BY <2>1 DEF ofWithdrawals, TakenW
      <3> QED BY <1>1, <1>2, <2>1, <3>6, <3>7 DEF Fresher, Seen
    <2> QED BY <1>16, <2>2, <2>3 DEF LookUpReceive
  <1> QED BY <1>10, <1>11, <1>12, <1>13, <1>14, <1>15, <1>16 DEF Next, Observe

LEMMA FreshImplies == FreshInv => OneTransferEach
PROOF
  <1> SUFFICES ASSUME Fresher, NEW i \in 1..MaxPayments, NEW m \in Memo
               PROVE  /\ \A t, x \in Withdrawals : TakenW(t, i) /\ TakenW(x, i) => t = x
                      /\ \A t, x \in Receives :
                           TakenS(t, <<m, i>>) /\ TakenS(x, <<m, i>>) => t = x
                      /\ \A t \in Withdrawals, x \in Receives :
                           ~(TakenW(t, i) /\ TakenS(x, <<m, i>>))
    BY DEF OneTransferEach, FreshInv
  <1>1. i \in Nat \ {0}
    BY ObserverAssumption
  <1>2. <<m, i>> \in Payment /\ <<m, i>>[2] = i
    BY DEF Payment
  <1>3. \A x \in Receives : TakenS(x, <<m, i>>) => TakenAt(x, i)
    BY <1>2 DEF TakenAt
  <1> QED BY <1>1, <1>3 DEF Fresher

LEMMA FreshInvariant == Spec => [](Parts /\ FreshInv)
PROOF
  <1>1. Init => Parts /\ FreshInv
    BY PartsInit, FreshInit
  <1>2. Parts /\ FreshInv /\ [Next]_vars => (Parts /\ FreshInv)'
    BY PartsStep, FreshStep
  <1> QED BY <1>1, <1>2, PTL DEF Spec

(* Until a stream is opened again a payment is used for one withdrawal or  *)
(* one receive only, though several may have drawn its memo: the task      *)
(* looks for a withdrawal first, stops at a match and sees no payment      *)
(* twice (observer.rs).                                                    *)
THEOREM PaymentsServeOneTransfer == Spec => []OneTransferEach
PROOF
  <1> QED BY FreshInvariant, FreshImplies, PTL

----------------------------------------------------------------------------
(* The anchor's books.  Nothing is paid out before the platform was told   *)
(* of a payment for it, and that payment is taken from then on.            *)
LEMMA PaidWithdrawals ==
  ASSUME Parts, Fresher, NEW t \in Withdrawals, wPayouts[t] > 0
  PROVE  \E i \in 1..Len(log) : TakenW(t, i)
PROOF
  <1>1. DOMAIN log = 1..Len(log)
    BY LenProperties DEF Parts, LookingIsInLog
  <1>2. PICK i \in DOMAIN log : <<t, i>> \in wReceived
    BY DEF Parts, WP!IInv, WP!RowInv
  <1> QED BY <1>1, <1>2 DEF TakenW

LEMMA PaidReceives ==
  ASSUME Parts, Fresher, NEW t \in Receives, sPayouts[t] > 0
  PROVE  \E i \in 1..Len(log) : TakenAt(t, i)
PROOF
  <1>1. PICK r \in sReceived : r[1] = t
    BY DEF Parts, SP!IInv, SP!RowInv
  <1>2. r = <<r[1], r[2]>> /\ r[2] \in Payment
    BY <1>1 DEF Parts, SP!IInv, SP!TypeOK
  <1>3. r[2][2] \in Nat \ {0}
    BY <1>2, ObserverAssumption DEF Payment
  <1>4. TakenAt(t, r[2][2])
    BY <1>1, <1>2 DEF TakenAt, TakenS
  <1>5. r[2][2] <= Len(log) /\ Len(log) \in Nat
    BY <1>3, <1>4, LenProperties DEF Fresher, Seen, Parts, LookingIsInLog
  <1> QED BY <1>3, <1>4, <1>5

(* R pairs each of A with places up to n, and no place with two of them:   *)
(* then there are no more of A than places that are taken.                 *)
Placed(A, n, R) ==
  /\ \A t \in A : \E i \in 1..n : <<t, i>> \in R
  /\ \A i \in 1..n : \A t, x \in A : <<t, i>> \in R /\ <<x, i>> \in R => t = x

PlacesOf(A, n, R) == {i \in 1..n : \E t \in A : <<t, i>> \in R}

LEMMA Places ==
  ASSUME NEW A, NEW n \in Nat, NEW R, Placed(A, n, R)
  PROVE  /\ IsFiniteSet(PlacesOf(A, n, R)) /\ PlacesOf(A, n, R) \subseteq 1..n
         /\ IsFiniteSet(A) /\ Cardinality(A) <= Cardinality(PlacesOf(A, n, R))
PROOF
  <1> DEFINE U == PlacesOf(A, n, R)
             f == [i \in U |-> CHOOSE t \in A : <<t, i>> \in R]
  <1>1. IsFiniteSet(U) /\ U \subseteq 1..n
    BY FS_Interval, FS_Subset DEF PlacesOf
  <1>2. \A i \in U : f[i] \in A /\ <<f[i], i>> \in R
    BY DEF PlacesOf
  <1>3. \A t \in A : \E i \in U : f[i] = t
    <2> SUFFICES ASSUME NEW t \in A PROVE \E i \in U : f[i] = t
      OBVIOUS
    <2>1. PICK i \in 1..n : <<t, i>> \in R
      BY DEF Placed
    <2> QED BY <1>2, <2>1 DEF Placed, PlacesOf
  <1>4. f \in Surjection(U, A)
    BY <1>2, <1>3 DEF Surjection
  <1> QED BY <1>1, <1>4, FS_Surjection

LEMMA PlacesOfBoth ==
  ASSUME NEW A, NEW B, NEW n \in Nat, NEW R, NEW Q, Placed(A, n, R), Placed(B, n, Q),
         \A i \in 1..n : \A t \in A, x \in B : ~(<<t, i>> \in R /\ <<x, i>> \in Q)
  PROVE  Cardinality(A) + Cardinality(B) <= n
PROOF
  <1>1. PICK U : U = PlacesOf(A, n, R)
    OBVIOUS
  <1>2. PICK V : V = PlacesOf(B, n, Q)
    OBVIOUS
  <1>3. /\ IsFiniteSet(U) /\ U \subseteq 1..n
        /\ IsFiniteSet(A) /\ Cardinality(A) <= Cardinality(U)
    BY <1>1, Places
  <1>4. /\ IsFiniteSet(V) /\ V \subseteq 1..n
        /\ IsFiniteSet(B) /\ Cardinality(B) <= Cardinality(V)
    BY <1>2, Places
  <1>5. /\ Cardinality(A) \in Nat /\ Cardinality(B) \in Nat
        /\ Cardinality(U) \in Nat /\ Cardinality(V) \in Nat
    BY <1>3, <1>4, FS_CardinalityType
  <1>6. IsFiniteSet(U \cup V) /\ Cardinality(U \cup V) = Cardinality(U) + Cardinality(V)
    <2>1. U \cap V = {}
      BY <1>1, <1>2 DEF PlacesOf
    <2>2. Cardinality(U \cap V) = 0
      BY <2>1, FS_EmptySet
    <2>3. /\ IsFiniteSet(U \cup V)
          /\ Cardinality(U \cup V) = Cardinality(U) + Cardinality(V) - Cardinality(U \cap V)
      BY <1>3, <1>4, FS_Union
    <2> QED BY <1>5, <2>2, <2>3
  <1>7. Cardinality(U \cup V) <= n
    <2>1. IsFiniteSet(1..n) /\ Cardinality(1..n) = n
      BY FS_Interval
    <2>2. U \cup V \in SUBSET (1..n)
      BY <1>3, <1>4
    <2> QED BY <2>1, <2>2, FS_Subset
  <1> QED BY <1>3, <1>4, <1>5, <1>6, <1>7

LEMMA BooksBalance == Parts /\ FreshInv => TransfersArePaidFor
PROOF
  <1> SUFFICES ASSUME Parts, Fresher
               PROVE  Cardinality({t \in Withdrawals : wPayouts[t] > 0})
                        + Cardinality({t \in Receives : sPayouts[t] > 0}) <= Len(log)
    BY DEF TransfersArePaidFor, FreshInv
  <1> DEFINE A == {t \in Withdrawals : wPayouts[t] > 0}
             B == {t \in Receives : sPayouts[t] > 0}
             n == Len(log)
             R == {r \in Withdrawals \X (1..n) : TakenW(r[1], r[2])}
             Q == {r \in Receives \X (1..n) : TakenAt(r[1], r[2])}
  <1>1. n \in Nat
    BY LenProperties DEF Parts, LookingIsInLog
  <1>2. \A i \in 1..n : i \in Nat \ {0}
    BY <1>1
  <1>3. \A t \in A : \E i \in 1..n : <<t, i>> \in R
    BY PaidWithdrawals
  <1>4. \A t \in B : \E i \in 1..n : <<t, i>> \in Q
    BY PaidReceives
  <1>5. \A i \in 1..n :
          /\ \A t, x \in A : <<t, i>> \in R /\ <<x, i>> \in R => t = x
          /\ \A t, x \in B : <<t, i>> \in Q /\ <<x, i>> \in Q => t = x
          /\ \A t \in A, x \in B : ~(<<t, i>> \in R /\ <<x, i>> \in Q)
    BY <1>2 DEF Fresher
  <1> HIDE DEF A, B, n, R, Q
  <1>6. Cardinality(A) + Cardinality(B) <= n
    <2>1. Placed(A, n, R) /\ Placed(B, n, Q)
      BY <1>3, <1>4, <1>5 DEF Placed
    <2> QED BY <1>1, <1>5, <2>1, PlacesOfBoth
  <1> QED BY <1>6 DEF A, B, n

(* Until a stream is opened again no more transfers of both kinds are paid *)
(* out than payments came in, whatever overlaps and whatever fails: each   *)
(* is paid out on a payment the platform was told of for it, and no        *)
(* payment serves two (observer.rs, sep24/worker.rs, sep31/worker.rs).     *)
THEOREM PaidTransfersHavePayments == Spec => []TransfersArePaidFor
PROOF
  <1> QED BY FreshInvariant, BooksBalance, PTL
=============================================================================
