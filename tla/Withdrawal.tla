----------------------------- MODULE Withdrawal -----------------------------
(***************************************************************************)
(* SEP-24 withdrawals: the transaction_created event draws a memo and      *)
(* tells the platform (event.rs), the interactive form stores its amount   *)
(* (sep24/interactive.rs), and the observer completes a withdrawal when a  *)
(* payment with its memo comes by (observer.rs, sep24/worker.rs).          *)
(*                                                                         *)
(* The customers row the form also writes is in Deposit; nothing here      *)
(* reads it.  Faults of every kind share one budget, so that what holds    *)
(* without a fault can be stated: a refused statement, a lost reply, a     *)
(* platform error, a client that hangs up, a broken stream, a crash.       *)
(***************************************************************************)
EXTENDS PaymentStream

CONSTANTS
  Tx,         \* withdrawals, by platform_transaction_id
  Session,    \* form submissions; each is used at most once
  SenderMemo, \* memos that payments meant for others carry (SEP-31 senders)
  MaxFaults,  \* bound: how many faults happen
  NoTx, NoMemo, NoAmount

ASSUME WithdrawalAssumption ==
  /\ MaxPayments \in Nat /\ MaxFaults \in Nat
  /\ IsFiniteSet(Session)
  /\ SenderMemo \subseteq Memo
  /\ Offline \notin Nat
  /\ NoTx \notin Tx
  /\ NoMemo \notin Memo
  /\ NoAmount \notin Amount

VARIABLES
  row,       \* sep24_transactions: status, withdraw_memo, amount_in and
             \* stellar_transaction_id (an index of the log; 0 is NULL)
  event,     \* the event handler of each withdrawal
  told,      \* withdrawals whose memo the wallet has been told
  sess,      \* form submissions: program counter, withdrawal, amount
  obs,       \* the observer: program counter, withdrawal, payment
  payouts,   \* how many (simulated) fiat payouts each withdrawal has had
  received,  \* notify_onchain_funds_received calls the platform applied
  sent,      \* withdrawals notify_offchain_funds_sent was applied for
  faults

outside == <<payouts, received, sent>>
vars    == <<stream, row, event, told, sess, obs, outside, faults>>

Status == {"absent", "received", "awaiting_stellar_payment",
           "awaiting_offchain_payout", "completed"}

Row   == [status : Status, memo : Memo \cup {NoMemo},
          amount : Amount \cup {NoAmount}, hash : Nat]
Visit == [pc : {"idle", "checked", "ended"}, tx : Tx \cup {NoTx},
          asked : Amount \cup {NoAmount}]
Job   == [pc : {"idle", "matched", "notified", "paying", "paid", "recorded"},
          tx : Tx \cup {NoTx}, item : Nat]

TypeOK ==
  /\ StreamTypeOK
  /\ row \in [Tx -> Row]
  /\ event \in [Tx -> {"none", "inserted", "ended"}]
  /\ told \subseteq Tx
  /\ sess \in [Session -> Visit]
  /\ obs \in Job
  /\ payouts \in [Tx -> Nat]
  /\ received \subseteq Tx \X Nat
  /\ sent \subseteq Tx
  /\ faults \in Nat

Idle == [pc |-> "idle", tx |-> NoTx, item |-> 0]

Init ==
  /\ StreamInit
  /\ row = [t \in Tx |-> [status |-> "absent", memo |-> NoMemo,
                          amount |-> NoAmount, hash |-> 0]]
  /\ event = [t \in Tx |-> "none"]
  /\ told = {}
  /\ sess = [s \in Session |-> [pc |-> "idle", tx |-> NoTx, asked |-> NoAmount]]
  /\ obs = Idle
  /\ payouts = [t \in Tx |-> 0]
  /\ received = {} /\ sent = {}
  /\ faults = 0

Fault   == faults < MaxFaults /\ faults' = faults + 1
NoFault == UNCHANGED faults

----------------------------------------------------------------------------
(* transaction_created: the row with its random memo, and with an amount   *)
(* when the event brings one; then PATCH.                                  *)

Created(t, m, a) ==
  [row EXCEPT ![t].status = "received", ![t].memo = m, ![t].amount = a]

(* A redelivered event breaks the unique index on platform_transaction_id, *)
(* so whatever a first delivery left undone stays undone.                  *)
HandleCreated(t, m, a) ==
  /\ row[t].status = "absent"
  /\ row' = Created(t, m, a)
  /\ \/ event' = [event EXCEPT ![t] = "inserted"] /\ NoFault
     \/ /\ Fault
        /\ event' = [event EXCEPT ![t] = "ended"]
  /\ UNCHANGED <<stream, told, sess, obs, outside>>

(* assign_withdrawal_destination; an error is logged and the event still   *)
(* answered with 200.                                                      *)
AssignDestination(t) ==
  /\ event[t] = "inserted"
  /\ event' = [event EXCEPT ![t] = "ended"]
  /\ \/ told' = told \cup {t} /\ NoFault
     \/ told' = told /\ Fault
  /\ UNCHANGED <<stream, row, sess, obs, outside>>

----------------------------------------------------------------------------
(* submit_form.                                                            *)

Accepts(t) == row[t].status = "received"

CheckReceived(s, t, a) ==
  /\ sess[s].pc = "idle"
  /\ Accepts(t)
  /\ sess' = [sess EXCEPT ![s] = [pc |-> "checked", tx |-> t, asked |-> a]]
  /\ UNCHANGED <<stream, row, event, told, obs, outside, faults>>

Submitted(t, a) ==
  [row EXCEPT ![t].status = "awaiting_stellar_payment", ![t].amount = a]

(* submit_amount, over whatever status the row has by now; the page then   *)
(* shows the memo.                                                         *)
SubmitAmount(s) ==
  LET t == sess[s].tx IN
  /\ sess[s].pc = "checked"
  /\ sess' = [sess EXCEPT ![s].pc = "ended"]
  /\ \/ row' = Submitted(t, sess[s].asked) /\ told' = told \cup {t} /\ NoFault
     \/ row' \in {row, Submitted(t, sess[s].asked)} /\ told' = told /\ Fault
  /\ UNCHANGED <<stream, event, obs, outside>>

(* The wallet pays to a memo it was told, what and when it likes.          *)
WalletPays(t, a) ==
  /\ t \in told
  /\ Pay(row[t].memo, a)
  /\ UNCHANGED <<row, event, told, sess, obs, outside, faults>>

(* Someone else pays, for a transfer of another kind; its memo may be that *)
(* of a withdrawal all the same, told or not.                              *)
SenderPays(m, a) == Pay(m, a) /\ UNCHANGED <<row, event, told, sess, obs, outside, faults>>

----------------------------------------------------------------------------
(* The observer and complete_withdrawal.                                   *)

Opens == Connect /\ UNCHANGED <<row, event, told, sess, obs, outside, faults>>

MatchesUnsubmitted(t, m) == row[t].memo = m /\ row[t].status = "received"

(* find_by_withdraw_memo: any one of the rows that match.  The amount of   *)
(* the payment is not looked at.                                           *)
Matches(t, m) == row[t].memo = m /\ row[t].status = "awaiting_stellar_payment"

Handle(t, i) == [pc |-> "matched", tx |-> t, item |-> i]

(* A payment that matches nothing is passed over for good; so is one whose *)
(* item is an error or whose lookup fails.                                 *)
Deliver ==
  LET m == log[pos + 1].memo IN
  /\ obs.pc = "idle"
  /\ Advance
  /\ \/ \E t \in Tx : Matches(t, m) /\ obs' = Handle(t, pos + 1) /\ NoFault
     \/ (\A t \in Tx : ~Matches(t, m)) /\ obs' = Idle /\ NoFault
     \/ obs' = Idle /\ Fault
  /\ UNCHANGED <<row, event, told, sess, outside>>

GoesOnUnheard ==
  /\ obs.pc = "matched"
  /\ obs' = [obs EXCEPT !.pc = "notified"]
  /\ \/ received' = received \cup {<<obs.tx, obs.item>>} /\ NoFault
     \/ received' = received /\ Fault
  /\ UNCHANGED <<stream, row, event, told, sess, payouts, sent>>

(* An error here ends the handling of the payment, and nothing retries it. *)
NotifyReceived ==
  LET heard == received \cup {<<obs.tx, obs.item>>} IN
  /\ obs.pc = "matched"
  /\ \/ received' = heard /\ obs' = [obs EXCEPT !.pc = "notified"] /\ NoFault
     \/ received' \in {received, heard} /\ obs' = Idle /\ Fault
  /\ UNCHANGED <<stream, row, event, told, sess, payouts, sent>>

PendingIsCompleted(t) == [row EXCEPT ![t].status = "completed"]

AwaitingPayout(t) == [row EXCEPT ![t].status = "awaiting_payout"]

PayoutPending(t) == [row EXCEPT ![t].status = "awaiting_offchain_payout"]

PaysAnyway ==
  /\ obs.pc = "notified"
  /\ obs' = [obs EXCEPT !.pc = "paying"]
  /\ \/ row' = PayoutPending(obs.tx) /\ NoFault
     \/ row' = row /\ Fault
  /\ UNCHANGED <<stream, event, told, sess, outside>>

(* From here on the row matches no payment.                                *)
SetPayoutPending ==
  /\ obs.pc = "notified"
  /\ \/ row' = PayoutPending(obs.tx) /\ obs' = [obs EXCEPT !.pc = "paying"] /\ NoFault
     \/ row' \in {row, PayoutPending(obs.tx)} /\ obs' = Idle /\ Fault
  /\ UNCHANGED <<stream, event, told, sess, outside>>

Payout ==
  /\ obs.pc = "paying"
  /\ payouts' = [payouts EXCEPT ![obs.tx] = @ + 1]
  /\ obs' = [obs EXCEPT !.pc = "paid"]
  /\ UNCHANGED <<stream, row, event, told, sess, received, sent, faults>>

Completed(t, i) == [row EXCEPT ![t].status = "completed", ![t].hash = i]

EndsUnreported ==
  /\ obs.pc = "paid"
  /\ row' = Completed(obs.tx, obs.item)
  /\ obs' = Idle
  /\ UNCHANGED <<stream, event, told, sess, outside, faults>>

SetCompleted ==
  /\ obs.pc = "paid"
  /\ \/ /\ row' = Completed(obs.tx, obs.item)
        /\ obs' = [obs EXCEPT !.pc = "recorded"] /\ NoFault
     \/ row' \in {row, Completed(obs.tx, obs.item)} /\ obs' = Idle /\ Fault
  /\ UNCHANGED <<stream, event, told, sess, outside>>

NotifySent ==
  /\ obs.pc = "recorded"
  /\ obs' = Idle
  /\ \/ sent' = sent \cup {obs.tx} /\ NoFault
     \/ sent' = sent /\ Fault
  /\ UNCHANGED <<stream, row, event, told, sess, payouts, received>>

(* The stream breaks while the observer waits for it.                      *)
StreamBreaks ==
  /\ obs.pc = "idle"
  /\ Disconnect
  /\ Fault
  /\ UNCHANGED <<row, event, told, sess, obs, outside>>

(* The process dies and restarts with no stream and no handler.            *)
Crash ==
  /\ Fault
  /\ pos' = Offline /\ obs' = Idle
  /\ event' = [t \in Tx |-> IF event[t] = "inserted" THEN "ended" ELSE event[t]]
  /\ sess' = [s \in Session |->
       IF sess[s].pc = "checked" THEN [sess[s] EXCEPT !.pc = "ended"] ELSE sess[s]]
  /\ UNCHANGED <<log, row, told, outside>>

CompleteWithdrawal ==
  NotifyReceived \/ SetPayoutPending \/ Payout \/ SetCompleted \/ NotifySent

Observe == Opens \/ Deliver \/ CompleteWithdrawal

Next ==
  \/ \E t \in Tx, m \in Memo, a \in Amount \cup {NoAmount} : HandleCreated(t, m, a)
  \/ \E t \in Tx : AssignDestination(t)
  \/ \E s \in Session, t \in Tx, a \in Amount : CheckReceived(s, t, a)
  \/ \E s \in Session : SubmitAmount(s)
  \/ \E t \in Tx, a \in Amount : WalletPays(t, a)
  \/ \E m \in SenderMemo, a \in Amount : SenderPays(m, a)
  \/ Observe
  \/ StreamBreaks
  \/ Crash

Spec == Init /\ [][Next]_vars

(* The observer is one tokio task that never stops running.                *)
FairSpec == Spec /\ WF_vars(Observe)

----------------------------------------------------------------------------
(* Properties.                                                             *)

Solo(t) == \A s, u \in Session : sess[s].tx = t /\ sess[u].tx = t => s = u

(* A withdrawal whose form was accepted once is paid out at most once,     *)
(* though the stream may replay every payment, the wallet may pay twice    *)
(* and any statement may fail: the row leaves `awaiting_stellar_payment`   *)
(* before the payout and nothing else brings it back.                      *)
SoloPaidOnce == \A t \in Tx : Solo(t) => payouts[t] <= 1

(* The amount of the row is one that a submission of its form brought.     *)
FormStored(t) == \E s \in Session : sess[s].tx = t /\ sess[s].asked = row[t].amount

(* A payout was preceded by all of it: a form whose amount stands in the   *)
(* row, over one that came with the event, a payment with the memo of that *)
(* very row, and the platform's word that it had heard of that payment.    *)
PayoutsAreBacked ==
  \A t \in Tx : payouts[t] > 0 =>
    /\ FormStored(t)
    /\ \E i \in DOMAIN log : log[i].memo = row[t].memo /\ <<t, i>> \in received

(* What is claimed was done: a completed row, and a withdrawal reported as *)
(* sent, have had a payout; the row of a completed one names a payment     *)
(* that carries its memo.                                                  *)
ClaimsAreTrue ==
  \A t \in Tx :
    /\ row[t].status = "completed" \/ t \in sent => payouts[t] > 0
    /\ row[t].hash # 0 => row[t].hash \in DOMAIN log /\ log[row[t].hash].memo = row[t].memo
    /\ row[t].status = "completed" => row[t].hash # 0

(* Where nothing fails no withdrawal is dropped half-way, however forms    *)
(* overlap: one whose payout was announced is in the observer's hands, and *)
(* one that was paid out was reported, or is about to be recorded or       *)
(* reported by the observer.                                               *)
NothingIsForgotten ==
  faults = 0 => \A t \in Tx :
    /\ row[t].status = "awaiting_offchain_payout" =>
         obs.tx = t /\ obs.pc \in {"paying", "paid"}
    /\ payouts[t] > 0 => t \in sent \/ (obs.tx = t /\ obs.pc \in {"paid", "recorded"})

(* Withdrawals implement Payout: a submission of the form asks for one,    *)
(* and however often payments come or are replayed, and whatever fails,    *)
(* one submission is paid out at most once.                                *)
Submissions(t) == {s \in Session : sess[s].tx = t}

Asked    == [t \in Tx |-> Cardinality(Submissions(t))]
Recorded == {t \in Tx : row[t].hash # 0}

P == INSTANCE Payout WITH
       asked <- Asked, paid <- payouts, recorded <- Recorded, reported <- sent

ImplementsPayout == P!Spec

(* Where nothing fails, a payment that is still to come on the open stream *)
(* has the withdrawal that awaits it paid out and reported to the platform,*)
(* unless another row with the same memo takes it.                         *)
AwaitedPaymentCompletes ==
  \A t \in Tx, i \in 1..MaxPayments :
    (/\ row[t].status = "awaiting_stellar_payment"
     /\ pos # Offline /\ pos < i /\ i \in DOMAIN log
     /\ log[i].memo = row[t].memo)
    ~> \/ t \in sent
       \/ faults > 0
       \/ \E x \in Tx \ {t} : row[x].memo = row[t].memo

(* interactive.rs:217-218: "Send exactly {amount} {asset} [...] Once       *)
(* received, your withdrawal will be completed automatically."             *)
CompletedByExactAmount ==
  \A t \in Tx : row[t].status = "completed" => log[row[t].hash].amount = row[t].amount
=============================================================================
