------------------------------ MODULE Observer ------------------------------
(***************************************************************************)
(* The payment observer with both kinds of transfer it serves: ONE task    *)
(* takes the payments off the stream and looks for a withdrawal first and  *)
(* for a receive second, and handles what it finds before the next payment *)
(* (observer.rs).  Everything else goes on meanwhile: events, forms, PUTs  *)
(* and their resume tasks.                                                 *)
(*                                                                         *)
(* W and S are the modules of the two kinds over the variables below; they *)
(* share the stream, the task and the crashes.  Payments are told apart by *)
(* memo and place in the log.  Each kind keeps a fault budget of its own.  *)
(* Every action is one of W's, of S's or of both, so what the two modules  *)
(* say of the kinds holds here by construction; the properties of this     *)
(* module are about the two together.                                      *)
(***************************************************************************)
EXTENDS PaymentStream

CONSTANTS
  Withdrawals, Session,                          \* see Withdrawal
  Receives, MemoOf, Receiver, ReceiverOf, Field, \* see Sep31
  Put, Watcher,
  MaxFaults,                                     \* bound: faults of each kind
  NoTx, NoMemo, NoAmount, NoReceiver, NoPayment

VARIABLES
  wRow, event, told, sess, obs, wPayouts, wReceived, wSent, wFaults,
  sRow, cust, work, sPayouts, sReceived, sSent, verified, sFaults, deliveries,
  looking, \* the payment a receive is being looked up for, or 0
  misses,  \* failed lookups of receives
  opened   \* history: how often the stream has been opened

Payment == Memo \X (1..MaxPayments)

W == INSTANCE Withdrawal WITH
       Tx <- Withdrawals, SenderMemo <- {MemoOf[t] : t \in Receives},
       row <- wRow, payouts <- wPayouts, received <- wReceived, sent <- wSent,
       faults <- wFaults

S == INSTANCE Sep31 WITH
       Tx <- Receives, PaidMemo <- [p \in Payment |-> p[1]], Observer <- Watcher,
       MaxDeliveries <- MaxPayments * (MaxFaults + 1),
       row <- sRow, payouts <- sPayouts, received <- sReceived, sent <- sSent,
       faults <- sFaults

ASSUME ObserverAssumption ==
  /\ MaxPayments \in Nat /\ MaxFaults \in Nat
  /\ Offline \notin Nat
  /\ MemoOf \in [Receives -> Memo]
  /\ ReceiverOf \in [Receives -> Receiver \cup {NoReceiver}]
  /\ IsFiniteSet(Session) /\ IsFiniteSet(Put)
  /\ NoTx \notin Withdrawals \cup Receives
  /\ NoMemo \notin Memo /\ NoAmount \notin Amount
  /\ NoReceiver \notin Receiver /\ NoPayment \notin Payment
  /\ Watcher \notin Put

ofWithdrawals == <<wRow, event, told, sess, obs, wPayouts, wReceived, wSent, wFaults>>
ofReceives    == <<sRow, cust, work, sPayouts, sReceived, sSent, verified, sFaults, deliveries>>
own           == <<looking, misses, opened>>
vars          == <<stream, ofWithdrawals, ofReceives, own>>

TypeOK ==
  /\ W!TypeOK /\ S!TypeOK
  /\ Len(log) <= MaxPayments
  /\ looking \in 0..Len(log)
  /\ misses \in Nat /\ opened \in Nat

Init == W!Init /\ S!Init /\ looking = 0 /\ misses = 0 /\ opened = 0

----------------------------------------------------------------------------
(* The task.                                                               *)

(* It waits for the stream, and for nothing else.                          *)
Waiting == obs.pc = "idle" /\ work[Watcher].pc = "idle" /\ looking = 0

Opens ==
  /\ Waiting
  /\ W!Opens
  /\ opened' = opened + 1
  /\ UNCHANGED <<ofReceives, looking, misses>>

FallsThrough ==
  /\ Waiting
  /\ W!Deliver
  /\ looking' = pos + 1
  /\ UNCHANGED <<ofReceives, misses, opened>>

PassesOver ==
  /\ Waiting
  /\ W!Deliver
  /\ looking' = 0
  /\ UNCHANGED <<ofReceives, misses, opened>>

(* An item of the stream: a withdrawal is looked up, and one that matches  *)
(* is completed.  If none does, or the lookup fails, a receive is looked   *)
(* up; an item that is an error is passed over.                            *)
TakeItem ==
  /\ Waiting
  /\ W!Deliver
  /\ \/ obs'.pc = "matched" /\ looking' = 0
     \/ obs'.pc = "idle" /\ looking' = pos + 1
     \/ obs'.pc = "idle" /\ wFaults' # wFaults /\ looking' = 0
  /\ UNCHANGED <<ofReceives, misses, opened>>

Item(i) == <<log[i].memo, i>>

SwapsArguments ==
  /\ looking # 0
  /\ looking' = 0
  /\ \E t \in Receives :
       /\ S!Matches(Item(looking), t)
       /\ work' = [work EXCEPT ![Watcher] = [@ EXCEPT !.pc = "matched", !.tx = t,
                                                      !.hash = log[looking].memo]]
  /\ UNCHANGED <<stream, ofWithdrawals, sRow, cust, sPayouts, sReceived, sSent, verified,
                 sFaults, deliveries, misses, opened>>

(* find_by_stellar_memo; the payment goes to one of the rows that match.   *)
LookUpReceive ==
  /\ looking # 0
  /\ looking' = 0
  /\ \/ (\E t \in Receives : S!Deliver(Item(looking), t)) /\ UNCHANGED misses
     \/ /\ \A t \in Receives : ~S!Matches(Item(looking), t)
        /\ UNCHANGED <<ofReceives, misses>>
     \/ misses < MaxFaults /\ misses' = misses + 1 /\ UNCHANGED ofReceives
  /\ UNCHANGED <<stream, ofWithdrawals, opened>>

CompleteWithdrawal == W!CompleteWithdrawal /\ UNCHANGED <<ofReceives, own>>

CompleteReceive == S!CompleteReceive /\ UNCHANGED <<stream, ofWithdrawals, own>>

StreamBreaks == Waiting /\ W!StreamBreaks /\ UNCHANGED <<ofReceives, own>>

(* One process: whatever is under way is lost on both sides.               *)
Crash == W!Crash /\ S!Crash /\ looking' = 0 /\ UNCHANGED <<misses, opened>>

----------------------------------------------------------------------------
(* Everything that runs beside the task.                                   *)

OfWithdrawals ==
  /\ \/ \E t \in Withdrawals, m \in Memo, a \in Amount \cup {NoAmount} :
            W!HandleCreated(t, m, a)
     \/ \E t \in Withdrawals : W!AssignDestination(t)
     \/ \E s \in Session, t \in Withdrawals, a \in Amount : W!CheckReceived(s, t, a)
     \/ \E s \in Session : W!SubmitAmount(s)
     \/ \E t \in Withdrawals, a \in Amount : W!WalletPays(t, a)
     \/ \E m \in {MemoOf[t] : t \in Receives}, a \in Amount : W!SenderPays(m, a)
  /\ UNCHANGED <<ofReceives, own>>

OfReceives ==
  /\ \/ \E t \in Receives : S!HandleCreated(t)
     \/ \E w \in Put : S!PutCustomer(w)
     \/ \E w \in Put : S!Resume(w)
     \/ \E r \in Receiver : S!DeleteCustomer(r)
  /\ UNCHANGED <<stream, ofWithdrawals, own>>

Observe == Opens \/ TakeItem \/ LookUpReceive \/ CompleteWithdrawal \/ CompleteReceive

Next == Observe \/ StreamBreaks \/ Crash \/ OfWithdrawals \/ OfReceives

Spec == Init /\ [][Next]_vars

(* The observer is one tokio task that never stops running.                *)
FairSpec == Spec /\ WF_vars(Observe)

----------------------------------------------------------------------------
(* Properties.                                                             *)

(* A payment is taken for a withdrawal, or for a receive, while the        *)
(* observer or a resume task has the two in hand, and from then on in the  *)
(* row and in what the platform was told.                                  *)
TakenW(t, i) == \/ wRow[t].hash = i \/ <<t, i>> \in wReceived
                \/ obs.tx = t /\ obs.item = i

TakenS(t, p) == \/ sRow[t].hash = p \/ <<t, p>> \in sReceived
                \/ \E w \in Put \cup {Watcher} : work[w].tx = t /\ work[w].hash = p

(* Until a stream is opened again a payment is used for one transfer only, *)
(* withdrawal or receive, whatever memos they drew and whatever fails: the *)
(* lookup of withdrawals comes first, a match ends the handling, and a     *)
(* payment comes by only once.  (A reopened stream may hand it to another  *)
(* transfer.)                                                              *)
OneTransferEach ==
  opened <= 1 => \A i \in 1..MaxPayments, m \in Memo :
    /\ \A t, x \in Withdrawals : TakenW(t, i) /\ TakenW(x, i) => t = x
    /\ \A t, x \in Receives : TakenS(t, <<m, i>>) /\ TakenS(x, <<m, i>>) => t = x
    /\ \A t \in Withdrawals, x \in Receives : ~(TakenW(t, i) /\ TakenS(x, <<m, i>>))

(* Until a stream is opened again there are no more transfers paid out,    *)
(* over both kinds, than payments that came in, however forms, PUTs and    *)
(* resume tasks overlap and whatever fails.  It counts transfers: one of   *)
(* them may still be paid out twice (see Sep31Double).                     *)
TransfersArePaidFor ==
  opened <= 1 =>
    Cardinality({t \in Withdrawals : wPayouts[t] > 0})
      + Cardinality({t \in Receives : sPayouts[t] > 0}) <= Len(log)

Calm == wFaults = 0 /\ sFaults = 0 /\ misses = 0

(* A receive that waits for a payment that is still to come on the open    *)
(* stream is settled or parked, whatever withdrawals the task completes    *)
(* before: unless something fails, or a transfer with its memo takes it.   *)
AwaitedReceiveIsHandled ==
  \A t \in Receives, i \in 1..MaxPayments :
    (/\ sRow[t].status = "pending_receiver"
     /\ pos # Offline /\ pos < i /\ i \in DOMAIN log
     /\ log[i].memo = MemoOf[t])
    ~> \/ sRow[t].status \in {"pending_customer_info_update", "completed"}
       \/ ~Calm
       \/ \E x \in Withdrawals : wRow[x].memo = MemoOf[t]
       \/ \E x \in Receives \ {t} : MemoOf[x] = MemoOf[t]
=============================================================================
