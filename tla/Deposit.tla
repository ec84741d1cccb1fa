------------------------------ MODULE Deposit ------------------------------
(***************************************************************************)
(* SEP-24 deposits: the interactive form's submit handler                  *)
(* (sep24/interactive.rs), the process_deposit task it spawns              *)
(* (sep24/worker.rs) and the payment that task signs and submits from the  *)
(* one distribution account (ledger/mod.rs).  The customers rows that the  *)
(* forms write are here too, with the platform's DELETE of them.           *)
(*                                                                         *)
(* A session is one POST of the form together with the task it may spawn.  *)
(* Every `.await` of the code ends an action, so handlers and tasks        *)
(* interleave there and nowhere else.  The Stellar network and the anchor  *)
(* platform are external: they accept, refuse or lose what they are sent.  *)
(*                                                                         *)
(* Faults share one budget, so that what holds without a fault can be      *)
(* stated: a statement refused or its reply lost, a platform error, a      *)
(* client that hangs up (which drops its handler), a crash.  An error of   *)
(* Horizon is not a fault: refusing an envelope is how the ledger works.   *)
(***************************************************************************)
EXTENDS Naturals, FiniteSets

CONSTANTS
  Tx,               \* deposits, by platform_transaction_id
  Session,          \* form submissions; each is used at most once
  Payee,            \* a wallet account together with its payment memo
  PayeeOf,          \* the payee of each deposit
  Amount,           \* payouts (amount_out) the form's amounts come to
  Sendable,         \* those a Stellar amount can express
  MaxFaults,        \* bound: how many faults happen
  NoTx, NoAmount, NoEnvelope

(* A signed transaction is known by its hash, that is by what it says: two *)
(* tasks that sign the same payment on the same sequence number hold ONE   *)
(* envelope.                                                               *)
Envelope == [to : Payee, amount : Amount, seq : Nat]

(* A customers row by the session whose form inserted it.  What fields it  *)
(* holds is left out: a form brings those that were missing when it was    *)
(* shown, and submit_form asks for none.  So an UPDATE leaves the set of   *)
(* rows alone, and a row from PUT /customer only spares forms an INSERT.   *)
Customer == Session \X Payee

ASSUME DepositAssumption ==
  /\ PayeeOf \in [Tx -> Payee]
  /\ IsFiniteSet(Session)
  /\ Sendable \subseteq Amount
  /\ MaxFaults \in Nat
  /\ NoTx \notin Tx
  /\ NoAmount \notin Amount
  /\ NoEnvelope \notin Envelope

VARIABLES
  row,        \* sep24_transactions: status, amount_out, stellar_transaction_id
  customers,  \* customers rows of type sep24, one of a payee or several
  erased,     \* payees whose rows were deleted at some moment
  sess,       \* each session's program counter and local variables
  seqNum,     \* the distribution account's sequence number on the ledger
  network,    \* envelopes submitted and not yet decided
  paid,       \* envelopes applied: their payment happened
  failed,     \* envelopes that only consumed their sequence number
  sent,       \* notify_onchain_funds_sent calls the platform applied
  errors,     \* deposits notify_transaction_error was applied for
  faults

db       == <<row, customers, erased>>
ledger   == <<seqNum, network, paid, failed>>
platform == <<sent, errors>>
vars     == <<db, sess, ledger, platform, faults>>

Status == {"absent", "received", "awaiting_stellar_payment", "completed", "error"}

(* Where a session stands; each label names what was awaited last.         *)
Label == {"idle", "checked", "found", "upserted", "spawned", "loaded", "signed",
          "submitted", "confirmed", "recorded", "failing", "errored", "ended"}

Row  == [status : Status, amount_out : Amount \cup {NoAmount},
         hash : Envelope \cup {NoEnvelope}]
(* existing is the customer the form found, if any; asked the payout of    *)
(* the form's amount, due the one the task loads.                          *)
Task == [pc : Label, tx : Tx \cup {NoTx}, existing : SUBSET Customer,
         asked : Amount \cup {NoAmount}, due : Amount \cup {NoAmount},
         env : Envelope \cup {NoEnvelope}]

TypeOK ==
  /\ row \in [Tx -> Row]
  /\ customers \subseteq Customer
  /\ erased \subseteq Payee
  /\ sess \in [Session -> Task]
  /\ seqNum \in Nat
  /\ network \subseteq Envelope
  /\ paid \subseteq Envelope
  /\ failed \subseteq Envelope
  /\ sent \subseteq Tx \X Envelope
  /\ errors \subseteq Tx
  /\ faults \in Nat

Init ==
  /\ row = [t \in Tx |-> [status |-> "absent", amount_out |-> NoAmount,
                          hash |-> NoEnvelope]]
  /\ customers = {} /\ erased = {}
  /\ sess = [s \in Session |-> [pc |-> "idle", tx |-> NoTx, existing |-> {},
                                asked |-> NoAmount, due |-> NoAmount, env |-> NoEnvelope]]
  /\ seqNum = 0
  /\ network = {} /\ paid = {} /\ failed = {}
  /\ sent = {} /\ errors = {}
  /\ faults = 0

Fault   == faults < MaxFaults /\ faults' = faults + 1
NoFault == UNCHANGED faults

At(s, label)   == sess[s].pc = label
Goto(s, label) == sess' = [sess EXCEPT ![s].pc = label]

----------------------------------------------------------------------------
(* The handlers.                                                           *)

RecreatesRow(t) ==
  /\ row' = [row EXCEPT ![t].status = "received"]
  /\ UNCHANGED <<customers, erased, sess, ledger, platform, faults>>

(* The transaction_created event inserts the row.  A redelivered event     *)
(* breaks the unique index on platform_transaction_id and changes nothing. *)
HandleCreated(t) ==
  /\ row[t].status = "absent"
  /\ row' = [row EXCEPT ![t].status = "received"]
  /\ UNCHANGED <<customers, erased, sess, ledger, platform, faults>>

AcceptsAgain(t) == row[t].status \in {"received", "awaiting_stellar_payment"}

(* submit_form serves a deposit only while its status is still `received`. *)
Accepts(t) == row[t].status = "received"

(* submit_form up to its first write: the row is read here, and what was   *)
(* read is never checked again.                                            *)
CheckReceived(s, t, a) ==
  /\ At(s, "idle")
  /\ Accepts(t)
  /\ sess' = [sess EXCEPT ![s].pc = "checked", ![s].tx = t, ![s].asked = a]
  /\ UNCHANGED <<db, ledger, platform, faults>>

RowsOf(p) == {c \in customers : c[2] = p}

(* What find_by_identity may answer: one of the rows, if there are any.    *)
Found(p) == IF RowsOf(p) = {} THEN {{}} ELSE {{c} : c \in RowsOf(p)}

(* customers::upsert of the KYC fields that came with the form looks for   *)
(* the payee's row first.  A handler ends in any of its statements when    *)
(* that fails and when its client hangs up.                                *)
FindCustomer(s) ==
  /\ At(s, "checked")
  /\ \/ /\ \E c \in Found(PayeeOf[sess[s].tx]) :
             sess' = [sess EXCEPT ![s].pc = "found", ![s].existing = c]
        /\ NoFault
     \/ Goto(s, "ended") /\ Fault
  /\ UNCHANGED <<db, ledger, platform>>

(* It inserts a row if it found none.  The UPDATE of a row by its id makes *)
(* none: when the row was deleted meanwhile it changes nothing, without an *)
(* error.                                                                  *)
Written(s) ==
  customers \cup
    IF sess[s].existing = {} THEN {<<s, PayeeOf[sess[s].tx]>>} ELSE {}

Upserted(s, label) ==
  sess' = [sess EXCEPT ![s].pc = label, ![s].existing = {}]

GoesOnUnwritten(s) ==
  /\ At(s, "found")
  /\ \/ customers' = Written(s) /\ NoFault
     \/ customers' = customers /\ Fault
  /\ Upserted(s, "upserted")
  /\ UNCHANGED <<row, erased, ledger, platform>>

WriteCustomer(s) ==
  /\ At(s, "found")
  /\ \/ customers' = Written(s) /\ Upserted(s, "upserted") /\ NoFault
     \/ customers' \in {customers, Written(s)} /\ Upserted(s, "ended") /\ Fault
  /\ UNCHANGED <<row, erased, ledger, platform>>

Submitted(t, a) ==
  [row EXCEPT ![t].status = "awaiting_stellar_payment", ![t].amount_out = a]

(* submit_amount overwrites amounts and status whatever they are by now,   *)
(* then the handler spawns process_deposit.                                *)
SubmitAmount(s) ==
  /\ At(s, "upserted")
  /\ \/ /\ row' = Submitted(sess[s].tx, sess[s].asked)
        /\ Goto(s, "spawned") /\ NoFault
     \/ /\ row' \in {row, Submitted(sess[s].tx, sess[s].asked)}
        /\ Goto(s, "ended") /\ Fault
  /\ UNCHANGED <<customers, erased, ledger, platform>>

(* DELETE /customer removes every row of the payee; without one it is      *)
(* refused.                                                                *)
DeleteCustomer(p) ==
  /\ RowsOf(p) # {}
  /\ customers' = customers \ RowsOf(p)
  /\ erased' = erased \cup {p}
  /\ UNCHANGED <<row, sess, ledger, platform, faults>>

----------------------------------------------------------------------------
(* process_deposit.                                                        *)

(* The task reads the row again, so it pays whatever amount stands there.  *)
LoadTransaction(s) ==
  /\ At(s, "spawned")
  /\ \/ /\ sess' = [sess EXCEPT ![s].pc = "loaded",
                                ![s].due = row[sess[s].tx].amount_out]
        /\ NoFault
     \/ Goto(s, "failing") /\ Fault
  /\ UNCHANGED <<db, ledger, platform>>

SignedPayment(s) ==
  [to |-> PayeeOf[sess[s].tx], amount |-> sess[s].due, seq |-> seqNum + 1]

SkipsUnsendable(s) ==
  /\ At(s, "loaded")
  /\ \/ /\ sess[s].due \in Sendable
        /\ sess' = [sess EXCEPT ![s].pc = "signed", ![s].env = SignedPayment(s)]
     \/ sess[s].due \notin Sendable /\ Goto(s, "ended")
  /\ UNCHANGED <<db, ledger, platform, faults>>

(* send_payment reads the account's sequence number from Horizon, then     *)
(* builds and signs a payment on the next one.                             *)
LoadSequence(s) ==
  /\ At(s, "loaded")
  /\ \/ /\ sess[s].due \in Sendable
        /\ sess' = [sess EXCEPT ![s].pc = "signed", ![s].env = SignedPayment(s)]
     \/ Goto(s, "failing")
  /\ UNCHANGED <<db, ledger, platform, faults>>

(* An envelope whose sequence number is used up is refused at once.        *)
SubmitEnvelope(s) ==
  /\ At(s, "signed")
  /\ network' = network \cup {e \in {sess[s].env} : e.seq > seqNum}
  /\ Goto(s, "submitted")
  /\ UNCHANGED <<db, seqNum, paid, failed, platform, faults>>

ConfirmsSubmitted(s) == sess[s].env \in network \cup paid

(* Horizon reports success for a hash it has seen applied successfully, to *)
(* every caller that submitted it.                                         *)
Confirms(s) == sess[s].env \in paid

RetriesPayment(s) ==
  /\ At(s, "submitted")
  /\ \/ Confirms(s) /\ Goto(s, "confirmed")
     \/ Goto(s, "loaded")
  /\ UNCHANGED <<db, ledger, platform, faults>>

(* Horizon's answer: success, or an error (refused, failed, timed out),    *)
(* which does not say that the envelope will not be applied later.         *)
HorizonAnswers(s) ==
  /\ At(s, "submitted")
  /\ \/ Confirms(s) /\ Goto(s, "confirmed")
     \/ Goto(s, "failing")
  /\ UNCHANGED <<db, ledger, platform, faults>>

Completed(t, e) == [row EXCEPT ![t].status = "completed", ![t].hash = e]

(* set_completed, over whatever status the row has by now.                 *)
MarkCompleted(s) ==
  /\ At(s, "confirmed")
  /\ \/ /\ row' = Completed(sess[s].tx, sess[s].env)
        /\ Goto(s, "recorded") /\ NoFault
     \/ /\ row' \in {row, Completed(sess[s].tx, sess[s].env)}
        /\ Goto(s, "failing") /\ Fault
  /\ UNCHANGED <<customers, erased, ledger, platform>>

(* An error from the platform takes the same path as a failed payment.     *)
NotifySent(s) ==
  /\ At(s, "recorded")
  /\ \/ /\ sent' = sent \cup {<<sess[s].tx, sess[s].env>>}
        /\ Goto(s, "ended") /\ NoFault
     \/ /\ sent' \in {sent, sent \cup {<<sess[s].tx, sess[s].env>>}}
        /\ Goto(s, "failing") /\ Fault
  /\ UNCHANGED <<db, ledger, errors>>

FailedInstead(t) == [row EXCEPT ![t].status = "failed"]

Errored(t) == [row EXCEPT ![t].status = "error"]

(* set_error; its own failure is ignored.                                  *)
MarkError(s) ==
  /\ At(s, "failing")
  /\ \/ row' = Errored(sess[s].tx) /\ NoFault
     \/ row' = row /\ Fault
  /\ Goto(s, "errored")
  /\ UNCHANGED <<customers, erased, ledger, platform>>

SilentError(s) ==
  /\ At(s, "errored")
  /\ Goto(s, "ended")
  /\ UNCHANGED <<db, ledger, platform, faults>>

(* notify_transaction_error, after one more read; failures are ignored.    *)
NotifyError(s) ==
  /\ At(s, "errored")
  /\ \/ errors' = errors \cup {sess[s].tx} /\ NoFault
     \/ errors' = errors /\ Fault
  /\ Goto(s, "ended")
  /\ UNCHANGED <<db, ledger, sent>>

----------------------------------------------------------------------------
(* The environment.                                                        *)

(* Stellar applies an envelope on the next sequence number, once.  Others  *)
(* that were built on that number, or an older one, can never apply.       *)
Apply(e) ==
  /\ e \in network
  /\ e.seq = seqNum + 1
  /\ seqNum' = e.seq
  /\ network' = {x \in network : x.seq > e.seq}
  /\ \/ paid' = paid \cup {e} /\ UNCHANGED failed
     \/ failed' = failed \cup {e} /\ UNCHANGED paid
  /\ UNCHANGED <<db, sess, platform, faults>>

(* The process dies: its handlers and tasks are gone and nothing respawns  *)
(* them, for main starts only the observer and the router.  A session      *)
(* keeps what the properties look at as history.                           *)
Crash ==
  /\ Fault
  /\ sess' = [s \in Session |->
                IF At(s, "idle") THEN sess[s]
                ELSE [sess[s] EXCEPT !.pc = "ended", !.existing = {}]]
  /\ UNCHANGED <<db, ledger, platform>>

Handler(s) == FindCustomer(s) \/ WriteCustomer(s) \/ SubmitAmount(s)

ProcessDeposit(s) ==
  \/ LoadTransaction(s) \/ LoadSequence(s) \/ SubmitEnvelope(s)
  \/ HorizonAnswers(s) \/ MarkCompleted(s) \/ NotifySent(s)
  \/ MarkError(s) \/ NotifyError(s)

Next ==
  \/ \E t \in Tx : HandleCreated(t)
  \/ \E s \in Session, t \in Tx, a \in Amount : CheckReceived(s, t, a)
  \/ \E s \in Session : Handler(s)
  \/ \E s \in Session : ProcessDeposit(s)
  \/ \E p \in Payee : DeleteCustomer(p)
  \/ \E e \in network : Apply(e)
  \/ Crash

Spec == Init /\ [][Next]_vars

(* tokio runs every ready task, and every call returns or breaks; nothing  *)
(* obliges the wallet to submit or the network to apply.                   *)
FairSpec ==
  Spec /\ \A s \in Session : WF_vars(Handler(s)) /\ WF_vars(ProcessDeposit(s))

----------------------------------------------------------------------------
(* Properties.                                                             *)

(* No false claims.  Whatever the interleaving, the errors and the         *)
(* crashes: a hash in the transactions table, and every hash the platform  *)
(* was told of, is that of a payment to the deposit's payee that happened; *)
(* and no row is `completed` without one (worker.rs writes and reports a   *)
(* hash only after Horizon's success).                                     *)
ClaimsArePaid ==
  /\ \A t \in Tx :
       /\ row[t].status = "completed" => row[t].hash # NoEnvelope
       /\ row[t].hash # NoEnvelope =>
            row[t].hash \in paid /\ row[t].hash.to = PayeeOf[t]
  /\ \A r \in sent : r[2] \in paid /\ r[2].to = PayeeOf[r[1]]

(* No unasked payment.  Every envelope the network has ever seen was       *)
(* signed by a task for its own deposit's payee and for a payout some      *)
(* submission of THAT deposit asked for (the amount is read back from a    *)
(* row that another submission may have overwritten).  And the payee is in *)
(* the customers table, unless the platform had it deleted: before the     *)
(* payment, after it, or under a form that had just found the row and      *)
(* updated nothing.                                                        *)
OnFile(p) == RowsOf(p) # {}

PaymentsAreAsked ==
  \A e \in network \cup paid \cup failed : \E s, u \in Session :
    /\ sess[s].env = e
    /\ e.to = PayeeOf[sess[s].tx]
    /\ OnFile(e.to) \/ e.to \in erased
    /\ sess[u].tx = sess[s].tx
    /\ e.amount = sess[u].asked

(* Where nothing fails no deposit is dropped half-way, whatever Horizon    *)
(* answers and however submissions overlap: one that awaits its payment    *)
(* has a task that will pay it or mark it, and one that was submitted has  *)
(* been reported, as sent or as failed, or a task is still to do that.     *)
Tasks == {"spawned", "loaded", "signed", "submitted", "confirmed", "failing"}

NothingIsForgotten ==
  faults = 0 => \A t \in Tx :
    /\ row[t].status = "awaiting_stellar_payment" =>
         \E s \in Session : sess[s].tx = t /\ sess[s].pc \in Tasks
    /\ row[t].amount_out # NoAmount =>
         \/ t \in errors \cup {r[1] : r \in sent}
         \/ \E s \in Session :
              sess[s].tx = t /\ sess[s].pc \in Tasks \cup {"recorded", "errored"}

(* The check of submit_form does refuse a deposit whose amounts an earlier *)
(* submission has already stored, whatever became of it: two submissions   *)
(* both get through only when they overlap.                                *)
ChecksUnsubmitted ==
  \A s \in Session : At(s, "idle") /\ ~At(s, "idle")' =>
     row[sess'[s].tx].amount_out = NoAmount
ResubmitRefused == [][ChecksUnsubmitted]_vars

Solo(t) == \A s, u \in Session : sess[s].tx = t /\ sess[u].tx = t => s = u

(* A deposit taken by a single submission goes forward only: a completed   *)
(* one stays so, unless the write or the report of that failed, which      *)
(* makes it an error; an error stays one; its hash is never replaced.      *)
SoloForward ==
  \A t \in Tx : Solo(t)' =>
    /\ row[t].status = "completed" =>
         \/ row'[t].status = "completed"
         \/ row'[t].status = "error" /\ faults > 0
    /\ row[t].status = "error" => row'[t].status = "error"
    /\ row[t].hash # NoEnvelope => row'[t].hash = row[t].hash
SoloGoesForward == [][SoloForward]_vars

(* Deposits implement Payout: a submission of the form asks for one, its   *)
(* task pays on the ledger (one envelope may pay several deposits), stores *)
(* the hash and reports it.  However tasks overlap, race for a sequence    *)
(* number or fail, a submission is paid at most once.                      *)
Submissions(t) == {s \in Session : sess[s].tx = t}
EnvelopesOf(t) == {sess[s].env : s \in Submissions(t)}

Asked    == [t \in Tx |-> Cardinality(Submissions(t))]
PaidOut  == [t \in Tx |-> Cardinality(EnvelopesOf(t) \cap paid)]
Recorded == {t \in Tx : row[t].hash # NoEnvelope}
Reported == {r[1] : r \in sent}

P == INSTANCE Payout WITH
       asked <- Asked, paid <- PaidOut, recorded <- Recorded, reported <- Reported

ImplementsPayout == P!Spec

(* While no fault happens, a submitted deposit does not wait for ever,     *)
(* whatever Horizon answers.                                               *)
SubmittedIsResolved ==
  \A t \in Tx : row[t].status = "awaiting_stellar_payment"
               ~> row[t].status \in {"completed", "error"} \/ faults > 0

(* ... and the platform hears how it ended.                                *)
PlatformHears ==
  \A t \in Tx : row[t].status = "awaiting_stellar_payment"
               ~> t \in errors \cup {r[1] : r \in sent} \/ faults > 0

(* interactive.rs:162 tells a second submission "This deposit/withdrawal   *)
(* has already been submitted": a deposit is paid out once.                *)
PaidOnce ==
  \A s, u \in Session :
    sess[s].tx = sess[u].tx /\ {sess[s].env, sess[u].env} \subseteq paid
      => sess[s].env = sess[u].env

(* platform_api.rs:78-79 on the report of a deposit: "our custody layer    *)
(* sent the Stellar asset to the user and Horizon confirmed".  So two      *)
(* deposits that are both reported were sent by two payments.              *)
OwnPayment == \A r, q \in sent : r[2] = q[2] => r[1] = q[1]

(* platform_api.rs:2-5: "every time our custody layer [...] moves money    *)
(* [...] it reports the fact here".                                        *)
PaymentsAreReported ==
  \A s \in Session : sess[s].env \in paid
                    ~> <<sess[s].tx, sess[s].env>> \in sent
=============================================================================
