------------------------------- MODULE Sep31 -------------------------------
(***************************************************************************)
(* SEP-31 receives: an incoming payment that carries a transaction's memo  *)
(* is reported and settled, or parked until the receiver's KYC is complete *)
(* (sep31/worker.rs); PUT /customer completes the KYC and resumes what is  *)
(* parked (sep12.rs); DELETE /customer removes the receiver.               *)
(*                                                                         *)
(* Two kinds of worker run this code and interleave at every `.await`: the *)
(* observer, ONE task that handles payments one after the other, and the   *)
(* PUT calls, each with the resume task it may spawn.  Which payments the  *)
(* stream delivers, and how often, is left open here: it has no cursor.    *)
(*                                                                         *)
(* Faults share one budget, so that what holds without a fault can be      *)
(* stated: a statement refused or its reply lost, a platform error, a      *)
(* client that hangs up, a crash.                                          *)
(***************************************************************************)
EXTENDS Naturals, FiniteSets

CONSTANTS
  Tx,               \* receives, by id
  Memo,             \* the memos drawn for them
  MemoOf,           \* the memo of each receive (two may draw the same)
  Receiver,         \* customer ids
  NoReceiver,       \* a receive created without a receiver
  ReceiverOf,       \* the receiver of each receive
  Field,            \* kyc.rs: the fields a sep31-receiver needs
  Payment,          \* payments to the distribution account, by hash
  PaidMemo,         \* the memo each of them carries
  Put,              \* PUT /customer calls; each is used at most once
  Observer,         \* the observer task
  MaxFaults,        \* bound: how many faults happen
  MaxDeliveries,    \* bound: how many payments the stream delivers
  NoTx, NoPayment

ASSUME Sep31Assumption ==
  /\ MemoOf \in [Tx -> Memo]
  /\ ReceiverOf \in [Tx -> Receiver \cup {NoReceiver}]
  /\ PaidMemo \in [Payment -> Memo]
  /\ MaxFaults \in Nat /\ MaxDeliveries \in Nat
  /\ NoReceiver \notin Receiver
  /\ Observer \notin Put
  /\ IsFiniteSet(Put)
  /\ NoTx \notin Tx
  /\ NoPayment \notin Payment

VARIABLES
  row,        \* sep31_transactions: status and stellar_transaction_id
  cust,       \* customers rows of type sep31-receiver
  work,       \* each worker's program counter and local variables
  payouts,    \* how many (simulated) payouts each receive has had
  received,   \* notify_onchain_funds_received calls the platform applied
  sent,       \* receives notify_offchain_funds_sent was applied for
  verified,   \* history: receivers whose KYC has been complete
  faults, deliveries

db       == <<row, cust, verified>>
outside  == <<payouts, received, sent>>
bounds   == <<faults, deliveries>>
vars     == <<db, work, outside, bounds>>

Worker == Put \cup {Observer}

Status == {"absent", "pending_receiver", "pending_customer_info_update", "completed"}
Label  == {"idle", "matched", "gating",               \* the observer
           "found", "unfound", "spawned", "resuming", \* PUT and its task
           "checking", "settling", "paid", "recorded",
           "ended"}

Row      == [status : Status, hash : Payment \cup {NoPayment}]
Customer == [state : {"unborn", "live", "deleted"}, fields : SUBSET Field]
Task     == [pc : Label, tx : Tx \cup {NoTx}, hash : Payment \cup {NoPayment},
             id : Receiver \cup {NoReceiver}, gives : SUBSET Field,
             nulls : SUBSET Field, typed : BOOLEAN, todo : SUBSET Tx]

TypeOK ==
  /\ row \in [Tx -> Row]
  /\ cust \in [Receiver -> Customer]
  /\ work \in [Worker -> Task]
  /\ payouts \in [Tx -> Nat]
  /\ received \subseteq Tx \X Payment
  /\ sent \subseteq Tx
  /\ verified \subseteq Receiver
  /\ faults \in Nat /\ deliveries \in Nat

Fresh == [pc |-> "idle", tx |-> NoTx, hash |-> NoPayment, id |-> NoReceiver,
          gives |-> {}, nulls |-> {}, typed |-> FALSE, todo |-> {}]

Init ==
  /\ row = [t \in Tx |-> [status |-> "absent", hash |-> NoPayment]]
  /\ cust = [r \in Receiver |-> [state |-> "unborn", fields |-> {}]]
  /\ work = [w \in Worker |-> Fresh]
  /\ payouts = [t \in Tx |-> 0]
  /\ received = {} /\ sent = {} /\ verified = {}
  /\ faults = 0 /\ deliveries = 0

Fault   == faults < MaxFaults /\ faults' = faults + 1
NoFault == UNCHANGED faults

At(w, label)   == work[w].pc = label
Goto(w, label) == work' = [work EXCEPT ![w].pc = label]

(* Where a worker goes when it is done with a receive: the observer to its *)
(* stream, a resume task to the next receive on its list.                  *)
Rest(w) == IF w = Observer THEN "idle" ELSE "resuming"

CompleteOrMissing(r) == cust[r].state = "live" => Field \subseteq cust[r].fields

(* receiver_kyc_complete: a missing customer has provided nothing.         *)
Complete(r) == cust[r].state = "live" /\ Field \subseteq cust[r].fields

----------------------------------------------------------------------------
(* transaction_created for SEP-31.  The PATCH that follows tells the       *)
(* platform the memo; payments here may carry any memo at any time, so     *)
(* they need not wait for it.                                              *)
HandleCreated(t) ==
  /\ row[t].status = "absent"
  /\ row' = [row EXCEPT ![t].status = "pending_receiver"]
  /\ UNCHANGED <<cust, verified, work, outside, bounds>>

(* The observer: find_by_stellar_memo and complete_receive.                *)

MatchesAny(p, t) == MemoOf[t] = PaidMemo[p] /\ row[t].status # "absent"

Matches(p, t) == MemoOf[t] = PaidMemo[p] /\ row[t].status = "pending_receiver"

(* A payment that matches nothing, or whose lookup fails, changes nothing. *)
Deliver(p, t) ==
  /\ At(Observer, "idle")
  /\ deliveries < MaxDeliveries
  /\ Matches(p, t)
  /\ deliveries' = deliveries + 1
  /\ work' = [work EXCEPT ![Observer].pc = "matched", ![Observer].tx = t,
                          ![Observer].hash = p]
  /\ UNCHANGED <<db, outside, faults>>

AfterReceived(t) == IF ReceiverOf[t] = NoReceiver THEN "settling" ELSE "checking"

GoesOnUnheard ==
  LET t == work[Observer].tx IN
  /\ At(Observer, "matched")
  /\ \/ received' = received \cup {<<t, work[Observer].hash>>} /\ NoFault
     \/ received' = received /\ Fault
  /\ Goto(Observer, AfterReceived(t))
  /\ UNCHANGED <<db, payouts, sent, deliveries>>

(* An error ends the handling of this payment; nothing retries it.         *)
NotifyReceived ==
  LET t == work[Observer].tx
      heard == received \cup {<<t, work[Observer].hash>>} IN
  /\ At(Observer, "matched")
  /\ \/ received' = heard /\ Goto(Observer, AfterReceived(t)) /\ NoFault
     \/ received' \in {received, heard} /\ Goto(Observer, "idle") /\ Fault
  /\ UNCHANGED <<db, payouts, sent, deliveries>>

DropsIncomplete(w) ==
  LET r == ReceiverOf[work[w].tx] IN
  /\ At(w, "checking")
  /\ \/ Complete(r) /\ Goto(w, "settling") /\ NoFault
     \/ ~Complete(r) /\ Goto(w, Rest(w)) /\ NoFault
     \/ Goto(w, Rest(w)) /\ Fault
  /\ UNCHANGED <<db, outside, deliveries>>

(* The KYC of the receiver is read here; what follows acts on that answer. *)
CheckKyc(w) ==
  LET r == ReceiverOf[work[w].tx] IN
  /\ At(w, "checking")
  /\ \/ Complete(r) /\ Goto(w, "settling") /\ NoFault
     \/ /\ ~Complete(r)
        /\ Goto(w, IF w = Observer THEN "gating" ELSE "resuming") /\ NoFault
     \/ Goto(w, Rest(w)) /\ Fault
  /\ UNCHANGED <<db, outside, deliveries>>

GatedAsInfoUpdate(t, p) ==
  [row EXCEPT ![t] = [status |-> "pending_info_update", hash |-> p]]

Gated(t, p) == [row EXCEPT ![t] = [status |-> "pending_customer_info_update", hash |-> p]]

(* set_required_info, whatever the KYC is by now.                          *)
SetRequiredInfo ==
  /\ At(Observer, "gating")
  /\ \/ row' = Gated(work[Observer].tx, work[Observer].hash) /\ NoFault
     \/ row' = row /\ Fault
  /\ Goto(Observer, "idle")
  /\ UNCHANGED <<cust, verified, outside, deliveries>>

----------------------------------------------------------------------------
(* settle: reads the row, pays, stores, reports.  The status it read is    *)
(* not looked at.                                                          *)
Payout(w) ==
  /\ At(w, "settling")
  /\ \/ /\ payouts' = [payouts EXCEPT ![work[w].tx] = @ + 1]
        /\ Goto(w, "paid") /\ NoFault
     \/ payouts' = payouts /\ Goto(w, Rest(w)) /\ Fault
  /\ UNCHANGED <<db, received, sent, deliveries>>

Completed(t, p) == [row EXCEPT ![t] = [status |-> "completed", hash |-> p]]

SetCompleted(w) ==
  /\ At(w, "paid")
  /\ \/ row' = Completed(work[w].tx, work[w].hash) /\ Goto(w, "recorded") /\ NoFault
     \/ /\ row' \in {row, Completed(work[w].tx, work[w].hash)}
        /\ Goto(w, Rest(w)) /\ Fault
  /\ UNCHANGED <<cust, verified, outside, deliveries>>

NotifySent(w) ==
  /\ At(w, "recorded")
  /\ \/ sent' = sent \cup {work[w].tx} /\ NoFault
     \/ sent' = sent /\ Fault
  /\ Goto(w, Rest(w))
  /\ UNCHANGED <<db, payouts, received, deliveries>>

----------------------------------------------------------------------------
(* PUT /customer and the resume task.                                      *)

(* By id the row must exist; by identity a sep31-receiver row is found     *)
(* only when the call names that type, so `typed` may be FALSE by id only. *)
PutFinds(w, r, gives, nulls, typed) ==
  /\ At(w, "idle")
  /\ cust[r].state = "live"
  /\ work' = [work EXCEPT ![w] = [@ EXCEPT !.pc = "found", !.id = r, !.gives = gives,
                                           !.nulls = nulls, !.typed = typed]]
  /\ UNCHANGED <<db, outside, bounds>>

(* By an identity that has no row yet.                                     *)
PutFindsNone(w, gives) ==
  /\ At(w, "idle")
  /\ work' = [work EXCEPT ![w] = [@ EXCEPT !.pc = "unfound", !.gives = gives,
                                           !.typed = TRUE]]
  /\ UNCHANGED <<db, outside, bounds>>

(* `fields || $2`: given fields are added, nulls override older values; an *)
(* UPDATE of a row that has been deleted meanwhile changes nothing; an     *)
(* INSERT makes a row under a new id.                                      *)
Written(w, r) ==
  LET merged == (cust[r].fields \ work[w].nulls) \cup work[w].gives IN
  [cust EXCEPT ![r] =
    CASE @.state = "live"    -> [state |-> "live", fields |-> merged]
      [] @.state = "unborn"  -> [state |-> "live", fields |-> work[w].gives]
      [] @.state = "deleted" -> @]

(* The write of upsert, then the spawn for a sep31-receiver.  An error, or *)
(* a client that hangs up, ends the handler before the spawn.              *)
PutWrites(w, r) ==
  /\ \/ At(w, "found") /\ r = work[w].id
     \/ At(w, "unfound") /\ cust[r].state = "unborn"
  /\ \/ /\ cust' = Written(w, r)
        /\ work' = [work EXCEPT ![w].pc = IF work[w].typed THEN "spawned" ELSE "ended",
                                ![w].id = r]
        /\ NoFault
     \/ cust' \in {cust, Written(w, r)} /\ Goto(w, "ended") /\ Fault
  /\ verified' = verified \cup
       {x \in Receiver : cust'[x].state = "live" /\ Field \subseteq cust'[x].fields}
  /\ UNCHANGED <<row, outside, deliveries>>

UnparkedByReceiver(r) ==
  {t \in Tx : ReceiverOf[t] = r /\ row[t].status = "pending_receiver"}

(* find_pending_info_by_receiver.                                          *)
PendingByReceiver(r) ==
  {t \in Tx : ReceiverOf[t] = r /\ row[t].status = "pending_customer_info_update"}

FindPending(w) ==
  /\ At(w, "spawned")
  /\ \/ /\ work' = [work EXCEPT ![w].pc = "resuming",
                                ![w].todo = PendingByReceiver(work[w].id)]
        /\ NoFault
     \/ Goto(w, "ended") /\ Fault
  /\ UNCHANGED <<db, outside, deliveries>>

StaysListed(w, t) ==
  /\ At(w, "resuming")
  /\ t \in work[w].todo
  /\ row[t].hash # NoPayment
  /\ work' = [work EXCEPT ![w].pc = "checking", ![w].tx = t, ![w].hash = row[t].hash]
  /\ UNCHANGED <<db, outside, bounds>>

(* resume_if_ready, for each row on the list in turn: the row is read      *)
(* again, for its hash; its status, which may have changed, is not looked  *)
(* at.                                                                     *)
ResumeIfReady(w, t) ==
  /\ At(w, "resuming")
  /\ t \in work[w].todo
  /\ \/ /\ row[t].hash # NoPayment
        /\ work' = [work EXCEPT ![w].todo = @ \ {t}, ![w].pc = "checking",
                                ![w].tx = t, ![w].hash = row[t].hash]
        /\ NoFault
     \/ /\ (row[t].hash = NoPayment /\ NoFault) \/ Fault
        /\ work' = [work EXCEPT ![w].todo = @ \ {t}]
  /\ UNCHANGED <<db, outside, deliveries>>

ResumeEnds(w) ==
  /\ At(w, "resuming")
  /\ work[w].todo = {}
  /\ Goto(w, "ended")
  /\ UNCHANGED <<db, outside, bounds>>

----------------------------------------------------------------------------
(* DELETE /customer, one statement.                                        *)
DeleteCustomer(r) ==
  /\ cust[r].state = "live"
  /\ cust' = [cust EXCEPT ![r] = [state |-> "deleted", fields |-> {}]]
  /\ UNCHANGED <<row, verified, work, outside, bounds>>

(* The process dies; only the observer starts again.                       *)
Crash ==
  /\ Fault
  /\ work' = [w \in Worker |->
       IF At(w, "idle") THEN work[w]
       ELSE IF w = Observer THEN Fresh ELSE [work[w] EXCEPT !.pc = "ended"]]
  /\ UNCHANGED <<db, outside, deliveries>>

(* What a worker does once it has started.                                 *)
Settle(w) == Payout(w) \/ SetCompleted(w) \/ NotifySent(w)

CompleteReceive == NotifyReceived \/ CheckKyc(Observer) \/ SetRequiredInfo \/ Settle(Observer)

Resume(w) ==
  \/ \E r \in Receiver : PutWrites(w, r)
  \/ FindPending(w)
  \/ \E t \in Tx : ResumeIfReady(w, t)
  \/ CheckKyc(w) \/ Settle(w)
  \/ ResumeEnds(w)

PutCustomer(w) ==
  \E gives \in SUBSET Field :
    \/ \E r \in Receiver, nulls \in SUBSET (Field \ gives), typed \in BOOLEAN :
         PutFinds(w, r, gives, nulls, typed)
    \/ PutFindsNone(w, gives)

Next ==
  \/ \E t \in Tx : HandleCreated(t)
  \/ \E p \in Payment, t \in Tx : Deliver(p, t)
  \/ CompleteReceive
  \/ \E w \in Put : PutCustomer(w)
  \/ \E w \in Put : Resume(w)
  \/ \E r \in Receiver : DeleteCustomer(r)
  \/ Crash

Spec == Init /\ [][Next]_vars

(* tokio runs every ready task and every call returns or breaks.           *)
FairSpec == Spec /\ WF_vars(CompleteReceive) /\ \A w \in Put : WF_vars(Resume(w))

----------------------------------------------------------------------------
(* Properties.                                                             *)

(* The KYC gate.  No receive with a receiver is ever paid out unless that  *)
(* receiver's KYC has been complete in the table at some moment, whichever *)
(* worker pays and whatever is deleted, nulled or re-inserted around it.   *)
KycGate ==
  \A t \in Tx : payouts[t] > 0 /\ ReceiverOf[t] # NoReceiver => ReceiverOf[t] \in verified

(* No payout without a payment: whoever pays t out, the platform has been  *)
(* told of a payment with t's memo before, and the row of a completed or   *)
(* parked receive names such a payment (the hash reaches a resume task     *)
(* through the row only).                                                  *)
BackedByPayment ==
  \A t \in Tx :
    /\ payouts[t] > 0 => \E r \in received : r[1] = t /\ PaidMemo[r[2]] = MemoOf[t]
    /\ row[t].hash # NoPayment =>
         PaidMemo[row[t].hash] = MemoOf[t] /\ <<t, row[t].hash>> \in received

Named(t) == {w \in Put : work[w].id \in {ReceiverOf[t]} \cap Receiver}

Solo(t) == \A w, x \in Named(t) : w = x

(* Where nothing fails, a receive is paid out at most once unless two PUTs *)
(* name its receiver: replayed payments, a PUT beside the observer and a   *)
(* stale list are harmless (the two PUTs are the finding of Sep31Double).  *)
SoloPaidOnce == faults = 0 => \A t \in Tx : Solo(t) => payouts[t] <= 1

(* Where nothing fails, no receive is dropped half-way: a payment that the *)
(* platform was told of has its receive settled or parked, or the observer *)
(* still has it in hand; a completed receive was reported, or is about to  *)
(* be.                                                                     *)
NothingIsForgotten ==
  faults = 0 =>
    /\ \A r \in received :
         \/ row[r[1]].status \in {"pending_customer_info_update", "completed"}
         \/ /\ work[Observer].tx = r[1]
            /\ work[Observer].pc \in {"checking", "gating", "settling", "paid"}
    /\ \A t \in Tx : row[t].status = "completed" =>
         t \in sent \/ \E w \in Worker : At(w, "recorded") /\ work[w].tx = t

(* A receive goes forward only, though payments are replayed, two workers  *)
(* may hold it and every UPDATE is unconditional: parked receives never    *)
(* wait for a payment again, and nothing overwrites a completed one.       *)
Forward ==
  \A t \in Tx :
    /\ row[t].status = "completed" => row'[t] = row[t]
    /\ row[t].status = "pending_customer_info_update" =>
         row'[t].status \in {"pending_customer_info_update", "completed"}
         /\ row'[t].hash = row[t].hash
GoesForward == [][Forward]_vars

(* Which workers hold t, from their KYC check on and until their payout.   *)
Holders(t) == {w \in Worker : work[w].tx = t /\ work[w].pc \in {"checking", "settling"}}

(* A receive that is completed gets no further payout but from a worker    *)
(* that already held it when it was completed: a replayed payment or a     *)
(* later PUT never starts one.                                             *)
OldHolders ==
  \A t \in Tx : row[t].status = "completed" =>
    \A w \in Worker : w \in Holders(t)' => w \in Holders(t) \/ t \in work[w].todo
NoNewHolder == [][OldHolders]_vars

(* Receives implement Payout: every payment the observer matches, and      *)
(* every PUT of the receiver's fields, is good for at most one payout of a *)
(* receive, even though a resume task never looks at the status of what it *)
(* settles and sits on a list that may be stale.                           *)
Asked    == [t \in Tx |-> deliveries + Cardinality(Named(t))]
Recorded == {t \in Tx : row[t].status = "completed"}

P == INSTANCE Payout WITH
       asked <- Asked, paid <- payouts, recorded <- Recorded, reported <- sent

ImplementsPayout == P!Spec

(* While no fault happens a payment that matched is settled or parked, and *)
(* a resume task that starts while its receive is parked and the KYC       *)
(* complete settles it, unless the KYC is withdrawn again meanwhile.       *)
MatchedIsHandled ==
  \A t \in Tx : At(Observer, "matched") /\ work[Observer].tx = t
               ~> \/ row[t].status \in {"pending_customer_info_update", "completed"}
                  \/ faults > 0

ResumeSettles ==
  \A t \in Tx : ReceiverOf[t] # NoReceiver =>
    (/\ row[t].status = "pending_customer_info_update"
     /\ Complete(ReceiverOf[t])
     /\ \E w \in Put : At(w, "spawned") /\ work[w].id = ReceiverOf[t])
    ~> (row[t].status = "completed" \/ ~Complete(ReceiverOf[t]) \/ faults > 0)

(* sep31/worker.rs:131-132 of resume_if_ready: "Re-checks one              *)
(* `pending_customer_info_update` SEP-31 transaction", so one that another *)
(* task has settled by then is not paid again.                             *)
PaidOnce == \A t \in Tx : payouts[t] <= 1

(* sep31/mod.rs:4-5: "the SEP-12 `PUT /customer` callback resuming a       *)
(* KYC-gated transaction once fields are complete".                        *)
CompleteKycSettles ==
  \A t \in Tx : ReceiverOf[t] # NoReceiver =>
    (row[t].status = "pending_customer_info_update" /\ Complete(ReceiverOf[t]))
    ~> (row[t].status = "completed" \/ ~Complete(ReceiverOf[t]))
=============================================================================
