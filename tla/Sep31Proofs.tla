---------------------------- MODULE Sep31Proofs ----------------------------
(***************************************************************************)
(* What holds of Sep31 for every number of receives, receivers, fields,    *)
(* payments, PUT calls, deliveries and faults.                             *)
(***************************************************************************)
EXTENDS Sep31, FiniteSetTheorems, TLAPS

(* The platform was told of payment p for receive t, whose memo it has.    *)
Heard(t, p) == PaidMemo[p] = MemoOf[t] /\ <<t, p>> \in received

(* A receive that has left the observer's reach: PUT calls hold only such. *)
Taken(t) == row[t].status \in {"pending_customer_info_update", "completed"}

(* Whoever pays t out may do so.                                           *)
Cleared(t) == ReceiverOf[t] = NoReceiver \/ ReceiverOf[t] \in verified

(* Where a worker has a receive in hand.                                   *)
Holding == {"matched", "checking", "gating", "settling", "paid"}

(* What the locals of a worker say, given where it stands.                 *)
Local(w) ==
  /\ At(w, "matched") =>
       /\ work[w].tx \in Tx /\ work[w].hash \in Payment
       /\ PaidMemo[work[w].hash] = MemoOf[work[w].tx]
  /\ work[w].pc \in {"checking", "gating", "settling", "paid", "recorded"} =>
       /\ work[w].tx \in Tx /\ work[w].hash \in Payment
       /\ Heard(work[w].tx, work[w].hash)
  /\ work[w].pc \in {"checking", "gating"} => ReceiverOf[work[w].tx] \in Receiver
  /\ At(w, "settling") => Cleared(work[w].tx)
  /\ work[w].pc \in {"paid", "recorded"} => payouts[work[w].tx] > 0
  /\ work[w].pc \in {"found", "spawned"} => work[w].id \in Receiver
  /\ \A t \in work[w].todo : ReceiverOf[t] \in Receiver /\ Taken(t)

(* The observer holds receives that wait for a payment; a PUT call holds   *)
(* those that do not, with the hash of their row.                          *)
Owns(w) ==
  work[w].pc \in Holding =>
    IF w = Observer
    THEN row[work[w].tx].status = "pending_receiver"
    ELSE Taken(work[w].tx) /\ row[work[w].tx].hash = work[w].hash

WorkInv == \A w \in Worker : Local(w) /\ Owns(w)

RowInv ==
  \A t \in Tx :
    /\ row[t].hash # NoPayment => Heard(t, row[t].hash)
    /\ row[t].status = "completed" => payouts[t] > 0 /\ row[t].hash # NoPayment
    /\ payouts[t] > 0 =>
         Cleared(t) /\ \E r \in received : r[1] = t /\ PaidMemo[r[2]] = MemoOf[t]

SentInv == \A t \in sent : payouts[t] > 0

VerifiedInv == \A r \in Receiver : Complete(r) => r \in verified

(* The inductive invariant.                                                *)
IInv == TypeOK /\ WorkInv /\ RowInv /\ SentInv /\ VerifiedInv

----------------------------------------------------------------------------
(* How an action moves one worker.                                         *)
LEMMA WorkTo ==
  ASSUME TypeOK, NEW w \in Worker, NEW v \in Task, work' = [work EXCEPT ![w] = v]
  PROVE  /\ work' \in [Worker -> Task]
         /\ work'[w] = v
         /\ \A u \in Worker \ {w} : work'[u] = work[u]
BY DEF TypeOK

LEMMA GotoTask ==
  ASSUME TypeOK, NEW w \in Worker, NEW l \in Label, Goto(w, l)
  PROVE  /\ work' \in [Worker -> Task]
         /\ work'[w].pc = l
         /\ work'[w].tx = work[w].tx /\ work'[w].hash = work[w].hash
         /\ work'[w].id = work[w].id /\ work'[w].gives = work[w].gives
         /\ work'[w].nulls = work[w].nulls /\ work'[w].typed = work[w].typed
         /\ work'[w].todo = work[w].todo
         /\ \A u \in Worker \ {w} : work'[u] = work[u]
<1>1. work[w] \in Task
  BY DEF TypeOK
<1>2. [work[w] EXCEPT !.pc = l] \in Task
  BY <1>1 DEF Task
<1>3. work' = [work EXCEPT ![w] = [work[w] EXCEPT !.pc = l]]
  BY DEF Goto
<1> QED
  BY <1>1, <1>2, <1>3, WorkTo DEF Task

LEMMA RestLabel == \A w \in Worker : Rest(w) \in {"idle", "resuming"}
BY DEF Rest

LEMMA Workers == Observer \in Worker /\ Put \subseteq Worker /\ Observer \notin Put
BY Sep31Assumption DEF Worker

----------------------------------------------------------------------------
(* What every step leaves standing: what the platform has heard, KYC that  *)
(* was once complete, payouts, and that a taken receive stays taken by the *)
(* same payment.                                                           *)
Keeps ==
  /\ received \subseteq received'
  /\ verified \subseteq verified'
  /\ \A t \in Tx : payouts[t] > 0 => payouts'[t] > 0
  /\ \A t \in Tx : Taken(t) => Taken(t)' /\ row'[t].hash = row[t].hash

(* No receive leaves `pending_receiver`: only the observer has that done.  *)
Waits ==
  \A t \in Tx : row[t].status = "pending_receiver" => row'[t].status = "pending_receiver"

LEMMA LocalStays ==
  ASSUME IInv, Keeps, NEW w \in Worker, work'[w] = work[w]
  PROVE  Local(w)'
<1>1. Local(w) /\ work[w].todo \subseteq Tx
  BY DEF IInv, WorkInv, TypeOK, Task
<1> QED
  BY <1>1 DEF Local, Keeps, At, Heard, Cleared

LEMMA OwnsStays ==
  ASSUME IInv, Keeps, NEW w \in Worker, work'[w] = work[w], w # Observer \/ Waits
  PROVE  Owns(w)'
<1>1. Owns(w) /\ (work[w].pc \in Holding => work[w].tx \in Tx)
  BY DEF IInv, WorkInv, Local, At, Holding
<1> QED
  BY <1>1 DEF Owns, Keeps, Waits

(* An action of worker w disturbs no other worker.                         *)
LEMMA OthersStay ==
  ASSUME IInv, Keeps, NEW w \in Worker, w = Observer \/ Waits,
         \A u \in Worker \ {w} : work'[u] = work[u], Local(w)', Owns(w)'
  PROVE  WorkInv'
BY LocalStays, OwnsStays DEF WorkInv

LEMMA WorkStays ==
  ASSUME IInv, Keeps, Waits, work' = work PROVE WorkInv'
BY LocalStays, OwnsStays DEF WorkInv

LEMMA SameRow == row' = row => Waits
BY DEF Waits

LEMMA RowStays ==
  ASSUME IInv, Keeps, row' = row, payouts' = payouts PROVE RowInv'
BY DEF IInv, RowInv, Keeps, Heard, Cleared

LEMMA RowMoves ==
  ASSUME IInv, NEW t \in Tx, NEW p, NEW status,
         Heard(t, p), p # NoPayment, status = "completed" => payouts[t] > 0,
         row'[t] = row[t] \/ row'[t] = [status |-> status, hash |-> p],
         \A x \in Tx \ {t} : row'[x] = row[x],
         UNCHANGED <<received, verified, payouts>>
  PROVE  RowInv'
<1> SUFFICES ASSUME NEW x \in Tx
             PROVE  /\ row'[x].hash # NoPayment => Heard(x, row'[x].hash)
                    /\ row'[x].status = "completed" =>
                         payouts[x] > 0 /\ row'[x].hash # NoPayment
  BY DEF IInv, RowInv, Heard, Cleared
<1>1. CASE row'[x] = row[x]
  BY <1>1 DEF IInv, RowInv
<1>2. CASE x = t /\ row'[t] = [status |-> status, hash |-> p]
  BY <1>2
<1> QED
  BY <1>1, <1>2

LEMMA SentStays == ASSUME IInv, Keeps, sent' = sent PROVE SentInv'
BY DEF IInv, SentInv, Keeps, TypeOK

LEMMA VerifiedStays == ASSUME IInv, Keeps, cust' = cust PROVE VerifiedInv'
BY DEF IInv, VerifiedInv, Keeps, Complete

----------------------------------------------------------------------------
(* The initial states, and one lemma per action.                           *)
LEMMA InitIInv == Init => IInv
<1> SUFFICES ASSUME Init PROVE IInv
  OBVIOUS
<1> USE Sep31Assumption DEF Init
<1>1. Fresh \in Task
  BY DEF Fresh, Task, Label
<1>2. TypeOK
  BY <1>1 DEF TypeOK, Row, Status, Customer
<1>3. WorkInv
  BY DEF WorkInv, Local, Owns, Holding, At, Fresh
<1>4. RowInv /\ SentInv /\ VerifiedInv
  BY DEF RowInv, SentInv, VerifiedInv, Complete
<1> QED
  BY <1>2, <1>3, <1>4 DEF IInv

LEMMA HandleCreatedStep ==
  ASSUME IInv, NEW t \in Tx, HandleCreated(t) PROVE IInv'
<1>1. /\ row' = [row EXCEPT ![t].status = "pending_receiver"] /\ row[t].status = "absent"
      /\ UNCHANGED <<cust, verified, work, payouts, received, sent, deliveries>>
      /\ faults' \in {faults, faults + 1}
  BY DEF Fault, NoFault, HandleCreated, outside, bounds
<1>2. row' \in [Tx -> Row]
  <2>1. [row[t] EXCEPT !.status = "pending_receiver"] \in Row
    BY DEF IInv, TypeOK, Row, Status
  <2>2. row' = [row EXCEPT ![t] = [row[t] EXCEPT !.status = "pending_receiver"]]
    BY <1>1
  <2> QED
    BY <2>1, <2>2 DEF IInv, TypeOK
<1>3. /\ \A x \in Tx : row'[x].hash = row[x].hash
      /\ \A x \in Tx \ {t} : row'[x] = row[x]
      /\ row'[t].status = "pending_receiver"
  BY <1>1 DEF IInv, TypeOK, Row
<1>4. Keeps /\ Waits
  BY <1>1, <1>3 DEF Keeps, Waits, Taken
<1>5. TypeOK'
  BY <1>1, <1>2 DEF IInv, TypeOK
<1>6. RowInv'
  BY <1>1, <1>3 DEF IInv, RowInv, Heard, Cleared
<1> QED
  BY <1>1, <1>4, <1>5, <1>6, WorkStays, SentStays, VerifiedStays DEF IInv

LEMMA DeliverStep ==
  ASSUME IInv, NEW p \in Payment, NEW t \in Tx, Deliver(p, t) PROVE IInv'
<1> DEFINE v == [work[Observer] EXCEPT !.pc = "matched", !.tx = t, !.hash = p]
<1>1. /\ UNCHANGED <<row, cust, verified, payouts, received, sent>>
      /\ faults' \in {faults, faults + 1}
      /\ deliveries' = deliveries + 1 /\ Matches(p, t)
  BY DEF Fault, NoFault, Deliver, db, outside
<1>2. v \in Task /\ v.pc = "matched" /\ v.tx = t /\ v.hash = p
      /\ v.todo = work[Observer].todo
  BY Workers DEF IInv, TypeOK, Task, Label
<1>3. work' = [work EXCEPT ![Observer] = v]
  BY DEF Deliver
<1>4. /\ work' \in [Worker -> Task] /\ work'[Observer] = v
      /\ \A u \in Worker \ {Observer} : work'[u] = work[u]
  BY <1>2, <1>3, WorkTo, Workers DEF IInv
<1>5. Keeps
  BY <1>1 DEF Keeps, Taken
<1>6. TypeOK'
  BY <1>1, <1>4 DEF IInv, TypeOK
<1>7. Local(Observer)' /\ Owns(Observer)'
  BY <1>1, <1>2, <1>4, Workers DEF IInv, WorkInv, Local, Owns, Holding, At, Matches, Taken
<1> QED
  BY <1>1, <1>4, <1>5, <1>6, <1>7, Workers, OthersStay, RowStays, SentStays, VerifiedStays
  DEF IInv

(* Where a worker goes, its locals unchanged: what is left to show.        *)
LEMMA MovesOn ==
  ASSUME IInv, Keeps, NEW w \in Worker, NEW l \in Label, Goto(w, l),
         row' = row, Local(w)', l \in Holding => work[w].pc \in Holding
  PROVE  work' \in [Worker -> Task] /\ WorkInv'
<1>1. /\ work' \in [Worker -> Task] /\ work'[w].pc = l
      /\ work'[w].tx = work[w].tx /\ work'[w].hash = work[w].hash
      /\ \A u \in Worker \ {w} : work'[u] = work[u]
  BY GotoTask DEF IInv
<1>2. Owns(w)'
  BY <1>1 DEF IInv, WorkInv, Owns, Taken
<1> QED
  BY <1>1, <1>2, OthersStay, SameRow

LEMMA NotifyReceivedStep == ASSUME IInv, NotifyReceived PROVE IInv'
<1> DEFINE w == Observer
           t == work[w].tx
           p == work[w].hash
<1>1. PICK l \in {"settling", "checking", "idle"} :
        /\ Goto(w, l)
        /\ l \in {"settling", "checking"} =>
             received' = received \cup {<<t, p>>} /\ l = AfterReceived(t)
  BY DEF NotifyReceived, AfterReceived
<1>2. /\ At(w, "matched") /\ received' \in {received, received \cup {<<t, p>>}}
      /\ UNCHANGED <<row, cust, verified, payouts, sent, deliveries>>
      /\ faults' \in {faults, faults + 1}
  BY DEF Fault, NoFault, NotifyReceived, db, bounds
<1>3. w \in Worker /\ t \in Tx /\ p \in Payment /\ PaidMemo[p] = MemoOf[t]
  BY <1>2, Workers DEF IInv, WorkInv, Local
<1>4. /\ work' \in [Worker -> Task] /\ work'[w].pc = l
      /\ work'[w].tx = t /\ work'[w].hash = p /\ work'[w].todo = work[w].todo
  BY <1>1, <1>3, GotoTask DEF IInv, Label
<1>5. Keeps
  BY <1>2 DEF Keeps, Taken
<1>6. Local(w)'
  <2>1. ReceiverOf[t] \in Receiver \cup {NoReceiver}
    BY <1>3, Sep31Assumption
  <2>2. \A x \in work[w].todo : ReceiverOf[x] \in Receiver /\ Taken(x)
    BY <1>3 DEF IInv, WorkInv, Local
  <2>3. l \in {"settling", "checking"} => <<t, p>> \in received'
    BY <1>1
  <2> QED
    BY <1>1, <1>2, <1>3, <1>4, <2>1, <2>2, <2>3
    DEF Local, At, Heard, Cleared, Taken, AfterReceived
<1>7. WorkInv'
  BY <1>1, <1>2, <1>3, <1>5, <1>6, MovesOn DEF At, Holding, Label
<1>8. TypeOK'
  BY <1>2, <1>3, <1>4 DEF IInv, TypeOK
<1> QED
  BY <1>2, <1>5, <1>7, <1>8, RowStays, SentStays, VerifiedStays DEF IInv

LEMMA CheckKycStep ==
  ASSUME IInv, NEW w \in Worker, CheckKyc(w) PROVE IInv'
<1> DEFINE t == work[w].tx
<1>1. PICK l \in {"settling", "gating", "idle", "resuming"} :
        Goto(w, l) /\ (l = "settling" => Complete(ReceiverOf[t]))
  BY RestLabel DEF CheckKyc
<1>2. /\ At(w, "checking")
      /\ UNCHANGED <<row, cust, verified, payouts, received, sent, deliveries>>
      /\ faults' \in {faults, faults + 1}
  BY DEF Fault, NoFault, CheckKyc, db, outside, bounds
<1>3. /\ t \in Tx /\ work[w].hash \in Payment /\ Heard(t, work[w].hash)
      /\ ReceiverOf[t] \in Receiver
      /\ \A x \in work[w].todo : ReceiverOf[x] \in Receiver /\ Taken(x)
  BY <1>2 DEF IInv, WorkInv, Local, At
<1>4. /\ work' \in [Worker -> Task] /\ work'[w].pc = l
      /\ work'[w].tx = t /\ work'[w].hash = work[w].hash /\ work'[w].todo = work[w].todo
  BY <1>1, GotoTask DEF IInv, Label
<1>5. Keeps
  BY <1>2 DEF Keeps, Taken
<1>6. l = "settling" => Cleared(t)
  BY <1>1, <1>3 DEF IInv, VerifiedInv, Cleared
<1>7. Local(w)'
  BY <1>2, <1>3, <1>4, <1>6 DEF Local, At, Heard, Cleared, Taken
<1>8. WorkInv'
  BY <1>1, <1>2, <1>5, <1>7, MovesOn DEF At, Holding, Label
<1>9. TypeOK'
  BY <1>2, <1>4 DEF IInv, TypeOK
<1> QED
  BY <1>2, <1>5, <1>8, <1>9, RowStays, SentStays, VerifiedStays DEF IInv

LEMMA SetRequiredInfoStep == ASSUME IInv, SetRequiredInfo PROVE IInv'
<1> DEFINE w == Observer
           t == work[w].tx
           p == work[w].hash
<1>1. /\ At(w, "gating") /\ Goto(w, "idle") /\ row' \in {row, Gated(t, p)}
      /\ UNCHANGED <<cust, verified, payouts, received, sent, deliveries>>
      /\ faults' \in {faults, faults + 1}
  BY DEF Fault, NoFault, SetRequiredInfo, outside, bounds
<1>2. /\ w \in Worker /\ t \in Tx /\ p \in Payment /\ Heard(t, p)
      /\ row[t].status = "pending_receiver"
      /\ \A x \in work[w].todo : ReceiverOf[x] \in Receiver /\ Taken(x)
  BY <1>1, Workers DEF IInv, WorkInv, Local, Owns, Holding, At
<1>3. /\ work' \in [Worker -> Task] /\ work'[w].pc = "idle"
      /\ work'[w].todo = work[w].todo
      /\ \A u \in Worker \ {w} : work'[u] = work[u]
  BY <1>1, <1>2, GotoTask DEF IInv, Label
<1>4. /\ row' \in [Tx -> Row]
      /\ \A x \in Tx \ {t} : row'[x] = row[x]
      /\ row'[t] = row[t] \/ row'[t] = [status |-> "pending_customer_info_update", hash |-> p]
  <2>1. [status |-> "pending_customer_info_update", hash |-> p] \in Row
    BY <1>2 DEF Row, Status
  <2> QED
    BY <1>1, <1>2, <2>1 DEF IInv, TypeOK, Gated
<1>5. Keeps
  BY <1>1, <1>2, <1>4 DEF Keeps, Taken
<1>6. TypeOK'
  BY <1>1, <1>3, <1>4 DEF IInv, TypeOK
<1>7. Local(w)' /\ Owns(w)'
  <2>1. work[w].todo \subseteq Tx
    BY <1>2 DEF IInv, TypeOK, Task
  <2> QED
    BY <1>2, <1>3, <1>5, <2>1 DEF Local, Owns, Holding, At, Keeps
<1>8. WorkInv'
  BY <1>2, <1>3, <1>5, <1>7, OthersStay
<1>9. RowInv'
  <2>1. p # NoPayment
    BY <1>2, Sep31Assumption
  <2> DEFINE status == "pending_customer_info_update"
  <2>2. /\ Heard(t, p) /\ (status = "completed" => payouts[t] > 0)
        /\ row'[t] = row[t] \/ row'[t] = [status |-> status, hash |-> p]
        /\ \A x \in Tx \ {t} : row'[x] = row[x]
        /\ UNCHANGED <<received, verified, payouts>>
    BY <1>1, <1>2, <1>4
  <2> HIDE DEF status
  <2> QED
    BY <1>2, <2>1, <2>2, RowMoves
<1> QED
  BY <1>1, <1>5, <1>6, <1>8, <1>9, SentStays, VerifiedStays DEF IInv

LEMMA PayoutStep ==
  ASSUME IInv, NEW w \in Worker, Payout(w) PROVE IInv'
<1> DEFINE t == work[w].tx
           p == work[w].hash
<1>1. PICK l \in {"paid", "idle", "resuming"} :
        /\ Goto(w, l)
        /\ l = "paid" => payouts' = [payouts EXCEPT ![t] = @ + 1]
        /\ l # "paid" => payouts' = payouts
  BY RestLabel DEF Payout
<1>2. /\ At(w, "settling")
      /\ UNCHANGED <<row, cust, verified, received, sent, deliveries>>
      /\ faults' \in {faults, faults + 1}
  BY DEF Fault, NoFault, Payout, db, bounds
<1>3. /\ t \in Tx /\ p \in Payment /\ Heard(t, p) /\ Cleared(t)
      /\ \A x \in work[w].todo : ReceiverOf[x] \in Receiver /\ Taken(x)
  BY <1>2 DEF IInv, WorkInv, Local, At
<1>4. /\ work' \in [Worker -> Task] /\ work'[w].pc = l
      /\ work'[w].tx = t /\ work'[w].hash = p /\ work'[w].todo = work[w].todo
  BY <1>1, GotoTask DEF IInv, Label
<1>5. /\ payouts' \in [Tx -> Nat]
      /\ \A x \in Tx : payouts[x] > 0 => payouts'[x] > 0
      /\ \A x \in Tx \ {t} : payouts'[x] = payouts[x]
      /\ l = "paid" => payouts'[t] > 0
  BY <1>1, <1>3 DEF IInv, TypeOK
<1>6. Keeps
  BY <1>2, <1>5 DEF Keeps, Taken
<1>7. Local(w)'
  BY <1>2, <1>3, <1>4, <1>5 DEF Local, At, Heard, Cleared, Taken
<1>8. WorkInv'
  BY <1>1, <1>2, <1>6, <1>7, MovesOn DEF At, Holding, Label
<1>9. TypeOK'
  BY <1>2, <1>4, <1>5 DEF IInv, TypeOK
<1>10. RowInv'
  <2>1. <<t, p>> \in received /\ PaidMemo[p] = MemoOf[t]
    BY <1>3 DEF Heard
  <2>2. \E r \in received : r[1] = t /\ PaidMemo[r[2]] = MemoOf[t]
    BY <2>1
  <2> QED
    BY <1>2, <1>3, <1>5, <2>2 DEF IInv, RowInv, Heard, Cleared
<1> QED
  BY <1>2, <1>6, <1>8, <1>9, <1>10, SentStays, VerifiedStays DEF IInv

LEMMA SetCompletedStep ==
  ASSUME IInv, NEW w \in Worker, SetCompleted(w) PROVE IInv'
<1> DEFINE t == work[w].tx
           p == work[w].hash
<1>1. PICK l \in {"recorded", "idle", "resuming"} : Goto(w, l)
  BY RestLabel DEF SetCompleted
<1>2. /\ At(w, "paid") /\ row' \in {row, Completed(t, p)}
      /\ UNCHANGED <<cust, verified, payouts, received, sent, deliveries>>
      /\ faults' \in {faults, faults + 1}
  BY DEF Fault, NoFault, SetCompleted, outside, bounds
<1>3. /\ t \in Tx /\ p \in Payment /\ Heard(t, p) /\ payouts[t] > 0
      /\ \A x \in work[w].todo : ReceiverOf[x] \in Receiver /\ Taken(x)
      /\ IF w = Observer THEN row[t].status = "pending_receiver"
         ELSE Taken(t) /\ row[t].hash = p
  BY <1>2 DEF IInv, WorkInv, Local, Owns, Holding, At
<1>4. /\ work' \in [Worker -> Task] /\ work'[w].pc = l
      /\ work'[w].tx = t /\ work'[w].hash = p /\ work'[w].todo = work[w].todo
      /\ \A u \in Worker \ {w} : work'[u] = work[u]
  BY <1>1, GotoTask DEF IInv, Label
<1>5. /\ row' \in [Tx -> Row]
      /\ \A x \in Tx \ {t} : row'[x] = row[x]
      /\ row'[t] = row[t] \/ row'[t] = [status |-> "completed", hash |-> p]
  <2>1. [status |-> "completed", hash |-> p] \in Row
    BY <1>3 DEF Row, Status
  <2> QED
    BY <1>2, <1>3, <2>1 DEF IInv, TypeOK, Completed
<1>6. Keeps
  BY <1>2, <1>3, <1>5 DEF Keeps, Taken
<1>7. w = Observer \/ Waits
  BY <1>3, <1>5 DEF Waits, Taken
<1>8. TypeOK'
  BY <1>2, <1>4, <1>5 DEF IInv, TypeOK
<1>9. Local(w)' /\ Owns(w)'
  <2>1. work[w].todo \subseteq Tx
    BY DEF IInv, TypeOK, Task
  <2> QED
    BY <1>2, <1>3, <1>4, <1>6, <2>1 DEF Local, Owns, Holding, At, Keeps, Heard
<1>10. WorkInv'
  BY <1>4, <1>6, <1>7, <1>9, OthersStay
<1>11. RowInv'
  BY <1>2, <1>3, <1>5, RowMoves, Sep31Assumption DEF IInv
<1> QED
  BY <1>2, <1>6, <1>8, <1>10, <1>11, SentStays, VerifiedStays DEF IInv

LEMMA NotifySentStep ==
  ASSUME IInv, NEW w \in Worker, NotifySent(w) PROVE IInv'
<1> DEFINE t == work[w].tx
<1>1. PICK l \in {"idle", "resuming"} : Goto(w, l)
  BY RestLabel DEF NotifySent
<1>2. /\ At(w, "recorded") /\ sent' \in {sent, sent \cup {t}}
      /\ UNCHANGED <<row, cust, verified, payouts, received, deliveries>>
      /\ faults' \in {faults, faults + 1}
  BY DEF Fault, NoFault, NotifySent, db, bounds
<1>3. /\ t \in Tx /\ payouts[t] > 0
      /\ \A x \in work[w].todo : ReceiverOf[x] \in Receiver /\ Taken(x)
  BY <1>2 DEF IInv, WorkInv, Local, At
<1>4. work' \in [Worker -> Task] /\ work'[w].pc = l /\ work'[w].todo = work[w].todo
  BY <1>1, GotoTask DEF IInv, Label
<1>5. Keeps
  BY <1>2 DEF Keeps, Taken
<1>6. Local(w)'
  BY <1>2, <1>3, <1>4 DEF Local, At, Taken
<1>7. WorkInv'
  BY <1>1, <1>2, <1>5, <1>6, MovesOn DEF Holding, Label
<1>8. TypeOK'
  BY <1>2, <1>3, <1>4 DEF IInv, TypeOK
<1>9. SentInv'
  BY <1>2, <1>3 DEF IInv, SentInv
<1> QED
  BY <1>2, <1>5, <1>7, <1>8, <1>9, RowStays, VerifiedStays DEF IInv

(* A PUT call that takes new locals: what is left to show.                 *)
LEMMA PutMoves ==
  ASSUME IInv, Keeps, NEW w \in Put, NEW v \in Task, row' = row,
         work' = [work EXCEPT ![w] = v], Local(w)', Owns(w)'
  PROVE  work' \in [Worker -> Task] /\ WorkInv'
<1>1. w \in Worker
  BY Workers
<1> QED
  BY <1>1, WorkTo, OthersStay, SameRow DEF IInv

LEMMA PutFindsStep ==
  ASSUME IInv, NEW w \in Put, NEW r \in Receiver, NEW gives \in SUBSET Field,
         NEW nulls \in SUBSET (Field \ gives), NEW typed \in BOOLEAN,
         PutFinds(w, r, gives, nulls, typed)
  PROVE  IInv'
<1> DEFINE v == [work[w] EXCEPT !.pc = "found", !.id = r, !.gives = gives,
                                !.nulls = nulls, !.typed = typed]
<1>1. /\ work' = [work EXCEPT ![w] = v]
      /\ UNCHANGED <<row, cust, verified, payouts, received, sent, deliveries>>
      /\ faults' \in {faults, faults + 1}
  BY DEF Fault, NoFault, PutFinds, db, outside, bounds
<1>2. w \in Worker /\ work[w] \in Task
  BY Workers DEF IInv, TypeOK
<1>3. v \in Task /\ v.pc = "found" /\ v.id = r /\ v.todo = work[w].todo
  BY <1>2 DEF Task, Label
<1>4. work'[w] = v
  BY <1>1, <1>2, <1>3, WorkTo DEF IInv
<1>5. Keeps
  BY <1>1 DEF Keeps, Taken
<1>6. Local(w)' /\ Owns(w)'
  BY <1>1, <1>2, <1>3, <1>4 DEF IInv, WorkInv, Local, Owns, Holding, At, Taken
<1>7. work' \in [Worker -> Task] /\ WorkInv'
  BY <1>1, <1>3, <1>5, <1>6, PutMoves
<1>8. TypeOK'
  BY <1>1, <1>7 DEF IInv, TypeOK
<1> QED
  BY <1>1, <1>5, <1>7, <1>8, RowStays, SentStays, VerifiedStays DEF IInv

LEMMA PutFindsNoneStep ==
  ASSUME IInv, NEW w \in Put, NEW gives \in SUBSET Field, PutFindsNone(w, gives)
  PROVE  IInv'
<1> DEFINE v == [work[w] EXCEPT !.pc = "unfound", !.gives = gives, !.typed = TRUE]
<1>1. /\ work' = [work EXCEPT ![w] = v]
      /\ UNCHANGED <<row, cust, verified, payouts, received, sent, deliveries>>
      /\ faults' \in {faults, faults + 1}
  BY DEF Fault, NoFault, PutFindsNone, db, outside, bounds
<1>2. w \in Worker /\ work[w] \in Task
  BY Workers DEF IInv, TypeOK
<1>3. v \in Task /\ v.pc = "unfound" /\ v.todo = work[w].todo
  BY <1>2 DEF Task, Label
<1>4. work'[w] = v
  BY <1>1, <1>2, <1>3, WorkTo DEF IInv
<1>5. Keeps
  BY <1>1 DEF Keeps, Taken
<1>6. Local(w)' /\ Owns(w)'
  BY <1>1, <1>2, <1>3, <1>4 DEF IInv, WorkInv, Local, Owns, Holding, At, Taken
<1>7. work' \in [Worker -> Task] /\ WorkInv'
  BY <1>1, <1>3, <1>5, <1>6, PutMoves
<1>8. TypeOK'
  BY <1>1, <1>7 DEF IInv, TypeOK
<1> QED
  BY <1>1, <1>5, <1>7, <1>8, RowStays, SentStays, VerifiedStays DEF IInv

LEMMA WrittenType ==
  ASSUME TypeOK, NEW w \in Worker, NEW r \in Receiver
  PROVE  Written(w, r) \in [Receiver -> Customer]
<1>1. cust[r] \in Customer /\ work[w] \in Task
  BY DEF TypeOK
<1>2. CASE cust[r].state = "live"
  <2> DEFINE merged == (cust[r].fields \ work[w].nulls) \cup work[w].gives
  <2>1. [state |-> "live", fields |-> merged] \in Customer
    BY <1>1 DEF Customer, Task
  <2>2. Written(w, r) = [cust EXCEPT ![r] = [state |-> "live", fields |-> merged]]
    BY <1>2 DEF Written, TypeOK
  <2> QED
    BY <2>1, <2>2 DEF TypeOK
<1>3. CASE cust[r].state = "unborn"
  <2>1. [state |-> "live", fields |-> work[w].gives] \in Customer
    BY <1>1 DEF Customer, Task
  <2>2. Written(w, r) = [cust EXCEPT ![r] = [state |-> "live", fields |-> work[w].gives]]
    BY <1>3 DEF Written, TypeOK
  <2> QED
    BY <2>1, <2>2 DEF TypeOK
<1>4. CASE cust[r].state = "deleted"
  <2>1. Written(w, r) = [cust EXCEPT ![r] = cust[r]]
    BY <1>4 DEF Written, TypeOK
  <2> QED
    BY <2>1 DEF TypeOK
<1> QED
  BY <1>1, <1>2, <1>3, <1>4 DEF Customer

LEMMA PutWritesStep ==
  ASSUME IInv, NEW w \in Put, NEW r \in Receiver, PutWrites(w, r) PROVE IInv'
<1>1. PICK l \in {"spawned", "ended"}, i \in {r, work[w].id} :
        /\ work' = [work EXCEPT ![w] = [work[w] EXCEPT !.pc = l, !.id = i]]
        /\ l = "spawned" => i = r
  <2>1. work[w] \in Task
    BY Workers DEF IInv, TypeOK
  <2>2. CASE work' = [work EXCEPT ![w].pc = IF work[w].typed THEN "spawned" ELSE "ended",
                                  ![w].id = r]
    BY <2>1, <2>2 DEF IInv, TypeOK
  <2>3. CASE Goto(w, "ended")
    BY <2>1, <2>3 DEF Goto, Task, IInv, TypeOK
  <2> QED
    BY <2>2, <2>3 DEF PutWrites
<1> DEFINE v == [work[w] EXCEPT !.pc = l, !.id = i]
<1>2. /\ cust' \in {cust, Written(w, r)}
      /\ verified' = verified \cup
           {x \in Receiver : cust'[x].state = "live" /\ Field \subseteq cust'[x].fields}
      /\ UNCHANGED <<row, payouts, received, sent, deliveries>>
      /\ faults' \in {faults, faults + 1}
  BY DEF Fault, NoFault, PutWrites, outside, bounds
<1>3. w \in Worker /\ work[w] \in Task
  BY Workers DEF IInv, TypeOK
<1>4. v \in Task /\ v.pc = l /\ v.id = i /\ v.todo = work[w].todo
  BY <1>3 DEF Task, Label
<1>5. work'[w] = v
  BY <1>1, <1>3, <1>4, WorkTo DEF IInv
<1>6. Keeps
  BY <1>2 DEF Keeps, Taken
<1>7. Local(w)' /\ Owns(w)'
  BY <1>1, <1>2, <1>3, <1>4, <1>5 DEF IInv, WorkInv, Local, Owns, Holding, At, Taken
<1>8. work' \in [Worker -> Task] /\ WorkInv'
  BY <1>1, <1>2, <1>4, <1>6, <1>7, PutMoves
<1>9. TypeOK'
  <2>1. cust' \in [Receiver -> Customer]
    BY <1>2, <1>3, WrittenType DEF IInv, TypeOK
  <2>2. verified' \subseteq Receiver
    BY <1>2 DEF IInv, TypeOK
  <2> QED
    BY <1>2, <1>8, <2>1, <2>2 DEF IInv, TypeOK
<1>10. VerifiedInv'
  BY <1>2 DEF VerifiedInv, Complete
<1> QED
  BY <1>2, <1>6, <1>8, <1>9, <1>10, RowStays, SentStays DEF IInv

LEMMA FindPendingStep ==
  ASSUME IInv, NEW w \in Put, FindPending(w) PROVE IInv'
<1>1. /\ UNCHANGED <<row, cust, verified, payouts, received, sent, deliveries>>
      /\ faults' \in {faults, faults + 1}
      /\ At(w, "spawned")
  BY DEF Fault, NoFault, FindPending, db, outside, bounds
<1>2. w \in Worker /\ work[w] \in Task /\ work[w].id \in Receiver
  BY <1>1, Workers DEF IInv, TypeOK, WorkInv, Local, At
<1>3. PICK l \in {"resuming", "ended"}, todo \in {work[w].todo, PendingByReceiver(work[w].id)} :
        work' = [work EXCEPT ![w] = [work[w] EXCEPT !.pc = l, !.todo = todo]]
  BY <1>2 DEF FindPending, Goto, IInv, TypeOK, Task
<1> DEFINE v == [work[w] EXCEPT !.pc = l, !.todo = todo]
<1>4. \A t \in PendingByReceiver(work[w].id) :
        t \in Tx /\ ReceiverOf[t] \in Receiver /\ Taken(t)
  BY <1>2 DEF PendingByReceiver, Taken
<1>5. \A t \in todo : t \in Tx /\ ReceiverOf[t] \in Receiver /\ Taken(t)
  BY <1>2, <1>4 DEF IInv, WorkInv, Local, Task
<1>6. v \in Task /\ v.pc = l /\ v.todo = todo
  BY <1>2, <1>5 DEF Task, Label
<1>7. work'[w] = v
  BY <1>2, <1>3, <1>6, WorkTo DEF IInv
<1>8. Keeps
  BY <1>1 DEF Keeps, Taken
<1>9. Local(w)' /\ Owns(w)'
  BY <1>1, <1>5, <1>6, <1>7 DEF Local, Owns, Holding, At, Taken
<1>10. work' \in [Worker -> Task] /\ WorkInv'
  BY <1>1, <1>3, <1>6, <1>8, <1>9, PutMoves
<1>11. TypeOK'
  BY <1>1, <1>10 DEF IInv, TypeOK
<1> QED
  BY <1>1, <1>8, <1>10, <1>11, RowStays, SentStays, VerifiedStays DEF IInv

LEMMA ResumeIfReadyStep ==
  ASSUME IInv, NEW w \in Put, NEW t \in Tx, ResumeIfReady(w, t) PROVE IInv'
<1>1. /\ UNCHANGED <<row, cust, verified, payouts, received, sent, deliveries>>
      /\ faults' \in {faults, faults + 1}
      /\ At(w, "resuming") /\ t \in work[w].todo
  BY DEF Fault, NoFault, ResumeIfReady, db, outside, bounds
<1>2. /\ w \in Worker /\ work[w] \in Task /\ row[t] \in Row
      /\ \A x \in work[w].todo : ReceiverOf[x] \in Receiver /\ Taken(x)
  BY Workers DEF IInv, TypeOK, WorkInv, Local
<1>3. Keeps
  BY <1>1 DEF Keeps, Taken
<1>4. PICK v \in Task :
        /\ work' = [work EXCEPT ![w] = v]
        /\ v.todo \subseteq work[w].todo
        /\ \/ v.pc = "resuming"
           \/ /\ v.pc = "checking" /\ v.tx = t /\ v.hash = row[t].hash
              /\ row[t].hash # NoPayment
  <2>1. CASE /\ row[t].hash # NoPayment
             /\ work' = [work EXCEPT ![w].todo = @ \ {t}, ![w].pc = "checking",
                                     ![w].tx = t, ![w].hash = row[t].hash]
    <3> DEFINE v == [work[w] EXCEPT !.todo = @ \ {t}, !.pc = "checking",
                                    !.tx = t, !.hash = row[t].hash]
    <3>1. v \in Task /\ v.todo \subseteq work[w].todo
      BY <1>2 DEF Task, Label, Row
    <3>2. v.pc = "checking" /\ v.tx = t /\ v.hash = row[t].hash
      BY <1>2 DEF Task
    <3>3. work' = [work EXCEPT ![w] = v]
      BY <1>2, <2>1 DEF IInv, TypeOK
    <3> QED
      BY <2>1, <3>1, <3>2, <3>3
  <2>2. CASE work' = [work EXCEPT ![w].todo = @ \ {t}]
    <3> DEFINE v == [work[w] EXCEPT !.todo = @ \ {t}]
    <3>1. v \in Task /\ v.todo \subseteq work[w].todo /\ v.pc = "resuming"
      BY <1>1, <1>2 DEF Task, At
    <3>2. work' = [work EXCEPT ![w] = v]
      BY <1>2, <2>2 DEF IInv, TypeOK
    <3> QED
      BY <3>1, <3>2
  <2> QED
    BY <2>1, <2>2 DEF ResumeIfReady
<1>5. work'[w] = v
  BY <1>2, <1>4, WorkTo DEF IInv
<1>6. row[t].hash # NoPayment => row[t].hash \in Payment /\ Heard(t, row[t].hash)
  BY <1>2 DEF IInv, RowInv, Row
<1>7. Local(w)' /\ Owns(w)'
  BY <1>1, <1>2, <1>4, <1>5, <1>6, Workers
  DEF Local, Owns, Holding, At, Taken, Heard
<1>8. work' \in [Worker -> Task] /\ WorkInv'
  BY <1>1, <1>3, <1>4, <1>7, PutMoves
<1>9. TypeOK'
  BY <1>1, <1>8 DEF IInv, TypeOK
<1> QED
  BY <1>1, <1>3, <1>8, <1>9, RowStays, SentStays, VerifiedStays DEF IInv

LEMMA ResumeEndsStep ==
  ASSUME IInv, NEW w \in Put, ResumeEnds(w) PROVE IInv'
<1>1. /\ UNCHANGED <<row, cust, verified, payouts, received, sent, deliveries>>
      /\ faults' \in {faults, faults + 1}
      /\ Goto(w, "ended") /\ w \in Worker
  BY Workers DEF Fault, NoFault, ResumeEnds, db, outside, bounds
<1>2. work'[w].pc = "ended" /\ work'[w].todo = work[w].todo
  BY <1>1, GotoTask DEF IInv, Label
<1>3. Keeps
  BY <1>1 DEF Keeps, Taken
<1>4. Local(w)'
  BY <1>1, <1>2 DEF IInv, WorkInv, Local, At, Taken
<1>5. work' \in [Worker -> Task] /\ WorkInv'
  BY <1>1, <1>3, <1>4, MovesOn DEF Holding, Label
<1>6. TypeOK'
  BY <1>1, <1>5 DEF IInv, TypeOK
<1> QED
  BY <1>1, <1>3, <1>5, <1>6, RowStays, SentStays, VerifiedStays DEF IInv

LEMMA DeleteCustomerStep ==
  ASSUME IInv, NEW r \in Receiver, DeleteCustomer(r) PROVE IInv'
<1>1. /\ cust' = [cust EXCEPT ![r] = [state |-> "deleted", fields |-> {}]]
      /\ UNCHANGED <<row, verified, work, payouts, received, sent, deliveries>>
      /\ faults' \in {faults, faults + 1}
  BY DEF Fault, NoFault, DeleteCustomer, outside, bounds
<1>2. Keeps /\ Waits
  BY <1>1 DEF Keeps, Waits, Taken
<1>3. TypeOK'
  <2>1. [state |-> "deleted", fields |-> {}] \in Customer
    BY DEF Customer
  <2> QED
    BY <1>1, <2>1 DEF IInv, TypeOK
<1>4. VerifiedInv'
  BY <1>1 DEF IInv, TypeOK, VerifiedInv, Complete
<1> QED
  BY <1>1, <1>2, <1>3, <1>4, WorkStays, RowStays, SentStays DEF IInv

LEMMA CrashStep == ASSUME IInv, Crash PROVE IInv'
<1>1. /\ UNCHANGED <<row, cust, verified, payouts, received, sent, deliveries>>
      /\ faults' \in {faults, faults + 1}
  BY DEF Fault, NoFault, Crash, db, outside
<1>2. Keeps /\ Waits
  BY <1>1 DEF Keeps, Waits, Taken
<1>3. ASSUME NEW w \in Worker
      PROVE  /\ work'[w] \in Task
             /\ \/ work'[w] = work[w]
                \/ work'[w].pc = "idle" /\ work'[w].todo = {}
                \/ work'[w].pc = "ended" /\ work'[w].todo = work[w].todo
  <2>1. work[w] \in Task
    BY DEF IInv, TypeOK
  <2>2. work'[w] = IF At(w, "idle") THEN work[w]
                   ELSE IF w = Observer THEN Fresh ELSE [work[w] EXCEPT !.pc = "ended"]
    BY DEF Crash
  <2>3. Fresh \in Task /\ Fresh.pc = "idle" /\ Fresh.todo = {}
    BY DEF Fresh, Task, Label
  <2>4. /\ [work[w] EXCEPT !.pc = "ended"] \in Task
        /\ [work[w] EXCEPT !.pc = "ended"].pc = "ended"
        /\ [work[w] EXCEPT !.pc = "ended"].todo = work[w].todo
    BY <2>1 DEF Task, Label
  <2> QED
    BY <2>1, <2>2, <2>3, <2>4
<1>4. work' \in [Worker -> Task]
  BY <1>3 DEF Crash
<1>5. TypeOK'
  BY <1>1, <1>4 DEF IInv, TypeOK
<1>6. WorkInv'
  <2> SUFFICES ASSUME NEW w \in Worker PROVE Local(w)' /\ Owns(w)'
    BY DEF WorkInv
  <2>1. CASE work'[w] = work[w]
    BY <1>2, <2>1, LocalStays, OwnsStays
  <2>2. CASE work'[w].pc = "idle" /\ work'[w].todo = {}
    BY <2>2 DEF Local, Owns, Holding, At
  <2>3. CASE work'[w].pc = "ended" /\ work'[w].todo = work[w].todo
    BY <1>1, <2>3 DEF IInv, WorkInv, Local, Owns, Holding, At, Taken
  <2> QED
    BY <1>3, <2>1, <2>2, <2>3
<1> QED
  BY <1>1, <1>2, <1>5, <1>6, RowStays, SentStays, VerifiedStays DEF IInv

----------------------------------------------------------------------------
LEMMA IInvStep == IInv /\ [Next]_vars => IInv'
<1> SUFFICES ASSUME IInv, [Next]_vars PROVE IInv'
  OBVIOUS
<1>1. CASE \E t \in Tx : HandleCreated(t)
  BY <1>1, HandleCreatedStep
<1>2. CASE \E p \in Payment, t \in Tx : Deliver(p, t)
  BY <1>2, DeliverStep
<1>3. CASE CompleteReceive
  BY <1>3, Workers, NotifyReceivedStep, CheckKycStep, SetRequiredInfoStep,
     PayoutStep, SetCompletedStep, NotifySentStep DEF CompleteReceive, Settle
<1>4. CASE \E w \in Put : PutCustomer(w)
  BY <1>4, PutFindsStep, PutFindsNoneStep DEF PutCustomer
<1>5. CASE \E w \in Put : Resume(w)
  BY <1>5, Workers, PutWritesStep, FindPendingStep, ResumeIfReadyStep, CheckKycStep,
     PayoutStep, SetCompletedStep, NotifySentStep, ResumeEndsStep DEF Resume, Settle
<1>6. CASE \E r \in Receiver : DeleteCustomer(r)
  BY <1>6, DeleteCustomerStep
<1>7. CASE Crash
  BY <1>7, CrashStep
<1>8. CASE UNCHANGED vars
  BY <1>8 DEF vars, db, outside, bounds, IInv, TypeOK, WorkInv, Local, Owns, RowInv,
     SentInv, VerifiedInv, At, Heard, Taken, Cleared, Complete
<1> QED
  BY <1>1, <1>2, <1>3, <1>4, <1>5, <1>6, <1>7, <1>8 DEF Next

(* Types and the inductive invariant hold for any number of receives, PUT  *)
(* calls, replayed payments, failures and crashes.                         *)
THEOREM Invariance == Spec => [](TypeOK /\ IInv)
<1>1. IInv => TypeOK /\ IInv
  BY DEF IInv
<1> QED
  BY <1>1, InitIInv, IInvStep, PTL DEF Spec

(* No payout to a receiver whose KYC was never complete, whichever of the  *)
(* observer and the PUT calls pays (sep31/worker.rs).                      *)
THEOREM KycIsGated == Spec => []KycGate
<1>1. IInv => KycGate
  BY DEF IInv, RowInv, Cleared, KycGate
<1> QED
  BY <1>1, Invariance, PTL

(* No payout before the platform was told of a payment with that memo, and *)
(* every stored hash is of one (sep31/worker.rs).                          *)
THEOREM PayoutsAreBacked == Spec => []BackedByPayment
<1>1. IInv => BackedByPayment
  BY DEF IInv, RowInv, Heard, BackedByPayment
<1> QED
  BY <1>1, Invariance, PTL

(* Neither the table nor the platform is told of a payout that was not     *)
(* made (sep31/worker.rs).                                                 *)
THEOREM ClaimsFollowPayouts == Spec => [](\A t \in Recorded \cup sent : payouts[t] > 0)
<1>1. IInv => \A t \in Recorded \cup sent : payouts[t] > 0
  BY DEF IInv, RowInv, SentInv, Recorded
<1> QED
  BY <1>1, Invariance, PTL

----------------------------------------------------------------------------
LEMMA WhoWritesRows ==
  ASSUME Next
  PROVE  \/ row' = row
         \/ \E t \in Tx : HandleCreated(t)
         \/ SetRequiredInfo
         \/ \E w \in Worker : SetCompleted(w)
<1>1. CASE CompleteReceive
  BY <1>1, Workers DEF CompleteReceive, Settle, NotifyReceived, CheckKyc, Payout,
     NotifySent, db
<1>2. CASE \E w \in Put : Resume(w)
  BY <1>2, Workers DEF Resume, Settle, PutWrites, FindPending, ResumeIfReady,
     CheckKyc, Payout, NotifySent, ResumeEnds, db
<1>3. CASE \E w \in Put : PutCustomer(w)
  BY <1>3 DEF PutCustomer, PutFinds, PutFindsNone, db
<1> QED
  BY <1>1, <1>2, <1>3 DEF Next, Deliver, DeleteCustomer, Crash, db

(* A receive never goes back: what is parked waits for no payment, and     *)
(* nothing overwrites what is completed, although every UPDATE of          *)
(* db/sep31_transactions.rs is unconditional.                              *)
THEOREM ReceivesGoForward == Spec => GoesForward
<1>1. IInv /\ [Next]_vars => [Forward]_vars
  <2> SUFFICES ASSUME IInv, Next PROVE Forward
    OBVIOUS
  <2>1. CASE row' = row
    BY <2>1 DEF Forward
  <2>2. ASSUME NEW x \in Tx, HandleCreated(x) PROVE Forward
    BY <2>2 DEF HandleCreated, Forward, IInv, TypeOK
  <2>3. CASE SetRequiredInfo
    <3>1. At(Observer, "gating") /\ row' \in {row, Gated(work[Observer].tx, work[Observer].hash)}
      BY <2>3 DEF SetRequiredInfo
    <3>2. row[work[Observer].tx].status = "pending_receiver"
      BY <3>1, Workers DEF IInv, WorkInv, Owns, Holding, At
    <3> QED
      BY <3>1, <3>2 DEF Gated, Forward, IInv, TypeOK
  <2>4. ASSUME NEW w \in Worker, SetCompleted(w) PROVE Forward
    <3> DEFINE x == work[w].tx
               p == work[w].hash
    <3>1. At(w, "paid") /\ row' \in {row, Completed(x, p)}
      BY <2>4 DEF SetCompleted
    <3>2. x \in Tx /\ row[x].status # "pending_receiver" => Taken(x) /\ row[x].hash = p
      BY <3>1 DEF IInv, WorkInv, Owns, Holding, At
    <3>3. row[x].status = "completed" => row[x] = [status |-> "completed", hash |-> p]
      BY <3>1, <3>2 DEF IInv, TypeOK, Row, WorkInv, Local, At
    <3>4. \A t \in Tx \ {x} : row'[t] = row[t]
      BY <3>1 DEF Completed, IInv, TypeOK
    <3>5. row'[x] = row[x] \/ row'[x] = [status |-> "completed", hash |-> p]
      BY <3>1 DEF Completed, IInv, TypeOK, WorkInv, Local, At
    <3>6. x \in Tx
      BY <3>1 DEF IInv, WorkInv, Local, At
    <3> QED
      BY <3>2, <3>3, <3>4, <3>5, <3>6 DEF Forward, Taken
  <2> QED
    BY <2>1, <2>2, <2>3, <2>4, WhoWritesRows
<1> QED
  BY <1>1, Invariance, PTL DEF Spec, GoesForward

----------------------------------------------------------------------------
(* How a worker comes to be between a KYC check and a payout.              *)
Starts(w) ==
  \/ work'[w].pc \notin {"checking", "settling"}
  \/ work'[w].tx = work[w].tx /\ work[w].pc \in {"checking", "settling"}
  \/ work'[w].tx = work[w].tx /\ w = Observer /\ At(w, "matched")
  \/ work'[w].tx \in work[w].todo

LEMMA StartsByGoto ==
  ASSUME TypeOK, NEW w \in Worker, NEW u \in Worker, NEW l \in Label, Goto(u, l),
         \/ l \notin {"checking", "settling"}
         \/ At(u, "checking")
         \/ u = Observer /\ At(u, "matched")
  PROVE  Starts(w)
<1>1. CASE w = u
  BY <1>1, GotoTask DEF Starts, At
<1>2. CASE w # u
  BY <1>2, GotoTask DEF Starts
<1> QED
  BY <1>1, <1>2

LEMMA StartsBySettle ==
  ASSUME TypeOK, NEW w \in Worker, NEW u \in Worker, Settle(u) \/ CheckKyc(u)
  PROVE  Starts(w)
<1>1. CASE Settle(u)
  <2>1. PICK l \in {"idle", "resuming", "paid", "recorded"} : Goto(u, l)
    BY <1>1, RestLabel DEF Settle, Payout, SetCompleted, NotifySent
  <2> QED
    BY <2>1, StartsByGoto DEF Label
<1>2. CASE CheckKyc(u)
  <2>1. PICK l \in {"idle", "resuming", "settling", "gating"} : Goto(u, l)
    BY <1>2, RestLabel DEF CheckKyc
  <2>2. At(u, "checking")
    BY <1>2 DEF CheckKyc
  <2> QED
    BY <2>1, <2>2, StartsByGoto DEF Label
<1> QED
  BY <1>1, <1>2

LEMMA StartsByReceive ==
  ASSUME TypeOK, NEW w \in Worker, CompleteReceive PROVE Starts(w)
<1>1. CASE NotifyReceived
  <2>1. PICK l \in {"settling", "checking", "idle"} : Goto(Observer, l)
    BY <1>1 DEF NotifyReceived, AfterReceived
  <2>2. At(Observer, "matched")
    BY <1>1 DEF NotifyReceived
  <2> QED
    BY <2>1, <2>2, Workers, StartsByGoto DEF Label
<1>2. CASE SetRequiredInfo
  BY <1>2, Workers, StartsByGoto DEF SetRequiredInfo, Label
<1> QED
  BY <1>1, <1>2, Workers, StartsBySettle DEF CompleteReceive

LEMMA StartsByResume ==
  ASSUME TypeOK, NEW w \in Worker, NEW u \in Put, Resume(u) PROVE Starts(w)
<1>1. u \in Worker /\ work[u] \in Task
  BY Workers DEF TypeOK
<1>2. ASSUME NEW r \in Receiver, PutWrites(u, r) PROVE Starts(w)
  <2>1. CASE Goto(u, "ended")
    BY <1>1, <2>1, StartsByGoto DEF Label
  <2>2. CASE work' = [work EXCEPT ![u].pc = IF work[u].typed THEN "spawned" ELSE "ended",
                                  ![u].id = r]
    BY <1>1, <2>2 DEF TypeOK, Task, Starts
  <2> QED
    BY <1>2, <2>1, <2>2 DEF PutWrites
<1>3. CASE FindPending(u)
  <2>1. CASE Goto(u, "ended")
    BY <1>1, <2>1, StartsByGoto DEF Label
  <2>2. CASE work' = [work EXCEPT ![u].pc = "resuming",
                                  ![u].todo = PendingByReceiver(work[u].id)]
    BY <1>1, <2>2 DEF TypeOK, Task, Starts
  <2> QED
    BY <1>3, <2>1, <2>2 DEF FindPending
<1>4. ASSUME NEW x \in Tx, ResumeIfReady(u, x) PROVE Starts(w)
  BY <1>1, <1>4 DEF ResumeIfReady, TypeOK, Task, Starts, At
<1>5. CASE ResumeEnds(u)
  BY <1>1, <1>5, StartsByGoto DEF ResumeEnds, Label
<1> QED
  BY <1>1, <1>2, <1>3, <1>4, <1>5, StartsBySettle DEF Resume

LEMMA StartsByNext == ASSUME TypeOK, NEW w \in Worker, Next PROVE Starts(w)
<1>1. work[w] \in Task
  BY DEF TypeOK
<1>2. CASE work' = work
  BY <1>2 DEF Starts
<1>3. ASSUME NEW p \in Payment, NEW x \in Tx, Deliver(p, x) PROVE Starts(w)
  BY <1>1, <1>3, Workers DEF Deliver, TypeOK, Task, Starts
<1>4. ASSUME NEW u \in Put, PutCustomer(u) PROVE Starts(w)
  <2>1. u \in Worker /\ work[u] \in Task
    BY Workers DEF TypeOK
  <2>2. ASSUME NEW gives \in SUBSET Field, PutFindsNone(u, gives) PROVE Starts(w)
    BY <1>1, <2>1, <2>2 DEF PutFindsNone, TypeOK, Task, Starts
  <2>3. ASSUME NEW gives \in SUBSET Field, NEW r \in Receiver,
               NEW nulls \in SUBSET (Field \ gives), NEW typed \in BOOLEAN,
               PutFinds(u, r, gives, nulls, typed)
        PROVE  Starts(w)
    BY <1>1, <2>1, <2>3 DEF PutFinds, TypeOK, Task, Starts
  <2> QED
    BY <1>4, <2>2, <2>3 DEF PutCustomer
<1>5. CASE Crash
  BY <1>1, <1>5 DEF Crash, Task, Fresh, Starts, At
<1> QED
  BY <1>2, <1>3, <1>4, <1>5, StartsByReceive, StartsByResume
  DEF Next, HandleCreated, DeleteCustomer

(* A completed receive is taken up by nobody who did not have it in hand   *)
(* or on its list already (observer.rs, sep12.rs, sep31/worker.rs).        *)
THEOREM NobodyStartsAgain == Spec => NoNewHolder
<1>1. IInv /\ [Next]_vars => [OldHolders]_vars
  <2> SUFFICES ASSUME IInv, Next,
                      NEW t \in Tx, row[t].status = "completed",
                      NEW w \in Worker, w \in Holders(t)'
               PROVE  w \in Holders(t) \/ t \in work[w].todo
    BY DEF OldHolders
  <2>1. work'[w].tx = t /\ work'[w].pc \in {"checking", "settling"}
    BY DEF Holders
  <2>2. ~ (work[w].tx = t /\ w = Observer /\ At(w, "matched"))
    BY DEF IInv, WorkInv, Owns, Holding, At
  <2>3. Starts(w)
    BY StartsByNext DEF IInv
  <2> QED
    BY <2>1, <2>2, <2>3 DEF Starts, Holders
<1> QED
  BY <1>1, Invariance, PTL DEF Spec, NoNewHolder

----------------------------------------------------------------------------
(* Receives implement Payout.  Every payment delivered and every PUT is    *)
(* good for one payout of a receive.  It is due while the worker has the   *)
(* receive in hand and has not paid it, or will list it, or has it on its  *)
(* list: a resume task strikes a receive off before it pays it.            *)
DueAt(w, t) ==
  \/ work[w].pc \in {"found", "spawned"} /\ work[w].id = ReceiverOf[t]
  \/ t \in work[w].todo
  \/ work[w].tx = t /\ work[w].pc \in {"matched", "checking", "settling"}

Due(t) == {w \in Worker : DueAt(w, t)}

CountInv == \A t \in Tx : payouts[t] + Cardinality(Due(t)) <= Asked[t]

Lists(w) ==
  /\ w = Observer => work[w].todo = {}
  /\ w \in Put /\ work[w].pc \in {"idle", "unfound"} => work[w].id = NoReceiver
  /\ work[w].pc \in {"checking", "settling"} => work[w].tx \notin work[w].todo
  /\ At(w, "recorded") => row[work[w].tx].status = "completed"

ListsInv == \A w \in Worker : Lists(w)

RefInv == IInv /\ ListsInv /\ CountInv

LEMMA DueFinite ==
  ASSUME NEW t \in Tx
  PROVE  /\ IsFiniteSet(Due(t)) /\ Cardinality(Due(t)) \in Nat
         /\ IsFiniteSet(Named(t)) /\ Cardinality(Named(t)) \in Nat
         /\ IsFiniteSet(Due(t)') /\ Cardinality(Due(t)') \in Nat
         /\ IsFiniteSet(Named(t)') /\ Cardinality(Named(t)') \in Nat
<1>1. IsFiniteSet(Put)
  BY Sep31Assumption
<1>2. IsFiniteSet(Worker)
  BY <1>1, FS_AddElement DEF Worker
<1>3. /\ Due(t) \subseteq Worker /\ Due(t)' \subseteq Worker
      /\ Named(t) \subseteq Put /\ Named(t)' \subseteq Put
  BY DEF Due, Named
<1> QED
  BY <1>1, <1>2, <1>3, FS_Subset, FS_CardinalityType

(* Nothing becomes due, for anybody.                                       *)
NoneFallsDue == \A w \in Worker, t \in Tx : DueAt(w, t)' => DueAt(w, t)

SameIds == \A w \in Put : work'[w].id = work[w].id

LEMMA DueShrinks ==
  ASSUME NoneFallsDue, NEW t \in Tx
  PROVE  Due(t)' \subseteq Due(t) /\ Cardinality(Due(t)') <= Cardinality(Due(t))
<1>1. Due(t)' \subseteq Due(t)
  BY DEF NoneFallsDue, Due
<1> QED
  BY <1>1, DueFinite, FS_Subset

LEMMA SameNamed == ASSUME SameIds, NEW t \in Tx PROVE Named(t)' = Named(t)
BY DEF SameIds, Named

LEMMA SameAsked == ASSUME SameIds, deliveries' = deliveries PROVE Asked' = Asked
BY SameNamed DEF Asked

LEMMA CountQuiet ==
  ASSUME TypeOK, CountInv, NoneFallsDue, SameIds,
         payouts' = payouts, deliveries' = deliveries
  PROVE  CountInv'
<1> SUFFICES ASSUME NEW t \in Tx
             PROVE  payouts'[t] + Cardinality(Due(t)') <= Asked'[t]
  BY DEF CountInv
<1>1. payouts[t] \in Nat /\ Asked[t] \in Nat
  BY DueFinite DEF TypeOK, Asked
<1>2. payouts[t] + Cardinality(Due(t)) <= Asked[t]
  BY DEF CountInv
<1>3. Cardinality(Due(t)') <= Cardinality(Due(t)) /\ Asked'[t] = Asked[t]
  BY DueShrinks, SameAsked
<1> QED
  BY <1>1, <1>2, <1>3, DueFinite

(* A payout spends what was due to the worker that pays.                   *)
LEMMA CountSpends ==
  ASSUME TypeOK, CountInv, NoneFallsDue, SameIds, deliveries' = deliveries,
         NEW w \in Worker, NEW t \in Tx, DueAt(w, t), ~DueAt(w, t)',
         payouts' = [payouts EXCEPT ![t] = @ + 1]
  PROVE  CountInv' /\ payouts[t] < Asked[t]
<1>1. Asked' = Asked
  BY SameAsked
<1>2. \A x \in Tx : payouts[x] \in Nat /\ Asked[x] \in Nat
  BY DueFinite DEF TypeOK, Asked
<1>3. w \in Due(t) /\ w \notin Due(t)' /\ Due(t)' \subseteq Due(t)
  BY DueShrinks DEF Due
<1>4. Cardinality(Due(t)') < Cardinality(Due(t))
  <2>1. Cardinality(Due(t) \ {w}) = Cardinality(Due(t)) - 1
    BY <1>3, DueFinite, FS_RemoveElement
  <2>2. Due(t)' \subseteq Due(t) \ {w} /\ IsFiniteSet(Due(t) \ {w})
    BY <1>3, DueFinite, FS_Subset
  <2>3. Cardinality(Due(t)') <= Cardinality(Due(t) \ {w})
    BY <2>2, FS_Subset
  <2> QED
    BY <2>1, <2>3, DueFinite
<1>5. payouts[t] < Asked[t]
  BY <1>2, <1>4, DueFinite DEF CountInv
<1>6. ASSUME NEW x \in Tx PROVE payouts'[x] + Cardinality(Due(x)') <= Asked'[x]
  <2>1. payouts[x] + Cardinality(Due(x)) <= Asked[x]
    BY DEF CountInv
  <2>2. CASE x = t
    <3>1. payouts'[t] = payouts[t] + 1
      BY DEF TypeOK
    <3> QED
      BY <1>1, <1>2, <1>4, <2>1, <2>2, <3>1, DueFinite
  <2>3. CASE x # t
    <3>1. payouts'[x] = payouts[x]
      BY <2>3 DEF TypeOK
    <3>2. Cardinality(Due(x)') <= Cardinality(Due(x))
      BY DueShrinks
    <3> QED
      BY <1>1, <1>2, <2>1, <3>1, <3>2, DueFinite
  <2> QED
    BY <2>2, <2>3
<1> QED
  BY <1>5, <1>6 DEF CountInv

(* One worker may have more due, once more is asked for.                   *)
LEMMA CountGrows ==
  ASSUME TypeOK, CountInv, payouts' = payouts, NEW w \in Worker, NEW T \in SUBSET Tx,
         \A u \in Worker \ {w}, t \in Tx : DueAt(u, t)' => DueAt(u, t),
         \A t \in Tx \ T : DueAt(w, t)' => DueAt(w, t),
         Asked' = P!Plus(Asked, T)
  PROVE  CountInv'
<1> SUFFICES ASSUME NEW t \in Tx
             PROVE  payouts'[t] + Cardinality(Due(t)') <= Asked'[t]
  BY DEF CountInv
<1>1. payouts[t] \in Nat /\ Asked[t] \in Nat
  BY DueFinite DEF TypeOK, Asked
<1>2. payouts[t] + Cardinality(Due(t)) <= Asked[t]
  BY DEF CountInv
<1>3. CASE t \in T
  <2>1. Due(t)' \subseteq Due(t) \cup {w}
    BY DEF Due
  <2>2. /\ IsFiniteSet(Due(t) \cup {w})
        /\ Cardinality(Due(t) \cup {w}) <= Cardinality(Due(t)) + 1
        /\ Cardinality(Due(t) \cup {w}) \in Nat
    <3>1. IsFiniteSet(Due(t)) /\ Cardinality(Due(t)) \in Nat
      BY DueFinite
    <3>2. CASE w \in Due(t)
      <4>1. Due(t) \cup {w} = Due(t)
        BY <3>2
      <4> QED
        BY <3>1, <4>1
    <3>3. CASE w \notin Due(t)
      <4>1. /\ IsFiniteSet(Due(t) \cup {w})
            /\ Cardinality(Due(t) \cup {w}) = Cardinality(Due(t)) + 1
        BY <3>1, <3>3, FS_AddElement
      <4> QED
        BY <3>1, <4>1
    <3> QED
      BY <3>2, <3>3
  <2>3. Cardinality(Due(t)') <= Cardinality(Due(t) \cup {w})
    BY <2>1, <2>2, FS_Subset
  <2>4. Asked'[t] = Asked[t] + 1
    BY <1>3 DEF P!Plus
  <2> QED
    BY <1>1, <1>2, <2>2, <2>3, <2>4, DueFinite
<1>4. CASE t \notin T
  <2>1. Due(t)' \subseteq Due(t)
    BY <1>4 DEF Due
  <2>2. Cardinality(Due(t)') <= Cardinality(Due(t))
    BY <2>1, DueFinite, FS_Subset
  <2>3. Asked'[t] = Asked[t]
    BY <1>4 DEF P!Plus
  <2> QED
    BY <1>1, <1>2, <2>2, <2>3, DueFinite
<1> QED
  BY <1>3, <1>4

----------------------------------------------------------------------------
(* What the steps do to lists and counts.                                  *)

(* A completed receive stays so: see ReceivesGoForward.                    *)
StaysDone == \A t \in Tx : row[t].status = "completed" => row'[t].status = "completed"

LEMMA ListsStay ==
  ASSUME IInv, ListsInv, StaysDone, NEW w \in Worker, work'[w] = work[w]
  PROVE  Lists(w)'
<1>1. Lists(w)
  BY DEF ListsInv
<1>2. At(w, "recorded") => work[w].tx \in Tx
  BY DEF IInv, WorkInv, Local, At
<1> QED
  BY <1>1, <1>2 DEF Lists, StaysDone, At

LEMMA DueStays ==
  ASSUME NEW w \in Worker, work'[w] = work[w], NEW t \in Tx
  PROVE  DueAt(w, t)' <=> DueAt(w, t)
BY DEF DueAt

(* A worker that goes on to l, its locals unchanged.                       *)
LEMMA GoesTo ==
  ASSUME IInv, ListsInv, NEW w \in Worker, NEW l \in Label, Goto(w, l), StaysDone,
         l \notin {"matched", "found", "unfound", "spawned"},
         l = "idle" => w = Observer,
         l \in {"checking", "settling"} =>
           \/ At(w, "matched") /\ w = Observer
           \/ At(w, "checking"),
         l = "recorded" => row'[work[w].tx].status = "completed"
  PROVE  ListsInv' /\ NoneFallsDue /\ SameIds
<1>1. /\ work'[w].pc = l
      /\ work'[w].tx = work[w].tx /\ work'[w].id = work[w].id
      /\ work'[w].todo = work[w].todo
      /\ \A u \in Worker \ {w} : work'[u] = work[u]
  BY GotoTask DEF IInv
<1>2. Lists(w)
  BY DEF ListsInv
<1>3. Lists(w)'
  BY <1>1, <1>2, Workers DEF Lists, At
<1>4. ListsInv'
  BY <1>1, <1>3, ListsStay DEF ListsInv
<1>5. \A t \in Tx : DueAt(w, t)' => DueAt(w, t)
  BY <1>1 DEF DueAt, At
<1>6. NoneFallsDue
  BY <1>1, <1>5, DueStays DEF NoneFallsDue
<1> QED
  BY <1>1, <1>4, <1>6, Workers DEF SameIds

(* A step that leaves the workers where they are.                          *)
LEMMA IdleCounts ==
  ASSUME IInv, ListsInv, CountInv, StaysDone, work' = work,
         payouts' = payouts, deliveries' = deliveries
  PROVE  ListsInv' /\ CountInv' /\ SameIds
<1>1. ListsInv' /\ NoneFallsDue /\ SameIds
  BY ListsStay, DueStays DEF ListsInv, NoneFallsDue, SameIds
<1> QED
  BY <1>1, CountQuiet DEF IInv

(* How Payout sees a step that asks for nothing.                           *)
LEMMA SeenAs ==
  ASSUME SameIds, deliveries' = deliveries
  PROVE  /\ row' = row /\ payouts' = payouts /\ sent' = sent => UNCHANGED P!vars
         /\ Recorded' = Recorded /\ payouts' = payouts /\ sent' = sent => UNCHANGED P!vars
<1>1. Asked' = Asked
  BY SameAsked
<1>2. row' = row => Recorded' = Recorded
  BY DEF Recorded
<1> QED
  BY <1>1, <1>2 DEF P!vars

LEMMA CreatedRefines ==
  ASSUME RefInv, NEW t \in Tx, HandleCreated(t)
  PROVE  ListsInv' /\ CountInv' /\ UNCHANGED P!vars
<1>1. /\ row' = [row EXCEPT ![t].status = "pending_receiver"] /\ row[t].status = "absent"
      /\ UNCHANGED <<work, payouts, sent, deliveries>>
  BY DEF HandleCreated, outside, bounds
<1>2. /\ \A x \in Tx \ {t} : row'[x] = row[x]
      /\ row'[t].status = "pending_receiver"
  BY <1>1 DEF RefInv, IInv, TypeOK, Row
<1>3. StaysDone /\ Recorded' = Recorded
  BY <1>1, <1>2 DEF StaysDone, Recorded
<1> QED
  BY <1>1, <1>3, IdleCounts, SeenAs DEF RefInv

(* Every delivery asks for one payout of whatever receive.                 *)
LEMMA DeliverAsks ==
  ASSUME RefInv, NEW p \in Payment, NEW t \in Tx, Deliver(p, t)
  PROVE  ListsInv' /\ CountInv' /\ P!Ask(Tx)
<1> DEFINE v == [work[Observer] EXCEPT !.pc = "matched", !.tx = t, !.hash = p]
<1>1. /\ UNCHANGED <<row, payouts, sent>> /\ deliveries' = deliveries + 1
      /\ work' = [work EXCEPT ![Observer] = v]
  BY DEF Deliver, db, outside
<1>2. v \in Task /\ v.pc = "matched" /\ v.tx = t /\ v.todo = work[Observer].todo
  BY Workers DEF RefInv, IInv, TypeOK, Task, Label
<1>3. /\ work'[Observer] = v
      /\ \A u \in Worker \ {Observer} : work'[u] = work[u]
  BY <1>1, <1>2, WorkTo, Workers DEF RefInv, IInv
<1>4. StaysDone
  BY <1>1 DEF StaysDone
<1>5. Lists(Observer)'
  BY <1>2, <1>3, Workers DEF Lists, At, RefInv, ListsInv
<1>6. ListsInv'
  BY <1>3, <1>4, <1>5, ListsStay DEF ListsInv, RefInv
<1>7. SameIds
  BY <1>3, Workers DEF SameIds
<1>8. Asked' = P!Plus(Asked, Tx)
  <2>1. \A x \in Tx : Asked'[x] = Asked[x] + 1
    BY <1>1, <1>7, SameNamed, DueFinite DEF Asked, RefInv, IInv, TypeOK
  <2> QED
    BY <2>1 DEF P!Plus, Asked
<1>9. CountInv'
  BY <1>1, <1>3, <1>8, Workers, DueStays, CountGrows DEF RefInv, IInv
<1>10. Recorded' = Recorded
  BY <1>1 DEF Recorded
<1> QED
  BY <1>1, <1>6, <1>8, <1>9, <1>10 DEF P!Ask

LEMMA ReceivedRefines ==
  ASSUME RefInv, NotifyReceived PROVE ListsInv' /\ CountInv' /\ UNCHANGED P!vars
<1>1. PICK l \in {"settling", "checking", "idle"} : Goto(Observer, l)
  BY DEF NotifyReceived, AfterReceived
<1>2. At(Observer, "matched") /\ UNCHANGED <<row, payouts, sent, deliveries>>
  BY DEF NotifyReceived, db
<1>3. StaysDone /\ l \in Label
  BY <1>2 DEF StaysDone, Label
<1>4. ListsInv' /\ NoneFallsDue /\ SameIds
  BY <1>1, <1>2, <1>3, Workers, GoesTo DEF RefInv
<1> QED
  BY <1>2, <1>4, CountQuiet, SeenAs DEF RefInv, IInv

LEMMA KycRefines ==
  ASSUME RefInv, NEW w \in Worker, CheckKyc(w)
  PROVE  ListsInv' /\ CountInv' /\ UNCHANGED P!vars
<1>1. PICK l \in {"settling", "gating", "idle", "resuming"} :
        Goto(w, l) /\ (l = "idle" => w = Observer)
  BY DEF CheckKyc, Rest
<1>2. At(w, "checking") /\ UNCHANGED <<row, payouts, sent, deliveries>>
  BY DEF CheckKyc, db, outside
<1>3. StaysDone /\ l \in Label
  BY <1>2 DEF StaysDone, Label
<1>4. ListsInv' /\ NoneFallsDue /\ SameIds
  BY <1>1, <1>2, <1>3, GoesTo DEF RefInv
<1> QED
  BY <1>2, <1>4, CountQuiet, SeenAs DEF RefInv, IInv

LEMMA ParkedRefines ==
  ASSUME RefInv, SetRequiredInfo PROVE ListsInv' /\ CountInv' /\ UNCHANGED P!vars
<1> DEFINE t == work[Observer].tx
<1>1. /\ At(Observer, "gating") /\ Goto(Observer, "idle")
      /\ row' \in {row, Gated(t, work[Observer].hash)}
      /\ UNCHANGED <<payouts, sent, deliveries>>
  BY DEF SetRequiredInfo, outside
<1>2. t \in Tx /\ row[t].status = "pending_receiver"
  BY <1>1, Workers DEF RefInv, IInv, WorkInv, Local, Owns, Holding, At
<1>3. \A x \in Tx : row'[x].status = "completed" <=> row[x].status = "completed"
  BY <1>1, <1>2 DEF Gated, RefInv, IInv, TypeOK
<1>4. StaysDone /\ Recorded' = Recorded
  BY <1>3 DEF StaysDone, Recorded
<1>5. ListsInv' /\ NoneFallsDue /\ SameIds
  BY <1>1, <1>4, Workers, GoesTo DEF RefInv, Label
<1> QED
  BY <1>1, <1>4, <1>5, CountQuiet, SeenAs DEF RefInv, IInv

LEMMA PayoutPays ==
  ASSUME RefInv, NEW w \in Worker, Payout(w)
  PROVE  ListsInv' /\ CountInv' /\ (P!Next \/ UNCHANGED P!vars)
<1>1. PICK t \in Tx : t = work[w].tx
  BY DEF Payout, RefInv, IInv, WorkInv, Local, At
<1>2. PICK l \in {"paid", "idle", "resuming"} :
        /\ Goto(w, l)
        /\ l = "idle" => w = Observer
        /\ l = "paid" => payouts' = [payouts EXCEPT ![t] = @ + 1]
        /\ l # "paid" => payouts' = payouts
  BY <1>1 DEF Payout, Rest
<1>3. At(w, "settling") /\ UNCHANGED <<row, sent, deliveries>>
  BY DEF Payout, db
<1>4. StaysDone /\ l \in Label
  BY <1>3 DEF StaysDone, Label
<1>5. ListsInv' /\ NoneFallsDue /\ SameIds
  BY <1>2, <1>3, <1>4, GoesTo DEF RefInv
<1>6. CASE l = "paid"
  <2>1. DueAt(w, t)
    BY <1>1, <1>3 DEF DueAt, At
  <2>2. ~DueAt(w, t)'
    <3>1. work'[w].pc = "paid" /\ work'[w].todo = work[w].todo
      BY <1>2, <1>4, <1>6, GotoTask DEF RefInv, IInv
    <3>2. t \notin work[w].todo
      BY <1>1, <1>3 DEF RefInv, ListsInv, Lists, At
    <3> QED
      BY <3>1, <3>2 DEF DueAt
  <2>3. CountInv' /\ payouts[t] < Asked[t]
    BY <1>2, <1>3, <1>5, <1>6, <2>1, <2>2, CountSpends DEF RefInv, IInv
  <2>4. payouts' = P!Plus(payouts, {t})
    BY <1>2, <1>6 DEF P!Plus, RefInv, IInv, TypeOK
  <2>5. Asked' = Asked /\ Recorded' = Recorded
    BY <1>3, <1>5, SameAsked DEF Recorded
  <2>6. P!Pay({t})
    BY <1>3, <2>3, <2>4, <2>5 DEF P!Pay
  <2> QED
    BY <1>5, <2>3, <2>6 DEF P!Next
<1>7. CASE l # "paid"
  BY <1>2, <1>3, <1>5, <1>7, CountQuiet, SeenAs DEF RefInv, IInv
<1> QED
  BY <1>6, <1>7

LEMMA CompletedRecords ==
  ASSUME RefInv, NEW w \in Worker, SetCompleted(w)
  PROVE  ListsInv' /\ CountInv' /\ (P!Next \/ UNCHANGED P!vars)
<1>1. PICK t \in Tx : t = work[w].tx
  BY DEF SetCompleted, RefInv, IInv, WorkInv, Local, At
<1>2. PICK l \in {"recorded", "idle", "resuming"} :
        /\ Goto(w, l)
        /\ l = "idle" => w = Observer
        /\ l = "recorded" => row' = Completed(t, work[w].hash)
  BY <1>1 DEF SetCompleted, Rest
<1>3. /\ At(w, "paid") /\ row' \in {row, Completed(t, work[w].hash)}
      /\ UNCHANGED <<payouts, sent, deliveries>>
  BY <1>1 DEF SetCompleted, outside
<1>4. payouts[t] > 0
  BY <1>1, <1>3 DEF RefInv, IInv, WorkInv, Local, At
<1>5. /\ \A x \in Tx \ {t} : row'[x] = row[x]
      /\ row' # row => row'[t].status = "completed"
      /\ l = "recorded" => row'[t].status = "completed"
  BY <1>2, <1>3 DEF Completed, RefInv, IInv, TypeOK
<1>6. StaysDone /\ l \in Label
  BY <1>5 DEF StaysDone, Label
<1>7. ListsInv' /\ NoneFallsDue /\ SameIds
  BY <1>1, <1>2, <1>5, <1>6, GoesTo DEF RefInv
<1>8. CountInv'
  BY <1>3, <1>7, CountQuiet DEF RefInv, IInv
<1>9. CASE row' = row
  BY <1>3, <1>7, <1>8, <1>9, SeenAs
<1>10. CASE row' # row
  <2>1. Recorded' = Recorded \cup {t}
    BY <1>5, <1>10 DEF Recorded
  <2>2. P!Record(t)
    BY <1>3, <1>4, <1>7, <2>1, SameAsked DEF P!Record
  <2> QED
    BY <1>7, <1>8, <2>2 DEF P!Next
<1> QED
  BY <1>9, <1>10

LEMMA SentReports ==
  ASSUME RefInv, NEW w \in Worker, NotifySent(w)
  PROVE  ListsInv' /\ CountInv' /\ (P!Next \/ UNCHANGED P!vars)
<1>1. PICK t \in Tx : t = work[w].tx
  BY DEF NotifySent, RefInv, IInv, WorkInv, Local, At
<1>2. PICK l \in {"idle", "resuming"} : Goto(w, l) /\ (l = "idle" => w = Observer)
  BY DEF NotifySent, Rest
<1>3. /\ At(w, "recorded") /\ sent' \in {sent, sent \cup {t}}
      /\ UNCHANGED <<row, payouts, deliveries>>
  BY <1>1 DEF NotifySent, db
<1>4. StaysDone /\ l \in Label
  BY <1>3 DEF StaysDone, Label
<1>5. ListsInv' /\ NoneFallsDue /\ SameIds
  BY <1>2, <1>4, GoesTo DEF RefInv
<1>6. CountInv'
  BY <1>3, <1>5, CountQuiet DEF RefInv, IInv
<1>7. CASE sent' = sent
  BY <1>3, <1>5, <1>6, <1>7, SeenAs
<1>8. CASE sent' = sent \cup {t}
  <2>1. t \in Recorded /\ Recorded' = Recorded
    BY <1>1, <1>3 DEF Recorded, RefInv, ListsInv, Lists
  <2>2. P!Report(t)
    BY <1>3, <1>5, <1>8, <2>1, SameAsked DEF P!Report
  <2> QED
    BY <1>5, <1>6, <2>2 DEF P!Next
<1> QED
  BY <1>3, <1>7, <1>8

(* A PUT that names receiver r from now on asks for a payout of each of    *)
(* that receiver's receives.                                               *)
LEMMA PutAsks ==
  ASSUME RefInv, NEW w \in Put, NEW r \in Receiver, NEW v \in Task,
         work' = [work EXCEPT ![w] = v], v.id = r, v.todo = work[w].todo,
         v.pc \in {"found", "spawned", "ended"}, work[w].id = NoReceiver,
         UNCHANGED <<row, payouts, sent, deliveries>>
  PROVE  ListsInv' /\ CountInv' /\ P!Next
<1> DEFINE T == {t \in Tx : ReceiverOf[t] = r}
<1>1. /\ w \in Worker /\ w # Observer /\ work'[w] = v
      /\ \A u \in Worker \ {w} : work'[u] = work[u]
  BY Workers, WorkTo DEF RefInv, IInv
<1>2. StaysDone /\ Recorded' = Recorded
  BY DEF StaysDone, Recorded
<1>3. ListsInv'
  <2>1. Lists(w)'
    BY <1>1 DEF Lists, At
  <2> QED
    BY <1>1, <1>2, <2>1, ListsStay DEF ListsInv, RefInv
<1>4. Asked' = P!Plus(Asked, T)
  <2> SUFFICES ASSUME NEW t \in Tx
               PROVE  Cardinality(Named(t)') =
                        Cardinality(Named(t)) + (IF t \in T THEN 1 ELSE 0)
    <3>1. deliveries \in Nat
      BY DEF RefInv, IInv, TypeOK
    <3>2. \A t \in Tx : Cardinality(Named(t)) \in Nat
      BY DueFinite
    <3> QED
      BY <3>1, <3>2 DEF Asked, P!Plus
  <2>1. w \notin Named(t)
    BY Sep31Assumption DEF Named
  <2>2. \A u \in Put \ {w} : work'[u] = work[u]
    BY <1>1, Workers
  <2>3. CASE t \in T
    <3>1. Named(t)' = Named(t) \cup {w}
      BY <1>1, <2>2, <2>3 DEF Named
    <3> QED
      BY <2>1, <2>3, <3>1, DueFinite, FS_AddElement
  <2>4. CASE t \notin T
    <3>1. Named(t)' = Named(t)
      BY <1>1, <2>1, <2>2, <2>4 DEF Named
    <3> QED
      BY <2>4, <3>1, DueFinite
  <2> QED
    BY <2>3, <2>4
<1>5. \A t \in Tx \ T : DueAt(w, t)' => DueAt(w, t)
  BY <1>1 DEF DueAt
<1>6. \A u \in Worker \ {w}, t \in Tx : DueAt(u, t)' => DueAt(u, t)
  BY <1>1, DueStays
<1>7. CountInv'
  BY <1>1, <1>4, <1>5, <1>6, CountGrows DEF RefInv, IInv
<1>8. P!Ask(T)
  BY <1>2, <1>4 DEF P!Ask
<1> QED
  BY <1>3, <1>7, <1>8 DEF P!Next

(* A PUT that takes new locals and asks for nothing.                       *)
LEMMA PutQuiet ==
  ASSUME RefInv, NEW w \in Put, NEW v \in Task, work' = [work EXCEPT ![w] = v],
         v.id = work[w].id, v.pc \notin {"idle", "recorded"},
         v.pc = "unfound" => At(w, "idle"),
         v.pc \in {"checking", "settling"} => v.tx \notin v.todo,
         \A t \in Tx :
           \/ v.pc \in {"found", "spawned"} /\ v.id = ReceiverOf[t]
           \/ t \in v.todo
           \/ v.tx = t /\ v.pc \in {"matched", "checking", "settling"}
           => DueAt(w, t),
         UNCHANGED <<row, payouts, sent, deliveries>>
  PROVE  ListsInv' /\ CountInv' /\ UNCHANGED P!vars
<1>1. /\ w \in Worker /\ w # Observer /\ work'[w] = v
      /\ \A u \in Worker \ {w} : work'[u] = work[u]
  BY Workers, WorkTo DEF RefInv, IInv
<1>2. StaysDone
  BY DEF StaysDone
<1>3. Lists(w)'
  BY <1>1 DEF Lists, At, RefInv, ListsInv
<1>4. ListsInv'
  BY <1>1, <1>2, <1>3, ListsStay DEF ListsInv, RefInv
<1>5. NoneFallsDue
  <2>1. \A t \in Tx : DueAt(w, t)' => DueAt(w, t)
    BY <1>1 DEF DueAt
  <2> QED
    BY <1>1, <2>1, DueStays DEF NoneFallsDue
<1>6. SameIds
  BY <1>1, Workers DEF SameIds
<1> QED
  BY <1>4, <1>5, <1>6, CountQuiet, SeenAs DEF RefInv, IInv

LEMMA PutFindsRefines ==
  ASSUME RefInv, NEW w \in Put, NEW r \in Receiver, NEW gives \in SUBSET Field,
         NEW nulls \in SUBSET (Field \ gives), NEW typed \in BOOLEAN,
         PutFinds(w, r, gives, nulls, typed)
  PROVE  ListsInv' /\ CountInv' /\ P!Next
<1> DEFINE v == [work[w] EXCEPT !.pc = "found", !.id = r, !.gives = gives,
                                !.nulls = nulls, !.typed = typed]
<1>1. /\ work' = [work EXCEPT ![w] = v] /\ At(w, "idle")
      /\ UNCHANGED <<row, payouts, sent, deliveries>>
  BY DEF PutFinds, db, outside, bounds
<1>2. v \in Task /\ v.pc = "found" /\ v.id = r /\ v.todo = work[w].todo
  BY Workers DEF RefInv, IInv, TypeOK, Task, Label
<1>3. work[w].id = NoReceiver
  BY <1>1, Workers DEF RefInv, ListsInv, Lists, At
<1> QED
  BY <1>1, <1>2, <1>3, PutAsks

LEMMA PutFindsNoneRefines ==
  ASSUME RefInv, NEW w \in Put, NEW gives \in SUBSET Field, PutFindsNone(w, gives)
  PROVE  ListsInv' /\ CountInv' /\ UNCHANGED P!vars
<1> DEFINE v == [work[w] EXCEPT !.pc = "unfound", !.gives = gives, !.typed = TRUE]
<1>1. /\ work' = [work EXCEPT ![w] = v] /\ At(w, "idle")
      /\ UNCHANGED <<row, payouts, sent, deliveries>>
  BY DEF PutFindsNone, db, outside, bounds
<1>2. /\ v \in Task /\ v.pc = "unfound" /\ v.id = work[w].id
      /\ v.todo = work[w].todo /\ v.tx = work[w].tx
  BY Workers DEF RefInv, IInv, TypeOK, Task, Label
<1> QED
  BY <1>1, <1>2, PutQuiet DEF DueAt

LEMMA PutWritesRefines ==
  ASSUME RefInv, NEW w \in Put, NEW r \in Receiver, PutWrites(w, r)
  PROVE  ListsInv' /\ CountInv' /\ (P!Next \/ UNCHANGED P!vars)
<1>1. PICK l \in {"spawned", "ended"}, i \in {r, work[w].id} :
        /\ work' = [work EXCEPT ![w] = [work[w] EXCEPT !.pc = l, !.id = i]]
        /\ l = "spawned" => i = r
  <2>1. work[w] \in Task
    BY Workers DEF RefInv, IInv, TypeOK
  <2>2. CASE work' = [work EXCEPT ![w].pc = IF work[w].typed THEN "spawned" ELSE "ended",
                                  ![w].id = r]
    BY <2>1, <2>2 DEF RefInv, IInv, TypeOK
  <2>3. CASE Goto(w, "ended")
    BY <2>1, <2>3 DEF Goto, Task, RefInv, IInv, TypeOK
  <2> QED
    BY <2>2, <2>3 DEF PutWrites
<1> DEFINE v == [work[w] EXCEPT !.pc = l, !.id = i]
<1>2. /\ UNCHANGED <<row, payouts, sent, deliveries>>
      /\ (At(w, "found") /\ r = work[w].id) \/ At(w, "unfound")
  BY DEF PutWrites, outside
<1>3. /\ v \in Task /\ v.pc = l /\ v.id = i
      /\ v.todo = work[w].todo /\ v.tx = work[w].tx
      /\ work' = [work EXCEPT ![w] = v]
  BY <1>1, Workers DEF RefInv, IInv, TypeOK, Task, Label
<1> HIDE DEF v
<1>4. CASE i = work[w].id
  <2>1. l = "spawned" => At(w, "found")
    BY <1>1, <1>2, <1>4, Workers, Sep31Assumption DEF RefInv, ListsInv, Lists, At
  <2>2. \A t \in Tx : /\ l = "spawned" /\ i = ReceiverOf[t] => DueAt(w, t)
                      /\ t \in v.todo => DueAt(w, t)
    BY <1>3, <1>4, <2>1 DEF DueAt, At
  <2> QED
    BY <1>2, <1>3, <1>4, <2>2, PutQuiet
<1>5. CASE i # work[w].id
  <2>1. i = r /\ work[w].id = NoReceiver
    BY <1>1, <1>2, <1>5, Workers DEF RefInv, ListsInv, Lists, At
  <2> QED
    BY <1>2, <1>3, <2>1, PutAsks
<1> QED
  BY <1>4, <1>5

LEMMA FindPendingRefines ==
  ASSUME RefInv, NEW w \in Put, FindPending(w)
  PROVE  ListsInv' /\ CountInv' /\ UNCHANGED P!vars
<1>1. At(w, "spawned") /\ UNCHANGED <<row, payouts, sent, deliveries>>
  BY DEF FindPending, db, outside
<1>2. w \in Worker /\ work[w] \in Task /\ w # Observer
  BY Workers DEF RefInv, IInv, TypeOK
<1>3. CASE Goto(w, "ended")
  <2>1. StaysDone
    BY <1>1 DEF StaysDone
  <2>2. ListsInv' /\ NoneFallsDue /\ SameIds
    BY <1>2, <1>3, <2>1, GoesTo DEF RefInv, Label
  <2> QED
    BY <1>1, <2>2, CountQuiet, SeenAs DEF RefInv, IInv
<1>4. CASE work' = [work EXCEPT ![w].pc = "resuming",
                                ![w].todo = PendingByReceiver(work[w].id)]
  <2> DEFINE v == [work[w] EXCEPT !.pc = "resuming", !.todo = PendingByReceiver(work[w].id)]
  <2>1. /\ v \in Task /\ v.pc = "resuming" /\ v.id = work[w].id
        /\ v.todo = PendingByReceiver(work[w].id)
    BY <1>2 DEF Task, Label, PendingByReceiver
  <2>2. \A t \in v.todo : DueAt(w, t)
    BY <1>1, <2>1 DEF PendingByReceiver, DueAt, At
  <2>3. work' = [work EXCEPT ![w] = v]
    BY <1>4
  <2> QED
    BY <1>1, <2>1, <2>2, <2>3, PutQuiet
<1> QED
  BY <1>3, <1>4 DEF FindPending

LEMMA ResumeRefines ==
  ASSUME RefInv, NEW w \in Put, NEW t \in Tx, ResumeIfReady(w, t)
  PROVE  ListsInv' /\ CountInv' /\ UNCHANGED P!vars
<1>1. /\ At(w, "resuming") /\ t \in work[w].todo
      /\ UNCHANGED <<row, payouts, sent, deliveries>>
  BY DEF ResumeIfReady, db, outside
<1>2. work[w] \in Task
  BY Workers DEF RefInv, IInv, TypeOK
<1>3. CASE /\ row[t].hash # NoPayment
           /\ work' = [work EXCEPT ![w].todo = @ \ {t}, ![w].pc = "checking",
                                   ![w].tx = t, ![w].hash = row[t].hash]
  <2> DEFINE v == [work[w] EXCEPT !.todo = @ \ {t}, !.pc = "checking", !.tx = t,
                                  !.hash = row[t].hash]
  <2>1. /\ v \in Task /\ v.pc = "checking" /\ v.id = work[w].id /\ v.tx = t
        /\ v.todo = work[w].todo \ {t}
    BY <1>2 DEF RefInv, IInv, TypeOK, Row, Task, Label
  <2>2. work' = [work EXCEPT ![w] = v]
    BY <1>2, <1>3 DEF RefInv, IInv, TypeOK
  <2> HIDE DEF v
  <2>3. \A x \in Tx : x \in v.todo \/ v.tx = x => DueAt(w, x)
    BY <1>1, <2>1 DEF DueAt
  <2> QED
    BY <1>1, <2>1, <2>2, <2>3, PutQuiet
<1>4. CASE work' = [work EXCEPT ![w].todo = @ \ {t}]
  <2> DEFINE v == [work[w] EXCEPT !.todo = @ \ {t}]
  <2>1. /\ v \in Task /\ v.pc = "resuming" /\ v.id = work[w].id
        /\ v.todo = work[w].todo \ {t}
    BY <1>1, <1>2 DEF Task, At
  <2>2. work' = [work EXCEPT ![w] = v]
    BY <1>4
  <2> QED
    BY <1>1, <2>1, <2>2, PutQuiet DEF DueAt
<1> QED
  BY <1>3, <1>4 DEF ResumeIfReady

LEMMA ResumeEndsRefines ==
  ASSUME RefInv, NEW w \in Put, ResumeEnds(w)
  PROVE  ListsInv' /\ CountInv' /\ UNCHANGED P!vars
<1>1. Goto(w, "ended") /\ UNCHANGED <<row, payouts, sent, deliveries>>
  BY DEF ResumeEnds, db, outside, bounds
<1>2. StaysDone
  BY <1>1 DEF StaysDone
<1>3. ListsInv' /\ NoneFallsDue /\ SameIds
  BY <1>1, <1>2, Workers, GoesTo DEF RefInv, Label
<1> QED
  BY <1>1, <1>3, CountQuiet, SeenAs DEF RefInv, IInv

LEMMA CrashRefines ==
  ASSUME RefInv, Crash PROVE ListsInv' /\ CountInv' /\ UNCHANGED P!vars
<1>1. UNCHANGED <<row, payouts, sent, deliveries>>
  BY DEF Crash, db, outside
<1>2. ASSUME NEW w \in Worker
      PROVE  /\ w # Observer => work'[w].id = work[w].id
             /\ Lists(w)'
             /\ \A t \in Tx : DueAt(w, t)' => DueAt(w, t)
  <2>1. work[w] \in Task /\ Lists(w)
    BY DEF RefInv, IInv, TypeOK, ListsInv
  <2>2. CASE At(w, "idle")
    <3>1. work'[w] = work[w]
      BY <2>2 DEF Crash
    <3> QED
      BY <2>1, <2>2, <3>1, DueStays DEF Lists, At
  <2>3. CASE ~At(w, "idle") /\ w = Observer
    <3>1. work'[w] = Fresh
      BY <2>3 DEF Crash
    <3> QED
      BY <2>3, <3>1, Workers DEF Fresh, Lists, DueAt, At
  <2>4. CASE ~At(w, "idle") /\ w # Observer
    <3>1. work'[w] = [work[w] EXCEPT !.pc = "ended"]
      BY <2>4 DEF Crash
    <3>2. /\ work'[w].pc = "ended" /\ work'[w].id = work[w].id
          /\ work'[w].todo = work[w].todo
      BY <2>1, <3>1 DEF Task
    <3> QED
      BY <2>1, <2>4, <3>2 DEF Lists, DueAt, At
  <2> QED
    BY <2>2, <2>3, <2>4
<1>3. ListsInv' /\ NoneFallsDue
  BY <1>2 DEF ListsInv, NoneFallsDue
<1>4. SameIds
  BY <1>2, Workers DEF SameIds
<1> QED
  BY <1>1, <1>3, <1>4, CountQuiet, SeenAs DEF RefInv, IInv

----------------------------------------------------------------------------
LEMMA PayoutRefines ==
  ASSUME RefInv, [Next]_vars PROVE RefInv' /\ [P!Next]_(P!vars)
<1>1. IInv'
  BY IInvStep DEF RefInv
<1>2. CASE \E t \in Tx : HandleCreated(t)
  BY <1>1, <1>2, CreatedRefines DEF RefInv
<1>3. CASE \E p \in Payment, t \in Tx : Deliver(p, t)
  BY <1>1, <1>3, DeliverAsks DEF RefInv, P!Next
<1>4. ASSUME NEW w \in Worker, Settle(w) \/ CheckKyc(w)
      PROVE  RefInv' /\ [P!Next]_(P!vars)
  BY <1>1, <1>4, PayoutPays, CompletedRecords, SentReports, KycRefines DEF RefInv, Settle
<1>5. CASE CompleteReceive
  BY <1>1, <1>4, <1>5, Workers, ReceivedRefines, ParkedRefines DEF CompleteReceive, RefInv
<1>6. CASE \E w \in Put : PutCustomer(w)
  BY <1>1, <1>6, PutFindsRefines, PutFindsNoneRefines DEF PutCustomer, RefInv
<1>7. CASE \E w \in Put : Resume(w)
  BY <1>1, <1>4, <1>7, Workers, PutWritesRefines, FindPendingRefines, ResumeRefines,
     ResumeEndsRefines DEF Resume, RefInv
<1>8. CASE \E r \in Receiver : DeleteCustomer(r)
  <2>1. UNCHANGED <<row, work, payouts, sent, deliveries>>
    BY <1>8 DEF DeleteCustomer, outside, bounds
  <2>2. StaysDone
    BY <2>1 DEF StaysDone
  <2> QED
    BY <1>1, <2>1, <2>2, IdleCounts, SeenAs DEF RefInv
<1>9. CASE Crash
  BY <1>1, <1>9, CrashRefines DEF RefInv
<1>10. CASE UNCHANGED vars
  <2>1. UNCHANGED <<row, work, payouts, sent, deliveries>>
    BY <1>10 DEF vars, db, outside, bounds
  <2>2. StaysDone
    BY <2>1 DEF StaysDone
  <2> QED
    BY <1>1, <2>1, <2>2, IdleCounts, SeenAs DEF RefInv
<1> QED
  BY <1>2, <1>3, <1>5, <1>6, <1>7, <1>8, <1>9, <1>10 DEF Next

LEMMA PayoutInit == Init => RefInv /\ P!Init
<1> SUFFICES ASSUME Init PROVE RefInv /\ P!Init
  OBVIOUS
<1>1. \A w \in Worker : work[w] = Fresh
  BY DEF Init
<1>2. ASSUME NEW t \in Tx PROVE Due(t) = {} /\ Named(t) = {}
  BY <1>1, Workers, Sep31Assumption DEF Due, DueAt, Named, Fresh
<1>3. Asked = [t \in Tx |-> 0] /\ Recorded = {}
  BY <1>2, FS_EmptySet DEF Asked, Recorded, Init
<1>4. CountInv
  BY <1>2, <1>3, FS_EmptySet DEF CountInv, Init
<1>5. ListsInv
  BY <1>1 DEF ListsInv, Lists, Fresh, At
<1> QED
  BY <1>3, <1>4, <1>5, InitIInv DEF RefInv, P!Init, Init

(* Receives implement Payout: each payment delivered and each PUT is good  *)
(* for at most one payout of a receive, a row is completed only after one  *)
(* and only then reported (observer.rs, sep12.rs, sep31/worker.rs).        *)
THEOREM ReceivesImplementPayout == Spec => ImplementsPayout
<1>1. RefInv /\ [Next]_vars => RefInv' /\ [P!Next]_(P!vars)
  BY PayoutRefines
<1> QED
  BY <1>1, PayoutInit, PTL DEF Spec, ImplementsPayout, P!Spec

(* What implementing Payout means here.                                    *)
PP == INSTANCE PayoutProofs WITH
        asked <- Asked, paid <- payouts, recorded <- Recorded, reported <- sent

(* Whatever is replayed, overlaps or fails, a receive is paid out at most  *)
(* as often as payments were delivered and PUTs named its receiver, and    *)
(* is reported as sent only once its row is completed (sep31/worker.rs).   *)
THEOREM RequestsBoundPayouts ==
  Spec => [](/\ \A t \in Tx : payouts[t] <= Asked[t]
             /\ sent \subseteq Recorded)
<1>1. PP!Inv => /\ \A t \in Tx : payouts[t] <= Asked[t]
                /\ sent \subseteq Recorded
  BY DEF PP!Inv, PP!WithinRequests, PP!WordsFollowDeeds
<1>2. PP!Init <=> P!Init
  BY DEF PP!Init, P!Init
<1>3. PP!Next <=> P!Next
  BY DEF PP!Next, P!Next, PP!Ask, P!Ask, PP!Pay, P!Pay, PP!Plus, P!Plus,
         PP!Record, P!Record, PP!Report, P!Report
<1>4. [P!Next]_(P!vars) => [PP!Next]_(PP!vars)
  BY <1>3 DEF PP!vars, P!vars
<1> QED
  BY <1>1, <1>2, <1>4, ReceivesImplementPayout, PP!Promises, PTL
  DEF ImplementsPayout, P!Spec, PP!Spec

----------------------------------------------------------------------------
(* Where nothing fails.  A worker has a payout of t ahead of it, or has    *)
(* just made one and is to store it.                                       *)
Ahead(w, t) ==
  \/ t \in work[w].todo
  \/ work[w].tx = t /\ work[w].pc \in {"matched", "checking", "gating", "settling"}

PaidAt(w, t) == work[w].tx = t /\ At(w, "paid")

(* A PUT lists and holds receives of the receiver it names.                *)
Serves(w) ==
  /\ work[w].pc \in {"idle", "unfound", "found", "spawned"} => work[w].todo = {}
  /\ \A t \in work[w].todo : work[w].id = ReceiverOf[t]
  /\ work[w].pc \in Holding =>
       work[w].id = ReceiverOf[work[w].tx] /\ work[w].id \in Receiver

ServesInv == \A w \in Put : Serves(w)

(* A receive that one PUT names at most is with one worker at a time, and  *)
(* is paid by the one that has it before it is anybody's again.            *)
Once(t) ==
  Solo(t) =>
    /\ payouts[t] <= 1
    /\ payouts[t] > 0 => row[t].status = "completed" \/ \E w \in Worker : PaidAt(w, t)
    /\ \A w \in Worker : Ahead(w, t) => payouts[t] = 0

OnceInv == faults = 0 => \A t \in Tx : Once(t)

CalmInv == RefInv /\ (faults = 0 => ServesInv) /\ OnceInv /\ NothingIsForgotten

(* Two workers never have one such receive.                                *)
LEMMA OneWorker ==
  ASSUME RefInv, ServesInv, NEW t \in Tx, Solo(t), NEW u \in Worker, NEW w \in Worker,
         Ahead(u, t) \/ PaidAt(u, t), Ahead(w, t) \/ PaidAt(w, t)
  PROVE  u = w
<1>1. ASSUME NEW x \in Put, Ahead(x, t) \/ PaidAt(x, t)
      PROVE  x \in Named(t) /\ Taken(t)
  <2>1. x \in Worker /\ x # Observer /\ Serves(x) /\ Local(x) /\ Owns(x)
    BY Workers DEF ServesInv, RefInv, IInv, WorkInv
  <2> QED
    BY <1>1, <2>1 DEF Ahead, PaidAt, Serves, Local, Owns, Holding, Named, At
<1>2. ASSUME Ahead(Observer, t) \/ PaidAt(Observer, t)
      PROVE  ~Taken(t)
  <2>1. Owns(Observer) /\ work[Observer].todo = {}
    BY Workers DEF RefInv, IInv, WorkInv, ListsInv, Lists
  <2> QED
    BY <1>2, <2>1 DEF Ahead, PaidAt, Owns, Holding, At, Taken
<1> QED
  BY <1>1, <1>2, Workers DEF Solo, Worker

(* What a step may do to whom it does not pay out.                         *)
LEMMA OnceKeeps ==
  ASSUME NEW t \in Tx, Once(t), payouts'[t] = payouts[t], Solo(t)' => Solo(t),
         row[t].status = "completed" => row'[t].status = "completed",
         \A w \in Worker : Ahead(w, t)' => Ahead(w, t) \/ payouts[t] = 0,
         \A w \in Worker : PaidAt(w, t) => PaidAt(w, t)' \/ row'[t].status = "completed"
  PROVE  Once(t)'
BY DEF Once

LEMMA AheadStays ==
  ASSUME NEW w \in Worker, work'[w] = work[w], NEW t \in Tx
  PROVE  (Ahead(w, t)' <=> Ahead(w, t)) /\ (PaidAt(w, t)' <=> PaidAt(w, t))
BY DEF Ahead, PaidAt, At

LEMMA SoloStays == ASSUME SameIds, NEW t \in Tx PROVE Solo(t)' <=> Solo(t)
BY SameNamed DEF Solo

LEMMA ServesStays == ASSUME ServesInv, NEW w \in Put, work'[w] = work[w] PROVE Serves(w)'
BY DEF ServesInv, Serves

(* Nobody moves.                                                           *)
LEMMA OnceIdles ==
  ASSUME ServesInv, \A t \in Tx : Once(t), work' = work, payouts' = payouts, StaysDone
  PROVE  ServesInv' /\ \A t \in Tx : Once(t)'
<1>1. SameIds
  BY DEF SameIds
<1>2. \A t \in Tx : Once(t)'
  BY <1>1, OnceKeeps, AheadStays, SoloStays DEF StaysDone
<1> QED
  BY <1>2, ServesStays DEF ServesInv

(* A worker goes on to l, its locals unchanged, and pays nothing out.      *)
LEMMA OnceGoes ==
  ASSUME RefInv, ServesInv, \A t \in Tx : Once(t), NEW w \in Worker, NEW l \in Label,
         Goto(w, l), payouts' = payouts, StaysDone,
         l \in {"idle", "matched", "gating"} => w = Observer,
         l \notin {"found", "unfound", "spawned", "paid"},
         l \in Holding => work[w].pc \in Holding /\ ~At(w, "paid"),
         At(w, "paid") => row'[work[w].tx].status = "completed"
  PROVE  ServesInv' /\ \A t \in Tx : Once(t)'
<1>1. /\ work'[w].pc = l
      /\ work'[w].tx = work[w].tx /\ work'[w].id = work[w].id
      /\ work'[w].todo = work[w].todo
      /\ \A u \in Worker \ {w} : work'[u] = work[u]
  BY GotoTask DEF RefInv, IInv
<1>2. SameIds
  BY <1>1, Workers DEF SameIds
<1>3. ASSUME NEW t \in Tx PROVE Once(t)'
  <2>1. Ahead(w, t)' => Ahead(w, t)
    BY <1>1 DEF Ahead, Holding, At
  <2>2. PaidAt(w, t) => row'[t].status = "completed"
    BY DEF PaidAt
  <2> QED
    BY <1>1, <1>2, <2>1, <2>2, OnceKeeps, AheadStays, SoloStays DEF StaysDone
<1>4. ASSUME NEW u \in Put PROVE Serves(u)'
  <2>1. CASE u = w
    <3>1. Serves(w) /\ w # Observer
      BY <2>1, Workers DEF ServesInv
    <3> QED
      BY <1>1, <2>1, <3>1 DEF Serves
  <2>2. CASE u # w
    BY <1>1, <2>2, Workers, ServesStays
  <2> QED
    BY <2>1, <2>2
<1> QED
  BY <1>3, <1>4 DEF ServesInv

(* A PUT takes new locals, and pays nothing out.                           *)
LEMMA OncePuts ==
  ASSUME RefInv, ServesInv, \A t \in Tx : Once(t), NEW w \in Put, NEW v \in Task,
         work' = [work EXCEPT ![w] = v], UNCHANGED <<row, payouts>>,
         v.id = work[w].id \/ (work[w].id = NoReceiver /\ v.id \in Receiver),
         v.pc # "paid", ~At(w, "paid"),
         v.pc \in {"idle", "unfound", "found", "spawned"} => v.todo = {},
         \A t \in v.todo : v.id = ReceiverOf[t],
         v.pc \in Holding => v.id = ReceiverOf[v.tx] /\ v.id \in Receiver,
         \A t \in Tx : /\ t \in v.todo \/ (v.tx = t /\ v.pc \in Holding)
                       /\ Solo(t)
                       => Ahead(w, t) \/ payouts[t] = 0
  PROVE  ServesInv' /\ \A t \in Tx : Once(t)'
<1>1. /\ w \in Worker /\ work'[w] = v /\ \A u \in Worker \ {w} : work'[u] = work[u]
  BY Workers, WorkTo DEF RefInv, IInv
<1>2. ASSUME NEW t \in Tx, Solo(t)' PROVE Solo(t)
  <2>1. \A u \in Put : work[u].id = work'[u].id \/ work[u].id = NoReceiver
    BY <1>1, Workers
  <2>2. Named(t) \subseteq Named(t)'
    BY <2>1, Sep31Assumption DEF Named
  <2> QED
    BY <1>2, <2>2 DEF Solo
<1>3. ASSUME NEW t \in Tx, Solo(t)' PROVE Once(t)'
  <2>1. Solo(t)
    BY <1>2, <1>3
  <2>2. Ahead(w, t)' => Ahead(w, t) \/ payouts[t] = 0
    BY <1>1, <2>1 DEF Ahead, Holding
  <2>3. ~PaidAt(w, t)
    BY DEF PaidAt
  <2> QED
    BY <1>1, <2>1, <2>2, <2>3, OnceKeeps, AheadStays
<1>4. \A t \in Tx : Once(t)'
  BY <1>3 DEF Once
<1>5. ASSUME NEW u \in Put PROVE Serves(u)'
  <2>1. CASE u = w
    BY <1>1, <2>1 DEF Serves
  <2>2. CASE u # w
    BY <1>1, <2>2, Workers, ServesStays
  <2> QED
    BY <2>1, <2>2
<1> QED
  BY <1>4, <1>5 DEF ServesInv

(* What has been heard of is settled, parked or in the observer's hands;   *)
(* what was completed is reported, or about to be.                         *)
HeldAt(t) ==
  work[Observer].tx = t /\ work[Observer].pc \in {"checking", "gating", "settling", "paid"}

Reports(w, t) == work[w].tx = t /\ At(w, "recorded")

LEMMA KeptAs ==
  ASSUME faults = 0
  PROVE  NothingIsForgotten <=>
           /\ \A r \in received : Taken(r[1]) \/ HeldAt(r[1])
           /\ \A t \in Tx : row[t].status = "completed" =>
                t \in sent \/ \E w \in Worker : Reports(w, t)
BY DEF NothingIsForgotten, Taken, HeldAt, Reports

LEMMA KeptStays ==
  ASSUME RefInv, faults = 0, faults' = 0, NothingIsForgotten,
         \A t \in Tx : Taken(t) => Taken(t)',
         \A t \in Tx : HeldAt(t) => HeldAt(t)' \/ Taken(t)',
         \A r \in received' \ received : Taken(r[1])' \/ HeldAt(r[1])',
         \A t \in Tx : /\ row'[t].status = "completed"
                       /\ row[t].status # "completed"
                       => \E w \in Worker : Reports(w, t)',
         sent \subseteq sent',
         \A t \in Tx, w \in Worker : Reports(w, t) => Reports(w, t)' \/ t \in sent'
  PROVE  NothingIsForgotten'
<1>1. /\ \A r \in received : Taken(r[1]) \/ HeldAt(r[1])
      /\ \A t \in Tx : row[t].status = "completed" =>
           t \in sent \/ \E w \in Worker : Reports(w, t)
  BY KeptAs
<1>2. \A r \in received : r[1] \in Tx
  BY DEF RefInv, IInv, TypeOK
<1>3. \A r \in received' : Taken(r[1])' \/ HeldAt(r[1])'
  BY <1>1, <1>2
<1>4. ASSUME NEW t \in Tx, row'[t].status = "completed"
      PROVE  t \in sent' \/ \E w \in Worker : Reports(w, t)'
  BY <1>1, <1>4
<1> QED
  BY <1>3, <1>4 DEF NothingIsForgotten, Taken, HeldAt, Reports

(* A step that moves no worker, and completes nothing.                     *)
LEMMA KeptIdles ==
  ASSUME RefInv, faults = 0, faults' = 0, NothingIsForgotten, work' = work,
         UNCHANGED <<received, sent>>,
         \A t \in Tx : Taken(t) <=> Taken(t)',
         \A t \in Tx : row'[t].status = "completed" <=> row[t].status = "completed"
  PROVE  NothingIsForgotten'
<1>1. \A t : HeldAt(t)' <=> HeldAt(t)
  BY DEF HeldAt
<1>2. \A t, w : Reports(w, t)' <=> Reports(w, t)
  BY DEF Reports, At
<1> QED
  BY <1>1, <1>2, KeptStays

(* A PUT goes on, away from no report and with no row written.             *)
LEMMA KeptPuts ==
  ASSUME RefInv, faults = 0, faults' = 0, NothingIsForgotten, NEW w \in Put,
         \A u \in Worker \ {w} : work'[u] = work[u], ~At(w, "recorded"),
         UNCHANGED <<row, received, sent>>
  PROVE  NothingIsForgotten'
<1>1. work'[Observer] = work[Observer]
  BY Workers
<1>2. \A t : (HeldAt(t)' <=> HeldAt(t)) /\ (Taken(t)' <=> Taken(t))
  BY <1>1 DEF HeldAt, Taken
<1>3. \A t \in Tx, u \in Worker : Reports(u, t) => Reports(u, t)'
  BY DEF Reports, At
<1> QED
  BY <1>2, <1>3, KeptStays

----------------------------------------------------------------------------
(* The steps, where nothing fails.                                         *)
LEMMA CreatedCalm ==
  ASSUME CalmInv, faults = 0, NEW t \in Tx, HandleCreated(t)
  PROVE  ServesInv' /\ OnceInv' /\ NothingIsForgotten'
<1>1. /\ row' = [row EXCEPT ![t].status = "pending_receiver"] /\ row[t].status = "absent"
      /\ UNCHANGED <<work, payouts, received, sent, faults>>
  BY DEF HandleCreated, outside, bounds
<1>2. /\ \A x \in Tx \ {t} : row'[x] = row[x]
      /\ row'[t].status = "pending_receiver"
  BY <1>1 DEF CalmInv, RefInv, IInv, TypeOK, Row
<1>3. /\ StaysDone
      /\ \A x \in Tx : Taken(x)' <=> Taken(x)
      /\ \A x \in Tx : row'[x].status = "completed" <=> row[x].status = "completed"
  BY <1>1, <1>2 DEF StaysDone, Taken
<1> QED
  BY <1>1, <1>3, OnceIdles, KeptIdles DEF CalmInv, OnceInv

LEMMA DeliverCalm ==
  ASSUME CalmInv, faults = 0, NEW p \in Payment, NEW t \in Tx, Deliver(p, t)
  PROVE  ServesInv' /\ OnceInv' /\ NothingIsForgotten'
<1> DEFINE v == [work[Observer] EXCEPT !.pc = "matched", !.tx = t, !.hash = p]
<1>1. /\ UNCHANGED <<row, payouts, received, sent, faults>>
      /\ work' = [work EXCEPT ![Observer] = v]
      /\ At(Observer, "idle") /\ Matches(p, t)
  BY DEF Deliver, db, outside
<1>2. v \in Task /\ v.pc = "matched" /\ v.tx = t /\ v.todo = work[Observer].todo
  BY Workers DEF CalmInv, RefInv, IInv, TypeOK, Task, Label
<1>3. /\ work'[Observer] = v
      /\ \A u \in Worker \ {Observer} : work'[u] = work[u]
  BY <1>1, <1>2, WorkTo, Workers DEF CalmInv, RefInv, IInv
<1>4. SameIds
  BY <1>3, Workers DEF SameIds
<1>5. ASSUME Once(t), Solo(t) PROVE payouts[t] = 0
  <2>1. \A w \in Worker : ~PaidAt(w, t)
    BY <1>1, Workers
    DEF PaidAt, At, Matches, CalmInv, RefInv, IInv, WorkInv, Owns, Holding, Taken
  <2> QED
    BY <1>1, <1>5, <2>1 DEF Once, Matches, CalmInv, RefInv, IInv, TypeOK
<1>6. ASSUME NEW x \in Tx PROVE Once(x)'
  <2>1. Once(x)
    BY DEF CalmInv, OnceInv
  <2>2. ASSUME Solo(x)
        PROVE  /\ Ahead(Observer, x)' => Ahead(Observer, x) \/ payouts[x] = 0
               /\ ~PaidAt(Observer, x)
    BY <1>1, <1>2, <1>3, <1>5, <2>1, <2>2 DEF Ahead, PaidAt, At
  <2>3. Solo(x)' <=> Solo(x)
    BY <1>4, SoloStays
  <2>4. CASE Solo(x)
    BY <1>1, <1>3, <2>1, <2>2, <2>3, <2>4, OnceKeeps, AheadStays
  <2>5. CASE ~Solo(x)
    BY <2>3, <2>5 DEF Once
  <2> QED
    BY <2>4, <2>5
<1>7. ServesInv'
  BY <1>3, Workers, ServesStays DEF ServesInv, CalmInv
<1>8. NothingIsForgotten'
  <2>1. \A x : ~HeldAt(x) /\ (Taken(x)' <=> Taken(x))
    BY <1>1 DEF HeldAt, At, Taken
  <2>2. \A x \in Tx, w \in Worker : Reports(w, x) => Reports(w, x)'
    BY <1>1, <1>3 DEF Reports, At
  <2> QED
    BY <1>1, <2>1, <2>2, KeptStays DEF CalmInv
<1> QED
  BY <1>6, <1>7, <1>8 DEF OnceInv

LEMMA ReceivedCalm ==
  ASSUME CalmInv, faults = 0, faults' = 0, NotifyReceived
  PROVE  ServesInv' /\ OnceInv' /\ NothingIsForgotten'
<1>1. PICK t \in Tx : t = work[Observer].tx
  BY Workers DEF NotifyReceived, CalmInv, RefInv, IInv, WorkInv, Local, At
<1>2. PICK l \in {"settling", "checking"} :
        Goto(Observer, l) /\ received' = received \cup {<<t, work[Observer].hash>>}
  BY <1>1 DEF NotifyReceived, AfterReceived, Fault
<1>3. At(Observer, "matched") /\ UNCHANGED <<row, payouts, sent>>
  BY DEF NotifyReceived, db
<1>4. StaysDone /\ l \in Label /\ l \in Holding
  BY <1>3 DEF StaysDone, Label, Holding
<1>5. ServesInv' /\ \A x \in Tx : Once(x)'
  BY <1>2, <1>3, <1>4, Workers, OnceGoes DEF CalmInv, OnceInv, Holding, At
<1>6. NothingIsForgotten'
  <2>1. /\ work'[Observer].pc = l /\ work'[Observer].tx = t
        /\ \A u \in Worker \ {Observer} : work'[u] = work[u]
    BY <1>1, <1>2, <1>4, Workers, GotoTask DEF CalmInv, RefInv, IInv
  <2>2. HeldAt(t)'
    BY <2>1 DEF HeldAt
  <2>3. \A x : ~HeldAt(x) /\ (Taken(x)' <=> Taken(x))
    BY <1>3 DEF HeldAt, At, Taken
  <2>4. \A x \in Tx, w \in Worker : Reports(w, x) => Reports(w, x)'
    BY <1>3, <2>1 DEF Reports, At
  <2>5. \A r \in received' \ received : r[1] = t
    BY <1>2
  <2> QED
    BY <1>3, <2>2, <2>3, <2>4, <2>5, KeptStays DEF CalmInv
<1> QED
  BY <1>5, <1>6 DEF OnceInv

LEMMA KycCalm ==
  ASSUME CalmInv, faults = 0, faults' = 0, NEW w \in Worker, CheckKyc(w)
  PROVE  ServesInv' /\ OnceInv' /\ NothingIsForgotten'
<1>1. PICK l \in {"settling", "gating", "resuming"} :
        Goto(w, l) /\ (l = "gating" <=> l # "settling" /\ w = Observer)
  BY DEF CheckKyc, Fault
<1>2. At(w, "checking") /\ UNCHANGED <<row, payouts, received, sent>>
  BY DEF CheckKyc, db, outside
<1>3. StaysDone /\ l \in Label
  BY <1>2 DEF StaysDone, Label
<1>4. ServesInv' /\ \A x \in Tx : Once(x)'
  BY <1>1, <1>2, <1>3, OnceGoes DEF CalmInv, OnceInv, Holding, At
<1>5. NothingIsForgotten'
  <2>1. /\ work'[w].pc = l /\ work'[w].tx = work[w].tx
        /\ \A u \in Worker \ {w} : work'[u] = work[u]
    BY <1>1, <1>3, GotoTask DEF CalmInv, RefInv, IInv
  <2>2. \A x : (HeldAt(x) => HeldAt(x)') /\ (Taken(x)' <=> Taken(x))
    BY <1>1, <1>2, <2>1, Workers DEF HeldAt, At, Taken
  <2>3. \A x \in Tx, u \in Worker : Reports(u, x) => Reports(u, x)'
    BY <1>2, <2>1 DEF Reports, At
  <2> QED
    BY <1>2, <2>2, <2>3, KeptStays DEF CalmInv
<1> QED
  BY <1>4, <1>5 DEF OnceInv

LEMMA ParkedCalm ==
  ASSUME CalmInv, faults = 0, faults' = 0, SetRequiredInfo
  PROVE  ServesInv' /\ OnceInv' /\ NothingIsForgotten'
<1>1. PICK t \in Tx : t = work[Observer].tx
  BY Workers DEF SetRequiredInfo, CalmInv, RefInv, IInv, WorkInv, Local, At
<1>2. /\ At(Observer, "gating") /\ Goto(Observer, "idle")
      /\ row' = Gated(t, work[Observer].hash)
      /\ UNCHANGED <<payouts, received, sent>>
  BY <1>1 DEF SetRequiredInfo, outside, Fault
<1>3. row[t].status = "pending_receiver"
  BY <1>1, <1>2, Workers DEF CalmInv, RefInv, IInv, WorkInv, Owns, Holding, At
<1>4. /\ row'[t].status = "pending_customer_info_update"
      /\ \A x \in Tx \ {t} : row'[x] = row[x]
  BY <1>2 DEF Gated, CalmInv, RefInv, IInv, TypeOK
<1>5. StaysDone
  BY <1>3, <1>4 DEF StaysDone
<1>6. ServesInv' /\ \A x \in Tx : Once(x)'
  BY <1>2, <1>5, Workers, OnceGoes DEF CalmInv, OnceInv, Holding, At, Label
<1>7. NothingIsForgotten'
  <2>1. \A u \in Worker \ {Observer} : work'[u] = work[u]
    BY <1>2, Workers, GotoTask DEF CalmInv, RefInv, IInv, Label
  <2>2. \A x \in Tx : (Taken(x) => Taken(x)') /\ (HeldAt(x) => Taken(x)')
    BY <1>1, <1>4 DEF HeldAt, Taken
  <2>3. \A x \in Tx, u \in Worker : Reports(u, x) => Reports(u, x)'
    BY <1>2, <2>1 DEF Reports, At
  <2>4. \A x \in Tx : row'[x].status = "completed" => row[x].status = "completed"
    BY <1>4
  <2> QED
    BY <1>2, <2>2, <2>3, <2>4, KeptStays DEF CalmInv
<1> QED
  BY <1>6, <1>7 DEF OnceInv

LEMMA PayoutCalm ==
  ASSUME CalmInv, faults = 0, faults' = 0, NEW w \in Worker, Payout(w)
  PROVE  ServesInv' /\ OnceInv' /\ NothingIsForgotten'
<1>1. PICK t \in Tx : t = work[w].tx
  BY DEF Payout, CalmInv, RefInv, IInv, WorkInv, Local, At
<1>2. /\ At(w, "settling") /\ Goto(w, "paid")
      /\ payouts' = [payouts EXCEPT ![t] = @ + 1]
      /\ UNCHANGED <<row, received, sent>>
  BY <1>1 DEF Payout, db, Fault
<1>3. /\ work'[w].pc = "paid"
      /\ work'[w].tx = t /\ work'[w].id = work[w].id /\ work'[w].todo = work[w].todo
      /\ \A u \in Worker \ {w} : work'[u] = work[u]
  BY <1>1, <1>2, GotoTask DEF CalmInv, RefInv, IInv, Label
<1>4. SameIds
  BY <1>3, Workers DEF SameIds
<1>5. t \notin work[w].todo
  BY <1>1, <1>2 DEF CalmInv, RefInv, ListsInv, Lists, At
<1>6. ASSUME NEW x \in Tx, Solo(x)' PROVE Once(x)'
  <2>1. Once(x) /\ Solo(x)
    BY <1>4, <1>6, SoloStays DEF CalmInv, OnceInv
  <2>2. CASE x = t
    <3>1. Ahead(w, t)
      BY <1>1, <1>2 DEF Ahead, At
    <3>2. payouts'[t] = 1
      BY <1>2, <2>1, <2>2, <3>1 DEF Once, CalmInv, RefInv, IInv, TypeOK
    <3>3. PaidAt(w, t)'
      BY <1>3 DEF PaidAt, At
    <3>4. ASSUME NEW u \in Worker PROVE ~Ahead(u, t)'
      <4>1. CASE u = w
        BY <1>3, <1>5, <4>1 DEF Ahead
      <4>2. CASE u # w
        BY <1>3, <2>1, <2>2, <3>1, <4>2, OneWorker, AheadStays DEF CalmInv
      <4> QED
        BY <4>1, <4>2
    <3> QED
      BY <2>2, <3>2, <3>3, <3>4 DEF Once
  <2>3. CASE x # t
    <3>1. payouts'[x] = payouts[x]
      BY <1>2, <2>3 DEF CalmInv, RefInv, IInv, TypeOK
    <3>2. (Ahead(w, x)' => Ahead(w, x)) /\ ~PaidAt(w, x)
      BY <1>1, <1>2, <1>3, <2>3 DEF Ahead, PaidAt, At
    <3> QED
      BY <1>2, <1>3, <2>1, <3>1, <3>2, OnceKeeps, AheadStays
  <2> QED
    BY <2>2, <2>3
<1>7. \A x \in Tx : Once(x)'
  BY <1>6 DEF Once
<1>8. ServesInv'
  <2> SUFFICES ASSUME NEW u \in Put PROVE Serves(u)'
    BY DEF ServesInv
  <2>1. CASE u = w
    BY <1>1, <1>2, <1>3, <2>1 DEF CalmInv, ServesInv, Serves, Holding, At
  <2>2. CASE u # w
    BY <1>3, <2>2, Workers, ServesStays DEF CalmInv
  <2> QED
    BY <2>1, <2>2
<1>9. NothingIsForgotten'
  <2>1. \A x : (HeldAt(x) => HeldAt(x)') /\ (Taken(x)' <=> Taken(x))
    BY <1>1, <1>2, <1>3, Workers DEF HeldAt, At, Taken
  <2>2. \A x \in Tx, u \in Worker : Reports(u, x) => Reports(u, x)'
    BY <1>2, <1>3 DEF Reports, At
  <2> QED
    BY <1>2, <2>1, <2>2, KeptStays DEF CalmInv
<1> QED
  BY <1>7, <1>8, <1>9 DEF OnceInv

LEMMA CompletedCalm ==
  ASSUME CalmInv, faults = 0, faults' = 0, NEW w \in Worker, SetCompleted(w)
  PROVE  ServesInv' /\ OnceInv' /\ NothingIsForgotten'
<1>1. PICK t \in Tx : t = work[w].tx
  BY DEF SetCompleted, CalmInv, RefInv, IInv, WorkInv, Local, At
<1>2. /\ At(w, "paid") /\ Goto(w, "recorded") /\ row' = Completed(t, work[w].hash)
      /\ UNCHANGED <<payouts, received, sent>>
  BY <1>1 DEF SetCompleted, outside, Fault
<1>3. /\ row'[t].status = "completed"
      /\ \A x \in Tx \ {t} : row'[x] = row[x]
  BY <1>2 DEF Completed, CalmInv, RefInv, IInv, TypeOK
<1>4. StaysDone
  BY <1>3 DEF StaysDone
<1>5. ServesInv' /\ \A x \in Tx : Once(x)'
  BY <1>1, <1>2, <1>3, <1>4, OnceGoes DEF CalmInv, OnceInv, Holding, At, Label
<1>6. NothingIsForgotten'
  <2>1. /\ work'[w].pc = "recorded" /\ work'[w].tx = t
        /\ \A u \in Worker \ {w} : work'[u] = work[u]
    BY <1>1, <1>2, GotoTask DEF CalmInv, RefInv, IInv, Label
  <2>2. \A x \in Tx : /\ Taken(x) => Taken(x)'
                      /\ HeldAt(x) => HeldAt(x)' \/ Taken(x)'
    BY <1>1, <1>3, <2>1, Workers DEF HeldAt, Taken
  <2>3. \A x \in Tx, u \in Worker : Reports(u, x) => Reports(u, x)'
    BY <1>2, <2>1 DEF Reports, At
  <2>4. Reports(w, t)'
    BY <2>1 DEF Reports, At
  <2> QED
    BY <1>2, <1>3, <2>2, <2>3, <2>4, KeptStays DEF CalmInv
<1> QED
  BY <1>5, <1>6 DEF OnceInv

LEMMA SentCalm ==
  ASSUME CalmInv, faults = 0, faults' = 0, NEW w \in Worker, NotifySent(w)
  PROVE  ServesInv' /\ OnceInv' /\ NothingIsForgotten'
<1>1. PICK t \in Tx : t = work[w].tx
  BY DEF NotifySent, CalmInv, RefInv, IInv, WorkInv, Local, At
<1>2. PICK l \in {"idle", "resuming"} : Goto(w, l) /\ (l = "idle" => w = Observer)
  BY DEF NotifySent, Rest
<1>3. At(w, "recorded") /\ sent' = sent \cup {t} /\ UNCHANGED <<row, payouts, received>>
  BY <1>1 DEF NotifySent, db, Fault
<1>4. StaysDone /\ l \in Label
  BY <1>3 DEF StaysDone, Label
<1>5. ServesInv' /\ \A x \in Tx : Once(x)'
  BY <1>2, <1>3, <1>4, OnceGoes DEF CalmInv, OnceInv, Holding, At
<1>6. NothingIsForgotten'
  <2>1. \A u \in Worker \ {w} : work'[u] = work[u]
    BY <1>2, <1>4, GotoTask DEF CalmInv, RefInv, IInv
  <2>2. \A x \in Tx : (Taken(x) <=> Taken(x)') /\ (HeldAt(x) => HeldAt(x)')
    BY <1>3, <2>1, Workers DEF HeldAt, Taken, At
  <2>3. \A x \in Tx, u \in Worker : Reports(u, x) => Reports(u, x)' \/ x \in sent'
    BY <1>1, <1>3, <2>1 DEF Reports, At
  <2> QED
    BY <1>3, <2>2, <2>3, KeptStays DEF CalmInv
<1> QED
  BY <1>5, <1>6 DEF OnceInv

(* What OncePuts and KeptPuts leave to show of a PUT.                      *)
LEMMA PutCalm ==
  ASSUME CalmInv, faults = 0, faults' = 0, NEW w \in Put, NEW v \in Task,
         work' = [work EXCEPT ![w] = v], UNCHANGED <<row, payouts, received, sent>>,
         v.id = work[w].id \/ (work[w].id = NoReceiver /\ v.id \in Receiver),
         v.pc # "paid", work[w].pc \notin {"paid", "recorded"},
         v.pc \in {"idle", "unfound", "found", "spawned"} => v.todo = {},
         \A t \in v.todo : v.id = ReceiverOf[t],
         v.pc \in Holding => v.id = ReceiverOf[v.tx] /\ v.id \in Receiver,
         \A t \in Tx : /\ t \in v.todo \/ (v.tx = t /\ v.pc \in Holding)
                       /\ Solo(t)
                       => Ahead(w, t) \/ payouts[t] = 0
  PROVE  ServesInv' /\ OnceInv' /\ NothingIsForgotten'
<1>1. w \in Worker /\ \A u \in Worker \ {w} : work'[u] = work[u]
  BY Workers, WorkTo DEF CalmInv, RefInv, IInv
<1>2. RefInv /\ ServesInv /\ (\A t \in Tx : Once(t)) /\ NothingIsForgotten
  BY DEF CalmInv, OnceInv
<1>3. ServesInv' /\ \A t \in Tx : Once(t)'
  BY <1>1, <1>2, OncePuts DEF At
<1>4. NothingIsForgotten'
  BY <1>1, <1>2, KeptPuts DEF At
<1> QED
  BY <1>3, <1>4 DEF OnceInv

LEMMA PutFindsCalm ==
  ASSUME CalmInv, faults = 0, faults' = 0, NEW w \in Put, PutCustomer(w)
  PROVE  ServesInv' /\ OnceInv' /\ NothingIsForgotten'
<1>1. /\ work[w] \in Task /\ Serves(w) /\ Lists(w)
  BY Workers DEF CalmInv, RefInv, IInv, TypeOK, ServesInv, ListsInv
<1>2. PICK gives \in SUBSET Field :
        \/ \E r \in Receiver, nulls \in SUBSET (Field \ gives), typed \in BOOLEAN :
             PutFinds(w, r, gives, nulls, typed)
        \/ PutFindsNone(w, gives)
  BY DEF PutCustomer
<1>3. CASE PutFindsNone(w, gives)
  <2> DEFINE v == [work[w] EXCEPT !.pc = "unfound", !.gives = gives, !.typed = TRUE]
  <2>1. /\ work' = [work EXCEPT ![w] = v] /\ At(w, "idle")
        /\ UNCHANGED <<row, payouts, received, sent>>
    BY <1>3 DEF PutFindsNone, db, outside
  <2>2. v \in Task /\ v.pc = "unfound" /\ v.id = work[w].id /\ v.todo = work[w].todo
    BY <1>1 DEF Task, Label
  <2> HIDE DEF v
  <2>3. v.todo = {}
    BY <1>1, <2>1, <2>2 DEF Serves, At
  <2> QED
    BY <2>1, <2>2, <2>3, PutCalm DEF At, Holding
<1>4. CASE \E r \in Receiver, nulls \in SUBSET (Field \ gives), typed \in BOOLEAN :
             PutFinds(w, r, gives, nulls, typed)
  <2>1. PICK r \in Receiver, nulls \in SUBSET (Field \ gives), typed \in BOOLEAN :
          PutFinds(w, r, gives, nulls, typed)
    BY <1>4
  <2> DEFINE v == [work[w] EXCEPT !.pc = "found", !.id = r, !.gives = gives,
                                  !.nulls = nulls, !.typed = typed]
  <2>2. /\ work' = [work EXCEPT ![w] = v] /\ At(w, "idle")
        /\ UNCHANGED <<row, payouts, received, sent>>
    BY <2>1 DEF PutFinds, db, outside
  <2>3. v \in Task /\ v.pc = "found" /\ v.id = r /\ v.todo = work[w].todo
    BY <1>1 DEF Task, Label
  <2> HIDE DEF v
  <2>4. v.todo = {} /\ work[w].id = NoReceiver
    BY <1>1, <2>2, <2>3 DEF Serves, Lists, At
  <2> QED
    BY <2>2, <2>3, <2>4, PutCalm DEF At, Holding
<1> QED
  BY <1>2, <1>3, <1>4

LEMMA PutWritesCalm ==
  ASSUME CalmInv, faults = 0, faults' = 0, NEW w \in Put, NEW r \in Receiver, PutWrites(w, r)
  PROVE  ServesInv' /\ OnceInv' /\ NothingIsForgotten'
<1>1. /\ w \in Worker /\ w # Observer /\ work[w] \in Task /\ Serves(w) /\ Lists(w)
  BY Workers DEF CalmInv, RefInv, IInv, TypeOK, ServesInv, ListsInv
<1>2. PICK l \in {"spawned", "ended"} :
        work' = [work EXCEPT ![w] = [work[w] EXCEPT !.pc = l, !.id = r]]
  <2>1. ~Fault
    BY DEF Fault
  <2>2. work' = [work EXCEPT ![w].pc = IF work[w].typed THEN "spawned" ELSE "ended",
                             ![w].id = r]
    BY <2>1 DEF PutWrites
  <2> QED
    BY <1>1, <2>2 DEF CalmInv, RefInv, IInv, TypeOK
<1> DEFINE v == [work[w] EXCEPT !.pc = l, !.id = r]
<1>3. /\ UNCHANGED <<row, payouts, received, sent>>
      /\ (At(w, "found") /\ r = work[w].id) \/ At(w, "unfound")
  BY DEF PutWrites, outside
<1>4. /\ v \in Task /\ v.pc = l /\ v.id = r /\ v.todo = work[w].todo
      /\ work' = [work EXCEPT ![w] = v]
  BY <1>1, <1>2 DEF Task, Label
<1> HIDE DEF v
<1>5. v.todo = {} /\ (r = work[w].id \/ work[w].id = NoReceiver)
  BY <1>1, <1>3, <1>4 DEF Serves, Lists, At
<1> QED
  BY <1>3, <1>4, <1>5, PutCalm DEF At, Holding

(* The list is of parked receives; none of them is paid out already.       *)
LEMMA FindPendingCalm ==
  ASSUME CalmInv, faults = 0, faults' = 0, NEW w \in Put, FindPending(w)
  PROVE  ServesInv' /\ OnceInv' /\ NothingIsForgotten'
<1>1. /\ w \in Worker /\ work[w] \in Task /\ Local(w)
  BY Workers DEF CalmInv, RefInv, IInv, TypeOK, WorkInv
<1> DEFINE v == [work[w] EXCEPT !.pc = "resuming", !.todo = PendingByReceiver(work[w].id)]
<1>2. /\ At(w, "spawned") /\ work' = [work EXCEPT ![w] = v]
      /\ UNCHANGED <<row, payouts, received, sent>>
  <2>1. ~Fault
    BY DEF Fault
  <2>2. work' = [work EXCEPT ![w].pc = "resuming",
                             ![w].todo = PendingByReceiver(work[w].id)]
    BY <2>1 DEF FindPending
  <2> QED
    BY <2>2 DEF FindPending, db, outside
<1>3. /\ v \in Task /\ v.pc = "resuming" /\ v.id = work[w].id
      /\ v.todo = PendingByReceiver(work[w].id)
  <2>1. PendingByReceiver(work[w].id) \in SUBSET Tx
    BY DEF PendingByReceiver
  <2> QED
    BY <1>1, <2>1 DEF Task, Label
<1> HIDE DEF v
<1>4. ASSUME NEW t \in Tx, t \in v.todo, Solo(t) PROVE payouts[t] = 0
  <2>1. /\ ReceiverOf[t] = work[w].id /\ work[w].id \in Receiver
        /\ row[t].status = "pending_customer_info_update"
    BY <1>1, <1>2, <1>3, <1>4 DEF PendingByReceiver, Local, At
  <2>2. ASSUME NEW u \in Worker, PaidAt(u, t) PROVE FALSE
    <3>1. u # Observer
      BY <2>1, <2>2, Workers
      DEF PaidAt, At, CalmInv, RefInv, IInv, WorkInv, Owns, Holding
    <3>2. u \in Put /\ Serves(u)
      BY <3>1 DEF Worker, CalmInv, ServesInv
    <3>3. u \in Named(t) /\ w \in Named(t)
      BY <2>1, <2>2, <3>2 DEF PaidAt, Serves, Holding, At, Named
    <3>4. u = w
      BY <1>4, <3>3 DEF Solo
    <3> QED
      BY <1>2, <2>2, <3>4 DEF PaidAt, At
  <2> QED
    BY <1>4, <2>1, <2>2 DEF CalmInv, OnceInv, Once, RefInv, IInv, TypeOK
<1> QED
  BY <1>2, <1>3, <1>4, PutCalm DEF At, Holding, PendingByReceiver

LEMMA ResumeCalm ==
  ASSUME CalmInv, faults = 0, faults' = 0, NEW w \in Put, NEW t \in Tx, ResumeIfReady(w, t)
  PROVE  ServesInv' /\ OnceInv' /\ NothingIsForgotten'
<1>1. /\ w \in Worker /\ work[w] \in Task /\ Serves(w) /\ Local(w)
  BY Workers DEF CalmInv, RefInv, IInv, TypeOK, ServesInv, WorkInv
<1>2. /\ At(w, "resuming") /\ t \in work[w].todo
      /\ UNCHANGED <<row, payouts, received, sent>>
  BY DEF ResumeIfReady, db, outside
<1>3. work[w].id = ReceiverOf[t] /\ work[w].id \in Receiver
  BY <1>1, <1>2 DEF Serves, Local
<1>4. CASE /\ row[t].hash # NoPayment
           /\ work' = [work EXCEPT ![w].todo = @ \ {t}, ![w].pc = "checking",
                                   ![w].tx = t, ![w].hash = row[t].hash]
  <2> DEFINE v == [work[w] EXCEPT !.todo = @ \ {t}, !.pc = "checking", !.tx = t,
                                  !.hash = row[t].hash]
  <2>1. /\ v \in Task /\ v.pc = "checking" /\ v.id = work[w].id /\ v.tx = t
        /\ v.todo = work[w].todo \ {t}
    BY <1>1 DEF CalmInv, RefInv, IInv, TypeOK, Row, Task, Label
  <2>2. work' = [work EXCEPT ![w] = v]
    BY <1>1, <1>4 DEF CalmInv, RefInv, IInv, TypeOK
  <2> HIDE DEF v
  <2>3. \A x \in Tx : x \in v.todo \/ v.tx = x => Ahead(w, x)
    BY <1>2, <2>1 DEF Ahead
  <2>4. \A x \in v.todo : v.id = ReceiverOf[x]
    BY <1>1, <2>1 DEF Serves
  <2> QED
    BY <1>2, <1>3, <2>1, <2>2, <2>3, <2>4, PutCalm DEF At
<1>5. CASE work' = [work EXCEPT ![w].todo = @ \ {t}]
  <2> DEFINE v == [work[w] EXCEPT !.todo = @ \ {t}]
  <2>1. /\ v \in Task /\ v.pc = "resuming" /\ v.id = work[w].id
        /\ v.todo = work[w].todo \ {t}
    BY <1>1, <1>2 DEF Task, At
  <2>2. work' = [work EXCEPT ![w] = v]
    BY <1>5
  <2> HIDE DEF v
  <2>3. \A x \in v.todo : v.id = ReceiverOf[x] /\ Ahead(w, x)
    BY <1>1, <2>1 DEF Serves, Ahead
  <2> QED
    BY <1>2, <2>1, <2>2, <2>3, PutCalm DEF At, Holding
<1> QED
  BY <1>4, <1>5 DEF ResumeIfReady

LEMMA ResumeEndsCalm ==
  ASSUME CalmInv, faults = 0, faults' = 0, NEW w \in Put, ResumeEnds(w)
  PROVE  ServesInv' /\ OnceInv' /\ NothingIsForgotten'
<1>1. w \in Worker /\ w # Observer
  BY Workers
<1>2. /\ At(w, "resuming") /\ Goto(w, "ended")
      /\ UNCHANGED <<row, payouts, received, sent>>
  BY DEF ResumeEnds, db, outside
<1>3. StaysDone /\ \A u \in Worker \ {w} : work'[u] = work[u]
  BY <1>1, <1>2, GotoTask DEF StaysDone, CalmInv, RefInv, IInv, Label
<1>4. ServesInv' /\ \A x \in Tx : Once(x)'
  BY <1>1, <1>2, <1>3, OnceGoes DEF CalmInv, OnceInv, Holding, At, Label
<1>5. NothingIsForgotten'
  BY <1>2, <1>3, KeptPuts DEF CalmInv, At
<1> QED
  BY <1>4, <1>5 DEF OnceInv

----------------------------------------------------------------------------
LEMMA CalmInit == Init => CalmInv
<1> SUFFICES ASSUME Init PROVE CalmInv
  OBVIOUS
<1>1. \A w \in Worker : work[w] = Fresh
  BY DEF Init
<1>2. ServesInv /\ OnceInv
  BY <1>1, Workers DEF Init, ServesInv, Serves, OnceInv, Once, Ahead, Fresh, Holding
<1>3. NothingIsForgotten
  BY DEF Init, NothingIsForgotten
<1> QED
  BY <1>2, <1>3, PayoutInit DEF CalmInv

LEMMA CalmStep == ASSUME CalmInv, [Next]_vars PROVE CalmInv'
<1>1. RefInv'
  BY PayoutRefines DEF CalmInv
<1>2. faults \in Nat /\ (faults' = faults \/ faults' = faults + 1)
  BY DEF CalmInv, RefInv, IInv, TypeOK, Next, Fault, NoFault, HandleCreated, Deliver,
     CompleteReceive, NotifyReceived, CheckKyc, SetRequiredInfo, Settle, Payout,
     SetCompleted, NotifySent, PutCustomer, PutFinds, PutFindsNone, Resume, PutWrites,
     FindPending, ResumeIfReady, ResumeEnds, DeleteCustomer, Crash, bounds, vars
<1> SUFFICES ASSUME faults' = 0 PROVE ServesInv' /\ OnceInv' /\ NothingIsForgotten'
  BY <1>1 DEF CalmInv, OnceInv, NothingIsForgotten
<1>3. faults = 0
  BY <1>2
<1>4. CASE \E t \in Tx : HandleCreated(t)
  BY <1>3, <1>4, CreatedCalm
<1>5. CASE \E p \in Payment, t \in Tx : Deliver(p, t)
  BY <1>3, <1>5, DeliverCalm
<1>6. ASSUME NEW w \in Worker, Settle(w) \/ CheckKyc(w)
      PROVE  ServesInv' /\ OnceInv' /\ NothingIsForgotten'
  BY <1>3, <1>6, PayoutCalm, CompletedCalm, SentCalm, KycCalm DEF Settle
<1>7. CASE CompleteReceive
  BY <1>3, <1>6, <1>7, Workers, ReceivedCalm, ParkedCalm DEF CompleteReceive
<1>8. CASE \E w \in Put : PutCustomer(w)
  BY <1>3, <1>8, PutFindsCalm
<1>9. CASE \E w \in Put : Resume(w)
  BY <1>3, <1>6, <1>9, Workers, PutWritesCalm, FindPendingCalm, ResumeCalm, ResumeEndsCalm
  DEF Resume
<1>10. CASE (\E r \in Receiver : DeleteCustomer(r)) \/ UNCHANGED vars
  <2>1. UNCHANGED <<row, work, payouts, received, sent>>
    BY <1>10 DEF DeleteCustomer, vars, db, outside, bounds
  <2>2. StaysDone /\ \A t \in Tx : Taken(t)' <=> Taken(t)
    BY <2>1 DEF StaysDone, Taken
  <2> QED
    BY <1>3, <2>1, <2>2, OnceIdles, KeptIdles DEF CalmInv, OnceInv
<1>11. CASE Crash
  BY <1>2, <1>3, <1>11 DEF Crash, Fault
<1> QED
  BY <1>4, <1>5, <1>7, <1>8, <1>9, <1>10, <1>11 DEF Next

LEMMA OnceImplies == CalmInv => SoloPaidOnce
<1> SUFFICES ASSUME CalmInv, faults = 0, NEW t \in Tx, Solo(t) PROVE payouts[t] <= 1
  BY DEF SoloPaidOnce
<1> QED
  BY DEF CalmInv, OnceInv, Once

LEMMA CalmInvariant == Spec => []CalmInv
<1>1. CalmInv /\ [Next]_vars => CalmInv'
  BY CalmStep
<1> QED
  BY <1>1, CalmInit, PTL DEF Spec

(* Where nothing fails, a receive is paid out once, unless two PUTs name   *)
(* its receiver (observer.rs, sep12.rs, sep31/worker.rs).                  *)
THEOREM ReceivesArePaidOnce == Spec => []SoloPaidOnce
<1> QED
  BY CalmInvariant, OnceImplies, PTL

(* Where nothing fails, no payment that was heard of and no completed      *)
(* receive is left half-way (sep31/worker.rs).                             *)
THEOREM NoReceiveIsForgotten == Spec => []NothingIsForgotten
<1>1. CalmInv => NothingIsForgotten
  BY DEF CalmInv
<1> QED
  BY <1>1, CalmInvariant, PTL
=============================================================================
