--------------------------- MODULE DepositProofs ---------------------------
(***************************************************************************)
(* What holds of Deposit for every number of deposits, sessions, amounts   *)
(* and faults.                                                             *)
(***************************************************************************)
EXTENDS Deposit, FiniteSetTheorems, TLAPS

(* The payees with a customers row, or whose row the platform deleted.     *)
HaveHadRow == {c[2] : c \in customers} \cup erased

(* The payout a of deposit t was asked for by one of t's submissions, and  *)
(* t's payee has had a customers row.                                      *)
Backed(t, a) ==
  /\ PayeeOf[t] \in HaveHadRow
  /\ \E u \in Session : sess[u].tx = t /\ sess[u].asked = a

(* What the locals of a session say, given where it stands.                *)
Local(s) ==
  /\ At(s, "idle") => sess[s].tx = NoTx
  /\ ~At(s, "idle") => sess[s].tx \in Tx /\ sess[s].asked \in Amount
  /\ sess[s].pc \in {"idle", "checked", "found", "upserted", "spawned", "loaded"}
       => sess[s].env = NoEnvelope
  /\ At(s, "found") /\ sess[s].existing # {} => PayeeOf[sess[s].tx] \in HaveHadRow
  /\ At(s, "upserted") => PayeeOf[sess[s].tx] \in HaveHadRow
  /\ sess[s].due # NoAmount => sess[s].tx \in Tx /\ Backed(sess[s].tx, sess[s].due)
  /\ sess[s].env # NoEnvelope =>
       /\ sess[s].tx \in Tx
       /\ sess[s].env.to = PayeeOf[sess[s].tx]
       /\ Backed(sess[s].tx, sess[s].env.amount)
  /\ sess[s].pc \in {"signed", "submitted", "confirmed", "recorded"}
       => sess[s].env # NoEnvelope
  /\ sess[s].pc \in {"confirmed", "recorded"} => sess[s].env \in paid
  /\ At(s, "recorded") => row[sess[s].tx].hash # NoEnvelope

SessionInv == \A s \in Session : Local(s)

RowInv ==
  \A t \in Tx :
    /\ row[t].status \in {"absent", "received"} => row[t].amount_out = NoAmount
    /\ row[t].amount_out # NoAmount => Backed(t, row[t].amount_out)
    /\ row[t].status = "completed" => row[t].hash # NoEnvelope
    /\ row[t].hash # NoEnvelope => row[t].hash \in paid /\ row[t].hash.to = PayeeOf[t]

SeenInv == \A e \in network \cup paid \cup failed : \E s \in Session : sess[s].env = e

SentInv ==
  \A r \in sent :
    /\ r[1] \in Tx
    /\ row[r[1]].hash # NoEnvelope
    /\ r[2] \in paid /\ r[2].to = PayeeOf[r[1]]

(* The inductive invariant.                                                *)
IInv == TypeOK /\ SessionInv /\ RowInv /\ SeenInv /\ SentInv

----------------------------------------------------------------------------
LEMMA TypeInit == Init => TypeOK
BY DepositAssumption DEF Init, TypeOK, Row, Task, Status, Label

(* A task that moves on keeps every local but its program counter.         *)
LEMMA GotoSess ==
  ASSUME TypeOK, NEW s \in Session, NEW l \in Label, Goto(s, l)
  PROVE  /\ sess' \in [Session -> Task]
         /\ sess'[s].pc = l
         /\ sess'[s].tx = sess[s].tx /\ sess'[s].asked = sess[s].asked
         /\ sess'[s].due = sess[s].due /\ sess'[s].env = sess[s].env
         /\ sess'[s].existing = sess[s].existing
         /\ \A u \in Session \ {s} : sess'[u] = sess[u]
<1>1. sess[s] \in Task
  BY DEF TypeOK
<1>2. [sess[s] EXCEPT !.pc = l] \in Task
  BY <1>1 DEF Task
<1>3. sess' = [sess EXCEPT ![s] = [sess[s] EXCEPT !.pc = l]]
  BY DEF Goto
<1> QED
  BY <1>1, <1>2, <1>3 DEF TypeOK, Task

(* A form that looks its payee up, or has done with what it found, keeps   *)
(* the other locals.                                                       *)
LEMMA FoundSess ==
  ASSUME TypeOK, NEW s \in Session, NEW l \in Label, NEW c \in SUBSET Customer,
         sess' = [sess EXCEPT ![s].pc = l, ![s].existing = c]
  PROVE  /\ sess' \in [Session -> Task]
         /\ sess'[s].pc = l /\ sess'[s].existing = c
         /\ sess'[s].tx = sess[s].tx /\ sess'[s].asked = sess[s].asked
         /\ sess'[s].due = sess[s].due /\ sess'[s].env = sess[s].env
         /\ \A u \in Session \ {s} : sess'[u] = sess[u]
<1> DEFINE k == [sess[s] EXCEPT !.pc = l, !.existing = c]
<1>1. sess[s] \in Task
  BY DEF TypeOK
<1>2. /\ k \in Task /\ k.pc = l /\ k.existing = c
      /\ k.tx = sess[s].tx /\ k.asked = sess[s].asked
      /\ k.due = sess[s].due /\ k.env = sess[s].env
  BY <1>1 DEF Task
<1>3. sess' = [sess EXCEPT ![s] = k]
  OBVIOUS
<1> HIDE DEF k
<1> QED
  BY <1>2, <1>3 DEF TypeOK

(* The row updates stay in Row and change one deposit.                     *)
LEMMA RowUpdates ==
  ASSUME TypeOK, NEW t \in Tx
  PROVE  /\ \A a \in Amount : Submitted(t, a) \in [Tx -> Row]
         /\ \A e \in Envelope : Completed(t, e) \in [Tx -> Row]
         /\ Errored(t) \in [Tx -> Row]
<1>1. row \in [Tx -> Row]
  BY DEF TypeOK
<1>2. \A a \in Amount : [row[t] EXCEPT !.status = "awaiting_stellar_payment",
                                      !.amount_out = a] \in Row
  BY <1>1 DEF Row, Status
<1>3. \A e \in Envelope : [row[t] EXCEPT !.status = "completed", !.hash = e] \in Row
  BY <1>1 DEF Row, Status
<1>4. [row[t] EXCEPT !.status = "error"] \in Row
  BY <1>1 DEF Row, Status
<1> QED
  BY <1>1, <1>2, <1>3, <1>4 DEF Submitted, Completed, Errored

----------------------------------------------------------------------------
(* What every step leaves standing: that a payee has had a row, payments   *)
(* that happened, the fact that a row names a payment, and the history in  *)
(* the sessions.                                                           *)
Keeps ==
  /\ HaveHadRow \subseteq HaveHadRow'
  /\ paid \subseteq paid'
  /\ \A t \in Tx : row[t].hash # NoEnvelope => row'[t].hash # NoEnvelope
  /\ \A u \in Session :
       /\ ~At(u, "idle") => sess'[u].tx = sess[u].tx /\ sess'[u].asked = sess[u].asked
       /\ sess[u].env # NoEnvelope => sess'[u].env = sess[u].env

LEMMA BackedStays ==
  ASSUME IInv, Keeps, NEW t \in Tx, NEW a, Backed(t, a)
  PROVE  Backed(t, a)'
<1>1. PICK u \in Session : sess[u].tx = t /\ sess[u].asked = a
  BY DEF Backed
<1>2. ~At(u, "idle")
  BY <1>1, DepositAssumption DEF IInv, SessionInv, Local
<1> QED
  BY <1>1, <1>2 DEF Backed, Keeps

(* An action of session s disturbs no other session's locals.              *)
LEMMA OthersStay ==
  ASSUME IInv, Keeps, NEW s \in Session,
         \A u \in Session \ {s} : sess'[u] = sess[u], Local(s)'
  PROVE  SessionInv'
<1> SUFFICES ASSUME NEW u \in Session \ {s} PROVE Local(u)'
  BY DEF SessionInv
<1>1. sess'[u] = sess[u] /\ Local(u)
  BY DEF IInv, SessionInv
<1>2. sess[u].due # NoAmount => Backed(sess[u].tx, sess[u].due)'
  BY <1>1, BackedStays DEF Local
<1>3. sess[u].env # NoEnvelope => Backed(sess[u].tx, sess[u].env.amount)'
  BY <1>1, BackedStays DEF Local
<1> QED
  BY <1>1, <1>2, <1>3 DEF Local, Keeps, At

LEMMA RowStays == ASSUME IInv, Keeps, row' = row PROVE RowInv'
BY BackedStays DEF IInv, RowInv, Keeps

LEMMA SeenStays ==
  ASSUME IInv, Keeps,
         network' \cup paid' \cup failed' \subseteq network \cup paid \cup failed
  PROVE  SeenInv'
<1> SUFFICES ASSUME NEW e \in network \cup paid \cup failed
             PROVE  \E s \in Session : sess'[s].env = e
  BY DEF SeenInv
<1>1. PICK s \in Session : sess[s].env = e
  BY DEF IInv, SeenInv
<1>2. e # NoEnvelope
  BY DepositAssumption DEF IInv, TypeOK
<1> QED
  BY <1>1, <1>2 DEF Keeps, HaveHadRow

LEMMA SentStays == ASSUME IInv, Keeps, sent' = sent PROVE SentInv'
BY DEF IInv, SentInv, Keeps

----------------------------------------------------------------------------
(* The initial states, and one lemma per action.                           *)
LEMMA InitIInv == Init => IInv
<1> SUFFICES ASSUME Init PROVE IInv
  OBVIOUS
<1> USE DepositAssumption DEF Init
<1>1. TypeOK
  <2>1. [status |-> "absent", amount_out |-> NoAmount, hash |-> NoEnvelope] \in Row
    BY DEF Row, Status
  <2>2. [pc |-> "idle", tx |-> NoTx, existing |-> {}, asked |-> NoAmount,
         due |-> NoAmount, env |-> NoEnvelope] \in Task
    BY DEF Task, Label
  <2> QED
    BY <2>1, <2>2 DEF TypeOK
<1>2. SessionInv
  BY DEF SessionInv, Local, At
<1>3. RowInv
  BY DEF RowInv
<1> QED
  BY <1>1, <1>2, <1>3 DEF IInv, SeenInv, SentInv

LEMMA HandleCreatedStep ==
  ASSUME IInv, NEW t \in Tx, HandleCreated(t) PROVE IInv'
<1>1. row' \in [Tx -> Row]
  <2>1. [row[t] EXCEPT !.status = "received"] \in Row
    BY DEF IInv, TypeOK, Row, Status
  <2>2. row' = [row EXCEPT ![t] = [row[t] EXCEPT !.status = "received"]]
    BY DEF HandleCreated
  <2> QED
    BY <2>1, <2>2 DEF IInv, TypeOK
<1>2. /\ \A x \in Tx : row'[x].amount_out = row[x].amount_out /\ row'[x].hash = row[x].hash
      /\ \A x \in Tx \ {t} : row'[x] = row[x]
      /\ row[t].status = "absent" /\ row'[t].status = "received"
  BY DEF HandleCreated, IInv, TypeOK, Row
<1>3. UNCHANGED <<customers, erased, sess, ledger, platform>> /\ faults' \in {faults, faults + 1}
  BY DEF Fault, NoFault, HandleCreated
<1>4. TypeOK'
  BY <1>1, <1>3 DEF IInv, TypeOK, ledger, platform
<1>5. Keeps
  BY <1>2, <1>3 DEF Keeps, HaveHadRow, ledger
<1>6. SessionInv'
  <2> SUFFICES ASSUME NEW s \in Session PROVE Local(s)'
    BY DEF SessionInv
  <2>1. Local(s)
    BY DEF IInv, SessionInv
  <2> QED
    BY <2>1, <1>2, <1>3 DEF Local, Backed, HaveHadRow, At, ledger
<1>7. RowInv'
  BY <1>2, <1>3 DEF IInv, RowInv, Backed, HaveHadRow, ledger
<1>8. SeenInv' /\ SentInv'
  BY <1>3, <1>5, SeenStays, SentStays DEF ledger, platform
<1> QED
  BY <1>4, <1>6, <1>7, <1>8 DEF IInv

LEMMA CheckReceivedStep ==
  ASSUME IInv, NEW s \in Session, NEW t \in Tx, NEW a \in Amount, CheckReceived(s, t, a)
  PROVE  IInv'
<1>1. /\ sess' \in [Session -> Task]
      /\ sess'[s] = [sess[s] EXCEPT !.pc = "checked", !.tx = t, !.asked = a]
      /\ \A u \in Session \ {s} : sess'[u] = sess[u]
  <2>1. [sess[s] EXCEPT !.pc = "checked", !.tx = t, !.asked = a] \in Task
    BY DEF IInv, TypeOK, Task, Label
  <2>2. sess' = [sess EXCEPT ![s] =
                   [sess[s] EXCEPT !.pc = "checked", !.tx = t, !.asked = a]]
    BY DEF CheckReceived
  <2> QED
    BY <2>1, <2>2 DEF IInv, TypeOK
<1>2. /\ sess'[s].pc = "checked" /\ sess'[s].tx = t /\ sess'[s].asked = a
      /\ sess'[s].due = sess[s].due /\ sess'[s].env = sess[s].env
  BY <1>1 DEF IInv, TypeOK, Task
<1>3. /\ At(s, "idle") /\ UNCHANGED <<row, customers, erased, ledger, platform>>
      /\ faults' \in {faults, faults + 1}
  BY DEF Fault, NoFault, CheckReceived, db
<1>4. TypeOK'
  BY <1>1, <1>3 DEF IInv, TypeOK, ledger, platform
<1>5. Keeps
  <2> SUFFICES ASSUME NEW u \in Session
               PROVE  /\ ~At(u, "idle") =>
                           sess'[u].tx = sess[u].tx /\ sess'[u].asked = sess[u].asked
                      /\ sess[u].env # NoEnvelope => sess'[u].env = sess[u].env
    BY <1>3 DEF Keeps, HaveHadRow, ledger
  <2> QED
    BY <1>1, <1>2, <1>3
<1>6. Local(s)'
  <2>1. Local(s)
    BY DEF IInv, SessionInv
  <2>2. sess[s].due = NoAmount /\ sess[s].env = NoEnvelope
    BY <2>1, <1>3, DepositAssumption DEF Local, At
  <2> QED
    BY <1>2, <2>2 DEF Local, At
<1>7. SessionInv'
  BY <1>1, <1>5, <1>6, OthersStay
<1>8. RowInv' /\ SeenInv' /\ SentInv'
  BY <1>3, <1>5, RowStays, SeenStays, SentStays DEF ledger, platform
<1> QED
  BY <1>4, <1>7, <1>8 DEF IInv

LEMMA FindCustomerStep ==
  ASSUME IInv, NEW s \in Session, FindCustomer(s) PROVE IInv'
<1>1. /\ At(s, "checked") /\ UNCHANGED <<row, customers, erased, ledger, platform>>
      /\ faults' \in {faults, faults + 1}
  BY DEF Fault, NoFault, FindCustomer, db
<1>2. Local(s) /\ sess[s].tx \in Tx
  BY <1>1 DEF IInv, SessionInv, Local, At
<1>3. /\ sess' \in [Session -> Task]
      /\ sess'[s].pc \in {"found", "ended"}
      /\ sess'[s].pc = "found" => sess'[s].existing \in Found(PayeeOf[sess[s].tx])
      /\ sess'[s].tx = sess[s].tx /\ sess'[s].asked = sess[s].asked
      /\ sess'[s].due = sess[s].due /\ sess'[s].env = sess[s].env
      /\ \A u \in Session \ {s} : sess'[u] = sess[u]
  <2>1. CASE Goto(s, "ended")
    BY <2>1, GotoSess DEF IInv, Label
  <2>2. ASSUME NEW c \in Found(PayeeOf[sess[s].tx]),
               sess' = [sess EXCEPT ![s].pc = "found", ![s].existing = c]
        PROVE  /\ sess' \in [Session -> Task]
               /\ sess'[s].pc = "found" /\ sess'[s].existing = c
               /\ sess'[s].tx = sess[s].tx /\ sess'[s].asked = sess[s].asked
               /\ sess'[s].due = sess[s].due /\ sess'[s].env = sess[s].env
               /\ \A u \in Session \ {s} : sess'[u] = sess[u]
    <3>1. c \in SUBSET Customer /\ "found" \in Label
      BY DEF Found, RowsOf, IInv, TypeOK, Label
    <3> QED
      BY <2>2, <3>1, FoundSess DEF IInv
  <2> QED
    BY <2>1, <2>2 DEF FindCustomer
<1>4. TypeOK'
  BY <1>1, <1>3 DEF IInv, TypeOK, ledger, platform
<1>5. Keeps
  BY <1>1, <1>3 DEF Keeps, HaveHadRow, ledger
<1>6. Local(s)'
  <2>1. sess'[s].pc = "found" /\ sess'[s].existing # {}
          => PayeeOf[sess[s].tx] \in HaveHadRow
    BY <1>3 DEF Found, RowsOf, HaveHadRow
  <2>2. HaveHadRow \subseteq HaveHadRow'
    BY <1>5 DEF Keeps
  <2> QED
    BY <1>1, <1>2, <1>3, <1>5, <2>1, <2>2, BackedStays DEF Local, At
<1>7. SessionInv'
  BY <1>3, <1>5, <1>6, OthersStay
<1>8. RowInv' /\ SeenInv' /\ SentInv'
  BY <1>1, <1>5, RowStays, SeenStays, SentStays DEF ledger, platform
<1> QED
  BY <1>4, <1>7, <1>8 DEF IInv

(* Whether the form inserts or updates, the payee has had a row once it is *)
(* through: the row it found and updates may be gone by then.              *)
LEMMA WriteCustomerStep ==
  ASSUME IInv, NEW s \in Session, WriteCustomer(s) PROVE IInv'
<1>1. PICK l \in {"upserted", "ended"} :
        Upserted(s, l) /\ (l = "upserted" => customers' = Written(s))
  BY DEF WriteCustomer
<1>2. /\ At(s, "found") /\ UNCHANGED <<row, erased, ledger, platform>>
      /\ customers' \in {customers, Written(s)}
      /\ faults' \in {faults, faults + 1}
  BY DEF Fault, NoFault, WriteCustomer
<1>3. Local(s) /\ sess[s].tx \in Tx
  BY <1>2 DEF IInv, SessionInv, Local, At
<1>4. /\ sess' \in [Session -> Task]
      /\ sess'[s].pc = l
      /\ sess'[s].tx = sess[s].tx /\ sess'[s].asked = sess[s].asked
      /\ sess'[s].due = sess[s].due /\ sess'[s].env = sess[s].env
      /\ \A u \in Session \ {s} : sess'[u] = sess[u]
  <2>1. {} \in SUBSET Customer /\ l \in Label
    BY DEF Label
  <2> QED
    BY <1>1, <2>1, FoundSess DEF IInv, Upserted
<1>5. customers \subseteq Written(s) /\ Written(s) \subseteq Customer
  BY <1>3, DepositAssumption DEF Written, Customer, IInv, TypeOK
<1>6. TypeOK'
  BY <1>2, <1>4, <1>5 DEF IInv, TypeOK, ledger, platform
<1>7. Keeps
  BY <1>2, <1>4, <1>5 DEF Keeps, HaveHadRow, ledger
<1>8. l = "upserted" => PayeeOf[sess[s].tx] \in HaveHadRow'
  <2>1. CASE sess[s].existing = {}
    <3> DEFINE c == <<s, PayeeOf[sess[s].tx]>>
    <3>1. c \in Written(s) /\ c[2] = PayeeOf[sess[s].tx]
      BY <2>1 DEF Written
    <3> HIDE DEF c
    <3> QED
      BY <1>1, <3>1 DEF HaveHadRow
  <2>2. CASE sess[s].existing # {}
    BY <1>2, <1>3, <1>7, <2>2 DEF Local, Keeps
  <2> QED
    BY <2>1, <2>2
<1>9. Local(s)'
  BY <1>2, <1>3, <1>4, <1>7, <1>8, BackedStays DEF Local, At
<1>10. SessionInv'
  BY <1>4, <1>7, <1>9, OthersStay
<1>11. RowInv' /\ SeenInv' /\ SentInv'
  BY <1>2, <1>7, RowStays, SeenStays, SentStays DEF ledger, platform
<1> QED
  BY <1>6, <1>10, <1>11 DEF IInv

LEMMA DeleteCustomerStep ==
  ASSUME IInv, NEW p \in Payee, DeleteCustomer(p) PROVE IInv'
<1>1. /\ UNCHANGED <<row, sess, ledger, platform, faults>>
      /\ customers' = customers \ RowsOf(p) /\ erased' = erased \cup {p}
  BY DEF DeleteCustomer
<1>2. TypeOK'
  BY <1>1 DEF IInv, TypeOK, ledger, platform
<1>3. HaveHadRow \subseteq HaveHadRow'
  BY <1>1 DEF HaveHadRow, RowsOf
<1>4. Keeps
  BY <1>1, <1>3 DEF Keeps, ledger
<1>5. SessionInv'
  <2> SUFFICES ASSUME NEW s \in Session PROVE Local(s)'
    BY DEF SessionInv
  <2>1. Local(s)
    BY DEF IInv, SessionInv
  <2> QED
    BY <1>1, <1>3, <2>1 DEF Local, Backed, At, ledger
<1>6. RowInv' /\ SeenInv' /\ SentInv'
  BY <1>1, <1>4, RowStays, SeenStays, SentStays DEF ledger, platform
<1> QED
  BY <1>2, <1>5, <1>6 DEF IInv

(* The steps of process_deposit that change one row only need these facts. *)
LEMMA RowStepInv ==
  ASSUME IInv, Keeps, NEW t \in Tx, \A x \in Tx \ {t} : row'[x] = row[x],
         row'[t].status \notin {"absent", "received"},
         row'[t].amount_out # NoAmount =>
           \E a \in Amount : row'[t].amount_out = a /\ Backed(t, a),
         row'[t].status = "completed" => row'[t].hash # NoEnvelope,
         row'[t].hash # NoEnvelope => row'[t].hash \in paid' /\ row'[t].hash.to = PayeeOf[t]
  PROVE  RowInv'
<1> SUFFICES ASSUME NEW x \in Tx
    PROVE  /\ row'[x].status \in {"absent", "received"} => row'[x].amount_out = NoAmount
           /\ row'[x].amount_out # NoAmount => Backed(x, row[x].amount_out)'
           /\ row'[x].status = "completed" => row'[x].hash # NoEnvelope
           /\ row'[x].hash # NoEnvelope =>
                row'[x].hash \in paid' /\ row'[x].hash.to = PayeeOf[x]
  BY DEF RowInv
<1>1. row'[x].amount_out # NoAmount => Backed(x, row[x].amount_out)'
  <2> SUFFICES ASSUME row'[x].amount_out # NoAmount
               PROVE  Backed(x, row[x].amount_out)'
    OBVIOUS
  <2>1. PICK a \in Amount : row'[x].amount_out = a /\ Backed(x, a)
    BY DEF IInv, TypeOK, Row, RowInv
  <2>2. Backed(x, a)'
    BY <2>1, BackedStays
  <2> QED
    BY <2>1, <2>2 DEF Backed
<1>2. CASE x = t
  BY <1>1, <1>2
<1>3. CASE x # t
  BY <1>1, <1>3 DEF IInv, RowInv, Keeps
<1> QED
  BY <1>2, <1>3

LEMMA RowBacked ==
  ASSUME IInv, NEW t \in Tx, row[t].amount_out # NoAmount
  PROVE  \E a \in Amount : row[t].amount_out = a /\ Backed(t, a)
BY DEF IInv, TypeOK, Row, RowInv

LEMMA SubmitAmountStep ==
  ASSUME IInv, NEW s \in Session, SubmitAmount(s) PROVE IInv'
<1> DEFINE t == sess[s].tx
           a == sess[s].asked
<1>1. PICK l \in {"spawned", "ended"} : Goto(s, l)
  BY DEF SubmitAmount
<1>2. /\ At(s, "upserted") /\ UNCHANGED <<customers, erased, ledger, platform>>
      /\ faults' \in {faults, faults + 1}
      /\ row' = row \/ row' = Submitted(t, a)
  BY DEF Fault, NoFault, SubmitAmount
<1>3. Local(s) /\ t \in Tx /\ a \in Amount
  BY <1>2 DEF IInv, SessionInv, Local, At
<1>4. /\ sess' \in [Session -> Task]
      /\ sess'[s].pc = l
      /\ sess'[s].tx = sess[s].tx /\ sess'[s].asked = sess[s].asked
      /\ sess'[s].due = sess[s].due /\ sess'[s].env = sess[s].env
      /\ \A u \in Session \ {s} : sess'[u] = sess[u]
  BY <1>1, GotoSess DEF IInv, Label
<1>5. TypeOK'
  BY <1>2, <1>3, <1>4, RowUpdates DEF IInv, TypeOK, ledger, platform
<1>6. \/ row' = row
      \/ /\ \A x \in Tx \ {t} : row'[x] = row[x]
         /\ row'[t].status = "awaiting_stellar_payment"
         /\ row'[t].amount_out = a /\ row'[t].hash = row[t].hash
  BY <1>2, <1>3 DEF IInv, TypeOK, Row, Submitted
<1>7. Keeps
  BY <1>2, <1>3, <1>4, <1>6 DEF Keeps, HaveHadRow, ledger
<1>8. Local(s)'
  BY <1>2, <1>3, <1>4, <1>7, BackedStays, DepositAssumption DEF Local, At
<1>9. SessionInv'
  BY <1>4, <1>7, <1>8, OthersStay
<1>10. RowInv'
  <2>1. Backed(t, a)
    BY <1>2, <1>3 DEF Local, At, Backed
  <2> QED
    BY <1>2, <1>3, <1>6, <1>7, <2>1, RowStays, RowStepInv DEF IInv, RowInv, ledger
<1>11. SeenInv' /\ SentInv'
  BY <1>2, <1>7, SeenStays, SentStays DEF ledger, platform
<1> QED
  BY <1>5, <1>9, <1>10, <1>11 DEF IInv

LEMMA LoadTransactionStep ==
  ASSUME IInv, NEW s \in Session, LoadTransaction(s) PROVE IInv'
<1> DEFINE t == sess[s].tx
<1>1. /\ At(s, "spawned") /\ UNCHANGED <<row, customers, erased, ledger, platform>>
      /\ faults' \in {faults, faults + 1}
  BY DEF Fault, NoFault, LoadTransaction, db
<1>2. Local(s) /\ t \in Tx
  BY <1>1 DEF IInv, SessionInv, Local, At
<1>3. /\ sess' \in [Session -> Task]
      /\ sess'[s].pc \in {"loaded", "failing"}
      /\ sess'[s].tx = sess[s].tx /\ sess'[s].asked = sess[s].asked
      /\ sess'[s].due \in {sess[s].due, row[t].amount_out}
      /\ sess'[s].env = sess[s].env
      /\ \A u \in Session \ {s} : sess'[u] = sess[u]
  <2>1. CASE Goto(s, "failing")
    BY <2>1, GotoSess DEF IInv, Label
  <2>2. CASE sess' = [sess EXCEPT ![s].pc = "loaded", ![s].due = row[t].amount_out]
    <3> DEFINE k == [sess[s] EXCEPT !.pc = "loaded", !.due = row[t].amount_out]
    <3>1. k \in Task
      BY <1>2 DEF IInv, TypeOK, Task, Row, Label
    <3>2. /\ k.pc = "loaded" /\ k.tx = sess[s].tx /\ k.asked = sess[s].asked
          /\ k.due = row[t].amount_out /\ k.env = sess[s].env
      BY DEF IInv, TypeOK, Task
    <3>3. sess' = [sess EXCEPT ![s] = k]
      BY <2>2
    <3> HIDE DEF k
    <3> QED
      BY <3>1, <3>2, <3>3 DEF IInv, TypeOK
  <2> QED
    BY <2>1, <2>2 DEF LoadTransaction
<1>4. TypeOK'
  BY <1>1, <1>3 DEF IInv, TypeOK, ledger, platform
<1>5. Keeps
  BY <1>1, <1>3 DEF Keeps, HaveHadRow, ledger
<1>6. Local(s)'
  <2>1. row[t].amount_out # NoAmount => Backed(t, row[t].amount_out)
    BY <1>2 DEF IInv, RowInv
  <2> QED
    BY <1>1, <1>2, <1>3, <1>5, <2>1, BackedStays DEF Local, At
<1>7. SessionInv'
  BY <1>3, <1>5, <1>6, OthersStay
<1>8. RowInv' /\ SeenInv' /\ SentInv'
  BY <1>1, <1>5, RowStays, SeenStays, SentStays DEF ledger, platform
<1> QED
  BY <1>4, <1>7, <1>8 DEF IInv

LEMMA LoadSequenceStep ==
  ASSUME IInv, NEW s \in Session, LoadSequence(s) PROVE IInv'
<1>1. /\ At(s, "loaded") /\ UNCHANGED <<row, customers, erased, ledger, platform>>
      /\ faults' \in {faults, faults + 1}
  BY DEF Fault, NoFault, LoadSequence, db
<1>2. Local(s) /\ sess[s].tx \in Tx /\ sess[s].env = NoEnvelope
  BY <1>1 DEF IInv, SessionInv, Local, At
<1>3. /\ sess' \in [Session -> Task]
      /\ sess'[s].tx = sess[s].tx /\ sess'[s].asked = sess[s].asked
      /\ sess'[s].due = sess[s].due
      /\ \/ sess'[s].pc = "failing" /\ sess'[s].env = NoEnvelope
         \/ /\ sess'[s].pc = "signed" /\ sess'[s].env = SignedPayment(s)
            /\ sess[s].due # NoAmount
            /\ SignedPayment(s) # NoEnvelope
            /\ SignedPayment(s).to = PayeeOf[sess[s].tx]
            /\ SignedPayment(s).amount = sess[s].due
      /\ \A u \in Session \ {s} : sess'[u] = sess[u]
  <2>1. CASE Goto(s, "failing")
    BY <1>2, <2>1, GotoSess DEF IInv, Label
  <2>2. CASE /\ sess[s].due \in Sendable
             /\ sess' = [sess EXCEPT ![s].pc = "signed", ![s].env = SignedPayment(s)]
    <3> DEFINE k == [sess[s] EXCEPT !.pc = "signed", !.env = SignedPayment(s)]
    <3>1. SignedPayment(s) \in Envelope
      BY <1>2, <2>2, DepositAssumption DEF IInv, TypeOK, SignedPayment, Envelope
    <3>2. k \in Task
      BY <3>1 DEF IInv, TypeOK, Task, Label
    <3>3. /\ k.pc = "signed" /\ k.tx = sess[s].tx /\ k.asked = sess[s].asked
          /\ k.due = sess[s].due /\ k.env = SignedPayment(s)
      BY DEF IInv, TypeOK, Task
    <3>4. sess' = [sess EXCEPT ![s] = k]
      BY <2>2
    <3>5. /\ sess[s].due # NoAmount /\ SignedPayment(s) # NoEnvelope
          /\ SignedPayment(s).to = PayeeOf[sess[s].tx]
          /\ SignedPayment(s).amount = sess[s].due
      BY <2>2, <3>1, DepositAssumption DEF SignedPayment
    <3> HIDE DEF k
    <3> QED
      BY <3>2, <3>3, <3>4, <3>5 DEF IInv, TypeOK
  <2> QED
    BY <2>1, <2>2 DEF LoadSequence
<1>4. TypeOK'
  BY <1>1, <1>3 DEF IInv, TypeOK, ledger, platform
<1>5. Keeps
  BY <1>1, <1>2, <1>3 DEF Keeps, HaveHadRow, ledger
<1>6. Local(s)'
  BY <1>1, <1>2, <1>3, <1>5, BackedStays DEF Local, At
<1>7. SessionInv'
  BY <1>3, <1>5, <1>6, OthersStay
<1>8. RowInv' /\ SeenInv' /\ SentInv'
  BY <1>1, <1>5, RowStays, SeenStays, SentStays DEF ledger, platform
<1> QED
  BY <1>4, <1>7, <1>8 DEF IInv

LEMMA SubmitEnvelopeStep ==
  ASSUME IInv, NEW s \in Session, SubmitEnvelope(s) PROVE IInv'
<1>1. /\ At(s, "signed") /\ Goto(s, "submitted")
      /\ UNCHANGED <<row, customers, erased, seqNum, paid, failed, platform>>
      /\ faults' \in {faults, faults + 1}
      /\ network' \subseteq network \cup {sess[s].env}
  BY DEF Fault, NoFault, SubmitEnvelope, db
<1>2. Local(s) /\ sess[s].env # NoEnvelope
  BY <1>1 DEF IInv, SessionInv, Local, At
<1>3. /\ sess' \in [Session -> Task]
      /\ sess'[s].pc = "submitted"
      /\ sess'[s].tx = sess[s].tx /\ sess'[s].asked = sess[s].asked
      /\ sess'[s].due = sess[s].due /\ sess'[s].env = sess[s].env
      /\ \A u \in Session \ {s} : sess'[u] = sess[u]
  BY <1>1, GotoSess DEF IInv, Label
<1>4. TypeOK'
  <2>1. sess[s].env \in Envelope
    BY <1>2 DEF IInv, TypeOK, Task
  <2> QED
    BY <1>1, <1>3, <2>1 DEF IInv, TypeOK, platform
<1>5. Keeps
  BY <1>1, <1>3 DEF Keeps, HaveHadRow
<1>6. Local(s)'
  BY <1>1, <1>2, <1>3, <1>5, BackedStays DEF Local, At
<1>7. SessionInv'
  BY <1>3, <1>5, <1>6, OthersStay
<1>8. SeenInv'
  <2> SUFFICES ASSUME NEW e \in network' \cup paid' \cup failed'
               PROVE  \E u \in Session : sess'[u].env = e
    BY DEF SeenInv
  <2>1. CASE e = sess[s].env
    BY <1>3, <2>1
  <2>2. CASE e # sess[s].env
    <3>1. PICK u \in Session : sess[u].env = e
      BY <1>1, <2>2 DEF IInv, SeenInv
    <3> QED
      BY <1>3, <2>2, <3>1
  <2> QED
    BY <2>1, <2>2
<1>9. RowInv' /\ SentInv'
  BY <1>1, <1>5, RowStays, SentStays DEF platform
<1> QED
  BY <1>4, <1>7, <1>8, <1>9 DEF IInv

LEMMA HorizonAnswersStep ==
  ASSUME IInv, NEW s \in Session, HorizonAnswers(s) PROVE IInv'
<1>1. PICK l \in {"confirmed", "failing"} :
        Goto(s, l) /\ (l = "confirmed" => sess[s].env \in paid)
  BY DEF HorizonAnswers, Confirms
<1>2. /\ At(s, "submitted") /\ UNCHANGED <<row, customers, erased, ledger, platform>>
      /\ faults' \in {faults, faults + 1}
  BY DEF Fault, NoFault, HorizonAnswers, db
<1>3. Local(s)
  BY DEF IInv, SessionInv
<1>4. /\ sess' \in [Session -> Task]
      /\ sess'[s].pc = l
      /\ sess'[s].tx = sess[s].tx /\ sess'[s].asked = sess[s].asked
      /\ sess'[s].due = sess[s].due /\ sess'[s].env = sess[s].env
      /\ \A u \in Session \ {s} : sess'[u] = sess[u]
  BY <1>1, GotoSess DEF IInv, Label
<1>5. TypeOK'
  BY <1>2, <1>4 DEF IInv, TypeOK, ledger, platform
<1>6. Keeps
  BY <1>2, <1>4 DEF Keeps, HaveHadRow, ledger
<1>7. Local(s)'
  BY <1>1, <1>2, <1>3, <1>4, <1>6, BackedStays DEF Local, At, ledger
<1>8. SessionInv'
  BY <1>4, <1>6, <1>7, OthersStay
<1>9. RowInv' /\ SeenInv' /\ SentInv'
  BY <1>2, <1>6, RowStays, SeenStays, SentStays DEF ledger, platform
<1> QED
  BY <1>5, <1>8, <1>9 DEF IInv

LEMMA MarkCompletedStep ==
  ASSUME IInv, NEW s \in Session, MarkCompleted(s) PROVE IInv'
<1> DEFINE t == sess[s].tx
           e == sess[s].env
<1>1. PICK l \in {"recorded", "failing"} :
        Goto(s, l) /\ (l = "recorded" => row' = Completed(t, e))
  BY DEF MarkCompleted
<1>2. /\ At(s, "confirmed") /\ UNCHANGED <<customers, erased, ledger, platform>>
      /\ faults' \in {faults, faults + 1}
      /\ row' = row \/ row' = Completed(t, e)
  BY DEF Fault, NoFault, MarkCompleted
<1>3. Local(s) /\ t \in Tx /\ e \in paid /\ e # NoEnvelope /\ e.to = PayeeOf[t]
  BY <1>2 DEF IInv, SessionInv, Local, At
<1>4. /\ sess' \in [Session -> Task]
      /\ sess'[s].pc = l
      /\ sess'[s].tx = sess[s].tx /\ sess'[s].asked = sess[s].asked
      /\ sess'[s].due = sess[s].due /\ sess'[s].env = sess[s].env
      /\ \A u \in Session \ {s} : sess'[u] = sess[u]
  BY <1>1, GotoSess DEF IInv, Label
<1>5. TypeOK'
  <2>1. e \in Envelope
    BY <1>3 DEF IInv, TypeOK
  <2> QED
    BY <1>2, <1>3, <1>4, <2>1, RowUpdates DEF IInv, TypeOK, ledger, platform
<1>6. /\ \/ row' = row
         \/ /\ \A x \in Tx \ {t} : row'[x] = row[x]
            /\ row'[t].status = "completed" /\ row'[t].hash = e
            /\ row'[t].amount_out = row[t].amount_out
      /\ l = "recorded" => row'[t].hash = e
  BY <1>1, <1>2, <1>3 DEF IInv, TypeOK, Row, Completed
<1>7. Keeps
  BY <1>2, <1>3, <1>4, <1>6 DEF Keeps, HaveHadRow, ledger
<1>8. Local(s)'
  BY <1>2, <1>3, <1>4, <1>6, <1>7, BackedStays DEF Local, At, ledger
<1>9. SessionInv'
  BY <1>4, <1>7, <1>8, OthersStay
<1>10. RowInv'
  BY <1>2, <1>3, <1>6, <1>7, RowStays, RowStepInv, RowBacked DEF ledger
<1>11. SeenInv' /\ SentInv'
  BY <1>2, <1>7, SeenStays, SentStays DEF ledger, platform
<1> QED
  BY <1>5, <1>9, <1>10, <1>11 DEF IInv

LEMMA NotifySentStep ==
  ASSUME IInv, NEW s \in Session, NotifySent(s) PROVE IInv'
<1> DEFINE t == sess[s].tx
           e == sess[s].env
<1>1. PICK l \in {"ended", "failing"} : Goto(s, l)
  BY DEF NotifySent
<1>2. /\ At(s, "recorded") /\ UNCHANGED <<row, customers, erased, ledger, errors>>
      /\ faults' \in {faults, faults + 1}
      /\ sent' \in {sent, sent \cup {<<t, e>>}}
  BY DEF Fault, NoFault, NotifySent, db
<1>3. /\ Local(s) /\ t \in Tx /\ e \in paid /\ e.to = PayeeOf[t]
      /\ row[t].hash # NoEnvelope
  BY <1>2 DEF IInv, SessionInv, Local, At
<1>4. /\ sess' \in [Session -> Task]
      /\ sess'[s].pc = l
      /\ sess'[s].tx = sess[s].tx /\ sess'[s].asked = sess[s].asked
      /\ sess'[s].due = sess[s].due /\ sess'[s].env = sess[s].env
      /\ \A u \in Session \ {s} : sess'[u] = sess[u]
  BY <1>1, GotoSess DEF IInv, Label
<1>5. TypeOK'
  <2>1. e \in Envelope
    BY <1>3 DEF IInv, TypeOK
  <2> QED
    BY <1>2, <1>3, <1>4, <2>1 DEF IInv, TypeOK, ledger
<1>6. Keeps
  BY <1>2, <1>4 DEF Keeps, HaveHadRow, ledger
<1>7. Local(s)'
  BY <1>1, <1>2, <1>3, <1>4, <1>6, BackedStays DEF Local, At, ledger
<1>8. SessionInv'
  BY <1>4, <1>6, <1>7, OthersStay
<1>9. SentInv'
  BY <1>2, <1>3 DEF IInv, SentInv, ledger
<1>10. RowInv' /\ SeenInv'
  BY <1>2, <1>6, RowStays, SeenStays DEF ledger
<1> QED
  BY <1>5, <1>8, <1>9, <1>10 DEF IInv

LEMMA MarkErrorStep ==
  ASSUME IInv, NEW s \in Session, MarkError(s) PROVE IInv'
<1> DEFINE t == sess[s].tx
<1>1. /\ At(s, "failing") /\ Goto(s, "errored")
      /\ UNCHANGED <<customers, erased, ledger, platform>>
      /\ faults' \in {faults, faults + 1}
      /\ row' = row \/ row' = Errored(t)
  BY DEF Fault, NoFault, MarkError
<1>2. Local(s) /\ t \in Tx
  BY <1>1 DEF IInv, SessionInv, Local, At
<1>3. /\ sess' \in [Session -> Task]
      /\ sess'[s].pc = "errored"
      /\ sess'[s].tx = sess[s].tx /\ sess'[s].asked = sess[s].asked
      /\ sess'[s].due = sess[s].due /\ sess'[s].env = sess[s].env
      /\ \A u \in Session \ {s} : sess'[u] = sess[u]
  BY <1>1, GotoSess DEF IInv, Label
<1>4. TypeOK'
  BY <1>1, <1>2, <1>3, RowUpdates DEF IInv, TypeOK, ledger, platform
<1>5. \/ row' = row
      \/ /\ \A x \in Tx \ {t} : row'[x] = row[x]
         /\ row'[t].status = "error" /\ row'[t].hash = row[t].hash
         /\ row'[t].amount_out = row[t].amount_out
  BY <1>1, <1>2 DEF IInv, TypeOK, Row, Errored
<1>6. Keeps
  BY <1>1, <1>2, <1>3, <1>5 DEF Keeps, HaveHadRow, ledger
<1>7. Local(s)'
  BY <1>1, <1>2, <1>3, <1>6, BackedStays DEF Local, At
<1>8. SessionInv'
  BY <1>3, <1>6, <1>7, OthersStay
<1>9. RowInv'
  <2>1. row[t].hash # NoEnvelope => row[t].hash \in paid' /\ row[t].hash.to = PayeeOf[t]
    BY <1>1, <1>2 DEF IInv, RowInv, ledger
  <2> QED
    BY <1>2, <1>5, <1>6, <2>1, RowStays, RowStepInv, RowBacked
<1>10. SeenInv' /\ SentInv'
  BY <1>1, <1>6, SeenStays, SentStays DEF ledger, platform
<1> QED
  BY <1>4, <1>8, <1>9, <1>10 DEF IInv

LEMMA NotifyErrorStep ==
  ASSUME IInv, NEW s \in Session, NotifyError(s) PROVE IInv'
<1>1. /\ At(s, "errored") /\ Goto(s, "ended")
      /\ UNCHANGED <<row, customers, erased, ledger, sent>>
      /\ faults' \in {faults, faults + 1}
      /\ errors' \in {errors, errors \cup {sess[s].tx}}
  BY DEF Fault, NoFault, NotifyError, db
<1>2. Local(s) /\ sess[s].tx \in Tx
  BY <1>1 DEF IInv, SessionInv, Local, At
<1>3. /\ sess' \in [Session -> Task]
      /\ sess'[s].pc = "ended"
      /\ sess'[s].tx = sess[s].tx /\ sess'[s].asked = sess[s].asked
      /\ sess'[s].due = sess[s].due /\ sess'[s].env = sess[s].env
      /\ \A u \in Session \ {s} : sess'[u] = sess[u]
  BY <1>1, GotoSess DEF IInv, Label
<1>4. TypeOK'
  BY <1>1, <1>2, <1>3 DEF IInv, TypeOK, ledger
<1>5. Keeps
  BY <1>1, <1>3 DEF Keeps, HaveHadRow, ledger
<1>6. Local(s)'
  BY <1>1, <1>2, <1>3, <1>5, BackedStays DEF Local, At
<1>7. SessionInv'
  BY <1>3, <1>5, <1>6, OthersStay
<1>8. RowInv' /\ SeenInv' /\ SentInv'
  BY <1>1, <1>5, RowStays, SeenStays, SentStays DEF ledger
<1> QED
  BY <1>4, <1>7, <1>8 DEF IInv

LEMMA ApplyStep ==
  ASSUME IInv, NEW e \in network, Apply(e) PROVE IInv'
<1>1. /\ UNCHANGED <<row, customers, erased, sess, platform>> /\ faults' \in {faults, faults + 1}
      /\ network' \subseteq network /\ paid \subseteq paid'
      /\ paid' \subseteq paid \cup {e} /\ failed' \subseteq failed \cup {e}
      /\ seqNum' = e.seq /\ e.seq = seqNum + 1
  BY DEF Fault, NoFault, Apply, db
<1>2. TypeOK'
  BY <1>1 DEF IInv, TypeOK, platform
<1>3. Keeps
  BY <1>1 DEF Keeps, HaveHadRow
<1>4. SessionInv'
  <2> SUFFICES ASSUME NEW s \in Session PROVE Local(s)'
    BY DEF SessionInv
  <2>1. Local(s)
    BY DEF IInv, SessionInv
  <2> QED
    BY <1>1, <2>1 DEF Local, Backed, HaveHadRow, At
<1>5. RowInv' /\ SeenInv' /\ SentInv'
  BY <1>1, <1>3, RowStays, SeenStays, SentStays DEF platform
<1> QED
  BY <1>2, <1>4, <1>5 DEF IInv

LEMMA CrashStep == ASSUME IInv, Crash PROVE IInv'
<1>1. /\ UNCHANGED <<row, customers, erased, ledger, platform>> /\ faults' \in {faults, faults + 1}
      /\ sess' = [s \in Session |->
                    IF At(s, "idle") THEN sess[s]
                    ELSE [sess[s] EXCEPT !.pc = "ended", !.existing = {}]]
  BY DEF Fault, NoFault, Crash, db
<1>2. \A s \in Session :
        /\ sess'[s] \in Task
        /\ sess'[s].pc = IF At(s, "idle") THEN "idle" ELSE "ended"
        /\ sess'[s].tx = sess[s].tx /\ sess'[s].asked = sess[s].asked
        /\ sess'[s].due = sess[s].due /\ sess'[s].env = sess[s].env
  <2> SUFFICES ASSUME NEW s \in Session
      PROVE /\ sess'[s] \in Task
            /\ sess'[s].pc = IF At(s, "idle") THEN "idle" ELSE "ended"
            /\ sess'[s].tx = sess[s].tx /\ sess'[s].asked = sess[s].asked
            /\ sess'[s].due = sess[s].due /\ sess'[s].env = sess[s].env
    OBVIOUS
  <2>1. CASE At(s, "idle")
    BY <1>1, <2>1 DEF IInv, TypeOK, Task, At
  <2>2. CASE ~At(s, "idle")
    <3>1. sess'[s] = [sess[s] EXCEPT !.pc = "ended", !.existing = {}]
      BY <1>1, <2>2
    <3> QED
      BY <2>2, <3>1 DEF IInv, TypeOK, Task, Label
  <2> QED
    BY <2>1, <2>2
<1>3. TypeOK'
  <2>1. sess' \in [Session -> Task]
    BY <1>1, <1>2
  <2>2. UNCHANGED <<row, customers, erased, ledger, platform>> /\ faults' \in {faults, faults + 1}
    BY <1>1
  <2> QED
    BY <2>1, <2>2 DEF IInv, TypeOK, ledger, platform
<1>4. Keeps
  BY <1>1, <1>2 DEF Keeps, HaveHadRow, ledger
<1>5. SessionInv'
  <2> SUFFICES ASSUME NEW s \in Session PROVE Local(s)'
    BY DEF SessionInv
  <2>1. Local(s)
    BY DEF IInv, SessionInv
  <2>2. sess[s].due # NoAmount => Backed(sess[s].tx, sess[s].due)'
    BY <1>2, <1>4, <2>1, BackedStays DEF Local
  <2>3. sess[s].env # NoEnvelope => Backed(sess[s].tx, sess[s].env.amount)'
    BY <1>2, <1>4, <2>1, BackedStays DEF Local
  <2> QED
    BY <1>2, <2>1, <2>2, <2>3 DEF Local, At
<1>6. RowInv' /\ SeenInv' /\ SentInv'
  BY <1>1, <1>4, RowStays, SeenStays, SentStays DEF ledger, platform
<1> QED
  BY <1>3, <1>5, <1>6 DEF IInv

----------------------------------------------------------------------------
LEMMA IInvStep == IInv /\ [Next]_vars => IInv'
<1> SUFFICES ASSUME IInv, [Next]_vars PROVE IInv'
  OBVIOUS
<1>1. CASE \E t \in Tx : HandleCreated(t)
  BY <1>1, HandleCreatedStep
<1>2. CASE \E s \in Session, t \in Tx, a \in Amount : CheckReceived(s, t, a)
  BY <1>2, CheckReceivedStep
<1>3. CASE \E s \in Session : Handler(s)
  BY <1>3, FindCustomerStep, WriteCustomerStep, SubmitAmountStep DEF Handler
<1>4. CASE \E s \in Session : ProcessDeposit(s)
  BY <1>4, LoadTransactionStep, LoadSequenceStep, SubmitEnvelopeStep,
     HorizonAnswersStep, MarkCompletedStep, NotifySentStep, MarkErrorStep,
     NotifyErrorStep DEF ProcessDeposit
<1>5. CASE \E e \in network : Apply(e)
  BY <1>5, ApplyStep
<1>6. CASE Crash
  BY <1>6, CrashStep
<1>7. CASE \E p \in Payee : DeleteCustomer(p)
  BY <1>7, DeleteCustomerStep
<1>8. CASE UNCHANGED vars
  BY <1>8 DEF vars, db, ledger, platform, IInv, TypeOK, SessionInv, Local, Backed,
     RowInv, SeenInv, SentInv, At, HaveHadRow
<1> QED
  BY <1>1, <1>2, <1>3, <1>4, <1>5, <1>6, <1>7, <1>8 DEF Next

(* Types and the inductive invariant hold for any number of deposits,      *)
(* overlapping submissions, failures and crashes.                          *)
THEOREM Invariance == Spec => [](TypeOK /\ IInv)
<1>1. IInv => TypeOK /\ IInv
  BY DEF IInv
<1> QED
  BY <1>1, InitIInv, IInvStep, PTL DEF Spec

(* A hash in the table or in a report to the platform is always that of a  *)
(* payment to the deposit's payee that happened (sep24/worker.rs).         *)
THEOREM NoFalseClaims == Spec => []ClaimsArePaid
<1>1. IInv => ClaimsArePaid
  BY DEF IInv, RowInv, SentInv, ClaimsArePaid
<1> QED
  BY <1>1, Invariance, PTL

(* Nothing is paid out that no submission of that deposit asked for, or to *)
(* a payee without a customers row, unless the platform had it deleted     *)
(* (sep24/interactive.rs, sep24/worker.rs, db/customers.rs).               *)
THEOREM NoUnaskedPayments == Spec => []PaymentsAreAsked
<1>1. IInv => PaymentsAreAsked
  <2> SUFFICES ASSUME IInv, NEW e \in network \cup paid \cup failed
               PROVE  \E s, u \in Session :
                        /\ sess[s].env = e
                        /\ e.to = PayeeOf[sess[s].tx]
                        /\ OnFile(e.to) \/ e.to \in erased
                        /\ sess[u].tx = sess[s].tx
                        /\ e.amount = sess[u].asked
    BY DEF PaymentsAreAsked
  <2>1. PICK s \in Session : sess[s].env = e
    BY DEF IInv, SeenInv
  <2>2. e # NoEnvelope
    BY DepositAssumption DEF IInv, TypeOK
  <2>3. e.to = PayeeOf[sess[s].tx] /\ Backed(sess[s].tx, e.amount)
    BY <2>1, <2>2 DEF IInv, SessionInv, Local
  <2>4. e.to \in HaveHadRow
    BY <2>3 DEF Backed
  <2>5. OnFile(e.to) \/ e.to \in erased
    BY <2>4 DEF HaveHadRow, OnFile, RowsOf
  <2> QED
    BY <2>1, <2>3, <2>5 DEF Backed
<1> QED
  BY <1>1, Invariance, PTL

(* A deposit the platform hears was paid is one whose row names a payment, *)
(* across failing writes and crashes too (worker.rs stores, then reports). *)
THEOREM ReportsFollowRecords == Spec => [](Reported \subseteq Recorded)
<1>1. IInv => Reported \subseteq Recorded
  BY DEF IInv, SentInv, Reported, Recorded
<1> QED
  BY <1>1, Invariance, PTL

(* A submission passes the check of submit_form only while no other one    *)
(* has stored amounts for the deposit (sep24/interactive.rs).              *)
THEOREM NoLateResubmission == Spec => ResubmitRefused
<1>1. IInv /\ [Next]_vars => [ChecksUnsubmitted]_vars
  <2> SUFFICES ASSUME IInv, Next, NEW s \in Session, At(s, "idle"), ~At(s, "idle")'
               PROVE  row[sess'[s].tx].amount_out = NoAmount
    BY DEF ChecksUnsubmitted
  <2>1. \A u \in Session, l \in Label : Goto(u, l) /\ u # s => FALSE
    BY GotoSess DEF IInv, At
  <2>2. ~ \E t \in Tx : HandleCreated(t)
    BY DEF HandleCreated, At
  <2>3. ASSUME NEW u \in Session, Handler(u) PROVE FALSE
    <3>1. ~ FindCustomer(u)
      BY <2>1 DEF FindCustomer, At, Label, IInv, TypeOK
    <3>2. ~ WriteCustomer(u)
      BY DEF WriteCustomer, Upserted, At, IInv, TypeOK
    <3> QED
      BY <2>1, <2>3, <3>1, <3>2 DEF Handler, SubmitAmount, At, Label
  <2>4. ASSUME NEW u \in Session, ProcessDeposit(u) PROVE FALSE
    <3>1. ~ LoadTransaction(u)
      BY <2>1 DEF LoadTransaction, At, Label, IInv, TypeOK
    <3>2. ~ LoadSequence(u)
      BY <2>1 DEF LoadSequence, At, Label, IInv, TypeOK
    <3> QED
      BY <2>1, <2>4, <3>1, <3>2 DEF ProcessDeposit, SubmitEnvelope, HorizonAnswers,
         MarkCompleted, NotifySent, MarkError, NotifyError, At, Label
  <2>5. (~ \E e \in network : Apply(e)) /\ (~ \E p \in Payee : DeleteCustomer(p))
    BY DEF Apply, DeleteCustomer, At, db
  <2>6. ~ Crash
    BY DEF Crash, At
  <2>7. PICK u \in Session, t \in Tx, a \in Amount : CheckReceived(u, t, a)
    BY <2>2, <2>3, <2>4, <2>5, <2>6 DEF Next
  <2>8. row[t].amount_out = NoAmount
    BY <2>7 DEF CheckReceived, Accepts, IInv, RowInv
  <2>9. u = s
    BY <2>7 DEF CheckReceived, IInv, TypeOK, At
  <2>10. sess'[s].tx = t
    BY <2>7, <2>9 DEF CheckReceived, IInv, TypeOK, Task
  <2> QED
    BY <2>8, <2>10
<1> QED
  BY <1>1, Invariance, PTL DEF Spec, ResubmitRefused

----------------------------------------------------------------------------
(* Deposits taken by a single submission.  While the task has not recorded *)
(* a payment, nobody else has touched the row; a task that goes on to mark *)
(* a completed deposit has met a fault.                                    *)
SoloAt(s) ==
  sess[s].tx \in Tx /\ Solo(sess[s].tx) =>
    /\ sess[s].pc \in {"checked", "found", "upserted"} =>
         row[sess[s].tx].status = "received"
    /\ sess[s].pc \in {"spawned", "loaded", "signed", "submitted", "confirmed"} =>
         row[sess[s].tx].status = "awaiting_stellar_payment"
    /\ sess[s].pc \in {"checked", "found", "upserted", "spawned", "loaded", "signed",
                       "submitted", "confirmed"} => row[sess[s].tx].hash = NoEnvelope
    /\ sess[s].pc = "failing" /\ row[sess[s].tx].status = "completed" => faults > 0

Untouched ==
  \A t \in Tx : row[t].status \in {"absent", "received"} => row[t].hash = NoEnvelope

SoloInv == Untouched /\ \A s \in Session : SoloAt(s)

LEMMA SoloInit == Init => SoloInv
BY DepositAssumption DEF Init, SoloInv, SoloAt, Untouched

LEMMA FaultsGrow ==
  ASSUME IInv, [Next]_vars
  PROVE  faults \in Nat /\ faults' \in {faults, faults + 1}
BY DEF IInv, TypeOK, Next, Fault, NoFault, HandleCreated, CheckReceived, Handler,
   FindCustomer, WriteCustomer, SubmitAmount, DeleteCustomer, ProcessDeposit,
   LoadTransaction, LoadSequence, SubmitEnvelope, HorizonAnswers, MarkCompleted,
   NotifySent, MarkError, NotifyError, Apply, Crash, vars

(* A step that moves session s and touches no row but its deposit's: what  *)
(* is left to show.                                                        *)
LEMMA SoloMoves ==
  ASSUME SoloInv, faults > 0 => faults' > 0, NEW s \in Session, NEW t \in Tx, sess'[s].tx = t,
         sess[s].tx \in {t, NoTx},
         \A u \in Session \ {s} : sess'[u] = sess[u],
         \A x \in Tx \ {t} : row'[x] = row[x],
         row'[t].status \in {"absent", "received"} => row'[t].hash = NoEnvelope,
         Solo(t) => SoloAt(s)'
  PROVE  SoloInv'
<1>1. \A x \in Tx : Solo(x)' => Solo(x)
  BY DepositAssumption DEF Solo
<1>2. ASSUME NEW u \in Session \ {s} PROVE SoloAt(u)'
  <2>1. sess'[u] = sess[u] /\ SoloAt(u)
    BY DEF SoloInv
  <2>2. CASE sess[u].tx = t
    BY <2>1, <2>2 DEF SoloAt, Solo
  <2>3. CASE sess[u].tx # t
    BY <1>1, <2>1, <2>3 DEF SoloAt
  <2> QED
    BY <2>2, <2>3
<1>3. SoloAt(s)'
  BY <1>1 DEF SoloAt
<1>4. Untouched'
  BY DEF SoloInv, Untouched
<1> QED
  BY <1>2, <1>3, <1>4 DEF SoloInv

(* A step along process_deposit that writes no row.                        *)
LEMMA SoloGoes ==
  ASSUME IInv, SoloInv, faults > 0 => faults' > 0, NEW s \in Session, row' = row, sess[s].tx \in Tx,
         sess'[s].tx = sess[s].tx,
         \A u \in Session \ {s} : sess'[u] = sess[u],
         \/ sess[s].pc = "checked" /\ sess'[s].pc = "found"
         \/ sess[s].pc = "found" /\ sess'[s].pc = "upserted"
         \/ /\ sess[s].pc \in {"spawned", "loaded", "signed", "submitted", "confirmed"}
            /\ sess'[s].pc \in {"loaded", "signed", "submitted", "confirmed", "failing"}
         \/ sess'[s].pc = "failing" /\ faults' > 0
         \/ sess'[s].pc \in {"errored", "ended"}
  PROVE  SoloInv' /\ SoloForward
<1>1. Solo(sess[s].tx) => SoloAt(s)'
  BY DEF SoloInv, SoloAt
<1>2. SoloInv'
  BY <1>1, SoloMoves DEF SoloInv, Untouched
<1> QED
  BY <1>2 DEF SoloForward

LEMMA SoloHandler ==
  ASSUME IInv, SoloInv, faults > 0 => faults' > 0, NEW s \in Session, Handler(s)
  PROVE  SoloInv' /\ SoloForward
<1> DEFINE t == sess[s].tx
<1>1. At(s, "checked") \/ At(s, "found") \/ At(s, "upserted")
  BY DEF Handler, FindCustomer, WriteCustomer, SubmitAmount
<1>2. t \in Tx /\ sess[s].asked \in Amount /\ SoloAt(s)
  BY <1>1 DEF IInv, SessionInv, Local, At, SoloInv
<1>3. CASE FindCustomer(s)
  <2>1. At(s, "checked") /\ row' = row
    BY <1>3 DEF FindCustomer, db
  <2>2. /\ sess'[s].pc \in {"found", "ended"} /\ sess'[s].tx = t
        /\ \A u \in Session \ {s} : sess'[u] = sess[u]
    BY <1>3 DEF FindCustomer, Goto, IInv, TypeOK, Task
  <2> QED
    BY <1>2, <2>1, <2>2, SoloGoes DEF At
<1>4. CASE WriteCustomer(s)
  <2>1. At(s, "found") /\ row' = row
    BY <1>4 DEF WriteCustomer
  <2>2. /\ sess'[s].pc \in {"upserted", "ended"} /\ sess'[s].tx = t
        /\ \A u \in Session \ {s} : sess'[u] = sess[u]
    BY <1>4 DEF WriteCustomer, Upserted, IInv, TypeOK, Task
  <2> QED
    BY <1>2, <2>1, <2>2, SoloGoes DEF At
<1>5. CASE SubmitAmount(s)
  <2>1. PICK l \in {"spawned", "ended"} :
          Goto(s, l) /\ (l = "spawned" => row' = Submitted(t, sess[s].asked))
    BY <1>5 DEF SubmitAmount
  <2>2. At(s, "upserted") /\ row' \in {row, Submitted(t, sess[s].asked)}
    BY <1>5 DEF SubmitAmount
  <2>3. /\ sess'[s].pc = l /\ sess'[s].tx = t
        /\ \A u \in Session \ {s} : sess'[u] = sess[u]
    BY <2>1, GotoSess DEF IInv, Label
  <2>4. /\ \A x \in Tx \ {t} : row'[x] = row[x]
        /\ row'[t].hash = row[t].hash
        /\ row'[t] = row[t] \/ row'[t].status = "awaiting_stellar_payment"
        /\ l = "spawned" => row'[t].status = "awaiting_stellar_payment"
    BY <1>2, <2>1, <2>2 DEF Submitted, IInv, TypeOK, Row
  <2>5. \A x \in Tx : Solo(x)' => Solo(x)
    BY <2>3 DEF Solo
  <2>6. Solo(t) => row[t].status = "received" /\ row[t].hash = NoEnvelope
    BY <1>2, <2>2 DEF SoloAt, At
  <2>7. SoloInv'
    <3>1. row'[t].status \in {"absent", "received"} => row'[t].hash = NoEnvelope
      BY <1>2, <2>4 DEF SoloInv, Untouched
    <3>2. Solo(t) => SoloAt(s)'
      BY <2>3, <2>4, <2>6 DEF SoloAt
    <3> QED
      BY <1>2, <2>3, <2>4, <3>1, <3>2, SoloMoves
  <2> QED
    BY <2>4, <2>5, <2>6, <2>7 DEF SoloForward
<1> QED
  BY <1>3, <1>4, <1>5 DEF Handler

LEMMA SoloTask ==
  ASSUME IInv, SoloInv, NEW s \in Session, ProcessDeposit(s)
  PROVE  SoloInv' /\ SoloForward
<1> DEFINE t == sess[s].tx
<1> faults \in Nat /\ faults' \in {faults, faults + 1}
  BY FaultsGrow DEF Next
<1>1. sess[s].pc \in {"spawned", "loaded", "signed", "submitted", "confirmed",
                      "recorded", "failing", "errored"}
  BY DEF ProcessDeposit, LoadTransaction, LoadSequence, SubmitEnvelope, HorizonAnswers,
     MarkCompleted, NotifySent, MarkError, NotifyError, At
<1>2. t \in Tx /\ SoloAt(s)
  BY <1>1 DEF IInv, SessionInv, Local, At, SoloInv
<1>3. \A l \in Label : Goto(s, l) => /\ sess'[s].pc = l /\ sess'[s].tx = t
                                     /\ \A u \in Session \ {s} : sess'[u] = sess[u]
  BY GotoSess DEF IInv
<1>4. CASE LoadTransaction(s)
  <2>1. /\ row' = row /\ At(s, "spawned") /\ sess'[s].tx = t
        /\ sess'[s].pc \in {"loaded", "failing"}
        /\ \A u \in Session \ {s} : sess'[u] = sess[u]
    BY <1>3, <1>4 DEF LoadTransaction, db, IInv, TypeOK, Task, Label
  <2> QED
    BY <1>2, <2>1, SoloGoes DEF At
<1>5. CASE LoadSequence(s)
  <2>1. /\ row' = row /\ At(s, "loaded") /\ sess'[s].tx = t
        /\ sess'[s].pc \in {"signed", "failing"}
        /\ \A u \in Session \ {s} : sess'[u] = sess[u]
    BY <1>3, <1>5 DEF LoadSequence, db, IInv, TypeOK, Task, Label
  <2> QED
    BY <1>2, <2>1, SoloGoes DEF At
<1>6. CASE SubmitEnvelope(s)
  BY <1>2, <1>3, <1>6, SoloGoes DEF SubmitEnvelope, db, At, Label
<1>7. CASE HorizonAnswers(s)
  BY <1>2, <1>3, <1>7, SoloGoes DEF HorizonAnswers, db, At, Label
<1>8. CASE NotifySent(s)
  <2>1. /\ row' = row /\ sess'[s].tx = t
        /\ \/ sess'[s].pc = "ended"
           \/ sess'[s].pc = "failing" /\ faults' > 0
        /\ \A u \in Session \ {s} : sess'[u] = sess[u]
    <3>1. \/ Goto(s, "ended") /\ NoFault
          \/ Goto(s, "failing") /\ faults' = faults + 1
      BY <1>8 DEF NotifySent, Fault
    <3> QED
      BY <1>3, <1>8, <3>1 DEF NotifySent, db, Label
  <2> QED
    BY <1>2, <2>1, SoloGoes
<1>9. CASE NotifyError(s)
  BY <1>2, <1>3, <1>9, SoloGoes DEF NotifyError, db, At, Label
<1>10. CASE MarkCompleted(s)
  <2> DEFINE e == sess[s].env
  <2>1. /\ At(s, "confirmed") /\ row' \in {row, Completed(t, e)}
        /\ \/ sess'[s].pc = "recorded"
           \/ sess'[s].pc = "failing" /\ faults' > 0
        /\ sess'[s].tx = t
        /\ \A u \in Session \ {s} : sess'[u] = sess[u]
    <3>1. \/ Goto(s, "recorded") /\ NoFault
          \/ Goto(s, "failing") /\ faults' = faults + 1
      BY <1>10 DEF MarkCompleted, Fault
    <3> QED
      BY <1>3, <1>10, <3>1 DEF MarkCompleted, Label
  <2>2. /\ \A x \in Tx \ {t} : row'[x] = row[x]
        /\ row'[t] = row[t] \/ row'[t].status = "completed"
    BY <1>2, <2>1 DEF Completed, IInv, TypeOK, Row
  <2>3. \A x \in Tx : Solo(x)' => Solo(x)
    BY <2>1 DEF Solo
  <2>4. Solo(t) => row[t].status = "awaiting_stellar_payment" /\ row[t].hash = NoEnvelope
    BY <1>2, <2>1 DEF SoloAt, At
  <2>5. SoloInv'
    <3>1. row'[t].status \in {"absent", "received"} => row'[t].hash = NoEnvelope
      BY <1>2, <2>2 DEF SoloInv, Untouched
    <3>2. SoloAt(s)'
      BY <2>1 DEF SoloAt
    <3> QED
      BY <1>2, <2>1, <2>2, <3>1, <3>2, SoloMoves
  <2> QED
    BY <2>2, <2>3, <2>4, <2>5 DEF SoloForward
<1>11. CASE MarkError(s)
  <2>1. /\ At(s, "failing") /\ row' \in {row, Errored(t)}
        /\ sess'[s].pc = "errored" /\ sess'[s].tx = t
        /\ \A u \in Session \ {s} : sess'[u] = sess[u]
    BY <1>3, <1>11 DEF MarkError, Label
  <2>2. /\ \A x \in Tx \ {t} : row'[x] = row[x]
        /\ row'[t].hash = row[t].hash
        /\ row'[t] = row[t] \/ row'[t].status = "error"
    BY <1>2, <2>1 DEF Errored, IInv, TypeOK, Row
  <2>3. SoloInv'
    <3>1. row'[t].status \in {"absent", "received"} => row'[t].hash = NoEnvelope
      BY <1>2, <2>2 DEF SoloInv, Untouched
    <3>2. SoloAt(s)'
      BY <2>1 DEF SoloAt
    <3> QED
      BY <1>2, <2>1, <2>2, <3>1, <3>2, SoloMoves
  <2>4. \A x \in Tx : Solo(x)' => Solo(x)
    BY <2>1 DEF Solo
  <2>5. Solo(t) /\ row[t].status = "completed" => faults > 0
    BY <1>2, <2>1 DEF SoloAt, At
  <2> QED
    BY <2>2, <2>3, <2>4, <2>5 DEF SoloForward
<1> QED
  BY <1>4, <1>5, <1>6, <1>7, <1>8, <1>9, <1>10, <1>11 DEF ProcessDeposit

LEMMA SoloStep == ASSUME IInv, SoloInv, Next PROVE SoloInv' /\ SoloForward
<1> faults \in Nat /\ faults' \in {faults, faults + 1}
  BY FaultsGrow
<1>1. ASSUME NEW t \in Tx, HandleCreated(t) PROVE SoloInv' /\ SoloForward
  <2>1. /\ sess' = sess /\ row[t].status = "absent"
        /\ row'[t].status = "received" /\ row'[t].hash = row[t].hash
        /\ \A x \in Tx \ {t} : row'[x] = row[x]
    BY <1>1 DEF HandleCreated, IInv, TypeOK, Row
  <2>2. SoloInv'
    BY <2>1 DEF SoloInv, SoloAt, Solo, Untouched
  <2> QED
    BY <2>1, <2>2 DEF SoloForward
<1>2. ASSUME NEW s \in Session, NEW t \in Tx, NEW a \in Amount, CheckReceived(s, t, a)
      PROVE  SoloInv' /\ SoloForward
  <2>1. /\ row' = row /\ row[t].status = "received" /\ sess[s].tx = NoTx
        /\ sess'[s].tx = t /\ sess'[s].pc = "checked"
        /\ \A u \in Session \ {s} : sess'[u] = sess[u]
    BY <1>2 DEF CheckReceived, Accepts, db, At, IInv, TypeOK, Task, SessionInv, Local
  <2>2. row[t].hash = NoEnvelope
    BY <2>1 DEF SoloInv, Untouched
  <2>3. SoloAt(s)'
    BY <2>1, <2>2 DEF SoloAt
  <2>4. SoloInv'
    BY <2>1, <2>2, <2>3, SoloMoves
  <2> QED
    BY <2>1, <2>4 DEF SoloForward
<1>3. ASSUME (\E e \in network : Apply(e)) \/ \E p \in Payee : DeleteCustomer(p)
      PROVE  SoloInv' /\ SoloForward
  BY <1>3 DEF Apply, DeleteCustomer, db, SoloInv, SoloAt, Solo, Untouched, SoloForward
<1>4. CASE Crash
  <2>1. /\ row' = row
        /\ \A s \in Session : /\ sess'[s].tx = sess[s].tx
                              /\ sess'[s].pc \in {sess[s].pc, "ended"}
    BY <1>4 DEF Crash, db, IInv, TypeOK, Task, At
  <2> QED
    BY <2>1 DEF SoloInv, SoloAt, Solo, Untouched, SoloForward
<1> QED
  BY <1>1, <1>2, <1>3, <1>4, SoloHandler, SoloTask DEF Next

(* A deposit that one submission took never goes back: what is completed   *)
(* stays so unless its write or report failed, and keeps its hash          *)
(* (sep24/worker.rs, db/sep24_transactions.rs).                            *)
THEOREM SoloDepositsGoForward == Spec => SoloGoesForward
<1>1. IInv /\ SoloInv /\ [Next]_vars => SoloInv' /\ [SoloForward]_vars
  <2>1. SoloInv /\ UNCHANGED vars => SoloInv'
    BY DEF vars, db, SoloInv, SoloAt, Solo, Untouched
  <2> QED
    BY <2>1, SoloStep
<1> QED
  BY <1>1, SoloInit, Invariance, PTL DEF Spec, SoloGoesForward

----------------------------------------------------------------------------
(* Deposits implement Payout.  What has been applied used up its sequence  *)
(* number, so a newly signed envelope has not been paid yet.               *)
SeqInv == \A e \in paid : e.seq <= seqNum

RefInv == IInv /\ SeqInv

LEMMA EnvelopesFinite ==
  ASSUME NEW t \in Tx, NEW S \in SUBSET Submissions(t)
  PROVE  /\ IsFiniteSet(S) /\ IsFiniteSet({sess[s].env : s \in S})
         /\ Cardinality({sess[s].env : s \in S}) <= Cardinality(S)
<1> DEFINE f == [s \in S |-> sess[s].env]
           E == {sess[s].env : s \in S}
<1>1. IsFiniteSet(S)
  BY DepositAssumption, FS_Subset DEF Submissions
<1>2. f \in Surjection(S, E)
  BY DEF Surjection
<1> HIDE DEF f
<1>3. IsFiniteSet(E) /\ Cardinality(E) <= Cardinality(S)
  BY <1>1, <1>2, FS_Surjection
<1> QED
  BY <1>1, <1>3

LEMMA Counts ==
  ASSUME NEW t \in Tx
  PROVE  /\ IsFiniteSet(Submissions(t)) /\ Cardinality(Submissions(t)) \in Nat
         /\ IsFiniteSet(EnvelopesOf(t) \cap paid)
         /\ Cardinality(EnvelopesOf(t) \cap paid) \in Nat
<1>1. IsFiniteSet(Submissions(t)) /\ IsFiniteSet(EnvelopesOf(t))
  BY EnvelopesFinite DEF EnvelopesOf
<1>2. IsFiniteSet(EnvelopesOf(t) \cap paid)
  BY <1>1, FS_Subset
<1> QED
  BY <1>1, <1>2, FS_CardinalityType

(* A step that changes no submission's deposit and no envelope.            *)
SameSessions ==
  \A u \in Session : sess'[u].tx = sess[u].tx /\ sess'[u].env = sess[u].env

LEMMA SameCounts ==
  ASSUME SameSessions PROVE Asked' = Asked /\ (paid' = paid => PaidOut' = PaidOut)
<1>1. \A t \in Tx : Submissions(t)' = Submissions(t)
  BY DEF SameSessions, Submissions
<1>2. \A t \in Tx : EnvelopesOf(t)' = EnvelopesOf(t)
  BY <1>1 DEF SameSessions, EnvelopesOf, Submissions
<1> QED
  BY <1>1, <1>2 DEF Asked, PaidOut

(* Signing gives a submission an envelope that has not been paid.          *)
LEMMA SigningCounts ==
  ASSUME RefInv, NEW s \in Session, LoadSequence(s)
  PROVE  Asked' = Asked /\ PaidOut' = PaidOut
<1>1. UNCHANGED <<db, ledger, platform>> /\ At(s, "loaded")
  BY DEF LoadSequence
<1>2. sess[s].env = NoEnvelope
  BY <1>1 DEF RefInv, IInv, SessionInv, Local, At
<1>3. /\ \A u \in Session : sess'[u].tx = sess[u].tx
      /\ \A u \in Session \ {s} : sess'[u].env = sess[u].env
      /\ sess'[s].env \in {NoEnvelope, SignedPayment(s)}
  BY <1>2 DEF LoadSequence, Goto, RefInv, IInv, TypeOK, Task
<1>4. NoEnvelope \notin paid /\ SignedPayment(s) \notin paid
  BY DepositAssumption DEF RefInv, IInv, TypeOK, SeqInv, SignedPayment, Envelope
<1>5. \A t \in Tx : Submissions(t)' = Submissions(t)
  BY <1>3 DEF Submissions
<1>6. \A t \in Tx : EnvelopesOf(t)' \cap paid = EnvelopesOf(t) \cap paid
  BY <1>2, <1>3, <1>4, <1>5 DEF EnvelopesOf, Submissions
<1> QED
  BY <1>1, <1>5, <1>6 DEF Asked, PaidOut, ledger

(* An envelope is applied to the submissions that signed it, none of which *)
(* had been paid.                                                          *)
LEMMA ApplyPays ==
  ASSUME RefInv, NEW e \in network, Apply(e)
  PROVE  \/ PaidOut' = PaidOut
         \/ \E T \in SUBSET Tx : /\ \A t \in T : PaidOut[t] < Asked[t]
                                /\ PaidOut' = P!Plus(PaidOut, T)
<1>1. CASE paid' = paid
  BY <1>1, SameCounts DEF Apply, SameSessions
<1>2. CASE paid' = paid \cup {e}
  <2> DEFINE T == {t \in Tx : e \in EnvelopesOf(t)}
  <2>1. sess' = sess /\ e.seq = seqNum + 1 /\ e \in Envelope
    BY DEF Apply, RefInv, IInv, TypeOK
  <2>2. e \notin paid
    BY <2>1 DEF RefInv, IInv, TypeOK, SeqInv, Envelope
  <2>3. \A t \in Tx : EnvelopesOf(t)' = EnvelopesOf(t)
    BY <2>1 DEF EnvelopesOf, Submissions
  <2>4. ASSUME NEW t \in T PROVE PaidOut[t] < Asked[t]
    <3>1. PICK s \in Submissions(t) : sess[s].env = e
      BY DEF EnvelopesOf
    <3> DEFINE S == Submissions(t) \ {s}
               E == {sess[u].env : u \in S}
    <3>2. IsFiniteSet(E) /\ Cardinality(E) <= Cardinality(S)
      BY EnvelopesFinite
    <3>3. Cardinality(S) = Cardinality(Submissions(t)) - 1
      BY Counts, FS_RemoveElement
    <3>4. EnvelopesOf(t) \cap paid \subseteq E
      BY <2>2, <3>1 DEF EnvelopesOf
    <3>5. Cardinality(EnvelopesOf(t) \cap paid) <= Cardinality(E)
      BY <3>2, <3>4, FS_Subset
    <3>6. Cardinality(E) \in Nat /\ Cardinality(Submissions(t)) \in Nat
          /\ Cardinality(EnvelopesOf(t) \cap paid) \in Nat
      BY <3>2, Counts, FS_CardinalityType
    <3> HIDE DEF S, E
    <3>7. Cardinality(EnvelopesOf(t) \cap paid) < Cardinality(Submissions(t))
      BY <3>2, <3>3, <3>5, <3>6
    <3> QED
      BY <3>7 DEF PaidOut, Asked
  <2>5. PaidOut' = P!Plus(PaidOut, T)
    <3>1. ASSUME NEW t \in T
          PROVE  Cardinality(EnvelopesOf(t)' \cap paid') =
                   Cardinality(EnvelopesOf(t) \cap paid) + 1
      <4>1. EnvelopesOf(t)' \cap paid' = (EnvelopesOf(t) \cap paid) \cup {e}
        BY <1>2, <2>3
      <4> QED
        BY <2>2, <4>1, Counts, FS_AddElement
    <3>2. ASSUME NEW t \in Tx \ T
          PROVE  EnvelopesOf(t)' \cap paid' = EnvelopesOf(t) \cap paid
      BY <1>2, <2>3
    <3> QED
      BY <3>1, <3>2 DEF PaidOut, P!Plus
  <2> QED
    BY <2>4, <2>5
<1> QED
  BY <1>1, <1>2 DEF Apply

LEMMA CheckAsks ==
  ASSUME RefInv, NEW s \in Session, NEW t \in Tx, NEW a \in Amount, CheckReceived(s, t, a)
  PROVE  Asked' = P!Plus(Asked, {t}) /\ PaidOut' = PaidOut
<1>1. /\ sess[s].tx = NoTx /\ sess[s].env = NoEnvelope /\ paid' = paid
      /\ sess'[s].tx = t /\ sess'[s].env = NoEnvelope
      /\ \A u \in Session \ {s} : sess'[u] = sess[u]
  BY DEF CheckReceived, ledger, At, RefInv, IInv, TypeOK, Task, SessionInv, Local
<1>2. NoEnvelope \notin paid /\ NoTx \notin Tx
  BY DepositAssumption DEF RefInv, IInv, TypeOK
<1>3. /\ Submissions(t)' = Submissions(t) \cup {s} /\ s \notin Submissions(t)
      /\ \A x \in Tx \ {t} : Submissions(x)' = Submissions(x)
  BY <1>1, <1>2 DEF Submissions
<1>4. Cardinality(Submissions(t)') = Cardinality(Submissions(t)) + 1
  BY <1>3, Counts, FS_AddElement
<1>5. \A x \in Tx : EnvelopesOf(x)' \cap paid' = EnvelopesOf(x) \cap paid
  BY <1>1, <1>2 DEF EnvelopesOf, Submissions
<1> QED
  BY <1>3, <1>4, <1>5 DEF Asked, PaidOut, P!Plus

(* A step after which every count is as before, and the rows name what     *)
(* they named before.                                                      *)
LEMMA PayoutStutters ==
  ASSUME SameSessions, paid' = paid, sent' = sent,
         \A t \in Tx : row'[t].hash = row[t].hash
  PROVE  UNCHANGED P!vars
BY SameCounts DEF P!vars, Recorded, Reported

LEMMA PayoutHandler ==
  ASSUME IInv, NEW s \in Session, Handler(s) PROVE UNCHANGED P!vars
<1>1. At(s, "checked") \/ At(s, "found") \/ At(s, "upserted")
  BY DEF Handler, FindCustomer, WriteCustomer, SubmitAmount
<1>2. sess[s].tx \in Tx /\ sess[s].asked \in Amount
  BY <1>1 DEF IInv, SessionInv, Local, At
<1>3. /\ paid' = paid /\ sent' = sent
      /\ row' \in {row, Submitted(sess[s].tx, sess[s].asked)}
  BY DEF Handler, FindCustomer, WriteCustomer, SubmitAmount, db, ledger, platform
<1>4. SameSessions
  BY DEF Handler, FindCustomer, WriteCustomer, Upserted, SubmitAmount, Goto,
     SameSessions, IInv, TypeOK, Task
<1>5. \A t \in Tx : row'[t].hash = row[t].hash
  BY <1>2, <1>3 DEF Submitted, IInv, TypeOK, Row
<1> QED
  BY <1>3, <1>4, <1>5, PayoutStutters

LEMMA PayoutTask ==
  ASSUME RefInv, NEW s \in Session, ProcessDeposit(s) PROVE [P!Next]_(P!vars)
<1> DEFINE t == sess[s].tx
<1>1. IInv /\ Local(s)
  BY DEF RefInv, IInv, SessionInv
<1>2. ASSUME \E l \in Label : Goto(s, l) PROVE SameSessions
  BY <1>1, <1>2, GotoSess DEF SameSessions, IInv
<1>3. CASE LoadTransaction(s)
  <2>1. SameSessions
    BY <1>1, <1>3 DEF LoadTransaction, Goto, SameSessions, IInv, TypeOK, Task
  <2> QED
    BY <1>3, <2>1, PayoutStutters DEF LoadTransaction, db, ledger, platform
<1>4. CASE LoadSequence(s)
  <2>1. UNCHANGED <<row, sent>>
    BY <1>4 DEF LoadSequence, db, platform
  <2> QED
    BY <1>4, <2>1, SigningCounts DEF P!vars, Recorded, Reported
<1>5. CASE SubmitEnvelope(s)
  <2>1. SameSessions
    BY <1>2, <1>5 DEF SubmitEnvelope, Label
  <2> QED
    BY <1>5, <2>1, PayoutStutters DEF SubmitEnvelope, db, platform
<1>6. CASE HorizonAnswers(s)
  <2>1. SameSessions
    BY <1>2, <1>6 DEF HorizonAnswers, Label
  <2> QED
    BY <1>6, <2>1, PayoutStutters DEF HorizonAnswers, db, ledger, platform
<1>7. CASE MarkCompleted(s)
  <2> DEFINE e == sess[s].env
  <2>1. SameSessions /\ paid' = paid /\ sent' = sent
    BY <1>2, <1>7 DEF MarkCompleted, Label, ledger, platform
  <2>2. t \in Tx /\ e \in paid /\ e # NoEnvelope
    BY <1>1, <1>7 DEF Local, MarkCompleted, At
  <2>3. CASE row' = row
    BY <2>1, <2>3, PayoutStutters
  <2>4. CASE row' = Completed(t, e)
    <3>1. row'[t].hash = e /\ \A x \in Tx \ {t} : row'[x] = row[x]
      BY <1>1, <2>2, <2>4 DEF Completed, IInv, TypeOK, Row
    <3>2. Recorded' = Recorded \cup {t}
      BY <2>2, <3>1 DEF Recorded
    <3>3. PaidOut[t] > 0
      <4>1. e \in EnvelopesOf(t) \cap paid
        BY <2>2 DEF EnvelopesOf, Submissions
      <4>2. Cardinality(EnvelopesOf(t) \cap paid) # 0
        BY <2>2, <4>1, Counts, FS_EmptySet
      <4>3. Cardinality(EnvelopesOf(t) \cap paid) \in Nat
        BY <2>2, Counts
      <4>4. Cardinality(EnvelopesOf(t) \cap paid) > 0
        BY <4>2, <4>3
      <4>5. PaidOut[t] = Cardinality(EnvelopesOf(t) \cap paid)
        BY <2>2 DEF PaidOut
      <4> QED
        BY <4>4, <4>5
    <3>4. Asked' = Asked /\ PaidOut' = PaidOut /\ Reported' = Reported
      BY <2>1, SameCounts DEF Reported
    <3>5. P!Record(t)
      BY <3>2, <3>3, <3>4 DEF P!Record
    <3> QED
      BY <2>2, <3>5 DEF P!Next
  <2> QED
    BY <1>7, <2>3, <2>4 DEF MarkCompleted
<1>8. CASE NotifySent(s)
  <2>1. SameSessions /\ paid' = paid /\ row' = row
    BY <1>2, <1>8 DEF NotifySent, Label, ledger, db
  <2>2. t \in Tx /\ t \in Recorded
    BY <1>1, <1>8 DEF Local, NotifySent, At, Recorded
  <2>3. CASE sent' = sent
    BY <2>1, <2>3, PayoutStutters
  <2>4. CASE sent' = sent \cup {<<t, sess[s].env>>}
    <3>1. Reported' = Reported \cup {t}
      <4> DEFINE q == <<t, sess[s].env>>
      <4>1. q[1] = t
        OBVIOUS
      <4>2. sent' = sent \cup {q}
        BY <2>4
      <4> HIDE DEF q
      <4> QED
        BY <4>1, <4>2 DEF Reported
    <3>2. Asked' = Asked /\ PaidOut' = PaidOut /\ Recorded' = Recorded
      BY <2>1, SameCounts DEF Recorded
    <3>3. P!Report(t)
      BY <2>2, <3>1, <3>2 DEF P!Report
    <3> QED
      BY <2>2, <3>3 DEF P!Next
  <2> QED
    BY <1>8, <2>3, <2>4 DEF NotifySent
<1>9. CASE MarkError(s)
  <2>1. SameSessions /\ paid' = paid /\ sent' = sent
    BY <1>2, <1>9 DEF MarkError, Label, ledger, platform
  <2>2. t \in Tx
    BY <1>1, <1>9 DEF Local, MarkError, At
  <2>3. row' \in {row, Errored(t)}
    BY <1>9 DEF MarkError
  <2>4. \A x \in Tx : row'[x].hash = row[x].hash
    BY <1>1, <2>2, <2>3 DEF Errored, IInv, TypeOK, Row
  <2> QED
    BY <2>1, <2>4, PayoutStutters
<1>10. CASE NotifyError(s)
  <2>1. SameSessions
    BY <1>2, <1>10 DEF NotifyError, Label
  <2> QED
    BY <1>10, <2>1, PayoutStutters DEF NotifyError, db, ledger
<1> QED
  BY <1>3, <1>4, <1>5, <1>6, <1>7, <1>8, <1>9, <1>10 DEF ProcessDeposit

LEMMA PayoutStep == ASSUME RefInv, Next PROVE [P!Next]_(P!vars)
<1>1. IInv
  BY DEF RefInv
<1>2. ASSUME NEW t \in Tx, HandleCreated(t) PROVE UNCHANGED P!vars
  BY <1>1, <1>2, PayoutStutters
     DEF HandleCreated, SameSessions, ledger, platform, IInv, TypeOK, Row
<1>3. ASSUME NEW s \in Session, NEW t \in Tx, NEW a \in Amount, CheckReceived(s, t, a)
      PROVE  P!Next
  <2>1. UNCHANGED <<row, sent>>
    BY <1>3 DEF CheckReceived, db, platform
  <2>2. P!Ask({t})
    BY <1>3, <2>1, CheckAsks DEF P!Ask, Recorded, Reported
  <2> QED
    BY <2>2 DEF P!Next
<1>4. ASSUME NEW e \in network, Apply(e) PROVE [P!Next]_(P!vars)
  <2>1. UNCHANGED <<row, sent>> /\ sess' = sess
    BY <1>4 DEF Apply, db, platform
  <2>2. Asked' = Asked /\ Recorded' = Recorded /\ Reported' = Reported
    BY <2>1, SameCounts DEF SameSessions, Recorded, Reported
  <2>3. CASE PaidOut' = PaidOut
    BY <2>2, <2>3 DEF P!vars
  <2>4. ASSUME NEW T \in SUBSET Tx, \A t \in T : PaidOut[t] < Asked[t],
               PaidOut' = P!Plus(PaidOut, T)
        PROVE  P!Next
    BY <2>2, <2>4 DEF P!Next, P!Pay
  <2> QED
    BY <1>4, <2>3, <2>4, ApplyPays
<1>5. CASE Crash
  BY <1>1, <1>5, PayoutStutters
     DEF Crash, SameSessions, db, ledger, platform, IInv, TypeOK, Task
<1>6. ASSUME NEW p \in Payee, DeleteCustomer(p) PROVE UNCHANGED P!vars
  BY <1>6, PayoutStutters DEF DeleteCustomer, SameSessions, ledger, platform
<1> QED
  BY <1>1, <1>2, <1>3, <1>4, <1>5, <1>6, PayoutHandler, PayoutTask DEF Next

LEMMA PayoutInit == Init => P!Init
<1> SUFFICES ASSUME Init PROVE P!Init
  OBVIOUS
<1>1. \A t \in Tx : Submissions(t) = {}
  BY DepositAssumption DEF Init, Submissions
<1>2. \A t \in Tx : EnvelopesOf(t) \cap paid = {}
  BY DEF Init
<1> QED
  BY <1>1, <1>2, FS_EmptySet DEF P!Init, Asked, PaidOut, Recorded, Reported, Init

LEMMA SeqStep == ASSUME IInv, SeqInv, [Next]_vars PROVE SeqInv'
<1>1. CASE UNCHANGED <<paid, seqNum>>
  BY <1>1 DEF SeqInv
<1>2. ASSUME NEW e \in network, Apply(e) PROVE SeqInv'
  <2>1. /\ paid' \subseteq paid \cup {e} /\ seqNum' = e.seq /\ e.seq = seqNum + 1
        /\ seqNum \in Nat /\ paid \subseteq Envelope
    BY <1>2 DEF Apply, IInv, TypeOK
  <2>2. \A x \in paid : x.seq \in Nat
    BY <2>1 DEF Envelope
  <2> QED
    BY <2>1, <2>2 DEF SeqInv
<1>3. ASSUME NEW s \in Session, Handler(s) \/ ProcessDeposit(s)
      PROVE  UNCHANGED <<paid, seqNum>>
  BY <1>3 DEF Handler, FindCustomer, WriteCustomer, SubmitAmount, ProcessDeposit,
     LoadTransaction, LoadSequence, SubmitEnvelope, HorizonAnswers, MarkCompleted,
     NotifySent, MarkError, NotifyError, ledger
<1>4. (\E t \in Tx : HandleCreated(t)) \/ (\E p \in Payee : DeleteCustomer(p))
        \/ Crash \/ UNCHANGED vars => UNCHANGED <<paid, seqNum>>
  BY DEF HandleCreated, DeleteCustomer, Crash, vars, ledger
<1>5. ASSUME NEW s \in Session, NEW t \in Tx, NEW a \in Amount, CheckReceived(s, t, a)
      PROVE  UNCHANGED <<paid, seqNum>>
  BY <1>5 DEF CheckReceived, ledger
<1> QED
  BY <1>1, <1>2, <1>3, <1>4, <1>5 DEF Next

(* Deposits implement Payout: each accepted submission is paid at most     *)
(* once, by an envelope none was paid by before; a row names a payment     *)
(* only after one, and the platform is told only of what a row names       *)
(* (sep24/worker.rs, ledger/mod.rs).                                       *)
THEOREM DepositsImplementPayout == Spec => ImplementsPayout
<1>1. Init => SeqInv
  BY DEF Init, SeqInv
<1>2. RefInv /\ UNCHANGED vars => UNCHANGED P!vars
  BY PayoutStutters DEF vars, db, ledger, platform, SameSessions
<1>3. RefInv /\ [Next]_vars => [P!Next]_(P!vars)
  BY <1>2, PayoutStep
<1>4. IInv /\ SeqInv /\ [Next]_vars => SeqInv'
  BY SeqStep
<1>5. RefInv <=> IInv /\ SeqInv
  BY DEF RefInv
<1> QED
  BY <1>1, <1>3, <1>4, <1>5, PayoutInit, Invariance, PTL
     DEF Spec, ImplementsPayout, P!Spec

----------------------------------------------------------------------------
(* Where nothing fails.  A session answers for a deposit that awaits its   *)
(* payment, and for one that was submitted.                                *)
Owed(t) ==
  /\ row[t].status = "awaiting_stellar_payment" =>
       \E s \in Session : sess[s].tx = t /\ sess[s].pc \in Tasks
  /\ row[t].amount_out # NoAmount =>
       \/ t \in errors \/ \E r \in sent : r[1] = t
       \/ \E s \in Session :
            sess[s].tx = t /\ sess[s].pc \in Tasks \cup {"recorded", "errored"}

LEMMA OwedAs == NothingIsForgotten <=> (faults = 0 => \A t \in Tx : Owed(t))
<1>1. \A t \in Tx : t \in errors \cup {r[1] : r \in sent} <=>
                      t \in errors \/ \E r \in sent : r[1] = t
  OBVIOUS
<1> QED
  BY <1>1 DEF NothingIsForgotten, Owed

(* A step of session s on deposit t: what is left to show is that it still *)
(* answers for t, when nobody else need.                                   *)
LEMMA OwedMoves ==
  ASSUME \A x \in Tx : Owed(x), NEW s \in Session, NEW t \in Tx,
         sess[s].tx \in {t, NoTx}, sess'[s].tx = t,
         \A u \in Session \ {s} : sess'[u] = sess[u],
         \A x \in Tx \ {t} : row'[x] = row[x],
         errors \subseteq errors', sent \subseteq sent',
         row'[t].status = "awaiting_stellar_payment" =>
           \/ sess'[s].pc \in Tasks
           \/ row[t].status = "awaiting_stellar_payment" /\ sess[s].pc \notin Tasks,
         row'[t].amount_out # NoAmount =>
           \/ sess'[s].pc \in Tasks \cup {"recorded", "errored"}
           \/ t \in errors' \/ \E r \in sent' : r[1] = t
           \/ /\ row[t].amount_out # NoAmount
              /\ sess[s].pc \notin Tasks \cup {"recorded", "errored"}
  PROVE  \A x \in Tx : Owed(x)'
<1>1. ASSUME NEW x \in Tx \ {t} PROVE Owed(x)'
  <2>1. Owed(x) /\ row'[x] = row[x]
    OBVIOUS
  <2>2. \A u \in Session : sess[u].tx = x => sess'[u] = sess[u]
    BY DepositAssumption
  <2> QED
    BY <2>1, <2>2 DEF Owed
<1>2. Owed(t)'
  <2>1. Owed(t)
    OBVIOUS
  <2>2. row'[t].status = "awaiting_stellar_payment" =>
          \E u \in Session : sess'[u].tx = t /\ sess'[u].pc \in Tasks
    BY <2>1 DEF Owed
  <2>3. row'[t].amount_out # NoAmount =>
          \/ t \in errors' \/ \E r \in sent' : r[1] = t
          \/ \E u \in Session :
               sess'[u].tx = t /\ sess'[u].pc \in Tasks \cup {"recorded", "errored"}
    BY <2>1 DEF Owed
  <2> QED
    BY <2>2, <2>3 DEF Owed
<1> QED
  BY <1>1, <1>2

LEMMA OwedHandler ==
  ASSUME IInv, \A x \in Tx : Owed(x), faults = 0, faults' = 0,
         NEW s \in Session, Handler(s)
  PROVE  \A x \in Tx : Owed(x)'
<1>1. PICK t \in Tx : t = sess[s].tx
  BY DEF Handler, FindCustomer, WriteCustomer, SubmitAmount, IInv, SessionInv, Local, At
<1>2. ~Fault
  BY DEF Fault
<1>3. CASE FindCustomer(s)
  <2>1. /\ At(s, "checked") /\ sess'[s].pc = "found" /\ sess'[s].tx = t
        /\ \A u \in Session \ {s} : sess'[u] = sess[u]
        /\ row' = row /\ errors' = errors /\ sent' = sent
    BY <1>1, <1>2, <1>3 DEF FindCustomer, db, platform, IInv, TypeOK, Task
  <2>2. sess[s].pc \notin Tasks \cup {"recorded", "errored"}
    BY <2>1 DEF At, Tasks
  <2> QED
    BY <1>1, <2>1, <2>2, OwedMoves
<1>4. CASE WriteCustomer(s)
  <2>1. /\ At(s, "found") /\ sess'[s].pc = "upserted" /\ sess'[s].tx = t
        /\ \A u \in Session \ {s} : sess'[u] = sess[u]
        /\ row' = row /\ errors' = errors /\ sent' = sent
    BY <1>1, <1>2, <1>4 DEF WriteCustomer, Upserted, platform, IInv, TypeOK, Task
  <2>2. sess[s].pc \notin Tasks \cup {"recorded", "errored"}
    BY <2>1 DEF At, Tasks
  <2> QED
    BY <1>1, <2>1, <2>2, OwedMoves
<1>5. CASE SubmitAmount(s)
  <2>1. /\ Goto(s, "spawned") /\ row' = Submitted(t, sess[s].asked)
        /\ errors' = errors /\ sent' = sent
    BY <1>1, <1>2, <1>5 DEF SubmitAmount, platform
  <2>2. /\ sess'[s].tx = t /\ sess'[s].pc = "spawned"
        /\ \A u \in Session \ {s} : sess'[u] = sess[u]
    BY <1>1, <2>1, GotoSess DEF IInv, Label
  <2>3. \A x \in Tx \ {t} : row'[x] = row[x]
    BY <2>1 DEF Submitted, IInv, TypeOK
  <2>4. sess'[s].pc \in Tasks
    BY <2>2 DEF Tasks
  <2> QED
    BY <1>1, <2>1, <2>2, <2>3, <2>4, OwedMoves
<1> QED
  BY <1>3, <1>4, <1>5 DEF Handler

LEMMA OwedTask ==
  ASSUME IInv, \A x \in Tx : Owed(x), faults = 0, faults' = 0,
         NEW s \in Session, ProcessDeposit(s)
  PROVE  \A x \in Tx : Owed(x)'
<1>1. PICK t \in Tx : t = sess[s].tx
  BY DEF ProcessDeposit, LoadTransaction, LoadSequence, SubmitEnvelope, HorizonAnswers,
     MarkCompleted, NotifySent, MarkError, NotifyError, IInv, SessionInv, Local, At
<1>2. ~Fault
  BY DEF Fault
<1>3. \A l \in Label : Goto(s, l) => /\ sess'[s].pc = l /\ sess'[s].tx = t
                                     /\ \A u \in Session \ {s} : sess'[u] = sess[u]
  BY <1>1, GotoSess DEF IInv
<1>4. CASE LoadTransaction(s) \/ LoadSequence(s) \/ SubmitEnvelope(s) \/ HorizonAnswers(s)
  <2>1. row' = row /\ errors' = errors /\ sent' = sent
    BY <1>4 DEF LoadTransaction, LoadSequence, SubmitEnvelope, HorizonAnswers, db, platform
  <2>2. sess'[s].pc \in {"loaded", "signed", "submitted", "confirmed", "failing"}
    BY <1>3, <1>4
    DEF LoadTransaction, LoadSequence, SubmitEnvelope, HorizonAnswers, Label, IInv,
        TypeOK, Task
  <2>3. sess'[s].tx = t /\ \A u \in Session \ {s} : sess'[u] = sess[u]
    BY <1>1, <1>3, <1>4
    DEF LoadTransaction, LoadSequence, SubmitEnvelope, HorizonAnswers, Label, IInv,
        TypeOK, Task
  <2>4. sess'[s].pc \in Tasks
    BY <2>2 DEF Tasks
  <2> QED
    BY <1>1, <2>1, <2>3, <2>4, OwedMoves
<1>5. CASE MarkCompleted(s)
  <2>1. /\ Goto(s, "recorded") /\ row' = Completed(t, sess[s].env)
        /\ errors' = errors /\ sent' = sent
    BY <1>1, <1>2, <1>5 DEF MarkCompleted, platform
  <2>2. /\ row'[t].status = "completed"
        /\ \A x \in Tx \ {t} : row'[x] = row[x]
    BY <2>1 DEF Completed, IInv, TypeOK, Row
  <2> QED
    BY <1>1, <1>3, <2>1, <2>2, OwedMoves DEF Label
<1>6. CASE NotifySent(s)
  <2>1. /\ At(s, "recorded") /\ Goto(s, "ended") /\ row' = row /\ errors' = errors
        /\ sent' = sent \cup {<<t, sess[s].env>>}
    BY <1>1, <1>2, <1>6 DEF NotifySent, db
  <2>2. sess[s].pc \notin Tasks
    BY <2>1 DEF At, Tasks
  <2>3. \E r \in sent' : r[1] = t
    <3>1. <<t, sess[s].env>> \in sent' /\ <<t, sess[s].env>>[1] = t
      BY <2>1
    <3> QED
      BY ONLY <3>1
  <2> QED
    BY <1>1, <1>3, <2>1, <2>2, <2>3, OwedMoves DEF Label
<1>7. CASE MarkError(s)
  <2>1. Goto(s, "errored") /\ row' = Errored(t) /\ errors' = errors /\ sent' = sent
    BY <1>1, <1>2, <1>7 DEF MarkError, platform
  <2>2. /\ row'[t].status = "error"
        /\ \A x \in Tx \ {t} : row'[x] = row[x]
    BY <2>1 DEF Errored, IInv, TypeOK, Row
  <2> QED
    BY <1>1, <1>3, <2>1, <2>2, OwedMoves DEF Label
<1>8. CASE NotifyError(s)
  <2>1. /\ At(s, "errored") /\ Goto(s, "ended") /\ row' = row /\ sent' = sent
        /\ errors' = errors \cup {t}
    BY <1>1, <1>2, <1>8 DEF NotifyError, db
  <2>2. sess[s].pc \notin Tasks
    BY <2>1 DEF At, Tasks
  <2> QED
    BY <1>1, <1>3, <2>1, <2>2, OwedMoves DEF Label
<1> QED
  BY <1>4, <1>5, <1>6, <1>7, <1>8 DEF ProcessDeposit

LEMMA CalmStep ==
  ASSUME IInv, NothingIsForgotten, [Next]_vars PROVE NothingIsForgotten'
<1>1. faults \in Nat /\ (faults' = faults \/ faults' = faults + 1)
  BY FaultsGrow
<1> SUFFICES ASSUME faults' = 0 PROVE \A x \in Tx : Owed(x)'
  BY OwedAs DEF NothingIsForgotten, Owed
<1>2. faults = 0 /\ \A x \in Tx : Owed(x)
  BY <1>1, OwedAs
<1>3. ASSUME NEW t \in Tx, HandleCreated(t) PROVE \A x \in Tx : Owed(x)'
  <2>1. /\ UNCHANGED <<sess, errors, sent>>
        /\ row'[t].status = "received" /\ row'[t].amount_out = row[t].amount_out
        /\ \A x \in Tx \ {t} : row'[x] = row[x]
    BY <1>3 DEF HandleCreated, platform, IInv, TypeOK, Row
  <2> QED
    BY <1>2, <2>1 DEF Owed
<1>4. ASSUME NEW s \in Session, NEW t \in Tx, NEW a \in Amount, CheckReceived(s, t, a)
      PROVE  \A x \in Tx : Owed(x)'
  <2>1. /\ UNCHANGED <<row, errors, sent>>
        /\ At(s, "idle") /\ sess[s].tx = NoTx /\ sess'[s].tx = t
        /\ \A u \in Session \ {s} : sess'[u] = sess[u]
    BY <1>4 DEF CheckReceived, db, platform, At, IInv, TypeOK, Task, SessionInv, Local
  <2>2. sess[s].pc \notin Tasks \cup {"recorded", "errored"}
    BY <2>1 DEF At, Tasks
  <2> QED
    BY <1>2, <2>1, <2>2, OwedMoves
<1>5. ASSUME \/ \E e \in network : Apply(e)
             \/ \E p \in Payee : DeleteCustomer(p)
             \/ UNCHANGED vars
      PROVE  \A x \in Tx : Owed(x)'
  <2>1. UNCHANGED <<row, sess, errors, sent>>
    BY <1>5 DEF Apply, DeleteCustomer, db, platform, vars
  <2> QED
    BY <1>2, <2>1 DEF Owed
<1>6. ~Crash
  BY <1>2 DEF Crash, Fault
<1> QED
  BY <1>2, <1>3, <1>4, <1>5, <1>6, OwedHandler, OwedTask DEF Next

(* Where nothing fails no submitted deposit is dropped half-way, whatever  *)
(* Horizon answers and however submissions overlap (interactive.rs,        *)
(* sep24/worker.rs).                                                       *)
THEOREM NoDepositIsForgotten == Spec => []NothingIsForgotten
<1>1. Init => NothingIsForgotten
  BY DEF Init, NothingIsForgotten
<1>2. IInv /\ NothingIsForgotten /\ [Next]_vars => NothingIsForgotten'
  BY CalmStep
<1> QED
  BY <1>1, <1>2, Invariance, PTL DEF Spec
=============================================================================
