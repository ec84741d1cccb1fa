-------------------------- MODULE CustomersProofs --------------------------
(***************************************************************************)
(* Proofs about Customers.  Every step is one of seven kinds: a call looks,*)
(* updates, inserts, or gives up with the table unchanged; GET answers;    *)
(* rows are deleted; the process dies.  What each kind does to a row and   *)
(* to a call is all the invariant depends on.                              *)
(***************************************************************************)
EXTENDS Customers, TLAPS

Done == {"answered", "ended"}

SameKey(i, h, k) == rows[i].holder = h /\ rows[i].kind = k

(* Ids only ever come into use, and what a call has seen stays in use.     *)
SeenAreBorn ==
  /\ \A c \in Call : work[c].before \subseteq Born
  /\ \A a \in passed : a[1] \in Born

(* A call that found no row for its identity has seen none, to this day.   *)
NoneWasSeen ==
  \A c \in Call : work[c].pc = "unfound" =>
    \A j \in work[c].before : ~(j \in Live /\ SameKey(j, work[c].holder, work[c].kind))

(* The call that inserted a row is over, and saw no other row of its key.  *)
MakersSawNone ==
  \A i \in Born :
    /\ rows[i].maker \in Call
    /\ work[rows[i].maker].pc \in Done
    /\ \A j \in work[rows[i].maker].before :
         ~(j \in Live /\ SameKey(j, rows[i].holder, rows[i].kind))

(* A call about to update a row found it under its id or its own identity. *)
FoundIsNamed ==
  \A c \in Call : work[c].pc = "found" =>
    /\ work[c].id \in Born
    /\ work[c].holder = NoHolder \/ SameKey(work[c].id, work[c].holder, work[c].kind)

IInv == /\ TypeOK /\ SeenAreBorn /\ NoneWasSeen /\ MakersSawNone /\ FoundIsNamed
        /\ FieldsWereGiven /\ AnsweredIsStored /\ PassedStays

----------------------------------------------------------------------------
(* The kinds of steps.                                                     *)

Look(c, t) ==
  /\ work[c].pc = "idle"
  /\ work' = [work EXCEPT ![c] = t]
  /\ t \in Task
  /\ t.before = Born
  /\ \/ /\ t.pc = "found" /\ t.id \in Live
        /\ t.holder = NoHolder \/ SameKey(t.id, t.holder, t.kind)
     \/ t.pc = "unfound" /\ \A j \in Live : ~SameKey(j, t.holder, t.kind)
  /\ UNCHANGED <<rows, passed, faults>>

Ends(c, i, label) ==
  /\ label \in Done
  /\ work' = [work EXCEPT ![c].pc = label, ![c].id = i]
  /\ faults' \in Nat
  /\ UNCHANGED passed

GivesUp(c) ==
  /\ work[c].pc \in {"found", "unfound"}
  /\ work' = [work EXCEPT ![c].pc = "ended"]
  /\ faults' \in Nat
  /\ UNCHANGED <<rows, passed>>

Updates(c, label) ==
  /\ work[c].pc = "found"
  /\ rows' = Updated(c, work[c].id)
  /\ Ends(c, work[c].id, label)

Inserts(c, i, label) ==
  /\ work[c].pc = "unfound"
  /\ i \in Id \ Born
  /\ rows' = Inserted(c, i)
  /\ Ends(c, i, label)

LEMMA KindsOfSteps ==
  ASSUME TypeOK, Next
  PROVE  \/ \E c \in Call, t \in Task : Look(c, t)
         \/ \E c \in Call : GivesUp(c)
         \/ \E c \in Call, label \in Done : Updates(c, label)
         \/ \E c \in Call, i \in Id, label \in Done : Inserts(c, i, label)
         \/ \E i \in Live, k \in Kind : Answer(i, k)
         \/ \E h \in Holder : DeleteCustomer(h)
         \/ Crash
PROOF
  <1>1. ASSUME NEW c \in Call, NEW i \in Id, NEW p \in Payload, PutById(c, i, p)
        PROVE  \E t \in Task : Look(c, t)
    <2> DEFINE t == [pc |-> "found", id |-> i, holder |-> NoHolder, kind |-> NoKind,
                     gives |-> p.gives, nulls |-> p.nulls, before |-> Born]
    <2>1. p.gives \in SUBSET Field /\ p.nulls \in SUBSET Field
      BY CustomersAssumption
    <2>2. t \in Task
      BY <2>1 DEF Task, Born
    <2> QED BY <1>1, <2>2 DEF PutById, Looked, Look
  <1>2. ASSUME NEW c \in Call, NEW h \in Holder, NEW k \in Kind, NEW p \in Payload,
               PutByIdentity(c, h, k, p)
        PROVE  \E t \in Task : Look(c, t)
    <2>1. p.gives \in SUBSET Field /\ p.nulls \in SUBSET Field
      BY CustomersAssumption
    <2>2. CASE \E i \in FindByIdentity(h, k) : Looked(c, "found", i, h, k, p)
      <3>1. PICK i \in FindByIdentity(h, k) : Looked(c, "found", i, h, k, p)
        BY <2>2
      <3> DEFINE t == [pc |-> "found", id |-> i, holder |-> h, kind |-> k,
                       gives |-> p.gives, nulls |-> p.nulls, before |-> Born]
      <3>2. t \in Task
        BY <2>1 DEF Task, Born, FindByIdentity, Live
      <3> QED BY <1>2, <3>1, <3>2 DEF PutByIdentity, Looked, Look, FindByIdentity, SameKey
    <2>3. CASE FindByIdentity(h, k) = {} /\ Looked(c, "unfound", NoId, h, k, p)
      <3> DEFINE t == [pc |-> "unfound", id |-> NoId, holder |-> h, kind |-> k,
                       gives |-> p.gives, nulls |-> p.nulls, before |-> Born]
      <3>1. t \in Task
        BY <2>1 DEF Task, Born
      <3>2. \A j \in Live : ~SameKey(j, h, k)
        BY <2>3 DEF FindByIdentity, SameKey
      <3> QED BY <1>2, <2>3, <3>1, <3>2 DEF PutByIdentity, Looked, Look
    <2> QED BY <1>2, <2>2, <2>3 DEF PutByIdentity
  <1>3. ASSUME NEW c \in Call, NEW h \in Holder, NEW p \in Payload, SubmitForm(c, h, p)
        PROVE  \E t \in Task : Look(c, t)
    <2>1. "sep24" \in Kind
      BY CustomersAssumption
    <2> QED BY <1>2, <1>3, <2>1 DEF SubmitForm
  <1>4. ASSUME NEW c \in Call, NEW i, NEW after, Writes(c, i, after), UNCHANGED passed,
               work[c].pc \in {"found", "unfound"}
        PROVE  \/ GivesUp(c)
               \/ \E label \in Done : rows' = after /\ Ends(c, i, label)
    BY <1>4 DEF Writes, GivesUp, Ends, Done, Fault, NoFault, TypeOK
  <1>5. ASSUME NEW c \in Call, Update(c)
        PROVE  GivesUp(c) \/ \E label \in Done : Updates(c, label)
    BY <1>5, <1>4 DEF Update, Updates
  <1>6. ASSUME NEW c \in Call, NEW i \in Id, Insert(c, i)
        PROVE  GivesUp(c) \/ \E label \in Done : Inserts(c, i, label)
    BY <1>6, <1>4 DEF Insert, Inserts
  <1>7. ASSUME NEW i \in Id, NEW k \in Kind, GetById(i, k)
        PROVE  \E j \in Live, q \in Kind : Answer(j, q)
    BY <1>7 DEF GetById
  <1>8. ASSUME NEW h \in Holder, NEW k \in Kind, GetByIdentity(h, k)
        PROVE  \E j \in Live, q \in Kind : Answer(j, q)
    BY <1>8 DEF GetByIdentity, FindByIdentity
  <1>9. ASSUME NEW h \in Holder, ShowForm(h)
        PROVE  \E j \in Live, q \in Kind : Answer(j, q)
    BY <1>8, <1>9, CustomersAssumption DEF ShowForm
  <1>10. CASE \E c \in Call, i \in Id, p \in Payload : PutById(c, i, p)
    BY <1>1, <1>10
  <1>11. CASE \E c \in Call, h \in Holder, k \in Kind, p \in Payload :
                PutByIdentity(c, h, k, p)
    BY <1>2, <1>11
  <1>12. CASE \E c \in Call, h \in Holder, p \in Payload : SubmitForm(c, h, p)
    BY <1>3, <1>12
  <1>13. CASE \E c \in Call : Update(c)
    BY <1>5, <1>13
  <1>14. CASE \E c \in Call, i \in Id : Insert(c, i)
    BY <1>6, <1>14
  <1>15. CASE \/ \E i \in Id, k \in Kind : GetById(i, k)
              \/ \E h \in Holder, k \in Kind : GetByIdentity(h, k)
              \/ \E h \in Holder : ShowForm(h)
    BY <1>7, <1>8, <1>9, <1>15
  <1> QED BY <1>10, <1>11, <1>12, <1>13, <1>14, <1>15 DEF Next

----------------------------------------------------------------------------
(* What the kinds do to rows and calls.                                    *)

(* A call that is over keeps what it named, carried and saw.               *)
LEMMA DoneIsFinal ==
  ASSUME TypeOK, Next, NEW c \in Call, work[c].pc \in Done
  PROVE  work'[c] = work[c]
PROOF
  <1>1. ASSUME NEW d \in Call, NEW t \in Task, Look(d, t)
        PROVE  work'[c] = work[c]
    BY <1>1 DEF Look, TypeOK, Done
  <1>2. ASSUME NEW d \in Call, GivesUp(d)
        PROVE  work'[c] = work[c]
    BY <1>2 DEF GivesUp, TypeOK, Done
  <1>3. ASSUME NEW d \in Call, NEW label \in Done, Updates(d, label)
        PROVE  work'[c] = work[c]
    BY <1>3 DEF Updates, Ends, TypeOK, Done
  <1>4. ASSUME NEW d \in Call, NEW i \in Id, NEW label \in Done, Inserts(d, i, label)
        PROVE  work'[c] = work[c]
    BY <1>4 DEF Inserts, Ends, TypeOK, Done
  <1>5. ASSUME NEW i \in Live, NEW k \in Kind, Answer(i, k)
        PROVE  work'[c] = work[c]
    BY <1>5 DEF Answer
  <1>6. ASSUME NEW h \in Holder, DeleteCustomer(h)
        PROVE  work'[c] = work[c]
    BY <1>6 DEF DeleteCustomer
  <1>7. ASSUME Crash
        PROVE  work'[c] = work[c]
    BY <1>7 DEF Crash, Done
  <1> QED BY <1>1, <1>2, <1>3, <1>4, <1>5, <1>6, <1>7, KindsOfSteps

(* A row in use stays in use, keeps its identity and its maker, and never  *)
(* comes back to life.                                                     *)
LEMMA RowsAreStable ==
  ASSUME TypeOK, Next, NEW j \in Id, j \in Born
  PROVE  /\ j \in Born'
         /\ j \in Live' => j \in Live
         /\ rows'[j].holder = rows[j].holder
         /\ rows'[j].kind = rows[j].kind
         /\ rows'[j].maker = rows[j].maker
PROOF
  <1>0. rows[j] \in Row
    BY DEF TypeOK
  <1>1. CASE rows' = rows
    BY <1>1 DEF Born, Live
  <1>2. ASSUME NEW d \in Call, NEW label \in Done, Updates(d, label)
        PROVE  /\ rows'[j].state = rows[j].state
               /\ rows'[j].holder = rows[j].holder
               /\ rows'[j].kind = rows[j].kind
               /\ rows'[j].maker = rows[j].maker
    BY <1>2, <1>0 DEF Updates, Updated, Live, TypeOK, Row
  <1>3. ASSUME NEW d \in Call, NEW i \in Id, NEW label \in Done, Inserts(d, i, label)
        PROVE  rows'[j] = rows[j]
    BY <1>3 DEF Inserts, Inserted, TypeOK
  <1>4. ASSUME NEW h \in Holder, DeleteCustomer(h)
        PROVE  /\ rows'[j].state # "unborn"
               /\ rows'[j].state = "live" => rows[j].state = "live"
               /\ rows'[j].holder = rows[j].holder
               /\ rows'[j].kind = rows[j].kind
               /\ rows'[j].maker = rows[j].maker
    BY <1>4, <1>0 DEF DeleteCustomer, Born, Live, Row
  <1>5. rows' = rows \/ (\E d \in Call, label \in Done : Updates(d, label))
        \/ (\E d \in Call, i \in Id, label \in Done : Inserts(d, i, label))
        \/ (\E h \in Holder : DeleteCustomer(h))
    BY KindsOfSteps DEF Look, GivesUp, Answer, Crash
  <1> QED BY <1>1, <1>2, <1>3, <1>4, <1>5 DEF Born, Live

LEMMA TypeStep ==
  ASSUME TypeOK, Next
  PROVE  TypeOK'
PROOF
  <1>1. ASSUME NEW c \in Call, NEW t \in Task, Look(c, t)
        PROVE  TypeOK'
    BY <1>1 DEF Look, TypeOK
  <1>2. ASSUME NEW c \in Call, GivesUp(c)
        PROVE  TypeOK'
    BY <1>2 DEF GivesUp, TypeOK, Task
  <1>3. ASSUME NEW c \in Call, NEW i \in Id \cup {NoId}, NEW label \in Done, Ends(c, i, label)
        PROVE  work' \in [Call -> Task]
    <2> DEFINE w == [work EXCEPT ![c].pc = label]
    <2>1. w \in [Call -> Task]
      BY DEF TypeOK, Task, Done
    <2>2. work' = [w EXCEPT ![c].id = i]
      BY <1>3 DEF Ends, TypeOK
    <2> HIDE DEF w
    <2> QED BY <2>1, <2>2 DEF Task
  <1>4. ASSUME NEW c \in Call, NEW i \in Id
        PROVE  Updated(c, i) \in [Id -> Row]
    <2> DEFINE fs == (rows[i].fields \ work[c].nulls) \cup work[c].gives
    <2>1. fs \in SUBSET Field
      BY DEF TypeOK, Row, Task
    <2> HIDE DEF fs
    <2>2. [rows EXCEPT ![i].fields = fs] \in [Id -> Row]
      BY <2>1 DEF TypeOK, Row
    <2> QED BY <2>2 DEF Updated, TypeOK, fs
  <1>5. ASSUME NEW c \in Call, NEW label \in Done, Updates(c, label)
        PROVE  TypeOK'
    <2>1. work[c].id \in Id \cup {NoId}
      BY DEF TypeOK, Task
    <2>2. work' \in [Call -> Task]
      BY <1>3, <1>5, <2>1 DEF Updates
    <2>3. rows' \in [Id -> Row]
      <3>1. CASE work[c].id \in Id
        BY <1>4, <1>5, <3>1 DEF Updates
      <3>2. CASE work[c].id \notin Id
        BY <1>5, <3>2 DEF Updates, Updated, Live, TypeOK
      <3> QED BY <3>1, <3>2
    <2> QED BY <1>5, <2>2, <2>3 DEF Updates, Ends, TypeOK
  <1>6. ASSUME NEW c \in Call, NEW i \in Id, NEW label \in Done, Inserts(c, i, label)
        PROVE  TypeOK'
    <2>1. rows' \in [Id -> Row]
      BY <1>6 DEF Inserts, Inserted, TypeOK, Row, Task
    <2>2. work' \in [Call -> Task]
      BY <1>3, <1>6 DEF Inserts
    <2> QED BY <1>6, <2>1, <2>2 DEF Inserts, Ends, TypeOK
  <1>7. ASSUME NEW i \in Live, NEW k \in Kind, Answer(i, k)
        PROVE  TypeOK'
    BY <1>7 DEF Answer, TypeOK, Live
  <1>8. ASSUME NEW h \in Holder, DeleteCustomer(h)
        PROVE  TypeOK'
    BY <1>8 DEF DeleteCustomer, TypeOK, Row
  <1>9. ASSUME Crash
        PROVE  TypeOK'
    BY <1>9 DEF Crash, Fault, TypeOK, Task
  <1> QED BY <1>1, <1>2, <1>5, <1>6, <1>7, <1>8, <1>9, KindsOfSteps

(* A call goes from idle to its look, and from there to its end.           *)
LEMMA CallSteps ==
  ASSUME TypeOK, Next, NEW c \in Call
  PROVE  \/ work'[c] = work[c]
         \/ Look(c, work'[c])
         \/ /\ work[c].pc \in {"found", "unfound"}
            /\ work'[c].pc \in Done
            /\ work'[c].before = work[c].before
PROOF
  <1>0. work[c] \in Task
    BY DEF TypeOK
  <1>1. ASSUME NEW d \in Call, NEW t \in Task, Look(d, t)
        PROVE  work'[c] = work[c] \/ Look(c, work'[c])
    <2>1. CASE d = c
      <3>1. work'[c] = t
        BY <1>1, <2>1 DEF Look, TypeOK
      <3> QED BY <1>1, <2>1, <3>1
    <2>2. CASE d # c
      BY <1>1, <2>2 DEF Look, TypeOK
    <2> QED BY <2>1, <2>2
  <1>2. ASSUME NEW d \in Call, GivesUp(d)
        PROVE  work'[c] = work[c] \/ (/\ work[c].pc \in {"found", "unfound"}
                                      /\ work'[c].pc \in Done
                                      /\ work'[c].before = work[c].before)
    BY <1>0, <1>2 DEF GivesUp, TypeOK, Task, Done
  <1>3. ASSUME NEW d \in Call, NEW i, NEW label \in Done, Ends(d, i, label),
               work[d].pc \in {"found", "unfound"}
        PROVE  work'[c] = work[c] \/ (/\ work[c].pc \in {"found", "unfound"}
                                      /\ work'[c].pc \in Done
                                      /\ work'[c].before = work[c].before)
    BY <1>0, <1>3 DEF Ends, TypeOK, Task
  <1>4. ASSUME Crash
        PROVE  work'[c] = work[c] \/ (/\ work[c].pc \in {"found", "unfound"}
                                      /\ work'[c].pc \in Done
                                      /\ work'[c].before = work[c].before)
    BY <1>0, <1>4 DEF Crash, Task, Done
  <1>5. ASSUME NEW d \in Call, NEW label \in Done, Updates(d, label)
        PROVE  work'[c] = work[c] \/ (/\ work[c].pc \in {"found", "unfound"}
                                      /\ work'[c].pc \in Done
                                      /\ work'[c].before = work[c].before)
    BY <1>3, <1>5 DEF Updates
  <1>6. ASSUME NEW d \in Call, NEW i \in Id, NEW label \in Done, Inserts(d, i, label)
        PROVE  work'[c] = work[c] \/ (/\ work[c].pc \in {"found", "unfound"}
                                      /\ work'[c].pc \in Done
                                      /\ work'[c].before = work[c].before)
    BY <1>3, <1>6 DEF Inserts
  <1>7. CASE \/ \E i \in Live, k \in Kind : Answer(i, k)
             \/ \E h \in Holder : DeleteCustomer(h)
    BY <1>7 DEF Answer, DeleteCustomer
  <1> QED BY <1>1, <1>2, <1>4, <1>5, <1>6, <1>7, KindsOfSteps

LEMMA NewRowsAreInserted ==
  ASSUME TypeOK, Next, NEW i \in Born', i \notin Born
  PROVE  \E c \in Call, label \in Done : Inserts(c, i, label)
PROOF
  <1>0. i \in Id /\ rows[i].state = "unborn" /\ rows[i] \in Row /\ rows'[i].state # "unborn"
    BY DEF Born, TypeOK
  <1>1. rows' # rows
    BY <1>0
  <1>2. ASSUME NEW d \in Call, NEW label \in Done, Updates(d, label)
        PROVE  FALSE
    <2>1. rows'[i].state = rows[i].state
      BY <1>2, <1>0 DEF Updates, Updated, Live, TypeOK, Row
    <2> QED BY <1>0, <2>1
  <1>3. ASSUME NEW h \in Holder, DeleteCustomer(h)
        PROVE  FALSE
    BY <1>0, <1>3 DEF DeleteCustomer, Live
  <1>4. ASSUME NEW d \in Call, NEW j \in Id, NEW label \in Done, Inserts(d, j, label)
        PROVE  i = j
    BY <1>0, <1>4 DEF Inserts, Inserted, TypeOK
  <1>5. (\E d \in Call, label \in Done : Updates(d, label))
        \/ (\E d \in Call, j \in Id, label \in Done : Inserts(d, j, label))
        \/ (\E h \in Holder : DeleteCustomer(h))
    BY <1>1, KindsOfSteps DEF Look, GivesUp, Answer, Crash
  <1> QED BY <1>2, <1>3, <1>4, <1>5

(* What a step writes to a row that exists.                                *)
LEMMA UpdatesWrite ==
  ASSUME TypeOK, NEW c \in Call, NEW label \in Done, Updates(c, label),
         NEW i \in Live
  PROVE  /\ i = work[c].id =>
              rows'[i].fields = (rows[i].fields \ work[c].nulls) \cup work[c].gives
         /\ i # work[c].id => rows'[i].fields = rows[i].fields
         /\ work'[c].pc = label /\ work'[c].id = work[c].id
         /\ work'[c].gives = work[c].gives /\ work'[c].nulls = work[c].nulls
         /\ work'[c].holder = work[c].holder /\ work'[c].kind = work[c].kind
PROOF
  <1>1. rows[i] \in Row /\ i \in Id /\ work[c] \in Task
    BY DEF TypeOK, Live
  <1>2. /\ i = work[c].id =>
              rows'[i].fields = (rows[i].fields \ work[c].nulls) \cup work[c].gives
        /\ i # work[c].id => rows'[i].fields = rows[i].fields
    BY <1>1 DEF Updates, Updated, TypeOK, Row
  <1>3. /\ work'[c].pc = label /\ work'[c].id = work[c].id
        /\ work'[c].gives = work[c].gives /\ work'[c].nulls = work[c].nulls
        /\ work'[c].holder = work[c].holder /\ work'[c].kind = work[c].kind
    BY <1>1 DEF Updates, Ends, TypeOK, Task
  <1> QED BY <1>2, <1>3

LEMMA InsertsWrite ==
  ASSUME TypeOK, NEW c \in Call, NEW i \in Id, NEW label \in Done, Inserts(c, i, label)
  PROVE  /\ rows'[i] = [state |-> "live", holder |-> work[c].holder,
              kind |-> work[c].kind, fields |-> work[c].gives, maker |-> c]
         /\ work'[c].pc = label /\ work'[c].id = i /\ work'[c].gives = work[c].gives
         /\ work'[c].holder = work[c].holder /\ work'[c].kind = work[c].kind
         /\ work'[c].before = work[c].before
PROOF
  <1>1. work[c] \in Task
    BY DEF TypeOK
  <1>2. /\ work'[c].pc = label /\ work'[c].id = i /\ work'[c].gives = work[c].gives
        /\ work'[c].holder = work[c].holder /\ work'[c].kind = work[c].kind
        /\ work'[c].before = work[c].before
    BY <1>1 DEF Inserts, Ends, TypeOK, Task
  <1>3. rows'[i] = [state |-> "live", holder |-> work[c].holder,
              kind |-> work[c].kind, fields |-> work[c].gives, maker |-> c]
    BY DEF Inserts, Inserted, TypeOK
  <1> QED BY <1>2, <1>3

(* A field of a row that stays is lost only to a call that set it to null. *)
LEMMA FieldsAreKept ==
  ASSUME TypeOK, Next, NEW i \in Live, i \in Live'
  PROVE  rows[i].fields \cup Nulled(i) \subseteq rows'[i].fields \cup Nulled(i)'
PROOF
  <1>0. i \in Id /\ i \in Born /\ rows[i] \in Row
    BY DEF Live, Born, TypeOK
  <1>1. Nulled(i) \subseteq Nulled(i)'
    <2>1. \A c \in Call : work[c].pc \in Done => work'[c] = work[c]
      BY DoneIsFinal
    <2> QED BY <2>1 DEF Nulled, Done
  <1>2. ASSUME NEW c \in Call, NEW label \in Done, Updates(c, label)
        PROVE  rows[i].fields \subseteq rows'[i].fields \cup Nulled(i)'
    <2>1. CASE i = work[c].id
      <3>1. rows'[i].fields = (rows[i].fields \ work[c].nulls) \cup work[c].gives
        BY <1>2, <2>1, UpdatesWrite
      <3>2. work'[c].pc \in Done /\ work'[c].id = i /\ work'[c].nulls = work[c].nulls
        BY <1>2, <2>1, UpdatesWrite
      <3>3. work[c].nulls \subseteq Nulled(i)'
        BY <3>2 DEF Nulled, Done
      <3> QED BY <3>1, <3>3
    <2>2. CASE i # work[c].id
      BY <1>2, <2>2, UpdatesWrite
    <2> QED BY <2>1, <2>2
  <1>3. ASSUME NEW c \in Call, NEW j \in Id, NEW label \in Done, Inserts(c, j, label)
        PROVE  rows[i].fields \subseteq rows'[i].fields
    BY <1>0, <1>3 DEF Inserts, Inserted, TypeOK
  <1>4. ASSUME NEW h \in Holder, DeleteCustomer(h)
        PROVE  rows[i].fields \subseteq rows'[i].fields
    <2>1. rows[i].holder # h
      BY <1>0, <1>4 DEF DeleteCustomer, Live, Row
    <2> QED BY <1>0, <1>4, <2>1 DEF DeleteCustomer
  <1>5. rows' = rows \/ (\E d \in Call, label \in Done : Updates(d, label))
        \/ (\E d \in Call, j \in Id, label \in Done : Inserts(d, j, label))
        \/ (\E h \in Holder : DeleteCustomer(h))
    BY KindsOfSteps DEF Look, GivesUp, Answer, Crash
  <1>6. rows[i].fields \subseteq rows'[i].fields \cup Nulled(i)'
    BY <1>2, <1>3, <1>4, <1>5
  <1> QED BY <1>1, <1>6

----------------------------------------------------------------------------
(* Each part of the invariant is preserved.                                *)

LEMMA SeenStep ==
  ASSUME IInv, Next
  PROVE  SeenAreBorn'
PROOF
  <1>1. Born \subseteq Born'
    BY RowsAreStable DEF IInv, Born
  <1>2. ASSUME NEW c \in Call
        PROVE  work'[c].before \subseteq Born'
    BY <1>1, CallSteps DEF IInv, SeenAreBorn, Look
  <1>3. passed' = passed \/ \E i \in Live, k \in Kind : passed' = passed \cup {<<i, k>>}
    BY KindsOfSteps DEF IInv, Look, GivesUp, Updates, Inserts, Ends, Answer,
       DeleteCustomer, Crash
  <1>4. Live \subseteq Born
    BY DEF Live, Born
  <1>5. \A a \in passed' : a[1] \in Born'
    BY <1>1, <1>3, <1>4 DEF IInv, SeenAreBorn
  <1> QED BY <1>2, <1>5 DEF SeenAreBorn

LEMMA NoneWasSeenStep ==
  ASSUME IInv, Next
  PROVE  NoneWasSeen'
PROOF
  <1> SUFFICES ASSUME NEW c \in Call, work'[c].pc = "unfound",
                      NEW j \in work'[c].before, j \in Live'
               PROVE  ~(/\ rows'[j].holder = work'[c].holder
                        /\ rows'[j].kind = work'[c].kind)
    BY DEF NoneWasSeen, SameKey
  <1>1. CASE work'[c] = work[c]
    <2>1. j \in Born /\ j \in Id
      BY <1>1 DEF IInv, SeenAreBorn, Born
    <2>2. j \in Live /\ rows'[j].holder = rows[j].holder /\ rows'[j].kind = rows[j].kind
      BY <2>1, RowsAreStable DEF IInv
    <2> QED BY <1>1, <2>2 DEF IInv, NoneWasSeen, SameKey
  <1>2. CASE Look(c, work'[c])
    BY <1>2 DEF Look, SameKey, Live
  <1> QED BY <1>1, <1>2, CallSteps DEF IInv, Done

LEMMA MakersStep ==
  ASSUME IInv, Next
  PROVE  MakersSawNone'
PROOF
  <1> SUFFICES ASSUME NEW i \in Born'
               PROVE  /\ rows'[i].maker \in Call
                      /\ work'[rows'[i].maker].pc \in Done
                      /\ \A j \in work'[rows'[i].maker].before :
                           j \in Live' => ~ (/\ rows'[j].holder = rows'[i].holder
                                             /\ rows'[j].kind = rows'[i].kind)
    BY DEF MakersSawNone, SameKey
  <1>0. i \in Id
    BY DEF Born
  <1>1. CASE i \in Born
    <2> DEFINE m == rows[i].maker
    <2>1. m \in Call /\ work[m].pc \in Done
      BY <1>1 DEF IInv, MakersSawNone
    <2>2. work'[m] = work[m] /\ rows'[i].maker = m
      BY <1>0, <1>1, <2>1, DoneIsFinal, RowsAreStable DEF IInv
    <2>3. rows'[i].holder = rows[i].holder /\ rows'[i].kind = rows[i].kind
      BY <1>0, <1>1, RowsAreStable DEF IInv
    <2>4. ASSUME NEW j \in work[m].before, j \in Live'
          PROVE  ~(rows'[j].holder = rows[i].holder /\ rows'[j].kind = rows[i].kind)
      <3>1. j \in Born /\ j \in Id
        BY <2>1 DEF IInv, SeenAreBorn, Born
      <3>2. j \in Live /\ rows'[j].holder = rows[j].holder /\ rows'[j].kind = rows[j].kind
        BY <2>4, <3>1, RowsAreStable DEF IInv
      <3> QED BY <1>1, <3>2 DEF IInv, MakersSawNone, SameKey
    <2> QED BY <2>1, <2>2, <2>3, <2>4
  <1>2. CASE i \notin Born
    <2>1. PICK c \in Call, label \in Done : Inserts(c, i, label)
      BY <1>2, NewRowsAreInserted DEF IInv
    <2>2. /\ rows'[i].maker = c /\ rows'[i].holder = work[c].holder
          /\ rows'[i].kind = work[c].kind
          /\ work'[c].pc = label /\ work'[c].before = work[c].before
      <3>1. TypeOK
        BY DEF IInv
      <3>2. rows'[i] = [state |-> "live", holder |-> work[c].holder,
              kind |-> work[c].kind, fields |-> work[c].gives, maker |-> c]
        BY <1>0, <2>1, <3>1, InsertsWrite
      <3>3. work'[c].pc = label /\ work'[c].before = work[c].before
        <4>1. work[c] \in Task
          BY <3>1 DEF TypeOK
        <4> QED BY <2>1, <3>1, <4>1 DEF Inserts, Ends, TypeOK, Task
      <3> QED BY <3>2, <3>3
    <2>3. ASSUME NEW j \in work[c].before, j \in Live'
          PROVE  ~(rows'[j].holder = work[c].holder /\ rows'[j].kind = work[c].kind)
      <3>1. j \in Born /\ j \in Id
        BY DEF IInv, SeenAreBorn, Born
      <3>2. j \in Live /\ rows'[j].holder = rows[j].holder /\ rows'[j].kind = rows[j].kind
        BY <2>3, <3>1, RowsAreStable DEF IInv
      <3>3. work[c].pc = "unfound"
        BY <2>1 DEF Inserts
      <3> QED BY <3>2, <3>3 DEF IInv, NoneWasSeen, SameKey
    <2> QED BY <2>2, <2>3
  <1> QED BY <1>1, <1>2

LEMMA FoundStep ==
  ASSUME IInv, Next
  PROVE  FoundIsNamed'
PROOF
  <1> SUFFICES ASSUME NEW c \in Call, work'[c].pc = "found"
               PROVE  /\ work'[c].id \in Born'
                      /\ work'[c].holder = NoHolder
                         \/ (/\ rows'[work'[c].id].holder = work'[c].holder
                             /\ rows'[work'[c].id].kind = work'[c].kind)
    BY DEF FoundIsNamed, SameKey
  <1>1. CASE work'[c] = work[c]
    <2>1. work[c].id \in Born /\ work[c].id \in Id
      BY <1>1 DEF IInv, FoundIsNamed, Born
    <2> QED BY <1>1, <2>1, RowsAreStable DEF IInv, FoundIsNamed, SameKey
  <1>2. CASE Look(c, work'[c])
    BY <1>2 DEF Look, SameKey, Live, Born
  <1> QED BY <1>1, <1>2, CallSteps DEF IInv, Done

LEMMA NamedIsStable ==
  ASSUME IInv, Next, NEW i \in Born, NEW c \in Call, Named(c, i)
  PROVE  Named(c, i)' /\ work'[c] = work[c]
PROOF
  <1>1. i \in Id /\ TypeOK
    BY DEF Born, IInv
  <1>2. work'[c] = work[c]
    BY <1>1, DoneIsFinal DEF Named, Done
  <1>3. rows'[i].holder = rows[i].holder /\ rows'[i].kind = rows[i].kind
    BY <1>1, RowsAreStable
  <1> QED BY <1>2, <1>3 DEF Named

LEMMA UpdaterIsNamed ==
  ASSUME IInv, Next, NEW c \in Call, NEW label \in Done, Updates(c, label),
         NEW i \in Id, i = work[c].id
  PROVE  Named(c, i)'
PROOF
  <1>1. TypeOK /\ work[c].pc = "found" /\ work[c] \in Task
    BY DEF IInv, TypeOK, Updates
  <1>2. i \in Born /\ (work[c].holder = NoHolder \/ SameKey(i, work[c].holder, work[c].kind))
    BY <1>1 DEF IInv, FoundIsNamed
  <1>3. rows'[i].holder = rows[i].holder /\ rows'[i].kind = rows[i].kind
    BY <1>1, <1>2, RowsAreStable
  <1>4. /\ work'[c].pc = label /\ work'[c].id = i
        /\ work'[c].holder = work[c].holder /\ work'[c].kind = work[c].kind
    BY <1>1 DEF Updates, Ends, TypeOK, Task
  <1> QED BY <1>2, <1>3, <1>4 DEF Named, SameKey, Done

LEMMA InserterIsNamed ==
  ASSUME IInv, Next, NEW c \in Call, NEW i \in Id, NEW label \in Done, Inserts(c, i, label)
  PROVE  Named(c, i)' /\ work'[c].gives = work[c].gives /\ rows'[i].fields = work[c].gives
PROOF
  <1>1. TypeOK
    BY DEF IInv
  <1>2. rows'[i] = [state |-> "live", holder |-> work[c].holder,
              kind |-> work[c].kind, fields |-> work[c].gives, maker |-> c]
    BY <1>1, InsertsWrite
  <1>3. /\ work'[c].pc = label /\ work'[c].id = i /\ work'[c].gives = work[c].gives
        /\ work'[c].holder = work[c].holder /\ work'[c].kind = work[c].kind
    <2>1. work[c] \in Task
      BY <1>1 DEF TypeOK
    <2> QED BY <1>1, <2>1 DEF Inserts, Ends, TypeOK, Task
  <1> QED BY <1>2, <1>3 DEF Named, Done

LEMMA GivenStep ==
  ASSUME IInv, Next
  PROVE  FieldsWereGiven'
PROOF
  <1> SUFFICES ASSUME NEW i \in Live', NEW f \in rows'[i].fields
               PROVE  \E c \in Call : Named(c, i)' /\ f \in work'[c].gives
    BY DEF FieldsWereGiven
  <1>0. TypeOK /\ i \in Id /\ i \in Born'
    BY DEF IInv, Live, Born
  <1>1. CASE i \notin Born
    <2>1. PICK c \in Call, label \in Done : Inserts(c, i, label)
      BY <1>0, <1>1, NewRowsAreInserted
    <2> QED BY <1>0, <2>1, InserterIsNamed
  <1>2. CASE i \in Born
    <2>1. i \in Live
      BY <1>0, <1>2, RowsAreStable
    <2>2. CASE f \in rows[i].fields
      <3>1. PICK c \in Call : Named(c, i) /\ f \in work[c].gives
        BY <2>1, <2>2 DEF IInv, FieldsWereGiven
      <3>2. Named(c, i)' /\ work'[c] = work[c]
        BY <1>2, <3>1, NamedIsStable
      <3> QED BY <3>1, <3>2
    <2>3. CASE f \notin rows[i].fields
      <3>0. rows[i] \in Row
        BY <1>0 DEF TypeOK
      <3>1. ASSUME NEW c \in Call, NEW label \in Done, Updates(c, label)
            PROVE  Named(c, i)' /\ f \in work'[c].gives
        <4>1. i = work[c].id
          BY <1>0, <2>1, <2>3, <3>1, UpdatesWrite
        <4>2. rows'[i].fields = (rows[i].fields \ work[c].nulls) \cup work[c].gives
          BY <1>0, <2>1, <3>1, <4>1, UpdatesWrite
        <4>3. work'[c].gives = work[c].gives
          <5>1. work[c] \in Task
            BY <1>0 DEF TypeOK
          <5> QED BY <1>0, <3>1, <5>1 DEF Updates, Ends, TypeOK, Task
        <4>4. Named(c, i)'
          BY <1>0, <3>1, <4>1, UpdaterIsNamed
        <4> QED BY <2>3, <4>2, <4>3, <4>4
      <3>2. ASSUME NEW c \in Call, NEW j \in Id, NEW label \in Done, Inserts(c, j, label)
            PROVE  FALSE
        BY <1>0, <1>2, <2>3, <3>2 DEF Inserts, Inserted, TypeOK
      <3>3. ASSUME NEW h \in Holder, DeleteCustomer(h)
            PROVE  FALSE
        BY <1>0, <2>3, <3>0, <3>3 DEF DeleteCustomer, Live, Row
      <3>4. rows' # rows
        BY <2>3
      <3>5. (\E d \in Call, label \in Done : Updates(d, label))
            \/ (\E d \in Call, j \in Id, label \in Done : Inserts(d, j, label))
            \/ (\E h \in Holder : DeleteCustomer(h))
        BY <1>0, <3>4, KindsOfSteps DEF Look, GivesUp, Answer, Crash
      <3> QED BY <3>1, <3>2, <3>3, <3>5
    <2> QED BY <2>2, <2>3
  <1> QED BY <1>1, <1>2

(* Only an update or an insert answers a call.                             *)
LEMMA AnsweredByWrite ==
  ASSUME TypeOK, Next, NEW c \in Call, work'[c].pc = "answered"
  PROVE  \/ work'[c] = work[c]
         \/ Updates(c, "answered")
         \/ \E i \in Id : Inserts(c, i, "answered")
PROOF
  <1>0. work[c] \in Task
    BY DEF TypeOK
  <1>1. ASSUME NEW d \in Call, NEW t \in Task, Look(d, t)
        PROVE  work'[c] = work[c]
    BY <1>1 DEF Look, TypeOK
  <1>2. ASSUME NEW d \in Call, GivesUp(d)
        PROVE  work'[c] = work[c]
    BY <1>0, <1>2 DEF GivesUp, TypeOK, Task
  <1>3. ASSUME NEW d \in Call, NEW label \in Done, Updates(d, label)
        PROVE  work'[c] = work[c] \/ Updates(c, "answered")
    BY <1>0, <1>3 DEF Updates, Ends, TypeOK, Task
  <1>4. ASSUME NEW d \in Call, NEW i \in Id, NEW label \in Done, Inserts(d, i, label)
        PROVE  work'[c] = work[c] \/ Inserts(c, i, "answered")
    BY <1>0, <1>4 DEF Inserts, Ends, TypeOK, Task
  <1>5. ASSUME Crash
        PROVE  work'[c] = work[c]
    BY <1>0, <1>5 DEF Crash, Task
  <1>6. CASE \/ \E i \in Live, k \in Kind : Answer(i, k)
             \/ \E h \in Holder : DeleteCustomer(h)
    BY <1>6 DEF Answer, DeleteCustomer
  <1> QED BY <1>1, <1>2, <1>3, <1>4, <1>5, <1>6, KindsOfSteps

LEMMA AnsweredStep ==
  ASSUME IInv, Next
  PROVE  AnsweredIsStored'
PROOF
  <1> SUFFICES ASSUME NEW c \in Call, work'[c].pc = "answered"
               PROVE  \E i \in Born' :
                        /\ work'[c].id = i
                        /\ i \in Live' =>
                             /\ Named(c, i)'
                             /\ work'[c].gives \subseteq rows'[i].fields \cup Nulled(i)'
    BY DEF AnsweredIsStored
  <1>0. TypeOK /\ work[c] \in Task
    BY DEF IInv, TypeOK
  <1>1. CASE work'[c] = work[c]
    <2>1. PICK i \in Born :
            /\ work[c].id = i
            /\ i \in Live => /\ Named(c, i)
                             /\ work[c].gives \subseteq rows[i].fields \cup Nulled(i)
      BY <1>1 DEF IInv, AnsweredIsStored
    <2>0. i \in Id
      BY DEF Born
    <2>2. i \in Born'
      BY <1>0, <2>0, <2>1, RowsAreStable
    <2>3. ASSUME i \in Live'
          PROVE  Named(c, i)' /\ work[c].gives \subseteq rows'[i].fields \cup Nulled(i)'
      <3>1. i \in Live
        BY <1>0, <2>0, <2>1, <2>3, RowsAreStable
      <3>2. Named(c, i) /\ work[c].gives \subseteq rows[i].fields \cup Nulled(i)
        BY <2>1, <3>1
      <3>3. Named(c, i)'
        BY <2>1, <3>2, NamedIsStable
      <3>4. rows[i].fields \cup Nulled(i) \subseteq rows'[i].fields \cup Nulled(i)'
        BY <1>0, <2>3, <3>1, FieldsAreKept
      <3> QED BY <3>2, <3>3, <3>4
    <2> QED BY <1>1, <2>1, <2>2, <2>3
  <1>2. CASE Updates(c, "answered")
    <2>0. PICK i \in Born : i = work[c].id
      BY <1>2 DEF IInv, FoundIsNamed, Updates
    <2>1. i \in Id /\ i = work[c].id
      BY <2>0 DEF Born
    <2>5. Named(c, i)'
      BY <1>2, <2>1, UpdaterIsNamed DEF Done
    <2>2. work'[c].id = i /\ work'[c].gives = work[c].gives
      BY <1>0, <1>2, <2>1 DEF Updates, Ends, TypeOK, Task
    <2>3. i \in Born'
      BY <1>0, <2>0, <2>1, RowsAreStable
    <2>4. ASSUME i \in Live'
          PROVE  work[c].gives \subseteq rows'[i].fields
      <3>1. i \in Live
        BY <1>0, <2>0, <2>1, <2>4, RowsAreStable
      <3>2. rows[i] \in Row
        BY <1>0, <2>1 DEF TypeOK
      <3>3. rows' = [rows EXCEPT ![i].fields = (rows[i].fields \ work[c].nulls) \cup work[c].gives]
        BY <1>2, <2>1, <3>1 DEF Updates, Updated
      <3>4. rows'[i].fields = (rows[i].fields \ work[c].nulls) \cup work[c].gives
        BY <1>0, <2>1, <3>2, <3>3 DEF TypeOK, Row
      <3> QED BY <3>4
    <2> QED BY <2>2, <2>3, <2>4, <2>5
  <1>3. ASSUME NEW i \in Id, Inserts(c, i, "answered")
        PROVE  /\ work'[c].id = i /\ i \in Born' /\ Named(c, i)'
               /\ work'[c].gives \subseteq rows'[i].fields
    <2>1. Named(c, i)' /\ work'[c].gives = work[c].gives /\ rows'[i].fields = work[c].gives
      BY <1>3, InserterIsNamed DEF Done
    <2>2. rows'[i].state = "live"
      BY <1>0, <1>3 DEF Inserts, Inserted, TypeOK
    <2>3. work'[c].id = i
      BY <1>0, <1>3 DEF Inserts, Ends, TypeOK, Task
    <2> QED BY <2>1, <2>2, <2>3 DEF Born
  <1> QED BY <1>0, <1>1, <1>2, <1>3, AnsweredByWrite

LEMMA PassedStep ==
  ASSUME IInv, Next
  PROVE  PassedStays'
PROOF
  <1> SUFFICES ASSUME NEW a \in passed', a[1] \in Live'
               PROVE  RequiredFields(a[2]) \subseteq rows'[a[1]].fields \cup Nulled(a[1])'
    BY DEF PassedStays
  <1>0. TypeOK
    BY DEF IInv
  <1>1. CASE a \in passed
    <2>1. a[1] \in Born /\ a[1] \in Id
      BY <1>1 DEF IInv, SeenAreBorn, Born
    <2>2. a[1] \in Live
      BY <1>0, <2>1, RowsAreStable
    <2>3. RequiredFields(a[2]) \subseteq rows[a[1]].fields \cup Nulled(a[1])
      BY <1>1, <2>2 DEF IInv, PassedStays
    <2>4. rows[a[1]].fields \cup Nulled(a[1]) \subseteq rows'[a[1]].fields \cup Nulled(a[1])'
      BY <1>0, <2>2, FieldsAreKept
    <2> QED BY <2>3, <2>4
  <1>2. CASE a \notin passed
    <2>1. PICK i \in Live, k \in Kind : Answer(i, k)
      BY <1>0, <1>2, KindsOfSteps DEF Look, GivesUp, Updates, Inserts, Ends,
         DeleteCustomer, Crash
    <2>2. a = <<i, k>> /\ RequiredFields(k) \subseteq rows[i].fields /\ rows' = rows
      BY <1>2, <2>1 DEF Answer
    <2> QED BY <2>2
  <1> QED BY <1>1, <1>2

----------------------------------------------------------------------------
LEMMA InvInit ==
  ASSUME Init
  PROVE  IInv
PROOF
  <1>1. TypeOK
    BY CustomersAssumption DEF Init, TypeOK, Row, Task
  <1>2. Born = {} /\ Live = {}
    BY DEF Init, Born, Live
  <1>3. \A c \in Call : work[c].pc = "idle" /\ work[c].before = {}
    BY DEF Init
  <1> QED BY <1>1, <1>2, <1>3 DEF Init, IInv, SeenAreBorn, NoneWasSeen, MakersSawNone,
            FoundIsNamed, FieldsWereGiven, AnsweredIsStored, PassedStays

LEMMA InvStep ==
  ASSUME IInv, [Next]_vars
  PROVE  IInv'
PROOF
  <1>1. CASE Next
    <2>1. TypeOK'
      BY <1>1, TypeStep DEF IInv
    <2> QED BY <1>1, <2>1, SeenStep, NoneWasSeenStep, MakersStep, FoundStep, GivenStep,
              AnsweredStep, PassedStep DEF IInv
  <1>2. CASE UNCHANGED vars
    BY <1>2 DEF vars, IInv, TypeOK, SeenAreBorn, NoneWasSeen, MakersSawNone, SameKey,
       FoundIsNamed, FieldsWereGiven, AnsweredIsStored, PassedStays, Named, Nulled,
       Live, Born
  <1> QED BY <1>1, <1>2

LEMMA Invariant == Spec => []IInv
PROOF
  <1> QED BY InvInit, InvStep, PTL DEF Spec

LEMMA MakersMakeTwinsConcurrent ==
  ASSUME IInv
  PROVE  TwinsAreConcurrent
PROOF
  <1> SUFFICES ASSUME NEW i \in Id, NEW j \in Id, Twins(i, j), j \in work[rows[i].maker].before
               PROVE  FALSE
    BY DEF TwinsAreConcurrent
  <1>1. i \in Born /\ j \in Live /\ SameKey(j, rows[i].holder, rows[i].kind)
    BY DEF Twins, Live, Born, SameKey
  <1> QED BY <1>1 DEF IInv, MakersSawNone

----------------------------------------------------------------------------
(* Every variable keeps its type and the inductive invariant of the table, *)
(* its callers and its history holds, for all sets of ids, accounts, calls *)
(* and payloads (customers.rs, sep12.rs).                                  *)
THEOREM Invariance == Spec => [](TypeOK /\ IInv)
PROOF
  <1> QED BY Invariant, PTL DEF IInv

(* Twin rows of one identity come from calls that overlapped, and from     *)
(* nothing else (customers::upsert finds, then inserts).                   *)
THEOREM TwinsComeFromOverlap == Spec => []TwinsAreConcurrent
PROOF
  <1> QED BY Invariant, MakersMakeTwinsConcurrent, PTL

(* No field ever reaches the row of another customer, and none comes back  *)
(* after a DELETE.                                                         *)
THEOREM FieldsComeFromTheirOwner == Spec => []FieldsWereGiven
PROOF
  <1> QED BY Invariant, PTL DEF IInv

(* What a PUT or a form was answered for is stored until it is set to null *)
(* or deleted, whatever writes the row at the same time.                   *)
THEOREM NoUpdateIsLost == Spec => []AnsweredIsStored
PROOF
  <1> QED BY Invariant, PTL DEF IInv

(* GET's ACCEPTED holds until a field is set to null or the row deleted.   *)
THEOREM AcceptedIsStable == Spec => []PassedStays
PROOF
  <1> QED BY Invariant, PTL DEF IInv
=============================================================================
