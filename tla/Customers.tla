----------------------------- MODULE Customers -----------------------------
(***************************************************************************)
(* The customers table and its callers: GET, PUT and DELETE /customer      *)
(* (sep12.rs) and the interactive form (sep24/interactive.rs), over the    *)
(* statements of db/customers.rs and the field table of kyc.rs.            *)
(*                                                                         *)
(* Nothing serialises the calls.  Each statement is atomic, but PUT and    *)
(* the form look for the row with one statement and write with another,    *)
(* there is no unique index on the identity, and no write looks at what    *)
(* it changes; calls interleave between the two.                           *)
(***************************************************************************)
EXTENDS Naturals

CONSTANTS
  Id,         \* ids of rows, drawn at random: each names one row, ever
  Account,    \* wallets' accounts
  Memo,       \* memos that tell the customers of one account apart
  NoMemo,     \* NULL
  Kind,       \* customer types in use
  Payload,    \* what a call may carry: fields with a value, fields set to null
  Call,       \* PUT calls and form submissions; each is used at most once
  MaxFaults,  \* bound: how many faults happen
  NoId, NoHolder, NoKind, NoCall

Holder == Account \X (Memo \cup {NoMemo})

(* kyc.rs, its tables taken as groups of fields that are given together.   *)
Field == {"identity", "bank", "name", "email"}

RequiredFields(k) ==
  CASE k \in {"sep6", "sep6-withdrawal"} -> {"identity", "bank"}
    [] k = "sep6-deposit"                -> {"identity"}
    [] k = "sep31-sender"                -> {"name"}
    [] k = "sep31-receiver"              -> {"bank"}
    [] OTHER                             -> {"name", "email"}

ASSUME CustomersAssumption ==
  /\ NoMemo \notin Memo
  /\ "sep24" \in Kind
  /\ Payload \subseteq [gives : SUBSET Field, nulls : SUBSET Field]
  /\ \A p \in Payload : p.gives \cap p.nulls = {}
  /\ MaxFaults \in Nat
  /\ NoId \notin Id
  /\ NoHolder \notin Holder
  /\ NoKind \notin Kind
  /\ NoCall \notin Call

VARIABLES
  rows,    \* customers: identity, the fields that are not null, and who
           \* inserted the row (history)
  work,    \* calls: program counter, what they name and carry, the id they
           \* found or drew, and the ids drawn before they looked (history)
  passed,  \* history: ids GET answered ACCEPTED for, with the type asked for
  faults

vars == <<rows, work, passed, faults>>

Row  == [state : {"unborn", "live", "deleted"}, holder : Holder \cup {NoHolder},
         kind : Kind \cup {NoKind}, fields : SUBSET Field, maker : Call \cup {NoCall}]
Task == [pc : {"idle", "found", "unfound", "answered", "ended"},
         id : Id \cup {NoId}, holder : Holder \cup {NoHolder},
         kind : Kind \cup {NoKind}, gives : SUBSET Field, nulls : SUBSET Field,
         before : SUBSET Id]

TypeOK ==
  /\ rows \in [Id -> Row]
  /\ work \in [Call -> Task]
  /\ passed \subseteq Id \X Kind
  /\ faults \in Nat

Init ==
  /\ rows = [i \in Id |-> [state |-> "unborn", holder |-> NoHolder, kind |-> NoKind,
                           fields |-> {}, maker |-> NoCall]]
  /\ work = [c \in Call |-> [pc |-> "idle", id |-> NoId, holder |-> NoHolder,
                             kind |-> NoKind, gives |-> {}, nulls |-> {}, before |-> {}]]
  /\ passed = {}
  /\ faults = 0

Fault   == faults < MaxFaults /\ faults' = faults + 1
NoFault == UNCHANGED faults

Live == {i \in Id : rows[i].state = "live"}
Born == {i \in Id : rows[i].state # "unborn"}

----------------------------------------------------------------------------
(* find_by_identity; of several rows it returns any.                       *)

MatchesMemoByEquality(h, k) ==
  {i \in Live : rows[i].holder = h /\ rows[i].kind = k /\ h[2] # NoMemo}

MatchesAccountOnly(h, k) ==
  {i \in Live : rows[i].holder[1] = h[1] /\ rows[i].kind = k}

FindByIdentity(h, k) == {i \in Live : rows[i].holder = h /\ rows[i].kind = k}

(* GET /customer: what is required depends on the type the query names,    *)
(* not on the row's.                                                       *)
Answer(i, asked) ==
  /\ passed' = IF RequiredFields(asked) \subseteq rows[i].fields
               THEN passed \cup {<<i, asked>>} ELSE passed
  /\ UNCHANGED <<rows, work, faults>>

GetById(i, asked) == i \in Live /\ Answer(i, asked)

GetByIdentity(h, asked) == \E i \in FindByIdentity(h, asked) : Answer(i, asked)

(* show_form asks for the fields that GET would report missing.            *)
ShowForm(h) == GetByIdentity(h, "sep24")

----------------------------------------------------------------------------
(* PUT /customer and submit_form: the look.                                *)

Looked(c, label, i, h, k, p) ==
  work' = [work EXCEPT ![c] = [pc |-> label, id |-> i, holder |-> h, kind |-> k,
             gives |-> p.gives, nulls |-> p.nulls, before |-> Born]]

PutAnyId(c, i, p) ==
  /\ work[c].pc = "idle"
  /\ Looked(c, "found", i, NoHolder, NoKind, p)
  /\ UNCHANGED <<rows, passed, faults>>

(* By id: 404 unless the row exists.  The identity the call names besides  *)
(* plays no part in the write.                                             *)
PutById(c, i, p) ==
  /\ work[c].pc = "idle"
  /\ i \in Live
  /\ Looked(c, "found", i, NoHolder, NoKind, p)
  /\ UNCHANGED <<rows, passed, faults>>

PutByIdentity(c, h, k, p) ==
  /\ work[c].pc = "idle"
  /\ \/ \E i \in FindByIdentity(h, k) : Looked(c, "found", i, h, k, p)
     \/ FindByIdentity(h, k) = {} /\ Looked(c, "unfound", NoId, h, k, p)
  /\ UNCHANGED <<rows, passed, faults>>

(* The form takes the fields a sep24 customer needs, as strings, never     *)
(* null.                                                                   *)
SubmitForm(c, h, p) ==
  /\ p.gives \subseteq RequiredFields("sep24")
  /\ p.nulls = {}
  /\ PutByIdentity(c, h, "sep24", p)

----------------------------------------------------------------------------
(* The write of upsert.                                                    *)

Replaced(c, i) ==
  IF i \in Live THEN [rows EXCEPT ![i].fields = work[c].gives] ELSE rows

(* `fields || $2`; no row, no change.                                      *)
Updated(c, i) ==
  IF i \in Live
  THEN [rows EXCEPT ![i].fields = (@ \ work[c].nulls) \cup work[c].gives]
  ELSE rows

Inserted(c, i) ==
  [rows EXCEPT ![i] = [state |-> "live", holder |-> work[c].holder,
     kind |-> work[c].kind, fields |-> work[c].gives, maker |-> c]]

(* A refused statement, a lost reply or a client that hangs up ends the    *)
(* call with no answer, whether the write took place or not.               *)
Writes(c, i, after) ==
  \/ /\ rows' = after /\ NoFault
     /\ work' = [work EXCEPT ![c].pc = "answered", ![c].id = i]
  \/ rows' = after /\ Fault /\ work' = [work EXCEPT ![c].pc = "ended", ![c].id = i]
  \/ rows' = rows /\ Fault /\ work' = [work EXCEPT ![c].pc = "ended"]

Update(c) ==
  /\ work[c].pc = "found"
  /\ Writes(c, work[c].id, Updated(c, work[c].id))
  /\ UNCHANGED passed

Insert(c, i) ==
  /\ work[c].pc = "unfound"
  /\ i \notin Born
  /\ Writes(c, i, Inserted(c, i))
  /\ UNCHANGED passed

MarksRemoved(h) ==
  /\ \E i \in Live : rows[i].holder = h
  /\ rows' = [i \in Id |-> IF i \in Live /\ rows[i].holder = h
                THEN [rows[i] EXCEPT !.state = "removed"] ELSE rows[i]]
  /\ UNCHANGED <<work, passed, faults>>

(* DELETE /customer: the rows of every type, or 404.                       *)
DeleteCustomer(h) ==
  LET gone == {i \in Live : rows[i].holder = h} IN
  /\ gone # {}
  /\ rows' = [i \in Id |-> IF i \in gone
                THEN [rows[i] EXCEPT !.state = "deleted", !.fields = {}] ELSE rows[i]]
  /\ UNCHANGED <<work, passed, faults>>

(* The process dies, and every call it was handling with it.               *)
Crash ==
  /\ Fault
  /\ work' = [c \in Call |->
       IF work[c].pc \in {"found", "unfound"} THEN [work[c] EXCEPT !.pc = "ended"]
       ELSE work[c]]
  /\ UNCHANGED <<rows, passed>>

Next ==
  \/ \E i \in Id, k \in Kind : GetById(i, k)
  \/ \E h \in Holder, k \in Kind : GetByIdentity(h, k)
  \/ \E h \in Holder : ShowForm(h)
  \/ \E c \in Call, i \in Id, p \in Payload : PutById(c, i, p)
  \/ \E c \in Call, h \in Holder, k \in Kind, p \in Payload : PutByIdentity(c, h, k, p)
  \/ \E c \in Call, h \in Holder, p \in Payload : SubmitForm(c, h, p)
  \/ \E c \in Call : Update(c)
  \/ \E c \in Call, i \in Id : Insert(c, i)
  \/ \E h \in Holder : DeleteCustomer(h)
  \/ Crash

Spec == Init /\ [][Next]_vars

----------------------------------------------------------------------------
(* Properties.                                                             *)

Twins(i, j) ==
  i # j /\ {i, j} \subseteq Live /\ rows[i].holder = rows[j].holder /\ rows[i].kind = rows[j].kind

(* customers.rs has no unique index, so one identity may get two rows, but *)
(* only from calls that overlapped: each of the two looked before the      *)
(* other's row was there.  Calls one after the other, whatever is deleted, *)
(* lost or retried between them, never make twins.                         *)
TwinsAreConcurrent ==
  \A i, j \in Id : Twins(i, j) => j \notin work[rows[i].maker].before

(* What a live row holds was given to it: by a call that named its id, or  *)
(* by one for its own account, memo and type.  Customers that share an     *)
(* account never see each other's fields, and a customer deleted and then  *)
(* created again has nothing of what was deleted.                          *)
Named(c, i) ==
  /\ work[c].id = i
  /\ work[c].pc \in {"answered", "ended"}
  /\ \/ work[c].holder = NoHolder
     \/ work[c].holder = rows[i].holder /\ work[c].kind = rows[i].kind

FieldsWereGiven ==
  \A i \in Live : \A f \in rows[i].fields :
    \E c \in Call : Named(c, i) /\ f \in work[c].gives

Nulled(i) ==
  UNION {work[c].nulls : c \in {d \in Call :
           work[d].id = i /\ work[d].pc \in {"answered", "ended"}}}

(* A call that was answered 202 with an id has stored what it gave under   *)
(* that id, and under its own identity, however many calls wrote the row   *)
(* at once: unless the customer was deleted, no field of it is lost but    *)
(* those some call set to null.                                            *)
AnsweredIsStored ==
  \A c \in Call : work[c].pc = "answered" =>
    \E i \in Born :
      /\ work[c].id = i
      /\ i \in Live => Named(c, i) /\ work[c].gives \subseteq rows[i].fields \cup Nulled(i)

(* A customer once reported as ACCEPTED stays so for the type that was     *)
(* asked for, unless deleted or with a field set to null by some call.     *)
PassedStays ==
  \A a \in passed : a[1] \in Live =>
    RequiredFields(a[2]) \subseteq rows[a[1]].fields \cup Nulled(a[1])
=============================================================================
