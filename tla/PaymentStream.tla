--------------------------- MODULE PaymentStream ---------------------------
(***************************************************************************)
(* The payments to the distribution account and the observer's stream of   *)
(* them (observer.rs).  Horizon keeps the log; the observer keeps only the *)
(* position of the stream it has open, and no cursor: a new stream starts  *)
(* over, or, where Horizon takes a missing cursor for `now`, at the end.   *)
(* Only payments in the anchor's asset and with a memo are in the log: the *)
(* observer passes over every other operation.                             *)
(***************************************************************************)
EXTENDS Naturals, Sequences, FiniteSets

CONSTANTS
  Memo,         \* the memos drawn, and those a payment may carry
  Amount,       \* the amounts asked for and paid
  MaxPayments,  \* bound: the length of the log
  Offline       \* no stream is open

VARIABLES
  log,  \* the payments, in ledger order
  pos   \* how many of them the open stream has delivered, or Offline

stream == <<log, pos>>

LogItem == [memo : Memo, amount : Amount]

StreamTypeOK ==
  /\ log \in Seq(LogItem)
  /\ pos \in Nat \cup {Offline}

StreamInit == log = << >> /\ pos = Offline

(* Someone pays into the distribution account; what has no memo is passed  *)
(* over.                                                                   *)
Pay(m, a) ==
  /\ m \in Memo
  /\ Len(log) < MaxPayments
  /\ log' = Append(log, [memo |-> m, amount |-> a])
  /\ UNCHANGED pos

(* stream_once opens a stream, five seconds after the last one ended.      *)
Connect ==
  /\ pos = Offline
  /\ pos' \in {0, Len(log)}
  /\ UNCHANGED log

HasNext == pos # Offline /\ pos < Len(log)

(* The next item of the stream, whether it is handled or not.              *)
Advance ==
  /\ HasNext
  /\ pos' = pos + 1
  /\ UNCHANGED log

Disconnect ==
  /\ pos # Offline
  /\ pos' = Offline
  /\ UNCHANGED log
=============================================================================
