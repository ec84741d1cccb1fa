-------------------------------- MODULE Rate --------------------------------
(***************************************************************************)
(* The arithmetic of money: the flat fee (fee.rs), the amount_out a form   *)
(* stores (sep24/interactive.rs) and the GET /rate callback (sep38.rs).    *)
(*                                                                         *)
(* An amount is a number of stroops, the 10^-7 a Stellar amount is counted *)
(* in and round_dp(7) rounds to.  Amounts with more decimals, negative     *)
(* ones and those beyond rust_decimal's 96 bits are left out.              *)
(***************************************************************************)
EXTENDS Integers

CONSTANTS
  MaxAmount,  \* bound: the largest amount a query asks about
  NoAmount,   \* a query without this parameter
  BadRequest

ASSUME RateAssumption == MaxAmount \in Nat /\ NoAmount \notin Nat

FeeTruncated(a) == a \div 10

(* flat_fee: a tenth, rounded to the nearest stroop, a half to the even    *)
(* one (round_dp is rust_decimal's banker's rounding).                     *)
FlatFee(a) ==
  LET q == a \div 10
      r == a % 10
  IN  IF r > 5 \/ (r = 5 /\ q % 2 = 1) THEN q + 1 ELSE q

(* The amount_out that submit_form stores for an amount.  process_deposit  *)
(* pays it; complete_withdrawal pays amount_in and keeps no fee, so of     *)
(* withdrawals nothing is said here.                                       *)
AmountOut(a) == a - FlatFee(a)

SellTruncated(b) == (10 * b) \div 9

(* buy / (1 - 0.1), rounded to the nearest stroop: ninths have no half.    *)
SellFor(b) == (20 * b + 9) \div 18

Nothing == [sell |-> NoAmount, buy |-> NoAmount, fee |-> NoAmount, expires |-> FALSE]

FeeReversed(q) ==
  LET sell == IF q.buy = NoAmount THEN q.sell ELSE SellFor(q.buy)
      buy  == IF q.buy = NoAmount THEN AmountOut(q.sell) ELSE q.buy
  IN  IF (q.sell = NoAmount) = (q.buy = NoAmount) \/ q.type \notin {"firm", "indicative"}
      THEN BadRequest
      ELSE [sell |-> sell, buy |-> buy, fee |-> buy - sell, expires |-> q.type = "firm"]

(* get_rate: exactly one amount, then a known type.                        *)
Quote(q) ==
  LET sell == IF q.buy = NoAmount THEN q.sell ELSE SellFor(q.buy)
      buy  == IF q.buy = NoAmount THEN AmountOut(q.sell) ELSE q.buy
  IN  IF (q.sell = NoAmount) = (q.buy = NoAmount) \/ q.type \notin {"firm", "indicative"}
      THEN BadRequest
      ELSE [sell |-> sell, buy |-> buy, fee |-> sell - buy, expires |-> q.type = "firm"]

VARIABLES query, answer
vars == <<query, answer>>

Asked == 0..MaxAmount \cup {NoAmount}
Query == [sell : Asked, buy : Asked, type : {"firm", "indicative", "other"}]

TypeOK ==
  /\ query \in Query
  /\ answer \in {Nothing, BadRequest} \cup
       [sell : Nat, buy : Nat, fee : Nat, expires : BOOLEAN]

Init == query \in Query /\ answer = Nothing

GetRate ==
  /\ answer = Nothing
  /\ answer' = Quote(query)
  /\ UNCHANGED query

Next == GetRate
Spec == Init /\ [][Next]_vars

----------------------------------------------------------------------------
(* Properties.                                                             *)

Answered == answer \notin {Nothing, BadRequest}

(* A quote is what a deposit then brings: for the quoted sell amount the   *)
(* form stores exactly the quoted buy amount, to be paid out, and exactly  *)
(* the quoted fee, whichever of the two amounts was asked about, although  *)
(* the two directions divide and round separately.                         *)
DepositsHonourQuotes ==
  Answered => AmountOut(answer.sell) = answer.buy /\ FlatFee(answer.sell) = answer.fee

(* The two directions agree: asking what to sell for what a sell quote     *)
(* buys gives that amount back, or the neighbour with the same payout.     *)
DirectionsAgree ==
  Answered =>
    LET back == SellFor(AmountOut(answer.sell))
    IN  \/ back = answer.sell
        \/ /\ back - answer.sell \in {1, -1}
           /\ AmountOut(back) = AmountOut(answer.sell)
=============================================================================
