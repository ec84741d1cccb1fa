----------------------------- MODULE RateProofs -----------------------------
(* The rate arithmetic for amounts of any size.                            *)
EXTENDS Rate, TLAPS

(* SellFor rounds 10b/9 to the nearest stroop: q ninths and r over.        *)
LEMMA SellForNinths ==
  ASSUME NEW q \in Nat, NEW r \in 0..8
  PROVE  SellFor(9 * q + r) = 10 * q + (IF r >= 5 THEN r + 1 ELSE r)
BY DEF SellFor

LEMMA FlatFeeTenths ==
  ASSUME NEW q \in Nat, NEW r \in 0..9, r # 5
  PROVE  FlatFee(10 * q + r) = IF r > 5 THEN q + 1 ELSE q
<1>1. (10 * q + r) \div 10 = q /\ (10 * q + r) % 10 = r
  OBVIOUS
<1> QED
  BY <1>1 DEF FlatFee

(* Whatever buy amount a quote is asked for, the form stores exactly that  *)
(* as amount_out for the sell amount quoted (sep38.rs divides, fee.rs      *)
(* multiplies).                                                            *)
THEOREM SellForPaysOut == \A b \in Nat : SellFor(b) \in Nat /\ AmountOut(SellFor(b)) = b
<1> SUFFICES ASSUME NEW b \in Nat
             PROVE  SellFor(b) \in Nat /\ AmountOut(SellFor(b)) = b
  OBVIOUS
<1>1. PICK q \in Nat, r \in 0..8 : b = 9 * q + r
  <2>1. b \div 9 \in Nat
    OBVIOUS
  <2>2. b - 9 * (b \div 9) \in 0..8
    OBVIOUS
  <2>3. b = 9 * (b \div 9) + (b - 9 * (b \div 9))
    BY <2>1
  <2> QED
    BY <2>1, <2>2, <2>3
<1> DEFINE s == IF r >= 5 THEN r + 1 ELSE r
<1>2. s \in 0..9 /\ s # 5
  OBVIOUS
<1>3. SellFor(b) = 10 * q + s
  BY <1>1, SellForNinths
<1>4. FlatFee(10 * q + s) = IF s > 5 THEN q + 1 ELSE q
  BY <1>2, FlatFeeTenths
<1> QED
  BY <1>1, <1>2, <1>3, <1>4 DEF AmountOut

(* Every answered quote is one a deposit honours, for amounts of any size: *)
(* amount_out and the fee its form stores are the ones quoted (sep38.rs,   *)
(* interactive.rs).                                                        *)
THEOREM QuotesAreHonouredByDeposits == Spec => []DepositsHonourQuotes
<1> DEFINE Inv == query \in Query /\ (answer = Nothing \/ answer = Quote(query))
<1>1. Init => Inv
  BY DEF Init
<1>2. Inv /\ [Next]_vars => Inv'
  BY DEF Next, GetRate, vars
<1>3. Inv => DepositsHonourQuotes
  <2> SUFFICES ASSUME Inv, Answered
               PROVE  AmountOut(answer.sell) = answer.buy /\ FlatFee(answer.sell) = answer.fee
    BY DEF DepositsHonourQuotes
  <2>1. answer = Quote(query) /\ Quote(query) # BadRequest
    BY DEF Answered
  <2>2. CASE query.buy = NoAmount
    <3>1. query.sell \in Nat
      BY <2>1, <2>2, RateAssumption DEF Quote, Query, Asked
    <3>2. FlatFee(query.sell) \in Int
      BY <3>1 DEF FlatFee
    <3>3. /\ answer.sell = query.sell /\ answer.buy = AmountOut(query.sell)
          /\ answer.fee = query.sell - AmountOut(query.sell)
      BY <2>1, <2>2 DEF Quote
    <3> QED
      BY <3>1, <3>2, <3>3 DEF AmountOut
  <2>3. CASE query.buy # NoAmount
    <3>1. query.buy \in Nat
      BY <2>3, RateAssumption DEF Query, Asked
    <3>2. SellFor(query.buy) \in Nat /\ AmountOut(SellFor(query.buy)) = query.buy
      BY <3>1, SellForPaysOut
    <3>3. /\ answer.sell = SellFor(query.buy) /\ answer.buy = query.buy
          /\ answer.fee = SellFor(query.buy) - query.buy
      BY <2>1, <2>3 DEF Quote
    <3>4. FlatFee(SellFor(query.buy)) \in Int
      BY <3>2 DEF FlatFee
    <3> QED
      BY <3>1, <3>2, <3>3, <3>4 DEF AmountOut
  <2> QED
    BY <2>2, <2>3
<1> QED
  BY <1>1, <1>2, <1>3, PTL DEF Spec

LEMMA Tenths ==
  ASSUME NEW a \in Nat
  PROVE  \E q \in Nat, r \in 0..9 : a = 10 * q + r /\ a \div 10 = q /\ a % 10 = r
<1>1. a \div 10 \in Nat
  OBVIOUS
<1>2. a - 10 * (a \div 10) \in 0..9
  OBVIOUS
<1>3. PICK q \in Nat, r \in 0..9 : a = 10 * q + r
  BY <1>1, <1>2
<1>4. (10 * q + r) \div 10 = q /\ (10 * q + r) % 10 = r
  OBVIOUS
<1> QED
  BY <1>3, <1>4

LEMMA AmountOutInNat == \A a \in Nat : AmountOut(a) \in Nat /\ FlatFee(a) \in Nat
<1> SUFFICES ASSUME NEW a \in Nat PROVE AmountOut(a) \in Nat /\ FlatFee(a) \in Nat
  OBVIOUS
<1>1. PICK q \in Nat, r \in 0..9 : a = 10 * q + r /\ a \div 10 = q /\ a % 10 = r
  BY Tenths
<1>2. FlatFee(a) = q \/ (FlatFee(a) = q + 1 /\ r >= 5)
  BY <1>1 DEF FlatFee
<1>3. a - q \in Nat /\ (r >= 5 => a - (q + 1) \in Nat)
  BY <1>1
<1> QED
  BY <1>1, <1>2, <1>3 DEF AmountOut

(* An amount that ends in 5 is the one case in which the way back is a     *)
(* neighbour.                                                              *)
LEMMA ThereAndBack ==
  ASSUME NEW a \in Nat
  PROVE  LET back == SellFor(AmountOut(a))
         IN  \/ back = a
             \/ back - a \in {1, -1} /\ AmountOut(back) = AmountOut(a)
<1>1. PICK q \in Nat, r \in 0..9 : a = 10 * q + r /\ a \div 10 = q /\ a % 10 = r
  BY Tenths
<1>2. CASE r < 5
  <2>1. FlatFee(a) = q
    BY <1>1, <1>2 DEF FlatFee
  <2>2. AmountOut(a) = 9 * q + r /\ r \in 0..8
    BY <1>1, <1>2, <2>1 DEF AmountOut
  <2>3. SellFor(9 * q + r) = 10 * q + (IF r >= 5 THEN r + 1 ELSE r)
    BY <2>2, SellForNinths
  <2>4. SellFor(AmountOut(a)) = a
    BY <1>1, <1>2, <2>2, <2>3
  <2> QED
    BY <2>4
<1>3. CASE r > 5
  <2> DEFINE s == r - 1
  <2>0. s \in 0..8 /\ s >= 5 /\ s + 1 = r
    BY <1>3
  <2>1. FlatFee(a) = q + 1
    BY <1>1, <1>3 DEF FlatFee
  <2> HIDE DEF s
  <2>2. AmountOut(a) = 9 * q + s
    BY <1>1, <2>0, <2>1 DEF AmountOut
  <2>3. SellFor(9 * q + s) = 10 * q + (IF s >= 5 THEN s + 1 ELSE s)
    BY <2>0, SellForNinths
  <2>4. SellFor(AmountOut(a)) = a
    BY <1>1, <2>0, <2>2, <2>3
  <2> QED
    BY <2>4
<1>4. CASE r = 5
  <2>1. a \div 10 = q /\ a % 10 = 5
    BY <1>1, <1>4
  <2>2. CASE q % 2 = 1
    <3>1. AmountOut(a) = 9 * q + 4
      BY <1>1, <1>4, <2>1, <2>2 DEF AmountOut, FlatFee
    <3>2. SellFor(9 * q + 4) = 10 * q + (IF 4 >= 5 THEN 4 + 1 ELSE 4)
      BY SellForNinths
    <3>3. SellFor(AmountOut(a)) = 10 * q + 4
      BY <3>1, <3>2
    <3>4. FlatFee(10 * q + 4) = IF 4 > 5 THEN q + 1 ELSE q
      BY FlatFeeTenths
    <3>5. AmountOut(10 * q + 4) = 9 * q + 4
      BY <3>4 DEF AmountOut
    <3>6. (10 * q + 4) - a = -1
      BY <1>1, <1>4
    <3> QED
      BY <3>1, <3>3, <3>5, <3>6
  <2>3. CASE q % 2 # 1
    <3>1. AmountOut(a) = 9 * q + 5
      BY <1>1, <1>4, <2>1, <2>3 DEF AmountOut, FlatFee
    <3>2. SellFor(9 * q + 5) = 10 * q + (IF 5 >= 5 THEN 5 + 1 ELSE 5)
      BY SellForNinths
    <3>3. SellFor(AmountOut(a)) = 10 * q + 6
      BY <3>1, <3>2
    <3>4. FlatFee(10 * q + 6) = IF 6 > 5 THEN q + 1 ELSE q
      <4>1. 6 \in 0..9 /\ 6 # 5
        OBVIOUS
      <4> QED
        BY <4>1, FlatFeeTenths
    <3>5. AmountOut(10 * q + 6) = 9 * q + 5
      BY <3>4 DEF AmountOut
    <3>6. (10 * q + 6) - a = 1
      BY <1>1, <1>4
    <3> QED
      BY <3>1, <3>3, <3>5, <3>6
  <2> QED
    BY <2>2, <2>3
<1> QED
  BY <1>2, <1>3, <1>4

(* What a query that is answered was asked about, and what it is told.     *)
LEMMA Answers ==
  ASSUME query \in Query, answer = Quote(query), answer # BadRequest
  PROVE  /\ answer.sell \in Nat /\ answer.buy = AmountOut(answer.sell)
         /\ answer = [sell |-> answer.sell, buy |-> answer.buy,
                      fee |-> answer.sell - answer.buy, expires |-> query.type = "firm"]
<1>1. CASE query.buy = NoAmount
  <2>1. query.sell \in Nat
    BY <1>1, RateAssumption DEF Quote, Query, Asked
  <2> QED
    BY <1>1, <2>1 DEF Quote
<1>2. CASE query.buy # NoAmount
  <2>1. query.buy \in Nat
    BY <1>2, RateAssumption DEF Query, Asked
  <2>2. SellFor(query.buy) \in Nat /\ AmountOut(SellFor(query.buy)) = query.buy
    BY <2>1, SellForPaysOut
  <2> QED
    BY <1>2, <2>2 DEF Quote
<1> QED
  BY <1>1, <1>2

RateInv == query \in Query /\ (answer = Nothing \/ answer = Quote(query))

LEMMA RateInvariant == Spec => []RateInv
<1>1. Init => RateInv
  BY DEF Init, RateInv
<1>2. RateInv /\ [Next]_vars => RateInv'
  BY DEF Next, GetRate, vars, RateInv
<1> QED
  BY <1>1, <1>2, PTL DEF Spec

(* An answer is a refusal or a quote of amounts that are not negative, its *)
(* fee included, and that add up (sep38.rs).                               *)
THEOREM Invariance ==
  Spec => [](TypeOK /\ (Answered => answer.sell = answer.buy + answer.fee))
<1>1. RateInv => TypeOK
  <2> SUFFICES ASSUME RateInv, answer = Quote(query), answer # BadRequest
               PROVE  answer \in [sell : Nat, buy : Nat, fee : Nat, expires : BOOLEAN]
    BY DEF RateInv, TypeOK
  <2>1. /\ answer.sell \in Nat /\ answer.buy = AmountOut(answer.sell)
        /\ answer = [sell |-> answer.sell, buy |-> answer.buy,
                     fee |-> answer.sell - answer.buy, expires |-> query.type = "firm"]
    BY Answers DEF RateInv
  <2>2. AmountOut(answer.sell) \in Nat /\ FlatFee(answer.sell) \in Nat
    BY <2>1, AmountOutInNat
  <2>3. answer.sell - answer.buy \in Nat /\ answer.buy \in Nat
    BY <2>1, <2>2 DEF AmountOut
  <2>4. [sell |-> answer.sell, buy |-> answer.buy, fee |-> answer.sell - answer.buy,
         expires |-> query.type = "firm"] \in [sell : Nat, buy : Nat, fee : Nat, expires : BOOLEAN]
    BY <2>1, <2>3
  <2> QED
    BY <2>1, <2>4, Zenon
<1>2. RateInv => (Answered => answer.sell = answer.buy + answer.fee)
  <2> SUFFICES ASSUME RateInv, Answered PROVE answer.sell = answer.buy + answer.fee
    OBVIOUS
  <2>1. /\ answer.sell \in Nat /\ answer.buy = AmountOut(answer.sell)
        /\ answer.fee = answer.sell - answer.buy
    BY Answers DEF RateInv, Answered
  <2>2. answer.buy \in Nat
    BY <2>1, AmountOutInNat
  <2> QED
    BY <2>1, <2>2
<1> QED
  BY <1>1, <1>2, RateInvariant, PTL

(* The two directions of a quote agree for amounts of any size (sep38.rs   *)
(* divides by 0.9 where fee.rs takes a tenth).                             *)
THEOREM DirectionsAlwaysAgree == Spec => []DirectionsAgree
<1>1. RateInv => DirectionsAgree
  <2> SUFFICES ASSUME RateInv, Answered PROVE DirectionsAgree
    BY DEF DirectionsAgree
  <2>1. answer.sell \in Nat
    BY Answers DEF RateInv, Answered
  <2> QED
    BY <2>1, ThereAndBack DEF DirectionsAgree
<1> QED
  BY <1>1, RateInvariant, PTL
=============================================================================
