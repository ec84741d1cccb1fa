---------------------------- MODULE MCCustomers ----------------------------
(* Small instances of Customers: two customers of one account, of whom one *)
(* has no memo; a call gives all of a sep24 customer's fields, or only one *)
(* of them, or takes one back.                                             *)
EXTENDS Customers, TLC
CONSTANTS a1, m1, i1, i2, c1, c2, c3
MCPayload == {[gives |-> {"name", "email"}, nulls |-> {}],
              [gives |-> {"name"}, nulls |-> {}],
              [gives |-> {}, nulls |-> {"name"}]}
Symmetry == Permutations(Id) \cup Permutations(Call)
=============================================================================
