SPECIFICATION Spec
CONSTANTS
  t1 = t1
  t2 = t2
  p1 = p1
  s1 = s1
  s2 = s2
  small = small
  dust = dust
  Tx = {t1}
  Session = {s1, s2}
  Payee = {p1}
  PayeeOf <- MCPayeeOf
  Amount = {small}
  Sendable = {small}
  MaxFaults = 0
  NoTx = NoTx
  NoAmount = NoAmount
  NoEnvelope = NoEnvelope
INVARIANT PaidOnce
CHECK_DEADLOCK FALSE
