SPECIFICATION Spec
CONSTANTS
  t1 = t1
  t2 = t2
  m1 = m1
  m2 = m2
  s1 = s1
  s2 = s2
  full = full
  part = part
  Tx = {t1}
  Session = {s1}
  Memo = {m1}
  Amount = {full, part}
  SenderMemo = {}
  MaxPayments = 1
  MaxFaults = 0
  Offline = Offline
  NoTx = NoTx
  NoMemo = NoMemo
  NoAmount = NoAmount
INVARIANT CompletedByExactAmount
CHECK_DEADLOCK FALSE
