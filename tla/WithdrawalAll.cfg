SPECIFICATION FairSpec
CONSTANTS
  t1 = t1
  t2 = t2
  m1 = m1
  m2 = m2
  s1 = s1
  s2 = s2
  full = full
  part = part
  Tx = {t1, t2}
  Session = {s1, s2}
  Memo = {m1, m2}
  Amount = {full}
  SenderMemo = {m2}
  MaxPayments = 2
  MaxFaults = 2
  Offline = Offline
  NoTx = NoTx
  NoMemo = NoMemo
  NoAmount = NoAmount
INVARIANTS TypeOK SoloPaidOnce PayoutsAreBacked ClaimsAreTrue NothingIsForgotten
PROPERTIES ImplementsPayout AwaitedPaymentCompletes
CHECK_DEADLOCK FALSE
