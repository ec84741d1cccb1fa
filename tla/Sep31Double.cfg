SPECIFICATION Spec
CONSTANTS
  t1 = t1
  t2 = t2
  m1 = m1
  r1 = r1
  f1 = f1
  x1 = x1
  put1 = put1
  put2 = put2
  Tx = {t1}
  Memo = {m1}
  MemoOf <- MCMemoOf
  Receiver = {r1}
  NoReceiver = NoReceiver
  ReceiverOf <- MCReceiverOf
  Field = {f1}
  Payment = {x1}
  PaidMemo <- MCPaidMemo
  Put = {put1, put2}
  Observer = Observer
  MaxFaults = 0
  MaxDeliveries = 1
  NoTx = NoTx
  NoPayment = NoPayment
INVARIANT PaidOnce
CHECK_DEADLOCK FALSE
