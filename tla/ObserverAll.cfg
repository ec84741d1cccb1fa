SPECIFICATION FairSpec
CONSTANTS
  wd1 = wd1
  s1 = s1
  rc1 = rc1
  m1 = m1
  m2 = m2
  r1 = r1
  f1 = f1
  put1 = put1
  full = full
  Memo = {m1, m2}
  Amount = {full}
  MaxPayments = 2
  Offline = Offline
  Withdrawals = {wd1}
  Session = {s1}
  Receives = {rc1}
  MemoOf <- MCMemoOf
  Receiver = {r1}
  ReceiverOf <- MCReceiverOf
  Field = {f1}
  Put = {put1}
  Watcher = Watcher
  MaxFaults = 1
  NoTx = NoTx
  NoMemo = NoMemo
  NoAmount = NoAmount
  NoReceiver = NoReceiver
  NoPayment = NoPayment
INVARIANTS TypeOK OneTransferEach TransfersArePaidFor
PROPERTIES AwaitedReceiveIsHandled
CHECK_DEADLOCK FALSE
