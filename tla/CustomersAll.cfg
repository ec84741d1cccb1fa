SPECIFICATION Spec
CONSTANTS
  a1 = a1
  m1 = m1
  i1 = i1
  i2 = i2
  c1 = c1
  c2 = c2
  c3 = c3
  Id = {i1, i2}
  Account = {a1}
  Memo = {m1}
  NoMemo = NoMemo
  Kind = {"sep24", "sep31-sender"}
  Payload <- MCPayload
  Call = {c1, c2, c3}
  MaxFaults = 1
  NoId = NoId
  NoHolder = NoHolder
  NoKind = NoKind
  NoCall = NoCall
SYMMETRY Symmetry
INVARIANTS TypeOK TwinsAreConcurrent FieldsWereGiven AnsweredIsStored PassedStays
CHECK_DEADLOCK FALSE
