SPECIFICATION Spec
CONSTANTS
  t1 = t1
  b1 = b1
  Txs = {t1}
  Messages <- OneMessage
  Users = {u1, u2}
  Treasuries = {u2}
  Polls = {p1}
  NoMessage = NoMessage
  NoTx = NoTx
  Forms = {"fit"}
  Domains = {"right", "wrong"}
  PollLimit = 1
  MaxFaults = 0
PROPERTIES SubmissionsNeverBlock
CHECK_DEADLOCK FALSE
