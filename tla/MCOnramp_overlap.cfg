SPECIFICATION Spec
CONSTANTS
  t1 = t1
  b1 = b1
  Txs = {t1}
  Messages <- OneMessage
  Users = {u1, u2}
  Treasuries = {u2}
  Polls = {p1, p2}
  NoMessage = NoMessage
  NoTx = NoTx
  Forms = {"fit", "astray", "garbled", "otherkey"}
  Domains = {"right", "wrong"}
  PollLimit = 1
  MaxFaults = 2
INVARIANTS TypeOK CreditedIsReceived MirrorAgrees
PROPERTIES SettledStays BurnsAreCredited
CHECK_DEADLOCK FALSE
