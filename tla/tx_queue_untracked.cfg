\* Transaction queue under an authority that may report a sign/requestSign
\* outcome for a txHash the queue does not hold (duplicate or late delivery).
CONSTANTS
  t1 = t1  t2 = t2  t3 = t3  f1 = f1  f2 = f2  n1 = n1  n2 = n2
  TxHashes = {t1, t2, t3}
  FileHashes = {f1}
  NotifIds = {}
  TxName <- MC_TxName
  TxFile <- MC_TxFile
  TxNotifId <- MC_TxNotifId
  TxStatuses = {"pending", "success", "fail", "error"}
  NotifType <- MC_NotifType
  NotifHash <- MC_NotifHashDistinct
  Actions = {"sign"}
  NoId = NoId
  NoAction = NoAction
  Absent = Absent
  MaxRequests = 0
  TerminalOnlyForTracked = FALSE
SPECIFICATION Spec
PROPERTY TxQueueRefinement
