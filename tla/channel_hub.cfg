\* A sign and a requestSign transaction of one file, two signing requests
\* about different files, and the user's SET_NOTIFICATION_AS /
\* DELETE_NOTIFICATION commands, under an authority that reports a
\* transaction outcome only for a transaction the queue holds.
CONSTANTS
  t1 = t1  t2 = t2  t3 = t3  f1 = f1  f2 = f2  n1 = n1  n2 = n2
  TxHashes = {t2, t3}
  FileHashes = {f1, f2}
  NotifIds = {n1, n2}
  TxName <- MC_TxName
  TxFile <- MC_TxFile
  TxNotifId <- MC_TxNotifId
  TxStatuses = {"pending", "success", "fail", "error"}
  NotifType <- MC_NotifType
  NotifHash <- MC_NotifHashDistinct
  Actions = {"sign"}
  NoId = NoId
  NoAction = NoAction
  Absent = Absent
  MaxRequests = 1
  TerminalOnlyForTracked = TRUE
SPECIFICATION Spec
INVARIANT UniqueTxHash UniqueNotificationIds
PROPERTY TxQueueRefinement MarkedNotificationStable
