\* A SET_NOTIFICATION_AS answered after a DELETE_NOTIFICATION of the same
\* notification.
CONSTANTS
  t1 = t1  t2 = t2  t3 = t3  f1 = f1  f2 = f2  n1 = n1  n2 = n2
  TxHashes = {t1}
  FileHashes = {f1, f2}
  NotifIds = {n1}
  TxName <- MC_SignName
  TxFile <- MC_SignFile
  TxNotifId <- MC_SignNotifId
  TxStatuses = {"pending", "success", "fail"}
  NotifType <- MC_NotifType
  NotifHash <- MC_NotifHashDistinct
  Actions = {"sign"}
  NoId = NoId
  NoAction = NoAction
  Absent = Absent
  MaxRequests = 2
  TerminalOnlyForTracked = FALSE
SPECIFICATION Spec
INVARIANT NoResurrection
