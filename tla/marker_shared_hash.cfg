\* Two signing requests about the same file; the user signs from one of
\* them.  No SET_NOTIFICATION_AS in flight.
CONSTANTS
  t1 = t1  t2 = t2  t3 = t3  f1 = f1  f2 = f2  n1 = n1  n2 = n2
  TxHashes = {t1}
  FileHashes = {f1, f2}
  NotifIds = {n1, n2}
  TxName <- MC_SignName
  TxFile <- MC_SignFile
  TxNotifId <- MC_SignNotifId
  TxStatuses = {"pending", "success", "fail"}
  NotifType <- MC_NotifType
  NotifHash <- MC_NotifHashShared
  Actions = {"sign"}
  NoId = NoId
  NoAction = NoAction
  Absent = Absent
  MaxRequests = 0
  TerminalOnlyForTracked = FALSE
SPECIFICATION Spec
INVARIANT MarkerOnlyWhileActing
