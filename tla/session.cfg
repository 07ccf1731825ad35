CONSTANTS
  a1 = a1  a2 = a2
  NoAddress = NoAddress
  LockedAddress = LockedAddress
  Undefined = Undefined
  Gone = Gone
  Accounts = {a1, a2}
  Names = {"x", "y"}
  InitialKeystore <- MC_InitialKeystore
  MaxLogins = 1
  MaxLocks = 1
  MaxAcctCmds = 2
  AcctSlots = 1
  TimeoutWhileClosed = TRUE
SPECIFICATION Spec
PROPERTY LogoutSettles AuthenticatingSettles ApprovingSettles
\* The call bounds end every behaviour; the idle client waits for input.
CHECK_DEADLOCK FALSE
