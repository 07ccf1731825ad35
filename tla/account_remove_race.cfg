\* Account commands only: both accounts held, up to three of LOAD_ACCOUNTS,
\* REMOVE_ACCOUNT, UPDATE_ACCOUNT_NAME and the login-view commands in flight.
CONSTANTS
  a1 = a1  a2 = a2
  NoAddress = NoAddress
  LockedAddress = LockedAddress
  Undefined = Undefined
  Gone = Gone
  Names = {"x"}
  InitialKeystore <- MC_BothKeystores
  Accounts = {a1, a2}
  MaxLogins = 0
  MaxLocks = 0
  MaxAcctCmds = 3
  AcctSlots = 3
  TimeoutWhileClosed = TRUE
SPECIFICATION Spec
PROPERTY RemoveDropsOnlyItsAccount
\* The call bounds end every behaviour; the idle client waits for input.
CHECK_DEADLOCK FALSE
