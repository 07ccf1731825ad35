CONSTANTS
  a1 = a1  a2 = a2
  NoAddress = NoAddress
  LockedAddress = LockedAddress
  Undefined = Undefined
  Gone = Gone
  Names = {"x"}
  InitialKeystore <- MC_BothKeystores
  Accounts = {a1, a2}
  MaxLogins = 2
  MaxLocks = 2
  MaxAcctCmds = 0
  AcctSlots = 1
  TimeoutWhileClosed = FALSE
SPECIFICATION Spec
INVARIANT SessionsAgree
\* The call bounds end every behaviour; the idle client waits for input.
CHECK_DEADLOCK FALSE
