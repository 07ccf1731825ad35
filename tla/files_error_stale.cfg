\* Two overlapping LOAD_FILES: a superseded failure sets filesLoadingError.
CONSTANTS
  i1 = i1  i2 = i2
  NoName = NoName
  Categories = {"all-files", "my-files"}
  Terms = {"", "x"}
  FileIds = {i1, i2}
  Versions <- MC_OneVersion
  ResultSet <- MC_ResultSet
  MaxLoads = 2
  MaxResets = 0
  ReloadOnSwitch = TRUE
  \* the signature getters of FileSigners, unused by this run
  u1 = u1  u2 = u2  u3 = u3
  NoList = NoList
  MyAccountName = "My Account"
  SignerAddrs = {u1}
  SignerNames = {""}
  Me = u1
  MaxSigners = 0
SPECIFICATION Spec
CHECK_DEADLOCK FALSE
INVARIANT ErrorReflectsLatestLoad
