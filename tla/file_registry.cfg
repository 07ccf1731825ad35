\* File list under two overlapping loads, context switches that reload,
\* streamed fileInfo events and one reset of the file store; the signature
\* getters over every record of up to two signers, readers and requests.
CONSTANTS
  i1 = i1  i2 = i2
  NoName = NoName
  Categories = {"all-files", "my-files"}
  Terms = {"", "x"}
  FileIds = {i1, i2}
  Versions <- MC_Versions
  ResultSet <- MC_ResultSet
  MaxLoads = 2
  MaxResets = 1
  ReloadOnSwitch = TRUE
  u1 = u1  u2 = u2  u3 = u3
  NoList = NoList
  MyAccountName = "My Account"
  SignerAddrs = {u1, u2, u3}
  SignerNames = {"", "n"}
  Me = u1
  MaxSigners = 2
SPECIFICATION Spec
CHECK_DEADLOCK FALSE
INVARIANT NoForeignFiles
INVARIANT UniqueFileIds
INVARIANT FilteredFilesSorted
PROPERTY FilesConverge
