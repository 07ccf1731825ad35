\* Address book under contact commands, LOAD_ADDRS, pushed addressBook
\* events and session switches, in every order.
CONSTANTS
  a1 = a1  a2 = a2  c1 = c1  c2 = c2  s2 = s2  f1 = f1
  NoName = NoName
  MyAccountName = MyAccountName
  Accounts = {a1, a2}
  ContactsOf <- MC_ContactsOf
  Names = {"", "n"}
  MaxCmds = 2
  MaxPushes = 1
  NoProvider = NoProvider
  Providers <- MC_Providers
  ProviderList <- MC_ProviderList
  MaxSPLoads = 0
  MaxSPPushes = 0
  FaucetAddress = f1
  FaucetName = "XES Faucet"
  StorageProviderLabel = "Storage Provider"
  MaxDefaults = 0
SPECIFICATION Spec
INVARIANT OnlyOwnContacts
