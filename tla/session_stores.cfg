\* Address book and provider store under contact commands, LOAD_ADDRS,
\* provider loads, pushed addressBook and storageProvider events, default
\* choices, session switches and reloads of the client, in every order.
CONSTANTS
  a1 = a1  a2 = a2  c1 = c1  c2 = c2  s2 = s2  f1 = f1
  NoName = NoName
  MyAccountName = MyAccountName
  Accounts = {a1, a2}
  ContactsOf <- MC_ContactsOf
  Names = {"", "n"}
  MaxCmds = 2
  MaxPushes = 1
  NoProvider = NoProvider
  Providers <- MC_Providers
  ProviderList <- MC_ProviderList
  MaxSPLoads = 1
  MaxSPPushes = 1
  FaucetAddress = f1
  FaucetName = "XES Faucet"
  StorageProviderLabel = "Storage Provider"
  MaxDefaults = 1
SPECIFICATION Spec
INVARIANT SelfPinnedFirst UniqueProviders NameFallback
PROPERTY DefaultSPKept
