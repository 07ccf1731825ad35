--------------------------- MODULE SessionStores ---------------------------
(***************************************************************************)
(* The per-session stores that RESET_MODULE_STATE (index.js) resets     *)
(* together with the wallet: the address book of                          *)
(* src/ui/dapp/src/store_go/modules/address.js, with the 'addressBook'     *)
(* push handler of channelhub.js, the contact commands ADD_ADDRESS /       *)
(* REMOVE_ADDRESS / UPDATE_ADDRESS_NAME, which change the authority's      *)
(* book and then dispatch LOAD_ADDRS, and LOAD_ADDRS itself; and the       *)
(* storage-provider store of storage-provider.js, with                    *)
(* LOAD_STORAGE_PROVIDERS, the 'storageProvider' handler and the user's    *)
(* SET_DEFAULT_SP_ADDRESS, whose defaultSPAddress survives the reset.     *)
(*                                                                         *)
(* An HTTP command is three steps: the client sends it, the authority      *)
(* serves it under the session it holds at that moment, and the client    *)
(* runs the code after the await.  Requests are served and answered in    *)
(* any order.  A session change (lock or timeout, reset, login as another *)
(* account) is one step here: RESET_ADDRESS_STATE,                        *)
(* RESET_STORAGE_PROVIDER_STATE and the new currentAddress; module        *)
(* Session models the steps of the change itself.  The requests in flight *)
(* survive it, as they do in the code.  The user is logged in throughout. *)
(***************************************************************************)
EXTENDS Integers, Sequences, SequencesExt, FiniteSets, AddressOps

CONSTANTS
  Accounts,        \* wallet accounts (wallet.currentAddress)
  ContactsOf(_),   \* ContactsOf(a): addresses account a may keep as contacts
  Names,           \* contact names ("" among them)
  MaxCmds,         \* bound on requests the user issues in a behaviour
  MaxPushes,       \* bound on 'addressBook' events in a behaviour
  Providers,       \* records [address, name] the authority reports
  ProviderList,    \* the order GET /api/providers returns them in
  NoProvider,      \* undefined
  MaxSPLoads,      \* bound on LOAD_STORAGE_PROVIDERS calls
  MaxSPPushes,     \* bound on 'storageProvider' events
  MaxDefaults,     \* bound on SET_DEFAULT_SP_ADDRESS calls
  FaucetAddress,   \* the one entry of the knownAddresses table
  FaucetName,      \* its translated label 'XES Faucet'
  StorageProviderLabel  \* the translated 'Storage Provider'

ASSUME MaxCmds \in Nat /\ MaxPushes \in Nat
ASSUME ToSet(ProviderList) = Providers

Reqs == 1..MaxCmds
AllAddrs == Accounts \cup UNION {ContactsOf(a) : a \in Accounts}
Contact == [address : AllAddrs, name : Names]
SPAddrs == {p.address : p \in Providers}
NameQueries == AllAddrs \cup SPAddrs \cup {FaucetAddress}

VARIABLES
  currentAddress,  \* state.wallet.currentAddress
  addresses,       \* state.address.addresses
  book,            \* book[a]: the authority's contacts of account a
  req,             \* req[r]: request r (stage "unsent" before it is sent)
  cmds,            \* requests the user has issued
  pushes,          \* 'addressBook' events delivered
  storageProviders,  \* state.storageProvider.storageProviders
  spLoads,         \* LOAD_STORAGE_PROVIDERS requests unanswered
  defaultSPAddress,  \* state.storageProvider.defaultSPAddress (persisted)
  spBudget         \* calls left: [load, push, dflt]

abVars == <<book, req, cmds, pushes>>
spVars == <<storageProviders, spLoads, defaultSPAddress, spBudget>>
vars == <<currentAddress, addresses, abVars, spVars>>

BookAddrs(a) == {c.address : c \in book[a]}

Unsent == [kind |-> "load", contact |-> [address |-> CHOOSE a \in Accounts : TRUE,
                                           name |-> ""],
           session |-> CHOOSE a \in Accounts : TRUE, stage |-> "unsent",
           data |-> << >>]

Init ==
  /\ currentAddress \in Accounts
  /\ addresses = << >>
  /\ book = [a \in Accounts |-> {}]
  /\ req = [r \in Reqs |-> Unsent]
  /\ cmds = 0
  /\ pushes = 0
  /\ storageProviders = << >>
  /\ spLoads = 0
  /\ defaultSPAddress = [a \in Accounts |-> NoProvider]
  /\ spBudget = [load |-> MaxSPLoads, push |-> MaxSPPushes, dflt |-> MaxDefaults]

(* A user command sends request r = cmds + 1.                             *)
Send(kind, c) ==
  /\ cmds < MaxCmds
  /\ cmds' = cmds + 1
  /\ req' = [req EXCEPT ![cmds + 1] =
               [kind |-> kind, contact |-> c, session |-> currentAddress,
                stage |-> "sent", data |-> << >>]]
  /\ UNCHANGED <<currentAddress, addresses, book, pushes, spVars>>

LoadAddrsRequest == Send("load", [address |-> currentAddress, name |-> ""])
AddAddressRequest(c) == c.address \in ContactsOf(currentAddress) /\ Send("put", c)
RemoveAddressRequest(addr) == addr \in BookAddrs(currentAddress) /\ Send("delete", [address |-> addr, name |-> ""])
UpdateAddressNameRequest(addr, n) == addr \in BookAddrs(currentAddress) /\ Send("post", [address |-> addr, name |-> n])

(* The authority rejects a request of an ended session (401).            *)
Reject(r) ==
  /\ req[r].stage = "sent" /\ req[r].session # currentAddress
  /\ req' = [req EXCEPT ![r].stage = "failed"]
  /\ UNCHANGED <<currentAddress, addresses, book, cmds, pushes, spVars>>

(* The authority serves request r for the account of its session: GET   *)
(* /api/contacts returns the book in some order; PUT /api/contact answers *)
(* 409 for a known address and adds the contact otherwise; DELETE removes *)
(* it; POST renames it.                                                   *)
Serve(r) ==
  LET q == req[r]  a == currentAddress  c == q.contact IN
  /\ q.stage = "sent" /\ q.session = a
  /\ \/ /\ q.kind = "load"
        /\ \E d \in SetToSeqs(book[a]) :
             req' = [req EXCEPT ![r].stage = "served", ![r].data = d]
        /\ UNCHANGED book
     \/ /\ q.kind = "put"
        /\ IF c.address \in BookAddrs(a)
             THEN req' = [req EXCEPT ![r].stage = "failed"] /\ UNCHANGED book
             ELSE /\ book' = [book EXCEPT ![a] = @ \cup {c}]
                  /\ req' = [req EXCEPT ![r].stage = "served"]
     \/ /\ q.kind = "delete"
        /\ book' = [book EXCEPT ![a] = {x \in @ : x.address # c.address}]
        /\ req' = [req EXCEPT ![r].stage = "served"]
     \/ /\ q.kind = "post"
        /\ book' = [book EXCEPT ![a] = {IF x.address = c.address THEN c ELSE x : x \in @}]
        /\ req' = [req EXCEPT ![r].stage = "served"]
  /\ UNCHANGED <<currentAddress, addresses, cmds, pushes, spVars>>

(* The code after the await of request r.  LOAD_ADDRS commits             *)
(* SET_ADDRESSES with the answer and the myself of that moment; a command *)
(* that succeeded dispatches LOAD_ADDRS, which sends a new GET (request r *)
(* becomes that GET); a 409 or a failed request commits nothing.          *)
Respond(r) ==
  LET q == req[r] IN
  /\ q.stage \in {"served", "failed"}
  /\ IF q.kind = "load" /\ q.stage = "served"
       THEN addresses' = SET_ADDRESSES(q.data, currentAddress)
       ELSE UNCHANGED addresses
  /\ req' = [req EXCEPT ![r] =
               IF q.kind # "load" /\ q.stage = "served"
                 THEN [q EXCEPT !.kind = "load", !.stage = "sent",
                                !.session = currentAddress]
                 ELSE [q EXCEPT !.stage = "done"]]
  /\ UNCHANGED <<currentAddress, book, cmds, pushes, spVars>>

(* An 'addressBook' event for a contact of the session's book:            *)
(* handleAddressBook commits ADD_ADDRESS.                                 *)
handleAddressBook(c) ==
  /\ pushes < MaxPushes
  /\ c \in book[currentAddress]
  /\ pushes' = pushes + 1
  /\ addresses' = ADD_ADDRESS(addresses, c)
  /\ UNCHANGED <<currentAddress, book, req, cmds, spVars>>

-----------------------------------------------------------------------------
(* storage-provider.js mutations and getters                               *)
(* Mutant: the provider is pushed without looking its address up.        *)
ADD_STORAGE_PROVIDER_NoLookup(sps, sp) == Append(sps, sp)

ADD_STORAGE_PROVIDER(sps, sp) ==
  LET index == SelectInSeq(sps, LAMBDA s : s.address = sp.address)
  IN  IF index # 0 THEN [sps EXCEPT ![index] = sp] ELSE Append(sps, sp)

SetDefaultSPAddress(dflt, acct, sp) == [dflt EXCEPT ![acct] = sp]

(* Mutant: RESET_STORAGE_PROVIDER_STATE without the save and restore.   *)
RESET_STORAGE_PROVIDER_STATE_Forgets ==
  /\ storageProviders' = << >>
  /\ defaultSPAddress' = [a \in Accounts |-> NoProvider]

(* The whole state goes back to getDefaultState except defaultSPAddress, *)
(* which is saved before and restored after.                              *)
RESET_STORAGE_PROVIDER_STATE ==
  /\ storageProviders' = << >>
  /\ UNCHANGED defaultSPAddress

(* defaultSPAddress[currentAddress] (the getters take rootState's wallet). *)
defaultSP(sps, dflt, acct) ==
  LET k == SelectInSeq(sps, LAMBDA s : s.address = dflt[acct])
  IN  IF k = 0 THEN NoProvider ELSE sps[k]

(* The first provider when exactly one is listed or no default is         *)
(* recorded (undefined for an empty list), else defaultSP.                *)
defaultSPOrFirst(sps, dflt, acct) ==
  IF Len(sps) = 1 \/ dflt[acct] = NoProvider
    THEN IF sps = << >> THEN NoProvider ELSE sps[1]
    ELSE defaultSP(sps, dflt, acct)

(* Mutant: the provider's own name is returned even when it is empty.    *)
activeStorageProviderNameByAddress_NoLabel(sps, ethAddress) ==
  LET k == SelectInSeq(sps, LAMBDA s : s.address = ethAddress)
  IN  IF k = 0 THEN "" ELSE sps[k].name

(* '' for an address no loaded provider has, the 'Storage Provider' label *)
(* for a provider without a name, else its name.                          *)
activeStorageProviderNameByAddress(sps, ethAddress) ==
  LET k == SelectInSeq(sps, LAMBDA s : s.address = ethAddress)
  IN  CASE k = 0              -> ""
        [] sps[k].name = ""   -> StorageProviderLabel
        [] OTHER              -> sps[k].name

(* address.js knownAddresses: the faucet's label, else ''.                *)
knownAddresses(ethAddress) ==
  IF ethAddress = FaucetAddress THEN FaucetName ELSE ""

(* Mutant: the contact is looked up in state.addresses, not in the       *)
(* 'addresses' getter.                                                    *)
nameByAddress_RawList(addrs, sps, myself, address) ==
  LET k == SelectInSeq(addrs, LAMBDA a : a.address = address)
  IN  IF k # 0 THEN addrs[k].name
      ELSE IF address = myself THEN MyAccountName
      ELSE IF activeStorageProviderNameByAddress(sps, address) # ""
             THEN activeStorageProviderNameByAddress(sps, address)
      ELSE IF knownAddresses(address) # "" THEN knownAddresses(address)
      ELSE address

(* address.js nameByAddress, tried in the code's order: the first entry  *)
(* of the 'addresses' getter with that address (so myself is 'My         *)
(* Account' and a contact without a name shows its address), myself, a   *)
(* loaded provider, the knownAddresses table, the address itself.  The    *)
(* lookups compare lower-cased addresses; addresses here have one case.  *)
(* A null address (answered '') is never asked.                           *)
nameByAddress(addrs, sps, myself, address) ==
  LET view   == addressesView(addrs, myself)
      k      == SelectInSeq(view, LAMBDA a : a.address = address)
      spName == activeStorageProviderNameByAddress(sps, address)
      known  == knownAddresses(address)
  IN  IF k # 0 THEN view[k].name
      ELSE IF address = myself THEN MyAccountName
      ELSE IF spName # "" THEN spName
      ELSE IF known # "" THEN known
      ELSE address

SpendSP(k) == spBudget[k] > 0 /\ spBudget' = [spBudget EXCEPT ![k] = @ - 1]

(* LOAD_STORAGE_PROVIDERS up to its await: CLEAN_STORAGE_PROVIDER, GET.  *)
LoadStorageProvidersRequest ==
  /\ SpendSP("load")
  /\ storageProviders' = << >>
  /\ spLoads' = spLoads + 1
  /\ UNCHANGED <<currentAddress, addresses, abVars, defaultSPAddress>>

(* After the await: ADD_STORAGE_PROVIDER for every provider of the answer *)
(* in its order; a failed GET throws before any commit.                   *)
LoadStorageProvidersResponse(ok) ==
  /\ spLoads > 0
  /\ spLoads' = spLoads - 1
  /\ storageProviders' =
       IF ok THEN FoldLeft(ADD_STORAGE_PROVIDER, storageProviders, ProviderList)
             ELSE storageProviders
  /\ UNCHANGED <<currentAddress, addresses, abVars, defaultSPAddress, spBudget>>

(* A 'storageProvider' event: handleStorageProvider commits               *)
(* ADD_STORAGE_PROVIDER.                                                  *)
handleStorageProvider(sp) ==
  /\ SpendSP("push")
  /\ storageProviders' = ADD_STORAGE_PROVIDER(storageProviders, sp)
  /\ UNCHANGED <<currentAddress, addresses, abVars, spLoads, defaultSPAddress>>

(* SET_DEFAULT_SP_ADDRESS, from the provider list: records the provider   *)
(* under wallet.currentAddress.                                           *)
SET_DEFAULT_SP_ADDRESS(spAddress) ==
  /\ SpendSP("dflt")
  /\ \E k \in DOMAIN storageProviders : storageProviders[k].address = spAddress
  /\ defaultSPAddress' = SetDefaultSPAddress(defaultSPAddress, currentAddress, spAddress)
  /\ UNCHANGED <<currentAddress, addresses, abVars, storageProviders, spLoads>>

(* Lock or session timeout, then login as account b: RESET_MODULE_STATE   *)
(* commits RESET_ADDRESS_STATE and RESET_STORAGE_PROVIDER_STATE, and the  *)
(* login sets currentAddress.                                             *)
SwitchAccount(b) ==
  /\ b # currentAddress
  /\ currentAddress' = b
  /\ addresses' = << >>
  /\ RESET_STORAGE_PROVIDER_STATE
  /\ UNCHANGED <<abVars, spLoads, spBudget>>

(* Mutant: the vuex-persist reducer leaves the storage-provider entry out. *)
PersistedDefaults_None(dflt) == [a \in Accounts |-> NoProvider]

(* The vuex-persist reducer: of the stores modelled here only             *)
(* storageProvider.defaultSPAddress is written to localStorage (after     *)
(* every mutation) and restored by RESTORE_MUTATION when the store is     *)
(* created again.                                                         *)
PersistedDefaults(dflt) == dflt

(* The client is reloaded (the window is reloaded or the app restarts)  *)
(* and the user logs in as account b: every store starts from its default *)
(* state except what localStorage restores.  The answers of requests in   *)
(* flight never reach the new page; a request the authority has served    *)
(* keeps its effect on the book, one it has not served is lost.           *)
AppReload(b) ==
  /\ currentAddress' = b
  /\ addresses' = << >>
  /\ req' = [r \in Reqs |-> IF req[r].stage = "unsent" THEN req[r]
                            ELSE [req[r] EXCEPT !.stage = "done"]]
  /\ storageProviders' = << >>
  /\ spLoads' = 0
  /\ defaultSPAddress' = PersistedDefaults(defaultSPAddress)
  /\ UNCHANGED <<book, cmds, pushes, spBudget>>

Next ==
  \/ LoadAddrsRequest
  \/ \E c \in Contact : AddAddressRequest(c)
  \/ \E addr \in AllAddrs : RemoveAddressRequest(addr)
  \/ \E addr \in AllAddrs, n \in Names : UpdateAddressNameRequest(addr, n)
  \/ \E r \in Reqs : Serve(r) \/ Reject(r) \/ Respond(r)
  \/ \E c \in Contact : handleAddressBook(c)
  \/ LoadStorageProvidersRequest
  \/ \E ok \in BOOLEAN : LoadStorageProvidersResponse(ok)
  \/ \E sp \in Providers : handleStorageProvider(sp)
  \/ \E s \in SPAddrs : SET_DEFAULT_SP_ADDRESS(s)
  \/ \E b \in Accounts : SwitchAccount(b) \/ AppReload(b)

Spec == Init /\ [][Next]_vars

-----------------------------------------------------------------------------
(***************************************************************************)
(* Properties                                                              *)
(***************************************************************************)
TypeOK ==
  /\ currentAddress \in Accounts
  /\ addresses \in Seq(Contact)
  /\ book \in [Accounts -> SUBSET Contact]
  /\ cmds \in 0..MaxCmds /\ pushes \in 0..MaxPushes
  /\ storageProviders \in Seq(Providers) /\ spLoads \in 0..MaxSPLoads
  /\ defaultSPAddress \in [Accounts -> SPAddrs \cup {NoProvider}]

(* spec.md 4.5 / 8.4: whatever order SET_ADDRESSES, the ADD_ADDRESS       *)
(* unshifts and the resets leave the list in, the 'addresses' getter      *)
(* shows the entry of the current account first, labelled 'My Account'.  *)
SelfPinnedFirst ==
  (\E k \in DOMAIN addresses : addresses[k].address = currentAddress) =>
    LET v == addressesView(addresses, currentAddress) IN
    v[1] = [address |-> currentAddress, name |-> MyAccountName]

(* spec.md 5: after a session reset the stores hold nothing of the        *)
(* previous session: every listed contact belongs to the current          *)
(* account's book (its own entry included), whatever LOAD_ADDRS answers   *)
(* are still in flight across the reset.                                  *)
OnlyOwnContacts ==
  \A k \in DOMAIN addresses :
    addresses[k].address \in ContactsOf(currentAddress) \cup {currentAddress}

(* spec.md 4.6: providers are keyed by address: the list holds one entry  *)
(* per address however LOAD_STORAGE_PROVIDERS answers, overlapping loads  *)
(* and 'storageProvider' events interleave with the session resets.       *)
UniqueProviders ==
  \A j, k \in DOMAIN storageProviders :
    j # k => storageProviders[j].address # storageProviders[k].address

(* spec.md 3 / 6: defaultSPAddress is persisted across sessions and      *)
(* restarts: the resets of RESET_MODULE_STATE and a reload of the client  *)
(* leave it alone, and an account's default changes only within a         *)
(* session of that account, when its user picks one.                      *)
DefaultSPKept ==
  [][\A a \in Accounts :
       defaultSPAddress'[a] # defaultSPAddress[a] =>
         currentAddress = a /\ currentAddress' = a]_vars

(* spec.md 4.5 / 8.7: nameByAddress (used by the notification search to  *)
(* match 'who' and 'owner') resolves every address by the fallback chain *)
(* over whatever the interleaved LOAD_ADDRS, 'addressBook' events,       *)
(* provider loads and session resets have left in the stores: myself is  *)
(* 'My Account'; a listed contact its name, or its address when the name *)
(* is empty, even if a provider has that address; otherwise a loaded     *)
(* provider's name (its label when unnamed), the faucet's label, or the  *)
(* address unchanged.  The order of the provider and faucet steps is     *)
(* left open, as code and spec disagree on it.                           *)
ShownName(e) == IF e.name = "" THEN e.address ELSE e.name
SPShownName(p) == IF p.name = "" THEN StorageProviderLabel ELSE p.name

NameFallback ==
  \A x \in NameQueries :
    LET name   == nameByAddress(addresses, storageProviders, currentAddress, x)
        listed == {k \in DOMAIN addresses : addresses[k].address = x}
        sp     == {k \in DOMAIN storageProviders : storageProviders[k].address = x}
    IN  /\ x = currentAddress => name = MyAccountName
        /\ x # currentAddress /\ listed # {} =>
             name \in {ShownName(addresses[k]) : k \in listed}
        /\ x # currentAddress /\ listed = {} /\ sp # {} /\ x # FaucetAddress =>
             \E k \in sp : name = SPShownName(storageProviders[k])
        /\ x # currentAddress /\ listed = {} /\ sp = {} =>
             name = IF x = FaucetAddress THEN FaucetName ELSE x

====
