# TLA+ models of the storage-app client store

These are TLA+ models of the Vuex store of the storage-app desktop client
(`src/ui/dapp/src/store_go/`). The store keeps local collections consistent
with a backend ("the authority"):

* files;
* pending transactions;
* notifications;
* contacts;
* storage providers;
* wallet accounts.

The authority pushes typed events over a WebSocket channel. Meanwhile the
client sends its own HTTP commands to the same authority. The models check
what the code does when those events, and the answers to those commands,
arrive in every possible order.

The authority (a Go backend) and the views (Vue components) are not in this
repository. The authority is the models' environment: it may push any event
of the right shape at any time. It serves or fails each request at a step of
its own. The views are represented by the store calls they make, taken as
user actions.

## 1. The system and how its parts interact

| Part | Source | State |
|---|---|---|
| Event router | `modules/channelhub.js` | the channel singleton; `onMessage` dispatches by `msg.type` to one `handle*` function |
| Transaction queue | `modules/file.js` 85-114 | `file.transactionQueue`, keyed by `txHash` |
| Notification store | `modules/notification.js` | `notifications` (keyed by `id`, with a local `actionInProgress` marker), `signingRequests`, `searchTerm`, `showPending` |
| File registry | `modules/file.js`, `channelhub.js` 70-107 | `files`, `activeCategory`, `searchTerm`, `filesLoading`, `filesLoadingError` |
| Address book | `modules/address.js` | `addresses` |
| Storage providers | `modules/storage-provider.js` | `storageProviders`; `defaultSPAddress` (persisted) |
| Wallet and session | `modules/wallet.js`, `index.js` | `wallet.*` (`currentAddress`, `authenticated`, `authenticating`, `logoutInProgress`, `accounts`, ...); `airdropHintOutstanding` (persisted) |

How the parts interact:

* **Handlers.** Every handler and every mutation runs to completion on the
  single JS event loop, so a handler is one step.
* **Commands split at their await.** An async action commits some mutations,
  awaits an HTTP call, and commits more afterwards. Other events and answers
  run inside the await. The model therefore splits every command into up to
  three steps:
  1. the commits before the await, and the send;
  2. the authority serving or failing the request;
  3. the commits after the await.
* **Session end.** A lock (`LOCK_WALLET`) or a `session-timeout` event
  schedules `RESET_MODULE_STATE` on the next tick. That resets all five stores
  except the persisted `defaultSPAddress`. Commands still in flight commit
  their answers after the reset.

## 2. Modules

Pure operators (the mutations and getters, with their JS semantics):

* `TxQueueOps`: `UPDATE_TX_QUEUE_WITH_TRANSACTION` and
  `REMOVE_TRANSACTION_FROM_QUEUE`. Covers `findIndex` returning -1,
  `if (txIndex)` treating 0 as false, and `splice(-1, 1)`.
* `NotificationOps`: `ADD_NOTIFICATION` (its marker guard, and its branch that
  throws and commits nothing), `REMOVE_NOTIFICATION`, and the marker
  mutations.
* `FileOps`: `ADD_FILE` (filename defaulting), `REMOVE_FILE`, the grouping
  key of `handleFileInfo`, and `filteredFiles`. The sort is a stable
  insertion sort, checked against the comparator.
* `AddressOps`: `ADD_ADDRESS`, `SET_ADDRESSES` (its self-first `forEach`),
  `REMOVE_ADDRESS`, `UPDATE_ADDRESS`, `UPDATE_ADDRESS_NAME`, and the
  `addresses` getter.
* `WalletOps`: the wallet mutations, including `REMOVE_ACCOUNT` with JS
  `splice`. Also the code after the await of `LOAD_ACCOUNTS`,
  `LOAD_ACCOUNTS_AND_SET_FIRST_ACTIVE`, `CREATE_ACCOUNT`, both imports and
  `REMOVE_ACCOUNT`. `SET_APPROVING`, and the code after the POST of
  `APPROVE` (it clears the spinner whatever the answer).
* `FileSigners`: the signature and access getters of `file.js`
  (`signersList`, `missingSignersInfo`, `readAccessList`,
  `isUndefinedSigner`, `isDefinedSigner`,
  `readAccessButNoSignatureRequestList`). A text is the sequence of strings
  concatenated into it. `SignaturePanelAgrees` compares them with a
  reference definition over every file record of up to `MaxSigners`
  contacts per list, null lists included. It reads no variable, so it is an
  `ASSUME`. TLC evaluates it at the start of every run that instantiates
  the module (`file_registry`, `files_error_stale`). Swapping the two
  branches of `signersList` makes TLC report it false.

Specifications (state as VARIABLES, one action per handler or command step):

* `TxQueueSpec`: the abstract queue of spec.md 4.3. It is a map from txHash to
  the latest record. A success removes the entry, any other status upserts
  it, and a reset empties the map.
* `ChannelHub`: the router with the transaction queue and the notification
  list.
  * Actions: `handleTransaction`, `handleFileUploadAndDownload`,
    `handleNotification`, `handleRemoveSigningRequest`, and the user's
    `AddActionInProgress`.
  * `SET_NOTIFICATION_AS` and `DELETE_NOTIFICATION`, split at their await.
  * `ResetModuleState`, the file and notification part of
    `RESET_MODULE_STATE`.
  * `TxQueueRefinement` instantiates `TxQueueSpec` with the refinement mapping
    `AbsQueue`.
* `FileRegistry`: `LOAD_FILES`, split at its await.
  * `SET_ACTIVE_CATEGORY` and `SET_SEARCH_TERM`, each followed by
    `LOAD_FILES` when `ReloadOnSwitch` is set.
  * `handleFileInfo` streaming each request's result set, tagged with its key.
  * `REMOVE_FILE`.
  * `RESET_FILE_STATE`, the session reset. GETs in flight and streams
    already started survive it.
* `SessionStores`: the address book and the storage-provider store.
  * `LOAD_ADDRS` and the contact commands, split into Send, Serve or Reject
    (a 401 for an ended session), and Respond.
  * The `addressBook` and `storageProvider` events.
  * `LOAD_STORAGE_PROVIDERS`, split at its await, and `SET_DEFAULT_SP_ADDRESS`.
  * `SwitchAccount`: the reset of both stores by `RESET_MODULE_STATE`,
    followed by a login as another account.
  * `AppReload`: the client is reloaded. Every store starts again from its
    default state, and `RESTORE_MUTATION` brings back what the vuex-persist
    reducer saved (here `defaultSPAddress`). Answers in flight are lost;
    requests the authority already served keep their effect.
  * The name getters as operators: `nameByAddress` (address.js), with
    `knownAddresses` and `activeStorageProviderNameByAddress`
    (storage-provider.js). They change no state; `NameFallback` evaluates
    them over the stores of every reachable state.
* `Session`: the session lifecycle and the wallet's account commands. The
  authority holds one session (`backendSession`) and a keystore.
  * `AUTHENTICATE`, `INIT_CHANNEL_HUB`, `LOCK_WALLET`, the `session-timeout`
    event, and the nextTick callbacks (`RunTick`: the wallet part of
    `RESET_MODULE_STATE`, `ADD_ACCOUNT_INFO '0'`).
  * The logout POST and `handleAccount`.
  * `LOAD_ACCOUNTS`, `LOAD_ACCOUNTS_AND_SET_FIRST_ACTIVE`, `CREATE_ACCOUNT`,
    `IMPORT_KEYSTORE_FROM_FILE`, `IMPORT_PRIVATE_KEY`, `REMOVE_ACCOUNT` and
    `UPDATE_ACCOUNT_NAME`, and `APPROVE` (the `approving` spinner set
    before its POST). Each uses a request slot: sent, then served or
    failed, then answered. A successful create or import turns its slot into
    the `LOAD_ACCOUNTS` it dispatches.
  * `AIRDROP_HINT_DISPLAYED`.
* `NotificationView`: the derived notification view.
  * `sortNotifications`, `filterNotificationByOpts`,
    `termMatchedInNotification`, the quoted and word-split search, the
    translation-label pass and the lodash/fp `unionBy`. Texts are character
    sequences.
  * The day buckets `notificationsToday`, `notificationsYesterday` and
    `olderNotifications`, with their page slice. A timestamp is a local
    day, and the clock (`moment()`) is a variable `now` that `DayPasses`
    advances.
  * Driven by pushed notifications, `add_signing_request` /
    `remove_signing_request`, the search term, `showPending`,
    mark-all-read, and the day turning over. `SET_ALL_NOTIFICATIONS_AS` is
    split at its PUT (at most `MaxMarkAll` pending); a 200 answer marks the
    list as it is then, pushes received meanwhile included.

The `MC_*` modules fix model values and small constant functions for the
`.cfg` files.

How data is abstracted:

* Records keep only the fields that a guard or a property reads. Other fields
  are carried through unchanged by the code, and are left out.
* Toasts, `console.log` and `UNKNOWN_ERROR` change no store, and are left out.
* Every counter is bounded by a named constant (`MaxRequests`, `MaxLoads`,
  `MaxCmds`, `MaxPushes`, `MaxLogins`, `MaxLocks`, `MaxAcctCmds`, ...).
  Collections are bounded by their key sets.

## 3. Runs

| Run | Expect | Properties | What it shows |
|---|---|---|---|
| `channel_hub` | pass | `UniqueTxHash`, `UniqueNotificationIds`, `TxQueueRefinement`, `MarkedNotificationStable` | When the authority reports sign/requestSign outcomes only for queued transactions, the array queue implements `TxQueueSpec`, resets included. Notification ids stay unique, and a marked notification is never replaced by a pushed or late version. |
| `tx_queue_untracked` | violation | `TxQueueRefinement` | An outcome for an unqueued txHash removes the last, unrelated, transaction (finding 1). |
| `notification_resurrection` | violation | `NoResurrection` | A late `SET_NOTIFICATION_AS` re-inserts a deleted notification (finding 2). |
| `marker_shared_hash` | violation | `MarkerOnlyWhileActing` | With two signing requests for one file, the marker of the second is never cleared (finding 3). |
| `file_registry` | pass | `NoForeignFiles`, `UniqueFileIds`, `FilteredFilesSorted`, `FilesConverge` | Stale streams never reach the list, even across a reset of the file store (for result sets that depend on the category and term only: `ResultSet` ignores the account, so a stream of the previous account's files is not modelled); each file is listed once; `filteredFiles` is a stable descending sort; the list converges to the result set of the session's last load once the user stops. Its start also evaluates `ASSUME SignaturePanelAgrees` of `FileSigners`. |
| `files_error_stale` | violation | `ErrorReflectsLatestLoad` | A superseded failing load leaves the error flag set after a later success (finding 4). |
| `session_stores` | pass | `SelfPinnedFirst`, `UniqueProviders`, `DefaultSPKept`, `NameFallback` | Own account first; providers unique by address; `defaultSPAddress` changes only within a session of its account and survives resets and reloads; every address resolves along the spec's name chain (contact, self, provider, faucet, raw address) over whatever the loads and resets left in the stores. |
| `address_session_leak` | violation | `OnlyOwnContacts` | A `LOAD_ADDRS` answer in flight across a reset fills the next account's list (finding 5). |
| `session` | pass | `LogoutSettles`, `AuthenticatingSettles`, `ApprovingSettles` | `logoutInProgress`, the login spinner and the approve spinner always clear again, with failing logouts, locks, timeouts and the account commands interleaved. |
| `session_logout_race` | violation | `SessionsAgree` | The logout POST of a lock, served after a new login, ends the new session (finding 6). |
| `account_remove_race` | violation | `RemoveDropsOnlyItsAccount` | A `REMOVE_ACCOUNT` answered after a reload takes another account off the list (finding 7). |
| `notification_view` | pass | `SearchUnionOnce`, `UniqueSigningRequests`, `BucketsPartition` | The filtered view lists every direct or label match exactly once; one signing request per file hash; as the day turns over, each entry not dated in the future is in exactly one day bucket unless that bucket's page is full. |

Each property of a passing run has a mutant in `PROJECT.json`: a plausible
slip in the code it is about (a dropped lookup, a swapped comparator, a reset
that forgets, a missing flag reset). Each mutant makes TLC report that
property violated.

### Bounds, and why they are enough

* **`channel_hub`:** two transactions of one file (a sign and a
  requestSign), four statuses, two signing requests about different files,
  one user command. One file lets the queue hold two records that a file-hash
  lookup would confuse. A record can sit at position 0 or after it.
* **`file_registry`:** two files, two categories and two terms. That gives
  four grouping keys with different result sets. There are two loads, so
  that a stream overlaps a switch (every switch reloads), and one
  `RESET_FILE_STATE`, so that a stream of the default context outlives a
  reset. A third load with the reset takes TLC over ten minutes.
* **`session_stores`:**
  * two accounts with disjoint contacts;
  * two user commands, one addressBook event;
  * one provider load, one storageProvider event, one default choice;
  * one provider at the address of a contact (so a contact and a provider
    compete for a name) and one without a name; a faucet address that is
    neither.

  That is the shortest way to list a provider, record it as a default, reset,
  and see a one-element list. With two providers, every list of two is
  complete, so the bounds do not show `defaultSP` missing the default. The
  spec (4.6, 9) accepts that `undefined` result as a known gap, and no
  property states it.
* **`session`:**
  * one login, one lock, two account commands and one request slot;
  * two accounts, one of them not yet in the keystore, so that a create or
    import succeeds;
  * sessions may time out while the channel is closed;
  * `APPROVE` is one of the commands, so its POST can fail or outlive a lock.
* **`notification_view`:** two notifications whose ids, types, labels and
  names share letters, with four events in all, so each can be pushed twice.
  Seven search-term shapes: empty, one word, two words, a trailing space, quoted, a lone quote. Timestamps on days 1 and 2 and a
  clock from day 1 to 3 give every bucket and a date after the clock. A
  page of one entry lets a bucket fill. One mark-all PUT may be pending, so
  a push can land between the PUT and its commit.
* **`file_registry`, getters:** three addresses (one is the own account),
  names empty or not, lists of at most two contacts or null. This covers a
  first and a later missing signer, with and without a name, and the own
  account in either place.

The violation runs use the smallest bounds that reach their trace. The bounds
of each run are described in the header comment of its `.cfg`.

### Fairness

The only steps assumed to happen eventually are these:

* the authority answering a request (`WF` on each serve and answer step);
* the event loop running a scheduled nextTick callback (`RunTick`);
* a result set's stream being delivered.

User actions (logins, locks, switches, commands) carry no fairness: a user
may stop at any time. For the same reason, the runs with bounded user steps
set `CHECK_DEADLOCK FALSE`: the idle client waits for input.

## 4. Findings

1. `file.js:111`: `REMOVE_TRANSACTION_FROM_QUEUE` splices at
   `findIndex(...) = -1` for a txHash it does not hold, and removes the last
   transaction.
2. `notification.js:362`: `SET_NOTIFICATION_AS` commits its copy after the
   PUT, even when the notification was deleted meanwhile.
3. `notification.js:152`: `REMOVE_NOTIFICATION_ACTION_IN_PROGRESS` clears only
   the first match of hash and type.
4. `file.js:356`: a superseded `LOAD_FILES` failure sets `filesLoadingError`.
5. `address.js:243`: `LOAD_ADDRS` commits the answer without checking the
   session.
6. `wallet.js:353`: `LOCK_WALLET` sends its logout after the reset tick, so it
   can end a session logged in meanwhile. This assumes an authority with one
   session.
7. `wallet.js:96`: `REMOVE_ACCOUNT` splices at -1 when a reload already
   dropped the address, and removes the last listed account.

Spec and code also differ on one point that no run checks. spec.md 4.5
tries the known-address table before the storage providers, while
`nameByAddress` (address.js:150-161) tries the providers first. The two
orders differ only for a provider at the faucet's address. `NameFallback`
leaves that case open.

`missingSignersInfo` (file.js:248) appends `', ' + ds.name || ds.address`.
The `||` never applies, so a later unnamed signer adds a bare `', '`, and
the own account is appended with no separator. spec.md does not define this
text. `SignaturePanelAgrees` checks only that the text is empty exactly when
every signer signed, which holds.

Two races are not stated as properties. The first is modelled: a mark-all
answer also marks pushes received during its PUT (notification.js:337). It
is listed as a hazard in `PROJECT.json`. In the second, one `APPROVE`
answer can clear the spinner of another that is still pending
(wallet.js:169). With one account request in flight, the model never
overlaps two `APPROVE` POSTs.

## 5. Not modelled

* **Transport and backend internals.** The channel library and the Go
  authority are not in this repository. The authority is the environment.
* **The views.** They are not under `src/`. Where a view commits a mutation
  (the `actionInProgress` marker, `REMOVE_FILE`), that commit is a user
  action. Whether a view clears a marker after a failed `SIGN_HASH` cannot be
  modelled.
* **HTTP wrappers that commit nothing.** In `file.js`: upload, share, sign,
  download, remove and the gas estimates. In `wallet.js`: sends, exports and
  balance. Their effects return as pushed events, which the environment
  already produces. The `isApproving` getter needs the `xes-approve`
  transaction that `APPROVE` causes in `ChannelHub`'s queue; that
  composition is not built, and the getter is listed as a hazard.
* **Notifications.** The bucket counts are plain Vuex getters that Vue
  caches; the model evaluates every getter afresh, so it cannot show their
  staleness after midnight (listed as a hazard). The modal flags are single
  assignments.
  `SET_FILTERED_NOTIFICATIONS_AS` dispatches `SET_NOTIFICATION_AS` for each
  entry of a view that `ChannelHub` does not build.
* **File getters.** `fileSignStatus`, the thumbnail and share getters format
  strings and change no state. The signature and access getters are in
  `FileSigners`.
* **Two router cases.** `connectionStatus` commits `SET_CONNECTION_STATUS`,
  a display field that no guard reads. `share_process` commits
  `SHARE_PROCESS`, which sets only the share modal's fields.
* **Everything else.** The browser file system (`lib/FileSystem.js`), the
  Electron shell, the router, the filters, the build config and the
  translations.
