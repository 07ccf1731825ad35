------------------------------ MODULE WalletOps ------------------------------
(***************************************************************************)
(* The mutations of src/ui/dapp/src/store_go/modules/wallet.js, and the    *)
(* code after the await of its account commands, as pure operators on the *)
(* record of state.wallet.  An account is a record [address, name]; the   *)
(* balances, allowance, password and pane fields are left out.            *)
(* authError is false, '' or one of the translated texts: "invalid"       *)
(* (invalid password), "pkExists", "pkNotImportable", "ksNotImportable".  *)
(***************************************************************************)
EXTENDS Integers, Sequences, SequencesExt

CONSTANTS
  NoAddress,  \* an undefined currentAddress
  Undefined   \* an undefined accounts list

(* getDefaultState, the fields the model keeps.                           *)
WalletDefault ==
  [currentAddress |-> NoAddress, authenticated |-> FALSE,
   authenticating |-> FALSE, logoutInProgress |-> FALSE,
   authError |-> "false", unlocked |-> FALSE, accounts |-> Undefined,
   creatingAccount |-> FALSE, approving |-> FALSE]

(* Mutant: the reset keeps logoutInProgress.                              *)
RESET_WALLET_STATE_KeepsLogout(w) ==
  [WalletDefault EXCEPT !.logoutInProgress = w.logoutInProgress]

RESET_WALLET_STATE(w) == WalletDefault
ADD_ACCOUNT_INFO(w, address) == [w EXCEPT !.currentAddress = address]
SET_ACCOUNTS(w, accounts) == [w EXCEPT !.accounts = accounts]
SET_LOGOUT_IN_PROCESS(w, b) == [w EXCEPT !.logoutInProgress = b]
SET_AUTHENTICATING(w, b) == [w EXCEPT !.authenticating = b]
SET_AUTH_ERROR(w, e) == [w EXCEPT !.authError = e]
SET_CREATING_ACCOUNT(w, b) == [w EXCEPT !.creatingAccount = b]
SET_CURRENT_ADDRESS(w, a) == [w EXCEPT !.currentAddress = a]
SET_APPROVING(w, b) == [w EXCEPT !.approving = b]

SET_AUTHENTICATED(w, b) ==
  [w EXCEPT !.authenticated = b, !.unlocked = b,
            !.authError = IF b THEN "false" ELSE @]

(* Array.prototype.splice(start, 1) for a 0-based start: a negative start *)
(* counts from the end; a start past the end removes nothing.             *)
SpliceOne(s, start) ==
  LET i == IF start < 0 THEN Len(s) + start ELSE start IN
  IF i < 0 \/ i >= Len(s) THEN s ELSE RemoveAt(s, i + 1)

(* REMOVE_ACCOUNT: findIndex (-1 when the address is not listed), then    *)
(* splice at that index.                                                  *)
REMOVE_ACCOUNT(w, ethAddress) ==
  LET accountIndex == SelectInSeq(w.accounts, LAMBDA acc : acc.address = ethAddress) - 1
  IN  [w EXCEPT !.accounts = SpliceOne(@, accountIndex)]

(* UPDATE_ACCOUNT: rename the first listed account of that address.       *)
UPDATE_ACCOUNT(w, address, name) ==
  LET k == SelectInSeq(w.accounts, LAMBDA acc : acc.address = address)
  IN  IF k = 0 THEN w ELSE [w EXCEPT !.accounts[k].name = name]

-----------------------------------------------------------------------------
(* The code after the await of the account commands, for a request q     *)
(* [kind, addr, stage, reason] the authority has served or failed.        *)

(* LOAD_ACCOUNTS: SET_ACCOUNTS with the answer reversed; a failed GET is  *)
(* caught and logged.                                                     *)
LOAD_ACCOUNTS(w, q) ==
  IF q.stage = "served" THEN SET_ACCOUNTS(w, Reverse(q.data)) ELSE w

(* LOAD_ACCOUNTS_AND_SET_FIRST_ACTIVE after its awaited LOAD_ACCOUNTS:    *)
(* the first listed account becomes current; reading [0] of an undefined  *)
(* list throws and commits nothing.                                       *)
SetFirstActive(w) ==
  IF w.accounts # Undefined /\ w.accounts # << >>
    THEN SET_CURRENT_ADDRESS(w, w.accounts[1].address)
    ELSE w

(* CREATE_ACCOUNT: on an address, SET_CURRENT_ADDRESS and                 *)
(* SET_AUTHENTICATED true (LOAD_ACCOUNTS is dispatched by the caller);    *)
(* on an error the not-importable text; then both flags false.           *)
CREATE_ACCOUNT(w, q) ==
  LET w1 == IF q.stage = "served"
              THEN SET_AUTHENTICATED(SET_CURRENT_ADDRESS(w, q.addr), TRUE)
              ELSE SET_AUTH_ERROR(w, "pkNotImportable")
  IN  SET_AUTHENTICATING(SET_CREATING_ACCOUNT(w1, FALSE), FALSE)

(* IMPORT_KEYSTORE_FROM_FILE: as CREATE_ACCOUNT; the error text tells a   *)
(* wrong passphrase from any other failure.                               *)
IMPORT_KEYSTORE_FROM_FILE(w, q) ==
  LET w1 == CASE q.stage = "served"    -> SET_AUTHENTICATED(SET_CURRENT_ADDRESS(w, q.addr), TRUE)
              [] q.reason = "decrypt"  -> SET_AUTH_ERROR(w, "invalid")
              [] OTHER                 -> SET_AUTH_ERROR(w, "ksNotImportable")
  IN  SET_AUTHENTICATING(w1, FALSE)

(* Mutant: the catch of IMPORT_PRIVATE_KEY without SET_AUTHENTICATING     *)
(* false.                                                                 *)
IMPORT_PRIVATE_KEY_KeepsSpinner(w, q) ==
  CASE q.stage = "served"   -> SET_AUTHENTICATING(SET_AUTHENTICATED(SET_CURRENT_ADDRESS(w, q.addr), TRUE), FALSE)
    [] q.reason = "exists"  -> SET_AUTH_ERROR(w, "pkExists")
    [] OTHER                -> SET_AUTH_ERROR(w, "pkNotImportable")

(* IMPORT_PRIVATE_KEY: on an address SET_CURRENT_ADDRESS,                 *)
(* SET_AUTHENTICATED true, SET_AUTHENTICATING false; in the catch the     *)
(* already-exists or the not-importable text, then SET_AUTHENTICATING     *)
(* false.                                                                 *)
IMPORT_PRIVATE_KEY(w, q) ==
  CASE q.stage = "served"   -> SET_AUTHENTICATING(SET_AUTHENTICATED(SET_CURRENT_ADDRESS(w, q.addr), TRUE), FALSE)
    [] q.reason = "exists"  -> SET_AUTHENTICATING(SET_AUTH_ERROR(w, "pkExists"), FALSE)
    [] OTHER                -> SET_AUTHENTICATING(SET_AUTH_ERROR(w, "pkNotImportable"), FALSE)

(* The REMOVE_ACCOUNT action: on a 200 answer the mutation; a failure, or *)
(* the mutation throwing on an undefined list, commits nothing.          *)
RemoveAccountAnswer(w, q) ==
  IF q.stage = "served" /\ w.accounts # Undefined THEN REMOVE_ACCOUNT(w, q.addr) ELSE w

(* Mutant: the catch of APPROVE returns its error without committing      *)
(* SET_APPROVING false.                                                   *)
APPROVE_KeepsSpinner(w, q) ==
  IF q.stage = "served" THEN SET_APPROVING(w, FALSE) ELSE w

(* APPROVE after its await: SET_APPROVING false whether the POST was      *)
(* answered or threw.                                                     *)
APPROVE(w, q) == SET_APPROVING(w, FALSE)

====
