------------------------------ MODULE Session ------------------------------
(***************************************************************************)
(* The session lifecycle of the client: login (AUTHENTICATE), the user's  *)
(* LOCK_WALLET, the authority's 'session-timeout' event (channelhub.js,   *)
(* NOTIFY_WALLET_LOCK) and the store reset both schedule with              *)
(* Vue.nextTick (wallet.js, RESET_MODULE_STATE of index.js), together with *)
(* the account commands of wallet.js (LOAD_ACCOUNTS, CREATE_ACCOUNT, the two imports,             *)
(* REMOVE_ACCOUNT, UPDATE_ACCOUNT_NAME) against the authority's keystore. *)
(*                                                                         *)
(* The authority holds one session (backendSession).  A login or logout   *)
(* request changes it when the authority serves it, which is the step of  *)
(* its answer here.  Vue.nextTick callbacks run in order (ticks); the      *)
(* continuation of LOCK_WALLET after 'await dispatch(HANDLE_WALLET_LOCK)'  *)
(* is a microtask queued behind the tick and sends the logout POST right   *)
(* after it, before any network or channel callback.                      *)
(***************************************************************************)
EXTENDS Integers, Sequences, SequencesExt, FiniteSets, WalletOps

CONSTANTS
  Accounts,       \* addresses of wallet accounts
  Names,          \* account names
  Gone,           \* the authority holds no keystore for an address
  InitialKeystore,  \* the keystore the authority starts with
  LockedAddress,  \* the address '0' HANDLE_WALLET_LOCK / NOTIFY_WALLET_LOCK set
  MaxLogins,      \* bound on AUTHENTICATE calls
  MaxLocks,       \* bound on LOCK_WALLET calls
  MaxAcctCmds,    \* bound on account commands (wallet.js actions)
  AcctSlots,      \* bound on account requests in flight at once
  TimeoutWhileClosed  \* the authority may end a session while no channel is
                      \* open, so that no 'session-timeout' reaches the client

ASSUME {NoAddress, LockedAddress} \cap Accounts = {}
ASSUME InitialKeystore \in [Accounts -> Names \cup {Gone}]

AcctReqIds == 1..AcctSlots
Account == [address : Accounts, name : Names]

VARIABLES
  wallet,            \* state.wallet: the fields below of getDefaultState
  ticks,             \* pending Vue.nextTick callbacks, "lock" or "notify"
  logoutPosts,       \* POST /api/logout requests unanswered
  loginReqs,         \* accounts of AUTHENTICATE requests unanswered
  backendSession,    \* the account the authority's session is for, or NoAddress
  channelOpen,       \* the channelHub singleton is open
  budget,            \* calls left: [login, lock, acct]
  keystore,          \* keystore[a]: the authority's account a, its name or Gone
  acctReq,           \* acctReq[r]: the account request in slot r ("unsent",
                     \* then "sent", "served" or "failed", then "done")
  airdropHintOutstanding  \* state.airdropHintOutstanding (persisted)

acctVars == <<keystore, acctReq, airdropHintOutstanding>>
vars == <<wallet, ticks, logoutPosts, loginReqs, backendSession, channelOpen,
          budget, acctVars>>

Listed(w) == IF w.accounts = Undefined THEN {} ELSE {w.accounts[k].address : k \in DOMAIN w.accounts}

Init ==
  /\ wallet = WalletDefault
  /\ ticks = << >>
  /\ logoutPosts = 0
  /\ loginReqs = {}
  /\ backendSession = NoAddress
  /\ channelOpen = FALSE
  /\ budget = [login |-> MaxLogins, lock |-> MaxLocks, acct |-> MaxAcctCmds]
  /\ keystore = InitialKeystore
  /\ acctReq = [r \in AcctReqIds |-> [kind |-> "load", addr |-> NoAddress,
                  name |-> CHOOSE n \in Names : TRUE, stage |-> "unsent",
                  data |-> << >>, reason |-> "none"]]
  /\ airdropHintOutstanding = << >>

Spend(k) == budget[k] > 0 /\ budget' = [budget EXCEPT ![k] = @ - 1]

-----------------------------------------------------------------------------
(* AUTHENTICATE up to its await: SET_AUTHENTICATING true, SET_AUTH_ERROR  *)
(* '', then the POST.  The login view is shown to a user not logged in.   *)
AuthenticateRequest(a) ==
  /\ ~wallet.authenticated
  /\ Spend("login")
  /\ wallet' = SET_AUTH_ERROR(SET_AUTHENTICATING(wallet, TRUE), "")
  /\ loginReqs' = loginReqs \cup {a}
  /\ UNCHANGED <<ticks, logoutPosts, backendSession, channelOpen, acctVars>>

(* The authority serves the login and the client runs the rest: on        *)
(* success SET_CURRENT_ADDRESS and SET_AUTHENTICATED true, on a rejected  *)
(* password the catch sets the error; then SET_AUTHENTICATING false.      *)
AuthenticateResponse(a, ok) ==
  /\ a \in loginReqs
  /\ ok => keystore[a] # Gone
  /\ loginReqs' = loginReqs \ {a}
  /\ wallet' = SET_AUTHENTICATING(
                 IF ok THEN SET_AUTHENTICATED(SET_CURRENT_ADDRESS(wallet, a), TRUE)
                       ELSE SET_AUTH_ERROR(wallet, "invalid"),
                 FALSE)
  /\ backendSession' = IF ok THEN a ELSE backendSession
  /\ UNCHANGED <<ticks, logoutPosts, channelOpen, budget, acctVars>>

(* INIT_CHANNEL_HUB, dispatched by the views: opens the channel if closed. *)
INIT_CHANNEL_HUB ==
  /\ ~channelOpen
  /\ channelOpen' = TRUE
  /\ UNCHANGED <<wallet, ticks, logoutPosts, loginReqs, backendSession,
                 budget, acctVars>>

(* LOCK_WALLET up to the tick: return if a logout is in progress, else    *)
(* SET_LOGOUT_IN_PROCESS true and HANDLE_WALLET_LOCK schedules the reset. *)
(* The views offer the lock to a logged-in user.                          *)
LOCK_WALLET ==
  /\ wallet.authenticated
  /\ Spend("lock")
  /\ IF wallet.logoutInProgress
       THEN UNCHANGED <<wallet, ticks>>
       ELSE /\ wallet' = SET_LOGOUT_IN_PROCESS(wallet, TRUE)
            /\ ticks' = Append(ticks, "lock")
  /\ UNCHANGED <<logoutPosts, loginReqs, backendSession, channelOpen,
                 acctVars>>
(* The authority's session expires and it pushes 'session-timeout' over  *)
(* the channel, if open: the handler closes the channel and               *)
(* NOTIFY_WALLET_LOCK sets logoutInProgress and schedules the reset.      *)
SessionTimeout ==
  /\ backendSession # NoAddress
  /\ TimeoutWhileClosed \/ channelOpen
  /\ backendSession' = NoAddress
  /\ IF channelOpen
       THEN /\ channelOpen' = FALSE
            /\ wallet' = SET_LOGOUT_IN_PROCESS(wallet, TRUE)
            /\ ticks' = Append(ticks, "notify")
       ELSE UNCHANGED <<channelOpen, wallet, ticks>>
  /\ UNCHANGED <<logoutPosts, loginReqs, budget, acctVars>>

(* The first pending nextTick callback: RESET_MODULE_STATE (its wallet    *)
(* part; module SessionStores models the others), ADD_ACCOUNT_INFO with address '0', and    *)
(* for NOTIFY_WALLET_LOCK SET_LOGOUT_IN_PROCESS false; LOCK_WALLET's      *)
(* continuation then sends the logout POST.                               *)
RunTick ==
  LET w == ADD_ACCOUNT_INFO(RESET_WALLET_STATE(wallet), LockedAddress) IN
  /\ ticks # << >>
  /\ ticks' = Tail(ticks)
  /\ wallet' = IF Head(ticks) = "notify" THEN SET_LOGOUT_IN_PROCESS(w, FALSE) ELSE w
  /\ logoutPosts' = IF Head(ticks) = "lock" THEN logoutPosts + 1 ELSE logoutPosts
  /\ UNCHANGED <<loginReqs, backendSession, channelOpen, budget, acctVars>>

(* The authority serves the logout and LOCK_WALLET commits                *)
(* SET_LOGOUT_IN_PROCESS false; a failed POST is caught and logged.       *)
LogoutResponse(ok) ==
  /\ logoutPosts > 0
  /\ logoutPosts' = logoutPosts - 1
  /\ backendSession' = IF ok THEN NoAddress ELSE backendSession
  /\ wallet' = IF ok THEN SET_LOGOUT_IN_PROCESS(wallet, FALSE) ELSE wallet
  /\ UNCHANGED <<ticks, loginReqs, channelOpen, budget, acctVars>>

(* An 'account' event: handleAccount commits ADD_ACCOUNT_INFO with the    *)
(* account of the authority's session.                                    *)
handleAccount ==
  /\ channelOpen /\ backendSession # NoAddress
  /\ wallet' = ADD_ACCOUNT_INFO(wallet, backendSession)
  /\ UNCHANGED <<ticks, logoutPosts, loginReqs, backendSession, channelOpen,
                 budget, acctVars>>

-----------------------------------------------------------------------------
(* The account commands of wallet.js.  Each is three steps: the client    *)
(* runs the commits before the await and sends request r, the authority   *)
(* serves or fails it, the client runs the code after the await.          *)
(* Requests are served and answered in any order.                         *)
OtherSessionVars == <<ticks, logoutPosts, loginReqs, channelOpen>>

FreeSlots == {r \in AcctReqIds : acctReq[r].stage \in {"unsent", "done"}}

SendAcct(kind, a, n) ==
  /\ FreeSlots # {}
  /\ Spend("acct")
  /\ LET r == CHOOSE r \in FreeSlots : \A s \in FreeSlots : r <= s IN
     acctReq' = [acctReq EXCEPT ![r] = [kind |-> kind, addr |-> a, name |-> n,
                   stage |-> "sent", data |-> << >>, reason |-> "none"]]
  /\ UNCHANGED <<keystore, airdropHintOutstanding, backendSession, OtherSessionVars>>

(* LOAD_ACCOUNTS, and LOAD_ACCOUNTS_AND_SET_FIRST_ACTIVE from the login   *)
(* view: the GET.                                                         *)
LoadAccountsRequest(first) ==
  /\ first => ~wallet.authenticated
  /\ SendAcct(IF first THEN "loadFirst" ELSE "load", NoAddress, CHOOSE n \in Names : TRUE)
  /\ UNCHANGED wallet

(* CREATE_ACCOUNT, IMPORT_KEYSTORE_FROM_FILE and IMPORT_PRIVATE_KEY from  *)
(* the login view, up to their await: the spinner flags and the cleared   *)
(* error.  A keystore file or a private key is that of account a.        *)
CreateAccountRequest(n) ==
  /\ ~wallet.authenticated
  /\ SendAcct("create", NoAddress, n)
  /\ wallet' = SET_CREATING_ACCOUNT(SET_AUTH_ERROR(SET_AUTHENTICATING(wallet, TRUE), ""), TRUE)

ImportRequest(kind, a, n) ==
  /\ ~wallet.authenticated
  /\ SendAcct(kind, a, n)
  /\ wallet' = SET_AUTHENTICATING(SET_AUTH_ERROR(wallet, ""), TRUE)

(* REMOVE_ACCOUNT and UPDATE_ACCOUNT_NAME for a listed account; the      *)
(* rename commits UPDATE_ACCOUNT before it sends its POST.               *)
RemoveAccountRequest(a) ==
  /\ a \in Listed(wallet)
  /\ SendAcct("remove", a, CHOOSE n \in Names : TRUE)
  /\ UNCHANGED wallet

UpdateAccountNameRequest(a, n) ==
  /\ a \in Listed(wallet)
  /\ SendAcct("rename", a, n)
  /\ wallet' = UPDATE_ACCOUNT(wallet, a, n)

(* APPROVE up to its await: SET_APPROVING true, then the POST that        *)
(* approves XES to the contract; the views offer it to a logged-in user. *)
ApproveRequest ==
  /\ wallet.authenticated
  /\ SendAcct("approve", NoAddress, CHOOSE n \in Names : TRUE)
  /\ wallet' = SET_APPROVING(wallet, TRUE)

(* The authority serves request r: GET /api/accounts lists its accounts   *)
(* in some order; a create, or an import of an account it does not hold,  *)
(* adds the account and logs it in; remove and rename change a held       *)
(* account.  Any request may fail instead; an import of a held private    *)
(* key fails with 'account already exists', a keystore import with a      *)
(* wrong passphrase or otherwise.                                         *)
FailReasons(q) ==
  CASE q.kind = "importKS"                          -> {"decrypt", "other"}
    [] q.kind = "importPK" /\ keystore[q.addr] # Gone -> {"exists"}
    [] OTHER                                        -> {"other"}

ServeAcct(r) ==
  LET q == acctReq[r] IN
  /\ q.stage = "sent"
  /\ \/ /\ \E why \in FailReasons(q) :
             acctReq' = [acctReq EXCEPT ![r].stage = "failed", ![r].reason = why]
        /\ UNCHANGED <<keystore, backendSession>>
     \/ /\ q.kind \in {"load", "loadFirst"}
        /\ \E d \in SetToSeqs({[address |-> a, name |-> keystore[a]] :
                                a \in {b \in Accounts : keystore[b] # Gone}}) :
             acctReq' = [acctReq EXCEPT ![r].stage = "served", ![r].data = d]
        /\ UNCHANGED <<keystore, backendSession>>
     \/ /\ q.kind = "create"
        /\ \E a \in Accounts :
             /\ keystore[a] = Gone
             /\ keystore' = [keystore EXCEPT ![a] = q.name]
             /\ backendSession' = a
             /\ acctReq' = [acctReq EXCEPT ![r].stage = "served", ![r].addr = a]
     \/ /\ q.kind \in {"importKS", "importPK"} /\ keystore[q.addr] = Gone
        /\ keystore' = [keystore EXCEPT ![q.addr] = q.name]
        /\ backendSession' = q.addr
        /\ acctReq' = [acctReq EXCEPT ![r].stage = "served"]
     \/ /\ q.kind \in {"remove", "rename"} /\ keystore[q.addr] # Gone
        /\ keystore' = [keystore EXCEPT ![q.addr] = IF q.kind = "remove" THEN Gone ELSE q.name]
        /\ acctReq' = [acctReq EXCEPT ![r].stage = "served"]
        /\ UNCHANGED backendSession
     \/ /\ q.kind = "approve"
        /\ acctReq' = [acctReq EXCEPT ![r].stage = "served"]
        /\ UNCHANGED <<keystore, backendSession>>
  /\ UNCHANGED <<wallet, airdropHintOutstanding, budget, OtherSessionVars>>

(* The client runs the code after the await of request r.  A create or   *)
(* import that succeeded also commits AIRDROP_HINT_OUTSTANDING (create)   *)
(* and dispatches LOAD_ACCOUNTS, which sends a new GET: request r becomes *)
(* that GET.                                                              *)
AcctAnswer(w, q) ==
  CASE q.kind = "load"      -> LOAD_ACCOUNTS(w, q)
    [] q.kind = "loadFirst" -> SetFirstActive(LOAD_ACCOUNTS(w, q))
    [] q.kind = "create"    -> CREATE_ACCOUNT(w, q)
    [] q.kind = "importKS"  -> IMPORT_KEYSTORE_FROM_FILE(w, q)
    [] q.kind = "importPK"  -> IMPORT_PRIVATE_KEY(w, q)
    [] q.kind = "remove"    -> RemoveAccountAnswer(w, q)
    [] q.kind = "approve"   -> APPROVE(w, q)
    [] OTHER                -> w

RespondAcct(r) ==
  LET q == acctReq[r]
      reload == q.kind \in {"create", "importKS", "importPK"} /\ q.stage = "served"
  IN
  /\ q.stage \in {"served", "failed"}
  /\ wallet' = AcctAnswer(wallet, q)
  /\ airdropHintOutstanding' =
       IF q.kind = "create" /\ q.stage = "served"
         THEN Append(airdropHintOutstanding, q.addr) ELSE airdropHintOutstanding
  /\ acctReq' = [acctReq EXCEPT ![r] =
       IF reload THEN [q EXCEPT !.kind = "load", !.stage = "sent"]
                 ELSE [q EXCEPT !.stage = "done"]]
  /\ UNCHANGED <<keystore, backendSession, budget, OtherSessionVars>>

(* AIRDROP_HINT_DISPLAYED for the current account, whose hint is shown.   *)
AIRDROP_HINT_DISPLAYED ==
  /\ \E k \in DOMAIN airdropHintOutstanding : airdropHintOutstanding[k] = wallet.currentAddress
  /\ airdropHintOutstanding' = SelectSeq(airdropHintOutstanding, LAMBDA x : x # wallet.currentAddress)
  /\ UNCHANGED <<wallet, keystore, acctReq, backendSession, budget, OtherSessionVars>>

Next ==
  \/ \E a \in Accounts : AuthenticateRequest(a)
  \/ \E a \in Accounts, ok \in BOOLEAN : AuthenticateResponse(a, ok)
  \/ INIT_CHANNEL_HUB
  \/ LOCK_WALLET
  \/ SessionTimeout
  \/ RunTick
  \/ \E ok \in BOOLEAN : LogoutResponse(ok)
  \/ handleAccount
  \/ \E first \in BOOLEAN : LoadAccountsRequest(first)
  \/ \E n \in Names : CreateAccountRequest(n)
  \/ \E kind \in {"importKS", "importPK"}, a \in Accounts, n \in Names : ImportRequest(kind, a, n)
  \/ \E a \in Accounts : RemoveAccountRequest(a)
  \/ \E a \in Accounts, n \in Names : UpdateAccountNameRequest(a, n)
  \/ ApproveRequest
  \/ \E r \in AcctReqIds : ServeAcct(r) \/ RespondAcct(r)
  \/ AIRDROP_HINT_DISPLAYED

(* The event loop runs every scheduled nextTick callback and the          *)
(* authority answers every request; user actions are not obliged.         *)
Fairness ==
  /\ WF_vars(RunTick)
  /\ WF_vars(\E ok \in BOOLEAN : LogoutResponse(ok))
  /\ \A a \in Accounts : WF_vars(\E ok \in BOOLEAN : AuthenticateResponse(a, ok))
  /\ \A r \in AcctReqIds : WF_vars(ServeAcct(r)) /\ WF_vars(RespondAcct(r))

Spec == Init /\ [][Next]_vars /\ Fairness

-----------------------------------------------------------------------------
(***************************************************************************)
(* Properties                                                              *)
(***************************************************************************)
TypeOK ==
  /\ wallet \in [currentAddress : Accounts \cup {NoAddress, LockedAddress},
                authenticated : BOOLEAN, authenticating : BOOLEAN,
                logoutInProgress : BOOLEAN, unlocked : BOOLEAN,
                authError : {"false", "", "invalid", "pkExists", "pkNotImportable",
                             "ksNotImportable"},
                accounts : Seq(Account) \cup {Undefined}, creatingAccount : BOOLEAN,
                approving : BOOLEAN]
  /\ keystore \in [Accounts -> Names \cup {Gone}]
  /\ airdropHintOutstanding \in Seq(Accounts)
  /\ ticks \in Seq({"lock", "notify"}) /\ logoutPosts \in 0..MaxLocks
  /\ loginReqs \subseteq Accounts /\ backendSession \in Accounts \cup {NoAddress}

(* wallet.js LOCK_WALLET / NOTIFY_WALLET_LOCK: logoutInProgress, which    *)
(* makes LOCK_WALLET return early, does not stay set: every lock or       *)
(* session timeout is followed by a state where it is false again, even   *)
(* when the logout POST fails and its SET_LOGOUT_IN_PROCESS false is      *)
(* skipped.                                                               *)
LogoutSettles == wallet.logoutInProgress ~> ~wallet.logoutInProgress

(* wallet.js AUTHENTICATE, CREATE_ACCOUNT, IMPORT_KEYSTORE_FROM_FILE and  *)
(* IMPORT_PRIVATE_KEY: the login spinner does not stay on: whichever of   *)
(* them are in flight, however they succeed or fail and whatever lock     *)
(* resets the stores meanwhile, authenticating is false again later.      *)
AuthenticatingSettles == wallet.authenticating ~> ~wallet.authenticating

(* wallet.js APPROVE: the approving half of isApproving does not stay     *)
(* set: whether the approve POST is answered or throws, and whatever      *)
(* lock, timeout or login happens while it is pending, approving is false *)
(* again later.                                                           *)
ApprovingSettles == wallet.approving ~> ~wallet.approving

(* wallet.js REMOVE_ACCOUNT: the answer of a removal takes the removed    *)
(* account, and only that one, off the list, whatever LOAD_ACCOUNTS       *)
(* answers have replaced the list while the POST was pending.             *)
RemoveDropsOnlyItsAccount ==
  [][\A r \in AcctReqIds :
       /\ acctReq[r].kind = "remove" /\ acctReq[r].stage = "served"
       /\ acctReq'[r].stage = "done"
       => Listed(wallet') = Listed(wallet) \ {acctReq[r].addr}]_vars

(* spec.md 5 / 8: once the stores are reset and no reset is pending, a    *)
(* client that shows an account as logged in over an open channel has a  *)
(* session with the authority for that account.                          *)
SessionsAgree ==
  wallet.authenticated /\ channelOpen /\ ticks = << >> =>
    backendSession = wallet.currentAddress

====
