---------------------------- MODULE ChannelHub ----------------------------
(***************************************************************************)
(* The event router of src/ui/dapp/src/store_go/modules/channelhub.js      *)
(* together with the stores it writes: the transaction queue of file.js    *)
(* and the notification list of notification.js, and the notification      *)
(* commands of notification.js that race with the pushed events.           *)
(*                                                                         *)
(* Every handler runs to completion (single-threaded event loop), so each  *)
(* handler is one action.  A command that awaits an HTTP call is split at  *)
(* the await: the request step copies what the code reads before the       *)
(* await, the response step does what the code does after it.  The        *)
(* remote authority is the environment: it may push any event of the      *)
(* right shape at any time, in any order, any number of times.             *)
(***************************************************************************)
EXTENDS Integers, Sequences, SequencesExt, FiniteSets, TxQueueOps, NotificationOps

CONSTANTS
  TxHashes,       \* correlation hashes of transactions
  FileHashes,     \* file hashes (tx.hash, notification data.hash)
  NotifIds,       \* notification ids
  TxName,         \* TxName[t]: the operation kind of transaction t
  TxFile,         \* TxFile[t]: the file hash transaction t is about
  TxNotifId,      \* TxNotifId[t]: the id field carried by t's events, or NoId
  TxStatuses,     \* statuses the authority reports
  NotifType,      \* NotifType[i]: the type of notification i
  NotifHash,      \* NotifHash[i]: data.hash of notification i
  Actions,        \* values of the actionInProgress marker
  NoId,
  Absent,         \* no record
  MaxRequests,    \* bound on notification commands issued in a behaviour
  TerminalOnlyForTracked  \* environment never reports a sign/requestSign
                          \* outcome for a txHash the queue does not hold

ASSUME NoId \notin NotifIds /\ NoAction \notin Actions
ASSUME MaxRequests \in Nat /\ TerminalOnlyForTracked \in BOOLEAN

VARIABLES
  transactionQueue,  \* state.file.transactionQueue
  notifications,     \* state.notification.notifications
  updatesInFlight,   \* copies sent by SET_NOTIFICATION_AS awaiting the PUT
  deletesInFlight,   \* ids sent by DELETE_NOTIFICATION awaiting the DELETE
  requests,          \* commands issued so far (bounded by MaxRequests)
  acting,            \* history: ids whose user action is still unresolved
  deleted            \* history: ids deleted and not pushed again since

vars == <<transactionQueue, notifications, updatesInFlight, deletesInFlight,
          requests, acting, deleted>>

TxEvents ==
  {[txHash |-> t, hash |-> TxFile[t], id |-> TxNotifId[t],
    name |-> TxName[t], status |-> s] : t \in TxHashes, s \in TxStatuses}

NotificationEvents ==
  {[id |-> i, type |-> NotifType[i], hash |-> NotifHash[i], unread |-> u,
    dismissed |-> d, actionInProgress |-> NoAction] :
      i \in NotifIds, u \in BOOLEAN, d \in BOOLEAN}

Notification ==
  {[n EXCEPT !.actionInProgress = a] : n \in NotificationEvents,
                                       a \in Actions \cup {NoAction}}

Ids(ns) == {ns[k].id : k \in DOMAIN ns}
Tracked(q, t) == \E k \in DOMAIN q : q[k].txHash = t

-----------------------------------------------------------------------------
(* The branches of handleTransaction that commit more than               *)
(* UPDATE_TX_QUEUE_WITH_TRANSACTION.                                       *)
RemovesFromQueue(tx) ==
  tx.name \in {"sign", "requestSign"} /\ tx.status \in {"success", "fail"}
ClearsMarker(tx) == tx.name = "sign" /\ tx.status \in {"success", "fail"}
RemovesNotification(tx) == tx.name = "sign" /\ tx.status = "success"

(* Signing requests a sign outcome for file h resolves.                   *)
ResolvedBy(h) ==
  {i \in NotifIds : NotifHash[i] = h /\ NotifType[i] = "signing_request"}

Init ==
  /\ transactionQueue = << >>
  /\ notifications = << >>
  /\ updatesInFlight = {}
  /\ deletesInFlight = {}
  /\ requests = 0
  /\ acting = {}
  /\ deleted = {}

(* 'tx' message: the per-kind commits, then the queue upsert.  The        *)
(* failure toasts ($showNotification) change no store and are left out.   *)
handleTransaction(tx) ==
  /\ TerminalOnlyForTracked /\ RemovesFromQueue(tx)
       => Tracked(transactionQueue, tx.txHash)
  /\ LET q1 == IF RemovesFromQueue(tx)
                 THEN REMOVE_TRANSACTION_FROM_QUEUE(transactionQueue, tx)
                 ELSE transactionQueue
         n1 == IF RemovesNotification(tx)
                 THEN REMOVE_NOTIFICATION(notifications, tx)
                 ELSE notifications
     IN /\ transactionQueue' = UPDATE_TX_QUEUE_WITH_TRANSACTION(q1, tx)
        /\ notifications' =
             IF ClearsMarker(tx)
               THEN REMOVE_NOTIFICATION_ACTION_IN_PROGRESS(n1, tx.hash,
                                                           "signing_request")
               ELSE n1
  /\ acting' = IF ClearsMarker(tx) THEN acting \ ResolvedBy(tx.hash)
                                   ELSE acting
  /\ UNCHANGED <<updatesInFlight, deletesInFlight, requests, deleted>>

(* 'fileUpload' / 'fileDownload' messages.                                *)
handleFileUploadAndDownload(tx) ==
  /\ transactionQueue' = UPDATE_TX_QUEUE_WITH_TRANSACTION(transactionQueue, tx)
  /\ UNCHANGED <<notifications, updatesInFlight, deletesInFlight, requests,
                 acting, deleted>>

(* 'notification' / 'workflow_request' messages.                          *)
handleNotification(n) ==
  /\ notifications' = ADD_NOTIFICATION(notifications, n)
  /\ deleted' = deleted \ {n.id}
  /\ UNCHANGED <<transactionQueue, updatesInFlight, deletesInFlight,
                 requests, acting>>

(* 'remove_signing_request' message: commits REMOVE_NOTIFICATION.         *)
handleRemoveSigningRequest(i) ==
  /\ notifications' = REMOVE_NOTIFICATION(notifications, [id |-> i])
  /\ UNCHANGED <<transactionQueue, updatesInFlight, deletesInFlight,
                 requests, acting, deleted>>

-----------------------------------------------------------------------------
(* The user starts an action (e.g. signing) on a listed notification:     *)
(* the view commits ADD_NOTIFICATION_ACTION_IN_PROGRESS.                  *)
AddActionInProgress(i, a) ==
  /\ i \in Ids(notifications)
  /\ notifications' = ADD_NOTIFICATION_ACTION_IN_PROGRESS(notifications, i, a)
  /\ acting' = acting \cup {i}
  /\ UNCHANGED <<transactionQueue, updatesInFlight, deletesInFlight,
                 requests, deleted>>

(* SET_NOTIFICATION_AS up to the await: copy the listed record and set    *)
(* its unread flag.                                                        *)
SetNotificationAsRequest(i, unread) ==
  /\ requests < MaxRequests
  /\ \E k \in DOMAIN notifications :
       /\ notifications[k].id = i
       /\ updatesInFlight' =
            updatesInFlight \cup {[notifications[k] EXCEPT !.unread = unread]}
  /\ requests' = requests + 1
  /\ UNCHANGED <<transactionQueue, notifications, deletesInFlight, acting,
                 deleted>>

(* SET_NOTIFICATION_AS after the await: on status 200 commit              *)
(* ADD_NOTIFICATION with the copy; on an error dispatch UNKNOWN_ERROR.    *)
SetNotificationAsResponse(n, ok) ==
  /\ n \in updatesInFlight
  /\ updatesInFlight' = updatesInFlight \ {n}
  /\ notifications' = IF ok THEN ADD_NOTIFICATION(notifications, n)
                            ELSE notifications
  /\ UNCHANGED <<transactionQueue, deletesInFlight, requests, acting, deleted>>

(* DELETE_NOTIFICATION up to the await.                                   *)
DeleteNotificationRequest(i) ==
  /\ requests < MaxRequests
  /\ i \in Ids(notifications)
  /\ deletesInFlight' = deletesInFlight \cup {i}
  /\ requests' = requests + 1
  /\ UNCHANGED <<transactionQueue, notifications, updatesInFlight, acting,
                 deleted>>

(* DELETE_NOTIFICATION after the await: on status 200 commit              *)
(* REMOVE_NOTIFICATION.                                                    *)
DeleteNotificationResponse(i, ok) ==
  /\ i \in deletesInFlight
  /\ deletesInFlight' = deletesInFlight \ {i}
  /\ notifications' = IF ok THEN REMOVE_NOTIFICATION(notifications, [id |-> i])
                            ELSE notifications
  /\ deleted' = IF ok THEN deleted \cup {i} ELSE deleted
  /\ UNCHANGED <<transactionQueue, updatesInFlight, requests, acting>>

(* The nextTick reset of a lock or a session timeout: RESET_MODULE_STATE *)
(* commits RESET_FILE_STATE and RESET_NOTIFICATION_STATE, which empty the *)
(* queue and the list; the PUTs and DELETEs in flight survive it.         *)
ResetModuleState ==
  /\ transactionQueue' = << >>
  /\ notifications' = << >>
  /\ UNCHANGED <<updatesInFlight, deletesInFlight, requests, acting, deleted>>

-----------------------------------------------------------------------------
Next ==
  \/ \E tx \in TxEvents : handleTransaction(tx)
  \/ \E tx \in TxEvents : handleFileUploadAndDownload(tx)
  \/ \E n \in NotificationEvents : handleNotification(n)
  \/ \E i \in NotifIds : handleRemoveSigningRequest(i)
  \/ \E i \in NotifIds, a \in Actions : AddActionInProgress(i, a)
  \/ \E i \in NotifIds, u \in BOOLEAN : SetNotificationAsRequest(i, u)
  \/ \E n \in updatesInFlight, ok \in BOOLEAN : SetNotificationAsResponse(n, ok)
  \/ \E i \in NotifIds : DeleteNotificationRequest(i)
  \/ \E i \in deletesInFlight, ok \in BOOLEAN : DeleteNotificationResponse(i, ok)
  \/ ResetModuleState

Spec == Init /\ [][Next]_vars

-----------------------------------------------------------------------------
(***************************************************************************)
(* Properties                                                              *)
(***************************************************************************)
TypeOK ==
  /\ transactionQueue \in Seq(TxEvents)
  /\ notifications \in Seq(Notification)
  /\ updatesInFlight \subseteq Notification
  /\ deletesInFlight \subseteq NotifIds
  /\ requests \in 0..MaxRequests
  /\ acting \subseteq NotifIds
  /\ deleted \subseteq NotifIds

(* The queue holds at most one record per txHash, whatever order the      *)
(* authority's events, duplicates included, are handled in by             *)
(* handleTransaction and handleFileUploadAndDownload.                      *)
UniqueTxHash ==
  \A j, k \in DOMAIN transactionQueue :
    j # k => transactionQueue[j].txHash # transactionQueue[k].txHash

(* The list holds at most one notification per id, across pushed events  *)
(* and the late commits of SET_NOTIFICATION_AS.                            *)
UniqueNotificationIds ==
  \A j, k \in DOMAIN notifications :
    j # k => notifications[j].id # notifications[k].id

(* The queue seen as a map from txHash to its record.                     *)
AbsQueue ==
  [h \in TxHashes |->
     IF Tracked(transactionQueue, h)
       THEN transactionQueue[CHOOSE k \in DOMAIN transactionQueue :
                                transactionQueue[k].txHash = h]
       ELSE Absent]

TQ == INSTANCE TxQueueSpec WITH queue <- AbsQueue, TxEvents <- TxEvents

(* handleTransaction / handleFileUploadAndDownload implement the keyed    *)
(* queue of spec.md 4.3: each event changes only its own txHash's entry,  *)
(* removing it on success and upserting it otherwise, and a reset empties *)
(* the whole queue.                                                       *)
TxQueueRefinement == TQ!Spec

RecordOf(ns, i) == LET k == SelectInSeq(ns, LAMBDA s : WithId(i, s))
                   IN  IF k = 0 THEN Absent ELSE ns[k]

(* spec.md 8.3: while a notification carries an actionInProgress marker, *)
(* no step replaces it by another version (ADD_NOTIFICATION from a pushed *)
(* event or a SET_NOTIFICATION_AS commit); it may only lose the marker    *)
(* (REMOVE_NOTIFICATION_ACTION_IN_PROGRESS) or be removed.                *)
MarkedNotificationStable ==
  [][\A i \in NotifIds :
       LET r == RecordOf(notifications, i)
           s == RecordOf(notifications', i)
       IN  r # Absent /\ r.actionInProgress # NoAction =>
             s \in {Absent, r, [r EXCEPT !.actionInProgress = NoAction]}
    ]_notifications

(* A notification deleted by DELETE_NOTIFICATION stays out of the list    *)
(* until the authority pushes it again.                                   *)
NoResurrection == deleted \cap Ids(notifications) = {}

(* A notification carries an actionInProgress marker only while the user *)
(* action that set it is unresolved: a sign outcome for its file hash     *)
(* (handleTransaction) clears it, and nothing brings it back.             *)
MarkerOnlyWhileActing ==
  \A k \in DOMAIN notifications :
    notifications[k].actionInProgress # NoAction => notifications[k].id \in acting

=============================================================================
