-------------------------- MODULE NotificationView --------------------------
(***************************************************************************)
(* The derived notification views of                                      *)
(* src/ui/dapp/src/store_go/modules/notification.js (sortNotifications,    *)
(* filterNotificationByOpts, termMatchedInNotification and the           *)
(* translation-key pass) over the notifications pushed by the authority,  *)
(* under the user's search term, showPending switch and mark-all-read.    *)
(*                                                                         *)
(* A text (id, type, file name, display name, search term) is a sequence   *)
(* of lower-case characters, so containsIgnoreCase is substring           *)
(* containment; a search term may also hold spaces and quotes.  The       *)
(* display names nameByAddress resolves are a constant NameOf.  A        *)
(* timestamp is the local calendar day of its seconds, and the clock      *)
(* (moment()) is the day now, which advances while the client runs.      *)
(***************************************************************************)
EXTENDS Integers, Sequences, SequencesExt, NotificationOps

CONSTANTS
  Pushes,        \* notification records the authority may push
  SignRequests,  \* 'add_signing_request' payloads the authority may push
  Terms,         \* search terms the user may type
  Labels(_),     \* Labels(type): translated name and description of the type
  NameOf(_),     \* nameByAddress
  MaxPushes,     \* bound on 'notification' events
  MaxMarkAll,    \* bound on markAllAsRead PUTs in flight at once
  PageEnd,       \* the default page size 'end' of the bucket getters
  MaxDay         \* the last day the clock reaches

VARIABLES
  notifications,  \* state.notification.notifications
  searchTerm,     \* state.notification.searchTerm
  showPending,    \* state.notification.showPending
  signingRequests,  \* state.notification.signingRequests
  pushes,         \* events delivered
  markAllInFlight,  \* SET_ALL_NOTIFICATIONS_AS PUTs awaiting their answer
  now             \* the local day of moment()

vars == <<notifications, searchTerm, showPending, signingRequests, pushes,
          markAllInFlight, now>>

(* containsIgnoreCase for defined arguments: t2 occurs in t1.             *)
containsIgnoreCase(t1, t2) ==
  \E i \in 0..(Len(t1) - Len(t2)) : SubSeq(t1, i + 1, i + Len(t2)) = t2

(* The loop over n.data: 'who' names, the 'owner' name, other fields as   *)
(* they are.                                                              *)
DataMatch(term, n) ==
  \/ \E k \in DOMAIN n.data.who : containsIgnoreCase(NameOf(n.data.who[k]), term)
  \/ containsIgnoreCase(NameOf(n.data.owner), term)
  \/ containsIgnoreCase(n.data.fileName, term)

(* The data is searched unless BOTH the id and the type contain the term, *)
(* in which case the notification matches outright.                        *)
termMatchedInNotification(term, n) ==
  IF ~containsIgnoreCase(n.id, term) \/ ~containsIgnoreCase(n.type, term)
    THEN DataMatch(term, n)
    ELSE TRUE

(* String.prototype.split(' '): the fields between spaces, empty ones     *)
(* included.                                                              *)
RECURSIVE SplitSpace(_)
SplitSpace(s) ==
  LET k == SelectInSeq(s, LAMBDA c : c = " ") IN
  IF k = 0 THEN <<s>>
  ELSE <<SubSeq(s, 1, k - 1)>> \o SplitSpace(SubSeq(s, k + 1, Len(s)))

Quoted(term) ==
  /\ term # << >>
  /\ \E q \in {"\"", "'"} : Head(term) = q /\ Last(term) = q

(* A quoted term is matched without its quotes (slice(1, length - 1));    *)
(* otherwise any of its space-separated words.                            *)
SearchMatch(term, n) ==
  IF Quoted(term)
    THEN termMatchedInNotification(SubSeq(term, 2, Len(term) - 1), n)
    ELSE \E k \in DOMAIN SplitSpace(term) : termMatchedInNotification(SplitSpace(term)[k], n)

(* getTranslationKeysMatchingSearchTerm: the regex of a term of letters,  *)
(* spaces and quotes matches the label texts that contain it.             *)
LabelMatch(term, type) == \E l \in Labels(type) : containsIgnoreCase(l, term)

(* sortNotifications: a stable sort, larger timestamps first (comparator *)
(* -1 when a.timestamp > b.timestamp, 0 on ties).                          *)
RECURSIVE InsertByTimestamp(_, _)
InsertByTimestamp(n, s) ==
  IF s = << >> \/ Head(s).timestamp < n.timestamp THEN <<n>> \o s
  ELSE <<Head(s)>> \o InsertByTimestamp(n, Tail(s))

sortNotifications(ns) ==
  FoldLeft(LAMBDA acc, n : InsertByTimestamp(n, acc), << >>, ns)

(* Mutant: the two passes are concatenated without removing duplicates.  *)
unionBy_Concat(a, b) == b \o a

(* lodash/fp rearranges unionBy(a, b, 'id') to _.unionBy(b, 'id', a): the *)
(* entries of b, then those of a not already taken (by identity, which    *)
(* for the records of one store is by id).                                *)
unionBy(a, b) == b \o SelectSeq(a, LAMBDA n : \A k \in DOMAIN b : b[k].id # n.id)

(* filterNotificationByOpts: the searchTerm is always a string, so the    *)
(* result is always the union of the two passes.                          *)
filterNotificationByOpts(ns, pendingOnly, term) ==
  LET n == IF pendingOnly THEN SelectSeq(sortNotifications(ns), LAMBDA s : s.pending)
                          ELSE sortNotifications(ns)
  IN  unionBy(SelectSeq(n, LAMBDA s : SearchMatch(term, s)),
              SelectSeq(n, LAMBDA s : LabelMatch(term, s.type)))

(* SET_NOTIFICATIONS_MARK_ALL_READ: unread is a boolean, never 0, so      *)
(* every notification is marked read.                                     *)
SET_NOTIFICATIONS_MARK_ALL_READ(ns) == [k \in DOMAIN ns |-> [ns[k] EXCEPT !.unread = FALSE]]

(* Mutant: the request is pushed without looking its file hash up.       *)
ADD_SIGNING_REQUEST_NoLookup(srs, r) == Append(srs, [r EXCEPT !.inProgress = FALSE])

(* ADD_SIGNING_REQUEST: the incoming request gets inProgress false; it is *)
(* pushed when no request for its file hash is stored, and replaces the   *)
(* stored one only while that one is not in progress.                     *)
ADD_SIGNING_REQUEST(srs, r) ==
  LET rs == [r EXCEPT !.inProgress = FALSE]
      index == SelectInSeq(srs, LAMBDA s : s.fileHash = r.fileHash)
  IN  CASE index = 0                       -> Append(srs, rs)
        [] srs[index].inProgress = FALSE   -> [srs EXCEPT ![index] = rs]
        [] OTHER                           -> srs


(* moment.unix(ts).isSame(moment(), 'd'), and the two comparisons with   *)
(* the day before: same day, or strictly before it.                       *)
isNotificationToday(ts, day) == ts = day
isNotificationYesterday(ts, day) == ts = day - 1

(* Mutant: older is compared with today, not with yesterday.              *)
isNotificationOlder_BeforeToday(ts, day) == ts < day

isNotificationOlder(ts, day) == ts < day - 1

(* The bucket getters: the filtered view's entries of the bucket, in view *)
(* order, the first 'end' of them.                                        *)
Page(l, end) == SubSeq(l, 1, IF Len(l) < end THEN Len(l) ELSE end)

notificationsToday(v, day, end) ==
  Page(SelectSeq(v, LAMBDA s : isNotificationToday(s.timestamp, day)), end)
notificationsYesterday(v, day, end) ==
  Page(SelectSeq(v, LAMBDA s : isNotificationYesterday(s.timestamp, day)), end)
olderNotifications(v, day, end) ==
  Page(SelectSeq(v, LAMBDA s : isNotificationOlder(s.timestamp, day)), end)

-----------------------------------------------------------------------------
Init ==
  /\ notifications = << >>
  /\ searchTerm = << >>
  /\ showPending = FALSE
  /\ signingRequests = << >>
  /\ pushes = 0
  /\ markAllInFlight = 0
  /\ now \in 1..MaxDay

(* A 'notification' or 'workflow_request' event: ADD_NOTIFICATION.        *)
handleNotification(n) ==
  /\ pushes < MaxPushes
  /\ pushes' = pushes + 1
  /\ notifications' = ADD_NOTIFICATION(notifications, n)
  /\ UNCHANGED <<searchTerm, showPending, signingRequests, markAllInFlight, now>>

(* An 'add_signing_request' event: ADD_SIGNING_REQUEST.                   *)
handleAddSigningRequest(r) ==
  /\ pushes < MaxPushes
  /\ pushes' = pushes + 1
  /\ signingRequests' = ADD_SIGNING_REQUEST(signingRequests, r)
  /\ UNCHANGED <<notifications, searchTerm, showPending, markAllInFlight, now>>

(* A 'remove_signing_request' event commits REMOVE_NOTIFICATION with its  *)
(* payload: the notification of that id goes, signingRequests stay.       *)
handleRemoveSigningRequest(r) ==
  /\ pushes < MaxPushes
  /\ pushes' = pushes + 1
  /\ notifications' = REMOVE_NOTIFICATION(notifications, r)
  /\ UNCHANGED <<searchTerm, showPending, signingRequests, markAllInFlight, now>>

SET_NOTIFICATION_SEARCH_TERM(term) ==
  /\ searchTerm' = term
  /\ UNCHANGED <<notifications, showPending, signingRequests, pushes, markAllInFlight, now>>

SET_SHOW_PENDING(b) ==
  /\ showPending' = b
  /\ UNCHANGED <<notifications, searchTerm, signingRequests, pushes, markAllInFlight, now>>

(* SET_ALL_NOTIFICATIONS_AS up to its await: with unread false, the PUT   *)
(* of markAllAsRead (with unread true it does nothing).                    *)
SetAllNotificationsAsRequest ==
  /\ markAllInFlight < MaxMarkAll
  /\ markAllInFlight' = markAllInFlight + 1
  /\ UNCHANGED <<notifications, searchTerm, showPending, signingRequests, pushes, now>>

(* SET_ALL_NOTIFICATIONS_AS after its await: a 200 answer commits         *)
(* SET_NOTIFICATIONS_MARK_ALL_READ on the list as it is now, with the     *)
(* notifications pushed while the PUT was pending; any other status       *)
(* commits nothing, an error dispatches UNKNOWN_ERROR (a toast).          *)
SetAllNotificationsAsResponse(ok) ==
  /\ markAllInFlight > 0
  /\ markAllInFlight' = markAllInFlight - 1
  /\ notifications' = IF ok THEN SET_NOTIFICATIONS_MARK_ALL_READ(notifications)
                            ELSE notifications
  /\ UNCHANGED <<searchTerm, showPending, signingRequests, pushes, now>>

(* The local day turns over while the client runs; no state changes.     *)
DayPasses ==
  /\ now < MaxDay
  /\ now' = now + 1
  /\ UNCHANGED <<notifications, searchTerm, showPending, signingRequests, pushes,
                 markAllInFlight>>

Next ==
  \/ \E n \in Pushes : handleNotification(n)
  \/ \E r \in SignRequests : handleAddSigningRequest(r)
  \/ \E n \in Pushes : handleRemoveSigningRequest(n)
  \/ \E t \in Terms : SET_NOTIFICATION_SEARCH_TERM(t)
  \/ \E b \in BOOLEAN : SET_SHOW_PENDING(b)
  \/ SetAllNotificationsAsRequest
  \/ \E ok \in BOOLEAN : SetAllNotificationsAsResponse(ok)
  \/ DayPasses

Spec == Init /\ [][Next]_vars

-----------------------------------------------------------------------------
(* spec.md 8.6: the filtered view lists every notification (of the        *)
(* pending filter) that the search matches directly or through its type's *)
(* label exactly once, whatever notifications, term and switch the user   *)
(* and the authority produced.                                            *)
SearchUnionOnce ==
  LET v == filterNotificationByOpts(notifications, showPending, searchTerm)
      cand == {notifications[k] : k \in DOMAIN notifications}
  IN  /\ \A j, k \in DOMAIN v : j # k => v[j].id # v[k].id
      /\ {v[k].id : k \in DOMAIN v} =
           {n.id : n \in {c \in cand : (showPending => c.pending) /\
                           (SearchMatch(searchTerm, c) \/ LabelMatch(searchTerm, c.type))}}

(* spec.md 4.4: signing requests are keyed by file hash: the list holds   *)
(* one request per file however often the authority repeats or updates    *)
(* add_signing_request events.                                            *)
UniqueSigningRequests ==
  \A j, k \in DOMAIN signingRequests :
    j # k => signingRequests[j].fileHash # signingRequests[k].fileHash

(* spec.md 4.4: the notification list shows today, yesterday and older   *)
(* buckets of the filtered view, compared with the current local day: as *)
(* the day turns over under notifications pushed and marked, every entry *)
(* of the view that is not dated in the future is shown in exactly one    *)
(* bucket, unless that bucket's page is already full.                     *)
BucketsPartition ==
  LET v  == filterNotificationByOpts(notifications, showPending, searchTerm)
      bs == <<notificationsToday(v, now, PageEnd),
              notificationsYesterday(v, now, PageEnd),
              olderNotifications(v, now, PageEnd)>>
      ShownIn(n) == {i \in 1..3 : \E k \in DOMAIN bs[i] : bs[i][k].id = n.id}
  IN  \A k \in DOMAIN v :
        v[k].timestamp <= now =>
          \/ Cardinality(ShownIn(v[k])) = 1
          \/ ShownIn(v[k]) = {} /\ \E i \in 1..3 : Len(bs[i]) = PageEnd

====
