-------------------------- MODULE NotificationOps --------------------------
(***************************************************************************)
(* The notification mutations of src/ui/dapp/src/store_go/modules/        *)
(* notification.js as pure operators over the list of notifications.  A    *)
(* notification is a record with its id, type, the file hash of its data   *)
(* (data.hash), the unread and dismissed flags, and the local              *)
(* actionInProgress marker (NoAction standing for undefined).              *)
(***************************************************************************)
EXTENDS Integers, Sequences, SequencesExt

CONSTANT NoAction

WithId(id, s) == s.id = id

(* Mutant: a pushed notification is appended without looking it up.      *)
ADD_NOTIFICATION_NoLookup(ns, n) ==
  IF ~n.dismissed THEN Append(ns, n) ELSE ns

(* Mutant: a stored notification is replaced whatever its marker.         *)
ADD_NOTIFICATION_IgnoresMarker(ns, n) ==
  LET index == SelectInSeq(ns, LAMBDA s : WithId(n.id, s)) IN
  CASE index = 0 /\ ~n.dismissed -> Append(ns, n)
    [] index = 0                 -> ns
    [] OTHER                     -> [ns EXCEPT ![index] = n]

(* Insert an unseen, undismissed notification; replace a stored one only  *)
(* while it carries no actionInProgress marker.  An unseen dismissed one  *)
(* falls to the else branch, where n is undefined: reading               *)
(* n.actionInProgress throws a TypeError and the commit changes nothing.  *)
ADD_NOTIFICATION(ns, n) ==
  LET index == SelectInSeq(ns, LAMBDA s : WithId(n.id, s)) IN
  CASE index = 0 /\ ~n.dismissed                -> Append(ns, n)
    [] index = 0                                -> ns
    [] ns[index].actionInProgress = NoAction    -> [ns EXCEPT ![index] = n]
    [] OTHER                                    -> ns

REMOVE_NOTIFICATION(ns, n) == SelectSeq(ns, LAMBDA s : s.id # n.id)

(* Set the marker on the first notification with the given id.            *)
ADD_NOTIFICATION_ACTION_IN_PROGRESS(ns, id, action) ==
  LET i == SelectInSeq(ns, LAMBDA s : WithId(id, s)) IN
  IF i # 0 THEN [ns EXCEPT ![i].actionInProgress = action] ELSE ns

(* Clear the marker of the first notification (res[0]) whose data.hash    *)
(* and type match; later matches keep theirs.                             *)
REMOVE_NOTIFICATION_ACTION_IN_PROGRESS(ns, fileHash, type) ==
  LET i == SelectInSeq(ns, LAMBDA s : s.hash = fileHash /\ s.type = type) IN
  IF i # 0 THEN [ns EXCEPT ![i].actionInProgress = NoAction] ELSE ns

=============================================================================
