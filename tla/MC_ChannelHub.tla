--------------------------- MODULE MC_ChannelHub ---------------------------
(***************************************************************************)
(* Instantiation of ChannelHub for TLC.  The model values t1..t3, f1, f2,  *)
(* n1, n2 are declared here and given in the .cfg files; the functions     *)
(* that tie transactions and notifications to files are defined here and  *)
(* substituted with <- in each .cfg.                                       *)
(***************************************************************************)
EXTENDS ChannelHub, TLC

CONSTANTS t1, t2, t3, f1, f2, n1, n2

(* One transaction of each kind whose 'tx' events take a different branch *)
(* of handleTransaction: register (queue upsert only), sign (queue,       *)
(* notification and marker commits), requestSign (queue commits).          *)
MC_TxName == (t1 :> "register") @@ (t2 :> "sign") @@ (t3 :> "requestSign")
MC_TxFile == [t \in {t1, t2, t3} |-> f1]
MC_TxNotifId == [t \in {t1, t2, t3} |-> NoId]

(* Two signing requests, about different files or about the same file.    *)
MC_NotifType == [i \in {n1, n2} |-> "signing_request"]
MC_NotifHashDistinct == (n1 :> f1) @@ (n2 :> f2)
MC_NotifHashShared == [i \in {n1, n2} |-> f1]

(* Sign transactions for the notification runs: one per file.            *)
MC_SignName == [t \in {t1, t2} |-> "sign"]
MC_SignFile == (t1 :> f1) @@ (t2 :> f2)
MC_SignNotifId == [t \in {t1, t2} |-> NoId]

=============================================================================
