------------------------- MODULE MC_NotificationView -------------------------
(* Two notifications, of two types, whose id, type, labels, file name and  *)
(* actor names share letters, so that a term can match a record directly, *)
(* through its type's label, both, or neither.                            *)
EXTENDS NotificationView, TLC

CONSTANTS x1, x2, f1, f2

MC_Type(i) == IF i = <<"a">> THEN <<"a", "b">> ELSE <<"b">>
MC_Labels(t) == IF t = <<"a", "b">> THEN {<<"b", "a">>} ELSE {<<"a", "a">>}
MC_NameOf(x) == IF x = x1 THEN <<"a">> ELSE << >>
MC_Data(i) == IF i = <<"a">> THEN [fileName |-> <<"b">>, owner |-> x2, who |-> << >>]
                             ELSE [fileName |-> << >>, owner |-> x2, who |-> <<x1>>]

MC_Pushes ==
  {[id |-> i, type |-> MC_Type(i), timestamp |-> ts, pending |-> p,
    unread |-> TRUE, dismissed |-> d, actionInProgress |-> NoAction,
    data |-> MC_Data(i)] :
     i \in {<<"a">>, <<"b">>}, ts \in {1, 2}, p \in BOOLEAN, d \in BOOLEAN}

MC_SignRequests == [fileHash : {f1, f2}, from : {x1, x2}, inProgress : BOOLEAN]

MC_Terms ==
  {<< >>, <<"a">>, <<"a", "b">>, <<"b", " ", "a">>, <<"a", " ">>,
   <<"'", "b", "'">>, <<"'">>}

====
