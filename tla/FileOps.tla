------------------------------ MODULE FileOps ------------------------------
(***************************************************************************)
(* The file-list mutations and the filteredFiles getter of                *)
(* src/ui/dapp/src/store_go/modules/file.js, and the grouping key of       *)
(* handleFileInfo (channelhub.js), as pure operators.  A file is a record  *)
(* [id, filename, removed, scOrder]; NoName stands for an undefined        *)
(* filename.  Every record handleFileInfo builds has loaded: true, so the  *)
(* loaded filter of filteredFiles keeps every record and is left out; the  *)
(* other fields of the record are carried through unchanged and left out. *)
(***************************************************************************)
EXTENDS Integers, Sequences, SequencesExt, Functions

CONSTANT NoName

(* The grpId of handleFileInfo: the four category flags and the search    *)
(* term.  Every category other than the four named ones (all-files among  *)
(* them) gives the same key.                                              *)
FileKey(activeCat, searchTerm) ==
  <<activeCat = "my-files", activeCat = "shared-with-me",
    activeCat = "signed-by-me", activeCat = "expired-files", searchTerm>>

WithFileId(id, f) == f.id = id

(* Mutant: the pushed record is appended without looking the id up.      *)
ADD_FILE_NoLookup(files, file) ==
  LET f == IF file.filename \in {NoName, ".", ""}
             THEN [file EXCEPT !.filename = file.id] ELSE file
  IN  Append(files, f)

(* An empty, '.' or undefined filename defaults to the id; a stored file  *)
(* is replaced in place, an unseen one appended.                          *)
ADD_FILE(files, file) ==
  LET f == IF file.filename \in {NoName, ".", ""}
             THEN [file EXCEPT !.filename = file.id] ELSE file
      k == SelectInSeq(files, LAMBDA g : WithFileId(file.id, g))
  IN  IF k # 0 THEN [files EXCEPT ![k] = f] ELSE Append(files, f)

REMOVE_FILE(files, file) == SelectSeq(files, LAMBDA f : f.id # file.id)

(* One insertion step of the sort of filteredFiles, whose comparator puts *)
(* a before b when a.scOrder > b.scOrder and keeps ties (0) in place.     *)
(* Array.prototype.sort is stable, so the sort is an insertion sort that  *)
(* places each file after the files whose scOrder is not smaller.         *)
RECURSIVE InsertByScOrder_Unstable(_, _)
(* Mutant: the comparator returns -1 on ties (a >= in place of >), so a   *)
(* file overtakes the files of equal scOrder before it.                   *)
InsertByScOrder_Unstable(f, s) ==
  IF s = << >> \/ Head(s).scOrder <= f.scOrder THEN <<f>> \o s
  ELSE <<Head(s)>> \o InsertByScOrder_Unstable(f, Tail(s))

RECURSIVE InsertByScOrder(_, _)
InsertByScOrder(f, s) ==
  IF s = << >> \/ Head(s).scOrder < f.scOrder THEN <<f>> \o s
  ELSE <<Head(s)>> \o InsertByScOrder(f, Tail(s))

filteredFiles(files) ==
  FoldLeft(LAMBDA acc, f : InsertByScOrder(f, acc), << >>,
           SelectSeq(files, LAMBDA f : f.removed # TRUE))

(* Reference for the sorted view (spec.md 4.2): a permutation of the      *)
(* files not removed, in descending scOrder, ties in their list order.    *)
IsStableDescendingSort(out, in) ==
  \E p \in Bijection(DOMAIN out, DOMAIN in) :
    /\ \A i \in DOMAIN out : out[i] = in[p[i]]
    /\ \A i, j \in DOMAIN out :
         i < j => \/ out[i].scOrder > out[j].scOrder
                  \/ out[i].scOrder = out[j].scOrder /\ p[i] < p[j]

====
