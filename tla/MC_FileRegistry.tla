-------------------------- MODULE MC_FileRegistry --------------------------
(***************************************************************************)
(* Instantiation of FileRegistry for TLC: two files, two categories, two  *)
(* search terms, so that four grouping keys with different result sets    *)
(* exist and a switch can land on a key whose stream is still running.    *)
(***************************************************************************)
EXTENDS FileRegistry, FileSigners, TLC

CONSTANTS i1, i2, u1, u2, u3

(* all-files lists both files, my-files only i1, a search for "x" only i2. *)
MC_ResultSet(k) ==
  LET mine == k[1]  term == k[5] IN
  (IF mine THEN {i1} ELSE {i1, i2}) \cap (IF term = "x" THEN {i2} ELSE {i1, i2})

(* Records the authority may send: removed or not, scOrder 1 or 2 (so     *)
(* that ties occur); i1 comes with an empty filename, i2 with a real one. *)
MC_Versions(id) ==
  [id : {id}, filename : {IF id = i1 THEN "" ELSE "a"}, removed : BOOLEAN,
   scOrder : {1, 2}]

(* A single record per file, for the runs about the streams.              *)
MC_OneVersion(id) ==
  {[id |-> id, filename |-> "a", removed |-> FALSE, scOrder |-> 1]}

====
