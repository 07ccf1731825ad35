---------------------------- MODULE FileRegistry ----------------------------
(***************************************************************************)
(* The query context and the file list of                                 *)
(* src/ui/dapp/src/store_go/modules/file.js, fed by the 'fileInfo' handler *)
(* of channelhub.js.  LOAD_FILES clears the list and asks the authority    *)
(* for the files of the current context; the answer carries no files:     *)
(* the authority streams one 'fileInfo' event per file of the result set,  *)
(* tagged with the grouping key of the request, and handleFileInfo keeps   *)
(* only the events whose key is the key of the current context.           *)
(*                                                                         *)
(* LOAD_FILES is split at its await: LoadFilesRequest runs the commits     *)
(* before it, LoadFilesResponse the commits after it.  Requests are        *)
(* numbered 1..MaxLoads in the order they are issued.                     *)
(***************************************************************************)
EXTENDS Integers, Sequences, SequencesExt, FiniteSets, FileOps

CONSTANTS
  Categories,     \* values of activeCategory the views set
  Terms,          \* values of searchTerm the views set
  FileIds,        \* file ids (hashes)
  Versions(_),    \* Versions(id): the records the authority may send for id
  ResultSet(_),   \* ResultSet(key): ids of the files the authority lists
  MaxLoads,       \* bound on LOAD_FILES calls in a behaviour
  MaxResets,      \* bound on RESET_FILE_STATE commits in a behaviour
  ReloadOnSwitch  \* the views dispatch LOAD_FILES in the same tick as
                  \* every SET_ACTIVE_CATEGORY / SET_SEARCH_TERM

ASSUME "all-files" \in Categories /\ "" \in Terms
ASSUME MaxLoads \in Nat /\ MaxResets \in Nat /\ ReloadOnSwitch \in BOOLEAN

Loads == 1..MaxLoads

VARIABLES
  activeCategory,     \* state.file.activeCategory
  searchTerm,         \* state.file.searchTerm
  files,              \* state.file.files
  filesLoading,       \* state.file.filesLoading
  filesLoadingError,  \* state.file.filesLoadingError
  issued,             \* LOAD_FILES calls so far
  requestKey,         \* requestKey[r]: grouping key of request r
  toStream,           \* toStream[r]: ids the authority has still to push for r
  awaiting,           \* requests whose GET /api/file/list is unanswered
  outcome,            \* history: outcome[r] \in {"none", "ok", "fail"}
  userRemoved,        \* history: ids REMOVE_FILE took out since the last load
  resets,             \* RESET_FILE_STATE commits so far
  sessionStart        \* history: LOAD_FILES calls issued before the last reset

vars == <<activeCategory, searchTerm, files, filesLoading, filesLoadingError,
          issued, requestKey, toStream, awaiting, outcome, userRemoved,
          resets, sessionStart>>

Keys == {FileKey(c, t) : c \in Categories, t \in Terms}
CurrentKey == FileKey(activeCategory, searchTerm)
FileIdsOf(fs) == {fs[k].id : k \in DOMAIN fs}

(* getDefaultState: the fields of the file store this module keeps.      *)
Init ==
  /\ activeCategory = "all-files"
  /\ searchTerm = ""
  /\ files = << >>
  /\ filesLoading = FALSE
  /\ filesLoadingError = FALSE
  /\ issued = 0
  /\ requestKey = [r \in Loads |-> FileKey("all-files", "")]
  /\ toStream = [r \in Loads |-> {}]
  /\ awaiting = {}
  /\ outcome = [r \in Loads |-> "none"]
  /\ userRemoved = {}
  /\ resets = 0
  /\ sessionStart = 0

-----------------------------------------------------------------------------
(* LOAD_FILES up to its await, run in the context (cat, term):            *)
(* SET_FILES_LOADING true, SET_FILES_LOADING_ERROR false, CLEAN_FILE_LIST *)
(* and the GET with the context's filter and category flags, on which the *)
(* authority starts streaming the result set of the context's key.        *)
StartLoad(cat, term) ==
  LET r == issued + 1 IN
  /\ issued < MaxLoads
  /\ issued' = r
  /\ filesLoading' = TRUE
  /\ filesLoadingError' = FALSE
  /\ files' = << >>
  /\ requestKey' = [requestKey EXCEPT ![r] = FileKey(cat, term)]
  /\ toStream' = [toStream EXCEPT ![r] = ResultSet(FileKey(cat, term))]
  /\ awaiting' = awaiting \cup {r}
  /\ userRemoved' = {}

LoadFilesRequest ==
  /\ StartLoad(activeCategory, searchTerm)
  /\ UNCHANGED <<activeCategory, searchTerm, outcome, resets, sessionStart>>

(* Mutant: CLEAN_FILE_LIST moved after the await, where it wipes the     *)
(* files streamed in while the GET was pending.                           *)
LoadFilesResponse_CleansList(r, ok) ==
  /\ r \in awaiting
  /\ awaiting' = awaiting \ {r}
  /\ filesLoadingError' = IF ok THEN filesLoadingError ELSE TRUE
  /\ filesLoading' = FALSE
  /\ outcome' = [outcome EXCEPT ![r] = IF ok THEN "ok" ELSE "fail"]
  /\ files' = << >>
  /\ UNCHANGED <<activeCategory, searchTerm, issued, requestKey, toStream,
                 userRemoved, resets, sessionStart>>

(* LOAD_FILES after its await: a non-200 answer or a thrown request sets  *)
(* filesLoadingError; either way filesLoading is set false.               *)
LoadFilesResponse(r, ok) ==
  /\ r \in awaiting
  /\ awaiting' = awaiting \ {r}
  /\ filesLoadingError' = IF ok THEN filesLoadingError ELSE TRUE
  /\ filesLoading' = FALSE
  /\ outcome' = [outcome EXCEPT ![r] = IF ok THEN "ok" ELSE "fail"]
  /\ UNCHANGED <<activeCategory, searchTerm, files, issued, requestKey,
                 toStream, userRemoved, resets, sessionStart>>

(* SET_ACTIVE_CATEGORY / SET_SEARCH_TERM, followed in the same tick by    *)
(* LOAD_FILES when the views reload on every switch.                      *)
SwitchContext(cat, term) ==
  /\ activeCategory' = cat
  /\ searchTerm' = term
  /\ IF ReloadOnSwitch
       THEN StartLoad(cat, term) /\ UNCHANGED outcome
       ELSE UNCHANGED <<files, filesLoading, filesLoadingError, issued,
                        requestKey, toStream, awaiting, outcome, userRemoved>>
  /\ UNCHANGED <<resets, sessionStart>>

SET_ACTIVE_CATEGORY(c) ==
  /\ c # activeCategory
  /\ SwitchContext(c, searchTerm)

SET_SEARCH_TERM(t) ==
  /\ t # searchTerm
  /\ SwitchContext(activeCategory, t)

(* Mutant: the grouping-key check of handleFileInfo is dropped.          *)
handleFileInfo_NoKeyCheck(r, id, v) ==
  /\ id \in toStream[r]
  /\ toStream' = [toStream EXCEPT ![r] = @ \ {id}]
  /\ files' = ADD_FILE(files, v)
  /\ UNCHANGED <<activeCategory, searchTerm, filesLoading, filesLoadingError,
                 issued, requestKey, awaiting, outcome, userRemoved, resets,
                 sessionStart>>

(* A 'fileInfo' event of request r: the authority pushes one file of the  *)
(* result set; handleFileInfo drops it unless the grouping key of the     *)
(* request is the key of the current context, and commits ADD_FILE.       *)
handleFileInfo(r, id, v) ==
  /\ id \in toStream[r]
  /\ toStream' = [toStream EXCEPT ![r] = @ \ {id}]
  /\ files' = IF requestKey[r] = CurrentKey THEN ADD_FILE(files, v) ELSE files
  /\ UNCHANGED <<activeCategory, searchTerm, filesLoading, filesLoadingError,
                 issued, requestKey, awaiting, outcome, userRemoved, resets,
                 sessionStart>>

(* The view commits REMOVE_FILE for a listed file (after its removal).    *)
RemoveFile(id) ==
  /\ id \in FileIdsOf(files)
  /\ files' = REMOVE_FILE(files, [id |-> id])
  /\ userRemoved' = userRemoved \cup {id}
  /\ UNCHANGED <<activeCategory, searchTerm, filesLoading, filesLoadingError,
                 issued, requestKey, toStream, awaiting, outcome, resets, sessionStart>>

(* RESET_FILE_STATE, committed by RESET_MODULE_STATE in the nextTick of a  *)
(* wallet lock or session timeout: the file store goes back to            *)
(* getDefaultState.  The GETs in flight and the streams the authority has *)
(* started are not cancelled; their answers and events still arrive.     *)
ResetFileState ==
  /\ resets < MaxResets
  /\ resets' = resets + 1
  /\ sessionStart' = issued
  /\ activeCategory' = "all-files"
  /\ searchTerm' = ""
  /\ files' = << >>
  /\ filesLoading' = FALSE
  /\ filesLoadingError' = FALSE
  /\ userRemoved' = {}
  /\ UNCHANGED <<issued, requestKey, toStream, awaiting, outcome>>

Next ==
  \/ LoadFilesRequest
  \/ \E r \in awaiting, ok \in BOOLEAN : LoadFilesResponse(r, ok)
  \/ \E c \in Categories : SET_ACTIVE_CATEGORY(c)
  \/ \E t \in Terms : SET_SEARCH_TERM(t)
  \/ \E r \in Loads, id \in FileIds : \E v \in Versions(id) : handleFileInfo(r, id, v)
  \/ \E id \in FileIds : RemoveFile(id)
  \/ ResetFileState

(* The authority answers every GET and streams every file of every        *)
(* result set; the event loop runs every callback.  The user's switches,  *)
(* reloads and removals are not obliged to happen.                        *)
Fairness ==
  /\ \A r \in Loads : WF_vars(\E ok \in BOOLEAN : LoadFilesResponse(r, ok))
  /\ \A r \in Loads, id \in FileIds :
       WF_vars(\E v \in Versions(id) : handleFileInfo(r, id, v))

Spec == Init /\ [][Next]_vars /\ Fairness

-----------------------------------------------------------------------------
(***************************************************************************)
(* Properties                                                              *)
(***************************************************************************)
FileRecords == UNION {Versions(id) : id \in FileIds}

TypeOK ==
  /\ activeCategory \in Categories /\ searchTerm \in Terms
  /\ files \in Seq([id : FileIds, filename : {f.filename : f \in FileRecords} \cup FileIds,
                    removed : BOOLEAN, scOrder : {f.scOrder : f \in FileRecords}])
  /\ filesLoading \in BOOLEAN /\ filesLoadingError \in BOOLEAN
  /\ issued \in 0..MaxLoads /\ requestKey \in [Loads -> Keys]
  /\ toStream \in [Loads -> SUBSET FileIds] /\ awaiting \subseteq 1..issued
  /\ outcome \in [Loads -> {"none", "ok", "fail"}] /\ userRemoved \subseteq FileIds
  /\ resets \in 0..MaxResets /\ sessionStart \in 0..issued

(* spec.md 4.2 / 8.2: once LOAD_FILES has cleared the list for the current *)
(* context, the list holds only files of that context's result set, however *)
(* the streams of earlier requests interleave with the user's switches:    *)
(* handleFileInfo's grouping-key check must drop every stale event.        *)
NoForeignFiles ==
  issued > 0 /\ requestKey[issued] = CurrentKey =>
    FileIdsOf(files) \subseteq ResultSet(CurrentKey)

(* spec.md 4.2 / 8.1 / 8.8: fileInfo events upsert by id, so the list    *)
(* holds each file once, although two loads of one context stream the     *)
(* same files, a stale stream of the default context keeps arriving after *)
(* a reset, and the authority resends a file with a new version.          *)
UniqueFileIds ==
  \A j, k \in DOMAIN files : files[j].id = files[k].id => j = k

(* spec.md 4.2: the filteredFiles getter is the files not removed, in      *)
(* descending scOrder, ties kept in list order, for every reachable list. *)
FilteredFilesSorted ==
  IsStableDescendingSort(filteredFiles(files),
                         SelectSeq(files, LAMBDA f : f.removed # TRUE))

(* Once the user stops switching, LOAD_FILES settles: filesLoading ends   *)
(* false and, if the last load was issued in the current session and for  *)
(* the current context, every file of its result set the user did not     *)
(* remove is listed, however the answer of the GET, the streams of all    *)
(* requests and a reset of the file store in between interleave.          *)
FilesConverge ==
  <>[](/\ ~filesLoading
       /\ issued > sessionStart /\ requestKey[issued] = CurrentKey =>
            ResultSet(CurrentKey) \ userRemoved \subseteq FileIdsOf(files))

(* filesLoadingError reports the last LOAD_FILES: when no GET is pending, *)
(* it is set exactly when the latest request failed.                       *)
ErrorReflectsLatestLoad ==
  awaiting = {} /\ issued > 0 =>
    (filesLoadingError <=> outcome[issued] = "fail")

====
