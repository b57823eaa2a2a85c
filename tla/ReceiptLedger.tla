---------------------------- MODULE ReceiptLedger ---------------------------
(***************************************************************************)
(* The receipts of an account: a photo is stored, read by the model and    *)
(* entered as a row; rows are edited, deleted and exported.                *)
(*                                                                         *)
(* POST /receipts/extract is an object write, a call of the model and an   *)
(* INSERT, which is tried again without the folder when the folder's key   *)
(* is refused.  PUT /receipts/{id} reads the row, merges the request into  *)
(* it and writes every column back.  No transaction holds these together.  *)
(*                                                                         *)
(* The app sends a photo again when it hears an error or nothing: the      *)
(* server closes the connection after 15 seconds, the model may take 45.   *)
(*                                                                         *)
(* Columns stands for the five columns a request may edit, a row's id also *)
(* for the unique key of its image.  Folders are never removed from their  *)
(* table (SyncStore), so here they only arrive.                            *)
(***************************************************************************)
EXTENDS Naturals, FiniteSets, Tables

CONSTANTS
  Users,
  Photos,
  ReceiptIds,   \* bound: one is drawn for every extraction
  FolderIds,
  Columns, Values,
  Requests,
  DefaultLimit, MaxLimit, ExportLimit,  \* of rows in a list: 100, 1000, 10000
  NULL

ASSUME LedgerAssumption ==
  /\ NULL \notin FolderIds \cup ReceiptIds
  /\ "folder" \notin Columns
  /\ {DefaultLimit, MaxLimit, ExportLimit} \subseteq Nat \ {0}

VARIABLES
  receipts,  \* the table
  folders,   \* ids with a row in folders
  objects,   \* keys in the bucket
  issued,    \* ids drawn so far
  req,       \* the requests in flight
  client,    \* per photo: what the app knows of it
  gone,      \* history: ids deleted
  broken,    \* history: ids whose INSERT failed for another reason than the folder
  copies,    \* history, per photo: rows ever entered for it
  unheard    \* history, per photo: those entered without the app hearing so

history == <<gone, broken, copies, unheard>>

vars == <<receipts, folders, objects, issued, req, client, history>>

-----------------------------------------------------------------------------
Cols == [Columns -> Values]

Row == [owner : Users, folder : FolderIds \cup {NULL},
        image : ReceiptIds \cup {NULL}, cols : Cols]

Idle == [pc |-> "idle"]

\* heard: the app still waits for this request's answer.
ExtractionAt(stages, cols) ==
  [pc : stages, user : Users, photo : Photos, id : ReceiptIds, heard : BOOLEAN,
   folder : FolderIds \cup {NULL}, image : ReceiptIds \cup {NULL}, cols : cols]

Extraction ==
  ExtractionAt({"model"}, {EmptyTable}) \cup ExtractionAt({"insert", "insertAgain"}, Cols)

\* patched: what the request names.  raced: history, what others wrote since.
Edit == [pc : {"write"}, user : Users, id : ReceiptIds, cols : Cols,
         folder : FolderIds \cup {NULL},
         patched : SUBSET (Columns \cup {"folder"}),
         raced : SUBSET (Columns \cup {"folder"})]

TypeOK ==
  /\ receipts \in Table(ReceiptIds, Row)
  /\ folders \subseteq FolderIds
  /\ objects \subseteq issued /\ issued \subseteq ReceiptIds
  /\ req \in [Requests -> {Idle} \cup Extraction \cup Edit]
  /\ client \in [Photos -> {"unsent", "waiting", "entered"}]
  /\ gone \subseteq issued /\ broken \subseteq issued
  /\ copies \in [Photos -> Nat] /\ unheard \in [Photos -> Nat]

Init ==
  /\ receipts = EmptyTable
  /\ folders = {} /\ objects = {} /\ issued = {} /\ gone = {} /\ broken = {}
  /\ req = [p \in Requests |-> Idle]
  /\ client = [photo \in Photos |-> "unsent"]
  /\ copies = [photo \in Photos |-> 0]
  /\ unheard = [photo \in Photos |-> 0]

End(p) == req' = [req EXCEPT ![p] = Idle]

-----------------------------------------------------------------------------
\* The answer of p, done or an error, reaches the app if it still waits.
AnswerExtract(p, done) ==
  client' = IF ~req[p].heard THEN client
            ELSE [client EXCEPT ![req[p].photo] = IF done THEN "entered" ELSE "unsent"]

\* Mutant: the key is kept although Upload has failed.
ImageKeyAlways(id, stored, err) == id

\* imageURL stays empty when Upload returns an error.
ImageKey(id, stored, err) == IF err THEN NULL ELSE id

\* Upload is done, failed, or done with its reply lost.  Any error is ignored.
Extract(p, user, photo, folder, stored, err) ==
  \E id \in ReceiptIds \ issued :
    /\ req[p].pc = "idle"
    /\ client[photo] = "unsent"
    /\ stored \/ err
    /\ client' = [client EXCEPT ![photo] = "waiting"]
    /\ issued' = issued \cup {id}
    /\ objects' = IF stored THEN objects \cup {id} ELSE objects
    /\ req' = [req EXCEPT ![p] =
         [pc |-> "model", user |-> user, photo |-> photo, id |-> id, heard |-> TRUE,
          folder |-> folder, image |-> ImageKey(id, stored, err), cols |-> EmptyTable]]
    /\ UNCHANGED <<receipts, folders, history>>

\* ExtractReceiptData returns what the model read off the photo.
ModelAnswers(p) ==
  /\ req[p].pc = "model"
  /\ \E cols \in Cols : req' = [req EXCEPT ![p].pc = "insert", ![p].cols = cols]
  /\ UNCHANGED <<receipts, folders, objects, issued, client, history>>

\* ExtractReceiptData returns an error: 500.
ModelFails(p) ==
  /\ req[p].pc = "model"
  /\ AnswerExtract(p, FALSE)
  /\ End(p)
  /\ UNCHANGED <<receipts, folders, objects, issued, history>>

\* The INSERT fails for another reason than the folder, a date or a price the
\* columns do not take or a lost connection, or is never sent: 500.
InsertFails(p) ==
  /\ req[p].pc \in {"insert", "insertAgain"}
  /\ broken' = broken \cup {req[p].id}
  /\ AnswerExtract(p, FALSE)
  /\ End(p)
  /\ UNCHANGED <<receipts, folders, objects, issued, gone, copies, unheard>>

\* The row to enter.
Extracted(p, folder) ==
  [owner |-> req[p].user, folder |-> folder, image |-> req[p].image, cols |-> req[p].cols]

\* The row is committed and the request over; done is what is answered.
Enter(p, folder, done) ==
  LET photo == req[p].photo
  IN  /\ receipts' = Put(receipts, req[p].id, Extracted(p, folder))
      /\ copies' = [copies EXCEPT ![photo] = @ + 1]
      /\ unheard' = IF done /\ req[p].heard THEN unheard
                    ELSE [unheard EXCEPT ![photo] = @ + 1]
      /\ AnswerExtract(p, done)
      /\ End(p)
      /\ UNCHANGED <<folders, objects, issued, gone, broken>>

FolderKnown(folder) == folder \in folders \cup {NULL}

\* receipt_orders.folder_id REFERENCES folders(id).
Insert(p) ==
  /\ req[p].pc = "insert"
  /\ \/ FolderKnown(req[p].folder) /\ Enter(p, req[p].folder, TRUE)
     \/ /\ ~FolderKnown(req[p].folder)
        /\ req' = [req EXCEPT ![p].pc = "insertAgain"]
        /\ UNCHANGED <<receipts, folders, objects, issued, client, history>>

\* Mutants: the first error is returned; the folder is sent again.
InsertAgainReportsFirst(p) ==
  /\ req[p].pc = "insertAgain"
  /\ receipts' = Put(receipts, req[p].id, Extracted(p, NULL))
  /\ copies' = [copies EXCEPT ![req[p].photo] = @ + 1]
  /\ AnswerExtract(p, FALSE)
  /\ End(p)
  /\ UNCHANGED <<folders, objects, issued, gone, broken, unheard>>
InsertAgainWithFolder(p) ==
  /\ req[p].pc = "insertAgain"
  /\ \/ FolderKnown(req[p].folder) /\ Enter(p, req[p].folder, TRUE)
     \/ /\ ~FolderKnown(req[p].folder)
        /\ AnswerExtract(p, FALSE)
        /\ End(p)
        /\ UNCHANGED <<receipts, folders, objects, issued, history>>

InsertAgain(p) ==
  /\ req[p].pc = "insertAgain"
  /\ Enter(p, NULL, TRUE)

\* An INSERT is committed, the connection is lost, and the answer is 500.
InsertReplyLost(p) ==
  \/ /\ req[p].pc = "insert" /\ FolderKnown(req[p].folder)
     /\ Enter(p, req[p].folder, FALSE)
  \/ /\ req[p].pc = "insertAgain"
     /\ Enter(p, NULL, FALSE)

\* The write timeout, or the app's own: the request goes on, nobody hears.
GiveUp(p) ==
  /\ req[p].pc \in {"model", "insert", "insertAgain"} /\ req[p].heard
  /\ req' = [req EXCEPT ![p].heard = FALSE]
  /\ client' = [client EXCEPT ![req[p].photo] = "unsent"]
  /\ UNCHANGED <<receipts, folders, objects, issued, history>>

-----------------------------------------------------------------------------
Patches == UNION {[C -> Values] : C \in SUBSET Columns}

\* Mutant: a column the request leaves out is cleared.
MergePatchOnly(cols, patch) == patch

Merge(cols, patch) ==
  [c \in Columns |-> IF c \in DOMAIN patch THEN patch[c] ELSE cols[c]]

\* Mutant: no folder in the request means no folder.
MergeFolderAlways(old, folder) == folder

\* folder NULL: the request has no folder_id, which leaves the row's alone.
MergeFolder(old, folder) == Coalesce(folder, old, NULL)

\* The SELECT of UpdateReceiptOrder, and the merge in memory.
Update(p, user, id, patch, folder) ==
  /\ req[p].pc = "idle"
  /\ id \in DOMAIN receipts /\ receipts[id].owner = user
  /\ req' = [req EXCEPT ![p] =
       [pc |-> "write", user |-> user, id |-> id,
        cols |-> Merge(receipts[id].cols, patch),
        folder |-> MergeFolder(receipts[id].folder, folder),
        patched |-> DOMAIN patch \cup IF folder = NULL THEN {} ELSE {"folder"},
        raced |-> {}]]
  /\ UNCHANGED <<receipts, folders, objects, issued, client, history>>

Changed(old, new) ==
  {c \in Columns : old.cols[c] # new.cols[c]}
    \cup IF old.folder = new.folder THEN {} ELSE {"folder"}

\* Others that have read the row and not yet written it are overtaken.
Overtake(p, id, changes) ==
  req' = [q \in Requests |->
            IF q = p THEN Idle
            ELSE IF req[q].pc = "write" /\ req[q].id = id
            THEN [req[q] EXCEPT !.raced = @ \cup changes]
            ELSE req[q]]

Updated(row, edit) == [row EXCEPT !.cols = edit.cols, !.folder = edit.folder]

\* Mutant: a row that is gone is written anew.
WriteUpserts(p) ==
  LET id  == req[p].id
      row == [owner |-> req[p].user, folder |-> req[p].folder, image |-> NULL,
              cols |-> req[p].cols]
  IN  /\ req[p].pc = "write"
      /\ receipts' = IF FolderKnown(req[p].folder) THEN Put(receipts, id, row)
                     ELSE receipts
      /\ End(p)
      /\ UNCHANGED <<folders, objects, issued, client, history>>

\* The UPDATE.  A row deleted since is 404, a folder that is not known 500.
Write(p) ==
  LET id  == req[p].id
      new == Updated(receipts[id], req[p])
      ok  == id \in DOMAIN receipts /\ FolderKnown(req[p].folder)
  IN  /\ req[p].pc = "write"
      /\ receipts' = IF ok THEN Put(receipts, id, new) ELSE receipts
      /\ Overtake(p, id, IF ok THEN Changed(receipts[id], new) ELSE {})
      /\ UNCHANGED <<folders, objects, issued, client, history>>

\* The UPDATE fails or is never sent.
UpdateFails(p) ==
  /\ req[p].pc = "write"
  /\ End(p)
  /\ UNCHANGED <<receipts, folders, objects, issued, client, history>>

\* DELETE FROM receipt_orders: no tombstone; the image stays in the bucket.
Delete(user, id) ==
  /\ id \in DOMAIN receipts /\ receipts[id].owner = user
  /\ receipts' = [k \in DOMAIN receipts \ {id} |-> receipts[k]]
  /\ gone' = gone \cup {id}
  /\ UNCHANGED <<folders, objects, issued, req, client, broken, copies, unheard>>

\* A push or POST /folders.
FolderArrives(f) ==
  /\ f \notin folders
  /\ folders' = folders \cup {f}
  /\ UNCHANGED <<receipts, objects, issued, req, client, history>>

-----------------------------------------------------------------------------
ExtractStep(p) ==
  \/ \E user \in Users, photo \in Photos, folder \in FolderIds \cup {NULL} :
       \E stored, err \in BOOLEAN : Extract(p, user, photo, folder, stored, err)
  \/ ModelAnswers(p)
  \/ Insert(p)
  \/ InsertAgain(p)

UpdateStep(p) ==
  \/ \E user \in Users, id \in ReceiptIds, patch \in Patches :
       \E folder \in FolderIds \cup {NULL} : Update(p, user, id, patch, folder)
  \/ Write(p)

Fault(p) ==
  ModelFails(p) \/ InsertFails(p) \/ InsertReplyLost(p) \/ GiveUp(p) \/ UpdateFails(p)

Next ==
  \/ \E p \in Requests : ExtractStep(p) \/ UpdateStep(p) \/ Fault(p)
  \/ \E user \in Users, id \in ReceiptIds : Delete(user, id)
  \/ \E f \in FolderIds : FolderArrives(f)

Spec == Init /\ [][Next]_vars

-----------------------------------------------------------------------------
RowsOf(user) == {id \in DOMAIN receipts : receipts[id].owner = user}

\* ListReceiptOrders: a limit out of range is the default limit.
ListLimit(limit) == IF limit \in 1..MaxLimit THEN limit ELSE DefaultLimit

\* The number of rows of n that match in a list.
ListedOf(n, limit) == IF n <= ListLimit(limit) THEN n ELSE ListLimit(limit)

\* GenerateLedgerCSV asks for ExportLimit rows.
ExportedOf(n) == ListedOf(n, ExportLimit)

-----------------------------------------------------------------------------
\* A receipt never points at an image that is not in the bucket, though an
\* upload that failed does not stop the extraction: the row then has none.
ImagesAreStored == \A id \in DOMAIN receipts : receipts[id].image \in objects \cup {NULL}

\* A deleted receipt stays deleted, whoever had read it before and writes it
\* back afterwards.
DeletedStaysDeleted == gone \cap DOMAIN receipts = {}

\* A photo is entered more often than once only when the app did not hear that
\* a row was entered: every error answered before the commit is a safe retry.
CopiesExplained == \A photo \in Photos : copies[photo] <= 1 + unheard[photo]

\* "retry without the folder foreign key so the user's receipt is never lost or
\* dropped": an extraction the model has answered ends with its row entered
\* unless the database fails, also when the folder arrives between the two
\* statements or never does.
ExtractedIsKept ==
  [][\A p \in Requests :
       req[p].pc \in {"insert", "insertAgain"} /\ req'[p].pc = "idle"
         => req[p].id \in DOMAIN receipts' \cup broken']_vars

\* An edit changes only what its request names and what was written under it
\* since it read the row: nothing older is ever taken back.
EditsKeepOthers ==
  [][\A p \in Requests :
       LET id == req[p].id
       IN  /\ req[p].pc = "write" /\ req'[p].pc = "idle"
           /\ id \in DOMAIN receipts \cap DOMAIN receipts'
           => Changed(receipts[id], receipts'[id]) \subseteq req[p].patched \cup req[p].raced]_vars

\* "CSV ledger of all filtered receipts", "Set unlimited for export": the export
\* has every row of the account.
ExportIsComplete ==
  \A user \in Users : ExportedOf(Cardinality(RowsOf(user))) = Cardinality(RowsOf(user))

=============================================================================
