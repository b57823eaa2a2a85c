----------------------------- MODULE SyncHistory ----------------------------
(***************************************************************************)
(* SyncStore with a record of every edit that reached the database, kept   *)
(* or not.  The tables are shown to implement LastWriterWins: names of     *)
(* folders, tombstones of pages and, as far as uploads let them, folders   *)
(* of documents.                                                           *)
(***************************************************************************)
EXTENDS SyncStore

VARIABLES
  folderLog, documentLog, pageLog,
  freshLog  \* as documentLog, since an upload last set the document's time back

logs == <<folderLog, documentLog, pageLog, freshLog>>
hvars == <<vars, logs>>

HInit ==
  /\ Init
  /\ folderLog = [f \in FolderIds |-> {}]
  /\ documentLog = [d \in DocIds |-> {}]
  /\ pageLog = [pg \in PageIds |-> {}]
  /\ freshLog = documentLog

Received(log, k, w) == [log EXCEPT ![k] = @ \cup {w}]

HUpsertFolder(p, f, name, gone, ts) ==
  /\ UpsertFolder(p, f, name, gone, ts)
  /\ folderLog' = Received(folderLog, f,
                     [ts |-> ClientTime(ts, req[p].now), body |-> name])
  /\ UNCHANGED <<documentLog, pageLog, freshLog>>

\* An item refused by its foreign key was not received: the request ends.
HUpsertDocument(p, d, folder, url, gone, ts) ==
  LET w == [ts |-> ClientTime(ts, req[p].now), body |-> folder]
  IN  /\ UpsertDocument(p, d, folder, url, gone, ts)
      /\ IF req' # req THEN UNCHANGED <<documentLog, freshLog>>
         ELSE /\ documentLog' = Received(documentLog, d, w)
              /\ freshLog' = Received(freshLog, d, w)
      /\ UNCHANGED <<folderLog, pageLog>>

HUpsertPage(p, pg, d, image, gone, ts) ==
  /\ UpsertPage(p, pg, d, image, gone, ts)
  /\ pageLog' =
       IF req' # req THEN pageLog
       ELSE Received(pageLog, pg, [ts |-> ClientTime(ts, req[p].now), body |-> gone])
  /\ UNCHANGED <<folderLog, documentLog, freshLog>>

HCreateFolder(user, f, name) ==
  /\ CreateFolder(user, f, name)
  /\ folderLog' = Received(folderLog, f, [ts |-> clock, body |-> name])
  /\ UNCHANGED <<documentLog, pageLog, freshLog>>

\* The upload is an edit of the document at the time it read, which an edit that
\* came in since, or a client's clock that is ahead, may have passed.
HRecordFile(p) ==
  LET d == req[p].key[2]
      w == [ts |-> req[p].now, body |-> documents[d].folder]
  IN  /\ RecordFile(p)
      /\ IF documents' = documents THEN UNCHANGED <<documentLog, freshLog>>
         ELSE /\ documentLog' = Received(documentLog, d, w)
              /\ freshLog' = IF w.ts < documents[d].cts
                             THEN [freshLog EXCEPT ![d] = {w}]
                             ELSE Received(freshLog, d, w)
      /\ UNCHANGED <<folderLog, pageLog>>

HPushItem(p) ==
  \E gone \in BOOLEAN, ts \in ItemTimes :
    \/ \E f \in FolderIds, name \in Names : HUpsertFolder(p, f, name, gone, ts)
    \/ \E d \in DocIds : \E folder \in FolderIds \cup {NULL}, url \in PushedUrls(d) :
         HUpsertDocument(p, d, folder, url, gone, ts)
    \/ \E pg \in PageIds, d \in DocIds, image \in Images \cup {NULL} :
         HUpsertPage(p, pg, d, image, gone, ts)

\* The steps that receive no edit.
Silent ==
  \/ \E p \in Requests :
       \/ \E user \in Users :
            \/ PushFolders(p, user)
            \/ \E d \in DocIds, file \in Files : UploadFile(p, user, d, file)
       \/ PushDocuments(p)
       \/ PushPages(p)
       \/ PushDone(p)
       \/ RequestFails(p)
  \/ \E user \in Users, f \in FolderIds : DeleteFolder(user, f)
  \/ Tick

HNext ==
  \/ \E p \in Requests : HPushItem(p) \/ HRecordFile(p)
  \/ \E user \in Users, f \in FolderIds, name \in Names : HCreateFolder(user, f, name)
  \/ Silent /\ UNCHANGED logs

HSpec == HInit /\ [][HNext]_hvars

-----------------------------------------------------------------------------
FolderValue == [f \in DOMAIN folders |->
                  [ts |-> folders[f].cts, body |-> folders[f].name]]

DocumentValue == [d \in DOMAIN documents |->
                    [ts |-> documents[d].cts, body |-> documents[d].folder]]

PageValue == [pg \in DOMAIN pages |->
                [ts |-> pages[pg].cts, body |-> pages[pg].deleted # 0]]

FolderLWW == INSTANCE LastWriterWins
  WITH Ids <- FolderIds, Bodies <- Names, log <- folderLog, reg <- FolderValue

DocumentLWW == INSTANCE LastWriterWins
  WITH Ids <- DocIds, Bodies <- FolderIds \cup {NULL},
       log <- documentLog, reg <- DocumentValue

DocumentFresh == INSTANCE LastWriterWins
  WITH Ids <- DocIds, Bodies <- FolderIds \cup {NULL},
       log <- freshLog, reg <- DocumentValue

PageLWW == INSTANCE LastWriterWins
  WITH Ids <- PageIds, Bodies <- BOOLEAN, log <- pageLog, reg <- PageValue

\* The name of a folder is the one the latest edit gave it, whatever the order
\* edits arrive in; DELETE /folders is no edit of the name.
FoldersResolve == FolderLWW!Spec
FoldersLatest == FolderLWW!Latest

\* A page is deleted exactly when the latest edit of it says so.
PagesResolve == PageLWW!Spec

\* A document is in the folder the latest edit of it put it in, a folder that is
\* refused by its foreign key leaving no trace.  An upload counts as an edit at the
\* time it read, and stamps that time whatever later one the row had.
DocumentsResolve == DocumentLWW!Spec

\* What holds all the same: an upload that sets a document's time back leaves it in
\* its folder, and from then on the latest of the edits that arrive decides.
DocumentsResolveAfresh == DocumentFresh!AfreshSpec

=============================================================================
