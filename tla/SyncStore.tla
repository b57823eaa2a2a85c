----------------------------- MODULE SyncStore ------------------------------
(***************************************************************************)
(* The server side of synchronisation: the folders, documents and pages    *)
(* tables, the object store, and the requests that write them.             *)
(*                                                                         *)
(* POST /sync/push runs one autocommitted upsert per item, folders first,  *)
(* then documents, then pages, with no transaction around them; the time   *)
(* stamped on a table's rows is read once, before that table's loop.  The  *)
(* items of a request are chosen when their statement runs, which covers   *)
(* every batch of every length.  POST /documents/{id}/file stores the      *)
(* object, then updates the row.  POST and DELETE /folders are one         *)
(* statement each.  A request may stop between any two statements.         *)
(*                                                                         *)
(* Times are naturals.  0 is Go's zero time in an item's client_updated_at *)
(* and SQL's NULL in deleted_at.  title and is_locked travel exactly like  *)
(* the columns kept here, extracted_text and page_number like image and    *)
(* deleted, created_at of folders and documents is never read.             *)
(***************************************************************************)
EXTENDS Naturals, Tables

CONSTANTS
  Users,        \* accounts: a row of users for each (accounts are never deleted)
  FolderIds, DocIds, PageIds,
  Names,        \* folder names
  Files,        \* names of uploaded files
  Images,       \* image_cloud_url values a client may push
  Requests,     \* requests the server handles at once
  ClientTimes,  \* client clock readings
  Epoch,        \* the server's clock when the model starts
  MaxClock,     \* bound: the server's clock stops there
  Blanks,       \* pdf_cloud_url values that are no file and not NULL: ""
  NULL

\* documents/{userID}/{documentID}/{filename}
Keys == Users \X DocIds \X Files

ServerTimes == Epoch..MaxClock
Times == ClientTimes \cup ServerTimes

\* The values of pdf_cloud_url that GET /documents/{id} takes for no file.
NoFile == Blanks \cup {NULL}

ASSUME SyncAssumption ==
  /\ ClientTimes \subseteq Nat \ {0}
  /\ Epoch \in Nat \ {0}
  /\ MaxClock \in Nat /\ Epoch <= MaxClock
  /\ NULL \notin FolderIds
  /\ NULL \notin Images
  /\ NULL \notin Keys
  /\ Blanks \cap (Keys \cup {NULL}) = {}

VARIABLES
  folders, documents, pages,  \* the tables
  objects,                    \* keys in the bucket
  clock,                      \* time.Now() and NOW(), read from one clock
  req                         \* the requests in flight

vars == <<folders, documents, pages, objects, clock, req>>

-----------------------------------------------------------------------------
FolderRow == [owner : Users, name : Names, deleted : Times \cup {0},
              cts : Times, uts : ServerTimes]

DocumentRow == [owner : Users, folder : FolderIds \cup {NULL},
                url : Keys \cup NoFile, deleted : Times \cup {0},
                cts : Times, uts : ServerTimes]

PageRow == [doc : DocIds, image : Images \cup {NULL}, deleted : Times \cup {0},
            cts : Times, created : ServerTimes]

Idle == [pc |-> "idle"]

RequestState ==
  {Idle}
    \cup [pc : {"folders", "documents", "pages"}, user : Users, now : ServerTimes]
    \cup [pc : {"upload"}, user : Users, now : ServerTimes, key : Keys]

\* Every row, key and request is of its type; the rows of a table are total.
TypeOK ==
  /\ folders \in Table(FolderIds, FolderRow)
  /\ documents \in Table(DocIds, DocumentRow)
  /\ pages \in Table(PageIds, PageRow)
  /\ objects \in SUBSET Keys
  /\ clock \in ServerTimes
  /\ req \in [Requests -> RequestState]

Init ==
  /\ folders = EmptyTable
  /\ documents = EmptyTable
  /\ pages = EmptyTable
  /\ objects = {}
  /\ clock = Epoch
  /\ req = [p \in Requests |-> Idle]

-----------------------------------------------------------------------------
\* Mutant: the fallback for a missing client_updated_at is left out.
ClientTimeRaw(ts, now) == ts

\* An item without client_updated_at is stamped with the loop's own clock.
ClientTime(ts, now) == IF ts = 0 THEN now ELSE ts

\* The app stamps a tombstone with the time of the edit that deletes.
DeletedAt(gone, cts) == IF gone THEN cts ELSE 0

\* Mutants: an equal time wins; the WHERE is left out.
AcceptsEqual(table, id, cts) == id \in DOMAIN table => cts >= table[id].cts
AcceptsAlways(table, id, cts) == TRUE

\* ON CONFLICT ... WHERE EXCLUDED.client_updated_at > client_updated_at.
Accepts(table, id, cts) == id \in DOMAIN table => cts > table[id].cts

\* INSERT ... ON CONFLICT (id) DO UPDATE: merged is the row after a conflict.
Upsert(table, id, row, merged) ==
  IF ~Accepts(table, id, row.cts) THEN table
  ELSE Put(table, id, IF id \in DOMAIN table THEN merged ELSE row)

\* Mutants: user_id is set too; COALESCE is left out; folder_id or deleted_at is
\* missing from SET.
FolderConflictTakesOwner(old, new) == new
DocumentConflictForgetsUrl(old, new) == [new EXCEPT !.owner = old.owner]
DocumentConflictKeepsFolder(old, new) ==
  [new EXCEPT !.owner = old.owner, !.folder = old.folder,
              !.url = Coalesce(new.url, old.url, NULL)]
PageConflictKeepsDeleted(old, new) ==
  [new EXCEPT !.doc = old.doc, !.created = old.created, !.deleted = old.deleted,
              !.image = Coalesce(new.image, old.image, NULL)]

\* What DO UPDATE SET leaves alone when new is pushed over old.
FolderConflict(old, new) == [new EXCEPT !.owner = old.owner]

DocumentConflict(old, new) ==
  [new EXCEPT !.owner = old.owner, !.url = Coalesce(new.url, old.url, NULL)]

PageConflict(old, new) ==
  [new EXCEPT !.doc = old.doc, !.created = old.created,
              !.image = Coalesce(new.image, old.image, NULL)]

-----------------------------------------------------------------------------
\* The loop over one table begins: now := time.Now().
BeginTable(p, user, table) ==
  req' = [req EXCEPT ![p] = [pc |-> table, user |-> user, now |-> clock]]

EndRequest(p) == req' = [req EXCEPT ![p] = Idle]

PushFolders(p, user) ==
  /\ req[p].pc = "idle"
  /\ BeginTable(p, user, "folders")
  /\ UNCHANGED <<folders, documents, pages, objects, clock>>

PushDocuments(p) ==
  /\ req[p].pc = "folders"
  /\ BeginTable(p, req[p].user, "documents")
  /\ UNCHANGED <<folders, documents, pages, objects, clock>>

PushPages(p) ==
  /\ req[p].pc = "documents"
  /\ BeginTable(p, req[p].user, "pages")
  /\ UNCHANGED <<folders, documents, pages, objects, clock>>

PushDone(p) ==
  /\ req[p].pc = "pages"
  /\ EndRequest(p)
  /\ UNCHANGED <<folders, documents, pages, objects, clock>>

UpsertFolder(p, f, name, gone, ts) ==
  LET cts == ClientTime(ts, req[p].now)
      row == [owner |-> req[p].user, name |-> name,
              deleted |-> DeletedAt(gone, cts), cts |-> cts, uts |-> req[p].now]
  IN  /\ req[p].pc = "folders"
      /\ folders' = Upsert(folders, f, row, FolderConflict(folders[f], row))
      /\ UNCHANGED <<documents, pages, objects, clock, req>>

\* documents.folder_id REFERENCES folders(id): the key is checked only when a
\* row is written, so a losing item never fails on it.
UpsertDocument(p, d, folder, url, gone, ts) ==
  LET cts == ClientTime(ts, req[p].now)
      row == [owner |-> req[p].user, folder |-> folder, url |-> url,
              deleted |-> DeletedAt(gone, cts), cts |-> cts, uts |-> req[p].now]
      dangling == /\ Accepts(documents, d, cts)
                  /\ folder \notin DOMAIN folders \cup {NULL}
  IN  /\ req[p].pc = "documents"
      /\ \/ /\ ~dangling
            /\ documents' =
                 Upsert(documents, d, row, DocumentConflict(documents[d], row))
            /\ UNCHANGED req
         \/ /\ dangling
            /\ EndRequest(p)
            /\ UNCHANGED documents
      /\ UNCHANGED <<folders, pages, objects, clock>>

\* pages.document_id REFERENCES documents(id); DO UPDATE does not set it.
UpsertPage(p, pg, d, image, gone, ts) ==
  LET cts == ClientTime(ts, req[p].now)
      row == [doc |-> d, image |-> image, deleted |-> DeletedAt(gone, cts),
              cts |-> cts, created |-> req[p].now]
      dangling == pg \notin DOMAIN pages /\ d \notin DOMAIN documents
  IN  /\ req[p].pc = "pages"
      /\ \/ /\ ~dangling
            /\ pages' = Upsert(pages, pg, row, PageConflict(pages[pg], row))
            /\ UNCHANGED req
         \/ /\ dangling
            /\ EndRequest(p)
            /\ UNCHANGED pages
      /\ UNCHANGED <<folders, documents, objects, clock>>

-----------------------------------------------------------------------------
\* Mutant: a failed Upload is not noticed.
UploadUnnoticed(p, user, d, file) ==
  /\ req[p].pc = "idle"
  /\ req' = [req EXCEPT ![p] = [pc |-> "upload", user |-> user, now |-> clock,
                                key |-> <<user, d, file>>]]
  /\ UNCHANGED <<folders, documents, pages, objects, clock>>

\* POST /documents/{id}/file: Upload has stored the object.  Nothing has asked
\* whether the document exists.  A failed Upload changes nothing.
UploadFile(p, user, d, file) ==
  LET key == <<user, d, file>>
  IN  /\ req[p].pc = "idle"
      /\ objects' = objects \cup {key}
      /\ req' = [req EXCEPT ![p] =
                   [pc |-> "upload", user |-> user, now |-> clock, key |-> key]]
      /\ UNCHANGED <<folders, documents, pages, clock>>

\* SET pdf_cloud_url = $1, updated_at = $2, client_updated_at = $2.
WithFile(row, key, now) == [row EXCEPT !.url = key, !.cts = now, !.uts = now]

\* The UPDATE of UpdateDocumentFile and the answer "uploaded".  No row of this
\* user with this id is not an error: the number of rows is not looked at.
RecordFile(p) ==
  LET key == req[p].key
      d   == key[2]
      own == d \in DOMAIN documents /\ documents[d].owner = req[p].user
  IN  /\ req[p].pc = "upload"
      /\ documents' =
           IF own THEN Put(documents, d, WithFile(documents[d], key, req[p].now))
           ELSE documents
      /\ EndRequest(p)
      /\ UNCHANGED <<folders, pages, objects, clock>>

\* A statement fails, the context is cancelled, or the server stops: what the
\* earlier statements wrote stays.
RequestFails(p) ==
  /\ req[p].pc # "idle"
  /\ EndRequest(p)
  /\ UNCHANGED <<folders, documents, pages, objects, clock>>

\* POST /folders.  The id is new; client_updated_at takes its default, NOW().
CreateFolder(user, f, name) ==
  /\ f \notin DOMAIN folders
  /\ folders' = Put(folders, f, [owner |-> user, name |-> name, deleted |-> 0,
                                 cts |-> clock, uts |-> clock])
  /\ UNCHANGED <<documents, pages, objects, clock, req>>

\* UPDATE folders SET deleted_at = NOW().
Tombstone(row, now) == [row EXCEPT !.deleted = now]

\* DELETE /folders/{id}, whether or not the folder is deleted already.
DeleteFolder(user, f) ==
  /\ f \in DOMAIN folders /\ folders[f].owner = user
  /\ folders' = Put(folders, f, Tombstone(folders[f], clock))
  /\ UNCHANGED <<documents, pages, objects, clock, req>>

Tick ==
  /\ clock < MaxClock
  /\ clock' = clock + 1
  /\ UNCHANGED <<folders, documents, pages, objects, req>>

-----------------------------------------------------------------------------
\* Item inputs.  A client names a stored file only by a key it was given; it may
\* leave the url out, or send an empty one.
ItemTimes == ClientTimes \cup {0}
PushedUrls(d) == {k \in objects : k[2] = d} \cup NoFile

PushItem(p) ==
  \E gone \in BOOLEAN, ts \in ItemTimes :
    \/ \E f \in FolderIds, name \in Names : UpsertFolder(p, f, name, gone, ts)
    \/ \E d \in DocIds : \E folder \in FolderIds \cup {NULL}, url \in PushedUrls(d) :
         UpsertDocument(p, d, folder, url, gone, ts)
    \/ \E pg \in PageIds, d \in DocIds, image \in Images \cup {NULL} :
         UpsertPage(p, pg, d, image, gone, ts)

Push(p) ==
  \/ \E user \in Users : PushFolders(p, user)
  \/ PushItem(p)
  \/ PushDocuments(p)
  \/ PushPages(p)
  \/ PushDone(p)

Upload(p) ==
  \/ \E user \in Users, d \in DocIds, file \in Files : UploadFile(p, user, d, file)
  \/ RecordFile(p)

FolderRequest ==
  \E user \in Users, f \in FolderIds :
    \/ \E name \in Names : CreateFolder(user, f, name)
    \/ DeleteFolder(user, f)

Next ==
  \/ \E p \in Requests : Push(p) \/ Upload(p) \/ RequestFails(p)
  \/ FolderRequest
  \/ Tick

Spec == Init /\ [][Next]_vars

-----------------------------------------------------------------------------
\* A document never points at a file that is not in the object store, however
\* uploads fail half-way and clients push keys back: the object is written
\* before the row.
FileIsStored ==
  \A d \in DOMAIN documents : documents[d].url \in objects \cup NoFile

EmptiedByLaterEdit(old, new) == new.url \in Blanks /\ new.cts > old.cts

FilesKept ==
  \A d \in DOMAIN documents : documents[d].url \notin NoFile =>
    /\ d \in DOMAIN documents'
    /\ documents'[d].url \in NoFile => EmptiedByLaterEdit(documents[d], documents'[d])

\* A document that has a file keeps one, whatever devices push that never saw the
\* file: only an item that says the url is empty, and is a later edit than the row
\* holds, takes the key away.  COALESCE guards against a url left out, not against "".
FileKeptUnlessEmptied == [][FilesKept]_vars

FoldersKept ==
  \A f \in DOMAIN folders :
    f \in DOMAIN folders' /\ folders'[f].owner = folders[f].owner

DocumentsKept ==
  \A d \in DOMAIN documents :
    d \in DOMAIN documents' /\ documents'[d].owner = documents[d].owner

PagesKept ==
  \A pg \in DOMAIN pages : pg \in DOMAIN pages' /\ pages'[pg].doc = pages[pg].doc

\* Whoever pushes an id that is already taken, no row is lost, changes its
\* account or moves to another document: deletion leaves a tombstone.
RowsKeepTheirPlace == [][FoldersKept /\ DocumentsKept /\ PagesKept]_vars

=============================================================================
