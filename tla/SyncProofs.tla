------------------------------ MODULE SyncProofs ------------------------------
(***************************************************************************)
(* What the tables mean to the devices, for every set of accounts, rows,   *)
(* requests, devices and clock readings.                                   *)
(*                                                                         *)
(* First the store: its types, and what no step does to rows and files.    *)
(* Then the conflict rule: the folders and the pages implement             *)
(* LastWriterWins, and so do the documents as long as no upload sets a     *)
(* time back; when one does, they start over from what it left.            *)
(* Then pulling: a row stored in time reaches every device that goes on    *)
(* pulling, and no device is ahead of the tables.                          *)
(***************************************************************************)
EXTENDS SyncHistory, SyncPull, TablesProofs

-----------------------------------------------------------------------------
(* The store *)

\* A request that is past idle knows its account and its loop's clock.
LEMMA RequestFields ==
  ASSUME TypeOK, NEW p \in Requests
  PROVE  /\ req[p] \in RequestState
         /\ req[p].pc # "idle" => req[p].user \in Users /\ req[p].now \in ServerTimes
         /\ req[p].pc = "upload" => req[p].key \in Keys
BY DEF TypeOK, RequestState, Idle

\* What ClientTime and DeletedAt make of an item's time fits the columns.
LEMMA ItemStamps ==
  ASSUME NEW ts \in ItemTimes, NEW now \in ServerTimes, NEW gone \in BOOLEAN
  PROVE  /\ ClientTime(ts, now) \in Times
         /\ DeletedAt(gone, ClientTime(ts, now)) \in Times \cup {0}
BY DEF ItemTimes, ClientTime, DeletedAt, Times

\* An upsert touches one row at most, and only as the comparison allows.
LEMMA UpsertRows ==
  ASSUME NEW table, NEW id, NEW row, NEW merged
  PROVE  /\ DOMAIN table \subseteq DOMAIN Upsert(table, id, row, merged)
         /\ \A k \in DOMAIN table \ {id} : Upsert(table, id, row, merged)[k] = table[k]
         /\ id \in DOMAIN table =>
              Upsert(table, id, row, merged)[id] \in {table[id], merged}
         /\ DOMAIN Upsert(table, id, row, merged) \subseteq DOMAIN table \cup {id}
         /\ id \notin DOMAIN table => Upsert(table, id, row, merged)[id] = row
<1>1. CASE ~Accepts(table, id, row.cts)
  BY <1>1 DEF Upsert, Accepts
<1>2. CASE Accepts(table, id, row.cts)
  <2> DEFINE written == IF id \in DOMAIN table THEN merged ELSE row
  <2>1. Upsert(table, id, row, merged) = Put(table, id, written)
    BY <1>2 DEF Upsert
  <2> HIDE DEF written
  <2>2. /\ DOMAIN Put(table, id, written) = DOMAIN table \cup {id}
        /\ Put(table, id, written)[id] = written
        /\ \A k \in DOMAIN table : k # id => Put(table, id, written)[k] = table[k]
    BY DEF Put
  <2>3. /\ id \in DOMAIN table => written = merged
        /\ id \notin DOMAIN table => written = row
    BY DEF written
  <2> QED BY <2>1, <2>2, <2>3
<1> QED BY <1>1, <1>2

LEMMA UpsertIsTable ==
  ASSUME NEW Ids, NEW Rows, NEW table \in Table(Ids, Rows), NEW id \in Ids,
         NEW row \in Rows, NEW merged, id \in DOMAIN table => merged \in Rows
  PROVE  Upsert(table, id, row, merged) \in Table(Ids, Rows)
BY PutIsTable DEF Upsert

\* What a conflict leaves in a table is a row of the table.
LEMMA ConflictRows ==
  /\ \A old \in FolderRow, new \in FolderRow : FolderConflict(old, new) \in FolderRow
  /\ \A old \in DocumentRow, new \in DocumentRow : DocumentConflict(old, new) \in DocumentRow
  /\ \A old \in PageRow, new \in PageRow : PageConflict(old, new) \in PageRow
<1>1. ASSUME NEW old \in FolderRow, NEW new \in FolderRow
      PROVE  FolderConflict(old, new) \in FolderRow
  BY DEF FolderConflict, FolderRow
<1>2. ASSUME NEW old \in DocumentRow, NEW new \in DocumentRow
      PROVE  DocumentConflict(old, new) \in DocumentRow
  BY DEF DocumentConflict, DocumentRow, Coalesce, NoFile
<1>3. ASSUME NEW old \in PageRow, NEW new \in PageRow
      PROVE  PageConflict(old, new) \in PageRow
  BY DEF PageConflict, PageRow, Coalesce
<1> QED BY <1>1, <1>2, <1>3

-----------------------------------------------------------------------------
LEMMA UpsertFolderType ==
  ASSUME TypeOK, NEW p \in Requests, NEW f \in FolderIds, NEW name \in Names,
         NEW gone \in BOOLEAN, NEW ts \in ItemTimes, UpsertFolder(p, f, name, gone, ts)
  PROVE  TypeOK'
<1> DEFINE cts == ClientTime(ts, req[p].now)
           row == [owner |-> req[p].user, name |-> name,
                   deleted |-> DeletedAt(gone, cts), cts |-> cts, uts |-> req[p].now]
           merged == FolderConflict(folders[f], row)
<1>1. folders' = Upsert(folders, f, row, merged)
  BY DEF UpsertFolder
<1>2. row \in FolderRow
  BY RequestFields, ItemStamps DEF UpsertFolder, FolderRow
<1>3. f \in DOMAIN folders => merged \in FolderRow
  BY <1>2, TableRows, ConflictRows DEF TypeOK
<1>4. folders' \in Table(FolderIds, FolderRow)
  <2> HIDE DEF row, merged
  <2> QED BY <1>1, <1>2, <1>3, UpsertIsTable DEF TypeOK
<1> QED BY <1>4 DEF TypeOK, UpsertFolder

LEMMA UpsertDocumentType ==
  ASSUME TypeOK, NEW p \in Requests, NEW d \in DocIds,
         NEW folder \in FolderIds \cup {NULL}, NEW url \in PushedUrls(d),
         NEW gone \in BOOLEAN, NEW ts \in ItemTimes,
         UpsertDocument(p, d, folder, url, gone, ts)
  PROVE  TypeOK'
<1> DEFINE cts == ClientTime(ts, req[p].now)
           row == [owner |-> req[p].user, folder |-> folder, url |-> url,
                   deleted |-> DeletedAt(gone, cts), cts |-> cts, uts |-> req[p].now]
           merged == DocumentConflict(documents[d], row)
<1>1. row \in DocumentRow
  BY RequestFields, ItemStamps
  DEF UpsertDocument, DocumentRow, PushedUrls, TypeOK
<1>2. d \in DOMAIN documents => merged \in DocumentRow
  BY <1>1, TableRows, ConflictRows DEF TypeOK
<1>3. Upsert(documents, d, row, merged) \in Table(DocIds, DocumentRow)
  <2> HIDE DEF row, merged
  <2> QED BY <1>1, <1>2, UpsertIsTable DEF TypeOK
<1>4. documents' \in Table(DocIds, DocumentRow)
  BY <1>3 DEF TypeOK, UpsertDocument
<1>5. req' \in [Requests -> RequestState]
  BY DEF TypeOK, UpsertDocument, EndRequest, RequestState
<1> QED BY <1>4, <1>5 DEF TypeOK, UpsertDocument

LEMMA UpsertPageType ==
  ASSUME TypeOK, NEW p \in Requests, NEW pg \in PageIds, NEW d \in DocIds,
         NEW image \in Images \cup {NULL}, NEW gone \in BOOLEAN,
         NEW ts \in ItemTimes, UpsertPage(p, pg, d, image, gone, ts)
  PROVE  TypeOK'
<1> DEFINE cts == ClientTime(ts, req[p].now)
           row == [doc |-> d, image |-> image, deleted |-> DeletedAt(gone, cts),
                   cts |-> cts, created |-> req[p].now]
           merged == PageConflict(pages[pg], row)
<1>1. row \in PageRow
  BY RequestFields, ItemStamps DEF UpsertPage, PageRow
<1>2. pg \in DOMAIN pages => merged \in PageRow
  BY <1>1, TableRows, ConflictRows DEF TypeOK
<1>3. Upsert(pages, pg, row, merged) \in Table(PageIds, PageRow)
  <2> HIDE DEF row, merged
  <2> QED BY <1>1, <1>2, UpsertIsTable DEF TypeOK
<1>4. pages' \in Table(PageIds, PageRow)
  BY <1>3 DEF TypeOK, UpsertPage
<1>5. req' \in [Requests -> RequestState]
  BY DEF TypeOK, UpsertPage, EndRequest, RequestState
<1> QED BY <1>4, <1>5 DEF TypeOK, UpsertPage

\* Requests that begin a table, store a file, end or fail.
LEMMA RequestStepType ==
  ASSUME TypeOK, NEW p \in Requests,
         \/ \E user \in Users : PushFolders(p, user)
         \/ PushDocuments(p) \/ PushPages(p) \/ PushDone(p) \/ RequestFails(p)
         \/ \E user \in Users, d \in DocIds, file \in Files : UploadFile(p, user, d, file)
  PROVE  TypeOK'
<1>1. Idle \in RequestState
  BY DEF RequestState
<1>2. \A user \in Users, now \in ServerTimes, pc \in {"folders", "documents", "pages"} :
        [pc |-> pc, user |-> user, now |-> now] \in RequestState
  BY DEF RequestState
<1>3. CASE \E user \in Users : PushFolders(p, user)
  BY <1>2, <1>3 DEF TypeOK, PushFolders, BeginTable
<1>4. CASE PushDocuments(p)
  BY <1>2, <1>4, RequestFields DEF TypeOK, PushDocuments, BeginTable
<1>5. CASE PushPages(p)
  BY <1>2, <1>5, RequestFields DEF TypeOK, PushPages, BeginTable
<1>6. CASE PushDone(p) \/ RequestFails(p)
  BY <1>1, <1>6 DEF TypeOK, PushDone, RequestFails, EndRequest
<1>7. ASSUME NEW user \in Users, NEW d \in DocIds, NEW file \in Files,
             UploadFile(p, user, d, file)
      PROVE  TypeOK'
  <2>1. <<user, d, file>> \in Keys
    BY DEF Keys
  <2>2. [pc |-> "upload", user |-> user, now |-> clock, key |-> <<user, d, file>>]
          \in RequestState
    BY <2>1 DEF RequestState, TypeOK
  <2> QED BY <1>7, <2>1, <2>2 DEF TypeOK, UploadFile
<1> QED BY <1>3, <1>4, <1>5, <1>6, <1>7

LEMMA RecordFileType ==
  ASSUME TypeOK, NEW p \in Requests, RecordFile(p)
  PROVE  TypeOK'
<1> DEFINE key == req[p].key
           d == key[2]
           row == WithFile(documents[d], key, req[p].now)
<1>1. key \in Keys /\ d \in DocIds /\ req[p].now \in ServerTimes
  BY RequestFields DEF RecordFile, Keys
<1>2. d \in DOMAIN documents => row \in DocumentRow
  <2>1. d \in DOMAIN documents => documents[d] \in DocumentRow
    BY TableRows DEF TypeOK
  <2> QED BY <1>1, <2>1 DEF WithFile, DocumentRow, Times
<1>3. d \in DOMAIN documents => Put(documents, d, row) \in Table(DocIds, DocumentRow)
  BY <1>1, <1>2, PutIsTable DEF TypeOK
<1>4. documents' \in Table(DocIds, DocumentRow)
  BY <1>3 DEF RecordFile, TypeOK
<1>5. req' \in [Requests -> RequestState]
  BY DEF TypeOK, RecordFile, EndRequest, RequestState
<1> QED BY <1>4, <1>5 DEF TypeOK, RecordFile

LEMMA FolderRequestType ==
  ASSUME TypeOK, FolderRequest
  PROVE  TypeOK'
<1>1. PICK user \in Users, f \in FolderIds :
        (\E name \in Names : CreateFolder(user, f, name)) \/ DeleteFolder(user, f)
  BY DEF FolderRequest
<1>2. clock \in ServerTimes /\ clock \in Times
  BY DEF TypeOK, Times
<1>3. ASSUME NEW name \in Names, CreateFolder(user, f, name) PROVE TypeOK'
  <2>1. [owner |-> user, name |-> name, deleted |-> 0, cts |-> clock, uts |-> clock]
          \in FolderRow
    BY <1>2 DEF FolderRow
  <2>2. folders' \in Table(FolderIds, FolderRow)
    BY <1>3, <2>1, PutIsTable DEF CreateFolder, TypeOK
  <2> QED BY <1>3, <2>2 DEF CreateFolder, TypeOK
<1>4. CASE DeleteFolder(user, f)
  <2>1. folders[f] \in FolderRow
    BY <1>4, TableRows DEF DeleteFolder, TypeOK
  <2>2. Tombstone(folders[f], clock) \in FolderRow
    BY <1>2, <2>1 DEF Tombstone, FolderRow
  <2>3. folders' \in Table(FolderIds, FolderRow)
    BY <1>4, <2>2, PutIsTable DEF DeleteFolder, TypeOK
  <2> QED BY <1>4, <2>3 DEF DeleteFolder, TypeOK
<1> QED BY <1>1, <1>3, <1>4

LEMMA TypeStep ==
  ASSUME TypeOK, [Next]_vars
  PROVE  TypeOK'
<1>1. ASSUME NEW p \in Requests, Push(p) PROVE TypeOK'
  <2>1. CASE PushItem(p)
    BY <2>1, UpsertFolderType, UpsertDocumentType, UpsertPageType DEF PushItem
  <2>2. CASE ~PushItem(p)
    BY <1>1, <2>2, RequestStepType DEF Push
  <2> QED BY <2>1, <2>2
<1>2. ASSUME NEW p \in Requests, Upload(p) \/ RequestFails(p) PROVE TypeOK'
  BY <1>2, RequestStepType, RecordFileType DEF Upload
<1>3. CASE FolderRequest
  BY <1>3, FolderRequestType
<1>4. CASE Tick
  BY <1>4, SyncAssumption DEF Tick, TypeOK, ServerTimes
<1>5. CASE UNCHANGED vars
  BY <1>5 DEF vars, TypeOK
<1> QED BY <1>1, <1>2, <1>3, <1>4, <1>5 DEF Next

\* Every row, key and request stays of its type.
THEOREM TypeCorrect == Spec => []TypeOK
<1>1. Init => TypeOK
  BY EmptyIsTable, SyncAssumption
  DEF Init, TypeOK, RequestState, ServerTimes
<1>2. TypeOK /\ [Next]_vars => TypeOK'
  BY TypeStep
<1> QED BY <1>1, <1>2, PTL DEF Spec

-----------------------------------------------------------------------------
\* FileIsStored is not inductive: RecordFile writes the key its request holds.
\* What makes it so is that the key was stored when the request got it.
UploadStored ==
  \A p \in Requests : req[p].pc = "upload" => req[p].key \in objects

\* A push leaves in documents only urls that were there or that clients knew.
LEMMA UpsertDocumentFiles ==
  ASSUME TypeOK, FileIsStored, NEW p \in Requests, NEW d \in DocIds,
         NEW folder, NEW url \in PushedUrls(d), NEW gone, NEW ts,
         UpsertDocument(p, d, folder, url, gone, ts)
  PROVE  FileIsStored'
<1> DEFINE cts == ClientTime(ts, req[p].now)
           row == [owner |-> req[p].user, folder |-> folder, url |-> url,
                   deleted |-> DeletedAt(gone, cts), cts |-> cts, uts |-> req[p].now]
           merged == DocumentConflict(documents[d], row)
<1>1. documents' \in {documents, Upsert(documents, d, row, merged)} /\ objects' = objects
  BY DEF UpsertDocument
<1>2. row.url \in objects \cup NoFile
  BY DEF PushedUrls
<1>3. d \in DOMAIN documents => merged.url \in objects \cup NoFile
  <2>1. ASSUME d \in DOMAIN documents
        PROVE  merged.url = Coalesce(url, documents[d].url, NULL)
    BY DEF DocumentConflict
  <2> QED BY <1>2, <2>1 DEF FileIsStored, Coalesce
<1>4. ASSUME NEW k \in DOMAIN Upsert(documents, d, row, merged)
      PROVE  Upsert(documents, d, row, merged)[k].url \in objects \cup NoFile
  <2> HIDE DEF row, merged
  <2> QED BY <1>2, <1>3, <1>4, UpsertRows DEF FileIsStored
<1> QED BY <1>1, <1>4 DEF FileIsStored

LEMMA RecordFileFiles ==
  ASSUME TypeOK, FileIsStored, UploadStored, NEW p \in Requests, RecordFile(p)
  PROVE  FileIsStored'
<1> DEFINE key == req[p].key
           d == key[2]
           row == WithFile(documents[d], key, req[p].now)
<1>1. key \in objects /\ objects' = objects
  BY DEF RecordFile, UploadStored
<1>2. documents' \in {documents, Put(documents, d, row)}
  BY DEF RecordFile
<1>3. CASE documents' = documents
  BY <1>1, <1>3 DEF FileIsStored
<1>4. CASE d \in DOMAIN documents /\ documents' = Put(documents, d, row)
  <2>1. documents[d] \in DocumentRow
    BY <1>4, TableRows DEF TypeOK
  <2>2. row.url = key
    BY <2>1 DEF WithFile, DocumentRow
  <2> QED BY <1>1, <1>4, <2>2 DEF FileIsStored, Put
<1> QED BY <1>2, <1>3, <1>4 DEF RecordFile

\* Keys are stored before requests hold them, and objects are never removed.
LEMMA UploadStoredStep ==
  ASSUME TypeOK, UploadStored, Next
  PROVE  UploadStored' /\ objects \subseteq objects'
<1>1. ASSUME NEW p \in Requests, PushItem(p)
      PROVE  UploadStored' /\ objects \subseteq objects'
  <2>1. \A f, name, gone, ts : UpsertFolder(p, f, name, gone, ts) =>
          objects' = objects /\ (req' = req \/ EndRequest(p))
    BY DEF UpsertFolder
  <2>2. \A d, folder, url, gone, ts : UpsertDocument(p, d, folder, url, gone, ts) =>
          objects' = objects /\ (req' = req \/ EndRequest(p))
    BY DEF UpsertDocument
  <2>3. \A pg, d, image, gone, ts : UpsertPage(p, pg, d, image, gone, ts) =>
          objects' = objects /\ (req' = req \/ EndRequest(p))
    BY DEF UpsertPage
  <2>4. objects' = objects /\ (req' = req \/ EndRequest(p))
    BY <1>1, <2>1, <2>2, <2>3 DEF PushItem
  <2> QED BY <2>4 DEF EndRequest, Idle, UploadStored, TypeOK
<1>2. ASSUME NEW p \in Requests, Push(p), ~PushItem(p)
      PROVE  UploadStored' /\ objects \subseteq objects'
  BY <1>2 DEF Push, PushFolders, PushDocuments, PushPages, PushDone, BeginTable,
              EndRequest, Idle, UploadStored, TypeOK
<1>3. ASSUME NEW p \in Requests, Upload(p) \/ RequestFails(p)
      PROVE  UploadStored' /\ objects \subseteq objects'
  BY <1>3 DEF Upload, UploadFile, RecordFile, RequestFails, EndRequest, Idle,
              UploadStored, TypeOK
<1>4. CASE FolderRequest \/ Tick
  BY <1>4 DEF FolderRequest, CreateFolder, DeleteFolder, Tick, UploadStored
<1> QED BY <1>1, <1>2, <1>3, <1>4 DEF Next

\* The steps that leave documents alone keep its files stored.
LEMMA OtherFiles ==
  ASSUME FileIsStored, documents' = documents, objects \subseteq objects'
  PROVE  FileIsStored'
BY DEF FileIsStored

\* No document ever points at a file that was not stored.
THEOREM FilesAreStored == Spec => []FileIsStored
<1>1. Init => FileIsStored /\ UploadStored
  BY DEF Init, FileIsStored, UploadStored, EmptyTable, Idle
<1>2. TypeOK /\ FileIsStored /\ UploadStored /\ [Next]_vars
        => FileIsStored' /\ UploadStored'
  <2> SUFFICES ASSUME TypeOK, FileIsStored, UploadStored, [Next]_vars
               PROVE  FileIsStored' /\ UploadStored'
    OBVIOUS
  <2>1. CASE UNCHANGED vars
    BY <2>1 DEF vars, FileIsStored, UploadStored
  <2>2. CASE Next
    <3>1. UploadStored' /\ objects \subseteq objects'
      BY <2>2, UploadStoredStep
    <3>2. ASSUME NEW p \in Requests, PushItem(p) PROVE FileIsStored'
      <4>1. ASSUME NEW f, NEW name, NEW gone, NEW ts, UpsertFolder(p, f, name, gone, ts)
            PROVE  documents' = documents
        BY <4>1 DEF UpsertFolder
      <4>2. ASSUME NEW pg, NEW d, NEW image, NEW gone, NEW ts,
                   UpsertPage(p, pg, d, image, gone, ts)
            PROVE  documents' = documents
        BY <4>2 DEF UpsertPage
      <4>3. documents' = documents => FileIsStored'
        BY <3>1, OtherFiles
      <4>4. ASSUME NEW d \in DocIds, NEW folder, NEW url \in PushedUrls(d), NEW gone, NEW ts,
                   UpsertDocument(p, d, folder, url, gone, ts)
            PROVE  FileIsStored'
        BY <3>1, <4>4, UpsertDocumentFiles
      <4> QED BY <3>2, <4>1, <4>2, <4>3, <4>4, Zenon DEF PushItem
    <3>3. ASSUME NEW p \in Requests, Push(p), ~PushItem(p) PROVE FileIsStored'
      BY <3>1, <3>3, OtherFiles
      DEF Push, PushFolders, PushDocuments, PushPages, PushDone
    <3>4. ASSUME NEW p \in Requests, Upload(p) \/ RequestFails(p) PROVE FileIsStored'
      BY <3>1, <3>4, RecordFileFiles, OtherFiles DEF Upload, UploadFile, RequestFails
    <3>5. CASE FolderRequest \/ Tick
      BY <3>1, <3>5, OtherFiles DEF FolderRequest, CreateFolder, DeleteFolder, Tick
    <3> QED BY <2>2, <3>1, <3>2, <3>3, <3>4, <3>5 DEF Next
  <2> QED BY <2>1, <2>2
<1> QED BY <1>1, <1>2, TypeCorrect, PTL DEF Spec

-----------------------------------------------------------------------------
\* The three upserts take nothing away that a conflict does not set.
LEMMA UpsertFolderKeeps ==
  ASSUME NEW p, NEW f, NEW name, NEW gone, NEW ts, UpsertFolder(p, f, name, gone, ts)
  PROVE  FoldersKept
<1> DEFINE cts == ClientTime(ts, req[p].now)
           row == [owner |-> req[p].user, name |-> name,
                   deleted |-> DeletedAt(gone, cts), cts |-> cts, uts |-> req[p].now]
           merged == FolderConflict(folders[f], row)
<1>1. folders' = Upsert(folders, f, row, merged)
  BY DEF UpsertFolder
<1>2. merged.owner = folders[f].owner
  BY DEF FolderConflict
<1> HIDE DEF row, merged
<1> QED BY <1>1, <1>2, UpsertRows DEF FoldersKept

LEMMA UpsertDocumentKeeps ==
  ASSUME NEW p, NEW d, NEW folder, NEW url, NEW gone, NEW ts,
         UpsertDocument(p, d, folder, url, gone, ts)
  PROVE  DocumentsKept /\ FilesKept
<1> DEFINE cts == ClientTime(ts, req[p].now)
           row == [owner |-> req[p].user, folder |-> folder, url |-> url,
                   deleted |-> DeletedAt(gone, cts), cts |-> cts, uts |-> req[p].now]
           merged == DocumentConflict(documents[d], row)
<1>1. documents' \in {documents, Upsert(documents, d, row, merged)}
  BY DEF UpsertDocument
<1>2. /\ merged.owner = documents[d].owner
      /\ merged.url = Coalesce(url, documents[d].url, NULL)
  BY DEF DocumentConflict
<1>3. documents[d].url \notin NoFile /\ merged.url \in NoFile => merged.url \in Blanks
  BY <1>2 DEF Coalesce, NoFile
<1>4. merged.cts = cts /\ row.cts = cts
  BY DEF DocumentConflict
<1> HIDE DEF row, merged, cts
<1>5. ASSUME NEW k \in DOMAIN documents
      PROVE  /\ k \in DOMAIN documents'
             /\ \/ documents'[k] = documents[k]
                \/ k = d /\ documents'[k] = merged /\ merged.cts > documents[k].cts
  BY <1>1, <1>4, <1>5 DEF Upsert, Put, Accepts
<1> QED BY <1>2, <1>3, <1>5 DEF DocumentsKept, FilesKept, EmptiedByLaterEdit

LEMMA UpsertPageKeeps ==
  ASSUME NEW p, NEW pg, NEW d, NEW image, NEW gone, NEW ts,
         UpsertPage(p, pg, d, image, gone, ts)
  PROVE  PagesKept
<1> DEFINE cts == ClientTime(ts, req[p].now)
           row == [doc |-> d, image |-> image, deleted |-> DeletedAt(gone, cts),
                   cts |-> cts, created |-> req[p].now]
           merged == PageConflict(pages[pg], row)
<1>1. pages' \in {pages, Upsert(pages, pg, row, merged)}
  BY DEF UpsertPage
<1>2. merged.doc = pages[pg].doc
  BY DEF PageConflict
<1> HIDE DEF row, merged
<1> QED BY <1>1, <1>2, UpsertRows DEF PagesKept

\* An upload writes a key, which names a file, and keeps the row's account.
LEMMA RecordFileKeeps ==
  ASSUME TypeOK, NEW p \in Requests, RecordFile(p)
  PROVE  DocumentsKept /\ FilesKept
<1> DEFINE key == req[p].key
           d == key[2]
           row == WithFile(documents[d], key, req[p].now)
<1>1. key \notin NoFile
  BY RequestFields, SyncAssumption DEF RecordFile, NoFile
<1>2. CASE documents' = documents
  BY <1>2 DEF DocumentsKept, FilesKept
<1>3. CASE d \in DOMAIN documents /\ documents' = Put(documents, d, row)
  <2>1. documents[d] \in DocumentRow
    BY <1>3, TableRows DEF TypeOK
  <2>2. row.url = key /\ row.owner = documents[d].owner
    BY <2>1 DEF WithFile, DocumentRow
  <2> QED BY <1>1, <1>3, <2>2 DEF DocumentsKept, FilesKept, Put
<1> QED BY <1>2, <1>3 DEF RecordFile

LEMMA FolderRequestKeeps ==
  ASSUME TypeOK, FolderRequest
  PROVE  FoldersKept
<1>1. PICK user \in Users, f \in FolderIds :
        (\E name \in Names : CreateFolder(user, f, name)) \/ DeleteFolder(user, f)
  BY DEF FolderRequest
<1>2. CASE \E name \in Names : CreateFolder(user, f, name)
  BY <1>2 DEF CreateFolder, FoldersKept, Put
<1>3. CASE DeleteFolder(user, f)
  <2>1. folders[f] \in FolderRow
    BY <1>3, TableRows DEF DeleteFolder, TypeOK
  <2>2. Tombstone(folders[f], clock).owner = folders[f].owner
    BY <2>1 DEF Tombstone, FolderRow
  <2> QED BY <1>3, <2>2 DEF DeleteFolder, FoldersKept, Put
<1> QED BY <1>1, <1>2, <1>3

LEMMA StepKeeps ==
  ASSUME TypeOK, [Next]_vars
  PROVE  FoldersKept /\ DocumentsKept /\ PagesKept /\ FilesKept
<1>1. /\ folders' = folders => FoldersKept
      /\ documents' = documents => DocumentsKept /\ FilesKept
      /\ pages' = pages => PagesKept
  BY DEF FoldersKept, DocumentsKept, PagesKept, FilesKept
<1> DEFINE Goal == FoldersKept /\ DocumentsKept /\ PagesKept /\ FilesKept
<1>2. ASSUME NEW p, NEW f, NEW name, NEW gone, NEW ts,
             UpsertFolder(p, f, name, gone, ts)
      PROVE  Goal
  BY <1>1, <1>2, UpsertFolderKeeps DEF UpsertFolder
<1>3. ASSUME NEW p, NEW d, NEW folder, NEW url, NEW gone, NEW ts,
             UpsertDocument(p, d, folder, url, gone, ts)
      PROVE  Goal
  BY <1>1, <1>3, UpsertDocumentKeeps DEF UpsertDocument
<1>4. ASSUME NEW p, NEW pg, NEW d, NEW image, NEW gone, NEW ts,
             UpsertPage(p, pg, d, image, gone, ts)
      PROVE  Goal
  BY <1>1, <1>4, UpsertPageKeeps DEF UpsertPage
<1>5. ASSUME NEW p \in Requests, RecordFile(p) PROVE Goal
  BY <1>1, <1>5, RecordFileKeeps DEF RecordFile
<1>6. ASSUME FolderRequest PROVE Goal
  BY <1>1, <1>6, FolderRequestKeeps DEF FolderRequest, CreateFolder, DeleteFolder
<1>7. ASSUME folders' = folders, documents' = documents, pages' = pages PROVE Goal
  BY <1>1, <1>7
<1> HIDE DEF Goal
<1>8. ASSUME NEW p \in Requests, Push(p) PROVE Goal
  <2>1. CASE PushItem(p)
    BY <2>1, <1>2, <1>3, <1>4 DEF PushItem
  <2>2. CASE ~PushItem(p)
    BY <1>7, <1>8, <2>2 DEF Push, PushFolders, PushDocuments, PushPages, PushDone
  <2> QED BY <2>1, <2>2
<1>9. ASSUME NEW p \in Requests, Upload(p) \/ RequestFails(p) PROVE Goal
  BY <1>5, <1>7, <1>9 DEF Upload, UploadFile, RequestFails
<1>10. ASSUME Tick \/ UNCHANGED vars PROVE Goal
  BY <1>7, <1>10 DEF Tick, vars
<1>11. Goal
  BY <1>6, <1>8, <1>9, <1>10 DEF Next
<1> QED BY <1>11 DEF Goal

\* No row is ever lost, changes its account or moves to another document.
THEOREM RowsAreKept == Spec => RowsKeepTheirPlace
<1>1. TypeOK /\ [Next]_vars => [FoldersKept /\ DocumentsKept /\ PagesKept]_vars
  BY StepKeeps
<1> QED BY <1>1, TypeCorrect, PTL DEF Spec, RowsKeepTheirPlace

\* A document that has a file loses it only to a later edit that says it is empty.
THEOREM FilesAreKept == Spec => FileKeptUnlessEmptied
<1>1. TypeOK /\ [Next]_vars => [FilesKept]_vars
  BY StepKeeps
<1> QED BY <1>1, TypeCorrect, PTL DEF Spec, FileKeptUnlessEmptied

-----------------------------------------------------------------------------
\* An upload stamps the document with a time read before its UPDATE, which may be
\* earlier than the edit already stored.  Every other step moves times forward.
UploadsKeepOrder ==
  \A p \in Requests :
    RecordFile(p) => \A d \in DOMAIN documents : documents[d].cts <= documents'[d].cts

EditTimesRise(old, new) == \A id \in DOMAIN old : old[id].cts <= new[id].cts

LEMMA UpsertRises ==
  ASSUME NEW table, NEW id, NEW row, NEW merged,
         \A k \in DOMAIN table : table[k].cts \in Nat,
         row.cts \in Nat, merged.cts = row.cts
  PROVE  EditTimesRise(table, Upsert(table, id, row, merged))
<1>1. CASE ~Accepts(table, id, row.cts)
  BY <1>1 DEF Upsert, EditTimesRise
<1>2. CASE Accepts(table, id, row.cts) /\ id \in DOMAIN table
  BY <1>2 DEF Upsert, Accepts, EditTimesRise, Put
<1>3. CASE id \notin DOMAIN table
  BY <1>3 DEF Upsert, Accepts, EditTimesRise, Put
<1> QED BY <1>1, <1>2, <1>3

LEMMA StepRises ==
  ASSUME TypeOK, [Next]_vars, UploadsKeepOrder
  PROVE  /\ EditTimesRise(folders, folders')
         /\ EditTimesRise(documents, documents')
         /\ EditTimesRise(pages, pages')
<1> DEFINE Goal == /\ EditTimesRise(folders, folders')
                   /\ EditTimesRise(documents, documents')
                   /\ EditTimesRise(pages, pages')
<1>1. Times \subseteq Nat /\ ServerTimes \subseteq Nat
  BY SyncAssumption DEF Times, ServerTimes
<1>2. /\ \A f \in DOMAIN folders : folders[f] \in FolderRow /\ folders[f].cts \in Nat
      /\ \A d \in DOMAIN documents : documents[d].cts \in Nat
      /\ \A pg \in DOMAIN pages : pages[pg].cts \in Nat
  <2>1. /\ \A f \in DOMAIN folders : folders[f] \in FolderRow
        /\ \A d \in DOMAIN documents : documents[d] \in DocumentRow
        /\ \A pg \in DOMAIN pages : pages[pg] \in PageRow
    BY TableRows DEF TypeOK
  <2> QED BY <1>1, <2>1 DEF FolderRow, DocumentRow, PageRow
<1>3. /\ folders' = folders => EditTimesRise(folders, folders')
      /\ documents' = documents => EditTimesRise(documents, documents')
      /\ pages' = pages => EditTimesRise(pages, pages')
  BY <1>2 DEF EditTimesRise
<1>4. \A p \in Requests, ts \in ItemTimes :
        req[p].pc # "idle" => ClientTime(ts, req[p].now) \in Nat
  BY <1>1, RequestFields, ItemStamps
<1>5. ASSUME NEW p \in Requests, NEW f, NEW name, NEW gone, NEW ts \in ItemTimes,
             UpsertFolder(p, f, name, gone, ts)
      PROVE  Goal
  <2> DEFINE cts == ClientTime(ts, req[p].now)
             row == [owner |-> req[p].user, name |-> name,
                     deleted |-> DeletedAt(gone, cts), cts |-> cts, uts |-> req[p].now]
             merged == FolderConflict(folders[f], row)
  <2>1. cts \in Nat /\ row.cts = cts /\ merged.cts = cts
    BY <1>4, <1>5 DEF UpsertFolder, FolderConflict
  <2>2. folders' = Upsert(folders, f, row, merged)
    BY <1>5 DEF UpsertFolder
  <2>3. documents' = documents /\ pages' = pages
    BY <1>5 DEF UpsertFolder
  <2> HIDE DEF cts, row, merged
  <2>4. EditTimesRise(folders, folders')
    BY <1>2, <2>1, <2>2, UpsertRises
  <2> QED BY <1>3, <2>3, <2>4
<1>6. ASSUME NEW p \in Requests, NEW d, NEW folder, NEW url, NEW gone, NEW ts \in ItemTimes,
             UpsertDocument(p, d, folder, url, gone, ts)
      PROVE  Goal
  <2> DEFINE cts == ClientTime(ts, req[p].now)
             row == [owner |-> req[p].user, folder |-> folder, url |-> url,
                     deleted |-> DeletedAt(gone, cts), cts |-> cts, uts |-> req[p].now]
             merged == DocumentConflict(documents[d], row)
  <2>1. cts \in Nat /\ row.cts = cts /\ merged.cts = cts
    BY <1>4, <1>6 DEF UpsertDocument, DocumentConflict
  <2>2. documents' \in {documents, Upsert(documents, d, row, merged)}
    BY <1>6 DEF UpsertDocument
  <2>3. folders' = folders /\ pages' = pages
    BY <1>6 DEF UpsertDocument
  <2> HIDE DEF cts, row, merged
  <2>4. EditTimesRise(documents, documents')
    BY <1>2, <1>3, <2>1, <2>2, UpsertRises
  <2> QED BY <1>3, <2>3, <2>4
<1>7. ASSUME NEW p \in Requests, NEW pg, NEW d, NEW image, NEW gone, NEW ts \in ItemTimes,
             UpsertPage(p, pg, d, image, gone, ts)
      PROVE  Goal
  <2> DEFINE cts == ClientTime(ts, req[p].now)
             row == [doc |-> d, image |-> image, deleted |-> DeletedAt(gone, cts),
                     cts |-> cts, created |-> req[p].now]
             merged == PageConflict(pages[pg], row)
  <2>1. cts \in Nat /\ row.cts = cts /\ merged.cts = cts
    BY <1>4, <1>7 DEF UpsertPage, PageConflict
  <2>2. pages' \in {pages, Upsert(pages, pg, row, merged)}
    BY <1>7 DEF UpsertPage
  <2>3. folders' = folders /\ documents' = documents
    BY <1>7 DEF UpsertPage
  <2> HIDE DEF cts, row, merged
  <2>4. EditTimesRise(pages, pages')
    BY <1>2, <1>3, <2>1, <2>2, UpsertRises
  <2> QED BY <1>3, <2>3, <2>4
<1>8. ASSUME NEW p \in Requests, RecordFile(p) PROVE Goal
  <2>1. folders' = folders /\ pages' = pages
    BY <1>8 DEF RecordFile
  <2>2. EditTimesRise(documents, documents')
    BY <1>8 DEF UploadsKeepOrder, EditTimesRise
  <2> QED BY <1>3, <2>1, <2>2
<1>9. ASSUME FolderRequest PROVE Goal
  <2>1. PICK user \in Users, f \in FolderIds :
          (\E name \in Names : CreateFolder(user, f, name)) \/ DeleteFolder(user, f)
    BY <1>9 DEF FolderRequest
  <2>2. documents' = documents /\ pages' = pages
    BY <2>1 DEF CreateFolder, DeleteFolder
  <2>3. CASE \E name \in Names : CreateFolder(user, f, name)
    <3>1. EditTimesRise(folders, folders')
      BY <1>2, <2>3 DEF CreateFolder, EditTimesRise, Put
    <3> QED BY <1>3, <2>2, <3>1
  <2>4. CASE DeleteFolder(user, f)
    <3>1. Tombstone(folders[f], clock).cts = folders[f].cts
      BY <1>2, <2>4 DEF DeleteFolder, Tombstone, FolderRow
    <3>2. EditTimesRise(folders, folders')
      BY <1>2, <2>4, <3>1 DEF DeleteFolder, EditTimesRise, Put
    <3> QED BY <1>3, <2>2, <3>2
  <2> QED BY <2>1, <2>3, <2>4
<1>10. ASSUME folders' = folders, documents' = documents, pages' = pages PROVE Goal
  BY <1>3, <1>10
<1> HIDE DEF Goal
<1>11. ASSUME NEW p \in Requests, Push(p) PROVE Goal
  <2>1. CASE PushItem(p)
    BY <2>1, <1>5, <1>6, <1>7 DEF PushItem
  <2>2. CASE ~PushItem(p)
    BY <1>10, <1>11, <2>2 DEF Push, PushFolders, PushDocuments, PushPages, PushDone
  <2> QED BY <2>1, <2>2
<1>12. ASSUME NEW p \in Requests, Upload(p) \/ RequestFails(p) PROVE Goal
  BY <1>8, <1>10, <1>12 DEF Upload, UploadFile, RequestFails
<1>13. ASSUME Tick \/ UNCHANGED vars PROVE Goal
  BY <1>10, <1>13 DEF Tick, vars
<1>14. Goal
  BY <1>9, <1>11, <1>12, <1>13 DEF Next
<1> QED BY <1>14 DEF Goal

-----------------------------------------------------------------------------
(* The conflict rule *)

\* The history only watches: its steps are steps of the store.
LEMMA HistoryStep == [HNext]_hvars => [Next]_vars
<1>1. ASSUME NEW p \in Requests, HPushItem(p) PROVE PushItem(p)
  <2>1. PICK gone \in BOOLEAN, ts \in ItemTimes :
          \/ \E f \in FolderIds, name \in Names : HUpsertFolder(p, f, name, gone, ts)
          \/ \E d \in DocIds : \E folder \in FolderIds \cup {NULL}, url \in PushedUrls(d) :
               HUpsertDocument(p, d, folder, url, gone, ts)
          \/ \E pg \in PageIds, d \in DocIds, image \in Images \cup {NULL} :
               HUpsertPage(p, pg, d, image, gone, ts)
    BY <1>1 DEF HPushItem
  <2>2. CASE \E f \in FolderIds, name \in Names : HUpsertFolder(p, f, name, gone, ts)
    <3>1. \E f \in FolderIds, name \in Names : UpsertFolder(p, f, name, gone, ts)
      BY <2>2, Zenon DEF HUpsertFolder
    <3> QED BY <3>1, Zenon DEF PushItem
  <2>3. CASE \E d \in DocIds : \E folder \in FolderIds \cup {NULL}, url \in PushedUrls(d) :
               HUpsertDocument(p, d, folder, url, gone, ts)
    <3>1. \E d \in DocIds : \E folder \in FolderIds \cup {NULL}, url \in PushedUrls(d) :
            UpsertDocument(p, d, folder, url, gone, ts)
      BY <2>3, Zenon DEF HUpsertDocument
    <3> QED BY <3>1, Zenon DEF PushItem
  <2>4. CASE \E pg \in PageIds, d \in DocIds, image \in Images \cup {NULL} :
               HUpsertPage(p, pg, d, image, gone, ts)
    <3>1. \E pg \in PageIds, d \in DocIds, image \in Images \cup {NULL} :
            UpsertPage(p, pg, d, image, gone, ts)
      BY <2>4, Zenon DEF HUpsertPage
    <3> QED BY <3>1, Zenon DEF PushItem
  <2> QED BY <2>1, <2>2, <2>3, <2>4
<1>2. ASSUME NEW p \in Requests, HRecordFile(p) PROVE Upload(p)
  BY <1>2 DEF HRecordFile, Upload
<1>3. ASSUME NEW user \in Users, NEW f \in FolderIds, NEW name \in Names,
             HCreateFolder(user, f, name)
      PROVE  FolderRequest
  BY <1>3 DEF HCreateFolder, FolderRequest
<1>4. Silent => Next
  BY DEF Silent, Next, Push, Upload, FolderRequest
<1>5. UNCHANGED hvars => UNCHANGED vars
  BY DEF hvars
<1> QED BY <1>1, <1>2, <1>3, <1>4, <1>5 DEF HNext, Next, Push

\* Each table maps to a register; FolderFacts and its like give what is proved of
\* registers for that mapping.
FolderFacts == INSTANCE LastWriterWinsProofs
  WITH Ids <- FolderIds, Bodies <- Names, log <- folderLog, reg <- FolderValue

DocumentFacts == INSTANCE LastWriterWinsProofs
  WITH Ids <- DocIds, Bodies <- FolderIds \cup {NULL},
       log <- freshLog, reg <- DocumentValue

PageFacts == INSTANCE LastWriterWinsProofs
  WITH Ids <- PageIds, Bodies <- BOOLEAN, log <- pageLog, reg <- PageValue

\* The refinements as invariants: the log holds edits, and the row is the latest.
FolderInv == TypeOK /\ FolderFacts!TypeOK /\ FolderFacts!Latest

DocumentInv == TypeOK /\ DocumentFacts!TypeOK /\ DocumentFacts!Latest

PageInv == TypeOK /\ PageFacts!TypeOK /\ PageFacts!Latest

LEMMA TimesAreNat == Times \subseteq Nat /\ 0 \notin Times
BY SyncAssumption DEF Times, ServerTimes

\* The registers hold what the rows say.
LEMMA FolderValueRow ==
  /\ DOMAIN FolderValue = DOMAIN folders
  /\ \A f \in DOMAIN folders : FolderValue[f].ts = folders[f].cts
BY DEF FolderValue

LEMMA DocumentValueRow ==
  /\ DOMAIN DocumentValue = DOMAIN documents
  /\ \A d \in DOMAIN documents : DocumentValue[d].ts = documents[d].cts
BY DEF DocumentValue

LEMMA PageValueRow ==
  /\ DOMAIN PageValue = DOMAIN pages
  /\ \A pg \in DOMAIN pages : PageValue[pg].ts = pages[pg].cts
BY DEF PageValue

LEMMA RowTimes ==
  ASSUME TypeOK
  PROVE  /\ \A f \in DOMAIN folders : folders[f] \in FolderRow /\ folders[f].cts \in Nat
         /\ \A d \in DOMAIN documents :
              documents[d] \in DocumentRow /\ documents[d].cts \in Nat
         /\ \A pg \in DOMAIN pages : pages[pg] \in PageRow /\ pages[pg].cts \in Nat
<1>1. /\ \A f \in DOMAIN folders : folders[f] \in FolderRow
      /\ \A d \in DOMAIN documents : documents[d] \in DocumentRow
      /\ \A pg \in DOMAIN pages : pages[pg] \in PageRow
  BY TableRows DEF TypeOK
<1> QED BY <1>1, TimesAreNat DEF FolderRow, DocumentRow, PageRow

\* The WHERE of an upsert refuses exactly the edits that are late.
LEMMA FolderAccepts ==
  ASSUME FolderInv, NEW f \in FolderIds, NEW ts \in Times
  PROVE  Accepts(folders, f, ts) <=> ~\E x \in folderLog[f] : x.ts >= ts
<1>1. (f \in DOMAIN FolderValue /\ ts <= FolderValue[f].ts)
        <=> \E x \in folderLog[f] : x.ts >= ts
  BY TimesAreNat, FolderFacts!LateWrites DEF FolderInv
<1>2. ts \in Nat /\ \A k \in DOMAIN folders : folders[k].cts \in Nat
  BY TimesAreNat, RowTimes DEF FolderInv
<1> QED BY <1>1, <1>2, FolderValueRow DEF Accepts

LEMMA DocumentAccepts ==
  ASSUME DocumentInv, NEW d \in DocIds, NEW ts \in Times
  PROVE  Accepts(documents, d, ts) <=> ~\E x \in freshLog[d] : x.ts >= ts
<1>1. (d \in DOMAIN DocumentValue /\ ts <= DocumentValue[d].ts)
        <=> \E x \in freshLog[d] : x.ts >= ts
  BY TimesAreNat, DocumentFacts!LateWrites DEF DocumentInv
<1>2. ts \in Nat /\ \A k \in DOMAIN documents : documents[k].cts \in Nat
  BY TimesAreNat, RowTimes DEF DocumentInv
<1> QED BY <1>1, <1>2, DocumentValueRow DEF Accepts

LEMMA PageAccepts ==
  ASSUME PageInv, NEW pg \in PageIds, NEW ts \in Times
  PROVE  Accepts(pages, pg, ts) <=> ~\E x \in pageLog[pg] : x.ts >= ts
<1>1. (pg \in DOMAIN PageValue /\ ts <= PageValue[pg].ts)
        <=> \E x \in pageLog[pg] : x.ts >= ts
  BY TimesAreNat, PageFacts!LateWrites DEF PageInv
<1>2. ts \in Nat /\ \A k \in DOMAIN pages : pages[k].cts \in Nat
  BY TimesAreNat, RowTimes DEF PageInv
<1> QED BY <1>1, <1>2, PageValueRow DEF Accepts

-----------------------------------------------------------------------------
(* Folders *)

\* The ways an edit reaches a folder are steps of its register.
LEMMA UpsertFolderReceives ==
  ASSUME FolderInv, NEW p \in Requests, NEW f \in FolderIds, NEW name \in Names,
         NEW gone \in BOOLEAN, NEW ts \in ItemTimes,
         HUpsertFolder(p, f, name, gone, ts)
  PROVE  \E w \in FolderFacts!Write : FolderFacts!Receive(f, w)
<1> DEFINE cts == ClientTime(ts, req[p].now)
           row == [owner |-> req[p].user, name |-> name,
                   deleted |-> DeletedAt(gone, cts), cts |-> cts, uts |-> req[p].now]
           merged == FolderConflict(folders[f], row)
           w == [ts |-> cts, body |-> name]
<1>1. folders' = Upsert(folders, f, row, merged) /\ folderLog' = Received(folderLog, f, w)
  BY DEF HUpsertFolder, UpsertFolder
<1>2. cts \in Times /\ w \in FolderFacts!Write
  BY RequestFields, ItemStamps
  DEF FolderInv, HUpsertFolder, UpsertFolder, FolderFacts!Write
<1>3. /\ row.cts = cts /\ row.name = name
      /\ merged.cts = cts /\ merged.name = name
      /\ w.ts = cts /\ w.body = name
  BY DEF FolderConflict
<1>4. ASSUME Accepts(folders, f, cts) PROVE FolderValue' = Put(FolderValue, f, w)
  <2> DEFINE written == IF f \in DOMAIN folders THEN merged ELSE row
  <2>1. folders' = Put(folders, f, written)
    BY <1>1, <1>3, <1>4 DEF Upsert
  <2>2. [ts |-> written.cts, body |-> written.name] = w
    BY <1>3
  <2> HIDE DEF written, w
  <2> QED BY <2>1, <2>2 DEF FolderValue, Put
<1>5. ASSUME ~Accepts(folders, f, cts) PROVE FolderValue' = FolderValue
  BY <1>1, <1>3, <1>5 DEF Upsert, FolderValue
<1>6. Accepts(folders, f, cts) <=> ~\E x \in folderLog[f] : x.ts >= cts
  BY <1>2, FolderAccepts
<1> HIDE DEF w, cts
<1>7. FolderFacts!Receive(f, w)
  BY <1>1, <1>3, <1>4, <1>5, <1>6
  DEF Received, FolderFacts!Receive, FolderFacts!Put, Put
<1> QED BY <1>2, <1>7

LEMMA CreateFolderReceives ==
  ASSUME FolderInv, NEW user \in Users, NEW f \in FolderIds, NEW name \in Names,
         HCreateFolder(user, f, name)
  PROVE  \E w \in FolderFacts!Write : FolderFacts!Receive(f, w)
<1> DEFINE w == [ts |-> clock, body |-> name]
           row == [owner |-> user, name |-> name, deleted |-> 0,
                   cts |-> clock, uts |-> clock]
<1>1. /\ f \notin DOMAIN folders
      /\ folders' = Put(folders, f, row)
      /\ folderLog' = Received(folderLog, f, w)
  BY DEF HCreateFolder, CreateFolder
<1>2. w \in FolderFacts!Write /\ w.ts = clock /\ clock \in Times
  BY DEF FolderInv, TypeOK, FolderFacts!Write, Times
<1>3. [ts |-> row.cts, body |-> row.name] = w
  OBVIOUS
<1> HIDE DEF row, w
<1>4. FolderValue' = Put(FolderValue, f, w)
  BY <1>1, <1>3 DEF FolderValue, Put
<1>5. ~\E x \in folderLog[f] : x.ts >= w.ts
  BY <1>1, <1>2, FolderAccepts DEF Accepts
<1>6. FolderFacts!Receive(f, w)
  BY <1>1, <1>4, <1>5 DEF Received, FolderFacts!Receive, FolderFacts!Put, Put
<1> QED BY <1>2, <1>6

\* Every other step leaves the folders' names, times and log alone.
LEMMA FolderSteps ==
  ASSUME FolderInv, [HNext]_hvars
  PROVE  \/ \E f \in FolderIds, w \in FolderFacts!Write : FolderFacts!Receive(f, w)
         \/ FolderValue' = FolderValue /\ folderLog' = folderLog
<1> DEFINE Goal ==
      \/ \E f \in FolderIds, w \in FolderFacts!Write : FolderFacts!Receive(f, w)
      \/ FolderValue' = FolderValue /\ folderLog' = folderLog
<1>1. ASSUME folders' = folders, folderLog' = folderLog PROVE Goal
  BY <1>1 DEF FolderValue
<1>2. ASSUME NEW p \in Requests, HPushItem(p) PROVE Goal
  <2>1. \A d, folder, url, gone, ts : HUpsertDocument(p, d, folder, url, gone, ts) =>
          folders' = folders /\ folderLog' = folderLog
    BY DEF HUpsertDocument, UpsertDocument
  <2>2. \A pg, d, image, gone, ts : HUpsertPage(p, pg, d, image, gone, ts) =>
          folders' = folders /\ folderLog' = folderLog
    BY DEF HUpsertPage, UpsertPage
  <2> QED BY <1>1, <1>2, <2>1, <2>2, UpsertFolderReceives DEF HPushItem
<1>3. ASSUME NEW p \in Requests, HRecordFile(p) PROVE Goal
  BY <1>1, <1>3 DEF HRecordFile, RecordFile
<1>4. ASSUME NEW user \in Users, NEW f \in FolderIds, NEW name \in Names,
             HCreateFolder(user, f, name)
      PROVE  Goal
  BY <1>4, CreateFolderReceives
<1>5. ASSUME NEW user \in Users, NEW f \in FolderIds, DeleteFolder(user, f)
      PROVE  FolderValue' = FolderValue
  <2>1. folders[f] \in FolderRow
    BY <1>5, RowTimes DEF DeleteFolder, FolderInv
  <2>2. /\ Tombstone(folders[f], clock).cts = folders[f].cts
        /\ Tombstone(folders[f], clock).name = folders[f].name
    BY <2>1 DEF Tombstone, FolderRow
  <2>3. folders' = Put(folders, f, Tombstone(folders[f], clock)) /\ f \in DOMAIN folders
    BY <1>5 DEF DeleteFolder
  <2>4. DOMAIN folders' = DOMAIN folders
    BY <2>3 DEF Put
  <2>5. \A k \in DOMAIN folders :
          folders'[k].cts = folders[k].cts /\ folders'[k].name = folders[k].name
    BY <2>2, <2>3 DEF Put
  <2> QED BY <2>4, <2>5 DEF FolderValue
<1>6. ASSUME Silent, UNCHANGED logs PROVE Goal
  <2>1. folderLog' = folderLog
    BY <1>6 DEF logs
  <2>2. folders' = folders \/ \E user \in Users, f \in FolderIds : DeleteFolder(user, f)
    BY <1>6 DEF Silent, PushFolders, UploadFile, PushDocuments, PushPages, PushDone,
                RequestFails, Tick
  <2> QED BY <1>1, <1>5, <2>1, <2>2
<1>7. ASSUME UNCHANGED hvars PROVE Goal
  BY <1>1, <1>7 DEF hvars, vars, logs
<1> HIDE DEF Goal
<1>8. Goal
  BY <1>2, <1>3, <1>4, <1>6, <1>7 DEF HNext
<1> QED BY <1>8 DEF Goal

LEMMA FolderInvStep ==
  ASSUME FolderInv, [HNext]_hvars
  PROVE  FolderInv' /\ [FolderFacts!Next]_<<folderLog, FolderValue>>
<1>1. TypeOK'
  BY HistoryStep, TypeStep DEF FolderInv
<1>2. CASE \E f \in FolderIds, w \in FolderFacts!Write : FolderFacts!Receive(f, w)
  BY <1>1, <1>2, TimesAreNat, FolderFacts!ReceiveStep DEF FolderInv, FolderFacts!Next
<1>3. CASE FolderValue' = FolderValue /\ folderLog' = folderLog
  BY <1>1, <1>3 DEF FolderInv, FolderFacts!TypeOK, FolderFacts!Latest
<1> QED BY <1>2, <1>3, FolderSteps

-----------------------------------------------------------------------------
(* Documents *)

LEMMA UpsertDocumentReceives ==
  ASSUME DocumentInv, NEW p \in Requests, NEW d \in DocIds,
         NEW folder \in FolderIds \cup {NULL}, NEW url, NEW gone \in BOOLEAN,
         NEW ts \in ItemTimes, HUpsertDocument(p, d, folder, url, gone, ts)
  PROVE  \/ \E w \in DocumentFacts!Write : DocumentFacts!Receive(d, w)
         \/ DocumentValue' = DocumentValue /\ freshLog' = freshLog
<1> DEFINE cts == ClientTime(ts, req[p].now)
           row == [owner |-> req[p].user, folder |-> folder, url |-> url,
                   deleted |-> DeletedAt(gone, cts), cts |-> cts, uts |-> req[p].now]
           merged == DocumentConflict(documents[d], row)
           w == [ts |-> cts, body |-> folder]
<1>1. \/ /\ documents' = Upsert(documents, d, row, merged)
         /\ freshLog' = Received(freshLog, d, w)
      \/ documents' = documents /\ freshLog' = freshLog
  <2>1. CASE req' = req
    <3>1. req[p].pc = "documents" /\ req \in [Requests -> RequestState]
      BY DEF DocumentInv, TypeOK, HUpsertDocument, UpsertDocument
    <3>2. ~EndRequest(p)
      BY <2>1, <3>1 DEF EndRequest, Idle
    <3> QED BY <2>1, <3>2 DEF HUpsertDocument, UpsertDocument
  <2>2. CASE req' # req
    BY <2>2 DEF HUpsertDocument, UpsertDocument
  <2> QED BY <2>1, <2>2
<1>2. cts \in Times /\ w \in DocumentFacts!Write
  BY RequestFields, ItemStamps
  DEF DocumentInv, HUpsertDocument, UpsertDocument, DocumentFacts!Write
<1>3. /\ row.cts = cts /\ row.folder = folder
      /\ merged.cts = cts /\ merged.folder = folder
      /\ w.ts = cts /\ w.body = folder
  BY DEF DocumentConflict
<1>4. CASE documents' = documents /\ freshLog' = freshLog
  BY <1>4 DEF DocumentValue
<1>5. CASE /\ documents' = Upsert(documents, d, row, merged)
           /\ freshLog' = Received(freshLog, d, w)
  <2>1. ASSUME Accepts(documents, d, cts) PROVE DocumentValue' = Put(DocumentValue, d, w)
    <3> DEFINE written == IF d \in DOMAIN documents THEN merged ELSE row
    <3>1. documents' = Put(documents, d, written)
      BY <1>3, <1>5, <2>1 DEF Upsert
    <3>2. [ts |-> written.cts, body |-> written.folder] = w
      BY <1>3
    <3> HIDE DEF written, w
    <3> QED BY <3>1, <3>2 DEF DocumentValue, Put
  <2>2. ASSUME ~Accepts(documents, d, cts) PROVE DocumentValue' = DocumentValue
    BY <1>3, <1>5, <2>2 DEF Upsert, DocumentValue
  <2>3. Accepts(documents, d, cts) <=> ~\E x \in freshLog[d] : x.ts >= cts
    BY <1>2, DocumentAccepts
  <2> HIDE DEF w, cts
  <2>4. DocumentFacts!Receive(d, w)
    BY <1>3, <1>5, <2>1, <2>2, <2>3
    DEF Received, DocumentFacts!Receive, DocumentFacts!Put, Put
  <2> QED BY <1>2, <2>4
<1> QED BY <1>1, <1>4, <1>5

\* An upload is an edit at its own time.  The row takes that time whatever it had
\* before: when it had a later one, its register is set back.
LEMMA RecordFileReceives ==
  ASSUME DocumentInv, NEW p \in Requests, HRecordFile(p)
  PROVE  \/ \E d \in DocIds, w \in DocumentFacts!Write : DocumentFacts!Receive(d, w)
         \/ /\ ~UploadsKeepOrder
            /\ \E d \in DocIds, time \in Times : DocumentFacts!SetBack(d, time)
         \/ DocumentValue' = DocumentValue /\ freshLog' = freshLog
<1> DEFINE key == req[p].key
           d == key[2]
           now == req[p].now
           old == documents[d]
           row == WithFile(old, key, now)
           w == [ts |-> now, body |-> old.folder]
<1>1. RecordFile(p)
  BY DEF HRecordFile
<1>2. CASE documents' = documents
  BY <1>2 DEF HRecordFile, DocumentValue
<1>3. CASE documents' # documents
  <2>1. d \in DOMAIN documents /\ documents' = Put(documents, d, row)
    BY <1>1, <1>3 DEF RecordFile
  <2>2. freshLog' = IF now < old.cts THEN [freshLog EXCEPT ![d] = {w}]
                    ELSE Received(freshLog, d, w)
    BY <1>3 DEF HRecordFile
  <2>3. d \in DocIds /\ old \in DocumentRow /\ old.cts \in Nat
    BY <2>1, RowTimes, TableRows DEF DocumentInv, TypeOK
  <2>4. now \in ServerTimes /\ now \in Times /\ now \in Nat
    BY <1>1, RequestFields, TimesAreNat DEF DocumentInv, RecordFile, Times
  <2>5. row.cts = now /\ row.folder = old.folder
    BY <2>3 DEF WithFile, DocumentRow
  <2>6. documents'[d] = row
    BY <2>1 DEF Put
  <2>7. UploadsKeepOrder => old.cts <= now
    BY <1>1, <2>1, <2>5, <2>6 DEF UploadsKeepOrder
  <2>8. w \in DocumentFacts!Write /\ w.ts = now /\ w.body = old.folder
    BY <2>3, <2>4 DEF DocumentRow, DocumentFacts!Write
  <2>9. /\ DOMAIN DocumentValue = DOMAIN documents
        /\ DocumentValue[d] = [ts |-> old.cts, body |-> old.folder]
    BY <2>1 DEF DocumentValue
  <2>10. DocumentValue' = Put(DocumentValue, d, w)
    <3>1. [ts |-> row.cts, body |-> row.folder] = w
      BY <2>5
    <3> HIDE DEF row, w
    <3> QED BY <2>1, <3>1 DEF DocumentValue, Put
  <2>11. Accepts(documents, d, now) <=> ~\E x \in freshLog[d] : x.ts >= now
    BY <2>3, <2>4, DocumentAccepts
  <2>12. CASE old.cts < now
    <3>1. Accepts(documents, d, now)
      BY <2>3, <2>4, <2>12 DEF Accepts
    <3>2. DocumentFacts!Receive(d, w)
      <4> HIDE DEF w, d
      <4> QED BY <2>3, <2>4, <2>12, <2>2, <2>8, <2>10, <2>11, <3>1
              DEF Received, DocumentFacts!Receive, DocumentFacts!Put, Put
    <3> QED BY <2>3, <2>8, <3>2
  <2>13. CASE old.cts = now
    <3>1. ~Accepts(documents, d, now)
      BY <2>1, <2>3, <2>13 DEF Accepts
    <3>2. DocumentValue[d] = w
      BY <2>9, <2>13
    <3>3. DocumentValue' = DocumentValue
      <4> HIDE DEF w, d
      <4> QED BY <2>1, <2>9, <2>10, <3>2 DEF Put, DocumentValue
    <3>4. DocumentFacts!Receive(d, w)
      <4> HIDE DEF w, d
      <4> QED BY <2>4, <2>13, <2>2, <2>8, <2>11, <3>1, <3>3
              DEF Received, DocumentFacts!Receive
    <3> QED BY <2>3, <2>8, <3>4
  <2>14. CASE now < old.cts
    <3>1. ~UploadsKeepOrder
      BY <2>3, <2>4, <2>7, <2>14
    <3>2. /\ d \in DOMAIN DocumentValue /\ DocumentValue[d].ts = old.cts
          /\ [DocumentValue[d] EXCEPT !.ts = now] = w
      BY <2>1, <2>9
    <3>3. freshLog' = [freshLog EXCEPT ![d] = {w}]
      BY <2>2, <2>14
    <3>4. DocumentFacts!SetBack(d, now)
      <4> HIDE DEF w, d
      <4> QED BY <2>10, <2>14, <3>2, <3>3 DEF DocumentFacts!SetBack, DocumentFacts!Put, Put
    <3> QED BY <2>3, <2>4, <3>1, <3>4
  <2> QED BY <2>3, <2>4, <2>12, <2>13, <2>14
<1> QED BY <1>2, <1>3

LEMMA DocumentSteps ==
  ASSUME DocumentInv, [HNext]_hvars
  PROVE  \/ \E d \in DocIds, w \in DocumentFacts!Write : DocumentFacts!Receive(d, w)
         \/ /\ ~UploadsKeepOrder
            /\ \E d \in DocIds, time \in Times : DocumentFacts!SetBack(d, time)
         \/ DocumentValue' = DocumentValue /\ freshLog' = freshLog
<1> DEFINE Goal ==
      \/ \E d \in DocIds, w \in DocumentFacts!Write : DocumentFacts!Receive(d, w)
      \/ /\ ~UploadsKeepOrder
         /\ \E d \in DocIds, time \in Times : DocumentFacts!SetBack(d, time)
      \/ DocumentValue' = DocumentValue /\ freshLog' = freshLog
<1>1. ASSUME documents' = documents, freshLog' = freshLog PROVE Goal
  BY <1>1 DEF DocumentValue
<1>2. ASSUME NEW p \in Requests, HPushItem(p) PROVE Goal
  <2>1. \A f, name, gone, ts : HUpsertFolder(p, f, name, gone, ts) =>
          documents' = documents /\ freshLog' = freshLog
    BY DEF HUpsertFolder, UpsertFolder
  <2>2. \A pg, d, image, gone, ts : HUpsertPage(p, pg, d, image, gone, ts) =>
          documents' = documents /\ freshLog' = freshLog
    BY DEF HUpsertPage, UpsertPage
  <2> QED BY <1>1, <1>2, <2>1, <2>2, UpsertDocumentReceives DEF HPushItem
<1>3. ASSUME NEW p \in Requests, HRecordFile(p) PROVE Goal
  BY <1>3, RecordFileReceives
<1>4. ASSUME NEW user \in Users, NEW f \in FolderIds, NEW name \in Names,
             HCreateFolder(user, f, name)
      PROVE  Goal
  BY <1>1, <1>4 DEF HCreateFolder, CreateFolder
<1>5. ASSUME Silent, UNCHANGED logs PROVE Goal
  <2>1. freshLog' = freshLog
    BY <1>5 DEF logs
  <2>2. documents' = documents
    BY <1>5 DEF Silent, PushFolders, UploadFile, PushDocuments, PushPages, PushDone,
                RequestFails, DeleteFolder, Tick
  <2> QED BY <1>1, <2>1, <2>2
<1>6. ASSUME UNCHANGED hvars PROVE Goal
  BY <1>1, <1>6 DEF hvars, vars, logs
<1> HIDE DEF Goal
<1>7. Goal
  BY <1>2, <1>3, <1>4, <1>5, <1>6 DEF HNext
<1> QED BY <1>7 DEF Goal

LEMMA DocumentInvStep ==
  ASSUME DocumentInv, [HNext]_hvars
  PROVE  /\ DocumentInv'
         /\ [DocumentFacts!NextAfresh]_<<freshLog, DocumentValue>>
         /\ UploadsKeepOrder => [DocumentFacts!Next]_<<freshLog, DocumentValue>>
<1>1. TypeOK'
  BY HistoryStep, TypeStep DEF DocumentInv
<1>2. CASE \E d \in DocIds, w \in DocumentFacts!Write : DocumentFacts!Receive(d, w)
  BY <1>1, <1>2, TimesAreNat, DocumentFacts!ReceiveStep
  DEF DocumentInv, DocumentFacts!Next, DocumentFacts!NextAfresh
<1>3. CASE /\ ~UploadsKeepOrder
           /\ \E d \in DocIds, time \in Times : DocumentFacts!SetBack(d, time)
  BY <1>1, <1>3, TimesAreNat, DocumentFacts!SetBackStep
  DEF DocumentInv, DocumentFacts!NextAfresh
<1>4. CASE DocumentValue' = DocumentValue /\ freshLog' = freshLog
  BY <1>1, <1>4 DEF DocumentInv, DocumentFacts!TypeOK, DocumentFacts!Latest
<1> QED BY <1>2, <1>3, <1>4, DocumentSteps

\* As long as no upload sets a time back, nothing is forgotten.
LEMMA NothingForgotten ==
  ASSUME TypeOK, documentLog = freshLog, [HNext]_hvars, [UploadsKeepOrder]_hvars
  PROVE  documentLog' = freshLog'
<1>1. ASSUME NEW p \in Requests, HPushItem(p) PROVE documentLog' = freshLog'
  BY <1>1 DEF HPushItem, HUpsertFolder, HUpsertDocument, HUpsertPage
<1>2. ASSUME NEW p \in Requests, HRecordFile(p), UploadsKeepOrder, documents' # documents
      PROVE  documentLog' = freshLog'
  <2> DEFINE d == req[p].key[2]
             row == WithFile(documents[d], req[p].key, req[p].now)
  <2>1. RecordFile(p)
    BY <1>2 DEF HRecordFile
  <2>2. d \in DOMAIN documents /\ documents' = Put(documents, d, row)
    BY <1>2, <2>1 DEF RecordFile
  <2>3. documents[d] \in DocumentRow /\ documents[d].cts \in Nat
    BY <2>2, RowTimes
  <2>4. req[p].now \in ServerTimes /\ req[p].now \in Nat
    BY <2>1, RequestFields, TimesAreNat DEF RecordFile, Times
  <2>5. documents'[d].cts = req[p].now
    <3>1. row.cts = req[p].now
      BY <2>3 DEF WithFile, DocumentRow
    <3>2. documents'[d] = row
      BY <2>2 DEF Put
    <3> QED BY <3>1, <3>2
  <2>6. ~(req[p].now < documents[d].cts)
    <3> HIDE DEF d, row
    <3>1. documents[d].cts <= documents'[d].cts
      BY <1>2, <2>1, <2>2 DEF UploadsKeepOrder
    <3> QED BY <2>3, <2>4, <2>5, <3>1
  <2> QED BY <1>2, <2>6 DEF HRecordFile
<1>3. ASSUME NEW p \in Requests, HRecordFile(p), documents' = documents
      PROVE  documentLog' = freshLog'
  BY <1>3 DEF HRecordFile
<1>4. ASSUME \/ UNCHANGED logs
             \/ \E user \in Users, f \in FolderIds, name \in Names :
                   HCreateFolder(user, f, name)
      PROVE  documentLog' = freshLog'
  BY <1>4 DEF HCreateFolder, logs
<1>5. UNCHANGED hvars => UNCHANGED logs
  BY DEF hvars
<1> QED BY <1>1, <1>2, <1>3, <1>4, <1>5 DEF HNext

-----------------------------------------------------------------------------
(* Pages *)

\* deleted_at is NULL exactly when the item was not deleted: no time is 0.
LEMMA DeletedMeans ==
  ASSUME NEW gone \in BOOLEAN, NEW cts \in Times
  PROVE  (DeletedAt(gone, cts) # 0) = gone
<1>1. cts # 0
  BY TimesAreNat
<1>2. CASE gone = TRUE
  BY <1>1, <1>2 DEF DeletedAt
<1>3. CASE gone = FALSE
  BY <1>3 DEF DeletedAt
<1> QED BY <1>2, <1>3

LEMMA UpsertPageReceives ==
  ASSUME PageInv, NEW p \in Requests, NEW pg \in PageIds, NEW d, NEW image,
         NEW gone \in BOOLEAN, NEW ts \in ItemTimes,
         HUpsertPage(p, pg, d, image, gone, ts)
  PROVE  \/ \E w \in PageFacts!Write : PageFacts!Receive(pg, w)
         \/ PageValue' = PageValue /\ pageLog' = pageLog
<1> DEFINE cts == ClientTime(ts, req[p].now)
           row == [doc |-> d, image |-> image, deleted |-> DeletedAt(gone, cts),
                   cts |-> cts, created |-> req[p].now]
           merged == PageConflict(pages[pg], row)
           w == [ts |-> cts, body |-> gone]
<1>1. \/ /\ pages' = Upsert(pages, pg, row, merged)
         /\ pageLog' = Received(pageLog, pg, w)
      \/ pages' = pages /\ pageLog' = pageLog
  <2>1. CASE req' = req
    <3>1. req[p].pc = "pages" /\ req \in [Requests -> RequestState]
      BY DEF PageInv, TypeOK, HUpsertPage, UpsertPage
    <3>2. ~EndRequest(p)
      BY <2>1, <3>1 DEF EndRequest, Idle
    <3> QED BY <2>1, <3>2 DEF HUpsertPage, UpsertPage
  <2>2. CASE req' # req
    BY <2>2 DEF HUpsertPage, UpsertPage
  <2> QED BY <2>1, <2>2
<1>2. cts \in Times /\ w \in PageFacts!Write
  BY RequestFields, ItemStamps
  DEF PageInv, HUpsertPage, UpsertPage, PageFacts!Write
<1>3. /\ row.cts = cts /\ row.deleted = DeletedAt(gone, cts)
      /\ merged.cts = cts /\ merged.deleted = DeletedAt(gone, cts)
      /\ w.ts = cts
  BY DEF PageConflict
<1>4. CASE pages' = pages /\ pageLog' = pageLog
  BY <1>4 DEF PageValue
<1>5. CASE /\ pages' = Upsert(pages, pg, row, merged)
           /\ pageLog' = Received(pageLog, pg, w)
  <2>1. ASSUME Accepts(pages, pg, cts) PROVE PageValue' = Put(PageValue, pg, w)
    <3> DEFINE written == IF pg \in DOMAIN pages THEN merged ELSE row
    <3>1. pages' = Put(pages, pg, written)
      BY <1>3, <1>5, <2>1 DEF Upsert
    <3>2. written.cts = cts /\ (written.deleted # 0) = gone
      BY <1>2, <1>3, DeletedMeans
    <3>3. [ts |-> written.cts, body |-> written.deleted # 0] = w
      BY <3>2
    <3> HIDE DEF written, w
    <3> QED BY <3>1, <3>3 DEF PageValue, Put
  <2>2. ASSUME ~Accepts(pages, pg, cts) PROVE PageValue' = PageValue
    BY <1>3, <1>5, <2>2 DEF Upsert, PageValue
  <2>3. Accepts(pages, pg, cts) <=> ~\E x \in pageLog[pg] : x.ts >= cts
    BY <1>2, PageAccepts
  <2> HIDE DEF w, cts
  <2>4. PageFacts!Receive(pg, w)
    BY <1>3, <1>5, <2>1, <2>2, <2>3
    DEF Received, PageFacts!Receive, PageFacts!Put, Put
  <2> QED BY <1>2, <2>4
<1> QED BY <1>1, <1>4, <1>5

LEMMA PageSteps ==
  ASSUME PageInv, [HNext]_hvars
  PROVE  \/ \E pg \in PageIds, w \in PageFacts!Write : PageFacts!Receive(pg, w)
         \/ PageValue' = PageValue /\ pageLog' = pageLog
<1> DEFINE Goal ==
      \/ \E pg \in PageIds, w \in PageFacts!Write : PageFacts!Receive(pg, w)
      \/ PageValue' = PageValue /\ pageLog' = pageLog
<1>1. ASSUME pages' = pages, pageLog' = pageLog PROVE Goal
  BY <1>1 DEF PageValue
<1>2. ASSUME NEW p \in Requests, HPushItem(p) PROVE Goal
  <2>1. \A f, name, gone, ts : HUpsertFolder(p, f, name, gone, ts) =>
          pages' = pages /\ pageLog' = pageLog
    BY DEF HUpsertFolder, UpsertFolder
  <2>2. \A d, folder, url, gone, ts : HUpsertDocument(p, d, folder, url, gone, ts) =>
          pages' = pages /\ pageLog' = pageLog
    BY DEF HUpsertDocument, UpsertDocument
  <2> QED BY <1>1, <1>2, <2>1, <2>2, UpsertPageReceives DEF HPushItem
<1>3. ASSUME NEW p \in Requests, HRecordFile(p) PROVE Goal
  BY <1>1, <1>3 DEF HRecordFile, RecordFile
<1>4. ASSUME NEW user \in Users, NEW f \in FolderIds, NEW name \in Names,
             HCreateFolder(user, f, name)
      PROVE  Goal
  BY <1>1, <1>4 DEF HCreateFolder, CreateFolder
<1>5. ASSUME Silent, UNCHANGED logs PROVE Goal
  <2>1. pageLog' = pageLog
    BY <1>5 DEF logs
  <2>2. pages' = pages
    BY <1>5 DEF Silent, PushFolders, UploadFile, PushDocuments, PushPages, PushDone,
                RequestFails, DeleteFolder, Tick
  <2> QED BY <1>1, <2>1, <2>2
<1>6. ASSUME UNCHANGED hvars PROVE Goal
  BY <1>1, <1>6 DEF hvars, vars, logs
<1> HIDE DEF Goal
<1>7. Goal
  BY <1>2, <1>3, <1>4, <1>5, <1>6 DEF HNext
<1> QED BY <1>7 DEF Goal

LEMMA PageInvStep ==
  ASSUME PageInv, [HNext]_hvars
  PROVE  PageInv' /\ [PageFacts!Next]_<<pageLog, PageValue>>
<1>1. TypeOK'
  BY HistoryStep, TypeStep DEF PageInv
<1>2. CASE \E pg \in PageIds, w \in PageFacts!Write : PageFacts!Receive(pg, w)
  BY <1>1, <1>2, TimesAreNat, PageFacts!ReceiveStep DEF PageInv, PageFacts!Next
<1>3. CASE PageValue' = PageValue /\ pageLog' = pageLog
  BY <1>1, <1>3 DEF PageInv, PageFacts!TypeOK, PageFacts!Latest
<1> QED BY <1>2, <1>3, PageSteps

-----------------------------------------------------------------------------
\* The history starts with empty tables and no edits: the registers with no writes.
LEMMA HistoryInit ==
  ASSUME HInit
  PROVE  /\ FolderInv /\ FolderFacts!Init
         /\ DocumentInv /\ DocumentFacts!Init
         /\ PageInv /\ PageFacts!Init
         /\ documentLog = freshLog
<1>1. TypeOK
  BY EmptyIsTable, SyncAssumption
  DEF HInit, Init, TypeOK, RequestState, ServerTimes
<1>2. FolderValue = EmptyTable /\ DocumentValue = EmptyTable /\ PageValue = EmptyTable
  BY DEF HInit, Init, FolderValue, DocumentValue, PageValue, EmptyTable
<1>3. FolderFacts!Init /\ DocumentFacts!Init /\ PageFacts!Init
  BY <1>2 DEF HInit, FolderFacts!Init, FolderFacts!EmptyTable, DocumentFacts!Init,
              DocumentFacts!EmptyTable, PageFacts!Init, PageFacts!EmptyTable, EmptyTable
<1>4. FolderInv
  BY <1>1, <1>3, FolderFacts!InitLatest DEF FolderInv
<1>5. DocumentInv
  BY <1>1, <1>3, DocumentFacts!InitLatest DEF DocumentInv
<1>6. PageInv
  BY <1>1, <1>3, PageFacts!InitLatest DEF PageInv
<1>7. documentLog = freshLog
  BY DEF HInit
<1> QED BY <1>3, <1>4, <1>5, <1>6, <1>7

\* Names of folders resolve as LastWriterWins says, step by step.
THEOREM FoldersImplementLWW == HSpec => FoldersResolve
<1>1. HInit => FolderInv /\ FolderLWW!Init
  BY HistoryInit DEF FolderFacts!Init, FolderFacts!EmptyTable, FolderLWW!Init, FolderLWW!EmptyTable
<1>2. FolderInv /\ [HNext]_hvars
        => FolderInv' /\ [FolderLWW!Next]_<<folderLog, FolderValue>>
  <2>1. FolderFacts!Next => FolderLWW!Next
    BY DEF FolderFacts!Next, FolderFacts!Receive, FolderFacts!Write, FolderFacts!Put,
           FolderLWW!Next, FolderLWW!Receive, FolderLWW!Write, FolderLWW!Put
  <2> QED BY <2>1, FolderInvStep
<1> QED BY <1>1, <1>2, PTL DEF HSpec, FoldersResolve, FolderLWW!Spec

\* A folder always has the name the latest edit received gave it.
THEOREM FoldersHoldLatest == HSpec => []FoldersLatest
<1>1. HInit => FolderInv
  BY HistoryInit
<1>2. FolderInv /\ [HNext]_hvars => FolderInv'
  BY FolderInvStep
<1>3. FolderInv => FoldersLatest
  BY DEF FolderInv, FolderFacts!Latest, FoldersLatest, FolderLWW!Latest
<1> QED BY <1>1, <1>2, <1>3, PTL DEF HSpec

\* A page is deleted exactly when the latest edit received says so.
THEOREM PagesImplementLWW == HSpec => PagesResolve
<1>1. HInit => PageInv /\ PageLWW!Init
  BY HistoryInit DEF PageFacts!Init, PageFacts!EmptyTable, PageLWW!Init, PageLWW!EmptyTable
<1>2. PageInv /\ [HNext]_hvars
        => PageInv' /\ [PageLWW!Next]_<<pageLog, PageValue>>
  <2>1. PageFacts!Next => PageLWW!Next
    BY DEF PageFacts!Next, PageFacts!Receive, PageFacts!Write, PageFacts!Put,
           PageLWW!Next, PageLWW!Receive, PageLWW!Write, PageLWW!Put
  <2> QED BY <2>1, PageInvStep
<1> QED BY <1>1, <1>2, PTL DEF HSpec, PagesResolve, PageLWW!Spec

\* A document is in the folder that the latest edit received put it in, of the edits
\* since an upload last set its time back: whatever the clients' clocks say and however
\* uploads and pushes overtake each other.
THEOREM DocumentsImplementAfresh == HSpec => DocumentsResolveAfresh
<1>1. HInit => DocumentInv /\ DocumentFresh!Init
  BY HistoryInit DEF DocumentFacts!Init, DocumentFacts!EmptyTable, DocumentFresh!Init,
     DocumentFresh!EmptyTable
<1>2. DocumentInv /\ [HNext]_hvars
        => DocumentInv' /\ [DocumentFresh!NextAfresh]_<<freshLog, DocumentValue>>
  <2>1. DocumentFacts!NextAfresh => DocumentFresh!NextAfresh
    BY DEF DocumentFacts!NextAfresh, DocumentFacts!SetBack, DocumentFacts!Next,
           DocumentFacts!Receive, DocumentFacts!Write, DocumentFacts!Put,
           DocumentFresh!NextAfresh, DocumentFresh!SetBack, DocumentFresh!Next,
           DocumentFresh!Receive, DocumentFresh!Write, DocumentFresh!Put
  <2> QED BY <2>1, DocumentInvStep
<1> QED BY <1>1, <1>2, PTL DEF HSpec, DocumentsResolveAfresh, DocumentFresh!AfreshSpec

\* As long as no upload sets an edit time back, a document is in the folder that the
\* latest of all the edits received put it in.
THEOREM DocumentsImplementLWW ==
  HSpec /\ [][UploadsKeepOrder]_hvars => DocumentsResolve
<1> DEFINE Inv == DocumentInv /\ documentLog = freshLog
<1>1. HInit => Inv /\ DocumentLWW!Init
  BY HistoryInit DEF DocumentFacts!Init, DocumentFacts!EmptyTable, DocumentLWW!Init, DocumentLWW!EmptyTable
<1>2. Inv /\ [HNext]_hvars /\ [UploadsKeepOrder]_hvars
        => Inv' /\ [DocumentLWW!Next]_<<documentLog, DocumentValue>>
  <2> SUFFICES ASSUME Inv, [HNext]_hvars, [UploadsKeepOrder]_hvars
               PROVE  Inv' /\ [DocumentLWW!Next]_<<documentLog, DocumentValue>>
    OBVIOUS
  <2>1. documentLog' = freshLog'
    BY NothingForgotten DEF DocumentInv
  <2>2. DocumentInv'
    BY DocumentInvStep
  <2>3. DocumentFacts!Next => DocumentLWW!Next
    BY <2>1 DEF DocumentFacts!Next, DocumentFacts!Receive, DocumentFacts!Write, DocumentFacts!Put,
           DocumentLWW!Next, DocumentLWW!Receive, DocumentLWW!Write, DocumentLWW!Put
  <2>4. CASE UploadsKeepOrder
    <3>1. DocumentFacts!Next \/ (freshLog' = freshLog /\ DocumentValue' = DocumentValue)
      BY <2>4, DocumentInvStep
    <3> QED BY <2>1, <2>2, <2>3, <3>1
  <2>5. CASE UNCHANGED hvars
    <3>1. DocumentValue' = DocumentValue /\ documentLog' = documentLog
      BY <2>5 DEF hvars, vars, logs, DocumentValue
    <3> QED BY <2>1, <2>2, <3>1
  <2> QED BY <2>4, <2>5
<1> QED BY <1>1, <1>2, PTL DEF HSpec, DocumentsResolve, DocumentLWW!Spec

-----------------------------------------------------------------------------
(* Pulling *)

\* Seconds are naturals and never go back, and neither do their first ticks.
LEMMA Seconds ==
  ASSUME NEW t \in Nat, NEW u \in Nat, t <= u
  PROVE  Second(t) \in Nat /\ Second(u) \in Nat /\ Second(t) <= Second(u)
BY PullAssumption DEF Second

LEMMA ClockSecond ==
  ASSUME TypeOK
  PROVE  /\ clock \in Nat
         /\ Second(clock) \in Nat /\ Second(MaxClock) \in Nat
         /\ Second(clock) \in 0..Second(MaxClock)
<1>1. clock \in Nat /\ clock <= MaxClock /\ MaxClock \in Nat
  BY SyncAssumption DEF TypeOK, ServerTimes
<1> QED BY <1>1, Seconds

LEMMA FirstTick ==
  ASSUME NEW t \in Nat
  PROVE  Stamp(Second(t)) \in Nat /\ Stamp(Second(t)) <= t
BY PullAssumption DEF Second, Stamp

LEMMA StampsRise ==
  ASSUME NEW s \in Nat, NEW t \in Nat, s <= t
  PROVE  Stamp(s) \in Nat /\ Stamp(t) \in Nat /\ Stamp(s) <= Stamp(t)
BY PullAssumption DEF Stamp

\* Three tables make a set of rows.
LEMMA TablesAreRows ==
  ASSUME NEW f \in Table(FolderIds, FolderRow), NEW d \in Table(DocIds, DocumentRow),
         NEW pg \in Table(PageIds, PageRow)
  PROVE  [folders |-> f, documents |-> d, pages |-> pg] \in RowSets
<1> DEFINE rows == [folders |-> f, documents |-> d, pages |-> pg]
<1>1. /\ rows["folders"] = f /\ rows["documents"] = d /\ rows["pages"] = pg
      /\ rows = [kind \in Kinds |-> rows[kind]]
  BY DEF Kinds
<1>2. \A kind \in Kinds : rows[kind] \in TableOf(kind)
  BY <1>1 DEF Kinds, TableOf
<1> HIDE DEF rows
<1>3. rows \in RowSets
  BY <1>1, <1>2 DEF RowSets
<1> QED BY <1>3 DEF rows

LEMMA DbRows == (TypeOK => Db \in RowSets) /\ (TypeOK' => Db' \in RowSets)
BY TablesAreRows DEF TypeOK, Db

\* Every stamp of a row is a natural.
LEMMA RowStamps ==
  ASSUME NEW rows \in RowSets, NEW kind \in Kinds, NEW id \in DOMAIN rows[kind]
  PROVE  Stamps(kind, rows[kind][id]) \subseteq Nat /\ rows[kind][id].cts \in Nat
<1>1. Times \subseteq Nat /\ ServerTimes \subseteq Nat
  BY SyncAssumption DEF Times, ServerTimes
<1>2. rows[kind] \in TableOf(kind)
  BY DEF RowSets
<1>3. CASE kind = "folders"
  <2>1. rows[kind][id] \in FolderRow
    BY <1>2, <1>3, TableRows DEF TableOf
  <2> QED BY <1>1, <1>3, <2>1 DEF FolderRow, Stamps
<1>4. CASE kind = "documents"
  <2>1. rows[kind][id] \in DocumentRow
    BY <1>2, <1>4, TableRows DEF TableOf
  <2> QED BY <1>1, <1>4, <2>1 DEF DocumentRow, Stamps
<1>5. CASE kind = "pages"
  <2>1. rows[kind][id] \in PageRow
    BY <1>2, <1>5, TableRows DEF TableOf
  <2> QED BY <1>1, <1>5, <2>1 DEF PageRow, Stamps
<1> QED BY <1>3, <1>4, <1>5 DEF Kinds

\* What a cursor selects, an earlier cursor selects.
LEMMA EarlierCursor ==
  ASSUME NEW rows \in RowSets, NEW kind \in Kinds, NEW id \in DOMAIN rows[kind],
         NEW s \in Nat, NEW t \in Nat, s <= t, After(kind, rows[kind][id], t)
  PROVE  After(kind, rows[kind][id], s)
<1>1. PICK x \in Stamps(kind, rows[kind][id]) : x > Stamp(t)
  BY DEF After
<1>2. x \in Nat
  BY RowStamps
<1>3. x > Stamp(s)
  BY <1>1, <1>2, StampsRise
<1> QED BY <1>3 DEF After

-----------------------------------------------------------------------------
\* A page's document is there: without it OwnedBy would say nothing of a page.
PagesPlaced == \A pg \in DOMAIN pages : pages[pg].doc \in DOMAIN documents

LEMMA PagesPlacedStep ==
  ASSUME TypeOK, PagesPlaced, [Next]_vars
  PROVE  PagesPlaced'
<1>1. DocumentsKept /\ PagesKept
  BY StepKeeps
<1>2. ASSUME NEW p, NEW pg, NEW d, NEW image, NEW gone, NEW ts,
             UpsertPage(p, pg, d, image, gone, ts)
      PROVE  PagesPlaced'
  <2> DEFINE cts == ClientTime(ts, req[p].now)
             row == [doc |-> d, image |-> image, deleted |-> DeletedAt(gone, cts),
                     cts |-> cts, created |-> req[p].now]
             merged == PageConflict(pages[pg], row)
  <2>1. documents' = documents
    BY <1>2 DEF UpsertPage
  <2>2. CASE pages' = pages
    BY <2>1, <2>2 DEF PagesPlaced
  <2>3. CASE /\ pages' = Upsert(pages, pg, row, merged)
             /\ pg \in DOMAIN pages \/ d \in DOMAIN documents
    <3>1. row.doc = d
      OBVIOUS
    <3> HIDE DEF row, merged
    <3>2. \A k \in DOMAIN pages' \ {pg} : k \in DOMAIN pages
      BY <2>3, UpsertRows
    <3>3. pg \notin DOMAIN pages => pages'[pg].doc = d
      BY <2>3, <3>1, UpsertRows
    <3> QED BY <1>1, <2>1, <2>3, <3>2, <3>3 DEF PagesPlaced, PagesKept
  <2> QED BY <1>2, <2>2, <2>3 DEF UpsertPage
<1>3. ASSUME pages' = pages PROVE PagesPlaced'
  BY <1>1, <1>3 DEF PagesPlaced, DocumentsKept
<1>4. ASSUME NEW p \in Requests, Push(p) PROVE PagesPlaced'
  <2>1. CASE PushItem(p)
    <3>1. \/ pages' = pages
          \/ \E pg, d, image, gone, ts : UpsertPage(p, pg, d, image, gone, ts)
      <4>1. ASSUME NEW f, NEW name, NEW gone, NEW ts, UpsertFolder(p, f, name, gone, ts)
            PROVE  pages' = pages
        BY <4>1 DEF UpsertFolder
      <4>2. ASSUME NEW d, NEW f, NEW url, NEW gone, NEW ts, UpsertDocument(p, d, f, url, gone, ts)
            PROVE  pages' = pages
        BY <4>2 DEF UpsertDocument
      <4> QED BY <2>1, <4>1, <4>2, Zenon DEF PushItem
    <3> QED BY <1>2, <1>3, <3>1, Zenon
  <2>2. CASE ~PushItem(p)
    <3>1. pages' = pages
      BY <1>4, <2>2 DEF Push, PushFolders, PushDocuments, PushPages, PushDone
    <3> QED BY <1>3, <3>1
  <2> QED BY <2>1, <2>2
<1>5. ASSUME NEW p \in Requests, Upload(p) \/ RequestFails(p) PROVE PagesPlaced'
  BY <1>3, <1>5 DEF Upload, UploadFile, RecordFile, RequestFails
<1>6. ASSUME FolderRequest \/ Tick \/ UNCHANGED vars PROVE PagesPlaced'
  BY <1>3, <1>6 DEF FolderRequest, CreateFolder, DeleteFolder, Tick, vars
<1> QED BY <1>4, <1>5, <1>6 DEF Next

\* No row goes, and none changes its account.
LEMMA RowsStay ==
  ASSUME TypeOK, PagesPlaced, [Next]_vars, NEW kind \in Kinds, NEW id \in DOMAIN Db[kind]
  PROVE  /\ id \in DOMAIN Db'[kind]
         /\ \A user : OwnedBy(kind, id, user) <=> OwnedBy(kind, id, user)'
<1>1. FoldersKept /\ DocumentsKept /\ PagesKept
  BY StepKeeps
<1>2. CASE kind = "folders"
  BY <1>1, <1>2 DEF FoldersKept, Db, OwnedBy
<1>3. CASE kind = "documents"
  BY <1>1, <1>3 DEF DocumentsKept, Db, OwnedBy
<1>4. CASE kind = "pages"
  BY <1>1, <1>4 DEF DocumentsKept, PagesKept, PagesPlaced, Db, OwnedBy
<1> QED BY <1>2, <1>3, <1>4 DEF Kinds

\* A row that is not exposed has a stamp after the first tick of the second.
LEMMA Exposure ==
  ASSUME TypeOK, NEW rows \in RowSets, NEW kind \in Kinds, NEW id \in DOMAIN rows[kind],
         ~Exposed(kind, rows[kind][id])
  PROVE  After(kind, rows[kind][id], Second(clock))
<1> DEFINE stamps == Stamps(kind, rows[kind][id])
           start == Stamp(Second(clock))
<1>1. stamps \subseteq Nat /\ Second(clock) \in Nat
  BY RowStamps, ClockSecond
<1>2. start \in Nat
  BY <1>1, StampsRise
<1>3. PICK s \in stamps : ~(Second(s) < Second(clock))
  BY DEF Exposed, WrittenLate
<1>4. start <= s
  <2>1. s \in Nat /\ Second(s) \in Nat /\ Second(clock) <= Second(s)
    BY <1>1, <1>3, Seconds
  <2>2. start <= Stamp(Second(s))
    BY <1>1, <2>1, StampsRise
  <2>3. Stamp(Second(s)) \in Nat /\ Stamp(Second(s)) <= s
    BY <2>1, FirstTick
  <2> QED BY <1>2, <2>1, <2>2, <2>3
<1>5. \E x \in stamps : x > start
  <2> SUFFICES ASSUME \A x \in stamps : x <= start PROVE FALSE
    BY <1>1, <1>2
  <2>1. s = start
    BY <1>1, <1>2, <1>3, <1>4
  <2> QED BY <1>3, <2>1 DEF Exposed, OnTheSecond
<1> QED BY <1>5 DEF After

\* What ExposedRows says of a row: one that the step leaves as it is stays exposed, and
\* one that it writes is exposed unless a stamp is after the second of the step.
LEMMA RowWritten ==
  ASSUME TypeOK, Db' \in RowSets, exposed' = ExposedRows, NEW kind \in Kinds, NEW id \in DOMAIN Db'[kind],
         <<kind, id>> \notin exposed'
  PROVE  \/ /\ id \in DOMAIN Db[kind]
            /\ Db'[kind][id] = Db[kind][id]
            /\ <<kind, id>> \notin exposed
         \/ After(kind, Db'[kind][id], Second(clock))
<1> DEFINE IsExposed(k, i) ==
      IF i \in DOMAIN Db[k] /\ Db'[k][i] = Db[k][i]
      THEN <<k, i>> \in exposed ELSE Exposed(k, Db'[k][i])
<1>1. IsExposed(kind, id) => <<kind, id>> \in exposed'
  BY DEF ExposedRows
<1> QED BY <1>1, Exposure

-----------------------------------------------------------------------------
\* TimelyRowsReachDevices speaks of idle devices only.  While a pull is in flight
\* two things hold.  If it fails, the device must still get the row: Held, at every
\* point of the pull.  If it is answered, the tables it has queried must give the
\* device the row, or leave it to the cursor the pull will set: Got.
Held(v, kind, id) ==
  Reached(v, kind, id) \/ Pending(v, kind, id) \/ <<kind, id>> \in exposed

Got(v, kind, id) ==
  \/ /\ id \in DOMAIN pull[v].got[kind]
     /\ pull[v].got[kind][id] = Db[kind][id]
  \/ id \notin DOMAIN pull[v].got[kind] /\ Reached(v, kind, id)
  \/ id \in Selected(kind, DeviceUser[v], pull[v].synced)
  \/ <<kind, id>> \in exposed

\* The tables a pull has queried before it is at pc.
Queried(pc) ==
  IF pc = "documents" THEN {"folders"}
  ELSE IF pc = "pages" THEN {"folders", "documents"}
  ELSE IF pc = "answer" THEN Kinds
  ELSE {}

\* No device asks from a second that has not begun, however long its pull takes.
CursorsBehind ==
  \A v \in Devices : cursor[v] <= Second(clock) /\ pull[v].synced <= Second(clock)

RowsHeld ==
  \A v \in Devices : \A kind \in Kinds : \A id \in Mine(v, kind) : Held(v, kind, id)

RowsGot ==
  \A v \in Devices : \A kind \in Queried(pull[v].pc) : \A id \in Mine(v, kind) :
    Got(v, kind, id)

PullInv == TypeOK /\ PullTypeOK /\ PagesPlaced /\ CursorsBehind /\ RowsHeld /\ RowsGot

LEMMA PullFields ==
  ASSUME PullTypeOK, NEW v \in Devices
  PROVE  /\ cursor[v] \in 0..Second(MaxClock)
         /\ seen[v] \in RowSets
         /\ pull[v].pc \in Kinds \cup {"idle", "answer"}
         /\ pull[v].synced \in 0..Second(MaxClock)
         /\ pull[v].got \in RowSets
         /\ pull[v] = [pc |-> pull[v].pc, synced |-> pull[v].synced, got |-> pull[v].got]
BY DEF PullTypeOK

\* A step of the store leaves a row that a device holds, or finds by a cursor, to be
\* found: the row is as it was, or is exposed, or is after every cursor there is.
LEMMA StoreStepRow ==
  ASSUME PullInv, Next, exposed' = ExposedRows, NEW v \in Devices, NEW kind \in Kinds,
         NEW id \in Mine(v, kind)', <<kind, id>> \notin exposed'
  PROVE  \/ /\ id \in Mine(v, kind)
            /\ Db'[kind][id] = Db[kind][id]
            /\ <<kind, id>> \notin exposed
         \/ \A since \in 0..Second(clock) :
              id \in Selected(kind, DeviceUser[v], since)'
<1>0. Db' \in RowSets
  BY TypeStep, DbRows DEF PullInv
<1>1. id \in DOMAIN Db'[kind] /\ OwnedBy(kind, id, DeviceUser[v])'
  BY DEF Mine
<1>2. CASE /\ id \in DOMAIN Db[kind]
           /\ Db'[kind][id] = Db[kind][id]
           /\ <<kind, id>> \notin exposed
  <2>1. OwnedBy(kind, id, DeviceUser[v])
    BY <1>1, <1>2, RowsStay DEF PullInv
  <2> QED BY <1>2, <2>1 DEF Mine
<1>3. CASE After(kind, Db'[kind][id], Second(clock))
  <2>1. Second(clock) \in Nat
    BY ClockSecond DEF PullInv
  <2>2. ASSUME NEW since \in 0..Second(clock) PROVE After(kind, Db'[kind][id], since)
    BY <1>0, <1>1, <1>3, <2>1, EarlierCursor
  <2> QED BY <1>1, <2>2 DEF Selected
<1> QED BY <1>0, <1>1, <1>2, <1>3, RowWritten DEF PullInv

LEMMA ClockSteps == ASSUME [Next]_vars PROVE clock' \in {clock, clock + 1}
<1>1. ASSUME NEW p \in Requests, Push(p) PROVE clock' = clock
  <2>1. \A f, name, gone, ts : UpsertFolder(p, f, name, gone, ts) => clock' = clock
    BY DEF UpsertFolder
  <2>2. \A d, folder, url, gone, ts :
          UpsertDocument(p, d, folder, url, gone, ts) => clock' = clock
    BY DEF UpsertDocument
  <2>3. \A pg, d, image, gone, ts :
          UpsertPage(p, pg, d, image, gone, ts) => clock' = clock
    BY DEF UpsertPage
  <2>4. PushItem(p) => clock' = clock
    BY <2>1, <2>2, <2>3 DEF PushItem
  <2> QED BY <1>1, <2>4 DEF Push, PushFolders, PushDocuments, PushPages, PushDone
<1>2. ASSUME NEW p \in Requests, Upload(p) \/ RequestFails(p) PROVE clock' = clock
  BY <1>2 DEF Upload, UploadFile, RecordFile, RequestFails
<1>3. FolderRequest => clock' = clock
  BY DEF FolderRequest, CreateFolder, DeleteFolder
<1> QED BY <1>1, <1>2, <1>3 DEF Next, Tick, vars

LEMMA StoreStepHeld ==
  ASSUME PullInv, Next, exposed' = ExposedRows, UNCHANGED <<cursor, seen, pull>>
  PROVE  CursorsBehind' /\ RowsHeld' /\ RowsGot'
<1>1. clock' \in Nat /\ clock \in Nat /\ clock <= clock'
  <2>1. clock' \in Nat /\ clock \in Nat
    BY TypeStep, SyncAssumption DEF PullInv, TypeOK, ServerTimes
  <2>2. clock' \in {clock, clock + 1}
    BY ClockSteps
  <2> QED BY <2>1, <2>2
<1>2. \A v \in Devices :
        /\ cursor[v] \in 0..Second(clock)
        /\ pull[v].synced \in 0..Second(clock)
  <2> SUFFICES ASSUME NEW v \in Devices
               PROVE  cursor[v] \in 0..Second(clock) /\ pull[v].synced \in 0..Second(clock)
    OBVIOUS
  <2>1. Second(clock) \in Nat /\ cursor[v] \in Nat /\ pull[v].synced \in Nat
    <3>1. cursor[v] \in 0..Second(MaxClock) /\ pull[v].synced \in 0..Second(MaxClock)
      BY PullFields DEF PullInv
    <3>2. Second(clock) \in Nat /\ Second(MaxClock) \in Nat
      BY ClockSecond DEF PullInv
    <3> QED BY <3>1, <3>2
  <2>2. cursor[v] <= Second(clock) /\ pull[v].synced <= Second(clock)
    BY DEF PullInv, CursorsBehind
  <2> QED BY <2>1, <2>2
<1>3. CursorsBehind'
  BY <1>1, <1>2, Seconds DEF CursorsBehind
<1>4. ASSUME NEW v \in Devices, NEW kind \in Kinds, NEW id \in Mine(v, kind)'
      PROVE  Held(v, kind, id)'
  <2>1. CASE /\ id \in Mine(v, kind)
             /\ Db'[kind][id] = Db[kind][id]
             /\ <<kind, id>> \notin exposed
    <3>1. Reached(v, kind, id) \/ Pending(v, kind, id)
      BY <2>1 DEF PullInv, RowsHeld, Held
    <3>2. Reached(v, kind, id) => Reached(v, kind, id)'
      BY <2>1 DEF Reached
    <3>3. Pending(v, kind, id) => Pending(v, kind, id)'
      BY <2>1, <1>4 DEF Pending, Selected, Mine
    <3> QED BY <3>1, <3>2, <3>3 DEF Held
  <2>2. CASE id \in Selected(kind, DeviceUser[v], cursor[v])'
    BY <2>2 DEF Held, Pending
  <2>3. <<kind, id>> \in exposed' => Held(v, kind, id)'
    BY DEF Held
  <2> QED BY <1>2, <2>1, <2>2, <2>3, StoreStepRow
<1>5. ASSUME NEW v \in Devices, NEW kind \in Queried(pull[v].pc), NEW id \in Mine(v, kind)'
      PROVE  Got(v, kind, id)'
  <2>1. kind \in Kinds
    BY DEF Queried, Kinds
  <2>2. CASE /\ id \in Mine(v, kind)
             /\ Db'[kind][id] = Db[kind][id]
             /\ <<kind, id>> \notin exposed
    <3>1. Got(v, kind, id)
      BY <1>5, <2>2 DEF PullInv, RowsGot
    <3>2. Reached(v, kind, id) => Reached(v, kind, id)'
      BY <2>2 DEF Reached
    <3>3. id \in Selected(kind, DeviceUser[v], pull[v].synced)
            => id \in Selected(kind, DeviceUser[v], pull[v].synced)'
      BY <2>2, <1>5 DEF Selected, Mine
    <3> QED BY <2>2, <3>1, <3>2, <3>3 DEF Got
  <2>3. CASE id \in Selected(kind, DeviceUser[v], pull[v].synced)'
    BY <2>3 DEF Got
  <2>4. <<kind, id>> \in exposed' => Got(v, kind, id)'
    BY DEF Got
  <2> QED BY <1>2, <2>1, <2>2, <2>3, <2>4, StoreStepRow
<1> QED BY <1>3, <1>4, <1>5 DEF RowsHeld, RowsGot

-----------------------------------------------------------------------------
\* A pull takes its rows from the tables, so that what a device is sent has the
\* type of the tables' rows.
LEMMA AnswerTable ==
  ASSUME TypeOK, NEW kind \in Kinds, NEW user, NEW since
  PROVE  /\ Answer(kind, user, since) \in TableOf(kind)
         /\ DOMAIN Answer(kind, user, since) = Selected(kind, user, since)
         /\ \A id \in Selected(kind, user, since) :
              id \in DOMAIN Db[kind] /\ Answer(kind, user, since)[id] = Db[kind][id]
<1>1. Selected(kind, user, since) \subseteq DOMAIN Db[kind]
  BY DEF Selected
<1>2. ASSUME NEW Ids, NEW Rows, Db[kind] \in Table(Ids, Rows)
      PROVE  Answer(kind, user, since) \in Table(Ids, Rows)
  <2> DEFINE T == Selected(kind, user, since)
  <2>1. T \in SUBSET Ids /\ \A id \in T : Db[kind][id] \in Rows
    BY <1>1, <1>2, TableRows
  <2>2. Answer(kind, user, since) \in [T -> Rows]
    BY <2>1 DEF Answer
  <2> QED BY <2>1, <2>2, RowsTable
<1>3. Db[kind] \in TableOf(kind)
  BY DbRows DEF RowSets
<1>4. Answer(kind, user, since) \in TableOf(kind)
  BY <1>2, <1>3 DEF TableOf
<1> QED BY <1>1, <1>4 DEF Answer

LEMMA MergeTable ==
  ASSUME NEW kind \in Kinds, NEW old \in TableOf(kind), NEW new \in TableOf(kind)
  PROVE  Merge(old, new) \in TableOf(kind)
<1>1. ASSUME NEW Ids, NEW Rows, old \in Table(Ids, Rows), new \in Table(Ids, Rows)
      PROVE  Merge(old, new) \in Table(Ids, Rows)
  <2>1. DOMAIN old \cup DOMAIN new \in SUBSET Ids
    BY <1>1, TableRows
  <2>2. Merge(old, new) \in [DOMAIN old \cup DOMAIN new -> Rows]
    BY <1>1, TableRows DEF Merge
  <2> QED BY <2>1, <2>2, RowsTable
<1> QED BY <1>1 DEF TableOf

LEMMA MergeRows ==
  ASSUME NEW old \in RowSets, NEW new \in RowSets
  PROVE  [kind \in Kinds |-> Merge(old[kind], new[kind])] \in RowSets
<1>1. \A kind \in Kinds : Merge(old[kind], new[kind]) \in TableOf(kind)
  BY MergeTable DEF RowSets
<1> QED BY <1>1 DEF RowSets

LEMMA NoRowsRows == NoRows \in RowSets
<1>1. \A kind \in Kinds : NoRows[kind] \in TableOf(kind)
  BY EmptyIsTable DEF NoRows, TableOf
<1> QED BY <1>1 DEF RowSets, NoRows

Pulls == [pc : Kinds \cup {"idle", "answer"}, synced : 0..Second(MaxClock), got : RowSets]

\* A step of one pull.
LEMMA PullBecomes ==
  ASSUME PullTypeOK, NEW v \in Devices, NEW new \in Pulls, pull' = [pull EXCEPT ![v] = new]
  PROVE  /\ pull' \in [Devices -> Pulls]
         /\ pull'[v] = new
         /\ \A u \in Devices \ {v} : pull'[u] = pull[u]
BY DEF PullTypeOK, Pulls

LEMMA BeginSets ==
  ASSUME TypeOK, PullTypeOK, NEW v \in Devices, PullBegin(v)
  PROVE  /\ pull' \in [Devices -> Pulls]
         /\ pull'[v].pc = "folders" /\ pull'[v].synced = Second(clock)
         /\ pull'[v].got = NoRows
         /\ \A u \in Devices \ {v} : pull'[u] = pull[u]
<1> DEFINE new == [pc |-> "folders", synced |-> Second(clock), got |-> NoRows]
<1>1. pull' = [pull EXCEPT ![v] = new]
  BY DEF PullBegin
<1>2. new \in Pulls
  BY NoRowsRows, ClockSecond DEF Kinds, Pulls
<1>3. new.pc = "folders" /\ new.synced = Second(clock) /\ new.got = NoRows
  OBVIOUS
<1> HIDE DEF new
<1> QED BY <1>1, <1>2, <1>3, PullBecomes

LEMMA EndSets ==
  ASSUME PullTypeOK, NEW v \in Devices, pull' = [pull EXCEPT ![v] = NoPull]
  PROVE  /\ pull' \in [Devices -> Pulls]
         /\ pull'[v].pc = "idle" /\ pull'[v].synced = 0 /\ pull'[v].got = NoRows
         /\ \A u \in Devices \ {v} : pull'[u] = pull[u]
<1>1. Second(MaxClock) \in Nat
  BY Seconds, SyncAssumption
<1>2. NoPull \in Pulls /\ NoPull.pc = "idle" /\ NoPull.synced = 0
                     /\ NoPull.got = NoRows
  BY <1>1, NoRowsRows DEF NoPull, Pulls
<1> QED BY <1>2, PullBecomes

LEMMA TableSets ==
  ASSUME TypeOK, PullTypeOK, NEW v \in Devices, NEW kind \in Kinds, PullTable(v, kind)
  PROVE  /\ pull' \in [Devices -> Pulls]
         /\ pull[v].pc = kind /\ pull'[v].pc = NextQuery[kind]
         /\ pull'[v].synced = pull[v].synced
         /\ pull'[v].got[kind] = Answer(kind, DeviceUser[v], cursor[v])
         /\ \A k \in Kinds \ {kind} : pull'[v].got[k] = pull[v].got[k]
         /\ \A u \in Devices \ {v} : pull'[u] = pull[u]
<1> DEFINE answer == Answer(kind, DeviceUser[v], cursor[v])
           new == [pull[v] EXCEPT !.pc = NextQuery[kind], !.got[kind] = answer]
<1>1. /\ pull[v] \in [pc : Kinds \cup {"idle", "answer"}, synced : 0..Second(MaxClock),
                     got : [Kinds -> UNION {TableOf(k) : k \in Kinds}]]
      /\ \A k \in Kinds : pull[v].got[k] \in TableOf(k)
  <2>1. pull[v] \in Pulls /\ pull[v].got \in RowSets
    BY PullFields DEF PullTypeOK, Pulls
  <2>2. /\ pull[v].got \in [Kinds -> UNION {TableOf(k) : k \in Kinds}]
        /\ \A k \in Kinds : pull[v].got[k] \in TableOf(k)
    BY <2>1 DEF RowSets
  <2> QED BY <2>1, <2>2 DEF Pulls
<1>2. answer \in TableOf(kind)
  BY AnswerTable
<1>3. NextQuery[kind] \in {"documents", "pages", "answer"}
  BY DEF NextQuery, Kinds
<1>4. pull' = [pull EXCEPT ![v] = new] /\ pull[v].pc = kind
  BY DEF PullTable, PullTypeOK
<1> HIDE DEF answer
<1>5. /\ new \in [pc : Kinds \cup {"idle", "answer"}, synced : 0..Second(MaxClock),
                  got : [Kinds -> UNION {TableOf(k) : k \in Kinds}]]
      /\ new.pc = NextQuery[kind] /\ new.synced = pull[v].synced
      /\ new.got[kind] = answer
      /\ \A k \in Kinds \ {kind} : new.got[k] = pull[v].got[k]
  BY <1>1, <1>2, <1>3 DEF Kinds
<1> HIDE DEF new
<1>6. \A k \in Kinds : new.got[k] \in TableOf(k)
  BY <1>1, <1>2, <1>5
<1>7. new \in Pulls
  BY <1>5, <1>6 DEF Pulls, RowSets
<1>8. /\ pull' \in [Devices -> Pulls] /\ pull'[v] = new
      /\ \A u \in Devices \ {v} : pull'[u] = pull[u]
  BY <1>4, <1>7, PullBecomes
<1> QED BY <1>4, <1>5, <1>8 DEF answer

LEMMA AnswerSets ==
  ASSUME PullTypeOK, NEW v \in Devices, PullAnswer(v)
  PROVE  /\ seen' \in [Devices -> RowSets]
         /\ \A kind \in Kinds : seen'[v][kind] = Merge(seen[v][kind], pull[v].got[kind])
         /\ \A u \in Devices \ {v} : seen'[u] = seen[u]
<1> DEFINE new == [kind \in Kinds |-> Merge(seen[v][kind], pull[v].got[kind])]
<1>1. seen' = [seen EXCEPT ![v] = new]
  BY DEF PullAnswer
<1>2. new \in RowSets
  BY MergeRows, PullFields
<1>3. \A kind \in Kinds : new[kind] = Merge(seen[v][kind], pull[v].got[kind])
  OBVIOUS
<1> HIDE DEF new
<1> QED BY <1>1, <1>2, <1>3 DEF PullTypeOK

LEMMA CursorSets ==
  ASSUME PullTypeOK, NEW v \in Devices, PullAnswer(v)
  PROVE  /\ cursor' \in [Devices -> 0..Second(MaxClock)]
         /\ cursor'[v] = pull[v].synced
         /\ \A u \in Devices \ {v} : cursor'[u] = cursor[u]
BY PullFields DEF PullTypeOK, PullAnswer

\* Cursors, rows and pulls keep their types.
LEMMA PullTypeStep ==
  ASSUME TypeOK, PullTypeOK, PagesPlaced, [PNext]_<<vars, pvars>>
  PROVE  PullTypeOK'
<1>1. CASE StoreStep
  <2>1. exposed' \subseteq UNION {{kind} \X DOMAIN Db'[kind] : kind \in Kinds}
    <3> DEFINE Bare(kind) ==
          {id \in DOMAIN Db'[kind] :
             IF id \in DOMAIN Db[kind] /\ Db'[kind][id] = Db[kind][id]
             THEN <<kind, id>> \in exposed
             ELSE Exposed(kind, Db'[kind][id])}
    <3>1. exposed' = UNION {{<<kind, id>> : id \in Bare(kind)} : kind \in Kinds}
      BY <1>1 DEF StoreStep, ExposedRows
    <3>2. \A kind \in Kinds : Bare(kind) \subseteq DOMAIN Db'[kind]
      OBVIOUS
    <3> HIDE DEF Bare
    <3> QED BY <3>1, <3>2
  <2> QED BY <1>1, <2>1 DEF StoreStep, PullTypeOK
<1>2. ASSUME UNCHANGED <<vars, exposed>>,
             cursor' \in [Devices -> 0..Second(MaxClock)],
             seen' \in [Devices -> RowSets], pull' \in [Devices -> Pulls]
      PROVE  PullTypeOK'
  <2>1. Db' = Db /\ exposed' = exposed
    BY <1>2 DEF vars, Db
  <2> QED BY <1>2, <2>1 DEF PullTypeOK, Pulls
<1>3. UNCHANGED cursor => cursor' \in [Devices -> 0..Second(MaxClock)]
  BY DEF PullTypeOK
<1>4. UNCHANGED seen => seen' \in [Devices -> RowSets]
  BY DEF PullTypeOK
<1>5. UNCHANGED pull => pull' \in [Devices -> Pulls]
  BY DEF PullTypeOK, Pulls
<1>6. ASSUME NEW v \in Devices, PullBegin(v) PROVE PullTypeOK'
  BY <1>2, <1>3, <1>4, <1>6, BeginSets DEF PullBegin
<1>7. ASSUME NEW v \in Devices, NEW kind \in Kinds, PullTable(v, kind) PROVE PullTypeOK'
  BY <1>2, <1>3, <1>4, <1>7, TableSets DEF PullTable
<1>8. ASSUME NEW v \in Devices, PullAnswer(v) PROVE PullTypeOK'
  BY <1>2, <1>8, AnswerSets, CursorSets, EndSets DEF PullAnswer
<1>9. ASSUME NEW v \in Devices, PullFails(v) PROVE PullTypeOK'
  BY <1>2, <1>3, <1>4, <1>9, EndSets DEF PullFails
<1>10. CASE UNCHANGED <<vars, pvars>>
  BY <1>2, <1>3, <1>4, <1>5, <1>10 DEF pvars
<1> QED BY <1>1, <1>6, <1>7, <1>8, <1>9, <1>10 DEF PNext, PullQuery

-----------------------------------------------------------------------------
\* Pulls leave the tables alone, so that each keeps what it does not move.
LEMMA SameDb ==
  ASSUME UNCHANGED <<vars, exposed>>, NEW v \in Devices, NEW kind \in Kinds
  PROVE  /\ Db' = Db /\ Mine(v, kind)' = Mine(v, kind)
         /\ \A id, since : id \in Selected(kind, DeviceUser[v], since)' <=>
                            id \in Selected(kind, DeviceUser[v], since)
<1>1. Db' = Db /\ documents' = documents /\ pages' = pages
  BY DEF vars, Db
<1> QED BY <1>1 DEF Mine, Selected, OwnedBy

\* The steps that begin or end the pull of v leave it nothing queried, and the pulls
\* of other devices as they were.
LEMMA GotStays ==
  ASSUME PullInv, UNCHANGED <<vars, exposed>>, NEW v, Queried(pull'[v].pc) = {},
         \A u \in Devices \ {v} : pull'[u] = pull[u] /\ seen'[u] = seen[u]
  PROVE  RowsGot'
<1> SUFFICES ASSUME NEW u \in Devices, NEW kind \in Queried(pull'[u].pc),
                    NEW id \in Mine(u, kind)'
             PROVE  Got(u, kind, id)'
  BY DEF RowsGot
<1>1. kind \in Kinds
  BY DEF Queried, Kinds
<1>2. pull'[u] = pull[u] /\ seen'[u] = seen[u]
  OBVIOUS
<1>3. Got(u, kind, id)
  BY <1>1, <1>2, SameDb DEF PullInv, RowsGot
<1> QED BY <1>1, <1>2, <1>3, SameDb DEF Got, Reached

\* A query that runs takes every row of the account that the device lacks.
LEMMA TableGets ==
  ASSUME PullInv, NEW v \in Devices, NEW kind \in Kinds, PullTable(v, kind)
  PROVE  CursorsBehind' /\ RowsHeld' /\ RowsGot'
<1>1. UNCHANGED <<vars, exposed>> /\ UNCHANGED <<cursor, seen>>
  BY DEF PullTable
<1> USE <1>1
<1>2. /\ pull[v].pc = kind /\ pull'[v].pc = NextQuery[kind]
      /\ pull'[v].synced = pull[v].synced
      /\ pull'[v].got[kind] = Answer(kind, DeviceUser[v], cursor[v])
      /\ \A k \in Kinds \ {kind} : pull'[v].got[k] = pull[v].got[k]
      /\ \A u \in Devices \ {v} : pull'[u] = pull[u]
  BY TableSets DEF PullInv
<1>3. \A u \in Devices : pull'[u].synced = pull[u].synced
  BY <1>2
<1>4. CursorsBehind'
  BY <1>3 DEF PullInv, CursorsBehind, vars
<1>5. \A u \in Devices, k \in Kinds : \A id : Held(u, k, id)' <=> Held(u, k, id)
  BY SameDb DEF Held, Reached, Pending
<1>6. RowsHeld'
  BY <1>5, SameDb DEF PullInv, RowsHeld
<1>7. ASSUME NEW u \in Devices, NEW k \in Kinds, NEW id,
             pull'[u].got[k] = pull[u].got[k], Got(u, k, id)
      PROVE  Got(u, k, id)'
  BY <1>3, <1>7, SameDb DEF Got, Reached
<1>8. ASSUME NEW id \in Mine(v, kind) PROVE Got(v, kind, id)'
  <2>1. Held(v, kind, id)
    BY DEF PullInv, RowsHeld
  <2>2. CASE Pending(v, kind, id)
    <3>1. /\ id \in DOMAIN Answer(kind, DeviceUser[v], cursor[v])
          /\ Answer(kind, DeviceUser[v], cursor[v])[id] = Db[kind][id]
      BY <2>2, AnswerTable DEF PullInv, Pending
    <3> QED BY <1>2, <3>1, SameDb DEF Got
  <2>3. CASE ~Pending(v, kind, id)
    <3>1. id \notin DOMAIN Answer(kind, DeviceUser[v], cursor[v])
      BY <2>3, AnswerTable DEF PullInv, Pending
    <3> QED BY <1>2, <2>1, <2>3, <3>1, SameDb DEF Got, Held, Reached
  <2> QED BY <2>2, <2>3
<1>9. Queried(pull'[v].pc) \subseteq Queried(pull[v].pc) \cup {kind}
  BY <1>2 DEF Queried, NextQuery, Kinds
<1>10. ASSUME NEW u \in Devices, NEW k \in Queried(pull'[u].pc), NEW id \in Mine(u, k)'
       PROVE  Got(u, k, id)'
  <2>1. k \in Kinds /\ id \in Mine(u, k)
    BY <1>10, SameDb DEF Queried, Kinds
  <2>2. CASE u = v /\ k = kind
    BY <1>8, <2>1, <2>2
  <2>3. CASE ~(u = v /\ k = kind)
    <3>1. pull'[u].got[k] = pull[u].got[k] /\ k \in Queried(pull[u].pc)
      BY <1>2, <1>9, <1>10, <2>1, <2>3
    <3>2. Got(u, k, id)
      BY <2>1, <3>1 DEF PullInv, RowsGot
    <3> QED BY <1>7, <2>1, <3>1, <3>2
  <2> QED BY <2>2, <2>3
<1>11. RowsGot'
  BY <1>10 DEF RowsGot
<1> QED BY <1>4, <1>6, <1>11

\* A pull that begins has queried nothing, and asks up to a second that has begun.
LEMMA BeginHolds ==
  ASSUME PullInv, NEW v \in Devices, PullBegin(v)
  PROVE  CursorsBehind' /\ RowsHeld' /\ RowsGot'
<1>1. UNCHANGED <<vars, exposed>> /\ UNCHANGED <<cursor, seen>>
  BY DEF PullBegin
<1> USE <1>1
<1>2. /\ pull'[v].pc = "folders" /\ pull'[v].synced = Second(clock)
      /\ \A u \in Devices \ {v} : pull'[u] = pull[u]
  BY BeginSets DEF PullInv
<1>3. clock' = clock /\ Second(clock) \in Nat
  BY ClockSecond DEF PullInv, vars
<1>4. CursorsBehind'
  BY <1>2, <1>3 DEF PullInv, CursorsBehind
<1>5. \A u \in Devices, k \in Kinds : \A id : Held(u, k, id)' <=> Held(u, k, id)
  BY SameDb DEF Held, Reached, Pending
<1>6. RowsHeld'
  BY <1>5, SameDb DEF PullInv, RowsHeld
<1>7. RowsGot'
  BY <1>2, GotStays DEF Queried
<1> QED BY <1>4, <1>6, <1>7

\* A pull that fails leaves the device where it was.
LEMMA FailHolds ==
  ASSUME PullInv, NEW v \in Devices, PullFails(v)
  PROVE  CursorsBehind' /\ RowsHeld' /\ RowsGot'
<1>1. UNCHANGED <<vars, exposed>> /\ UNCHANGED <<cursor, seen>>
  BY DEF PullFails
<1> USE <1>1
<1>2. /\ pull'[v].pc = "idle" /\ pull'[v].synced = 0
      /\ \A u \in Devices \ {v} : pull'[u] = pull[u]
  BY EndSets DEF PullInv, PullFails
<1>3. clock' = clock /\ Second(clock) \in Nat
  BY ClockSecond DEF PullInv, vars
<1>4. CursorsBehind'
  BY <1>2, <1>3 DEF PullInv, CursorsBehind
<1>5. \A u \in Devices, k \in Kinds : \A id : Held(u, k, id)' <=> Held(u, k, id)
  BY SameDb DEF Held, Reached, Pending
<1>6. RowsHeld'
  BY <1>5, SameDb DEF PullInv, RowsHeld
<1>7. RowsGot'
  BY <1>2, GotStays DEF Queried
<1> QED BY <1>4, <1>6, <1>7

\* An answered pull has queried every table: what it got, or leaves to its cursor,
\* is every row the device had still to get.
LEMMA AnswerHolds ==
  ASSUME PullInv, NEW v \in Devices, PullAnswer(v)
  PROVE  CursorsBehind' /\ RowsHeld' /\ RowsGot'
<1>1. UNCHANGED <<vars, exposed>> /\ pull[v].pc = "answer"
  BY DEF PullAnswer
<1> USE <1>1
<1>2. /\ pull'[v].pc = "idle" /\ pull'[v].synced = 0
      /\ \A u \in Devices \ {v} : pull'[u] = pull[u]
  BY EndSets DEF PullInv, PullAnswer
<1>3. /\ cursor'[v] = pull[v].synced
      /\ \A u \in Devices \ {v} : cursor'[u] = cursor[u]
  BY CursorSets DEF PullInv
<1>4. /\ \A kind \in Kinds : seen'[v][kind] = Merge(seen[v][kind], pull[v].got[kind])
      /\ \A u \in Devices \ {v} : seen'[u] = seen[u]
  BY AnswerSets DEF PullInv
<1>5. clock' = clock /\ Second(clock) \in Nat
  BY ClockSecond DEF PullInv, vars
<1>6. CursorsBehind'
  BY <1>2, <1>3, <1>5 DEF PullInv, CursorsBehind
<1>7. ASSUME NEW kind \in Kinds, NEW id \in Mine(v, kind) PROVE Held(v, kind, id)'
  <2>1. Got(v, kind, id)
    BY DEF PullInv, RowsGot, Queried
  <2>2. CASE /\ id \in DOMAIN pull[v].got[kind]
             /\ pull[v].got[kind][id] = Db[kind][id]
    BY <1>4, <2>2, SameDb DEF Held, Reached, Merge
  <2>3. CASE id \notin DOMAIN pull[v].got[kind] /\ Reached(v, kind, id)
    BY <1>4, <2>3, SameDb DEF Held, Reached, Merge
  <2>4. CASE id \in Selected(kind, DeviceUser[v], pull[v].synced)
    BY <1>3, <2>4, SameDb DEF Held, Pending
  <2>5. <<kind, id>> \in exposed => Held(v, kind, id)'
    BY DEF Held
  <2> QED BY <2>1, <2>2, <2>3, <2>4, <2>5 DEF Got
<1>8. \A u \in Devices \ {v}, k \in Kinds : \A id : Held(u, k, id)' <=> Held(u, k, id)
  BY <1>3, <1>4, SameDb DEF Held, Reached, Pending
<1>9. RowsHeld'
  BY <1>7, <1>8, SameDb DEF PullInv, RowsHeld
<1>10. RowsGot'
  BY <1>2, <1>4, GotStays DEF Queried
<1> QED BY <1>6, <1>9, <1>10

LEMMA PullInvInit == PInit => PullInv
<1> SUFFICES ASSUME PInit PROVE PullInv
  OBVIOUS
<1>1. TypeOK /\ clock \in Nat
  BY EmptyIsTable, SyncAssumption
  DEF PInit, Init, TypeOK, RequestState, ServerTimes
<1>2. /\ folders = EmptyTable /\ documents = EmptyTable /\ pages = EmptyTable
      /\ DOMAIN EmptyTable = {}
  BY DEF PInit, Init, EmptyTable
<1>3. \A kind \in Kinds : DOMAIN Db[kind] = {}
  BY <1>2 DEF Kinds, Db
<1>4. Second(MaxClock) \in Nat /\ 0 \in 0..Second(MaxClock)
  BY Seconds, SyncAssumption
<1>5. NoPull \in Pulls
  BY <1>4, NoRowsRows DEF NoPull, Pulls
<1>6. PullTypeOK
  BY <1>4, <1>5, NoRowsRows DEF PInit, PullTypeOK, Pulls
<1>7. PagesPlaced
  BY <1>2 DEF PagesPlaced
<1>8. CursorsBehind
  <2>1. \A v \in Devices : cursor[v] = 0 /\ pull[v] = NoPull
    BY DEF PInit
  <2>2. NoPull.synced = 0
    BY DEF NoPull
  <2> QED BY <1>1, <2>1, <2>2, ClockSecond DEF CursorsBehind
<1>9. RowsHeld /\ RowsGot
  BY <1>3 DEF RowsHeld, RowsGot, Mine, Queried, Kinds
<1> QED BY <1>1, <1>6, <1>7, <1>8, <1>9 DEF PullInv

LEMMA PullInvStep == PullInv /\ [PNext]_<<vars, pvars>> => PullInv'
<1> SUFFICES ASSUME PullInv, [PNext]_<<vars, pvars>> PROVE PullInv'
  OBVIOUS
<1>1. [Next]_vars
  BY DEF PNext, StoreStep, PullBegin, PullQuery, PullTable, PullAnswer, PullFails
<1>2. TypeOK' /\ PagesPlaced' /\ PullTypeOK'
  BY <1>1, TypeStep, PagesPlacedStep, PullTypeStep DEF PullInv
<1>3. ASSUME StoreStep PROVE CursorsBehind' /\ RowsHeld' /\ RowsGot'
  BY <1>3, StoreStepHeld DEF StoreStep
<1>4. ASSUME NEW v \in Devices,
             PullBegin(v) \/ PullQuery(v) \/ PullAnswer(v) \/ PullFails(v)
      PROVE  CursorsBehind' /\ RowsHeld' /\ RowsGot'
  BY <1>4, BeginHolds, TableGets, AnswerHolds, FailHolds DEF PullQuery
<1>5. ASSUME UNCHANGED <<vars, pvars>> PROVE CursorsBehind' /\ RowsHeld' /\ RowsGot'
  <2>1. UNCHANGED <<vars, exposed>> /\ UNCHANGED <<cursor, seen, pull>>
    BY <1>5 DEF pvars
  <2>2. CursorsBehind'
    BY <2>1 DEF PullInv, CursorsBehind, vars
  <2>3. \A v \in Devices, kind \in Kinds : \A id :
          /\ Held(v, kind, id)' <=> Held(v, kind, id)
          /\ Got(v, kind, id)' <=> Got(v, kind, id)
    BY <2>1, SameDb DEF Held, Got, Reached, Pending
  <2>4. \A v \in Devices : Queried(pull[v].pc) \subseteq Kinds
    BY DEF Queried, Kinds
  <2>5. RowsHeld' /\ RowsGot'
    BY <2>1, <2>3, <2>4, SameDb DEF PullInv, RowsHeld, RowsGot
  <2> QED BY <2>2, <2>5
<1> QED BY <1>2, <1>3, <1>4, <1>5 DEF PNext, PullInv

\* Cursors, rows and pulls stay of their types.
THEOREM PullsTyped == PSpec => []PullTypeOK
<1>1. PullInv => PullTypeOK
  BY DEF PullInv
<1> QED BY <1>1, PullInvInit, PullInvStep, PTL DEF PSpec

\* No device misses a row that is not exposed: one written within the second of a
\* stamp that is after the second's first tick.
THEOREM TimelyRowsAreHeld == PSpec => []TimelyRowsReachDevices
<1>1. PullInv => TimelyRowsReachDevices
  BY DEF PullInv, RowsHeld, Held, TimelyRowsReachDevices
<1> QED BY <1>1, PullInvInit, PullInvStep, PTL DEF PSpec

-----------------------------------------------------------------------------
\* What makes DevicesNeverAhead inductive: a pull in flight is not ahead either.
NotAhead(rows) ==
  \A kind \in Kinds : \A id \in DOMAIN rows[kind] :
    id \in DOMAIN Db[kind] /\ rows[kind][id].cts <= Db[kind][id].cts

AheadInv == PullInv /\ \A v \in Devices : NotAhead(seen[v]) /\ NotAhead(pull[v].got)

LEMMA StoreStepNotAhead ==
  ASSUME PullInv, [Next]_vars, UploadsKeepOrder, NEW rows \in RowSets, NotAhead(rows)
  PROVE  \A kind \in Kinds : \A id \in DOMAIN rows[kind] :
           id \in DOMAIN Db'[kind] /\ rows[kind][id].cts <= Db'[kind][id].cts
<1> SUFFICES ASSUME NEW kind \in Kinds, NEW id \in DOMAIN rows[kind]
             PROVE  id \in DOMAIN Db'[kind] /\ rows[kind][id].cts <= Db'[kind][id].cts
  OBVIOUS
<1>1. id \in DOMAIN Db[kind] /\ rows[kind][id].cts <= Db[kind][id].cts
  BY DEF NotAhead
<1>2. id \in DOMAIN Db'[kind]
  BY <1>1, RowsStay DEF PullInv
<1>3. Db[kind][id].cts <= Db'[kind][id].cts
  <2>1. /\ EditTimesRise(folders, folders')
        /\ EditTimesRise(documents, documents')
        /\ EditTimesRise(pages, pages')
    BY StepRises DEF PullInv
  <2> QED BY <1>1, <2>1 DEF Kinds, Db, EditTimesRise
<1>4. Db \in RowSets /\ Db' \in RowSets
  BY TypeStep, DbRows DEF PullInv
<1>5. rows[kind][id].cts \in Nat /\ Db[kind][id].cts \in Nat /\ Db'[kind][id].cts \in Nat
  BY <1>1, <1>2, <1>4, RowStamps
<1> QED BY <1>1, <1>2, <1>3, <1>5

LEMMA MergedRows ==
  ASSUME NEW old, NEW new, NEW id \in DOMAIN Merge(old, new)
  PROVE  \/ id \in DOMAIN new /\ Merge(old, new)[id] = new[id]
         \/ id \in DOMAIN old /\ Merge(old, new)[id] = old[id]
BY DEF Merge

LEMMA AheadInvStep ==
  AheadInv /\ [PNext]_<<vars, pvars>> /\ [UploadsKeepOrder]_<<vars, pvars>> => AheadInv'
<1> SUFFICES ASSUME AheadInv, [PNext]_<<vars, pvars>>, [UploadsKeepOrder]_<<vars, pvars>>
             PROVE  \A v \in Devices : NotAhead(seen[v])' /\ NotAhead(pull[v].got)'
  BY PullInvStep DEF AheadInv
<1>1. PullInv /\ \A v \in Devices : NotAhead(seen[v]) /\ NotAhead(pull[v].got)
  BY DEF AheadInv
<1>2. CASE StoreStep /\ UploadsKeepOrder
  <2>1. /\ [Next]_vars /\ UNCHANGED <<cursor, seen, pull>>
        /\ \A v \in Devices : seen[v] \in RowSets /\ pull[v].got \in RowSets
    BY <1>1, <1>2, PullFields DEF StoreStep, PullInv
  <2>2. UploadsKeepOrder
    BY <1>2
  <2>3. ASSUME NEW v \in Devices PROVE NotAhead(seen[v])'
    <3>1. /\ seen[v] \in RowSets /\ NotAhead(seen[v]) /\ seen'[v] = seen[v]
      BY <1>1, <2>1
    <3> QED BY <1>1, <2>1, <2>2, <3>1, StoreStepNotAhead DEF NotAhead
  <2>4. ASSUME NEW v \in Devices PROVE NotAhead(pull[v].got)'
    <3>1. pull[v].got \in RowSets /\ NotAhead(pull[v].got) /\ pull'[v] = pull[v]
      BY <1>1, <2>1
    <3> QED BY <1>1, <2>1, <2>2, <3>1, StoreStepNotAhead DEF NotAhead
  <2> QED BY <2>3, <2>4
<1>3. ASSUME NEW v \in Devices, Db' = Db, NotAhead(seen'[v]), NotAhead(pull'[v].got),
             \A u \in Devices \ {v} : pull'[u] = pull[u] /\ seen'[u] = seen[u]
      PROVE  \A u \in Devices : NotAhead(seen[u])' /\ NotAhead(pull[u].got)'
  BY <1>1, <1>3 DEF NotAhead
<1>4. (UNCHANGED vars) => Db' = Db
  BY DEF vars, Db
<1>5. NotAhead(NoRows)
  BY DEF NotAhead, NoRows, EmptyTable
<1>6. ASSUME NEW v \in Devices, PullBegin(v)
      PROVE  \A u \in Devices : NotAhead(seen[u])' /\ NotAhead(pull[u].got)'
  <2>1. UNCHANGED vars /\ seen' = seen
    BY <1>6 DEF PullBegin
  <2>2. pull'[v].got = NoRows /\ \A u \in Devices \ {v} : pull'[u] = pull[u]
    BY <1>1, <1>6, BeginSets DEF PullInv
  <2> QED BY <1>1, <1>3, <1>4, <1>5, <2>1, <2>2
<1>7. ASSUME NEW v \in Devices, PullFails(v)
      PROVE  \A u \in Devices : NotAhead(seen[u])' /\ NotAhead(pull[u].got)'
  <2>1. UNCHANGED vars /\ seen' = seen
    BY <1>7 DEF PullFails
  <2>2. pull'[v].got = NoRows /\ \A u \in Devices \ {v} : pull'[u] = pull[u]
    BY <1>1, <1>7, EndSets DEF PullInv, PullFails
  <2> QED BY <1>1, <1>3, <1>4, <1>5, <2>1, <2>2
<1>8. ASSUME NEW v \in Devices, NEW kind \in Kinds, PullTable(v, kind)
      PROVE  \A u \in Devices : NotAhead(seen[u])' /\ NotAhead(pull[u].got)'
  <2>1. UNCHANGED vars /\ seen' = seen
    BY <1>8 DEF PullTable
  <2>2. /\ pull'[v].got[kind] = Answer(kind, DeviceUser[v], cursor[v])
        /\ \A k \in Kinds \ {kind} : pull'[v].got[k] = pull[v].got[k]
        /\ \A u \in Devices \ {v} : pull'[u] = pull[u]
    BY <1>1, <1>8, TableSets DEF PullInv
  <2>3. ASSUME NEW id \in DOMAIN pull'[v].got[kind]
        PROVE  id \in DOMAIN Db[kind] /\ pull'[v].got[kind][id].cts <= Db[kind][id].cts
    <3>1. id \in DOMAIN Db[kind] /\ pull'[v].got[kind][id] = Db[kind][id]
      BY <1>1, <2>2, <2>3, AnswerTable DEF PullInv
    <3>2. Db[kind][id].cts \in Nat
      BY <1>1, <3>1, DbRows, RowStamps DEF PullInv
    <3> QED BY <3>1, <3>2
  <2>4. NotAhead(pull'[v].got)
    BY <1>1, <2>2, <2>3 DEF NotAhead
  <2>5. Db' = Db /\ NotAhead(seen'[v])
    BY <1>1, <1>4, <2>1
  <2>6. \A u \in Devices \ {v} : pull'[u] = pull[u] /\ seen'[u] = seen[u]
    BY <2>1, <2>2
  <2> QED BY <1>3, <2>4, <2>5, <2>6, Zenon
<1>9. ASSUME NEW v \in Devices, PullAnswer(v)
      PROVE  \A u \in Devices : NotAhead(seen[u])' /\ NotAhead(pull[u].got)'
  <2>1. UNCHANGED vars
    BY <1>9 DEF PullAnswer
  <2>2. pull'[v].got = NoRows /\ \A u \in Devices \ {v} : pull'[u] = pull[u]
    BY <1>1, <1>9, EndSets DEF PullInv, PullAnswer
  <2>3. /\ \A kind \in Kinds : seen'[v][kind] = Merge(seen[v][kind], pull[v].got[kind])
        /\ \A u \in Devices \ {v} : seen'[u] = seen[u]
    BY <1>1, <1>9, AnswerSets DEF PullInv
  <2>4. NotAhead(seen'[v])
    <3> SUFFICES ASSUME NEW kind \in Kinds, NEW id \in DOMAIN seen'[v][kind]
                 PROVE  id \in DOMAIN Db[kind] /\ seen'[v][kind][id].cts <= Db[kind][id].cts
      BY DEF NotAhead
    <3>1. \/ /\ id \in DOMAIN pull[v].got[kind]
             /\ seen'[v][kind][id] = pull[v].got[kind][id]
          \/ id \in DOMAIN seen[v][kind] /\ seen'[v][kind][id] = seen[v][kind][id]
      <4> DEFINE merged == Merge(seen[v][kind], pull[v].got[kind])
      <4>1. seen'[v][kind] = merged
        BY <2>3
      <4> HIDE DEF merged
      <4>2. id \in DOMAIN merged
        BY <4>1, Zenon
      <4>3. \/ id \in DOMAIN pull[v].got[kind] /\ merged[id] = pull[v].got[kind][id]
            \/ id \in DOMAIN seen[v][kind] /\ merged[id] = seen[v][kind][id]
        BY <4>2, MergedRows, Zenon DEF merged
      <4> QED BY <4>1, <4>3, Zenon
    <3>2. NotAhead(pull[v].got) /\ NotAhead(seen[v])
      BY <1>1
    <3>3. CASE id \in DOMAIN pull[v].got[kind] /\ seen'[v][kind][id] = pull[v].got[kind][id]
      BY <3>2, <3>3, Zenon DEF NotAhead
    <3>4. CASE id \in DOMAIN seen[v][kind] /\ seen'[v][kind][id] = seen[v][kind][id]
      BY <3>2, <3>4, Zenon DEF NotAhead
    <3> QED BY <3>1, <3>3, <3>4, Zenon
  <2>5. NotAhead(pull'[v].got) /\ Db' = Db
    BY <1>4, <1>5, <2>1, <2>2, Zenon
  <2>6. \A u \in Devices \ {v} : pull'[u] = pull[u] /\ seen'[u] = seen[u]
    BY <2>2, <2>3
  <2> QED BY <1>3, <2>4, <2>5, <2>6, Zenon
<1>10. CASE UNCHANGED <<vars, pvars>>
  <2>1. Db' = Db /\ seen' = seen /\ pull' = pull
    BY <1>4, <1>10 DEF pvars
  <2> QED BY <1>1, <2>1 DEF NotAhead
<1> QED BY <1>2, <1>6, <1>7, <1>8, <1>9, <1>10 DEF PNext, PullQuery

\* As long as no upload sets a document's edit time back, no device holds a row with
\* a later client_updated_at than the store's.
THEOREM DevicesBehind ==
  PSpec /\ [][UploadsKeepOrder]_<<vars, pvars>> => []DevicesNeverAhead
<1>1. PInit => AheadInv
  <2> SUFFICES ASSUME PInit PROVE \A v \in Devices : NotAhead(seen[v]) /\ NotAhead(pull[v].got)
    BY PullInvInit DEF AheadInv
  <2>1. \A v \in Devices : seen[v] = NoRows /\ pull[v] = NoPull
    BY DEF PInit
  <2>2. NoPull.got = NoRows /\ NotAhead(NoRows)
    BY DEF NoPull, NotAhead, NoRows, EmptyTable
  <2> QED BY <2>1, <2>2
<1>2. AheadInv => DevicesNeverAhead
  BY DEF AheadInv, NotAhead, DevicesNeverAhead
<1> QED BY <1>1, <1>2, AheadInvStep, PTL DEF PSpec

=============================================================================
