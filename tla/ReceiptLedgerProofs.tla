------------------------ MODULE ReceiptLedgerProofs -------------------------
(***************************************************************************)
(* What becomes of photos, rows and edits, for any number of requests at   *)
(* once, accounts, receipts and folders.                                   *)
(***************************************************************************)
EXTENDS ReceiptLedger, TablesProofs

InFlight(p) == req[p].pc \in {"model", "insert", "insertAgain"}

\* The id of an extraction is its own: it has no row yet and never had one.
IdsAreApart ==
  /\ DOMAIN receipts \subseteq issued
  /\ \A p \in Requests : InFlight(p) => req[p].id \in issued \ (DOMAIN receipts \cup gone)
  /\ \A p, q \in Requests :
       InFlight(p) /\ InFlight(q) /\ req[p].id = req[q].id => p = q

\* The image an extraction is going to enter is stored.
ImagesInFlight ==
  \A p \in Requests : InFlight(p) => req[p].image \in objects \cup {NULL}

Waits(p) == InFlight(p) /\ req[p].heard

\* The app waits for one answer per photo.
OneWaits ==
  /\ \A p \in Requests : Waits(p) => client[req[p].photo] = "waiting"
  /\ \A p, q \in Requests : Waits(p) /\ Waits(q) /\ req[p].photo = req[q].photo => p = q

\* One row more than unheard ones only when the app has heard of it.
CopiesCounted ==
  \A photo \in Photos :
    copies[photo] <= unheard[photo] + IF client[photo] = "entered" THEN 1 ELSE 0

\* An edit differs from the row as it is now only in what it names and in what
\* others wrote since it read the row, which is or was there.
EditsFresh ==
  \A p \in Requests : req[p].pc = "write" =>
    /\ req[p].id \in DOMAIN receipts \cup gone
    /\ req[p].id \in DOMAIN receipts =>
         Changed(receipts[req[p].id], req[p]) \subseteq req[p].patched \cup req[p].raced

LedgerInv ==
  /\ TypeOK
  /\ IdsAreApart
  /\ ImagesAreStored
  /\ ImagesInFlight
  /\ DeletedStaysDeleted
  /\ OneWaits
  /\ CopiesCounted
  /\ EditsFresh

-----------------------------------------------------------------------------
Reqs == {Idle} \cup Extraction \cup Edit

\* What a request is at each stage.
LEMMA RequestFields ==
  ASSUME TypeOK, NEW p \in Requests
  PROVE  /\ req[p].pc = "model" => req[p] \in ExtractionAt({"model"}, {EmptyTable})
         /\ req[p].pc \in {"insert", "insertAgain"}
              => req[p] \in ExtractionAt({"insert", "insertAgain"}, Cols)
         /\ req[p].pc = "write" => req[p] \in Edit
         /\ req[p].pc \notin {"model", "insert", "insertAgain", "write"} => req[p] = Idle
<1>1. req[p] \in {Idle} \cup Extraction \cup Edit
  BY DEF TypeOK
<1> QED BY <1>1 DEF Idle, Extraction, ExtractionAt, Edit

LEMMA InFlightFields ==
  ASSUME TypeOK, NEW p \in Requests, InFlight(p)
  PROVE  /\ req[p].user \in Users /\ req[p].photo \in Photos /\ req[p].id \in ReceiptIds
         /\ req[p].heard \in BOOLEAN
         /\ req[p].folder \in FolderIds \cup {NULL}
         /\ req[p].image \in ReceiptIds \cup {NULL}
         /\ req[p].pc # "model" => req[p].cols \in Cols
BY RequestFields DEF InFlight, ExtractionAt

LEMMA EditFields ==
  ASSUME TypeOK, NEW p \in Requests, req[p].pc = "write"
  PROVE  /\ req[p].user \in Users /\ req[p].id \in ReceiptIds
         /\ req[p].cols \in Cols
         /\ req[p].folder \in FolderIds \cup {NULL}
         /\ req[p].patched \in SUBSET (Columns \cup {"folder"})
         /\ req[p].raced \in SUBSET (Columns \cup {"folder"})
BY RequestFields DEF Edit

\* The requests after one of them has become r.
LEMMA Becomes ==
  ASSUME TypeOK, NEW p \in Requests, NEW r \in Reqs, req' = [req EXCEPT ![p] = r]
  PROVE  /\ req' \in [Requests -> Reqs]
         /\ req'[p] = r
         /\ \A q \in Requests \ {p} : req'[q] = req[q]
BY DEF TypeOK, Reqs

LEMMA Ends ==
  ASSUME TypeOK, NEW p \in Requests, End(p)
  PROVE  /\ req' \in [Requests -> Reqs]
         /\ req'[p].pc = "idle" /\ ~InFlight(p)'
         /\ \A q \in Requests \ {p} : req'[q] = req[q]
<1>1. Idle \in Reqs /\ Idle.pc = "idle"
  BY DEF Reqs, Idle
<1> QED BY <1>1, Becomes DEF End, InFlight

\* The app's view after an answer.
LEMMA Answered ==
  ASSUME TypeOK, NEW p \in Requests, InFlight(p), NEW done \in BOOLEAN,
         AnswerExtract(p, done)
  PROVE  /\ client' \in [Photos -> {"unsent", "waiting", "entered"}]
         /\ ~req[p].heard => client' = client
         /\ req[p].heard => client'[req[p].photo] = IF done THEN "entered" ELSE "unsent"
         /\ \A photo \in Photos \ {req[p].photo} : client'[photo] = client[photo]
BY InFlightFields DEF AnswerExtract, TypeOK

LEMMA RowFields ==
  ASSUME TypeOK
  PROVE  /\ DOMAIN receipts \subseteq ReceiptIds
         /\ \A id \in DOMAIN receipts : receipts[id] \in Row
BY TableRows DEF TypeOK

\* Enter adds the row of p's extraction and ends p.
LEMMA Entered ==
  ASSUME TypeOK, NEW p \in Requests, req[p].pc \in {"insert", "insertAgain"},
         NEW folder \in FolderIds \cup {NULL}, NEW done \in BOOLEAN, Enter(p, folder, done)
  PROVE  /\ receipts' \in Table(ReceiptIds, Row)
         /\ DOMAIN receipts' = DOMAIN receipts \cup {req[p].id}
         /\ receipts'[req[p].id].image = req[p].image
         /\ \A id \in DOMAIN receipts : id # req[p].id => receipts'[id] = receipts[id]
         /\ copies' \in [Photos -> Nat] /\ unheard' \in [Photos -> Nat]
         /\ copies'[req[p].photo] = copies[req[p].photo] + 1
         /\ unheard'[req[p].photo] =
              IF done /\ req[p].heard THEN unheard[req[p].photo] ELSE unheard[req[p].photo] + 1
         /\ \A photo \in Photos \ {req[p].photo} :
              copies'[photo] = copies[photo] /\ unheard'[photo] = unheard[photo]
<1>1. /\ InFlight(p) /\ req[p].user \in Users /\ req[p].photo \in Photos
      /\ req[p].id \in ReceiptIds /\ req[p].image \in ReceiptIds \cup {NULL}
      /\ req[p].cols \in Cols
  BY InFlightFields DEF InFlight
<1>2. Extracted(p, folder) \in Row /\ Extracted(p, folder).image = req[p].image
  BY <1>1 DEF Extracted, Row
<1>3. receipts' = Put(receipts, req[p].id, Extracted(p, folder))
  BY DEF Enter
<1>4. receipts' \in Table(ReceiptIds, Row)
  BY <1>1, <1>2, <1>3, PutIsTable DEF TypeOK
<1>5. /\ DOMAIN receipts' = DOMAIN receipts \cup {req[p].id}
      /\ receipts'[req[p].id] = Extracted(p, folder)
      /\ \A id \in DOMAIN receipts : id # req[p].id => receipts'[id] = receipts[id]
  BY <1>3 DEF Put
<1>6. /\ copies \in [Photos -> Nat] /\ unheard \in [Photos -> Nat]
      /\ copies' = [copies EXCEPT ![req[p].photo] = @ + 1]
      /\ unheard' = IF done /\ req[p].heard THEN unheard
                    ELSE [unheard EXCEPT ![req[p].photo] = @ + 1]
  BY DEF Enter, TypeOK
<1>7. /\ copies' \in [Photos -> Nat]
      /\ copies'[req[p].photo] = copies[req[p].photo] + 1
      /\ \A photo \in Photos \ {req[p].photo} : copies'[photo] = copies[photo]
  BY <1>1, <1>6
<1>8. /\ unheard' \in [Photos -> Nat]
      /\ unheard'[req[p].photo] =
           IF done /\ req[p].heard THEN unheard[req[p].photo] ELSE unheard[req[p].photo] + 1
      /\ \A photo \in Photos \ {req[p].photo} : unheard'[photo] = unheard[photo]
  BY <1>1, <1>6
<1> QED BY <1>2, <1>4, <1>5, <1>7, <1>8

\* An insert that writes is an Enter; one whose folder is refused tries again.
LEMMA Inserts ==
  ASSUME TypeOK, NEW p \in Requests, Insert(p) \/ InsertAgain(p) \/ InsertReplyLost(p)
  PROVE  /\ req[p].pc \in {"insert", "insertAgain"}
         /\ \/ \E folder \in FolderIds \cup {NULL}, done \in BOOLEAN : Enter(p, folder, done)
            \/ /\ req[p].pc = "insert" /\ req' = [req EXCEPT ![p].pc = "insertAgain"]
               /\ UNCHANGED <<receipts, folders, objects, issued, client, history>>
<1>1. req[p].pc \in {"insert", "insertAgain"}
  BY DEF Insert, InsertAgain, InsertReplyLost
<1>2. req[p].folder \in FolderIds \cup {NULL}
  BY <1>1, InFlightFields DEF InFlight
<1> QED BY <1>1, <1>2 DEF Insert, InsertAgain, InsertReplyLost

\* The stages before the INSERT, and the loss of the connection, keep what the
\* extraction is of.
LEMMA GoesOn ==
  ASSUME TypeOK, NEW p \in Requests, InFlight(p),
         \/ ModelAnswers(p)
         \/ GiveUp(p)
         \/ req[p].pc = "insert" /\ req' = [req EXCEPT ![p].pc = "insertAgain"]
  PROVE  /\ req' \in [Requests -> Reqs]
         /\ InFlight(p)'
         /\ req'[p].id = req[p].id /\ req'[p].image = req[p].image
         /\ req'[p].photo = req[p].photo
         /\ ~GiveUp(p) => req'[p].heard = req[p].heard
         /\ GiveUp(p) => ~req'[p].heard
         /\ \A q \in Requests \ {p} : req'[q] = req[q]
<1>1. CASE ModelAnswers(p)
  <2>1. PICK cols \in Cols : req' = [req EXCEPT ![p].pc = "insert", ![p].cols = cols]
    BY <1>1 DEF ModelAnswers
  <2>2. req[p] \in ExtractionAt({"model"}, {EmptyTable})
    BY <1>1, RequestFields DEF ModelAnswers
  <2> DEFINE r == [req[p] EXCEPT !.pc = "insert", !.cols = cols]
  <2>3. /\ r \in ExtractionAt({"insert", "insertAgain"}, Cols)
        /\ r.id = req[p].id /\ r.image = req[p].image /\ r.photo = req[p].photo
        /\ r.heard = req[p].heard /\ r.pc = "insert"
    BY <2>2 DEF ExtractionAt
  <2>4. r \in Reqs
    BY <2>3 DEF Reqs, Extraction
  <2>5. req' = [req EXCEPT ![p] = r]
    BY <2>1 DEF TypeOK
  <2>6. ~GiveUp(p)
    BY <2>1, <2>2, <2>3, <2>5 DEF GiveUp, TypeOK, ExtractionAt
  <2> HIDE DEF r
  <2> QED BY <2>3, <2>4, <2>5, <2>6, Becomes DEF InFlight
<1>2. CASE GiveUp(p)
  <2> DEFINE r == [req[p] EXCEPT !.heard = FALSE]
  <2>1. req' = [req EXCEPT ![p] = r]
    BY <1>2 DEF GiveUp, TypeOK
  <2>2. /\ r \in Extraction
        /\ r.id = req[p].id /\ r.image = req[p].image /\ r.photo = req[p].photo
        /\ ~r.heard /\ r.pc = req[p].pc
    BY <1>2, RequestFields DEF GiveUp, Extraction, ExtractionAt
  <2>3. r \in Reqs
    BY <2>2 DEF Reqs
  <2> HIDE DEF r
  <2> QED BY <1>2, <2>1, <2>2, <2>3, Becomes DEF InFlight
<1>3. CASE req[p].pc = "insert" /\ req' = [req EXCEPT ![p].pc = "insertAgain"]
  <2> DEFINE r == [req[p] EXCEPT !.pc = "insertAgain"]
  <2>1. req' = [req EXCEPT ![p] = r]
    BY <1>3 DEF TypeOK
  <2>2. req[p] \in ExtractionAt({"insert", "insertAgain"}, Cols)
    BY <1>3, RequestFields
  <2>3. /\ r \in ExtractionAt({"insert", "insertAgain"}, Cols)
        /\ r.id = req[p].id /\ r.image = req[p].image /\ r.photo = req[p].photo
        /\ r.heard = req[p].heard /\ r.pc = "insertAgain"
    BY <2>2 DEF ExtractionAt
  <2>4. r \in Reqs
    BY <2>3 DEF Reqs, Extraction
  <2>5. ~GiveUp(p)
    <3> SUFFICES ASSUME GiveUp(p) PROVE FALSE
      OBVIOUS
    <3>1. req'[p] = [req[p] EXCEPT !.heard = FALSE]
      BY DEF GiveUp, TypeOK
    <3>2. req'[p].pc = "insert"
      BY <1>3, <2>2, <3>1 DEF ExtractionAt
    <3>3. req'[p] = r
      BY <2>1 DEF TypeOK
    <3> QED BY <2>3, <3>2, <3>3
  <2> HIDE DEF r
  <2> QED BY <2>1, <2>3, <2>4, <2>5, Becomes DEF InFlight
<1> QED BY <1>1, <1>2, <1>3

\* POST /receipts/extract draws an id nobody has and makes the app wait.
LEMMA Begins ==
  ASSUME TypeOK, NEW p \in Requests, NEW user \in Users, NEW photo \in Photos,
         NEW folder \in FolderIds \cup {NULL}, NEW stored \in BOOLEAN, NEW err \in BOOLEAN,
         Extract(p, user, photo, folder, stored, err)
  PROVE  /\ req' \in [Requests -> Reqs]
         /\ ~InFlight(p) /\ InFlight(p)'
         /\ req'[p].id \in ReceiptIds \ issued
         /\ issued' = issued \cup {req'[p].id}
         /\ objects \subseteq objects' /\ objects' \subseteq objects \cup {req'[p].id}
         /\ req'[p].image \in objects' \cup {NULL}
         /\ req'[p].photo = photo /\ req'[p].heard
         /\ client[photo] = "unsent"
         /\ client' = [client EXCEPT ![photo] = "waiting"]
         /\ \A q \in Requests \ {p} : req'[q] = req[q]
<1>1. PICK id \in ReceiptIds \ issued :
        /\ req[p].pc = "idle" /\ client[photo] = "unsent" /\ (stored \/ err)
        /\ client' = [client EXCEPT ![photo] = "waiting"]
        /\ issued' = issued \cup {id}
        /\ objects' = IF stored THEN objects \cup {id} ELSE objects
        /\ req' = [req EXCEPT ![p] =
             [pc |-> "model", user |-> user, photo |-> photo, id |-> id, heard |-> TRUE,
              folder |-> folder, image |-> ImageKey(id, stored, err), cols |-> EmptyTable]]
  BY DEF Extract
<1> DEFINE r == [pc |-> "model", user |-> user, photo |-> photo, id |-> id, heard |-> TRUE,
                 folder |-> folder, image |-> ImageKey(id, stored, err), cols |-> EmptyTable]
<1>2. ImageKey(id, stored, err) \in (objects' \cup {NULL}) \cap (ReceiptIds \cup {NULL})
  BY <1>1 DEF ImageKey
<1>3. r \in ExtractionAt({"model"}, {EmptyTable})
  BY <1>2 DEF ExtractionAt
<1>4. r \in Reqs
  BY <1>3 DEF Reqs, Extraction
<1>5. /\ r.id = id /\ r.image = ImageKey(id, stored, err) /\ r.photo = photo
      /\ r.heard = TRUE /\ r.pc = "model"
  OBVIOUS
<1> HIDE DEF r
<1>6. /\ req' \in [Requests -> Reqs] /\ req'[p] = r
      /\ \A q \in Requests \ {p} : req'[q] = req[q]
  BY <1>1, <1>4, Becomes DEF r
<1> QED BY <1>1, <1>2, <1>5, <1>6 DEF InFlight

\* The merge is of all columns, those of the row where the request has none.
LEMMA Merged ==
  ASSUME NEW cols \in Cols, NEW patch \in Patches
  PROVE  /\ Merge(cols, patch) \in Cols
         /\ \A c \in Columns \ DOMAIN patch : Merge(cols, patch)[c] = cols[c]
         /\ DOMAIN patch \subseteq Columns
<1>1. PICK C \in SUBSET Columns : patch \in [C -> Values]
  BY DEF Patches
<1> QED BY <1>1 DEF Merge, Cols

\* PUT reads a row and merges the request into it.
LEMMA Reads ==
  ASSUME TypeOK, NEW p \in Requests, NEW user \in Users, NEW id \in ReceiptIds,
         NEW patch \in Patches, NEW folder \in FolderIds \cup {NULL},
         Update(p, user, id, patch, folder)
  PROVE  /\ req' \in [Requests -> Reqs]
         /\ req'[p].pc = "write" /\ req'[p].id = id
         /\ Changed(receipts[id], req'[p]) \subseteq req'[p].patched
         /\ \A q \in Requests \ {p} : req'[q] = req[q]
<1> DEFINE old == receipts[id]
           r == [pc |-> "write", user |-> user, id |-> id,
                 cols |-> Merge(old.cols, patch), folder |-> MergeFolder(old.folder, folder),
                 patched |-> DOMAIN patch \cup IF folder = NULL THEN {} ELSE {"folder"},
                 raced |-> {}]
<1>1. req' = [req EXCEPT ![p] = r] /\ old \in Row
  BY RowFields DEF Update
<1>2. /\ Merge(old.cols, patch) \in Cols
      /\ \A c \in Columns \ DOMAIN patch : Merge(old.cols, patch)[c] = old.cols[c]
      /\ DOMAIN patch \subseteq Columns
  BY <1>1, Merged DEF Row
<1>3. /\ MergeFolder(old.folder, folder) \in FolderIds \cup {NULL}
      /\ folder = NULL => MergeFolder(old.folder, folder) = old.folder
  BY <1>1 DEF MergeFolder, Coalesce, Row
<1>4. r \in Edit
  BY <1>2, <1>3 DEF Edit
<1>5. Changed(old, r) \subseteq r.patched
  BY <1>2, <1>3 DEF Changed
<1>6. r \in Reqs /\ r.pc = "write" /\ r.id = id
  BY <1>4 DEF Reqs
<1> HIDE DEF r
<1> QED BY <1>1, <1>5, <1>6, Becomes

\* The UPDATE changes the edited columns of one row, and tells the other edits.
LEMMA Writes ==
  ASSUME TypeOK, NEW p \in Requests, Write(p)
  PROVE  /\ req[p].pc = "write"
         /\ receipts' \in Table(ReceiptIds, Row)
         /\ DOMAIN receipts' = DOMAIN receipts
         /\ \A id \in DOMAIN receipts :
              /\ receipts'[id].image = receipts[id].image
              /\ id # req[p].id => receipts'[id] = receipts[id]
         /\ req[p].id \in DOMAIN receipts =>
              Changed(receipts[req[p].id], receipts'[req[p].id])
                \subseteq Changed(receipts[req[p].id], req[p])
         /\ req' \in [Requests -> Reqs]
         /\ req'[p].pc = "idle" /\ ~InFlight(p)'
         /\ \A q \in Requests \ {p} :
              /\ req[q].pc # "write" => req'[q] = req[q]
              /\ req[q].pc = "write" =>
                   /\ req'[q].pc = "write" /\ req'[q].id = req[q].id
                   /\ req'[q].cols = req[q].cols /\ req'[q].folder = req[q].folder
                   /\ req'[q].patched = req[q].patched
                   /\ req[q].raced \subseteq req'[q].raced
                   /\ req[q].id = req[p].id /\ req[p].id \in DOMAIN receipts =>
                        Changed(receipts[req[p].id], receipts'[req[p].id])
                          \subseteq req'[q].raced
<1> DEFINE id  == req[p].id
           new == Updated(receipts[id], req[p])
           ok  == id \in DOMAIN receipts /\ FolderKnown(req[p].folder)
           changes == IF ok THEN Changed(receipts[id], new) ELSE {}
<1>1. /\ req[p].pc = "write"
      /\ receipts' = IF ok THEN Put(receipts, id, new) ELSE receipts
      /\ Overtake(p, id, changes)
  BY DEF Write
<1>2. /\ id \in ReceiptIds /\ req[p].cols \in Cols
      /\ req[p].folder \in FolderIds \cup {NULL}
  BY <1>1, EditFields
<1>3. id \in DOMAIN receipts =>
        /\ new \in Row
        /\ new.cols = req[p].cols /\ new.folder = req[p].folder
        /\ new.image = receipts[id].image
  BY <1>2, RowFields DEF Updated, Row
<1>4. /\ receipts' \in Table(ReceiptIds, Row)
      /\ DOMAIN receipts' = DOMAIN receipts
      /\ \A k \in DOMAIN receipts : /\ receipts'[k].image = receipts[k].image
                                    /\ k # id => receipts'[k] = receipts[k]
      /\ id \in DOMAIN receipts =>
           /\ Changed(receipts[id], receipts'[id]) \subseteq Changed(receipts[id], req[p])
           /\ Changed(receipts[id], receipts'[id]) \subseteq changes
  <2>1. CASE ok
    <3>1. receipts' = Put(receipts, id, new) /\ id \in DOMAIN receipts
      BY <1>1, <2>1
    <3>2. receipts' \in Table(ReceiptIds, Row)
      BY <1>2, <1>3, <3>1, PutIsTable DEF TypeOK
    <3>3. /\ DOMAIN receipts' = DOMAIN receipts
          /\ receipts'[id] = new
          /\ \A k \in DOMAIN receipts : k # id => receipts'[k] = receipts[k]
      BY <3>1 DEF Put
    <3>4. Changed(receipts[id], receipts'[id]) \subseteq Changed(receipts[id], req[p])
      BY <1>3, <3>1, <3>3 DEF Changed
    <3>5. changes = Changed(receipts[id], receipts'[id])
      BY <2>1, <3>3
    <3>6. \A k \in DOMAIN receipts : receipts'[k].image = receipts[k].image
      BY <1>3, <3>1, <3>3
    <3> HIDE DEF new, ok, changes
    <3> QED BY <3>2, <3>3, <3>4, <3>5, <3>6
  <2>2. CASE ~ok
    <3>1. receipts' = receipts
      BY <1>1, <2>2
    <3>2. Changed(receipts[id], receipts'[id]) = {}
      BY <3>1 DEF Changed
    <3> HIDE DEF new, ok, changes
    <3> QED BY <3>1, <3>2 DEF TypeOK
  <2> QED BY <2>1, <2>2
<1>5. changes \subseteq Columns \cup {"folder"}
  BY DEF Changed
<1> HIDE DEF new, ok, changes
<1>6. \A q \in Requests :
        /\ q = p => req'[q] = Idle
        /\ q # p /\ ~(req[q].pc = "write" /\ req[q].id = id) => req'[q] = req[q]
        /\ q # p /\ req[q].pc = "write" /\ req[q].id = id
             => req'[q] = [req[q] EXCEPT !.raced = @ \cup changes]
  BY <1>1 DEF Overtake
<1>7. ASSUME NEW q \in Requests, q # p, req[q].pc = "write", req[q].id = id
      PROVE  /\ req'[q] \in Edit
             /\ req'[q].pc = "write" /\ req'[q].id = req[q].id
             /\ req'[q].cols = req[q].cols /\ req'[q].folder = req[q].folder
             /\ req'[q].patched = req[q].patched
             /\ req'[q].raced = req[q].raced \cup changes
  <2>1. req[q] \in Edit
    BY <1>7, RequestFields
  <2>2. req'[q] = [req[q] EXCEPT !.raced = @ \cup changes]
    BY <1>6, <1>7
  <2> QED BY <1>5, <1>7, <2>1, <2>2 DEF Edit
<1>8. req' \in [Requests -> Reqs]
  <2>1. \A q \in Requests : req'[q] \in Reqs
    BY <1>6, <1>7 DEF TypeOK, Reqs
  <2>2. req' = [q \in Requests |-> req'[q]]
    BY <1>1 DEF Overtake
  <2> QED BY <2>1, <2>2
<1>9. req'[p].pc = "idle" /\ ~InFlight(p)'
  <2>1. req'[p] = Idle
    BY <1>6
  <2>2. Idle.pc = "idle"
    BY DEF Idle
  <2> QED BY <2>1, <2>2 DEF InFlight
<1>10. ASSUME NEW q \in Requests \ {p}
       PROVE  /\ req[q].pc # "write" => req'[q] = req[q]
              /\ req[q].pc = "write" =>
                   /\ req'[q].pc = "write" /\ req'[q].id = req[q].id
                   /\ req'[q].cols = req[q].cols /\ req'[q].folder = req[q].folder
                   /\ req'[q].patched = req[q].patched
                   /\ req[q].raced \subseteq req'[q].raced
                   /\ req[q].id = id => changes \subseteq req'[q].raced
  BY <1>6, <1>7
<1>11. \A q \in Requests \ {p} :
         req[q].pc = "write" /\ req[q].id = id /\ id \in DOMAIN receipts =>
           Changed(receipts[id], receipts'[id]) \subseteq req'[q].raced
  BY <1>4, <1>10
<1> QED BY <1>1, <1>4, <1>8, <1>9, <1>10, <1>11

-----------------------------------------------------------------------------
\* The invariant after each kind of step.  First: an extraction begins.
LEMMA ExtractKeeps ==
  ASSUME LedgerInv, NEW p \in Requests, NEW user \in Users, NEW photo \in Photos,
         NEW folder \in FolderIds \cup {NULL}, NEW stored \in BOOLEAN, NEW err \in BOOLEAN,
         Extract(p, user, photo, folder, stored, err)
  PROVE  LedgerInv'
<1>1. TypeOK
  BY DEF LedgerInv
<1>2. /\ req' \in [Requests -> Reqs]
      /\ ~InFlight(p) /\ InFlight(p)'
      /\ req'[p].id \in ReceiptIds \ issued
      /\ issued' = issued \cup {req'[p].id}
      /\ objects \subseteq objects' /\ objects' \subseteq objects \cup {req'[p].id}
      /\ req'[p].image \in objects' \cup {NULL}
      /\ req'[p].photo = photo /\ req'[p].heard
      /\ client[photo] = "unsent"
      /\ client' = [client EXCEPT ![photo] = "waiting"]
      /\ \A q \in Requests \ {p} : req'[q] = req[q]
  BY <1>1, Begins
<1>3. UNCHANGED <<receipts, folders, history>>
  BY DEF Extract
<1>4. TypeOK'
  BY <1>1, <1>2, <1>3 DEF TypeOK, Reqs, history
<1>5. IdsAreApart'
  BY <1>1, <1>2, <1>3 DEF LedgerInv, IdsAreApart, InFlight, TypeOK, history
<1>6. ImagesAreStored' /\ ImagesInFlight'
  BY <1>2, <1>3 DEF LedgerInv, ImagesAreStored, ImagesInFlight, InFlight
<1>7. OneWaits'
  <2>1. client' \in [Photos -> {"unsent", "waiting", "entered"}] /\ client'[photo] = "waiting"
    BY <1>1, <1>2 DEF TypeOK
  <2>2. \A q \in Requests \ {p} : Waits(q)' => Waits(q) /\ req'[q].photo # photo
    BY <1>2 DEF Waits, InFlight, LedgerInv, OneWaits
  <2>3. \A q \in Requests \ {p} : Waits(q) => req[q].photo \in Photos
    BY <1>1, InFlightFields DEF Waits
  <2>4. \A q \in Requests : Waits(q)' => client'[req'[q].photo] = "waiting"
    BY <1>1, <1>2, <2>1, <2>2, <2>3 DEF LedgerInv, OneWaits, TypeOK
  <2> QED BY <1>2, <2>2, <2>4 DEF LedgerInv, OneWaits
<1>8. CopiesCounted'
  BY <1>1, <1>2, <1>3 DEF LedgerInv, CopiesCounted, TypeOK, history
<1>9. EditsFresh' /\ DeletedStaysDeleted'
  BY <1>2, <1>3 DEF LedgerInv, EditsFresh, DeletedStaysDeleted, InFlight, history
<1> QED BY <1>4, <1>5, <1>6, <1>7, <1>8, <1>9 DEF LedgerInv

\* An extraction goes on, or its connection is closed.
Goes(p) ==
  /\ InFlight(p)
  /\ \/ ModelAnswers(p)
     \/ GiveUp(p)
     \/ req[p].pc = "insert" /\ req' = [req EXCEPT ![p].pc = "insertAgain"]
  /\ UNCHANGED <<receipts, folders, objects, issued, history>>
  /\ GiveUp(p) \/ UNCHANGED client

LEMMA GoesKeeps ==
  ASSUME LedgerInv, NEW p \in Requests, Goes(p)
  PROVE  LedgerInv'
<1>1. TypeOK /\ InFlight(p)
  BY DEF LedgerInv, Goes
<1>2. /\ req' \in [Requests -> Reqs]
      /\ InFlight(p)'
      /\ req'[p].id = req[p].id /\ req'[p].image = req[p].image
      /\ req'[p].photo = req[p].photo
      /\ ~GiveUp(p) => req'[p].heard = req[p].heard
      /\ GiveUp(p) => ~req'[p].heard
      /\ \A q \in Requests \ {p} : req'[q] = req[q]
  BY <1>1, GoesOn DEF Goes
<1>3. UNCHANGED <<receipts, folders, objects, issued, history>>
  BY DEF Goes
<1>4. req[p].photo \in Photos
  BY <1>1, InFlightFields
<1>5. /\ GiveUp(p) => Waits(p) /\ client' = [client EXCEPT ![req[p].photo] = "unsent"]
      /\ ~GiveUp(p) => client' = client
  BY DEF Goes, GiveUp, Waits, InFlight
<1>6. TypeOK'
  BY <1>1, <1>2, <1>3, <1>5 DEF TypeOK, Reqs, history
<1>7. IdsAreApart' /\ ImagesAreStored' /\ ImagesInFlight'
  BY <1>1, <1>2, <1>3 DEF LedgerInv, IdsAreApart, ImagesAreStored, ImagesInFlight, InFlight, history
<1>8. \A q \in Requests : Waits(q)' => Waits(q) /\ req'[q].photo = req[q].photo
  BY <1>1, <1>2 DEF Waits, InFlight
<1>9. OneWaits'
  <2>1. CASE ~GiveUp(p)
    BY <1>5, <1>8, <2>1 DEF LedgerInv, OneWaits
  <2>2. CASE GiveUp(p)
    <3>1. \A q \in Requests : Waits(q)' => q # p /\ req[q].photo # req[p].photo
      BY <1>2, <1>5, <1>8, <2>2 DEF LedgerInv, OneWaits, Waits
    <3>2. \A q \in Requests : Waits(q)' => client'[req[q].photo] = client[req[q].photo]
      <4>1. \A q \in Requests : Waits(q) => req[q].photo \in Photos
        BY <1>1, InFlightFields DEF Waits
      <4> QED BY <1>1, <1>5, <1>8, <2>2, <3>1, <4>1 DEF TypeOK
    <3> QED BY <1>8, <3>1, <3>2 DEF LedgerInv, OneWaits
  <2> QED BY <2>1, <2>2
<1>10. CopiesCounted'
  <2>1. ~GiveUp(p) \/ client[req[p].photo] = "waiting"
    BY <1>5 DEF LedgerInv, OneWaits
  <2> QED BY <1>1, <1>3, <1>4, <1>5, <2>1 DEF LedgerInv, CopiesCounted, TypeOK, history
<1>11. EditsFresh' /\ DeletedStaysDeleted'
  BY <1>1, <1>2, <1>3 DEF LedgerInv, EditsFresh, DeletedStaysDeleted, InFlight, history
<1> QED BY <1>6, <1>7, <1>9, <1>10, <1>11 DEF LedgerInv

\* An extraction ends without a row: the app may send the photo again.
Fails(p) ==
  /\ InFlight(p)
  /\ AnswerExtract(p, FALSE)
  /\ End(p)
  /\ broken' \in {broken, broken \cup {req[p].id}}
  /\ UNCHANGED <<receipts, folders, objects, issued, gone, copies, unheard>>

LEMMA FailKeeps ==
  ASSUME LedgerInv, NEW p \in Requests, Fails(p)
  PROVE  LedgerInv'
<1>1. TypeOK /\ InFlight(p)
  BY DEF LedgerInv, Fails
<1>2. /\ req' \in [Requests -> Reqs]
      /\ req'[p].pc = "idle" /\ ~InFlight(p)'
      /\ \A q \in Requests \ {p} : req'[q] = req[q]
  BY <1>1, Ends DEF Fails
<1>3. UNCHANGED <<receipts, folders, objects, issued, gone, copies, unheard>>
  BY DEF Fails
<1>4. /\ client' \in [Photos -> {"unsent", "waiting", "entered"}]
      /\ ~req[p].heard => client' = client
      /\ req[p].heard => client'[req[p].photo] = "unsent"
      /\ \A photo \in Photos \ {req[p].photo} : client'[photo] = client[photo]
  BY <1>1, Answered DEF Fails
<1>5. TypeOK'
  <2>1. req[p].id \in issued
    BY <1>1 DEF LedgerInv, IdsAreApart
  <2>2. broken' \subseteq issued
    BY <1>1, <2>1 DEF Fails, TypeOK
  <2> QED BY <1>1, <1>2, <1>3, <1>4, <2>2 DEF TypeOK, Reqs
<1>6. IdsAreApart' /\ ImagesAreStored' /\ ImagesInFlight'
  BY <1>2, <1>3 DEF LedgerInv, IdsAreApart, ImagesAreStored, ImagesInFlight, InFlight
<1>7. OneWaits'
  <2>1. \A q \in Requests : Waits(q)' => q # p /\ Waits(q) /\ req'[q] = req[q]
    BY <1>2 DEF Waits, InFlight
  <2>2. \A q \in Requests : Waits(q)' => client'[req[q].photo] = client[req[q].photo]
    <3>1. \A q \in Requests : Waits(q) => req[q].photo \in Photos
      BY <1>1, InFlightFields DEF Waits
    <3> QED BY <1>1, <1>4, <2>1, <3>1 DEF LedgerInv, OneWaits, Waits
  <2> QED BY <2>1, <2>2 DEF LedgerInv, OneWaits
<1>8. CopiesCounted'
  <2>1. \A photo \in Photos : client'[photo] = "entered" <=> client[photo] = "entered"
    BY <1>1, <1>4 DEF LedgerInv, OneWaits, Waits
  <2> QED BY <1>3, <2>1 DEF LedgerInv, CopiesCounted
<1>9. EditsFresh' /\ DeletedStaysDeleted'
  BY <1>2, <1>3 DEF LedgerInv, EditsFresh, DeletedStaysDeleted
<1> QED BY <1>5, <1>6, <1>7, <1>8, <1>9 DEF LedgerInv

\* A row is entered.  Its id is apart from all others, its image is stored, and
\* it is counted as heard of only when the app that waited is answered.
LEMMA EnterKeeps ==
  ASSUME LedgerInv, NEW p \in Requests, req[p].pc \in {"insert", "insertAgain"},
         NEW folder \in FolderIds \cup {NULL}, NEW done \in BOOLEAN, Enter(p, folder, done)
  PROVE  LedgerInv'
<1>1. TypeOK /\ InFlight(p)
  BY DEF LedgerInv, InFlight
<1>2. /\ AnswerExtract(p, done) /\ End(p)
      /\ UNCHANGED <<folders, objects, issued, gone, broken>>
  BY DEF Enter
<1>3. /\ req' \in [Requests -> Reqs]
      /\ req'[p].pc = "idle" /\ ~InFlight(p)'
      /\ \A q \in Requests \ {p} : req'[q] = req[q]
  BY <1>1, <1>2, Ends
<1>4. /\ receipts' \in Table(ReceiptIds, Row)
      /\ DOMAIN receipts' = DOMAIN receipts \cup {req[p].id}
      /\ receipts'[req[p].id].image = req[p].image
      /\ \A id \in DOMAIN receipts : id # req[p].id => receipts'[id] = receipts[id]
  BY <1>1, Entered
<1>5. /\ copies' \in [Photos -> Nat] /\ unheard' \in [Photos -> Nat]
      /\ copies'[req[p].photo] = copies[req[p].photo] + 1
      /\ unheard'[req[p].photo] =
           IF done /\ req[p].heard THEN unheard[req[p].photo] ELSE unheard[req[p].photo] + 1
      /\ \A photo \in Photos \ {req[p].photo} :
           copies'[photo] = copies[photo] /\ unheard'[photo] = unheard[photo]
  BY <1>1, Entered
<1>6. /\ client' \in [Photos -> {"unsent", "waiting", "entered"}]
      /\ ~req[p].heard => client' = client
      /\ req[p].heard => client'[req[p].photo] = IF done THEN "entered" ELSE "unsent"
      /\ \A photo \in Photos \ {req[p].photo} : client'[photo] = client[photo]
  BY <1>1, <1>2, Answered
<1>7. /\ req[p].id \in issued \ (DOMAIN receipts \cup gone)
      /\ req[p].image \in objects \cup {NULL}
      /\ req[p].photo \in Photos /\ req[p].heard \in BOOLEAN
  BY <1>1, InFlightFields DEF LedgerInv, IdsAreApart, ImagesInFlight
<1>8. TypeOK'
  BY <1>1, <1>2, <1>3, <1>4, <1>5, <1>6 DEF TypeOK, Reqs
<1>9. IdsAreApart'
  BY <1>1, <1>2, <1>3, <1>4, <1>7 DEF LedgerInv, IdsAreApart, InFlight
<1>10. ImagesAreStored'
  BY <1>2, <1>4, <1>7 DEF LedgerInv, ImagesAreStored
<1>11. ImagesInFlight'
  BY <1>2, <1>3 DEF LedgerInv, ImagesInFlight, InFlight
<1>12. DeletedStaysDeleted'
  BY <1>2, <1>4, <1>7 DEF LedgerInv, DeletedStaysDeleted
<1>13. OneWaits'
  <2>1. \A q \in Requests : Waits(q)' => q # p /\ Waits(q) /\ req'[q] = req[q]
    BY <1>3 DEF Waits, InFlight
  <2>2. \A q \in Requests : Waits(q)' => client'[req[q].photo] = client[req[q].photo]
    <3>1. \A q \in Requests : Waits(q) => req[q].photo \in Photos
      BY <1>1, InFlightFields DEF Waits
    <3> QED BY <1>1, <1>6, <2>1, <3>1 DEF LedgerInv, OneWaits, Waits
  <2> QED BY <2>1, <2>2 DEF LedgerInv, OneWaits
<1>14. CopiesCounted'
  <2> DEFINE photo == req[p].photo
  <2>1. copies \in [Photos -> Nat] /\ unheard \in [Photos -> Nat]
    BY <1>1 DEF TypeOK
  <2>2. copies[photo] <= unheard[photo] + IF client[photo] = "entered" THEN 1 ELSE 0
    BY <1>7 DEF LedgerInv, CopiesCounted
  <2>3. req[p].heard => client[photo] = "waiting"
    BY <1>1 DEF LedgerInv, OneWaits, Waits
  <2>4. copies'[photo] <= unheard'[photo] + IF client'[photo] = "entered" THEN 1 ELSE 0
    <3>1. CASE req[p].heard /\ done
      <4>1. /\ copies'[photo] = copies[photo] + 1 /\ unheard'[photo] = unheard[photo]
            /\ client'[photo] = "entered" /\ client[photo] = "waiting"
        BY <1>5, <1>6, <2>3, <3>1
      <4> QED BY <1>7, <2>1, <2>2, <4>1
    <3>2. CASE req[p].heard /\ ~done
      <4>1. /\ copies'[photo] = copies[photo] + 1 /\ unheard'[photo] = unheard[photo] + 1
            /\ client'[photo] = "unsent" /\ client[photo] = "waiting"
        BY <1>5, <1>6, <2>3, <3>2
      <4> QED BY <1>7, <2>1, <2>2, <4>1
    <3>3. CASE ~req[p].heard
      <4>1. /\ copies'[photo] = copies[photo] + 1 /\ unheard'[photo] = unheard[photo] + 1
            /\ client' = client
        BY <1>5, <1>6, <3>3
      <4> QED BY <1>7, <2>1, <2>2, <4>1
    <3> QED BY <1>7, <3>1, <3>2, <3>3
  <2>5. \A other \in Photos \ {photo} :
          copies'[other] <= unheard'[other] + IF client'[other] = "entered" THEN 1 ELSE 0
    BY <1>5, <1>6 DEF LedgerInv, CopiesCounted
  <2> HIDE DEF photo
  <2> QED BY <2>4, <2>5 DEF CopiesCounted
<1>15. EditsFresh'
  BY <1>1, <1>2, <1>3, <1>4, <1>7 DEF LedgerInv, EditsFresh
<1> QED BY <1>8, <1>9, <1>10, <1>11, <1>12, <1>13, <1>14, <1>15 DEF LedgerInv

\* An edit is read, or ends unwritten: no other request and no row is touched.
LEMMA EditMovesKeep ==
  ASSUME LedgerInv, NEW p \in Requests, ~InFlight(p), ~InFlight(p)',
         req' \in [Requests -> Reqs],
         \A q \in Requests \ {p} : req'[q] = req[q],
         req'[p].pc = "write" =>
           /\ req'[p].id \in DOMAIN receipts
           /\ Changed(receipts[req'[p].id], req'[p]) \subseteq req'[p].patched,
         UNCHANGED <<receipts, folders, objects, issued, client, history>>
  PROVE  LedgerInv'
<1>1. TypeOK'
  BY DEF LedgerInv, TypeOK, Reqs, history
<1>2. \A q \in Requests : InFlight(q)' => InFlight(q) /\ req'[q] = req[q]
  BY DEF InFlight
<1>3. IdsAreApart' /\ ImagesAreStored' /\ ImagesInFlight' /\ DeletedStaysDeleted'
  BY <1>2 DEF LedgerInv, IdsAreApart, ImagesAreStored, ImagesInFlight, DeletedStaysDeleted, history
<1>4. OneWaits' /\ CopiesCounted'
  BY <1>2 DEF LedgerInv, OneWaits, Waits, CopiesCounted, history
<1>5. EditsFresh'
  BY DEF LedgerInv, EditsFresh, history
<1> QED BY <1>1, <1>3, <1>4, <1>5 DEF LedgerInv

\* What an edit differs in from a row that has just been changed.
LEMMA ChangedTwice ==
  ASSUME NEW old, NEW new, NEW edit
  PROVE  Changed(new, edit) \subseteq Changed(old, new) \cup Changed(old, edit)
BY DEF Changed

\* Only the columns of the row and of the edit count.
LEMMA ChangedSame ==
  ASSUME NEW old, NEW edit, NEW same, same.cols = edit.cols, same.folder = edit.folder
  PROVE  Changed(old, same) = Changed(old, edit)
BY DEF Changed

LEMMA WriteKeeps ==
  ASSUME LedgerInv, NEW p \in Requests, Write(p)
  PROVE  LedgerInv'
<1>1. TypeOK
  BY DEF LedgerInv
<1>2. /\ req[p].pc = "write"
      /\ receipts' \in Table(ReceiptIds, Row)
      /\ DOMAIN receipts' = DOMAIN receipts
      /\ \A id \in DOMAIN receipts :
           /\ receipts'[id].image = receipts[id].image
           /\ id # req[p].id => receipts'[id] = receipts[id]
      /\ req' \in [Requests -> Reqs]
      /\ req'[p].pc = "idle" /\ ~InFlight(p)'
  BY <1>1, Writes
<1>3. \A q \in Requests \ {p} :
        /\ req[q].pc # "write" => req'[q] = req[q]
        /\ req[q].pc = "write" =>
             /\ req'[q].pc = "write" /\ req'[q].id = req[q].id
             /\ req'[q].cols = req[q].cols /\ req'[q].folder = req[q].folder
             /\ req'[q].patched = req[q].patched
             /\ req[q].raced \subseteq req'[q].raced
             /\ req[q].id = req[p].id /\ req[p].id \in DOMAIN receipts =>
                  Changed(receipts[req[p].id], receipts'[req[p].id]) \subseteq req'[q].raced
  BY <1>1, Writes
<1>4. UNCHANGED <<folders, objects, issued, client, history>>
  BY DEF Write
<1>5. \A q \in Requests : InFlight(q)' => InFlight(q) /\ req'[q] = req[q]
  BY <1>2, <1>3 DEF InFlight
<1>6. TypeOK'
  BY <1>1, <1>2, <1>4 DEF TypeOK, Reqs, history
<1>7. IdsAreApart' /\ ImagesAreStored' /\ ImagesInFlight' /\ DeletedStaysDeleted'
  BY <1>2, <1>4, <1>5 DEF LedgerInv, IdsAreApart, ImagesAreStored, ImagesInFlight,
     DeletedStaysDeleted, history
<1>8. OneWaits' /\ CopiesCounted'
  BY <1>4, <1>5 DEF LedgerInv, OneWaits, Waits, CopiesCounted, history
<1>9. EditsFresh'
  <2> SUFFICES ASSUME NEW q \in Requests, req'[q].pc = "write"
               PROVE  /\ req'[q].id \in DOMAIN receipts' \cup gone'
                      /\ req'[q].id \in DOMAIN receipts' =>
                           Changed(receipts'[req'[q].id], req'[q])
                             \subseteq req'[q].patched \cup req'[q].raced
    BY DEF EditsFresh
  <2>1. /\ q # p /\ req[q].pc = "write"
        /\ req'[q].id = req[q].id
        /\ req'[q].cols = req[q].cols /\ req'[q].folder = req[q].folder
        /\ req'[q].patched = req[q].patched /\ req[q].raced \subseteq req'[q].raced
    BY <1>2, <1>3
  <2>2. req'[q].id \in DOMAIN receipts' \cup gone'
    BY <1>2, <1>4, <2>1 DEF LedgerInv, EditsFresh, history
  <2>3. ASSUME req[q].id \in DOMAIN receipts
        PROVE  Changed(receipts'[req[q].id], req'[q]) \subseteq req'[q].patched \cup req'[q].raced
    <3>1. Changed(receipts[req[q].id], req[q]) \subseteq req[q].patched \cup req[q].raced
      BY <2>1, <2>3 DEF LedgerInv, EditsFresh
    <3>2. Changed(receipts[req[q].id], req'[q]) = Changed(receipts[req[q].id], req[q])
      BY <2>1, ChangedSame
    <3>3. Changed(receipts[req[q].id], receipts'[req[q].id]) \subseteq req'[q].raced
      <4>1. CASE req[q].id = req[p].id
        BY <1>3, <2>1, <2>3, <4>1
      <4>2. CASE req[q].id # req[p].id
        BY <1>2, <2>3, <4>2 DEF Changed
      <4> QED BY <4>1, <4>2
    <3>4. Changed(receipts'[req[q].id], req'[q]) \subseteq
            Changed(receipts[req[q].id], receipts'[req[q].id])
              \cup Changed(receipts[req[q].id], req'[q])
      BY ChangedTwice
    <3> QED BY <2>1, <3>1, <3>2, <3>3, <3>4
  <2> QED BY <1>2, <2>1, <2>2, <2>3
<1> QED BY <1>6, <1>7, <1>8, <1>9 DEF LedgerInv

\* A deletion takes a row away, and its id from all later rows.
LEMMA DeleteKeeps ==
  ASSUME LedgerInv, NEW user \in Users, NEW id \in ReceiptIds, Delete(user, id)
  PROVE  LedgerInv'
<1>1. TypeOK
  BY DEF LedgerInv
<1>2. /\ id \in DOMAIN receipts
      /\ DOMAIN receipts' = DOMAIN receipts \ {id}
      /\ \A k \in DOMAIN receipts' : receipts'[k] = receipts[k]
      /\ receipts' = [k \in DOMAIN receipts \ {id} |-> receipts[k]]
      /\ gone' = gone \cup {id}
      /\ UNCHANGED <<folders, objects, issued, req, client, broken, copies, unheard>>
  BY DEF Delete
<1>3. receipts' \in Table(ReceiptIds, Row)
  <2>1. DOMAIN receipts \ {id} \in SUBSET ReceiptIds
    BY <1>1, RowFields
  <2>2. receipts' \in [DOMAIN receipts \ {id} -> Row]
    BY <1>1, <1>2, RowFields
  <2> QED BY <2>1, <2>2, RowsTable
<1>4. TypeOK'
  BY <1>1, <1>2, <1>3 DEF TypeOK, LedgerInv, IdsAreApart
<1>5. IdsAreApart' /\ ImagesAreStored' /\ ImagesInFlight' /\ DeletedStaysDeleted'
  BY <1>2 DEF LedgerInv, IdsAreApart, ImagesAreStored, ImagesInFlight, InFlight,
     DeletedStaysDeleted
<1>6. OneWaits' /\ CopiesCounted'
  BY <1>2 DEF LedgerInv, OneWaits, Waits, InFlight, CopiesCounted
<1>7. EditsFresh'
  BY <1>2 DEF LedgerInv, EditsFresh
<1> QED BY <1>4, <1>5, <1>6, <1>7 DEF LedgerInv

-----------------------------------------------------------------------------
\* An extraction that is under way goes on, enters its row, or fails.
LEMMA ExtractionStep ==
  ASSUME TypeOK, NEW p \in Requests,
         \/ ModelAnswers(p) \/ Insert(p) \/ InsertAgain(p)
         \/ ModelFails(p) \/ InsertFails(p) \/ InsertReplyLost(p) \/ GiveUp(p)
  PROVE  \/ Goes(p)
         \/ /\ req[p].pc \in {"insert", "insertAgain"}
            /\ \E folder \in FolderIds \cup {NULL}, done \in BOOLEAN : Enter(p, folder, done)
         \/ /\ Fails(p)
            /\ req[p].pc # "model" => req[p].id \in broken'
<1>1. CASE ModelAnswers(p) \/ GiveUp(p)
  BY <1>1 DEF ModelAnswers, GiveUp, Goes, InFlight
<1>2. CASE Insert(p) \/ InsertAgain(p) \/ InsertReplyLost(p)
  BY <1>2, Inserts DEF Goes, InFlight
<1>3. CASE ModelFails(p) \/ InsertFails(p)
  BY <1>3 DEF ModelFails, InsertFails, Fails, InFlight, history
<1> QED BY <1>1, <1>2, <1>3

LEMMA LedgerStep ==
  ASSUME LedgerInv, [Next]_vars
  PROVE  LedgerInv'
<1>0. TypeOK
  BY DEF LedgerInv
<1>1. ASSUME NEW p \in Requests, ExtractStep(p) \/ UpdateStep(p) \/ Fault(p) PROVE LedgerInv'
  <2>1. ASSUME NEW user \in Users, NEW photo \in Photos, NEW folder \in FolderIds \cup {NULL},
               NEW stored \in BOOLEAN, NEW err \in BOOLEAN,
               Extract(p, user, photo, folder, stored, err)
        PROVE  LedgerInv'
    BY <2>1, ExtractKeeps
  <2>2. CASE \/ ModelAnswers(p) \/ Insert(p) \/ InsertAgain(p)
             \/ ModelFails(p) \/ InsertFails(p) \/ InsertReplyLost(p) \/ GiveUp(p)
    BY <1>0, <2>2, ExtractionStep, GoesKeeps, EnterKeeps, FailKeeps
  <2>3. ASSUME NEW user \in Users, NEW id \in ReceiptIds, NEW patch \in Patches,
               NEW folder \in FolderIds \cup {NULL}, Update(p, user, id, patch, folder)
        PROVE  LedgerInv'
    <3>1. /\ req' \in [Requests -> Reqs]
          /\ req'[p].pc = "write" /\ req'[p].id = id
          /\ Changed(receipts[id], req'[p]) \subseteq req'[p].patched
          /\ \A q \in Requests \ {p} : req'[q] = req[q]
      BY <1>0, <2>3, Reads
    <3>2. /\ id \in DOMAIN receipts /\ ~InFlight(p) /\ ~InFlight(p)'
          /\ UNCHANGED <<receipts, folders, objects, issued, client, history>>
      BY <2>3, <3>1 DEF Update, InFlight
    <3> QED BY <3>1, <3>2, EditMovesKeep
  <2>4. CASE Write(p)
    BY <2>4, WriteKeeps
  <2>5. CASE UpdateFails(p)
    <3>1. /\ req' \in [Requests -> Reqs]
          /\ req'[p].pc = "idle" /\ ~InFlight(p)'
          /\ \A q \in Requests \ {p} : req'[q] = req[q]
      BY <1>0, <2>5, Ends DEF UpdateFails
    <3>2. /\ ~InFlight(p)
          /\ UNCHANGED <<receipts, folders, objects, issued, client, history>>
      BY <2>5 DEF UpdateFails, InFlight
    <3> QED BY <3>1, <3>2, EditMovesKeep
  <2> QED BY <1>1, <2>1, <2>2, <2>3, <2>4, <2>5 DEF ExtractStep, UpdateStep, Fault
<1>2. ASSUME NEW user \in Users, NEW id \in ReceiptIds, Delete(user, id) PROVE LedgerInv'
  BY <1>2, DeleteKeeps
<1>3. CASE (\E f \in FolderIds : FolderArrives(f)) \/ UNCHANGED vars
  <2>1. /\ UNCHANGED <<receipts, objects, issued, req, client, history>>
        /\ folders' \subseteq FolderIds
    BY <1>0, <1>3 DEF FolderArrives, vars, TypeOK
  <2>2. TypeOK' /\ IdsAreApart' /\ ImagesAreStored' /\ ImagesInFlight'
    BY <1>0, <2>1 DEF LedgerInv, TypeOK, history, IdsAreApart, ImagesAreStored, ImagesInFlight,
       InFlight
  <2>3. DeletedStaysDeleted' /\ OneWaits' /\ CopiesCounted' /\ EditsFresh'
    BY <2>1 DEF LedgerInv, history, DeletedStaysDeleted, OneWaits, Waits, InFlight,
       CopiesCounted, EditsFresh
  <2> QED BY <2>2, <2>3 DEF LedgerInv
<1> QED BY <1>1, <1>2, <1>3 DEF Next

\* LedgerInv holds in every reachable state.
THEOREM LedgerSafe == Spec => []LedgerInv
<1>1. Init => LedgerInv
  <2> SUFFICES ASSUME Init PROVE LedgerInv
    OBVIOUS
  <2>1. receipts \in Table(ReceiptIds, Row) /\ DOMAIN receipts = {}
    BY EmptyIsTable DEF Init, EmptyTable
  <2>2. \A p \in Requests : req[p].pc = "idle"
    BY DEF Init, Idle
  <2>3. TypeOK
    BY <2>1 DEF Init, TypeOK
  <2>4. IdsAreApart /\ ImagesAreStored /\ ImagesInFlight /\ DeletedStaysDeleted
    BY <2>1, <2>2 DEF Init, IdsAreApart, ImagesAreStored, ImagesInFlight, DeletedStaysDeleted,
       InFlight
  <2>5. OneWaits /\ CopiesCounted /\ EditsFresh
    BY <2>2 DEF Init, OneWaits, Waits, InFlight, CopiesCounted, EditsFresh
  <2> QED BY <2>3, <2>4, <2>5 DEF LedgerInv
<1> QED BY <1>1, LedgerStep, PTL DEF Spec

\* Rows, requests and counts are of their types.
THEOREM TypeCorrect == Spec => []TypeOK
<1>1. LedgerInv => TypeOK
  BY DEF LedgerInv
<1> QED BY <1>1, LedgerSafe, PTL

\* No row points at an image that is not in the bucket.
THEOREM ImagesExist == Spec => []ImagesAreStored
<1>1. LedgerInv => ImagesAreStored
  BY DEF LedgerInv
<1> QED BY <1>1, LedgerSafe, PTL

\* No edit, however late, and no extraction brings a deleted receipt back.
THEOREM DeletedForEver == Spec => []DeletedStaysDeleted
<1>1. LedgerInv => DeletedStaysDeleted
  BY DEF LedgerInv
<1> QED BY <1>1, LedgerSafe, PTL

\* Each row of a photo but one was entered without the app hearing so.
THEOREM CopiesAreExplained == Spec => []CopiesExplained
<1>1. LedgerInv => CopiesExplained
  <2> SUFFICES ASSUME LedgerInv, NEW photo \in Photos
               PROVE  copies[photo] <= 1 + unheard[photo]
    BY DEF CopiesExplained
  <2>1. copies[photo] \in Nat /\ unheard[photo] \in Nat
    BY DEF LedgerInv, TypeOK
  <2>2. copies[photo] <= unheard[photo] + IF client[photo] = "entered" THEN 1 ELSE 0
    BY DEF LedgerInv, CopiesCounted
  <2> QED BY <2>1, <2>2
<1> QED BY <1>1, LedgerSafe, PTL

-----------------------------------------------------------------------------
\* Only its own steps take a request out of the stage it is at.
LEMMA OwnSteps ==
  ASSUME TypeOK, [Next]_vars, NEW p \in Requests,
         req[p].pc # "idle", req'[p].pc = "idle"
  PROVE  \/ ModelFails(p) \/ Insert(p) \/ InsertAgain(p) \/ InsertFails(p) \/ InsertReplyLost(p)
         \/ Write(p) \/ UpdateFails(p)
<1>1. CASE UNCHANGED req
  BY <1>1
<1>2. ASSUME NEW q \in Requests, ExtractStep(q) \/ UpdateStep(q) \/ Fault(q)
      PROVE  \/ ModelFails(p) \/ Insert(p) \/ InsertAgain(p) \/ InsertFails(p)
             \/ InsertReplyLost(p) \/ Write(p) \/ UpdateFails(p)
  <2>1. CASE \/ ModelAnswers(q) \/ Insert(q) \/ InsertAgain(q)
             \/ ModelFails(q) \/ InsertFails(q) \/ InsertReplyLost(q) \/ GiveUp(q)
    <3>1. \A r \in Requests \ {q} : req'[r] = req[r]
      BY <2>1, ExtractionStep, GoesOn, Ends DEF Goes, Fails, Enter
    <3>2. q = p
      BY <3>1
    <3>3. ~ModelAnswers(p) /\ ~GiveUp(p)
      <4>1. ModelAnswers(p) \/ GiveUp(p) => InFlight(p) /\ InFlight(p)'
        BY GoesOn DEF ModelAnswers, GiveUp, InFlight
      <4> QED BY <4>1 DEF InFlight
    <3> QED BY <2>1, <3>2, <3>3
  <2>2. ASSUME NEW user \in Users, NEW photo \in Photos, NEW folder \in FolderIds \cup {NULL},
               NEW stored \in BOOLEAN, NEW err \in BOOLEAN,
               Extract(q, user, photo, folder, stored, err)
        PROVE  FALSE
    BY <2>2, Begins DEF InFlight
  <2>3. ASSUME NEW user \in Users, NEW id \in ReceiptIds, NEW patch \in Patches,
               NEW folder \in FolderIds \cup {NULL}, Update(q, user, id, patch, folder)
        PROVE  FALSE
    BY <2>3, Reads
  <2>4. CASE Write(q)
    BY <2>4, Writes
  <2>5. CASE UpdateFails(q)
    BY <2>5, Ends DEF UpdateFails
  <2> QED BY <1>2, <2>1, <2>2, <2>3, <2>4, <2>5 DEF ExtractStep, UpdateStep, Fault
<1>3. ASSUME NEW user \in Users, NEW id \in ReceiptIds, Delete(user, id) PROVE UNCHANGED req
  BY <1>3 DEF Delete
<1>4. ASSUME NEW f \in FolderIds, FolderArrives(f) PROVE UNCHANGED req
  BY <1>4 DEF FolderArrives
<1>5. UNCHANGED vars => UNCHANGED req
  BY DEF vars
<1> QED BY <1>1, <1>2, <1>3, <1>4, <1>5 DEF Next

\* An extraction the model has answered is entered unless the database fails.
THEOREM ExtractedReceiptsAreKept == Spec => ExtractedIsKept
<1>1. LedgerInv /\ [Next]_vars =>
        [\A p \in Requests :
           req[p].pc \in {"insert", "insertAgain"} /\ req'[p].pc = "idle"
             => req[p].id \in DOMAIN receipts' \cup broken']_vars
  <2> SUFFICES ASSUME LedgerInv, [Next]_vars, NEW p \in Requests,
                      req[p].pc \in {"insert", "insertAgain"}, req'[p].pc = "idle"
               PROVE  req[p].id \in DOMAIN receipts' \cup broken'
    OBVIOUS
  <2>1. TypeOK
    BY DEF LedgerInv
  <2>2. \/ ModelAnswers(p) \/ Insert(p) \/ InsertAgain(p)
        \/ ModelFails(p) \/ InsertFails(p) \/ InsertReplyLost(p) \/ GiveUp(p)
    BY <2>1, OwnSteps DEF Write, UpdateFails
  <2>3. ~Goes(p)
    BY <2>1, GoesOn DEF Goes, InFlight
  <2> QED BY <2>1, <2>2, <2>3, ExtractionStep, Entered
<1> QED BY <1>1, LedgerSafe, PTL DEF Spec, ExtractedIsKept

\* An edit changes what it names, and what others have written since it read.
THEOREM EditsLeaveOthers == Spec => EditsKeepOthers
<1>1. LedgerInv /\ [Next]_vars =>
        [\A p \in Requests :
           LET id == req[p].id
           IN  /\ req[p].pc = "write" /\ req'[p].pc = "idle"
               /\ id \in DOMAIN receipts \cap DOMAIN receipts'
               => Changed(receipts[id], receipts'[id])
                    \subseteq req[p].patched \cup req[p].raced]_vars
  <2> SUFFICES ASSUME LedgerInv, [Next]_vars, NEW p \in Requests,
                      req[p].pc = "write", req'[p].pc = "idle",
                      req[p].id \in DOMAIN receipts \cap DOMAIN receipts'
               PROVE  Changed(receipts[req[p].id], receipts'[req[p].id])
                        \subseteq req[p].patched \cup req[p].raced
    OBVIOUS
  <2>1. TypeOK
    BY DEF LedgerInv
  <2>2. Write(p) \/ UpdateFails(p)
    BY <2>1, OwnSteps DEF ModelFails, Insert, InsertAgain, InsertFails, InsertReplyLost
  <2>3. CASE Write(p)
    <3>1. Changed(receipts[req[p].id], receipts'[req[p].id])
            \subseteq Changed(receipts[req[p].id], req[p])
      BY <2>1, <2>3, Writes
    <3>2. Changed(receipts[req[p].id], req[p]) \subseteq req[p].patched \cup req[p].raced
      BY DEF LedgerInv, EditsFresh
    <3> QED BY <3>1, <3>2
  <2>4. CASE UpdateFails(p)
    BY <2>4 DEF UpdateFails, Changed
  <2> QED BY <2>2, <2>3, <2>4
<1> QED BY <1>1, LedgerSafe, PTL DEF Spec, EditsKeepOthers

=============================================================================
