# ScannerApp backend: specifications and proofs

TLA+ modules of the Go server of ScannerApp: what its requests do to PostgreSQL, Redis and the
object store while other requests do the same, what devices see of it, and which of the
promises in `src/README.md` that makes true. TLC checks small instances of every module; TLAPS
proves the central properties for every value of the constants.

Line numbers are those of `src/`. `PROJECT.json` maps each definition to the lines it models,
lists the runs, their mutants, the hazards and the theorems.

## 1. The system

The server keeps no state between requests except one cache. Requests are goroutines; what they
share is PostgreSQL (one autocommitted statement at a time; the code opens no transaction),
Redis (one command at a time) and an S3 bucket. A request may stop between any two of its calls:
a call fails, the client goes away and the context is cancelled, the server is stopped.

| Component | State | Operations | Meets | Hard part | What makes it correct |
|---|---|---|---|---|---|
| Push (`sync_repo.go`, `sync_service.go`, `sync_handler.go`) | tables folders, documents, pages | POST /sync/push: a loop of upserts per table, last writer wins on `client_updated_at` | folders API (same table), uploads (same rows), pull | arrival order, batches that stop half-way, ids of other accounts | the kept value is that of the latest edit; no row is lost or moves |
| Pull (same files) | a device's `since` cursor (the app's) | GET /sync/pull: three queries, a cursor in seconds read before them | push, uploads, folders API | queries run while pushes commit, answers get lost, clocks differ | every row reaches every device |
| Document files (`sync_handler.go:79`) | bucket, `documents.pdf_cloud_url` | object write, then row update | push of the same row | failure in between, stale pushes, a URL left out or empty | a row names only stored files and keeps its file unless a later edit empties it |
| Folders (`folder_repository.go`) | table folders | POST, DELETE /folders | push, pull, receipts' foreign key | deletion against edits of the past | a deletion reaches all devices |
| OCR quota (`limiter_repo.go`, `ocr_service.go`, `ocr_handler.go`) | Redis counter with expiry, `users.tier` | POST /ocr/process: lookup, GET, compare, INCR, EXPIRE | subscriptions (tier) | check and increment apart, lost EXPIRE, lost replies, commands the Redis client sends again | limit, expiry, premium exempt |
| Receipts (`receipt_*.go`) | table receipt_orders, bucket | extract (object, model, INSERT, second INSERT), update (read, merge, write), delete, list, export | Gemini, folders | calls that outlive the connection, read-modify-write, retries | nothing extracted is dropped, deleted rows stay away |
| Gemini (`gemini_service.go`) | cache of listed models under a lock | list of candidates, SDK pass, REST pass, parse | receipts | shared cache, listings that break off, a chain of fallbacks | all models tried, in order, once; termination |
| Subscriptions (`subscription_handler.go`, `play_billing.go`) | `users.tier` | POST /subscriptions/verify: question to Google Play, UPDATE | quota | a purchase that ends in between, test tokens, lost replies | a tier set was bought; a tier promised is set and stays |
| Accounts and tokens (`auth_*.go`, `user_repo.go`, `pkg/jwt`) | table users | register: lookup, hash, INSERT; login, profile | all (user id), quota (tier) | two registrations of one address, lost replies, the tier in a token against the row | who was told of an account can log in to it; no token is ahead of its row |
| Migrations (`migrations.go`, `migrations/`) | schema | five scripts at each start, in order of names | all | stop in the middle, start again, two processes at once | the schema becomes complete; what is logged as applied is |
| Server (`cmd/server/main.go`, `db.go`, `redis.go`, `s3.go`) | the services a process has found | connect or do without, migrate, make the bucket, serve, drain, exit | all | two processes side by side, crash, requests that outlive the shutdown | every stop ends; a race leaves one process that goes on |

The app itself is not in the repository. It is modelled only by what the API asks of it: it
keeps the rows it is sent, sends `synced_at` back as `since`, names only files it was given (or
none, or the empty text), and sends a photo again when it hears an error or nothing.

## 2. Modules

| Module | What it is | Code |
|---|---|---|
| `Tables` | rows by id: partial functions, `Put`, `Coalesce` | SQL |
| `SyncStore` | the three tables, the bucket, one clock; push, upload, create, delete, one action per statement | `sync_repo.go` 28-154, 233-242; `sync_handler.go` 35-139; `folder_repository.go` |
| `LastWriterWins` | abstract: a register per id that holds the latest write received, or for equal times the earliest received (`Spec`); and a weaker promise, in which a value's time may be set back and the id goes by that value and the later writes (`AfreshSpec`) | what `README.md:61` promises |
| `SyncHistory` | `SyncStore` with logs of the edits received, for documents a second one that starts afresh when an upload sets a time back; instantiates `LastWriterWins` once per log | `sync_repo.go` |
| `SyncPull` | `SyncStore` with devices that pull | `sync_repo.go` 156-231, `sync_handler.go` 56-77 |
| `OcrQuota` | one action per Redis command or query of POST /ocr/process, expiry, faults | `limiter_repo.go`, `ocr_service.go`, `ocr_handler.go` |
| `OcrHistory` | `OcrQuota` with a record of the uses charged and the faults that leave a trace | same |
| `ReceiptLedger` | receipts from photo to row to export | `receipt_repository.go`, `receipt_service.go`, `receipt_handler.go` |
| `GeminiExtraction` | candidate list, cache of listed models, SDK pass, REST pass | `gemini_service.go` |
| `Accounts` | table users, Google's state of each purchase, tokens; one action per statement of register, login, verify | `auth_service.go`, `auth_handler.go`, `user_repo.go`, `subscription_handler.go`, `play_billing.go`, `token.go`, `middleware/auth.go` |
| `AccountQuota` | `Accounts` composed with `OcrQuota`, whose `tier` is the row's and whose `Upgrade` the UPDATE of verify | `main.go` 112-134, `ocr_handler.go` 37-44 |
| `Startup` | the processes of the server from start to exit, the schema, the bucket | `main.go`, `migrations.go`, `migrations/*.up.sql`, `db.go`, `redis.go`, `s3.go` 36-48 |
| `*Proofs` | theorems of the module they are named after; `SyncProofs` has those of `SyncStore`, `SyncHistory` and `SyncPull`, `OcrQuotaProofs` those of `OcrHistory` too, `AccountsProofs` those of `AccountQuota` | |
| `MC*` | constants of the runs | |

`SyncHistory`, `SyncPull` extend `SyncStore`, so every step of the store is a step of theirs;
`ReceiptLedger` sees of the folders only that ids arrive (rows of folders are never removed,
which `SyncStore` has as `RowsKeepTheirPlace`), and of Gemini only that an answer or an error
comes, or nothing within the time the connection lasts, which `GeminiExtraction` details.
`AccountQuota` extends `Accounts` and instantiates `OcrQuota`, substituting for `tier` the tiers of
the table; its run checks that the composition implements `OcrQuota!Spec`, so that `quota` and
`OcrQuotaProofs` speak of the real accounts. `Startup` stands alone: what a crash or a forced stop
does to requests is the failure action every other module has (`RequestFails`, `CallFails`,
`Abort`, `PullFails`, `GiveUp`).

Correspondence of state:

- A table is a function from the ids it has rows for to rows. A row has the columns a property
  depends on; `title`, `is_locked`, `page_number`, `extracted_text` travel like the columns
  kept. Receipts' editable columns are the set `Columns`, of which one and the folder are
  enough to tell a stale column from a fresh one.
- Times are naturals: 0 is Go's zero time and SQL's NULL. There is one server clock (`clock`)
  and arbitrary client times (`ClientTimes`), before and after it.
- `req[p]` is the request goroutine p runs: the stage it is at (`pc`) and its local variables,
  such as the loop's `now`, read once per table before its statements.
- `documents[d].url` is NULL, a key of the bucket, or one of `Blanks`, which stands for the empty
  text: the columns and the JSON field allow it (`model/sync.go:25`), COALESCE keeps it
  (`sync_repo.go:82`) and GET /documents/{id} takes it for no file (`sync_handler.go:162`).
- `req[p].resends` of `OcrQuota` is how often go-redis may send the command at hand again:
  `NewRedisClient` (`redis.go:15-19`) leaves its MaxRetries at the default, 3. A reply that is lost
  therefore runs INCR again, with no check before it, and its answer counts both.
- `call[p]` of `Accounts` is an account request between two statements; `registered`, `promised` and
  `paid` record the answers a client heard and the purchases that were once active.
- `pc[i]` of `Startup` is where `main` is in process i, `done[i]` the scripts that have run,
  `view[i]` what the script that is running saw of the schema when it began. A script is one
  `Exec` without arguments, which `lib/pq` sends as one simple query and PostgreSQL runs as one
  transaction, so a script is applied whole or not at all. Columns a script adds to a table are
  one object of the schema.
- The lists of models are sequences built by loops, each written as a recursive function of the
  part of its input it has been through (`AddAll`, `KeepAll`). `Listings` are of the models that
  generate content, which is the only other condition of the filter.
- A batch is not a sequence in the state: the items of a request are chosen when their
  statement runs, so each run covers every batch of every length and order within a table.

## 3. What is checked

Twelve runs. The first nine must pass; each of their properties has a mutant, a plausible
mistake in the code, under which TLC finds it violated.

| Run | Question | Bounds and why they are enough |
|---|---|---|
| `store` | Do pushes, uploads, folder requests of two accounts ever leave a row that names a missing file, lose a file but to a later edit that empties it, lose a row or move it? | 2 accounts, 2 requests at once, one id of each kind, a clock that moves once. The properties are about single rows, violated by at most two writers of one and one crash. Items carry no client time here (`history` and `pull_*` have them): the times loops read, stale when another request overtakes, decide both ways. |
| `history` | Are the names of folders and the tombstones of pages the result of the edits received, whatever their order? What is left of that for documents, whose edit time an upload may set back? | One id of each kind, 2 names, all refusals, uploads. Edits have two times, the server's (2, at which its clock stays) and that of a client ahead (3), and every combination of them, in both orders, comes up; what the rule compares is nothing but such times. An edit at 3 and an upload after it set a document's time back: the run checks that the document stays in its folder and that from then on the latest edit decides. One request, because a push's items are arbitrary: two devices are two pushes. What a second request adds is an upload that is overtaken: `upload_breaks_order` has it, and `DocumentsImplementAfresh` is about any number of requests. |
| `pull_folders` | Does every row, tombstones by push included, reach a device that pulls? In the end, all of them? | One device, one request, clock over two seconds of two ticks. A row, a write to it before and after a cursor, and lost answers are all that a miss needs. The second tick of a second is where a row is not `exposed`: see below. |
| `pull_pages` | The same where the query joins through the document. | As above, one document and one page. Neither pull run has an upload: `UpdateDocumentFile` (`sync_repo.go:233-242`) sets a document's `client_updated_at` to the server's clock, possibly back, after which a device may hold a later time than the store; `DevicesNeverAhead` is a statement about histories in which no upload does. The theorems of section 4 are about the model with uploads. |
| `quota` | By how much is the limit passed, can a counter stay for ever, is premium ever limited, what does a window let through? | 2 requests at once, 1 account (counters of accounts are separate keys), limit 2, window 3 ticks, a clock that stops at 5, so that a counter expires and another begins; every command may fail, lose its reply, be sent again or be cut off. A command is sent again once, 3 times in the code; what a second retry adds is one more INCR, which the theorems have for every number. |
| `ledger` | Are extracted receipts kept, images there, copies explained, deletions final, edits harmless? | 1 photo sent up to twice (`ReceiptIds`), 2 requests at once in any mix of extract and update, a folder that arrives at any time. Two overlapping writers of one row and one repeat of one photo are what the hazards need. |
| `gemini` | Are models asked once, in order, all of them; does the cache survive; does a request end? | 2 requests, 4 models (built in, configured, only listed, excluded), a listing that may break off anywhere, a cache that goes stale once. |
| `accounts` | Can a registration be overtaken, doubled or lost; does a token, a promise or a tier ever say what was not so; does the quota get the tiers it was specified with? | 2 account requests at once, one address in 2 spellings with 2 passwords, 2 ids to draw, a purchase that changes and a test token, 1 OCR request, limit 1. A wrong row needs two registrations of one address; a wrong tier one verification, one change and one failure. |
| `startup` | Does the schema become complete whatever is cut off, do racing processes block each other, is what is logged as ready so, does every stop end? | 2 processes, the five scripts of the repository, every service failing or losing a reply at every step, crashes anywhere, one request. The loser of a race needs one winner; a third process only repeats it. |
| `upload_breaks_order` | violated: an upload is no obstacle to last-writer-wins (`sync_repo.go:75`, `README.md:61`). | one document, one file, two requests, no client time at all: a push overtakes the upload between the `now` it reads and its UPDATE. A client ahead does the same with one request. |
| `deleted_folder_missed` | violated: tombstones propagate across devices (`README.md:62`). | one folder, no push needed |
| `export_cut` | violated: the export has all receipts (`receipt_service.go:153`). | limits 1, 2 and 3 for 100, 1000 and 10000 |

`ledger` and `export_cut` do not check deadlock: the ids to draw are bounded, and when all are
drawn and deleted nothing is left to do. All other runs check it; in `store`, `history`, `pull_*`,
`quota` and `accounts` a request can always begin, in `startup` a process.

Symmetry is used in `store` (accounts, requests), `history` (names), `quota` (requests), `ledger` (ids, requests,
values) and `accounts` (ids, calls, passwords, spellings of the one address), whose properties are invariants, action properties and refinements without fairness; runs with a liveness property
use none.

Bounds by name: `MaxClock` stops the clock, `ReceiptIds` the extractions. No invariant mentions
a bound.

### Fairness

- `SyncPull!Fairness`: a device begins a pull whenever it can (weak fairness), and of its pulls
  not all fail (strong fairness of each query and of the answer). Nothing is assumed of pushes;
  `DevicesConverge` is about what happens once the tables rest. The server does not make
  devices pull: this is an assumption on the app and the network, and the weakest under which
  convergence can be asked.
- `GeminiExtraction!Spec`: each request's next step is taken, which is the Go scheduler and the
  assumption that a call returns. REST calls have a 45 s timeout; SDK calls have none of their
  own, so for them it is an assumption.

- `Startup!StartupFairness`: `main` takes its next step (its calls have timeouts: 5 s for
  PostgreSQL, Redis and the bucket, 30 s for the scripts), and Shutdown returns, after its last
  request or after 10 s. That processes are started again is no fairness of the code:
  `SchemaCompletes` says what follows if they are, and if failures end.

### Divergences seen without a run

Read in the code while modelling; the models contain the behaviour, and the properties that hold
are stated around it.

- A folder's tombstone has no client time, so an edit older than the deletion clears it
  (`folder_repository.go:106`).
- An upload for a document without a row, or of another account, is answered "uploaded"
  (`sync_repo.go:240`, `sync_handler.go:121`).
- A page's image is merged by COALESCE while the row's time moves as a whole: an edit with the
  image that arrives after a newer one without it is refused (`sync_repo.go:125`).
- A row can be missed by every later pull of a device in two ways, and the variable `exposed` of
  `SyncPull` has the rows of both, which `TimelyRowsReachDevices` and `DevicesConverge` exclude.
  `WrittenLate`: its statement runs in a later second than its loop's `now` (`sync_repo.go:88`) and
  a pull takes its cursor in between. `OnTheSecond`: its latest stamp is exactly a whole second,
  the second its statement runs in; a pull of that second that did not see it has that second as
  its cursor (`sync_repo.go:161`), and the next asks for stamps after it (`:171`, `:192`, `:214`).
  For a page the second case needs no luck: a client that keeps whole seconds has only such stamps.
- A pushed `pdf_cloud_url` of `""` is not NULL, so it replaces the key of a stored file
  (`sync_repo.go:82`) and the document has none (`sync_handler.go:162`), while the object stays.
  No document says otherwise; `FileKeptUnlessEmptied` says that only a later edit can do so.
- An EXPIRE that is not executed leaves a counter for ever (`limiter_repo.go:50`): `endless`. Nor is one
  sent when the reply of the first INCR was lost and the client's second try is answered 2.
- A failed lookup of the tier makes a premium request free (`ocr_handler.go:39`): `misjudged`.
- Check and increment of the quota are two commands, so requests at once pass the limit
  (`ocr_service.go:39`, while `README.md:224` says Redis prevents races), and the
  client sends an INCR whose reply is lost again, so one request may charge four times
  (`redis.go:15`, `limiter_repo.go:43`); `OvershootBounded` says by how many uses at most, and TLC
  reaches that many.
- An edit of a page carries only the client's time: one pushed later than a device's cursor with an
  earlier client time is in no later pull of that device (`sync_repo.go:214`, `README.md:60`). It
  is a row in `exposed`.
- The loser of a registration race is answered 500, not 409 (`auth_handler.go:40`), and so is a
  registration whose reply from PostgreSQL is lost; its repetition is answered 409.
- An address of spaces passes the handler's check for an empty one and is registered as empty
  (`auth_handler.go:29`, `auth_service.go:40`).
- A tier is never taken back when a subscription ends (`subscription_handler.go:61` is the only
  UPDATE), although verification refuses an ended one.
- A process that starts without PostgreSQL or Redis does without for the rest of its life, and
  handlers that need them panic on a nil pointer; without Redis a premium OCR request does too,
  because the remaining uses are read for every tier (`ocr_service.go:50`).
- A process whose scripts are refused in a race, or fail, serves all the same (`main.go:36`).
- The counter is a fixed window from its first use, not a sliding one (`limiter_repo.go:49`,
  `README.md:70`); `TwoCounters` says what it bounds.
- A blank text from REST ends the fallback and reports a nil cause (`gemini_service.go:334`,
  `:130`): `FailureIsExhaustive` excludes it.
- A listing that breaks off is cached as the whole for 30 minutes (`gemini_service.go:413`).
- Two updates of one receipt overwrite each other's columns (`receipt_repository.go:171-211`);
  `EditsKeepOthers` bounds it to what was written since the read.

## 4. What is proved

For every value of the constants that satisfies the named assumptions (`SyncAssumption`,
`PullAssumption`, `QuotaAssumption`, `AccountAssumption`, `ExtractionAssumption`; no theorem about
the receipts needs `LedgerAssumption`). `Startup` has no assumption: its theorems are about the
five scripts of the repository and any set of processes. Every safety invariant and every
action property that a passing run checks is the subject of a theorem; two of the theorems,
`DocumentsImplementLWW` and `DevicesBehind`, have a hypothesis about uploads.

| Module | Theorem | Argument |
|---|---|---|
| `TablesProofs` | lemmas on `Put`, `Coalesce`, `Table` | from the definitions |
| `LastWriterWinsProofs` | `LatestIsHeld`, `LatestIsHeldAfresh` | the abstract register always holds a latest write of its log, also of one that starts afresh (`SetBackStep`) |
| `SyncProofs` | `TypeCorrect` | one step per action |
| | `FilesAreStored` | `FileIsStored` is not inductive alone: between the object write and the row update the key is only in the request. `UploadStored` says that the key of every upload in flight is stored; the two together are inductive, since objects are never removed. |
| | `RowsAreKept`, `FilesAreKept` | action properties, from the type invariant and what `Upsert` and the merge of a conflict preserve. A document that has a file loses it only where COALESCE takes an empty text, and there the conflict rule has let only a later edit in. |
| | `FoldersImplementLWW`, `PagesImplementLWW` | refinement: each step that touches the table is a write of the register or leaves it. The step needs that the register holds a latest write (`FolderInv`, `PageInv`), which the abstract module proves once and the instances cite. |
| | `DocumentsImplementAfresh` | The documents refine the weaker register, with no hypothesis. An upload writes a time read before its UPDATE, which is earlier than the stored one if another edit came in between or a client's clock is ahead: then it is the register's `SetBack`, else a write. |
| | `DocumentsImplementLWW` | Under `[][UploadsKeepOrder]`, no upload sets a document's edit time back, the two logs are one (`NothingForgotten`) and the documents refine the register proper; `upload_breaks_order` shows that without the hypothesis that fails. |
| | `FoldersHoldLatest` | the abstract theorem through the refinement |
| | `PullsTyped`, `TimelyRowsAreHeld` | `TimelyRowsReachDevices` speaks of devices between pulls and is not inductive. `PullInv` says of every row not exposed that at each point of a pull the device holds it or a pull from its old cursor would select it (`RowsHeld`), and that a query already made has it or leaves it to the new cursor (`RowsGot`); that needs that the cursor of a pull is behind the clock (`CursorsBehind`) and that a page has its document (`PagesPlaced`), through which the query joins. What breaks `RowsGot` is a write that leaves no stamp after the first tick of the clock's second: that is what `Exposed` says in two cases (lemma `Exposure`), and such a row is recorded. |
| | `DevicesBehind` | Under `[][UploadsKeepOrder]` again, on the model with uploads: edit times in a table only rise (`StepRises`), and neither what a device holds nor what a pull in flight has collected is ahead (`AheadInv`). |
| `OcrQuotaProofs` (of `OcrQuota` and `OcrHistory`) | `TypeCorrect` | one step per action |
| | `OvershootIsBounded` | With n requests at once the bound is `MostUses`, which is `MaxFreeOCR + (MaxRetries + 1) * n - 1`: each may send INCR `MaxRetries + 1` times. It is not inductive: a request that has passed the check will add more. The invariant adds them: usage plus the number of INCRs requests may still send (`Owed`, pairs of a request and a number of resends left) is at most `MostUses`. A request passes the check only below the limit, with at most `(MaxRetries + 1) * n` owed; an INCR, answered or not, takes its own pair out of `Owed` and adds one use. |
| | `CountersExpire` | `CounterExpires` is inductive with the types: every step that creates a key leaves its request at the EXPIRE, or the loss is recorded; a tick removes what expires now and leaves what expires later. |
| | `PremiumIsExempt` | A request entitled at its arrival still is at its lookup, since no step takes a tier back (`EntitledStay`). |
| | `TwoCountersAtMost` | `TwoCounters` bounds the uses within any one window of time, which may span two lives of a counter. `Lives` splits the uses on record at each moment: those of the counter as it is now, no more than its value; those of the one before it, no more than `MostUses`; and others, a window ago or more. When a counter's expiry was set, all uses of earlier counters were past, so they are a window ago once it expires. With `BelowBound` for each life this gives twice the bound of one. |
| `AccountsProofs` | `AccountsTyped`, `RegisteredLogIn`, `TokensFollowRows`, `PromisesAreKept` | One inductive invariant, `AccountsInv`. That a told client can log in needs two facts no single step shows: an address has one row (`OneAccountPerAddress`, which the UNIQUE constraint keeps although the lookup was long ago), and the row a registration was answered with is still there with its password (`RegisteredHasRow`, since the only later UPDATE is of the tier). |
| | `PremiumWasBought` | A call reaches the UPDATE only after a verdict, when the purchase was active (`UpgradesBought`); `paid` never shrinks. |
| | `QuotaImplemented` | Refinement: `TierMoves` says that a step of the accounts leaves the tiers of the table or raises one from free, which is `OcrQuota`'s `Upgrade`; all other steps are its own. With it what `OcrQuotaProofs` has of the quota holds of real accounts. |
| `ReceiptLedgerProofs` | `TypeCorrect`, `ImagesExist`, `DeletedForEver` | One inductive invariant, `LedgerInv`. The id of an extraction is its own and has never had a row (`IdsAreApart`), so entering one brings nothing back and overwrites nothing; its image is stored before the row is (`ImagesInFlight`). An UPDATE of a row deleted since matches nothing. |
| | `CopiesAreExplained` | At most one request is waited for per photo, and while one is the app has heard of no row beyond the unheard ones (`OneWaits`, `CopiesCounted`): so an entered row is either the first the app hears of, or unheard. |
| | `ExtractedReceiptsAreKept`, `EditsLeaveOthers` | Action properties. Only its own steps end a request (`OwnSteps`); an edit differs from the row as it is now only in its own columns and those written since (`EditsFresh`, kept by `ChangedTwice` when another edit is written first). |
| `StartupProofs` | `StartupTyped`, `ReadyHolds` | `Place`: where a process is tells which scripts it has run; what they add is in the schema, and in what its next script saw when it began; the five together make the complete schema. |
| | `WinnersHold` | `Won`: as long as nothing failed but by racing, the schema is complete, or some process leads, or nothing is committed and no process has reached PostgreSQL. To lead is to have run exactly the scripts that are committed; a leader finds nothing in its way and is never refused (`LeaderRuns`), and whoever commits a script leads. This holds for any number of processes, where the run has two. |
| `GeminiExtractionProofs` | `ExtractionTyped` | What the two loops over lists compute, for every list: `CandidatesGood` says that the candidates are without repetition, usable, contain every usable known model and have those before the ones only discovered; `DiscoveredIsUsable` says that the cache gets usable models only. The induction is over the part of the list the loop has been through, as a set of naturals with a least element (`LeastNat`, `UpTo`), since the library's induction theorems take an operator. |
| | `AskedInOrder`, `FailsExhausted` | `Progress`: a request's calls are the first k candidates by the SDK, then the first m by REST, and m > 0 only when k is none or all. At each point of the two loops k and m are what the loop variable says. |
| | `CacheStaysFilled` | Action property: what is stored is not empty (`Waiting`), and the stored time is the clock's, never before the one it replaces. |

Only model-checked: `DevicesConverge`, `EveryRequestEnds`, `SchemaCompletes`, `StopsEnd`, which
are liveness under fairness and beyond the prover, and `ReceiptLedger`'s export, whose run
looks for a violation.

## 5. Not modelled

- Configuration, logging, JSON bodies, the opening of connections: no state.
- GET handlers other than pull (documents, folders, receipts, summary, quota, profile): they
  read one snapshot of one row or query and change nothing.
- The OCR result is a constant text in the code.
- The expiry of tokens (a request with an expired one does nothing), hashing and signing (taken
  to work), the down scripts (no code runs them).
- Paging of the receipts list: each page is one query of its own snapshot.

## 6. Plan

In the order of importance; all of it is done but for the last item.

1. `SyncStore` with its invariants and proofs.
2. `LastWriterWins`, `SyncHistory`: the refinement, proved for folders and pages, for documents
   while uploads keep the order of edits, and of the weaker register without that.
3. `SyncPull`: delivery to devices, proved; convergence model-checked.
4. `OcrQuota`, `OcrHistory`, proved.
5. `ReceiptLedger`, `GeminiExtraction`, proved; that requests end is model-checked.
6. `Accounts`, `AccountQuota`: accounts and subscriptions, composed with the quota so that
   `Upgrade` becomes the handler it stands for, proved.
7. `Startup`: migrations, start and shutdown of two processes, proved; that the schema completes
   and stops end is model-checked.
8. Left: what an exposed row may cost, as a theorem about `exposed`: until when a device can lack it.
