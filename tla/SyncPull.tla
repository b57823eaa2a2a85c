------------------------------ MODULE SyncPull ------------------------------
(***************************************************************************)
(* GET /sync/pull?since= over SyncStore.  The answer is three queries, one *)
(* per table, run one after the other with no transaction around them,     *)
(* while pushes go on; the cursor it returns, synced_at, is the server's   *)
(* clock in whole seconds, read before the first query.                    *)
(*                                                                         *)
(* The device is not part of this repository.  It is modelled by what the  *)
(* API asks of it: it keeps the rows of every answer it gets, and sends    *)
(* the synced_at of the last one as its next since.                        *)
(***************************************************************************)
EXTENDS SyncStore

CONSTANTS
  Devices,
  DeviceUser,   \* the account each device is logged in to
  TicksPerSec   \* the clock's ticks in a second

ASSUME PullAssumption ==
  /\ DeviceUser \in [Devices -> Users]
  /\ TicksPerSec \in Nat \ {0}
  /\ TicksPerSec <= Epoch       \* the server's clock is past second 0

VARIABLES
  cursor,  \* per device: the since of its next pull
  seen,    \* per device: the rows it has been sent
  pull,    \* per device: its pull in flight
  exposed  \* history: the rows a pull may miss, see Exposed

pvars == <<cursor, seen, pull, exposed>>

Kinds == {"folders", "documents", "pages"}

Db == [folders |-> folders, documents |-> documents, pages |-> pages]

NoRows == [kind \in Kinds |-> EmptyTable]

NoPull == [pc |-> "idle", synced |-> 0, got |-> NoRows]

PInit ==
  /\ Init
  /\ cursor = [v \in Devices |-> 0]
  /\ seen = [v \in Devices |-> NoRows]
  /\ pull = [v \in Devices |-> NoPull]
  /\ exposed = {}

-----------------------------------------------------------------------------
Second(time) == time \div TicksPerSec

\* to_timestamp(since)
Stamp(second) == second * TicksPerSec

\* The columns a query compares with since: pages have no updated_at.
Stamps(kind, row) ==
  IF kind = "pages" THEN {row.cts, row.created} ELSE {row.cts, row.uts}

After(kind, row, since) == \E s \in Stamps(kind, row) : s > Stamp(since)

\* A page belongs to the account its document belongs to.
OwnedBy(kind, id, user) ==
  user = IF kind = "pages" THEN documents[pages[id].doc].owner ELSE Db[kind][id].owner

\* Mutant: a query leaves tombstones out.
SelectedLive(kind, user, since) ==
  {id \in DOMAIN Db[kind] :
     /\ OwnedBy(kind, id, user) /\ Db[kind][id].deleted = 0
     /\ since > 0 => After(kind, Db[kind][id], since)}

\* since = 0 asks for everything.
Selected(kind, user, since) ==
  {id \in DOMAIN Db[kind] :
     OwnedBy(kind, id, user) /\ (since > 0 => After(kind, Db[kind][id], since))}

Answer(kind, user, since) ==
  [id \in Selected(kind, user, since) |-> Db[kind][id]]

Merge(old, new) ==
  [id \in DOMAIN old \cup DOMAIN new |-> IF id \in DOMAIN new THEN new[id] ELSE old[id]]

\* The statement that leaves row in the table runs in a later second than every
\* stamp a pull could find it by.
WrittenLate(kind, row) == \A s \in Stamps(kind, row) : Second(s) < Second(clock)

\* It runs in the second of the latest stamp, but that is the second's first tick,
\* which a query with this second as its since leaves out.
OnTheSecond(kind, row) ==
  /\ Stamp(Second(clock)) \in Stamps(kind, row)
  /\ \A s \in Stamps(kind, row) : s <= Stamp(Second(clock))

Exposed(kind, row) == WrittenLate(kind, row) \/ OnTheSecond(kind, row)

ExposedRows ==
  UNION {{<<kind, id>> : id \in
            {id \in DOMAIN Db'[kind] :
               IF id \in DOMAIN Db[kind] /\ Db'[kind][id] = Db[kind][id]
               THEN <<kind, id>> \in exposed
               ELSE Exposed(kind, Db'[kind][id])}} : kind \in Kinds}

-----------------------------------------------------------------------------
\* Mutant: synced_at is not in seconds.
PullBeginInTicks(v) ==
  /\ pull[v].pc = "idle"
  /\ pull' = [pull EXCEPT ![v] = [pc |-> "folders", synced |-> clock, got |-> NoRows]]
  /\ UNCHANGED <<vars, cursor, seen, exposed>>

PullBegin(v) ==
  /\ pull[v].pc = "idle"
  /\ pull' = [pull EXCEPT ![v] =
                [pc |-> "folders", synced |-> Second(clock), got |-> NoRows]]
  /\ UNCHANGED <<vars, cursor, seen, exposed>>

NextQuery == [folders |-> "documents", documents |-> "pages", pages |-> "answer"]

PullTable(v, kind) ==
  /\ pull[v].pc = kind
  /\ pull' = [pull EXCEPT
                ![v].pc = NextQuery[kind],
                ![v].got[kind] = Answer(kind, DeviceUser[v], cursor[v])]
  /\ UNCHANGED <<vars, cursor, seen, exposed>>

\* Mutant: synced_at is read after the queries.
PullAnswerSyncedAfter(v) ==
  /\ pull[v].pc = "answer"
  /\ seen' = [seen EXCEPT ![v] =
                [kind \in Kinds |-> Merge(seen[v][kind], pull[v].got[kind])]]
  /\ cursor' = [cursor EXCEPT ![v] = Second(clock)]
  /\ pull' = [pull EXCEPT ![v] = NoPull]
  /\ UNCHANGED <<vars, exposed>>

PullAnswer(v) ==
  /\ pull[v].pc = "answer"
  /\ seen' = [seen EXCEPT ![v] =
                [kind \in Kinds |-> Merge(seen[v][kind], pull[v].got[kind])]]
  /\ cursor' = [cursor EXCEPT ![v] = pull[v].synced]
  /\ pull' = [pull EXCEPT ![v] = NoPull]
  /\ UNCHANGED <<vars, exposed>>

\* Mutant: an answer that is lost moves the cursor.
PullFailsAhead(v) ==
  /\ pull[v].pc # "idle"
  /\ cursor' = [cursor EXCEPT ![v] = pull[v].synced]
  /\ pull' = [pull EXCEPT ![v] = NoPull]
  /\ UNCHANGED <<vars, seen, exposed>>

\* A query fails, or the answer is lost: the device keeps its cursor.
PullFails(v) ==
  /\ pull[v].pc # "idle"
  /\ pull' = [pull EXCEPT ![v] = NoPull]
  /\ UNCHANGED <<vars, cursor, seen, exposed>>

PullQuery(v) == \E kind \in Kinds : PullTable(v, kind)

StoreStep == Next /\ exposed' = ExposedRows /\ UNCHANGED <<cursor, seen, pull>>

PNext ==
  \/ StoreStep
  \/ \E v \in Devices : PullBegin(v) \/ PullQuery(v) \/ PullAnswer(v) \/ PullFails(v)

PSpec == PInit /\ [][PNext]_<<vars, pvars>>

\* A device goes on pulling, and not every pull of it fails.
Fairness ==
  \A v \in Devices :
    /\ WF_<<vars, pvars>>(PullBegin(v))
    /\ \A kind \in Kinds : SF_<<vars, pvars>>(PullTable(v, kind))
    /\ SF_<<vars, pvars>>(PullAnswer(v))

FairPSpec == PSpec /\ Fairness

-----------------------------------------------------------------------------
Reached(v, kind, id) ==
  id \in DOMAIN seen[v][kind] /\ seen[v][kind][id] = Db[kind][id]

\* The next pull of v selects the row.
Pending(v, kind, id) == id \in Selected(kind, DeviceUser[v], cursor[v])

Mine(v, kind) == {id \in DOMAIN Db[kind] : OwnedBy(kind, id, DeviceUser[v])}

\* The rows a device holds, or a pull has got, of each table.
TableOf(kind) ==
  IF kind = "folders" THEN Table(FolderIds, FolderRow)
  ELSE IF kind = "documents" THEN Table(DocIds, DocumentRow)
  ELSE Table(PageIds, PageRow)

RowSets ==
  {rows \in [Kinds -> UNION {TableOf(kind) : kind \in Kinds}] :
     \A kind \in Kinds : rows[kind] \in TableOf(kind)}

\* Cursors, rows held and pulls in flight are of their types; only rows that
\* exist are exposed.
PullTypeOK ==
  /\ cursor \in [Devices -> 0..Second(MaxClock)]
  /\ seen \in [Devices -> RowSets]
  /\ pull \in [Devices -> [pc : Kinds \cup {"idle", "answer"},
                           synced : 0..Second(MaxClock), got : RowSets]]
  /\ exposed \subseteq UNION {{kind} \X DOMAIN Db[kind] : kind \in Kinds}

\* A row whose statement runs within the second of one of its stamps, after that
\* second's first tick, is never missed: between pulls the device has it or its next
\* pull selects it, however pushes and the three queries interleave and whichever
\* answers are lost.  Rows written later, or stamped on the second, may be missed.
TimelyRowsReachDevices ==
  \A v \in Devices : pull[v].pc = "idle" =>
    \A kind \in Kinds : \A id \in Mine(v, kind) :
      Reached(v, kind, id) \/ Pending(v, kind, id) \/ <<kind, id>> \in exposed

\* What a device holds was once in the database and the database only moves on:
\* a device never has a row with a later client_updated_at than the store, as
\* long as no upload sets that time back.
DevicesNeverAhead ==
  \A v \in Devices, kind \in Kinds : \A id \in DOMAIN seen[v][kind] :
    id \in DOMAIN Db[kind] /\ seen[v][kind][id].cts <= Db[kind][id].cts

\* Once the tables stop changing, every row that is not exposed is in the end on
\* every device of its account, and stays there.
UpToDate(v) ==
  \A kind \in Kinds : \A id \in Mine(v, kind) :
    Reached(v, kind, id) \/ <<kind, id>> \in exposed

DevicesConverge ==
  <>[][UNCHANGED <<folders, documents, pages>>]_<<vars, pvars>>
    => \A v \in Devices : <>[]UpToDate(v)

-----------------------------------------------------------------------------
\* "Soft deletes (tombstones) propagate across devices": between pulls a device
\* has every tombstone of its account or its next pull selects it.
TombstonesPropagate ==
  \A v \in Devices : pull[v].pc = "idle" =>
    \A f \in Mine(v, "folders") : folders[f].deleted # 0 =>
      Reached(v, "folders", f) \/ Pending(v, "folders", f)

=============================================================================
