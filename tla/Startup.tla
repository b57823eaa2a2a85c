------------------------------- MODULE Startup -------------------------------
(***************************************************************************)
(* The life of the server's processes: connect to PostgreSQL, run the      *)
(* migration scripts, connect to Redis, look for the bucket, serve, drain. *)
(* A service that cannot be reached is logged and done without; nothing    *)
(* connects again later.  Two processes run side by side while a new       *)
(* version replaces an old one.                                            *)
(*                                                                         *)
(* A script is sent as one simple query, which PostgreSQL runs as one      *)
(* transaction.  CREATE TABLE IF NOT EXISTS looks before it creates, so of *)
(* two transactions that create a table at once the second is refused; ADD *)
(* COLUMN IF NOT EXISTS looks under the table's lock and is not.           *)
(***************************************************************************)
EXTENDS Naturals, Sequences

CONSTANTS
  Instances,
  Requests    \* requests under way at once, in all processes

VARIABLES
  pc,      \* where main() is, per process
  has,     \* per process: the services it has found
  done,    \* per process: the scripts that have run
  view,    \* per process: the schema when its script began
  open,    \* per process: the requests it is handling
  schema,  \* tables and columns in PostgreSQL
  bucket,  \* the bucket exists
  upset    \* history: something failed other than by processes racing

process == <<pc, has, done, view, open>>
services == <<schema, bucket>>
server == <<process, services, upset>>

-----------------------------------------------------------------------------
\* The columns later scripts add to a table count as one object.
SyncTables == {"users", "folders", "documents", "pages"}

Script1 == [needs |-> {}, tables |-> SyncTables, columns |-> {}]
Script2 == [needs |-> SyncTables \ {"users"}, tables |-> {}, columns |-> {"sync times"}]
Script3 == [needs |-> {"users"}, tables |-> {}, columns |-> {}]
Receipts == [needs |-> {"users"}, tables |-> {"receipt_orders"}, columns |-> {}]
Folders == [needs |-> {"users", "receipt_orders"}, tables |-> {"folders"},
            columns |-> {"receipt folder"}]

\* Mutant: the numbers are compared, 2 before 000002 like the shorter name.
ShortestFirst == <<Receipts, Folders, Script1, Script2, Script3>>

\* 000001, 000002, 000003, 0002, 0003: the order of sort.Strings.
Scripts == <<Script1, Script2, Script3, Receipts, Folders>>

Adds(script) == script.tables \cup script.columns

Complete == UNION {Adds(Scripts[k]) : k \in 1..Len(Scripts)}

Stages == {"off", "connect", "scripts", "script", "redis", "bucket", "make",
           "serving", "draining"}

Services == {"postgres", "redis", "bucket"}

\* A schema is made of what the scripts add, and only a process that has been
\* through its whole start has requests.
StartupTypeOK ==
  /\ pc \in [Instances -> Stages]
  /\ has \in [Instances -> SUBSET Services]
  /\ done \in [Instances -> 0..Len(Scripts)]
  /\ view \in [Instances -> SUBSET Complete]
  /\ open \in [Instances -> SUBSET Requests]
  /\ schema \subseteq Complete
  /\ bucket \in BOOLEAN
  /\ upset \in BOOLEAN
  /\ \A i \in Instances : open[i] # {} => pc[i] \in {"serving", "draining"}

StartupInit ==
  /\ pc = [i \in Instances |-> "off"]
  /\ has = [i \in Instances |-> {}]
  /\ done = [i \in Instances |-> 0]
  /\ view = [i \in Instances |-> {}]
  /\ open = [i \in Instances |-> {}]
  /\ schema = {}
  /\ bucket = FALSE
  /\ upset = FALSE

-----------------------------------------------------------------------------
GoTo(i, stage) == pc' = [pc EXCEPT ![i] = stage]

Find(i, service) == has' = [has EXCEPT ![i] = @ \cup {service}]

Start(i) ==
  /\ pc[i] = "off"
  /\ GoTo(i, "connect")
  /\ UNCHANGED <<has, done, view, open, services, upset>>

\* Ping of PostgreSQL.
Connect(i) ==
  /\ pc[i] = "connect"
  /\ Find(i, "postgres")
  /\ GoTo(i, "scripts")
  /\ UNCHANGED <<done, view, open, services, upset>>

Script(i) == Scripts[done[i] + 1]

BeginScript(i) ==
  /\ pc[i] = "scripts"
  /\ view' = [view EXCEPT ![i] = schema]
  /\ GoTo(i, "script")
  /\ UNCHANGED <<has, done, open, services, upset>>

\* Mutant: CREATE TABLE without IF NOT EXISTS.
ClashesWithAny(i) == Script(i).tables \cap schema # {}

\* A table that was not there when the script began has been created since: its
\* CREATE looked before or after.
Clashes(i) == (Script(i).tables \ view[i]) \cap schema # {}

Runs(i) == Script(i).needs \subseteq schema \cup Script(i).tables

Commit(i) == schema' = schema \cup Adds(Script(i))

\* The script commits and the next one is read, or main goes on.
RunScript(i) ==
  /\ pc[i] = "script"
  /\ Runs(i)
  /\ Commit(i)
  /\ done' = [done EXCEPT ![i] = @ + 1]
  /\ GoTo(i, IF done'[i] = Len(Scripts) THEN "redis" ELSE "scripts")
  /\ view' = [view EXCEPT ![i] = {}]
  /\ UNCHANGED <<has, open, bucket, upset>>

\* The transaction is rolled back; RunMigrations returns, main logs and goes on.
ScriptRefused(i) ==
  /\ pc[i] = "script"
  /\ ~Runs(i) \/ Clashes(i)
  /\ GoTo(i, "redis")
  /\ view' = [view EXCEPT ![i] = {}]
  /\ UNCHANGED <<has, done, open, services, upset>>

ConnectRedis(i) ==
  /\ pc[i] = "redis"
  /\ Find(i, "redis")
  /\ GoTo(i, "bucket")
  /\ UNCHANGED <<done, view, open, services, upset>>

\* BucketExists
LookForBucket(i) ==
  /\ pc[i] = "bucket"
  /\ IF bucket THEN Find(i, "bucket") /\ GoTo(i, "serving")
     ELSE UNCHANGED has /\ GoTo(i, "make")
  /\ UNCHANGED <<done, view, open, services, upset>>

\* A bucket that another process has made meanwhile is an error, and logged.
MakeBucket(i) ==
  /\ pc[i] = "make"
  /\ bucket' = TRUE
  /\ IF bucket THEN UNCHANGED has ELSE Find(i, "bucket")
  /\ GoTo(i, "serving")
  /\ UNCHANGED <<done, view, open, schema, upset>>

-----------------------------------------------------------------------------
\* Mutant: the server listens before its services have been looked for.
AcceptEarly(i, p) ==
  /\ pc[i] \notin {"off", "draining"}
  /\ \A j \in Instances : p \notin open[j]
  /\ open' = [open EXCEPT ![i] = @ \cup {p}]
  /\ UNCHANGED <<pc, has, done, view, services, upset>>

Accept(i, p) ==
  /\ pc[i] = "serving"
  /\ \A j \in Instances : p \notin open[j]
  /\ open' = [open EXCEPT ![i] = @ \cup {p}]
  /\ UNCHANGED <<pc, has, done, view, services, upset>>

\* The handler returns, or panics and is recovered.
Answer(i, p) ==
  /\ p \in open[i]
  /\ open' = [open EXCEPT ![i] = @ \ {p}]
  /\ UNCHANGED <<pc, has, done, view, services, upset>>

\* SIGTERM once main waits for it: Shutdown closes the listener.
Signal(i) ==
  /\ pc[i] = "serving"
  /\ GoTo(i, "draining")
  /\ UNCHANGED <<has, done, view, open, services, upset>>

Exit(i) ==
  /\ pc' = [pc EXCEPT ![i] = "off"]
  /\ has' = [has EXCEPT ![i] = {}]
  /\ done' = [done EXCEPT ![i] = 0]
  /\ view' = [view EXCEPT ![i] = {}]
  /\ open' = [open EXCEPT ![i] = {}]

\* Shutdown returns when the last request is answered.
Stop(i) ==
  /\ pc[i] = "draining"
  /\ open[i] = {}
  /\ Exit(i)
  /\ UNCHANGED <<services, upset>>

\* Mutant: Shutdown is given a context without a deadline.
NoDeadline(i) == FALSE /\ UNCHANGED server

\* Requests are still open after 10 seconds: log.Fatalf.
ForcedStop(i) ==
  /\ pc[i] = "draining"
  /\ open[i] # {}
  /\ Exit(i)
  /\ UNCHANGED <<services, upset>>

-----------------------------------------------------------------------------
\* A service cannot be reached, or answers with an error: main goes on.
After == [connect |-> "redis", script |-> "redis", redis |-> "bucket",
          bucket |-> "serving", make |-> "serving"]

\* Mutant: a script that fails is logged and the next one run.
ServiceFailsSkipsScript(i) ==
  /\ pc[i] \in DOMAIN After
  /\ IF pc[i] = "script"
     THEN /\ done' = [done EXCEPT ![i] = @ + 1]
          /\ GoTo(i, IF done'[i] = Len(Scripts) THEN "redis" ELSE "scripts")
     ELSE GoTo(i, After[pc[i]]) /\ UNCHANGED done
  /\ view' = [view EXCEPT ![i] = {}]
  /\ upset' = TRUE
  /\ UNCHANGED <<has, open, services>>

ServiceFails(i) ==
  /\ pc[i] \in DOMAIN After
  /\ GoTo(i, After[pc[i]])
  /\ view' = [view EXCEPT ![i] = {}]
  /\ upset' = TRUE
  /\ UNCHANGED <<has, done, open, services>>

\* A script is committed, the bucket made, and the reply is lost.
ReplyLost(i) ==
  /\ \/ pc[i] = "script" /\ Runs(i) /\ Commit(i) /\ UNCHANGED bucket
     \/ pc[i] = "make" /\ bucket' = TRUE /\ UNCHANGED schema
  /\ GoTo(i, After[pc[i]])
  /\ view' = [view EXCEPT ![i] = {}]
  /\ upset' = TRUE
  /\ UNCHANGED <<has, done, open>>

\* The process dies; a signal before main waits for it does that as well.
Crash(i) ==
  /\ pc[i] # "off"
  /\ Exit(i)
  /\ upset' = TRUE
  /\ UNCHANGED services

-----------------------------------------------------------------------------
Boot(i) ==
  \/ Connect(i)
  \/ BeginScript(i)
  \/ RunScript(i)
  \/ ScriptRefused(i)
  \/ ConnectRedis(i)
  \/ LookForBucket(i)
  \/ MakeBucket(i)

Serve(i) ==
  \/ \E p \in Requests : Accept(i, p) \/ Answer(i, p)
  \/ Signal(i)

Leave(i) == Stop(i) \/ ForcedStop(i)

Fault(i) == ServiceFails(i) \/ ReplyLost(i) \/ Crash(i)

StartupNext ==
  \E i \in Instances : Start(i) \/ Boot(i) \/ Serve(i) \/ Leave(i) \/ Fault(i)

\* main takes its next step, and Shutdown returns in time.
StartupFairness == \A i \in Instances : WF_server(Boot(i)) /\ WF_server(Leave(i))

StartupSpec == StartupInit /\ [][StartupNext]_server /\ StartupFairness

-----------------------------------------------------------------------------
\* What a process logs as done is so: after "migrations applied" the schema is
\* complete, after "bucket is ready" the bucket exists.
ReadyIsTrue ==
  \A i \in Instances :
    /\ done[i] = Len(Scripts) => schema = Complete
    /\ "bucket" \in has[i] => bucket

Migrating(i) == pc[i] \in {"scripts", "script"}

\* Scripts find what earlier ones add, and processes that start at once may
\* refuse each other's scripts, but as long as nothing else fails one of them
\* goes on: none serves a database whose schema is incomplete with nobody left
\* to complete it.
RacesLeaveAWinner ==
  \A i \in Instances : ~upset /\ "postgres" \in has[i] =>
    schema = Complete \/ \E j \in Instances : Migrating(j)

\* Once nothing fails any more and the processes are started again and again,
\* the schema becomes complete, wherever earlier starts were cut off.
Quiet == [][\A i \in Instances : ~Fault(i)]_server

SchemaCompletes ==
  (<>Quiet /\ \A i \in Instances : []<>(pc[i] = "connect")) => <>(schema = Complete)

\* A process that is told to stop does, whatever its requests wait for.
StopsEnd == \A i \in Instances : pc[i] = "draining" ~> pc[i] = "off"

=============================================================================
