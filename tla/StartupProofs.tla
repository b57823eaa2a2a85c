--------------------------- MODULE StartupProofs ----------------------------
(***************************************************************************)
(* Startup for every number of processes and of requests.                  *)
(***************************************************************************)
EXTENDS Startup, TLAPS

\* What the first k scripts add.
Prefix(k) == UNION {Adds(Scripts[n]) : n \in 1..k}

LEMMA ScriptNames ==
  /\ Len(Scripts) = 5
  /\ Scripts[1] = Script1 /\ Scripts[2] = Script2 /\ Scripts[3] = Script3
  /\ Scripts[4] = Receipts /\ Scripts[5] = Folders
BY DEF Scripts

\* Scripts run in order: each finds what the earlier ones add.
LEMMA Prefixes ==
  /\ Prefix(0) = {} /\ Prefix(5) = Complete
  /\ \A k \in 0..4 : Prefix(k + 1) = Prefix(k) \cup Adds(Scripts[k + 1])
  /\ \A k \in 0..5 : \A n \in 0..k : Prefix(n) \subseteq Prefix(k)
BY ScriptNames DEF Prefix, Complete

LEMMA NeedsMet ==
  \A k \in 0..4 : Scripts[k + 1].needs \subseteq Prefix(k) \cup Scripts[k + 1].tables
<1>1. Scripts[1].needs = {}
  BY ScriptNames DEF Script1
<1>2. SyncTables \subseteq Prefix(1)
  <2>1. SyncTables \subseteq Adds(Scripts[1])
    BY ScriptNames DEF Script1, Adds
  <2> QED BY <2>1 DEF Prefix
<1>3. \A k \in 1..5 : Prefix(1) \subseteq Prefix(k)
  BY DEF Prefix
<1>4. {"users", "receipt_orders"} \subseteq Prefix(4)
  <2>1. "receipt_orders" \in Adds(Scripts[4])
    BY ScriptNames DEF Receipts, Adds
  <2>2. "receipt_orders" \in Prefix(4)
    BY <2>1 DEF Prefix
  <2> QED BY <1>2, <1>3, <2>2 DEF SyncTables
<1>5. /\ Scripts[2].needs \subseteq SyncTables
      /\ Scripts[3].needs \subseteq SyncTables
      /\ Scripts[4].needs \subseteq SyncTables
      /\ Scripts[5].needs = {"users", "receipt_orders"}
  <2>1. Script2.needs = SyncTables \ {"users"}
    BY DEF Script2
  <2>2. Scripts[3].needs = {"users"} /\ Scripts[4].needs = {"users"}
    BY ScriptNames DEF Script3, Receipts
  <2>3. Folders.needs = {"users", "receipt_orders"}
    BY DEF Folders
  <2> QED BY <2>1, <2>2, <2>3, ScriptNames DEF SyncTables
<1>6. \A k \in 0..4 : k = 0 \/ k = 1 \/ k = 2 \/ k = 3 \/ k = 4
  OBVIOUS
<1>7. /\ Scripts[0 + 1].needs \subseteq Prefix(0)
      /\ Scripts[1 + 1].needs \subseteq Prefix(1)
      /\ Scripts[2 + 1].needs \subseteq Prefix(2)
      /\ Scripts[3 + 1].needs \subseteq Prefix(3)
      /\ Scripts[4 + 1].needs \subseteq Prefix(4)
  BY <1>1, <1>2, <1>3, <1>4, <1>5
<1> QED BY <1>6, <1>7

-----------------------------------------------------------------------------
\* Where a process is tells which scripts it has run and what it saw.
Place(i) ==
  /\ pc[i] \in {"off", "connect"} => done[i] = 0
  /\ Migrating(i) => done[i] < Len(Scripts) /\ "postgres" \in has[i]
  /\ pc[i] = "script" => Prefix(done[i]) \subseteq view[i]
  /\ Prefix(done[i]) \subseteq schema
  /\ "bucket" \in has[i] => bucket

\* The winner of a race: the scripts it has run are all that was ever committed, so
\* that no table it is about to create can have appeared since its script began.
Leads(j) == Migrating(j) /\ schema = Prefix(done[j])

Won ==
  ~upset =>
    \/ schema = Complete
    \/ \E j \in Instances : Leads(j)
    \/ schema = {} /\ \A i \in Instances : "postgres" \notin has[i]

StartupInv == StartupTypeOK /\ (\A i \in Instances : Place(i)) /\ Won

LEMMA TypesOf ==
  ASSUME StartupTypeOK, NEW i \in Instances
  PROVE  /\ pc[i] \in Stages /\ has[i] \in SUBSET Services
         /\ done[i] \in 0..5 /\ view[i] \in SUBSET Complete
         /\ open[i] \in SUBSET Requests
BY ScriptNames DEF StartupTypeOK

\* A script that is about to run is one of the five, and adds to the schema what is
\* part of the complete one.
LEMMA ScriptOf ==
  ASSUME StartupInv, NEW i \in Instances, pc[i] = "script"
  PROVE  /\ done[i] \in 0..4
         /\ Script(i) = Scripts[done[i] + 1]
         /\ Prefix(done[i] + 1) = Prefix(done[i]) \cup Adds(Script(i))
         /\ Adds(Script(i)) \subseteq Complete
<1>1. done[i] \in 0..4
  BY TypesOf, ScriptNames DEF StartupInv, Place, Migrating
<1>2. Script(i) = Scripts[done[i] + 1]
  BY DEF Script
<1>3. Prefix(done[i] + 1) = Prefix(done[i]) \cup Adds(Script(i))
  BY <1>1, <1>2, Prefixes
<1>4. Prefix(done[i] + 1) \subseteq Prefix(5)
  BY <1>1, Prefixes
<1> QED BY <1>1, <1>2, <1>3, <1>4, Prefixes

\* The one that leads is not refused: it finds what it needs, and no table it creates
\* has appeared since it began.
LEMMA LeaderRuns ==
  ASSUME StartupInv, NEW j \in Instances, Leads(j), pc[j] = "script"
  PROVE  Runs(j) /\ ~Clashes(j)
<1>1. Runs(j)
  BY ScriptOf, NeedsMet DEF Leads, Runs
<1>2. schema \subseteq view[j]
  BY DEF StartupInv, Place, Leads
<1> QED BY <1>1, <1>2 DEF Clashes

-----------------------------------------------------------------------------
LEMMA TypeStep ==
  ASSUME StartupInv, StartupNext
  PROVE  StartupTypeOK'
<1> USE DEF StartupTypeOK, Stages, Services, process, services, server, GoTo, Find
<1>1. StartupTypeOK
  BY DEF StartupInv
<1>2. PICK i \in Instances : Start(i) \/ Boot(i) \/ Serve(i) \/ Leave(i) \/ Fault(i)
  BY DEF StartupNext
<1>3. CASE Start(i)
  BY <1>1, <1>3 DEF Start
<1>4. CASE Connect(i)
  BY <1>1, <1>4 DEF Connect
<1>5. CASE BeginScript(i)
  BY <1>1, <1>5 DEF BeginScript
<1>6. CASE RunScript(i)
  <2>1. done[i] \in 0..4 /\ Adds(Script(i)) \subseteq Complete
    BY <1>6, ScriptOf DEF RunScript
  <2>2. done' \in [Instances -> 0..Len(Scripts)]
    BY <1>1, <1>6, <2>1, ScriptNames DEF RunScript
  <2>3. schema' \subseteq Complete
    BY <1>1, <1>6, <2>1 DEF RunScript, Commit
  <2>4. pc' \in [Instances -> Stages] /\ view' \in [Instances -> SUBSET Complete]
    BY <1>1, <1>6 DEF RunScript
  <2>5. \A j \in Instances : open'[j] # {} => pc'[j] \in {"serving", "draining"}
    BY <1>1, <1>6 DEF RunScript
  <2>6. has' = has /\ open' = open /\ bucket' = bucket /\ upset' = upset
    BY <1>6 DEF RunScript
  <2> QED BY <1>1, <2>2, <2>3, <2>4, <2>5, <2>6
<1>7. CASE ScriptRefused(i)
  BY <1>1, <1>7 DEF ScriptRefused
<1>8. CASE ConnectRedis(i)
  BY <1>1, <1>8 DEF ConnectRedis
<1>9. CASE LookForBucket(i)
  <2>1. CASE bucket
    <3>1. has' \in [Instances -> SUBSET Services] /\ pc' \in [Instances -> Stages]
      BY <1>1, <1>9, <2>1 DEF LookForBucket
    <3>2. \A j \in Instances : open'[j] # {} => pc'[j] \in {"serving", "draining"}
      BY <1>1, <1>9, <2>1 DEF LookForBucket
    <3>3. /\ done' = done /\ view' = view /\ open' = open /\ schema' = schema
          /\ bucket' = bucket /\ upset' = upset
      BY <1>9 DEF LookForBucket
    <3> QED BY <1>1, <3>1, <3>2, <3>3
  <2>2. CASE ~bucket
    BY <1>1, <1>9, <2>2 DEF LookForBucket
  <2> QED BY <2>1, <2>2
<1>10. CASE MakeBucket(i)
  <2>1. has' \in [Instances -> SUBSET Services]
    BY <1>1, <1>10 DEF MakeBucket
  <2>2. /\ pc' \in [Instances -> Stages] /\ pc'[i] = "serving"
        /\ \A j \in Instances : j # i => pc'[j] = pc[j]
    BY <1>1, <1>10 DEF MakeBucket
  <2>3. \A j \in Instances : open'[j] # {} => pc'[j] \in {"serving", "draining"}
    BY <1>1, <1>10, <2>2 DEF MakeBucket
  <2>4. /\ done' = done /\ view' = view /\ open' = open /\ schema' = schema
        /\ bucket' \in BOOLEAN /\ upset' = upset
    BY <1>10 DEF MakeBucket
  <2> QED BY <1>1, <2>1, <2>2, <2>3, <2>4
<1>11. CASE Serve(i)
  <2>1. ASSUME NEW p \in Requests, Accept(i, p) PROVE StartupTypeOK'
    BY <1>1, <2>1 DEF Accept
  <2>2. ASSUME NEW p \in Requests, Answer(i, p) PROVE StartupTypeOK'
    BY <1>1, <2>2 DEF Answer
  <2>3. CASE Signal(i)
    BY <1>1, <2>3 DEF Signal
  <2> QED BY <1>11, <2>1, <2>2, <2>3 DEF Serve
<1>12. CASE Leave(i)
  BY <1>1, <1>12, ScriptNames DEF Leave, Stop, ForcedStop, Exit
<1>13. CASE ServiceFails(i)
  BY <1>1, <1>13 DEF ServiceFails, After
<1>14. CASE ReplyLost(i)
  <2>1. schema' \subseteq Complete /\ bucket' \in BOOLEAN
    BY <1>1, <1>14, ScriptOf DEF ReplyLost, Commit
  <2> QED BY <1>1, <1>14, <2>1 DEF ReplyLost, After
<1>15. CASE Crash(i)
  BY <1>1, <1>15, ScriptNames DEF Crash, Exit
<1> QED BY <1>2, <1>3, <1>4, <1>5, <1>6, <1>7, <1>8, <1>9, <1>10, <1>11, <1>12,
           <1>13, <1>14, <1>15
        DEF Boot, Fault

-----------------------------------------------------------------------------
\* What a step leaves of the schema and the bucket, and of the other processes.
LEMMA StepServices ==
  ASSUME StartupInv, NEW i \in Instances,
         Start(i) \/ Boot(i) \/ Serve(i) \/ Leave(i) \/ Fault(i)
  PROVE  /\ schema \subseteq schema'
         /\ bucket => bucket'
         /\ \A j \in Instances \ {i} :
              /\ pc'[j] = pc[j] /\ has'[j] = has[j]
              /\ done'[j] = done[j] /\ view'[j] = view[j]
         /\ schema' # schema => pc[i] = "script" /\ Commit(i)
<1> USE DEF StartupTypeOK, process, services, GoTo, Find
<1>1. StartupTypeOK
  BY DEF StartupInv
<1>2. CASE Start(i)
  BY <1>1, <1>2 DEF Start
<1>3. CASE Connect(i)
  BY <1>1, <1>3 DEF Connect
<1>4. CASE BeginScript(i)
  BY <1>1, <1>4 DEF BeginScript
<1>5. CASE RunScript(i)
  BY <1>1, <1>5 DEF RunScript, Commit
<1>6. CASE ScriptRefused(i)
  BY <1>1, <1>6 DEF ScriptRefused
<1>7. CASE ConnectRedis(i)
  BY <1>1, <1>7 DEF ConnectRedis
<1>8. CASE LookForBucket(i)
  <2>1. CASE bucket
    BY <1>1, <1>8, <2>1 DEF LookForBucket
  <2>2. CASE ~bucket
    BY <1>1, <1>8, <2>2 DEF LookForBucket
  <2> QED BY <2>1, <2>2
<1>9. CASE MakeBucket(i)
  BY <1>1, <1>9 DEF MakeBucket
<1>10. CASE Serve(i)
  BY <1>1, <1>10 DEF Serve, Accept, Answer, Signal
<1>11. CASE Leave(i)
  BY <1>1, <1>11 DEF Leave, Stop, ForcedStop, Exit
<1>12. CASE ServiceFails(i)
  BY <1>1, <1>12 DEF ServiceFails
<1>13. CASE ReplyLost(i)
  BY <1>1, <1>13 DEF ReplyLost, Commit
<1>14. CASE Crash(i)
  BY <1>1, <1>14 DEF Crash, Exit
<1> QED BY <1>2, <1>3, <1>4, <1>5, <1>6, <1>7, <1>8, <1>9, <1>10, <1>11, <1>12,
           <1>13, <1>14
        DEF Boot, Fault

\* The process that moves keeps its place.
LEMMA PlaceMoves ==
  ASSUME StartupInv, NEW i \in Instances,
         Start(i) \/ Boot(i) \/ Serve(i) \/ Leave(i) \/ Fault(i)
  PROVE  Place(i)'
<1> USE DEF StartupTypeOK, process, services, GoTo, Find, Place, Migrating
<1>1. StartupTypeOK /\ Place(i) /\ Len(Scripts) = 5
  BY ScriptNames DEF StartupInv
<1>2. /\ schema \subseteq schema' /\ (bucket => bucket')
  BY StepServices
<1>3. CASE Start(i)
  BY <1>1, <1>3 DEF Start
<1>4. CASE Connect(i)
  BY <1>1, <1>4 DEF Connect
<1>5. CASE BeginScript(i)
  BY <1>1, <1>5 DEF BeginScript
<1>6. CASE RunScript(i)
  <2>1. /\ done[i] \in 0..4 /\ done'[i] = done[i] + 1
        /\ pc'[i] = IF done'[i] = 5 THEN "redis" ELSE "scripts"
        /\ has' = has /\ bucket' = bucket
    BY <1>1, <1>6, ScriptOf DEF RunScript
  <2>2. Prefix(done[i] + 1) \subseteq schema'
    BY <1>1, <1>6, ScriptOf DEF RunScript, Commit
  <2>3. Prefix(done'[i]) \subseteq schema'
    BY <2>1, <2>2
  <2> QED BY <1>1, <1>6, <2>1, <2>3 DEF RunScript
<1>7. CASE ScriptRefused(i)
  BY <1>1, <1>7 DEF ScriptRefused
<1>8. CASE ConnectRedis(i)
  BY <1>1, <1>8 DEF ConnectRedis
<1>9. CASE LookForBucket(i)
  <2>1. CASE bucket
    BY <1>1, <1>9, <2>1 DEF LookForBucket
  <2>2. CASE ~bucket
    BY <1>1, <1>9, <2>2 DEF LookForBucket
  <2> QED BY <2>1, <2>2
<1>10. CASE MakeBucket(i)
  BY <1>1, <1>10 DEF MakeBucket
<1>11. CASE Serve(i)
  BY <1>1, <1>11 DEF Serve, Accept, Answer, Signal
<1>12. CASE Leave(i) \/ Crash(i)
  <2>1. pc'[i] = "off" /\ has'[i] = {} /\ done'[i] = 0 /\ view'[i] = {}
    BY <1>1, <1>12 DEF Leave, Stop, ForcedStop, Crash, Exit
  <2> QED BY <2>1, Prefixes
<1>13. CASE ServiceFails(i)
  <2>1. /\ pc'[i] \in {"redis", "bucket", "serving"}
        /\ has' = has /\ done' = done /\ schema' = schema /\ bucket' = bucket
    BY <1>1, <1>13 DEF ServiceFails, After
  <2> QED BY <1>1, <2>1
<1>14. CASE ReplyLost(i)
  <2>1. pc'[i] \in {"redis", "serving"} /\ has' = has /\ done' = done
    BY <1>1, <1>14 DEF ReplyLost, After
  <2> QED BY <1>1, <1>2, <2>1
<1> QED BY <1>3, <1>4, <1>5, <1>6, <1>7, <1>8, <1>9, <1>10, <1>11, <1>12, <1>13, <1>14
        DEF Boot, Fault

LEMMA PlaceStep ==
  ASSUME StartupInv, StartupNext
  PROVE  \A j \in Instances : Place(j)'
<1>1. PICK i \in Instances : Start(i) \/ Boot(i) \/ Serve(i) \/ Leave(i) \/ Fault(i)
  BY DEF StartupNext
<1>2. ASSUME NEW j \in Instances \ {i} PROVE Place(j)'
  BY <1>1, <1>2, StepServices DEF StartupInv, Place, Migrating
<1> QED BY <1>1, <1>2, PlaceMoves

-----------------------------------------------------------------------------
\* A script that commits hands the lead on, unless the schema had it already.
LEMMA CommitLeads ==
  ASSUME StartupInv, NEW i \in Instances, RunScript(i), NEW j \in Instances, Leads(j)
  PROVE  schema' = Complete \/ \E k \in Instances : Leads(k)'
<1>1. /\ done[i] \in 0..4 /\ pc[i] = "script"
      /\ Prefix(done[i] + 1) = Prefix(done[i]) \cup Adds(Script(i))
  BY ScriptOf DEF RunScript
<1>2. /\ Migrating(j) /\ schema = Prefix(done[j]) /\ done[j] \in 0..4
  BY TypesOf, ScriptNames DEF StartupInv, Place, Leads
<1>3. Prefix(done[i]) \subseteq schema
  BY DEF StartupInv, Place
<1>4. schema' = schema \cup Adds(Script(i))
  BY DEF RunScript, Commit
<1>5. /\ done'[i] = done[i] + 1
      /\ pc'[i] = IF done'[i] = 5 THEN "redis" ELSE "scripts"
  BY ScriptNames DEF RunScript, StartupInv, StartupTypeOK, GoTo
<1>6. CASE done[i] < done[j]
  <2>1. Prefix(done[i] + 1) \subseteq schema
    BY <1>1, <1>2, <1>6, Prefixes
  <2>2. schema' = schema /\ i # j
    BY <1>1, <1>4, <1>6, <2>1
  <2>3. pc'[j] = pc[j] /\ done'[j] = done[j]
    BY <2>2, StepServices DEF Boot
  <2> QED BY <1>2, <2>2, <2>3 DEF Leads, Migrating
<1>7. CASE done[j] <= done[i]
  <2>1. Prefix(done[j]) \subseteq Prefix(done[i])
    BY <1>1, <1>2, <1>7, Prefixes
  <2>2. schema' = Prefix(done[i] + 1)
    BY <1>1, <1>2, <1>3, <1>4, <2>1
  <2>3. CASE done[i] = 4
    BY <2>2, <2>3, Prefixes
  <2>4. CASE done[i] # 4
    <3>1. pc'[i] = "scripts" /\ schema' = Prefix(done'[i])
      BY <1>1, <1>5, <2>2, <2>4
    <3> QED BY <3>1 DEF Leads, Migrating
  <2> QED BY <2>3, <2>4
<1> QED BY <1>1, <1>2, <1>6, <1>7

\* The steps that change no script's place leave a leader leading.
LEMMA OthersLead ==
  ASSUME StartupInv, NEW i \in Instances, NEW j \in Instances, Leads(j), UNCHANGED schema,
         Start(i) \/ Boot(i) \/ Serve(i) \/ Leave(i) \/ Fault(i),
         i = j => Migrating(j)' /\ done'[j] = done[j]
  PROVE  Leads(j)'
BY StepServices DEF Leads, Migrating

LEMMA WonStep ==
  ASSUME StartupInv, StartupNext
  PROVE  Won'
<1>1. PICK i \in Instances : Start(i) \/ Boot(i) \/ Serve(i) \/ Leave(i) \/ Fault(i)
  BY DEF StartupNext
<1>2. SUFFICES ASSUME ~upset' PROVE
        \/ schema' = Complete
        \/ \E j \in Instances : Leads(j)'
        \/ schema' = {} /\ \A j \in Instances : "postgres" \notin has'[j]
  BY DEF Won
<1>3. ~Fault(i) /\ ~upset
  BY <1>1, <1>2 DEF Fault, ServiceFails, ReplyLost, Crash, Start, Boot, Serve, Leave,
       Connect, BeginScript, RunScript, ScriptRefused, ConnectRedis, LookForBucket,
       MakeBucket, Accept, Answer, Signal, Stop, ForcedStop
<1>4. CASE schema = Complete
  <2>1. StartupTypeOK' /\ schema \subseteq schema'
    BY <1>1, TypeStep, StepServices
  <2> QED BY <1>4, <2>1 DEF StartupTypeOK
<1>5. ASSUME NEW j \in Instances, Leads(j)
      PROVE  schema' = Complete \/ \E k \in Instances : Leads(k)'
  <2>1. CASE RunScript(i)
    BY <1>5, <2>1, CommitLeads
  <2>2. CASE ~RunScript(i)
    <3>1. UNCHANGED schema
      BY <1>1, <1>3, <2>2
      DEF Start, Boot, Serve, Leave, Connect, BeginScript, ScriptRefused, ConnectRedis,
          LookForBucket, MakeBucket, Accept, Answer, Signal, Stop, ForcedStop, services
    <3>2. ASSUME i = j PROVE Migrating(j)' /\ done'[j] = done[j]
      <4>1. pc[j] \in {"scripts", "script"}
        BY <1>5 DEF Leads, Migrating
      <4>2. ~ScriptRefused(j)
        BY <1>5, LeaderRuns DEF ScriptRefused
      <4>3. BeginScript(j) \/ \E p \in Requests : Answer(j, p)
        BY <1>1, <1>3, <2>2, <3>2, <4>1, <4>2
        DEF Start, Boot, Serve, Leave, Connect, ConnectRedis, LookForBucket, MakeBucket,
            Accept, Signal, Stop, ForcedStop
      <4> QED BY <4>1, <4>3 DEF BeginScript, Answer, GoTo, Migrating, StartupInv, StartupTypeOK
    <3> QED BY <1>1, <1>5, <3>1, <3>2, OthersLead
  <2> QED BY <2>1, <2>2
<1>6. CASE schema = {} /\ \A j \in Instances : "postgres" \notin has[j]
  <2>1. \A j \in Instances : ~Migrating(j)
    BY <1>6 DEF StartupInv, Place
  <2>2. CASE Connect(i)
    <3>1. /\ pc'[i] = "scripts" /\ done'[i] = 0 /\ schema' = {}
      BY <1>6, <2>2
      DEF Connect, GoTo, StartupInv, StartupTypeOK, Place, services
    <3> QED BY <3>1, Prefixes DEF Leads, Migrating
  <2>3. CASE ~Connect(i)
    <3>1. schema' = {}
      BY <1>1, <1>6, <2>1, StepServices DEF Migrating
    <3>2. "postgres" \notin has'[i]
      <4>1. ~RunScript(i) /\ ~ScriptRefused(i) /\ ~BeginScript(i)
        BY <2>1 DEF Migrating, RunScript, ScriptRefused, BeginScript
      <4>2. CASE LookForBucket(i)
        BY <1>6, <4>2 DEF LookForBucket, Find, StartupInv, StartupTypeOK
      <4>3. CASE MakeBucket(i)
        BY <1>6, <4>3 DEF MakeBucket, Find, StartupInv, StartupTypeOK
      <4>4. CASE ConnectRedis(i)
        BY <1>6, <4>4 DEF ConnectRedis, Find, StartupInv, StartupTypeOK
      <4>5. CASE Start(i) \/ Serve(i) \/ Leave(i)
        BY <1>6, <4>5 DEF Start, Serve, Accept, Answer, Signal, Leave, Stop, ForcedStop, Exit,
                          StartupInv, StartupTypeOK
      <4> QED BY <1>1, <1>3, <2>3, <4>1, <4>2, <4>3, <4>4, <4>5 DEF Boot
    <3> QED BY <1>1, <1>6, <3>1, <3>2, StepServices
  <2> QED BY <2>2, <2>3
<1> QED BY <1>3, <1>4, <1>5, <1>6 DEF StartupInv, Won

LEMMA StartupInvStep == StartupInv /\ [StartupNext]_server => StartupInv'
<1>1. StartupInv /\ StartupNext => StartupInv'
  BY TypeStep, PlaceStep, WonStep DEF StartupInv
<1>2. StartupInv /\ UNCHANGED server => StartupInv'
  BY DEF StartupInv, StartupTypeOK, Place, Won, Leads, Migrating, server, process, services
<1> QED BY <1>1, <1>2

LEMMA StartupInvInit == StartupInit => StartupInv
<1> SUFFICES ASSUME StartupInit PROVE StartupInv
  OBVIOUS
<1>1. StartupTypeOK
  <2>1. pc \in [Instances -> Stages]
    BY DEF StartupInit, Stages
  <2>2. /\ has \in [Instances -> SUBSET Services]
        /\ view \in [Instances -> SUBSET Complete]
        /\ open \in [Instances -> SUBSET Requests]
    BY DEF StartupInit
  <2>3. done \in [Instances -> 0..Len(Scripts)]
    BY ScriptNames DEF StartupInit
  <2>4. /\ schema \subseteq Complete /\ bucket \in BOOLEAN /\ upset \in BOOLEAN
        /\ \A i \in Instances : open[i] = {}
    BY DEF StartupInit
  <2> QED BY <2>1, <2>2, <2>3, <2>4 DEF StartupTypeOK
<1>2. \A i \in Instances : Place(i)
  BY Prefixes, ScriptNames DEF StartupInit, Place, Migrating
<1>3. Won
  BY DEF StartupInit, Won
<1> QED BY <1>1, <1>2, <1>3 DEF StartupInv

\* Processes stay in their stages, and only one that serves or drains has requests.
THEOREM StartupTyped == StartupSpec => []StartupTypeOK
<1>1. StartupInv => StartupTypeOK
  BY DEF StartupInv
<1> QED BY <1>1, StartupInvInit, StartupInvStep, PTL DEF StartupSpec

\* What a process logs as ready is ready.
THEOREM ReadyHolds == StartupSpec => []ReadyIsTrue
<1>1. StartupInv => ReadyIsTrue
  <2> SUFFICES ASSUME StartupInv, NEW i \in Instances
               PROVE  /\ done[i] = Len(Scripts) => schema = Complete
                      /\ "bucket" \in has[i] => bucket
    BY DEF ReadyIsTrue
  <2>1. Prefix(done[i]) \subseteq schema /\ ("bucket" \in has[i] => bucket)
    BY DEF StartupInv, Place
  <2>2. schema \subseteq Complete
    BY DEF StartupInv, StartupTypeOK
  <2>3. done[i] = Len(Scripts) => Prefix(done[i]) = Complete
    BY ScriptNames, Prefixes
  <2> QED BY <2>1, <2>2, <2>3
<1> QED BY <1>1, StartupInvInit, StartupInvStep, PTL DEF StartupSpec

\* However many processes race, one goes on until the schema is complete.
THEOREM WinnersHold == StartupSpec => []RacesLeaveAWinner
<1>1. StartupInv => RacesLeaveAWinner
  BY DEF StartupInv, Won, Leads, RacesLeaveAWinner
<1> QED BY <1>1, StartupInvInit, StartupInvStep, PTL DEF StartupSpec

=============================================================================
