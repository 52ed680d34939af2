--------------------------- MODULE DeploymentProofs ---------------------------
(***************************************************************************)
(* What is proved of a deployment: of the migrations, for any number of    *)
(* files and tables, kills and restarts; of what a tab shows, for any life *)
(* of the heartbeat and any number of checks under way.                    *)
(***************************************************************************)
EXTENDS Deployment, TLAPS

\* A registered file has all its tables; a process has seen every file before
\* its own registered, and the tables of its own file made that are behind it.
SchemaInv ==
  /\ M!TypeOK
  /\ \A f \in registered, n \in 1..Tables : <<f, n>> \in created
  /\ \A p \in Processes : stage[p] = "migrating" =>
       /\ file[p] \in 1..Files
       /\ \A f \in 1..Files : f < file[p] => f \in registered
       /\ \A n \in 1..Tables : n < statement[p] => <<file[p], n>> \in created
  /\ \A p \in Processes : stage[p] = "ready" =>
       \A f \in 1..Files : f \in registered

LEMMA Constants == Files \in Nat /\ Tables \in Nat /\ MaxKills \in Nat
BY DeploymentAssumption DEF M!MigrationsConstants

LEMMA InitSchema == Init => SchemaInv
BY Constants DEF Init, M!Init, SchemaInv, M!TypeOK

\* Going on to file f is sound once all files before it are registered.
LEMMA GoToKeeps ==
  ASSUME SchemaInv, NEW p \in Processes, NEW f \in 1..Files + 1, M!GoTo(p, f),
         created' = created, registered \subseteq registered',
         registered' \subseteq 1..Files,
         \A g \in registered', n \in 1..Tables : <<g, n>> \in created,
         \A g \in 1..Files : g < f => g \in registered'
  PROVE  SchemaInv'
<1>1. M!TypeOK'
  BY Constants DEF SchemaInv, M!TypeOK, M!GoTo, M!SpareKills
<1>2. \A g \in registered', n \in 1..Tables : <<g, n>> \in created'
  OBVIOUS
<1>3. ASSUME NEW q \in Processes, stage'[q] = "migrating"
      PROVE  /\ file'[q] \in 1..Files
             /\ \A g \in 1..Files : g < file'[q] => g \in registered'
             /\ \A n \in 1..Tables : n < statement'[q]
                                       => <<file'[q], n>> \in created'
  <2>1. CASE q = p
    BY <1>3, <2>1, Constants DEF SchemaInv, M!TypeOK, M!GoTo
  <2>2. CASE q # p
    BY <1>3, <2>2 DEF SchemaInv, M!TypeOK, M!GoTo
  <2>3. QED
    BY <2>1, <2>2
<1>4. ASSUME NEW q \in Processes, stage'[q] = "ready"
      PROVE  \A g \in 1..Files : g \in registered'
  <2>1. CASE q = p
    BY <1>4, <2>1, Constants DEF SchemaInv, M!TypeOK, M!GoTo
  <2>2. CASE q # p
    BY <1>4, <2>2 DEF SchemaInv, M!TypeOK, M!GoTo
  <2>3. QED
    BY <2>1, <2>2
<1>5. QED
  BY <1>1, <1>2, <1>3, <1>4 DEF SchemaInv

\* A process that goes down leaves the others what they had.
LEMMA DownKeeps ==
  ASSUME SchemaInv, NEW p \in Processes, M!Down(p),
         kills' \in 0..MaxKills, registered' = registered,
         created \subseteq created', created' \subseteq (1..Files) \X (1..Tables)
  PROVE  SchemaInv'
<1>1. M!TypeOK'
  BY Constants DEF SchemaInv, M!TypeOK, M!Down
<1>2. \A q \in Processes : stage'[q] # "down" =>
        stage'[q] = stage[q] /\ file'[q] = file[q] /\ statement'[q] = statement[q]
  BY DEF SchemaInv, M!TypeOK, M!Down
<1>3. QED
  BY <1>1, <1>2 DEF SchemaInv

LEMMA CheckKeeps ==
  ASSUME SchemaInv, NEW p \in Processes, M!Check(p) PROVE SchemaInv'
<1>1. CASE file[p] \in registered
  <2>1. file[p] + 1 \in 1..Files + 1
    BY Constants DEF SchemaInv, M!Check
  <2>2. \A g \in 1..Files : g < file[p] + 1 => g \in registered'
    BY <1>1, Constants DEF SchemaInv, M!Check
  <2>3. QED
    BY <1>1, <2>1, <2>2, GoToKeeps DEF SchemaInv, M!Check, M!TypeOK
<1>2. CASE file[p] \notin registered
  <2>1. /\ statement' = [statement EXCEPT ![p] = 1]
        /\ UNCHANGED <<created, registered, stage, file, kills>>
    BY <1>2 DEF M!Check
  <2>2. M!TypeOK'
    BY <2>1, Constants DEF SchemaInv, M!TypeOK
  <2>3. \A q \in Processes : statement'[q] = statement[q] \/ statement'[q] = 1
    BY <2>1 DEF SchemaInv, M!TypeOK
  <2>4. QED
    BY <2>1, <2>2, <2>3 DEF SchemaInv
<1>3. QED
  BY <1>1, <1>2

LEMMA CreateTableKeeps ==
  ASSUME SchemaInv, NEW p \in Processes, M!CreateTable(p) PROVE SchemaInv'
<1>1. /\ stage[p] = "migrating" /\ statement[p] \in 1..Tables
      /\ file[p] \in 1..Files
      /\ created' = created \cup {<<file[p], statement[p]>>}
      /\ statement' = [statement EXCEPT ![p] = @ + 1]
      /\ UNCHANGED <<registered, stage, file, kills>>
  BY DEF SchemaInv, M!CreateTable
<1>2. M!TypeOK'
  BY <1>1, Constants DEF SchemaInv, M!TypeOK
<1>3. ASSUME NEW q \in Processes, stage[q] = "migrating", NEW n \in 1..Tables,
             n < statement'[q]
      PROVE  <<file[q], n>> \in created'
  <2>1. CASE q = p
    <3>1. n < statement[p] \/ n = statement[p]
      BY <1>1, <1>3, <2>1, Constants DEF SchemaInv, M!TypeOK
    <3>2. CASE n < statement[p]
      BY <1>1, <2>1, <3>2 DEF SchemaInv
    <3>3. CASE n = statement[p]
      BY <1>1, <2>1, <3>3
    <3>4. QED
      BY <3>1, <3>2, <3>3
  <2>2. CASE q # p
    BY <1>1, <1>3, <2>2 DEF SchemaInv, M!TypeOK
  <2>3. QED
    BY <2>1, <2>2
<1>4. QED
  BY <1>1, <1>2, <1>3 DEF SchemaInv

LEMMA RegisterKeeps ==
  ASSUME SchemaInv, NEW p \in Processes, M!Register(p) PROVE SchemaInv'
<1>1. /\ file[p] \in 1..Files /\ statement[p] = Tables + 1
      /\ registered' = registered \cup {file[p]}
      /\ UNCHANGED created
  BY DEF SchemaInv, M!Register
<1>2. CASE file[p] \in registered
  <2>1. registered' = registered /\ M!Down(p) /\ UNCHANGED kills
    BY <1>1, <1>2 DEF M!Register
  <2>2. QED
    BY <1>1, <2>1, DownKeeps DEF SchemaInv, M!TypeOK
<1>3. CASE file[p] \notin registered
  <2>1. M!GoTo(p, file[p] + 1)
    BY <1>3 DEF M!Register
  <2>2. \A n \in 1..Tables : <<file[p], n>> \in created
    BY <1>1, Constants DEF SchemaInv, M!Register
  <2>3. \A g \in registered', n \in 1..Tables : <<g, n>> \in created
    BY <1>1, <2>2 DEF SchemaInv
  <2>4. \A g \in 1..Files : g < file[p] + 1 => g \in registered'
    BY <1>1, Constants DEF SchemaInv, M!Register
  <2>5. file[p] + 1 \in 1..Files + 1 /\ registered' \subseteq 1..Files
    <3>1. file[p] + 1 \in 1..Files + 1
      BY <1>1, Constants
    <3>2. registered \subseteq 1..Files
      BY DEF SchemaInv, M!TypeOK
    <3>3. QED
      BY <1>1, <3>1, <3>2
  <2>6. QED
    BY <1>1, <2>1, <2>3, <2>4, <2>5, GoToKeeps
<1>4. QED
  BY <1>2, <1>3

LEMMA KillKeeps ==
  ASSUME SchemaInv, NEW p \in Processes, M!Kill(p) PROVE SchemaInv'
<1>1. kills' \in 0..MaxKills
  BY Constants DEF SchemaInv, M!TypeOK, M!Kill
<1>2. created \subseteq created' /\ created' \subseteq (1..Files) \X (1..Tables)
  <2>1. CASE UNCHANGED created
    BY <2>1 DEF SchemaInv, M!TypeOK
  <2>2. ASSUME stage[p] = "migrating", statement[p] > 0,
               NEW last \in statement[p]..Tables,
               created' = created \cup
                 {<<file[p], n>> : n \in statement[p]..last}
        PROVE  created' \subseteq (1..Files) \X (1..Tables)
    <3>1. file[p] \in 1..Files /\ statement[p] \in 0..Tables + 1
      BY <2>2 DEF SchemaInv, M!TypeOK
    <3>2. \A n \in statement[p]..last : n \in 1..Tables
      BY <2>2, <3>1, Constants
    <3>3. QED
      BY <2>2, <3>1, <3>2 DEF SchemaInv, M!TypeOK
  <2>3. QED
    BY <2>1, <2>2 DEF M!Kill
<1>3. M!Down(p) /\ registered' = registered
  BY DEF M!Kill
<1>4. QED
  BY <1>1, <1>2, <1>3, DownKeeps

LEMMA StartKeeps ==
  ASSUME SchemaInv, NEW p \in Processes, M!Start(p) PROVE SchemaInv'
<1>1. 1 \in 1..Files + 1 /\ \A g \in 1..Files : g < 1 => g \in registered'
  BY Constants
<1>2. QED
  BY <1>1, GoToKeeps DEF SchemaInv, M!Start, M!TypeOK

\* Whatever else the deployment does leaves the migrations alone.
LEMMA NextSchema == ASSUME SchemaInv, [Next]_vars PROVE SchemaInv'
<1>1. CASE MigrateStep
  BY <1>1, StartKeeps, CheckKeeps, CreateTableKeeps, RegisterKeeps
  DEF MigrateStep, M!Migrate
<1>2. CASE \E p \in Processes : Kill(p)
  BY <1>2, KillKeeps DEF Kill
<1>3. CASE UNCHANGED migrations
  BY <1>3 DEF SchemaInv, M!TypeOK, migrations
<1>4. QED
  BY <1>1, <1>2, <1>3
  DEF Next, vars, WorkerStep, RedisStep, CheckStep, BrowserEvent, Interval

\* A process past ApplyMigrations has the whole schema under it, for any
\* number of files and tables, although two processes apply them at once, die
\* at any statement and no statement is undone.
THEOREM SchemaReady == Spec => []ReadyMeansMigrated
<1>1. Init => SchemaInv
  BY InitSchema
<1>2. SchemaInv /\ [Next]_vars => SchemaInv'
  BY NextSchema
<1>3. SchemaInv => ReadyMeansMigrated
  <2> SUFFICES ASSUME SchemaInv, NEW p \in Processes, stage[p] = "ready"
               PROVE  /\ registered = 1..Files
                      /\ created = (1..Files) \X (1..Tables)
    BY DEF ReadyMeansMigrated, M!ReadyMeansMigrated
  <2>1. registered = 1..Files
    BY DEF SchemaInv, M!TypeOK
  <2>2. QED
    BY <2>1 DEF SchemaInv, M!TypeOK
<1>4. QED
  BY <1>1, <1>2, <1>3, PTL DEF Spec

-----------------------------------------------------------------------------
(* The heartbeat, the tab and its checks *)

Flags ==
  /\ due \in BOOLEAN /\ redis \in BOOLEAN
  /\ unrendered \in BOOLEAN /\ visible \in BOOLEAN /\ onLine \in BOOLEAN

CheckType == [state : {"none", "sent", "lost"} \cup W!WorkerStatus, outlived : BOOLEAN]
ShownType == [status : {"checking", "online", "offline"},
              worker : {"checking"} \cup W!WorkerStatus]

Types ==
  /\ worker \in {"down", "dialing", "waiting", "batch"}
  /\ busy \in 0..MaxBatch /\ age \in 0..H!Gone /\ calm \in 0..WorkerSettles
  /\ shown \in ShownType
  /\ checks \in [Checks -> CheckType]

WorkerTruth ==
  IF ~onLine \/ ~APIReady \/ ~redis THEN "unknown"
  ELSE IF H!Running THEN "online" ELSE "offline"

StatusTruth ==
  /\ ~onLine \/ ~APIReady => shown = W!OfflineState
  /\ onLine /\ APIReady /\ redis => shown.status = "online"
  /\ ~redis => shown.worker = "unknown"

\* What holds however recent the last disturbance is: the tab never stops
\* checking.
AlwaysInv ==
  /\ worker # "batch" \/ ~due => busy = 0
  /\ unrendered \/ (onLine /\ \E c \in Checks : checks[c] # W!None)

\* In a batch the heartbeat is as old as the batch, unless the batch is older
\* than the last disturbance; between two batches it is younger than TTL.  The
\* heartbeat of a worker that is gone grows old with the calm.  (One that lived
\* for a single interval would expire between two batches.)
BeatInv ==
  /\ calm > 0 => busy < TTL
  /\ 2 <= TTL /\ redis =>
       /\ worker = "batch" => age <= busy \/ calm <= busy
       /\ worker = "waiting" /\ due => age < TTL \/ calm < TTL
       /\ worker = "waiting" /\ ~due => age = 0 \/ calm = 0
  /\ ~H!Running => age >= calm \/ age = H!Gone

\* A request that is under way was made after n intervals of the calm.
Since(n, check) == check # W!None /\ (calm > n \/ (calm = n /\ ~check.outlived))

\* One made after an interval of the calm is not lost, and the API answers it;
\* one made after TTL + 1 is told the truth about the worker.
Sound(check) ==
  /\ Since(1, check) =>
       /\ onLine /\ check.state # "lost"
       /\ check.state \in W!WorkerStatus =>
            APIReady /\ (~redis => check.state = "unknown")
  /\ 2 <= TTL /\ Since(TTL + 1, check) /\ check.state \in W!WorkerStatus =>
       check.state = WorkerTruth

CheckInv == \A c \in Checks : Sound(checks[c])

\* A request of the interval before is still to be over.
Pending == \E c \in Checks : checks[c].outlived

ShownInv ==
  /\ calm >= 2 => (calm = 2 /\ Pending) \/ StatusTruth
  /\ 2 <= TTL /\ calm >= TTL + 2 =>
       (calm = TTL + 2 /\ Pending) \/ shown.worker = WorkerTruth

TabInv == Types /\ AlwaysInv /\ BeatInv /\ CheckInv /\ ShownInv

LEMMA TabConstants == TTL \in Nat \ {0} /\ MaxBatch \in Nat /\ WorkerSettles \in Nat
BY DeploymentAssumption DEF H!HeartbeatConstants

LEMMA CheckTypes ==
  /\ W!None \in CheckType /\ W!Sent \in CheckType /\ W!OfflineState \in ShownType
  /\ W!None.state = "none" /\ ~W!None.outlived
  /\ W!Sent.state = "sent" /\ ~W!Sent.outlived /\ W!Sent # W!None
BY DEF CheckType, ShownType, W!None, W!Sent, W!OfflineState, W!WorkerStatus

\* After a disturbance nothing else is known.
LEMMA DisturbedKeeps ==
  ASSUME Types', AlwaysInv', calm' = 0
  PROVE  TabInv'
<1>1. BeatInv'
  BY TabConstants DEF BeatInv, Types, H!Running, H!Gone
<1>2. CheckInv' /\ ShownInv'
  BY TabConstants DEF CheckInv, Sound, Since, ShownInv
<1>3. QED
  BY <1>1, <1>2 DEF TabInv

LEMMA InitTab == Init => TabInv
<1> SUFFICES ASSUME Init PROVE TabInv
  OBVIOUS
<1>1. calm = 0 /\ calm \in 0..WorkerSettles
  BY TabConstants DEF Init
<1>2. Types
  <2>1. worker \in {"down"} /\ busy \in 0..MaxBatch /\ age \in 0..H!Gone
    BY TabConstants DEF Init, H!Init, H!Gone
  <2>2. checks \in [Checks -> CheckType] /\ shown \in ShownType
    BY CheckTypes DEF Init, W!Init, ShownType
  <2>3. QED
    BY <1>1, <2>1, <2>2 DEF Types
<1>3. AlwaysInv
  BY DEF Init, H!Init, W!Init, AlwaysInv
<1>4. BeatInv
  BY <1>1, TabConstants DEF Init, H!Init, BeatInv, H!Running, H!Gone
<1>5. CheckInv /\ ShownInv
  BY <1>1, TabConstants DEF CheckInv, Sound, Since, ShownInv
<1>6. QED
  BY <1>2, <1>3, <1>4, <1>5 DEF TabInv

LEMMA MigrateTab == ASSUME TabInv, MigrateStep PROVE TabInv'
<1>1. UNCHANGED <<heartbeat, tab>> /\ calm' = 0
  BY DEF MigrateStep, Disturbed
<1>2. Types' /\ AlwaysInv'
  BY <1>1, TabConstants DEF TabInv, heartbeat, tab, Types, AlwaysInv, H!Gone
<1>3. QED
  BY <1>1, <1>2, DisturbedKeeps

LEMMA KillTab ==
  ASSUME TabInv, NEW p \in Processes, Kill(p) PROVE TabInv'
<1>1. calm' = 0 /\ UNCHANGED <<shown, unrendered, visible, onLine>>
  BY DEF Kill, Disturbed
<1>2. CASE p = "worker"
  <2>1. Types' /\ AlwaysInv'
    BY <1>1, <1>2, TabConstants DEF TabInv, Kill, H!Die, Types, AlwaysInv, H!Gone
  <2>2. QED
    BY <1>1, <2>1, DisturbedKeeps
<1>3. CASE p # "worker"
  <2>1. W!Lose /\ UNCHANGED heartbeat
    BY <1>3 DEF Kill
  <2>2. /\ checks' \in [Checks -> CheckType]
        /\ \A c \in Checks : checks[c] # W!None => checks'[c] # W!None
    BY <2>1, CheckTypes DEF TabInv, Types, CheckType, W!Lose
  <2>3. Types' /\ AlwaysInv'
    BY <1>1, <2>1, <2>2, TabConstants DEF TabInv, heartbeat, Types, AlwaysInv, H!Gone
  <2>4. QED
    BY <1>1, <2>3, DisturbedKeeps
<1>4. QED
  BY <1>2, <1>3

\* What the worker and Redis do to the heartbeat leaves the tab alone.
LEMMA TabFrame ==
  ASSUME TabInv, UNCHANGED <<migrations, tab, redis, calm>>, H!Running' = H!Running,
         worker' \in {"down", "dialing", "waiting", "batch"},
         busy' \in 0..MaxBatch, age' \in 0..H!Gone,
         worker' # "batch" \/ ~due' => busy' = 0,
         BeatInv'
  PROVE  TabInv'
<1>1. Types' /\ AlwaysInv'
  BY TabConstants DEF TabInv, tab, Types, AlwaysInv, H!Gone
<1>2. WorkerTruth' = WorkerTruth /\ APIReady' = APIReady
  BY DEF WorkerTruth, APIReady, migrations, tab
<1>3. CheckInv'
  BY <1>2 DEF TabInv, tab, CheckInv, Sound, Since
<1>4. ShownInv'
  BY <1>2 DEF TabInv, tab, ShownInv, Pending, StatusTruth
<1>5. QED
  BY <1>1, <1>3, <1>4 DEF TabInv

LEMMA WorkerTab == ASSUME TabInv, WorkerStep PROVE TabInv'
<1>1. UNCHANGED <<migrations, tab>>
  BY DEF WorkerStep
<1>2. ASSUME calm' = 0, H!Launch \/ (\E ok \in BOOLEAN : H!Connect(ok)) \/ H!StartBatch(FALSE)
      PROVE  TabInv'
  <2>1. worker' \in {"dialing", "waiting", "batch"} /\ busy' = busy /\ busy = 0
        /\ age' \in 0..H!Gone
    BY <1>2, TabConstants
    DEF H!Launch, H!Connect, H!StartBatch, H!Record, TabInv, Types, AlwaysInv, H!Gone
  <2>2. Types' /\ AlwaysInv'
    BY <1>1, <1>2, <2>1, TabConstants DEF TabInv, tab, Types, AlwaysInv
  <2>3. QED
    BY <1>2, <2>2, DisturbedKeeps
<1>3. ASSUME UNCHANGED calm, H!StartBatch(TRUE) PROVE TabInv'
  <2>1. /\ worker' = "batch" /\ busy' = 0 /\ busy = 0 /\ age' \in 0..H!Gone
        /\ UNCHANGED redis /\ H!Running' = H!Running
    BY <1>3, TabConstants
    DEF TabInv, Types, AlwaysInv, H!StartBatch, H!Record, H!Running, H!Gone
  <2>2. BeatInv'
    BY <1>3, TabConstants
    DEF TabInv, Types, AlwaysInv, BeatInv, H!StartBatch, H!Record, H!Running, H!Gone
  <2>3. QED
    BY <1>1, <1>3, <2>1, <2>2, TabFrame DEF TabInv, Types
<1>4. ASSUME UNCHANGED calm, H!EndBatch PROVE TabInv'
  <2>1. /\ worker' = "waiting" /\ busy' = 0 /\ UNCHANGED <<age, redis>>
        /\ H!Running' = H!Running
    BY <1>4 DEF H!EndBatch, H!Running
  <2>2. BeatInv'
    BY <1>4, TabConstants
    DEF TabInv, Types, AlwaysInv, BeatInv, H!EndBatch, H!Running, H!Gone
  <2>3. QED
    BY <1>1, <1>4, <2>1, <2>2, TabConstants, TabFrame DEF TabInv, Types
<1>5. QED
  BY <1>2, <1>3, <1>4 DEF WorkerStep, Disturbed

LEMMA RedisTab == ASSUME TabInv, RedisStep PROVE TabInv'
<1>1. UNCHANGED <<migrations, tab>>
  BY DEF RedisStep
<1>2. ASSUME UNCHANGED calm, H!Expire PROVE TabInv'
  <2>1. /\ UNCHANGED <<worker, due, busy, redis>> /\ age' \in 0..H!Gone
        /\ H!Running' = H!Running
    BY <1>2, TabConstants DEF H!Expire, H!Running, H!Gone
  <2>2. BeatInv'
    BY <1>2, TabConstants
    DEF TabInv, Types, AlwaysInv, BeatInv, H!Expire, H!Running, H!Gone
  <2>3. QED
    BY <1>1, <1>2, <2>1, <2>2, TabFrame DEF TabInv, Types, AlwaysInv
<1>3. ASSUME calm' = 0, H!RedisStops \/ H!RedisStarts PROVE TabInv'
  <2>1. Types' /\ AlwaysInv'
    BY <1>1, <1>3, TabConstants
    DEF TabInv, tab, Types, AlwaysInv, H!RedisStops, H!RedisStarts, H!Gone
  <2>2. QED
    BY <1>3, <2>1, DisturbedKeeps
<1>4. QED
  BY <1>2, <1>3 DEF RedisStep, Disturbed

\* What the health endpoint says of the worker once the calm has outlasted a
\* heartbeat.
LEMMA SnapshotIsTrue ==
  ASSUME TabInv, onLine, APIReady, ~redis \/ (2 <= TTL /\ calm > TTL)
  PROVE  H!Snapshot = WorkerTruth
BY TabConstants
DEF TabInv, Types, BeatInv, H!Snapshot, WorkerTruth, H!Running, H!Gone

\* What the tab does in a calm: the rest of the deployment stays as it is.
LEMMA CalmFrame ==
  ASSUME TabInv, UNCHANGED <<migrations, heartbeat, onLine, calm>>,
         shown' \in ShownType, checks' \in [Checks -> CheckType],
         unrendered' \/ (onLine /\ \E c \in Checks : checks'[c] # W!None),
         CheckInv', ShownInv'
  PROVE  TabInv'
BY DEF TabInv, heartbeat, Types, AlwaysInv, BeatInv, H!Running, H!Gone

\* Whatever the calm, a check is sound whose request is new.
LEMMA SentIsSound ==
  ASSUME TabInv, NEW c \in Checks, onLine, UNCHANGED <<migrations, heartbeat, onLine, calm>>,
         checks' = [checks EXCEPT ![c] = W!Sent]
  PROVE  CheckInv'
<1>1. checks'[c] = W!Sent /\ \A d \in Checks : d # c => checks'[d] = checks[d]
  BY DEF TabInv, Types
<1>2. WorkerTruth' = WorkerTruth /\ APIReady' = APIReady
  BY DEF WorkerTruth, APIReady, H!Running, heartbeat, migrations
<1>3. W!Sent.state \notin W!WorkerStatus /\ W!Sent.state # "lost"
  BY CheckTypes DEF W!WorkerStatus
<1>4. ASSUME NEW d \in Checks PROVE Sound(checks[d])'
  <2>1. CASE d = c
    BY <1>1, <1>3, <2>1 DEF Sound, Since
  <2>2. CASE d # c
    BY <1>1, <1>2, <2>2 DEF TabInv, CheckInv, Sound, Since, heartbeat
  <2>3. QED
    BY <2>1, <2>2
<1>5. QED
  BY <1>4 DEF CheckInv

\* A check that the tab makes, calmly.
LEMMA CheckTab ==
  ASSUME TabInv, NEW c \in Checks, NEW STATE rerun, W!CheckWorkspaceStatus(c, rerun),
         UNCHANGED <<migrations, heartbeat, onLine, calm>>
  PROVE  TabInv'
<1>1. WorkerTruth' = WorkerTruth /\ APIReady' = APIReady
  BY DEF WorkerTruth, APIReady, H!Running, heartbeat, migrations
<1>2. CASE onLine
  <2>1. /\ checks[c] = W!None
        /\ checks' = [checks EXCEPT ![c] = W!Sent] /\ UNCHANGED shown
    BY <1>2 DEF W!CheckWorkspaceStatus
  <2>2. /\ checks' \in [Checks -> CheckType] /\ checks'[c] # W!None
        /\ \A d \in Checks : checks'[d].outlived <=> checks[d].outlived
    BY <2>1, CheckTypes DEF TabInv, Types
  <2>3. CheckInv'
    BY <1>2, <2>1, SentIsSound
  <2>4. Pending' <=> Pending
    BY <2>2 DEF Pending
  <2>5. ShownInv'
    BY <1>1, <2>1, <2>4 DEF TabInv, ShownInv, StatusTruth, heartbeat
  <2>6. QED
    BY <1>2, <2>1, <2>2, <2>3, <2>5, CalmFrame DEF TabInv, Types
<1>3. CASE ~onLine
  <2>1. shown' = W!OfflineState /\ unrendered' = TRUE /\ UNCHANGED checks
    BY <1>3 DEF W!CheckWorkspaceStatus, W!SetSnapshot
  <2>2. CheckInv'
    BY <1>1, <2>1 DEF TabInv, CheckInv, Sound, Since, heartbeat
  <2>3. StatusTruth' /\ shown'.worker = WorkerTruth'
    BY <1>3, <2>1 DEF StatusTruth, WorkerTruth, W!OfflineState
  <2>4. ShownInv'
    BY <2>3 DEF ShownInv
  <2>5. QED
    BY <2>1, <2>2, <2>4, CalmFrame, CheckTypes DEF TabInv, Types
<1>4. QED
  BY <1>2, <1>3

LEMMA AnswerTab ==
  ASSUME TabInv, NEW c \in Checks,
         APIReady, W!Answer(c, H!Snapshot),
         UNCHANGED <<migrations, heartbeat, calm>>
  PROVE  TabInv'
<1> DEFINE s == H!Snapshot
<1>1. /\ checks[c].state = "sent"
      /\ checks' = [checks EXCEPT ![c].state = s]
      /\ UNCHANGED <<shown, unrendered, visible, onLine>>
  BY DEF W!Answer
<1>2. s \in W!WorkerStatus /\ (~redis => s = "unknown")
  BY DEF H!Snapshot, W!WorkerStatus
<1>3. onLine /\ (~redis \/ (2 <= TTL /\ calm > TTL)) => s = WorkerTruth
  BY SnapshotIsTrue
<1> HIDE DEF s
<1>4. /\ checks'[c].state = s /\ (checks'[c].outlived <=> checks[c].outlived)
      /\ \A d \in Checks : d # c => checks'[d] = checks[d]
      /\ checks' \in [Checks -> CheckType]
  BY <1>1, <1>2 DEF TabInv, Types, CheckType
<1>5. WorkerTruth' = WorkerTruth /\ APIReady' = APIReady
  BY <1>1 DEF WorkerTruth, APIReady, H!Running, heartbeat, migrations
<1>6. checks[c] # W!None /\ checks'[c] # W!None /\ s # "lost"
  BY <1>1, <1>2, <1>4, CheckTypes DEF W!WorkerStatus
<1>7. Since(1, checks[c]) => onLine
  BY DEF TabInv, CheckInv, Sound
<1>8. ASSUME NEW n \in Nat, Since(n, checks[c])' PROVE Since(n, checks[c])
  BY <1>4, <1>6, <1>8 DEF Since
<1>9. CheckInv'
  <2>1. Since(TTL + 1, checks[c]) => Since(1, checks[c]) /\ calm > TTL
    BY TabConstants DEF Since, TabInv, Types
  <2>2. Sound(checks[c])'
    BY <1>1, <1>2, <1>3, <1>4, <1>5, <1>6, <1>7, <1>8, <2>1, TabConstants DEF Sound, heartbeat
  <2>3. \A d \in Checks : d # c => Sound(checks[d])'
    BY <1>1, <1>4, <1>5 DEF TabInv, CheckInv, Sound, Since, heartbeat
  <2>4. QED
    BY <2>2, <2>3 DEF CheckInv
<1>10. Pending' <=> Pending
  BY <1>4 DEF Pending
<1>11. ShownInv'
  BY <1>1, <1>5, <1>10 DEF TabInv, ShownInv, StatusTruth, heartbeat
<1>12. unrendered' \/ (onLine /\ \E d \in Checks : checks'[d] # W!None)
  BY <1>1, <1>6 DEF TabInv, AlwaysInv
<1>13. QED
  BY <1>1, <1>4, <1>9, <1>11, <1>12, CalmFrame DEF TabInv, Types

\* A check that is over, with what it leaves shown.
LEMMA ResolveTab ==
  ASSUME TabInv, NEW c \in Checks, W!Resolve(c), unrendered',
         UNCHANGED <<migrations, heartbeat, onLine, calm>>, shown' \in ShownType,
         calm >= 2 => StatusTruth',
         2 <= TTL /\ calm >= TTL + 2 => shown'.worker = WorkerTruth
  PROVE  TabInv'
<1>1. /\ checks'[c] = W!None /\ \A d \in Checks : d # c => checks'[d] = checks[d]
      /\ checks' \in [Checks -> CheckType]
  BY CheckTypes DEF TabInv, Types, W!Resolve
<1>2. WorkerTruth' = WorkerTruth /\ APIReady' = APIReady
  BY DEF WorkerTruth, APIReady, H!Running, heartbeat, migrations
<1>3. Sound(checks[c])'
  BY <1>1 DEF Sound, Since
<1>4. \A d \in Checks : d # c => Sound(checks[d])'
  BY <1>1, <1>2 DEF TabInv, CheckInv, Sound, Since, heartbeat
<1>5. CheckInv'
  BY <1>3, <1>4 DEF CheckInv
<1>6. ShownInv'
  BY <1>2 DEF ShownInv
<1>7. QED
  BY <1>1, <1>5, <1>6, CalmFrame

\* One that is over after a disturbance.
LEMMA ResolveDisturbed ==
  ASSUME TabInv, NEW c \in Checks, W!Resolve(c), unrendered', shown' \in ShownType,
         UNCHANGED heartbeat, calm' = 0
  PROVE  TabInv'
<1>1. checks' \in [Checks -> CheckType]
  BY CheckTypes DEF TabInv, Types, W!Resolve
<1>2. Types' /\ AlwaysInv'
  BY <1>1, TabConstants DEF TabInv, Types, AlwaysInv, heartbeat, H!Gone
<1>3. QED
  BY <1>2, DisturbedKeeps

LEMMA DeliverTab ==
  ASSUME TabInv, NEW c \in Checks, W!Deliver(c),
         UNCHANGED <<migrations, heartbeat, calm>>
  PROVE  TabInv'
<1>1. /\ checks[c].state \in W!WorkerStatus /\ W!Resolve(c)
      /\ shown' = [status |-> "online", worker |-> checks[c].state]
      /\ unrendered' /\ UNCHANGED <<visible, onLine>>
  BY DEF W!Deliver, W!SetSnapshot
<1>2. checks[c] # W!None /\ calm \in Nat
  BY <1>1, CheckTypes DEF W!WorkerStatus, TabInv, Types
<1>3. Sound(checks[c])
  BY DEF TabInv, CheckInv
<1>4. calm >= 2 => StatusTruth'
  <2>1. calm >= 2 => Since(1, checks[c])
    BY <1>2 DEF Since
  <2>2. calm >= 2 => onLine /\ APIReady /\ (~redis => checks[c].state = "unknown")
    BY <1>1, <1>3, <2>1 DEF Sound
  <2>3. QED
    BY <1>1, <2>2 DEF StatusTruth, APIReady, heartbeat, migrations
<1>5. 2 <= TTL /\ calm >= TTL + 2 => shown'.worker = WorkerTruth
  BY <1>1, <1>2, <1>3, TabConstants DEF Sound, Since
<1>6. shown' \in ShownType
  BY <1>1 DEF ShownType, W!WorkerStatus
<1>7. QED
  BY <1>1, <1>4, <1>5, <1>6, ResolveTab

LEMMA DeliverHeaderTab ==
  ASSUME TabInv, NEW c \in Checks, W!DeliverHeader(c), Disturbed,
         UNCHANGED <<migrations, heartbeat>>
  PROVE  TabInv'
<1>1. W!Resolve(c) /\ unrendered' /\ shown' = [status |-> "online", worker |-> "unknown"]
  BY DEF W!DeliverHeader, W!SetSnapshot
<1>2. shown' \in ShownType
  BY <1>1 DEF ShownType, W!WorkerStatus
<1>3. QED
  BY <1>1, <1>2, ResolveDisturbed DEF Disturbed

LEMMA FailsTab ==
  ASSUME TabInv, NEW c \in Checks, W!Fails(c),
         UNCHANGED <<migrations, heartbeat>>,
         IF checks[c].state = "sent" /\ onLine /\ APIReady /\ redis
         THEN Disturbed ELSE UNCHANGED calm
  PROVE  TabInv'
<1>1. /\ checks[c].state \in {"sent", "lost"} /\ W!Resolve(c)
      /\ shown' = W!OfflineState /\ unrendered'
      /\ UNCHANGED <<visible, onLine>>
  BY DEF W!Fails, W!SetSnapshot
<1>2. shown' \in ShownType
  BY <1>1, CheckTypes
<1>3. CASE UNCHANGED calm /\ ~(checks[c].state = "sent" /\ onLine /\ APIReady /\ redis)
  <2>1. checks[c] # W!None /\ calm \in Nat
    BY <1>1, CheckTypes DEF TabInv, Types
  <2>2. calm >= 2 => checks[c].state # "lost"
    BY <2>1 DEF TabInv, CheckInv, Sound, Since
  <2>3. calm >= 2 => ~onLine \/ ~APIReady \/ ~redis
    BY <1>1, <1>3, <2>2
  <2>4. calm >= 2 => StatusTruth' /\ shown'.worker = WorkerTruth
    BY <1>1, <2>3
    DEF StatusTruth, WorkerTruth, APIReady, heartbeat, migrations, W!OfflineState
  <2>5. QED
    BY <1>1, <1>2, <1>3, <2>1, <2>4, TabConstants, ResolveTab
<1>4. CASE calm' = 0
  BY <1>1, <1>2, <1>4, ResolveDisturbed
<1>5. QED
  BY <1>3, <1>4 DEF Disturbed

LEMMA CheckStepTab == ASSUME TabInv, CheckStep PROVE TabInv'
<1>1. ASSUME NEW c \in Checks, W!RunEffect(c) \/ W!Poll(c),
             UNCHANGED <<migrations, heartbeat, calm>>
      PROVE  TabInv'
  BY <1>1, CheckTab DEF W!RunEffect, W!Poll
<1>2. QED
  BY <1>1, AnswerTab, DeliverTab, DeliverHeaderTab, FailsTab DEF CheckStep

LEMMA BrowserTab == ASSUME TabInv, BrowserEvent PROVE TabInv'
<1>1. UNCHANGED <<migrations, heartbeat>>
  BY DEF BrowserEvent
<1>2. ASSUME W!Hide \/ W!Translate, UNCHANGED calm PROVE TabInv'
  <2>1. UNCHANGED <<shown, onLine, checks>> /\ (unrendered' \/ unrendered' = unrendered)
    BY <1>2 DEF W!Hide, W!Translate
  <2>2. WorkerTruth' = WorkerTruth /\ APIReady' = APIReady
    BY <1>1, <2>1 DEF WorkerTruth, APIReady, H!Running, heartbeat, migrations
  <2>3. CheckInv' /\ ShownInv'
    BY <1>1, <1>2, <2>1, <2>2
    DEF TabInv, CheckInv, Sound, Since, ShownInv, Pending, StatusTruth, heartbeat
  <2>4. unrendered' \/ (onLine /\ \E c \in Checks : checks'[c] # W!None)
    BY <2>1 DEF TabInv, AlwaysInv
  <2>5. QED
    BY <1>1, <1>2, <2>1, <2>3, <2>4, CalmFrame DEF TabInv, Types
<1>3. ASSUME NEW c \in Checks, W!Show(c), UNCHANGED calm PROVE TabInv'
  BY <1>1, <1>3, CheckTab DEF W!Show
<1>4. CASE W!GoOffline /\ Disturbed
  <2>1. /\ shown' = W!OfflineState /\ unrendered' /\ UNCHANGED checks /\ calm' = 0
    BY <1>4 DEF W!GoOffline, W!SetSnapshot, Disturbed
  <2>2. Types' /\ AlwaysInv'
    BY <1>1, <2>1, CheckTypes, TabConstants
    DEF TabInv, heartbeat, Types, AlwaysInv, H!Gone
  <2>3. QED
    BY <2>1, <2>2, DisturbedKeeps
<1>5. ASSUME NEW c \in Checks, W!GoOnline(c), Disturbed PROVE TabInv'
  <2>1. onLine' /\ calm' = 0 /\ checks' = [checks EXCEPT ![c] = W!Sent] /\ UNCHANGED shown
    BY <1>5 DEF W!GoOnline, W!CheckWorkspaceStatus, Disturbed
  <2>2. checks' \in [Checks -> CheckType] /\ checks'[c] # W!None
    BY <2>1, CheckTypes DEF TabInv, Types
  <2>3. Types' /\ AlwaysInv'
    BY <1>1, <2>1, <2>2, TabConstants DEF TabInv, heartbeat, Types, AlwaysInv, H!Gone
  <2>4. QED
    BY <2>1, <2>3, DisturbedKeeps
<1>6. QED
  BY <1>2, <1>3, <1>4, <1>5 DEF BrowserEvent

LEMMA IntervalTab == ASSUME TabInv, Interval PROVE TabInv'
<1>1. /\ UNCHANGED <<migrations, shown, unrendered, visible, onLine, worker, redis>>
      /\ ~(worker = "waiting" /\ due)
      /\ busy' = IF worker = "batch" THEN busy + 1 ELSE 0
      /\ age' = IF age >= TTL THEN H!Gone ELSE age + 1
      /\ busy < MaxBatch
  BY DEF Interval, H!Pass, W!Pass
<1>2. due' <=> H!Running
  BY DEF Interval, H!Pass
<1>3. /\ visible => /\ \A c \in Checks : ~checks[c].outlived
                    /\ IF onLine THEN ~unrendered ELSE shown = W!OfflineState
      /\ checks' = [c \in Checks |-> IF checks[c] = W!None THEN W!None
                                     ELSE [checks[c] EXCEPT !.outlived = TRUE]]
  BY DEF Interval, W!Pass
<1>4. /\ checks' \in [Checks -> CheckType]
      /\ \A c \in Checks : /\ checks[c] = W!None => checks'[c] = W!None
                           /\ checks[c] # W!None =>
                                /\ checks'[c] # W!None /\ checks'[c].outlived
                                /\ checks'[c].state = checks[c].state
  <2>1. ASSUME NEW c \in Checks, checks[c] # W!None
        PROVE  /\ [checks[c] EXCEPT !.outlived = TRUE] \in CheckType
               /\ [checks[c] EXCEPT !.outlived = TRUE] # W!None
               /\ [checks[c] EXCEPT !.outlived = TRUE].outlived
               /\ [checks[c] EXCEPT !.outlived = TRUE].state = checks[c].state
    BY CheckTypes DEF TabInv, Types, CheckType
  <2>2. QED
    BY <1>3, <2>1, CheckTypes
<1>5. /\ busy' \in 0..MaxBatch /\ age' \in 0..H!Gone /\ calm' \in 0..WorkerSettles
      /\ calm' \in {0, calm, calm + 1} /\ (calm' > 0 => busy' < TTL /\ visible)
      /\ calm' = calm => calm = 0 \/ calm = WorkerSettles
  BY <1>1, TabConstants DEF Interval, TabInv, Types, H!Gone
<1>6. Types'
  BY <1>1, <1>4, <1>5, TabConstants DEF TabInv, Types, H!Gone
<1>7. AlwaysInv'
  <2>1. worker' # "batch" \/ ~due' => busy' = 0
    BY <1>1, <1>2 DEF H!Running
  <2>2. QED
    BY <1>1, <1>4, <2>1 DEF TabInv, AlwaysInv
<1>8. CASE calm' = 0
  BY <1>6, <1>7, <1>8, DisturbedKeeps
<1>9. CASE calm' # 0
  <2>1. BeatInv'
    BY <1>1, <1>2, <1>5, <1>9, TabConstants
    DEF TabInv, Types, AlwaysInv, BeatInv, H!Running, H!Gone
  <2>2. visible /\ calm \in Nat /\ calm' \in {calm, calm + 1}
    BY <1>5, <1>9, TabConstants DEF TabInv, Types
  <2>3. WorkerTruth' = WorkerTruth /\ APIReady' = APIReady
    BY <1>1 DEF WorkerTruth, APIReady, H!Running, migrations
  <2>4. ASSUME NEW c \in Checks, NEW n \in Nat, Since(n, checks[c])'
        PROVE  Since(n, checks[c]) /\ checks'[c].state = checks[c].state
    BY <1>3, <1>4, <2>2, <2>4 DEF Since
  <2>5. CheckInv'
    <3>1. ASSUME NEW c \in Checks PROVE Sound(checks[c])'
      <4>1. \A n \in {1, TTL + 1} : Since(n, checks[c])' =>
              Since(n, checks[c]) /\ checks'[c].state = checks[c].state
        BY <2>4, TabConstants
      <4>2. Sound(checks[c])
        BY DEF TabInv, CheckInv
      <4>3. QED
        BY <1>1, <2>3, <4>1, <4>2 DEF Sound
    <3>2. QED
      BY <3>1 DEF CheckInv
  <2>6. onLine => Pending'
    BY <1>1, <1>3, <1>4, <2>2 DEF TabInv, AlwaysInv, Pending
  <2>7. ~onLine => StatusTruth /\ shown.worker = WorkerTruth
    BY <1>3, <2>2 DEF StatusTruth, WorkerTruth, W!OfflineState
  <2>8. ~Pending
    BY <1>3, <2>2 DEF Pending
  <2>9. ShownInv'
    <3>1. calm' >= 2 => (calm' = 2 /\ Pending') \/ StatusTruth
      BY <2>2, <2>6, <2>7, <2>8 DEF TabInv, ShownInv
    <3>2. 2 <= TTL /\ calm' >= TTL + 2 =>
            (calm' = TTL + 2 /\ Pending') \/ shown.worker = WorkerTruth
      BY <2>2, <2>6, <2>7, <2>8, TabConstants DEF TabInv, ShownInv
    <3>3. StatusTruth' = StatusTruth
      BY <1>1, <2>3 DEF StatusTruth
    <3>4. QED
      BY <1>1, <2>3, <3>1, <3>2, <3>3 DEF ShownInv
  <2>10. QED
    BY <1>6, <1>7, <2>1, <2>5, <2>9 DEF TabInv
<1>10. QED
  BY <1>8, <1>9


LEMMA NextTab == ASSUME TabInv, [Next]_vars PROVE TabInv'
<1>1. CASE UNCHANGED vars
  <2>1. UNCHANGED <<migrations, heartbeat, tab, calm>>
    BY <1>1 DEF vars
  <2>2. BeatInv' /\ H!Running' = H!Running
    BY <2>1 DEF TabInv, BeatInv, H!Running, H!Gone, heartbeat
  <2>3. QED
    BY <2>1, <2>2, TabFrame DEF TabInv, Types, AlwaysInv, heartbeat
<1>2. QED
  BY <1>1, MigrateTab, KillTab, WorkerTab, RedisTab, CheckStepTab, BrowserTab,
     IntervalTab
  DEF Next

LEMMA TabInvariance == Spec => []TabInv
<1>1. TabInv /\ [Next]_vars => TabInv'
  BY NextTab
<1>2. QED
  BY <1>1, InitTab, PTL DEF Spec

LEMMA FlagsInvariance == Spec => []Flags
<1>1. Init => Flags
  BY Zenon DEF Init, H!Init, W!Init, Flags
<1>2. ASSUME Flags, [Next]_vars PROVE Flags'
  <2>1. CASE UNCHANGED <<due, redis, unrendered, visible, onLine>>
    BY <1>2, <2>1 DEF Flags
  <2>2. CASE \E p \in Processes : Kill(p)
    BY <1>2, <2>2, Zenon DEF Flags, Kill, H!Die, heartbeat
  <2>3. CASE WorkerStep
    BY <1>2, <2>3, Zenon
    DEF Flags, WorkerStep, tab, H!Launch, H!Connect, H!StartBatch, H!EndBatch
  <2>4. CASE RedisStep
    BY <1>2, <2>4, Zenon DEF Flags, RedisStep, tab, H!Expire, H!RedisStops, H!RedisStarts
  <2>5. CASE CheckStep
    BY <1>2, <2>5, Zenon
    DEF Flags, CheckStep, heartbeat, W!RunEffect, W!Poll, W!CheckWorkspaceStatus,
        W!SetSnapshot, W!Answer, W!Deliver, W!DeliverHeader, W!Fails
  <2>6. CASE BrowserEvent
    BY <1>2, <2>6, Zenon
    DEF Flags, BrowserEvent, heartbeat, W!Hide, W!GoOffline, W!Show, W!GoOnline,
        W!Translate, W!CheckWorkspaceStatus, W!SetSnapshot
  <2>7. CASE Interval
    <3>1. due' = H!Running /\ UNCHANGED <<redis, unrendered, visible, onLine>>
      BY <2>7 DEF Interval, H!Pass, W!Pass
    <3>2. H!Running \in BOOLEAN
      BY DEF H!Running
    <3>3. QED
      BY <1>2, <3>1, <3>2, Zenon DEF Flags
  <2>8. QED
    BY <1>2, <2>1, <2>2, <2>3, <2>4, <2>5, <2>6, <2>7
    DEF Next, vars, MigrateStep, heartbeat, tab
<1>3. QED
  BY <1>1, <1>2, PTL DEF Spec

\* Every variable has its type, in any deployment.
THEOREM TypeCorrect == Spec => []TypeOK
<1>1. SchemaInv /\ TabInv /\ Flags => TypeOK
  <2>1. Types /\ Flags => H!TypeOK /\ W!TypeOK /\ calm \in 0..WorkerSettles
    BY DEF Types, CheckType, ShownType, Flags, H!TypeOK, W!TypeOK
  <2>2. QED
    BY <2>1 DEF SchemaInv, TabInv, TypeOK
<1>2. Init => SchemaInv
  BY InitSchema
<1>3. SchemaInv /\ [Next]_vars => SchemaInv'
  BY NextSchema
<1>4. QED
  BY <1>1, <1>2, <1>3, TabInvariance, FlagsInvariance, PTL DEF Spec

\* A tab that has been visible for three calm intervals shows whether the API
\* can be reached, for any number of checks under way and whatever order they
\* are answered in.
THEOREM StatusSettled ==
  ASSUME 3 <= StatusSettles
  PROVE  Spec => []StatusIsTrue
<1>1. TabInv => StatusIsTrue
  BY DeploymentAssumption
  DEF TabInv, Types, ShownInv, StatusTruth, StatusIsTrue, W!OfflineState
<1>2. QED
  BY <1>1, TabInvariance, PTL

\* It shows what has become of the worker three intervals after a heartbeat's
\* life: that of a worker that is gone has expired, that of a busy one has not.
THEOREM WorkerSettled ==
  ASSUME 2 <= TTL, TTL + 3 <= WorkerSettles
  PROVE  Spec => []WorkerIsTrue
<1>1. TabInv => WorkerIsTrue
  BY TabConstants DEF TabInv, Types, ShownInv, WorkerTruth, WorkerIsTrue
<1>2. QED
  BY <1>1, TabInvariance, PTL

=============================================================================
