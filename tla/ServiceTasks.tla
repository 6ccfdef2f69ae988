----------------------------- MODULE ServiceTasks -----------------------------
(***************************************************************************)
(* The production tasks behind the two target groups, as the health check  *)
(* sees them: which image they run, which database credential their engine *)
(* was made with, and whether they answer the readiness probe.             *)
(*                                                                         *)
(* The tasks of one service are represented by one process.  A process     *)
(* resolves the connection string on first use and keeps the engine for    *)
(* the rest of its life; PostgreSQL checks the password of new connections *)
(* only, so a pool outlives a rotation until its connections are lost.     *)
(***************************************************************************)
EXTENDS Naturals

CONSTANTS
    MaxVersion,   \* the images are numbered 0..MaxVersion, in order of merging
    HeadOf,       \* the migration head each image contains
    MaxRotations, \* bound on the rotations of the database secret
    Malformed,    \* values of the secret that are no connection string
    Fallback,     \* the value of DATABASE_URL in a task's environment, if any
    None          \* no value

Services    == {"blue", "green"}
Versions    == 0..MaxVersion
Credentials == 0..MaxRotations

ASSUME HeadAssumption ==
    /\ MaxVersion \in Nat
    /\ HeadOf \in [Versions -> Nat]
    /\ \A v, w \in Versions : v <= w => HeadOf[v] <= HeadOf[w]
ASSUME CredentialAssumption ==
    /\ MaxRotations \in Nat
    /\ Malformed \subseteq Credentials
    /\ None \notin Credentials
    /\ Fallback \in Credentials \cup {None}

VARIABLES
    schema,  \* alembic_version.version_num of the production database
    secret,  \* the secret's current value, the only one the database accepts
    image,   \* the image the tasks of each service run
    target,  \* the image of each service's task definition
    cache,   \* SecretsFacade._cache of each process
    engine,  \* the credential of each process's _engine
    pooled,  \* whether the process has a connection in its pool
    healthy  \* the target group's verdict on the tasks

process  == <<cache, engine, pooled>>
taskVars == <<schema, secret, image, target, cache, engine, pooled, healthy>>

TasksInit ==
    /\ schema = HeadOf[0]
    /\ secret = 0
    /\ image = [s \in Services |-> 0]
    /\ target = [s \in Services |-> 0]
    /\ cache = [s \in Services |-> None]
    /\ engine = [s \in Services |-> None]
    /\ pooled = [s \in Services |-> FALSE]
    /\ healthy = [s \in Services |-> FALSE]

-----------------------------------------------------------------------------
(***************************************************************************)
(* The connection string and the engine.                                   *)
(***************************************************************************)

\* get_secret: the cached value while it is fresh, else what Secrets Manager
\* answers or, when it fails, the value in the environment.
Resolved(s) == IF cache[s] # None THEN {cache[s]} ELSE {secret, Fallback}

\* get_engine: made on first use and kept.  A value that is no connection
\* string stays in the cache although no engine can be made of it; without a
\* value there is nothing to cache.
GetEngine(s) ==
    \/ /\ engine[s] # None
       /\ UNCHANGED <<cache, engine>>
    \/ /\ engine[s] = None
       /\ \E value \in Resolved(s) :
             /\ cache' = [cache EXCEPT ![s] = value]
             /\ engine' = [engine EXCEPT ![s] = IF value \in Malformed THEN None ELSE value]

\* A connection is taken from the pool, or made anew with the engine's
\* credential.
Connect(s) ==
    /\ GetEngine(s)
    /\ pooled' = [pooled EXCEPT ![s] = pooled[s] \/ engine'[s] = secret]

\* A request uses the database.
Request(s) ==
    /\ Connect(s)
    /\ UNCHANGED <<schema, secret, image, target, healthy>>

\* GET /health/ready, as often as it takes the target group to change its
\* mind: ready is a connection, and a schema at the head of the image's own
\* migrations.
Probe(s) ==
    /\ Connect(s)
    /\ healthy' = [healthy EXCEPT ![s] = pooled'[s] /\ schema = HeadOf[image[s]]]
    /\ UNCHANGED <<schema, secret, image, target>>

\* The cached secret reaches the end of its time-to-live.
Expire(s) ==
    /\ cache[s] # None
    /\ cache' = [cache EXCEPT ![s] = None]
    /\ UNCHANGED <<schema, secret, image, target, engine, pooled, healthy>>

-----------------------------------------------------------------------------
(***************************************************************************)
(* The surroundings.                                                       *)
(***************************************************************************)

\* The pool's connections are lost: a failover of the database, a network
\* fault.  pool_pre_ping discards them and connects anew.
LoseConnections(s) ==
    /\ pooled[s]
    /\ pooled' = [pooled EXCEPT ![s] = FALSE]
    /\ UNCHANGED <<schema, secret, image, target, cache, engine, healthy>>

\* The password of the database is rotated.
Rotate ==
    /\ secret < MaxRotations
    /\ secret' = secret + 1
    /\ UNCHANGED <<schema, image, target, process, healthy>>

\* Mutant of FreshProcess: the new process inherits the old one's engine.
FreshProcess_Inherits(s) ==
    /\ cache' = [cache EXCEPT ![s] = None]
    /\ pooled' = [pooled EXCEPT ![s] = FALSE]
    /\ UNCHANGED engine

\* The module state of a process that has just started.
FreshProcess(s) ==
    /\ cache' = [cache EXCEPT ![s] = None]
    /\ engine' = [engine EXCEPT ![s] = None]
    /\ pooled' = [pooled EXCEPT ![s] = FALSE]

\* The scheduler replaces the tasks of a service: they crashed, were found
\* unhealthy, or run another image than the task definition names.
Replace(s) ==
    /\ FreshProcess(s)
    /\ image' = [image EXCEPT ![s] = target[s]]
    /\ healthy' = [healthy EXCEPT ![s] = FALSE]
    /\ UNCHANGED <<schema, secret, target>>

TasksNext ==
    \/ Rotate
    \/ \E s \in Services :
          \/ Request(s)
          \/ Probe(s)
          \/ Expire(s)
          \/ LoseConnections(s)
          \/ Replace(s)

-----------------------------------------------------------------------------
\* What the surroundings keep doing: probe, let caches expire, replace
\* unhealthy tasks, and answer a request for the secret now and then.
FetchCurrent(s) == Probe(s) /\ engine[s] = None /\ engine'[s] = secret

TasksFairness ==
    \A s \in Services :
        /\ WF_taskVars(Probe(s))
        /\ WF_taskVars(Expire(s))
        /\ WF_taskVars(~healthy[s] /\ Replace(s))
        /\ SF_taskVars(FetchCurrent(s))

TasksTypeOK ==
    /\ schema \in Nat
    /\ secret \in Credentials
    /\ image \in [Services -> Versions]
    /\ target \in [Services -> Versions]
    /\ cache \in [Services -> Credentials \cup {None}]
    /\ engine \in [Services -> Credentials \cup {None}]
    /\ pooled \in [Services -> BOOLEAN]
    /\ healthy \in [Services -> BOOLEAN]

=============================================================================
