------------------------------- MODULE Rollout -------------------------------
(***************************************************************************)
(* The deployment workflow, one run after the other, against the tasks of  *)
(* ServiceTasks: staging first, then a snapshot and the migration of       *)
(* production, then the canary, which updates the green service and shifts *)
(* the listener's weights to it in steps, each watched for alarms.         *)
(*                                                                         *)
(* Any command may fail, and a failed AWS call may have had its effect.    *)
(* From the canary step on a trap answers a failure by shifting the weight *)
(* back to blue, once; the job may also be cut off, with no trap, by its   *)
(* time limit or the loss of its runner.  Any merged image may be deployed *)
(* next: builds finish out of order, and runs, or their production job     *)
(* alone, can be repeated.                                                 *)
(***************************************************************************)
EXTENDS ServiceTasks

CONSTANTS
    MaxRuns        \* bound on the runs of the workflow

ASSUME RunsAssumption == MaxRuns \in Nat

VARIABLES
    pc,            \* the step the deployment is at
    version,       \* the image it deploys
    goal,          \* the weight the canary shifts to next
    weight,        \* green's weight; blue has the rest of 100
    stagingSchema, \* the migration head of the staging database
    staged,        \* history: the images that passed the staging probe
    snapshot,      \* the schema of the latest snapshot of production
    runs,          \* history: the number of deployments
    outcome,       \* history: how the latest one ended
    cut            \* history: a canary was cut off, or its revert failed, and
                   \* none has been promoted or reverted since

records == <<stagingSchema, staged, snapshot>>
ended   == <<outcome, cut>>
jobVars == <<pc, version, goal, weight, records, runs, ended>>
vars    == <<taskVars, jobVars>>

Weights  == {0, 10, 50, 100}
Canary   == {"check", "update", "wait", "shift", "soak", "rollback"}
Steps    == {"idle", "stageMigrate", "stageRollOut", "snapshot", "migrate"} \cup Canary
Outcomes == {"none", "promoted", "reverted", "refused", "aborted", "cut off"}

Init ==
    /\ TasksInit
    /\ pc = "idle"
    /\ version = 0
    /\ goal = 10
    /\ weight = 0
    /\ stagingSchema = HeadOf[0]
    /\ staged = {}
    /\ snapshot = None
    /\ runs = 0
    /\ outcome = "none"
    /\ cut = FALSE

End(how) ==
    /\ pc' = "idle"
    /\ goal' = 10
    /\ outcome' = how

-----------------------------------------------------------------------------
(***************************************************************************)
(* Before the canary: a failing step ends the run.                         *)
(***************************************************************************)

\* Mutant of Start: production does not wait for staging.
Start_InProduction(v) ==
    /\ pc = "idle"
    /\ runs < MaxRuns
    /\ pc' = "snapshot"
    /\ version' = v
    /\ outcome' = "none"
    /\ runs' = runs + 1
    /\ UNCHANGED <<taskVars, goal, weight, records, cut>>

\* A signed image of the commit exists; the run takes its turn.
Start(v) ==
    /\ pc = "idle"
    /\ runs < MaxRuns
    /\ pc' = "stageMigrate"
    /\ version' = v
    /\ outcome' = "none"
    /\ runs' = runs + 1
    /\ UNCHANGED <<taskVars, goal, weight, records, cut>>

\* The production job alone is run again, for an image that staging has seen:
\* the jobs it needs have succeeded, and are not repeated.
RerunProd(v) ==
    /\ pc = "idle"
    /\ runs < MaxRuns
    /\ v \in staged
    /\ pc' = "snapshot"
    /\ version' = v
    /\ outcome' = "none"
    /\ runs' = runs + 1
    /\ UNCHANGED <<taskVars, goal, weight, records, cut>>

\* "upgrade head" of a checkout: nothing to do when the database is at its
\* head, an error when the database is at a revision it does not contain.
CanUpgrade(from) == from <= HeadOf[version]

StageMigrate ==
    /\ pc = "stageMigrate"
    /\ CanUpgrade(stagingSchema)
    /\ stagingSchema' = HeadOf[version]
    /\ pc' = "stageRollOut"
    /\ UNCHANGED <<taskVars, version, goal, weight, staged, snapshot, runs, ended>>

\* The staging service becomes stable on the image, and its probe answers.
StageRollOut ==
    /\ pc = "stageRollOut"
    /\ stagingSchema = HeadOf[version]
    /\ staged' = staged \cup {version}
    /\ pc' = "snapshot"
    /\ UNCHANGED <<taskVars, version, goal, weight, stagingSchema, snapshot, runs, ended>>

\* Approved by a reviewer: terraform apply, then a snapshot.
Snapshot ==
    /\ pc = "snapshot"
    /\ snapshot' = schema
    /\ pc' = "migrate"
    /\ UNCHANGED <<taskVars, version, goal, weight, stagingSchema, staged, runs, ended>>

\* Mutant of Migrate: the workflow has no step that migrates production.
Migrate_Missing ==
    /\ pc = "migrate"
    /\ pc' = "check"
    /\ UNCHANGED <<taskVars, version, goal, weight, records, runs, ended>>

Migrate ==
    /\ pc = "migrate"
    /\ CanUpgrade(schema)
    /\ schema' = HeadOf[version]
    /\ pc' = "check"
    /\ UNCHANGED <<secret, image, target, process, healthy>>
    /\ UNCHANGED <<version, goal, weight, records, runs, ended>>

Refuse ==
    /\ pc \in {"stageMigrate", "stageRollOut", "snapshot", "migrate"}
    /\ End("refused")
    /\ UNCHANGED <<taskVars, version, weight, records, runs, cut>>

-----------------------------------------------------------------------------
(***************************************************************************)
(* The canary.                                                             *)
(***************************************************************************)

\* The task definition of the green service is read, and has the container.
Check ==
    /\ pc = "check"
    /\ pc' = "update"
    /\ UNCHANGED <<taskVars, version, goal, weight, records, runs, ended>>

\* It has no container of that name: "exit 1", which is not trapped.
Abort ==
    /\ pc = "check"
    /\ End("aborted")
    /\ UNCHANGED <<taskVars, version, weight, records, runs, cut>>

SetGreen ==
    /\ target' = [target EXCEPT !["green"] = version]
    /\ UNCHANGED <<schema, secret, image, process, healthy>>

Update ==
    /\ pc = "update"
    /\ SetGreen
    /\ pc' = "wait"
    /\ UNCHANGED <<version, goal, weight, records, runs, ended>>

\* Mutant of Wait: nobody waits for the service to become stable.
Wait_Skipped ==
    /\ pc = "wait"
    /\ pc' = "shift"
    /\ UNCHANGED <<taskVars, version, goal, weight, records, runs, ended>>

\* services-stable: green runs nothing but the new image, and is healthy.
Wait ==
    /\ pc = "wait"
    /\ image["green"] = version
    /\ healthy["green"]
    /\ pc' = "shift"
    /\ UNCHANGED <<taskVars, version, goal, weight, records, runs, ended>>

\* GREEN_UP
Shift ==
    /\ pc = "shift"
    /\ weight' = goal
    /\ pc' = "soak"
    /\ UNCHANGED <<taskVars, version, goal, records, runs, ended>>

\* Mutant of NextGoal: half of the traffic is never tried.
NextGoal_Skips == 100

NextGoal == IF goal = 10 THEN 50 ELSE 100

\* No alarm fired for as long as the step soaks; after the last one the trap
\* is disarmed.
Soak ==
    /\ pc = "soak"
    /\ \/ /\ goal < 100
          /\ goal' = NextGoal
          /\ pc' = "shift"
          /\ UNCHANGED ended
       \/ /\ goal = 100
          /\ End("promoted")
          /\ cut' = FALSE
    /\ UNCHANGED <<taskVars, version, weight, records, runs>>

\* Mutant of Trip: a failed shift is not trapped; it ends the run.
Trip_NoTrap ==
    /\ pc \in Canary \ {"rollback"}
    /\ End("reverted")
    /\ \/ pc = "update" /\ SetGreen
       \/ UNCHANGED taskVars
    /\ \/ pc = "shift" /\ weight' = goal
       \/ UNCHANGED weight
    /\ UNCHANGED <<version, records, runs, cut>>

\* A command fails, with or without its effect, the wait times out, an alarm
\* fires, or the alarms cannot be read three times in a row: the trap.
Trip ==
    /\ pc \in Canary \ {"rollback"}
    /\ pc' = "rollback"
    /\ \/ pc = "update" /\ SetGreen
       \/ UNCHANGED taskVars
    /\ \/ pc = "shift" /\ weight' = goal
       \/ UNCHANGED weight
    /\ UNCHANGED <<version, goal, records, runs, ended>>

\* ROLLBACK: one more weight change, whose own failure is ignored.
Rollback ==
    /\ pc = "rollback"
    /\ \/ weight' = 0 /\ cut' = FALSE
       \/ UNCHANGED weight /\ cut' = TRUE
    /\ End("reverted")
    /\ UNCHANGED <<taskVars, version, records, runs>>

\* The job's time limit passes, or its runner is lost.
CutOff ==
    /\ pc # "idle"
    /\ End("cut off")
    /\ cut' = (cut \/ pc \in Canary)
    /\ UNCHANGED <<taskVars, version, weight, records, runs>>

-----------------------------------------------------------------------------
JobNext ==
    \/ \E v \in Versions : Start(v) \/ RerunProd(v)
    \/ StageMigrate \/ StageRollOut \/ Snapshot \/ Migrate \/ Refuse
    \/ Check \/ Abort \/ Update \/ Wait \/ Shift \/ Soak
    \/ Trip \/ Rollback \/ CutOff

Next ==
    \/ TasksNext /\ UNCHANGED jobVars
    \/ JobNext

Spec     == Init /\ [][Next]_vars
FairSpec == Spec /\ TasksFairness

-----------------------------------------------------------------------------
(***************************************************************************)
(* Properties.                                                             *)
(***************************************************************************)

TypeOK ==
    /\ TasksTypeOK
    /\ pc \in Steps
    /\ version \in Versions
    /\ goal \in Weights \ {0}
    /\ weight \in Weights
    /\ stagingSchema \in Nat
    /\ staged \subseteq Versions
    /\ snapshot \in Nat \cup {None}
    /\ runs \in Nat
    /\ outcome \in Outcomes
    /\ cut \in BOOLEAN

\* Staging is migrated before production, and production before any task runs
\* an image that needs it: whichever runs fail half-way, are repeated or come
\* out of order, no production task ever runs ahead of its schema (the order
\* of the jobs and of the steps Migrate prod and Canary in deploy.yml).
MigratedFirst ==
    /\ schema <= stagingSchema
    /\ \A s \in Services :
          /\ HeadOf[target[s]] <= schema
          /\ HeadOf[image[s]] <= schema

\* Production's schema only moves forward, to the head of an image that was
\* found healthy with it in staging, which is not behind, and only after a
\* snapshot of what it was, also when the production job is run again long after
\* its staging job (Snapshot BEFORE migrate; staging eats every mistake first).
SchemaMovesSafely ==
    [][ schema' # schema
          => /\ schema' > schema
             /\ schema' = HeadOf[version]
             /\ schema' <= stagingSchema
             /\ version \in staged
             /\ snapshot = schema ]_vars

\* Green gains traffic one step of the canary at a time, and only while it runs
\* an image that passed staging and that the schema fits, whatever weights and
\* images earlier runs left behind.  It loses traffic to a revert, all of it,
\* or to the first step of a run that finds green at 100, or at a weight some
\* canary that was cut off has left.  Of blue, which has what green loses, this
\* says nothing: its image is the first one, never staged by these runs, and
\* after a migration its tasks answer 503 (GREEN_UP, SOAK and ROLLBACK).
GreenGainsInSteps ==
    [][ /\ weight' > weight =>
              /\ version \in staged
              /\ image["green"] = version
              /\ HeadOf[version] = schema
              /\ <<weight, weight'>> \in {<<0, 10>>, <<10, 50>>, <<50, 100>>}
        /\ weight' < weight =>
              \/ pc = "rollback" /\ weight' = 0
              \/ goal = 10 /\ weight' = 10 /\ (weight = 100 \/ cut) ]_vars

\* Production is left between blue and green only by a canary that was cut off
\* or whose revert failed, until a later one settles it; a promotion leaves everything on green, which runs
\* the new image, and the schema at that image's head, so that its tasks go on
\* being found ready (ROLLBACK and the ERR trap; readiness).
NoPartialWeight ==
    /\ pc = "idle" => weight \in {0, 100} \/ cut
    /\ outcome = "promoted" =>
          weight = 100 /\ image["green"] = version /\ schema = HeadOf[version]
    /\ outcome = "reverted" => weight = 0 \/ cut

\* No redeployment is needed for a rotation: a service whose image fits the
\* schema is found healthy again, with whatever its engine was made
\* (get_engine keeps it; the health check replaces the task).
RotationHeals ==
    \A s \in Services :
        HeadOf[target[s]] = schema /\ secret \notin Malformed
          ~> healthy[s] \/ HeadOf[target[s]] # schema \/ secret \in Malformed

\* "No traffic is on green yet" when the workflow is about to update the green
\* service (the comment on its container-name check).
NoTrafficYet == pc \in {"check", "update", "wait"} => weight = 0

=============================================================================
