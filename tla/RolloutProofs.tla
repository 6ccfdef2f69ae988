---------------------------- MODULE RolloutProofs ----------------------------
(***************************************************************************)
(* That schema, images and traffic fit each other in every sequence of     *)
(* deployments, for any number of images with any migrations, any number   *)
(* of runs and any rotations.                                              *)
(***************************************************************************)
EXTENDS Rollout, TLAPS

\* What the earlier steps of a run leave for the later ones.
Stages ==
    /\ \A v \in staged : HeadOf[v] <= stagingSchema
    /\ pc \in {"snapshot", "migrate"} => version \in staged
    /\ pc = "migrate" => snapshot = schema
    /\ pc \in Canary => version \in staged /\ schema = HeadOf[version]
    /\ pc \in {"wait", "shift", "soak"} => target["green"] = version
    /\ pc \in {"shift", "soak"} => image["green"] = version
    /\ pc = "soak" => weight = goal

\* Where the listener may be left: between two images only while a canary
\* shifts, or after one that was cut off.  A canary starts to shift from where
\* the last one left the listener, and goes on from its own step.
Listener ==
    /\ pc \notin {"shift", "soak", "rollback"} => goal = 10
    /\ pc = "shift" =>
          \/ goal = 10 /\ (weight \in {0, 100} \/ cut)
          \/ goal = 50 /\ weight = 10
          \/ goal = 100 /\ weight = 50
    /\ pc \notin {"shift", "soak", "rollback"} => weight \in {0, 100} \/ cut
    /\ pc # "idle" => outcome = "none"
    /\ outcome = "promoted" =>
          /\ weight = 100 /\ schema = HeadOf[version]
          /\ target["green"] = version /\ image["green"] = version
    /\ outcome = "reverted" => weight = 0 \/ cut

RolloutInv == TypeOK /\ MigratedFirst /\ Stages /\ Listener

\* Before the first run everything is at the first image.
LEMMA InitRollout == Init => RolloutInv
  <1> SUFFICES ASSUME Init PROVE RolloutInv
    OBVIOUS
  <1>1. 0 \in Versions /\ 0 \in Credentials /\ HeadOf[0] \in Nat
    BY HeadAssumption, CredentialAssumption DEF Versions, Credentials
  <1>2. TasksTypeOK
    BY <1>1 DEF Init, TasksInit, TasksTypeOK
  <1>3. TypeOK
    <2>1. pc \in Steps /\ outcome \in Outcomes /\ cut \in BOOLEAN
      BY DEF Init, Steps, Outcomes
    <2>2. goal \in Weights \ {0} /\ weight \in Weights /\ runs \in Nat
      BY DEF Init, Weights
    <2>3. /\ version \in Versions /\ stagingSchema \in Nat /\ staged \subseteq Versions
          /\ snapshot \in Nat \cup {None}
      BY <1>1 DEF Init
    <2> QED
      BY <1>2, <2>1, <2>2, <2>3 DEF TypeOK
  <1>4. MigratedFirst
    BY <1>1 DEF Init, TasksInit, MigratedFirst
  <1>5. Stages /\ Listener
    BY DEF Init, Stages, Listener, Canary
  <1> QED
    BY <1>3, <1>4, <1>5 DEF RolloutInv

\* The tasks come and go with the images their task definitions name, and
\* leave schema and task definitions alone.
LEMMA TasksKeep ==
  ASSUME TasksTypeOK, TasksNext
  PROVE  /\ TasksTypeOK'
         /\ UNCHANGED <<schema, target>>
         /\ \A s \in Services : image'[s] \in {image[s], target[s]}
  <1>1. ASSUME NEW s \in Services, Connect(s)
        PROVE  /\ cache' \in [Services -> Credentials \cup {None}]
               /\ engine' \in [Services -> Credentials \cup {None}]
               /\ pooled' \in [Services -> BOOLEAN]
    <2>1. /\ cache' \in [Services -> Credentials \cup {None}]
          /\ engine' \in [Services -> Credentials \cup {None}]
      BY <1>1, CredentialAssumption DEF Connect, GetEngine, Resolved, TasksTypeOK
    <2>2. (pooled[s] \/ engine'[s] = secret) \in BOOLEAN
      OBVIOUS
    <2>3. pooled' \in [Services -> BOOLEAN]
      BY <1>1, <2>2 DEF Connect, TasksTypeOK
    <2> QED
      BY <2>1, <2>3
  <1>2. ASSUME NEW s \in Services, Request(s)
        PROVE  TasksTypeOK' /\ UNCHANGED <<schema, target, image>>
    BY <1>1, <1>2 DEF Request, TasksTypeOK
  <1>3. ASSUME NEW s \in Services, Probe(s)
        PROVE  TasksTypeOK' /\ UNCHANGED <<schema, target, image>>
    <2>1. (pooled'[s] /\ schema = HeadOf[image[s]]) \in BOOLEAN
      OBVIOUS
    <2>2. healthy' \in [Services -> BOOLEAN]
      BY <1>3, <2>1 DEF Probe, TasksTypeOK
    <2> QED
      BY <1>1, <1>3, <2>2 DEF Probe, TasksTypeOK
  <1>4. ASSUME NEW s \in Services, Expire(s) \/ LoseConnections(s)
        PROVE  TasksTypeOK' /\ UNCHANGED <<schema, target, image>>
    BY <1>4 DEF Expire, LoseConnections, TasksTypeOK
  <1>5. CASE Rotate
    BY <1>5, CredentialAssumption DEF Rotate, process, TasksTypeOK, Credentials
  <1>6. ASSUME NEW s \in Services, Replace(s)
        PROVE  /\ TasksTypeOK' /\ UNCHANGED <<schema, target>>
               /\ \A t \in Services : image'[t] \in {image[t], target[t]}
    BY <1>6 DEF Replace, FreshProcess, TasksTypeOK
  <1> QED
    BY <1>2, <1>3, <1>4, <1>5, <1>6 DEF TasksNext

\* So they keep the invariant.
LEMMA TasksRollout == RolloutInv /\ TasksNext /\ UNCHANGED jobVars => RolloutInv'
  <1> SUFFICES ASSUME RolloutInv, TasksNext, UNCHANGED jobVars PROVE RolloutInv'
    OBVIOUS
  <1>1. /\ TasksTypeOK'
        /\ UNCHANGED <<schema, target>>
        /\ \A s \in Services : image'[s] \in {image[s], target[s]}
    BY TasksKeep DEF RolloutInv, TypeOK
  <1>2. TypeOK'
    BY <1>1 DEF RolloutInv, TypeOK, jobVars, records, ended
  <1>3. MigratedFirst'
    BY <1>1 DEF RolloutInv, MigratedFirst, jobVars, records
  <1>4. Stages' /\ Listener'
    BY <1>1 DEF RolloutInv, Stages, Listener, jobVars, records, ended, Services
  <1> QED
    BY <1>2, <1>3, <1>4 DEF RolloutInv

\* The steps of a run that leave the production tasks alone.
LEMMA QuietRollout ==
  ASSUME RolloutInv, UNCHANGED taskVars,
         \/ \E v \in Versions : Start(v) \/ RerunProd(v)
         \/ StageMigrate \/ StageRollOut \/ Snapshot \/ Refuse
         \/ Check \/ Abort \/ Wait \/ Shift \/ Soak \/ Rollback \/ CutOff
  PROVE  RolloutInv'
  <1>1. TasksTypeOK' /\ (schema <= stagingSchema' => MigratedFirst')
    BY DEF RolloutInv, TypeOK, TasksTypeOK, MigratedFirst, taskVars, process
  <1> USE DEF RolloutInv, TypeOK, Stages, Listener, taskVars, process, records, ended
  <1>2. ASSUME NEW v \in Versions, Start(v) \/ RerunProd(v) PROVE RolloutInv'
    <2>1. TypeOK' /\ MigratedFirst'
      <3>1. pc' \in Steps /\ outcome' \in Outcomes
        BY <1>2 DEF Start, RerunProd, Steps, Outcomes
      <3>2. version' \in Versions /\ runs' \in Nat
        BY <1>2 DEF Start, RerunProd
      <3>3. UNCHANGED <<goal, weight, records, cut>>
        BY <1>2 DEF Start, RerunProd
      <3>4. TypeOK'
        <4> HIDE DEF Stages, Listener, RolloutInv, taskVars
        <4> QED
          BY <1>1, <3>1, <3>2, <3>3 DEF RolloutInv
      <3> QED
        BY <1>1, <3>3, <3>4 DEF TasksTypeOK, MigratedFirst
    <2>2. Stages' /\ Listener'
      BY <1>2 DEF Start, RerunProd, Canary
    <2> QED
      BY <2>1, <2>2
  <1>3. CASE StageMigrate
    <2>1. stagingSchema' \in Nat /\ stagingSchema <= stagingSchema'
      BY <1>3, HeadAssumption DEF StageMigrate, CanUpgrade
    <2>2. TypeOK' /\ MigratedFirst'
      BY <1>1, <1>3, <2>1 DEF StageMigrate, Steps, TasksTypeOK, MigratedFirst
    <2>3. Stages' /\ Listener'
      <3>1. \A v \in staged : HeadOf[v] <= stagingSchema'
        BY <2>1, HeadAssumption
      <3> QED
        BY <1>3, <3>1 DEF StageMigrate, Canary
    <2> QED
      BY <2>2, <2>3
  <1>4. CASE StageRollOut \/ Snapshot \/ Check \/ Wait \/ Shift
    <2>1. TypeOK' /\ MigratedFirst'
      BY <1>1, <1>4
      DEF StageRollOut, Snapshot, Check, Wait, Shift, Steps, Canary, TasksTypeOK, MigratedFirst
    <2>2. Stages' /\ Listener'
      BY <1>4 DEF StageRollOut, Snapshot, Check, Wait, Shift, Canary
    <2> QED
      BY <2>1, <2>2
  <1>5. ASSUME NEW how \in Outcomes, End(how), UNCHANGED <<version, records, runs>>,
               weight' \in Weights, cut' \in BOOLEAN,
               weight' \in {0, 100} \/ cut',
               how = "promoted" =>
                 /\ weight' = 100 /\ schema = HeadOf[version]
                 /\ target["green"] = version /\ image["green"] = version,
               how = "reverted" => weight' = 0 \/ cut'
        PROVE  RolloutInv'
    <2>1. TypeOK' /\ MigratedFirst'
      BY <1>1, <1>5 DEF End, Steps, Weights, MigratedFirst
    <2>2. Stages' /\ Listener'
      BY <1>5 DEF End, Canary
    <2> QED
      BY <2>1, <2>2
  <1>6. CASE Refuse \/ Abort
    BY <1>5, <1>6 DEF Refuse, Abort, Outcomes
  <1>7. CASE Soak
    <2>1. CASE goal < 100 /\ goal' = NextGoal /\ pc' = "shift" /\ UNCHANGED ended
      <3>1. TypeOK' /\ MigratedFirst'
        BY <1>1, <1>7, <2>1 DEF Soak, NextGoal, Steps, Canary, Weights, MigratedFirst
      <3>2. Stages' /\ Listener'
        BY <1>7, <2>1 DEF Soak, NextGoal, Weights, Canary
      <3> QED
        BY <3>1, <3>2
    <2>2. CASE goal = 100 /\ End("promoted") /\ cut' = FALSE
      BY <1>5, <1>7, <2>2 DEF Soak, Outcomes, Canary
    <2> QED
      BY <1>7, <2>1, <2>2 DEF Soak
  <1>8. CASE Rollback
    BY <1>5, <1>8 DEF Rollback, Weights, Outcomes
  <1>9. CASE CutOff
    <2>1. cut' \in BOOLEAN /\ (cut \/ pc \in Canary => cut')
      BY <1>9 DEF CutOff
    <2>2. weight \in {0, 100} \/ cut'
      BY <2>1 DEF Canary
    <2> QED
      BY <1>5, <1>9, <2>1, <2>2 DEF CutOff, Outcomes
  <1> QED
    BY <1>2, <1>3, <1>4, <1>6, <1>7, <1>8, <1>9

\* Production is migrated to a head that staging has or is past.
LEMMA MigrateRollout == RolloutInv /\ Migrate => RolloutInv'
  <1> SUFFICES ASSUME RolloutInv, Migrate PROVE RolloutInv'
    OBVIOUS
  <1>1. /\ pc = "migrate" /\ pc' = "check" /\ schema' = HeadOf[version]
        /\ schema <= schema' /\ schema' \in Nat
    BY HeadAssumption DEF Migrate, CanUpgrade, RolloutInv, TypeOK
  <1>2. TypeOK'
    BY <1>1 DEF Migrate, process, records, ended, RolloutInv, TypeOK, TasksTypeOK, Steps, Canary
  <1>3. MigratedFirst'
    <2>1. \A v \in Versions : HeadOf[v] <= schema => HeadOf[v] <= schema'
      BY <1>1, HeadAssumption DEF RolloutInv, TypeOK, TasksTypeOK
    <2> QED
      BY <1>1, <2>1, HeadAssumption
      DEF Migrate, records, RolloutInv, MigratedFirst, Stages, TypeOK, TasksTypeOK
  <1>4. Stages' /\ Listener'
    BY <1>1 DEF Migrate, records, ended, RolloutInv, Stages, Listener, Canary
  <1> QED
    BY <1>2, <1>3, <1>4 DEF RolloutInv

\* The canary's update of the green service, or its failure, with or without
\* an effect.
LEMMA CanaryRollout == RolloutInv /\ (Update \/ Trip) => RolloutInv'
  <1> SUFFICES ASSUME RolloutInv, Update \/ Trip PROVE RolloutInv'
    OBVIOUS
  <1>1. /\ UNCHANGED <<schema, secret, image, process, healthy, version, goal, records, runs, ended>>
        /\ \/ UNCHANGED target
           \/ target' = [target EXCEPT !["green"] = version] /\ pc = "update"
        /\ pc \in Canary
    BY DEF Update, Trip, SetGreen, taskVars, process, Canary
  <1>2. TypeOK'
    BY <1>1
    DEF Update, Trip, RolloutInv, TypeOK, TasksTypeOK, process, records, ended, Steps, Canary, Weights
  <1>3. MigratedFirst'
    BY <1>1, HeadAssumption
    DEF RolloutInv, MigratedFirst, Stages, TypeOK, TasksTypeOK, records
  <1>4. Stages' /\ Listener'
    BY <1>1
    DEF Update, Trip, SetGreen, RolloutInv, TypeOK, TasksTypeOK, Stages, Listener, records, ended,
        Canary, Services
  <1> QED
    BY <1>2, <1>3, <1>4 DEF RolloutInv

\* Every step of the tasks and of the workflow keeps the invariant.
LEMMA NextRollout == RolloutInv /\ [Next]_vars => RolloutInv'
  <1> SUFFICES ASSUME RolloutInv, [Next]_vars PROVE RolloutInv'
    OBVIOUS
  <1>1. CASE UNCHANGED vars
    BY <1>1
    DEF vars, taskVars, process, jobVars, records, ended, RolloutInv, TypeOK, TasksTypeOK,
        MigratedFirst, Stages, Listener
  <1>2. CASE JobNext
    <2>1. CASE Migrate \/ Update \/ Trip
      BY <2>1, MigrateRollout, CanaryRollout
    <2>2. CASE \/ \E v \in Versions : Start(v) \/ RerunProd(v)
               \/ StageMigrate \/ StageRollOut \/ Snapshot \/ Refuse
               \/ Check \/ Abort \/ Wait \/ Shift \/ Soak \/ Rollback \/ CutOff
      <3>1. UNCHANGED taskVars
        BY <2>2
        DEF Start, RerunProd, StageMigrate, StageRollOut, Snapshot, Refuse, Check, Abort, Wait,
            Shift, Soak, Rollback, CutOff
      <3> QED
        BY <2>2, <3>1, QuietRollout
    <2> QED
      BY <1>2, <2>1, <2>2 DEF JobNext
  <1> QED
    BY <1>1, <1>2, TasksRollout DEF Next

-----------------------------------------------------------------------------
\* The inductive invariant holds in every reachable state.
THEOREM RolloutInvariance == Spec => []RolloutInv
  BY InitRollout, NextRollout, PTL DEF Spec

\* No production task ever runs, or is told to run, an image ahead of the
\* schema, nor is production migrated ahead of staging.
THEOREM SchemaBeforeImage == Spec => []MigratedFirst
  BY RolloutInvariance, PTL DEF RolloutInv

\* Nothing but a canary that was cut off, or whose revert failed, leaves the
\* traffic between two images, and a promoted image has all of it.
THEOREM TrafficSettled == Spec => []NoPartialWeight
  <1>1. RolloutInv => NoPartialWeight
    BY DEF RolloutInv, Listener, NoPartialWeight
  <1> QED
    BY <1>1, RolloutInvariance, PTL

\* Production's schema moves forward only, to the head of an image staging has
\* proved, and never past staging, after a snapshot.
THEOREM MigrationSafe == Spec => SchemaMovesSafely
  <1>1. RolloutInv /\ [Next]_vars =>
          [ schema' # schema
              => /\ schema' > schema
                 /\ schema' = HeadOf[version]
                 /\ schema' <= stagingSchema
                 /\ version \in staged
                 /\ snapshot = schema ]_vars
    <2> SUFFICES ASSUME RolloutInv, Next, schema' # schema
                 PROVE  /\ schema' > schema
                        /\ schema' = HeadOf[version]
                        /\ schema' <= stagingSchema
                        /\ version \in staged
                        /\ snapshot = schema
      BY DEF vars, taskVars
    <2>1. Migrate
      <3>1. TasksNext => schema' = schema
        BY TasksKeep DEF RolloutInv, TypeOK
      <3> QED
        BY <3>1
        DEF Next, JobNext, taskVars, Start, RerunProd, StageMigrate, StageRollOut, Snapshot, Refuse, Check,
            Abort, Update, SetGreen, Wait, Shift, Soak, Trip, Rollback, CutOff
    <2> QED
      BY <2>1, HeadAssumption
      DEF Migrate, CanUpgrade, RolloutInv, Stages, TypeOK, TasksTypeOK
  <1> QED
    BY <1>1, RolloutInvariance, PTL DEF Spec, SchemaMovesSafely

\* Green gains traffic by the steps of the canary only, on an image that staging
\* has proved, that all of green runs and that the schema fits; it loses traffic
\* to a revert or to the first step of a run that finds it with more.
THEOREM ShiftSafe == Spec => GreenGainsInSteps
  <1> DEFINE Gains == /\ version \in staged
                      /\ image["green"] = version
                      /\ HeadOf[version] = schema
                      /\ <<weight, weight'>> \in {<<0, 10>>, <<10, 50>>, <<50, 100>>}
             Loses == \/ pc = "rollback" /\ weight' = 0
                      \/ goal = 10 /\ weight' = 10 /\ (weight = 100 \/ cut)
  <1>1. RolloutInv /\ [Next]_vars =>
          [(weight' > weight => Gains) /\ (weight' < weight => Loses)]_vars
    <2> SUFFICES ASSUME RolloutInv, Next, weight' # weight
                 PROVE  (weight' > weight => Gains) /\ (weight' < weight => Loses)
      <3>1. RolloutInv /\ weight' = weight => ~(weight' > weight) /\ ~(weight' < weight)
        <4>1. \A n \in {0, 10, 50, 100} : ~(n > n) /\ ~(n < n)
          OBVIOUS
        <4>2. RolloutInv => weight \in {0, 10, 50, 100}
          BY DEF RolloutInv, TypeOK, Weights
        <4> QED
          BY <4>1, <4>2
      <3>2. UNCHANGED vars => weight' = weight
        BY DEF vars, jobVars
      <3> HIDE DEF Gains, Loses
      <3> QED
        BY <3>1, <3>2
    <2>1. \/ pc = "shift" /\ weight' = goal
          \/ pc = "rollback" /\ weight' = 0
      BY DEF Next, JobNext, jobVars, Start, RerunProd, StageMigrate, StageRollOut, Snapshot,
             Migrate, Refuse, Check, Abort, Update, Wait, Shift, Soak, Trip, Rollback, CutOff
    <2>2. weight \in {0, 10, 50, 100}
      BY DEF RolloutInv, TypeOK, Weights
    <2>3. CASE pc = "shift" /\ weight' = goal
      <3>1. version \in staged /\ image["green"] = version /\ schema = HeadOf[version]
        BY <2>3 DEF RolloutInv, Stages, Canary
      <3>2. \/ goal = 10 /\ (weight \in {0, 100} \/ cut)
            \/ goal = 50 /\ weight = 10
            \/ goal = 100 /\ weight = 50
        BY <2>3 DEF RolloutInv, Listener
      <3>3. weight' > weight => <<weight, weight'>> \in {<<0, 10>>, <<10, 50>>, <<50, 100>>}
        BY <2>2, <2>3, <3>2
      <3>4. weight' < weight => goal = 10 /\ weight' = 10 /\ (weight = 100 \/ cut)
        BY <2>2, <2>3, <3>2
      <3> QED
        BY <3>1, <3>3, <3>4
    <2>4. CASE pc = "rollback" /\ weight' = 0
      BY <2>2, <2>4
    <2> QED
      BY <2>1, <2>3, <2>4
  <1> QED
    BY <1>1, RolloutInvariance, PTL DEF Spec, GreenGainsInSteps

=============================================================================
