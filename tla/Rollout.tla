------------------------------ MODULE Rollout -------------------------------
(***************************************************************************)
(* How the settings of one bench reach its containers (internal/manager:   *)
(* scale.go, reconcile.go, restart.go, debug.go, apps.go and the start,    *)
(* stop and domain operations of lifecycle.go and domains.go): the record, *)
(* docker-compose.yml rendered from it, the containers made from that, the *)
(* dev server run from the Procfile, and the apps.                         *)
(*                                                                         *)
(* Scale, Reconcile, Debug and AppAdd hold the bench lock; Start, Stop,    *)
(* Restart and the domain operations do not, and AppRemove takes it after  *)
(* its checks.  A command can fail half-way, and ffm can be killed.        *)
(***************************************************************************)
EXTENDS Naturals, FiniteSets

CONSTANTS
  Actors,       \* ffm processes and dashboard requests
  Nil,          \* no holder of the bench lock, no task
  Apps,         \* apps that can be added
  Misnamed,     \* those whose repository has another name than the app
  Old,          \* a bench of an older ffm is modelled too
  RolloutKinds, \* bound: the operations that are called
  MaxRollouts,  \* bound: operations begun
  MaxMishaps    \* bound: failed commands and killed processes

\* TemplateVersion of this ffm; 1 stands for older ones.
Current == 2
NoFile == [workers |-> 0, bind |-> "none", alias |-> FALSE, tv |-> 0]
Down == [compose |-> NoFile, image |-> 0]

VARIABLES
  prod,         \* the bench is a production bench
  rec,          \* its record: worker count, bind, alias, template version, apps
  compose,      \* docker-compose.yml
  containers,   \* what the running containers were made from, or Down
  image,        \* the template version of the image
  procfile,     \* the web line of the Procfile
  server,       \* the web line the dev server runs
  fetched,      \* apps.txt
  installed,    \* the apps of the site
  locker,       \* who holds the bench lock
  step,         \* step[u]: the step u is at
  job,          \* job[u]: what u was asked for
  read,         \* read[u]: the record as u sees it
  count,        \* operations begun so far
  mishaps,      \* commands failed and processes killed so far
  unapplied,    \* a failed operation said so, ffm was killed, or two changes overlapped
  unfinished    \* apps of which a failed or killed operation left a part

rvars == <<prod, rec, compose, containers, image, procfile, server, fetched, installed, locker, step, job, read, count,
           mishaps, unapplied, unfinished>>
World == <<prod, rec, compose, containers, image, procfile, server, fetched, installed>>
Marks == <<count, mishaps, unapplied, unfinished>>

\* composeDataFor and RenderCompose: always with the templates of this ffm.
RenderCompose(r) == [workers |-> r.workers, bind |-> r.bind, alias |-> r.alias, tv |-> Current]

Rollouts ==
  [kind : {"scale"}, workers : 1..2] \cup [kind : {"reconcile"}, bind : {"as is", "lan", "loopback"}]
    \cup [kind : {"domain"}, alias : BOOLEAN] \cup [kind : {"start", "stop", "rebuild"}]
    \cup [kind : {"debug"}, on : BOOLEAN] \cup [kind : {"addApp", "removeApp"}, app : Apps, all : BOOLEAN]

\* Nil is neither a user nor a task.
ASSUME RolloutAssumption == Nil \notin Actors \cup Rollouts

RolloutInit ==
  /\ prod \in BOOLEAN
  /\ \E tv \in {Current} \cup {v \in {1} : Old} :
       /\ rec = [workers |-> 1, bind |-> "loopback", alias |-> FALSE, tv |-> tv, apps |-> {}]
       /\ compose = [workers |-> 1, bind |-> "loopback", alias |-> FALSE, tv |-> tv]
       /\ image = tv /\ unapplied = (tv # Current)
  /\ containers = [compose |-> compose, image |-> image]
  /\ procfile = "plain" /\ server = "plain"
  /\ fetched = {} /\ installed = {}
  /\ locker = Nil
  /\ step = [u \in Actors |-> "idle"] /\ job = [u \in Actors |-> Nil] /\ read = [u \in Actors |-> Nil]
  /\ count = 0 /\ mishaps = 0 /\ unfinished = {}

Advance(u, s) == step' = [step EXCEPT ![u] = s] /\ UNCHANGED <<locker, job, read>>

EndTask(u) ==
  /\ locker' = IF locker = u THEN Nil ELSE locker
  /\ step' = [step EXCEPT ![u] = "idle"]
  /\ job' = [job EXCEPT ![u] = Nil]
  /\ read' = [read EXCEPT ![u] = Nil]

LockedTasks == {"scale", "reconcile", "debug", "addApp"}

FirstStep(t) ==
  CASE t.kind = "scale" -> "recordScale"
    [] t.kind = "reconcile" -> "look"
    [] t.kind = "domain" -> "recordDomain"
    [] t.kind = "start" -> "startUp"
    [] t.kind \in {"stop", "rebuild"} -> "stop"
    [] t.kind = "debug" -> IF t.on THEN "debugpy" ELSE "procfile"
    [] t.kind = "addApp" -> "get"
    [] t.kind = "removeApp" -> "snapshot"

\* What an operation refuses before it changes anything.
Accepted(t) ==
  /\ t.kind = "scale" => prod /\ t.workers # rec.workers
  /\ t.kind = "domain" => t.alias # rec.alias
  /\ t.kind = "debug" => ~prod /\ (t.on => rec.bind = "loopback")
  /\ t.kind = "addApp" => containers # Down
  /\ t.kind = "removeApp" => t.app \in fetched

BeginTask(u, t) ==
  /\ step[u] = "idle" /\ count < MaxRollouts /\ t.kind \in RolloutKinds /\ Accepted(t)
  /\ t.kind \in LockedTasks => locker = Nil
  /\ locker' = IF t.kind \in LockedTasks THEN u ELSE locker
  /\ step' = [step EXCEPT ![u] = FirstStep(t)]
  /\ job' = [job EXCEPT ![u] = t]
  /\ read' = [read EXCEPT ![u] = rec]
  /\ count' = count + 1
  /\ UNCHANGED <<World, mishaps, unapplied, unfinished>>

-----------------------------------------------------------------------------
(* From the record to the containers. *)

\* UpdateBench changes one part of the record as it is now, u its own copy.
RecordPart(u, part, value, next) ==
  /\ rec' = [rec EXCEPT ![part] = value]
  /\ read' = [read EXCEPT ![u][part] = value]
  /\ step' = [step EXCEPT ![u] = next]
  /\ UNCHANGED <<prod, compose, containers, image, procfile, server, fetched, installed, locker, job, Marks>>

RecordScale(u)  == step[u] = "recordScale" /\ RecordPart(u, "workers", job[u].workers, "write")
RecordDomain(u) == step[u] = "recordDomain" /\ RecordPart(u, "alias", job[u].alias, "write")

BindOf(u) == IF job[u].bind = "as is" THEN read[u] ELSE [read[u] EXCEPT !.bind = job[u].bind]

\* Mutant: a bind that changes is not noticed when the file is the same.
LookAtFileOnly(u) ==
  /\ step[u] = "look"
  /\ IF compose.tv = Current
     THEN rec' = [rec EXCEPT !.tv = Current, !.bind = BindOf(u).bind] /\ EndTask(u)
     ELSE UNCHANGED rec /\ Advance(u, "recordBind")
  /\ UNCHANGED <<prod, compose, containers, image, procfile, server, fetched, installed, Marks>>
\* Nothing to do when the file is what would be written.
LookAtFile(u) ==
  /\ step[u] = "look"
  /\ IF compose = RenderCompose(BindOf(u)) /\ BindOf(u) = read[u]
     THEN rec' = [rec EXCEPT !.tv = Current] /\ EndTask(u)
     ELSE UNCHANGED rec /\ Advance(u, "recordBind")
  /\ UNCHANGED <<prod, compose, containers, image, procfile, server, fetched, installed, Marks>>

RecordBind(u) ==
  /\ step[u] = "recordBind"
  /\ rec' = [rec EXCEPT !.bind = BindOf(u).bind, !.tv = Current]
  /\ read' = [read EXCEPT ![u] = BindOf(u)]
  /\ step' = [step EXCEPT ![u] = "write"]
  /\ UNCHANGED <<prod, compose, containers, image, procfile, server, fetched, installed, locker, job, Marks>>

\* applyScaleLocked, applyDomainChange: the file, then the containers if any run.
Write(u) ==
  /\ step[u] = "write"
  /\ compose' = RenderCompose(read[u])
  /\ unapplied' = (RenderCompose(read[u]) # RenderCompose(rec))
  /\ IF containers = Down THEN EndTask(u) ELSE Advance(u, "up")
  /\ UNCHANGED <<prod, rec, containers, image, procfile, server, fetched, installed, count, mishaps, unfinished>>

\* docker compose up -d replaces the containers whose definition changed; the
\* dev server dies with its container.
ComposeUp ==
  /\ containers' = [compose |-> compose, image |-> image]
  /\ server' = IF containers = containers' \/ prod THEN server ELSE "down"

RollOut(u) ==
  /\ step[u] = "up" /\ ComposeUp
  /\ IF prod THEN EndTask(u) ELSE Advance(u, "restart")
  /\ UNCHANGED <<prod, rec, compose, image, procfile, fetched, installed, Marks>>

\* restartDevServer: a command that fails is taken for a server that was down.
RestartDevServer(u) ==
  /\ step[u] = "restart"
  /\ IF containers = Down
     THEN UNCHANGED <<server, mishaps, unapplied>>
     ELSE \/ server' = procfile /\ UNCHANGED <<mishaps, unapplied>>
          \/ mishaps < MaxMishaps /\ mishaps' = mishaps + 1 /\ unapplied' = TRUE /\ UNCHANGED server
  /\ EndTask(u)
  /\ UNCHANGED <<prod, rec, compose, containers, image, procfile, fetched, installed, count, unfinished>>

-----------------------------------------------------------------------------
(* Start, stop, restart, debug. *)

ComposeStart(u) ==
  /\ step[u] = "startUp" /\ ComposeUp
  /\ IF prod THEN EndTask(u) ELSE Advance(u, "startDev")
  /\ UNCHANGED <<prod, rec, compose, image, procfile, fetched, installed, Marks>>

\* A second dev server finds its ports taken.
StartDev(u) ==
  /\ step[u] = "startDev"
  /\ server' = IF containers = Down \/ server # "down" THEN server ELSE procfile
  /\ EndTask(u)
  /\ UNCHANGED <<prod, rec, compose, containers, image, procfile, fetched, installed, Marks>>

ComposeStop(u) ==
  /\ step[u] = "stop"
  /\ containers' = Down /\ server' = "down"
  /\ IF job[u].kind = "stop" THEN EndTask(u) ELSE Advance(u, "build")
  /\ UNCHANGED <<prod, rec, compose, image, procfile, fetched, installed, Marks>>

RebuildImage(u) ==
  /\ step[u] = "build"
  /\ image' = Current
  /\ Advance(u, "startUp")
  /\ UNCHANGED <<prod, rec, compose, containers, procfile, server, fetched, installed, Marks>>

Debugpy(u) ==
  /\ step[u] = "debugpy"
  /\ IF containers = Down THEN EndTask(u) ELSE Advance(u, "procfile")
  /\ UNCHANGED <<World, Marks>>

\* setDebugWeb keeps the original web line; nothing happens when it is as asked.
SetDebugWeb(u) ==
  /\ step[u] = "procfile"
  /\ procfile' = IF job[u].on THEN "debug" ELSE "plain"
  /\ IF procfile = procfile' THEN EndTask(u) ELSE Advance(u, "restartWeb")
  /\ UNCHANGED <<prod, rec, compose, containers, image, server, fetched, installed, Marks>>

RestartWeb(u) ==
  /\ step[u] = "restartWeb"
  /\ server' = IF containers = Down THEN server ELSE procfile
  /\ EndTask(u)
  /\ UNCHANGED <<prod, rec, compose, containers, image, procfile, fetched, installed, Marks>>

-----------------------------------------------------------------------------
(* Apps. *)

\* A command inside the containers needs them.
AppStep(u, s, next) ==
  /\ step[u] = s /\ containers # Down
  /\ Advance(u, next)
  /\ UNCHANGED <<prod, compose, containers, image, procfile, count, mishaps, unapplied>>

GetApp(u) ==
  /\ AppStep(u, "get", IF job[u].all THEN "install" ELSE "assets")
  /\ fetched' = fetched \cup {job[u].app}
  /\ UNCHANGED <<rec, server, installed, unfinished>>
Install(u) ==
  /\ AppStep(u, "install", "assets")
  /\ installed' = installed \cup {job[u].app}
  /\ UNCHANGED <<rec, server, fetched, unfinished>>
Assets(u) == AppStep(u, "assets", "recordApp") /\ UNCHANGED <<rec, server, fetched, installed, unfinished>>

\* withoutApp finds a spec by the name of its repository.
WithoutApp(apps, a) == IF a \in Misnamed THEN apps ELSE apps \ {a}

\* UpdateBench, from the apps of the record as it is now.
RecordApp(u) ==
  /\ step[u] \in {"recordApp", "forgetApp"}
  /\ rec' = [rec EXCEPT !.apps = WithoutApp(@, job[u].app) \cup IF step[u] = "recordApp" THEN {job[u].app} ELSE {}]
  /\ unfinished' = unfinished \ {job[u].app}
  /\ Advance(u, "restartApps")
  /\ UNCHANGED <<prod, compose, containers, image, procfile, server, fetched, installed, count, mishaps, unapplied>>

RestartApps(u) ==
  /\ step[u] = "restartApps"
  /\ server' = IF containers = Down \/ prod THEN server ELSE procfile
  /\ EndTask(u)
  /\ UNCHANGED <<prod, rec, compose, containers, image, procfile, fetched, installed, Marks>>

\* CreateSnapshot locks and unlocks; AppRemove locks again.
SnapshotFirst(u) ==
  /\ step[u] = "snapshot"
  /\ IF locker = Nil /\ containers # Down THEN Advance(u, "lock") ELSE EndTask(u)
  /\ UNCHANGED <<World, Marks>>
LockRemove(u) ==
  /\ step[u] = "lock"
  /\ IF locker # Nil THEN EndTask(u)
     ELSE locker' = u /\ step' = [step EXCEPT ![u] = "uninstall"] /\ UNCHANGED <<job, read>>
  /\ UNCHANGED <<World, Marks>>

\* Mutant: the code goes although the site still has the app.
UninstallCodeFirst(u) ==
  /\ AppStep(u, "uninstall", "forgetApp")
  /\ fetched' = fetched \ {job[u].app}
  /\ UNCHANGED <<rec, server, installed, unfinished>>
Uninstall(u) ==
  /\ AppStep(u, "uninstall", IF job[u].all THEN "removeCode" ELSE "forgetApp")
  /\ installed' = installed \ {job[u].app}
  /\ UNCHANGED <<rec, server, fetched, unfinished>>

\* Another AppRemove was faster.
RemoveCode(u) ==
  /\ step[u] = "removeCode" /\ containers # Down
  /\ IF job[u].app \in fetched THEN Advance(u, "forgetApp") ELSE EndTask(u)
  /\ fetched' = fetched \ {job[u].app}
  /\ UNCHANGED <<prod, rec, compose, containers, image, procfile, server, installed, Marks>>

-----------------------------------------------------------------------------
(* Failures. *)

\* The steps that run a command, and those of them that need the containers.
Inside   == {"get", "install", "assets", "uninstall", "removeCode"}
CommandSteps == Inside \cup {"write", "up", "startUp", "startDev", "stop", "build", "debugpy", "restartWeb",
                          "restartApps", "snapshot"}
\* Where an operation has promised what it has not yet done.
Promised == {"write", "up", "restart", "startUp", "startDev", "build", "restartWeb", "restartApps"}

\* Containers that are left as they were, or partly replaced.
Mixed == [compose |-> NoFile, image |-> 1]

TaskFails(u) ==
  /\ step[u] \in CommandSteps
  /\ \/ mishaps < MaxMishaps /\ mishaps' = mishaps + 1
     \/ step[u] \in Inside /\ containers = Down /\ UNCHANGED mishaps
  /\ step[u] = "stop" => containers # Down
  /\ containers' \in {containers} \cup IF step[u] \in {"up", "startUp", "stop"} THEN {Mixed} ELSE {}
  /\ fetched' \in {fetched} \cup IF step[u] = "get" THEN {fetched \cup {job[u].app}} ELSE {}
  /\ installed' \in {installed} \cup IF step[u] = "install" THEN {installed \cup {job[u].app}} ELSE {}
  /\ unapplied' = (unapplied \/ step[u] \in Promised \/ containers' = Mixed)
  /\ unfinished' = IF step[u] \in Inside THEN unfinished \cup {job[u].app} ELSE unfinished
  /\ EndTask(u)
  /\ UNCHANGED <<prod, rec, compose, image, procfile, server, count>>

KillTask(u) ==
  /\ step[u] # "idle" /\ mishaps < MaxMishaps /\ mishaps' = mishaps + 1
  /\ unapplied' = (unapplied \/ step[u] \in Promised)
  /\ unfinished' = IF step[u] \in Inside \cup {"recordApp", "forgetApp"} THEN unfinished \cup {job[u].app} ELSE unfinished
  /\ EndTask(u)
  /\ UNCHANGED <<World, count>>

RolloutNext ==
  \/ \E u \in Actors, t \in Rollouts : BeginTask(u, t)
  \/ \E u \in Actors :
       \/ RecordScale(u) \/ RecordDomain(u) \/ LookAtFile(u) \/ RecordBind(u) \/ Write(u) \/ RollOut(u)
       \/ RestartDevServer(u) \/ ComposeStart(u) \/ StartDev(u) \/ ComposeStop(u) \/ RebuildImage(u)
       \/ Debugpy(u) \/ SetDebugWeb(u) \/ RestartWeb(u)
       \/ GetApp(u) \/ Install(u) \/ Assets(u) \/ RecordApp(u) \/ RestartApps(u)
       \/ SnapshotFirst(u) \/ LockRemove(u) \/ Uninstall(u) \/ RemoveCode(u)
       \/ TaskFails(u) \/ KillTask(u)

RolloutSpec == RolloutInit /\ [][RolloutNext]_rvars

-----------------------------------------------------------------------------
(* Properties. *)

AtRest == \A u \in Actors : step[u] = "idle"

\* When nobody works on a bench, docker-compose.yml is what its record renders to,
\* its containers are made from that file, and a dev server runs the web line of
\* the Procfile: however settings, domains, debugging, starts and stops of several
\* users followed each other, unless an error or a killed ffm came after the last
\* change that was rolled out, or two changes overlapped.
RecordRuns ==
  AtRest /\ ~unapplied =>
    /\ compose = RenderCompose(rec)
    /\ containers = Down \/ containers = [compose |-> compose, image |-> image]
    /\ containers = Down \/ prod \/ server = procfile

\* recreate and backups know the apps of a bench from its record: it names every
\* app of the site and none that is gone, unless an add or a removal of that app
\* failed half-way or is at work, or its repository has another name.
AppsRecorded ==
  \A a \in Apps \ (unfinished \cup Misnamed) :
    (\A u \in Actors : job[u] # Nil /\ job[u].kind \in {"addApp", "removeApp"} => job[u].app # a) =>
      /\ a \in installed => a \in rec.apps
      /\ a \in rec.apps => a \in fetched
\* What a failed Scale says of its counts, "'ffm reconcile' applies them again"
\* (scale.go:208), and Reconcile of itself: a reconcile that ends without an error
\* leaves the containers of a running bench made from its record.
ReconcileApplies ==
  [][\A u \in Actors :
       step[u] # "idle" /\ job[u].kind = "reconcile" /\ step'[u] = "idle" /\ mishaps' = mishaps =>
         containers' = Down \/ containers'.compose = RenderCompose(rec')]_rvars
=============================================================================
