---------------------------- MODULE UpkeepProofs ----------------------------
(***************************************************************************)
(* What upkeep promises of one bench, for any users, snapshots, root       *)
(* accounts, releases, passwords and failures: visitors are served one     *)
(* release (ServedWhole), an update that says it rolled back has put       *)
(* everything back (RollbackWhole), and no password is lost unnoticed      *)
(* (PasswordsKnown).  Only the holder of the bench lock works on the site, *)
(* so each invariant says what that holder knows at its step.              *)
(*                                                                         *)
(* Then Rollout: a bench runs what its record says (RecordRuns), as each   *)
(* difference is the work of an operation that is about to remove it, and  *)
(* its record names its apps (AppsRecorded).  At the end, Worktree: no     *)
(* command costs a user work (WorktreesSafe), as each step of a command    *)
(* knows what it rests on (StepKnows).                                     *)
(***************************************************************************)
EXTENDS Upkeep, Rollout, Worktree, TLAPS

-----------------------------------------------------------------------------
(* Types, the lock, and the steps of each task *)

Parts == 0..MaxRelease
Envs  == [tool : 0..2, reqs : Parts]
Recs  == [branch : Releases, tool : 0..2, admin : Nat, root : Nat]
Sites == [code : Parts, branch : Releases, env : Envs, prev : Envs, image : 1..2, schema : Parts, admin : Nat,
          assets : Parts, live : Parts, maint : BOOLEAN, paused : BOOLEAN]
Dumps == [schema : Parts, admin : Nat]
Dirs  == [dir : BOOLEAN, dump : Dumps, meta : BOOLEAN, cut : BOOLEAN]
Bases == [rec : Recs, site : Sites]

Snapping == {"snapDir", "snapDump", "snapMeta"}
Updating == {"backup", "maintOn", "pause", "finish", "ping", "dropPrev", "undone"} \cup Applying \cup RollingBack
Loading  == {"swap", "swapMigrate", "swapAdmin", "swapFlush"}
Rooting  == {"alter", "unalter", "secret", "root"}
Unlocked == {"idle", "unlink", "rmdir", "compose"}
Steps    == Unlocked \cup Snapping \cup Updating \cup Loading \cup Rooting \cup {"hosts", "trim", "pick", "justMigrate", "setAdmin", "admin"}

StepsOf(kind) ==
  CASE kind = "update" -> Snapping \cup Updating
    [] kind = "snapshot" -> Snapping
    [] kind = "trim" -> Snapping \cup {"trim"}
    [] kind = "delete" -> {"unlink", "rmdir"}
    [] kind = "restore" -> {"pick"} \cup Loading
    [] kind = "import" -> Loading
    [] kind = "migrate" -> {"justMigrate"}
    [] kind = "rotateRoot" -> {"hosts"} \cup Rooting
    [] kind = "domain" -> {"compose"}
    [] kind \in {"rotateAdmin", "password", "agent"} -> {"setAdmin", "admin"}

StoresOK ==
  /\ brec \in Recs
  /\ site \in Sites
  /\ roots \in [RootHosts -> Nat] /\ secret \in Nat
  /\ snaps \in [SnapNames -> Dirs]

HistoryOK ==
  /\ begun \in Nat /\ ufaults \in Nat /\ issued \in Nat
  /\ told \in SUBSET Nat /\ loose \in SUBSET {"admin", "dump", "agent", "root", "secret", "lost"} /\ excused \in BOOLEAN

\* A step off the lock is a deletion's or a domain's; at all others u holds it.
LockOK(u) == at[u] \in Unlocked <=> holder # u

TaskOK(u) ==
  at[u] # "idle" =>
    /\ task[u] \in Tasks /\ at[u] \in StepsOf(task[u].kind)
    /\ at[u] \in {"toolchain", "image", "venv", "branch"} => task[u].to # 0
    /\ holder = u \/ at[u] = "compose" => base[u] \in Bases

ControlOK ==
  /\ holder \in Users \cup {Nobody}
  /\ at \in [Users -> Steps]
  /\ task \in [Users -> Tasks \cup {Nobody}]
  /\ base \in [Users -> Bases \cup {Nobody}]
  /\ \A u \in Users : LockOK(u) /\ TaskOK(u)

TypeInv == StoresOK /\ HistoryOK /\ ControlOK

-----------------------------------------------------------------------------
(* What an update knows of the site *)

AfterRestart == {"branch", "finish", "ping", "dropPrev"}
AfterBuild   == {"patch", "restart"} \cup AfterRestart
AfterMigrate == {"build"} \cup AfterBuild
AfterReqs    == {"cache", "migrate"} \cup AfterMigrate
AfterCode    == {"toolchain", "image", "venv", "reqs"} \cup AfterReqs
UndoneBuild  == {"undoPatch", "undoRestart", "undone"}
UndoneSwap   == {"undoAdmin", "undoBuild"} \cup UndoneBuild
UndoneReqs   == {"undoCache", "undoPick", "undoSwap"} \cup UndoneSwap
UndoneCode   == {"undoTool", "undoImage", "undoEnv", "undoReqs"} \cup UndoneReqs
Untouched    == {"backup", "maintOn", "pause", "revert", "code"} \cup Snapping
Hidden       == {"pause"} \cup Applying \cup RollingBack

\* Which parts of the site are at the release of the code again.
Progress(at_, s) ==
  /\ at_ \in AfterCode => s.code # 0
  /\ at_ \in AfterReqs \cup UndoneReqs => s.env.reqs = s.code
  /\ at_ \in AfterMigrate => s.schema = s.code
  /\ at_ \in AfterBuild \cup UndoneBuild => s.assets = s.code
  /\ at_ \in AfterRestart \cup {"undone"} => s.live = s.code

\* What a rollback has put back, and that nothing was touched before the code
\* moved; a snapshot has the schema the update found, or its dump is gone.
Back(u) ==
  /\ at[u] \in UndoneCode => site.code = base[u].site.code /\ site.branch = base[u].site.branch
  /\ at[u] \in UndoneSwap => site.schema = base[u].site.schema
  /\ at[u] \in Untouched =>
       Code(site) = Code(base[u].site) /\ site.prev = base[u].site.prev /\ brec = base[u].rec
  /\ at[u] \in {"snapMeta"} \cup (Updating \ {"backup"}) =>
       snaps[task[u].snap].dump = NoDump \/ snaps[task[u].snap].dump.schema = base[u].site.schema

\* The site is hidden behind maintenance mode while it is half-way.
Served(u) ==
  /\ excused \/ Whole(base[u].site)
  /\ at[u] \in Hidden => site.maint \/ excused

\* The toolchain that the update found, in the virtualenv or in the one set aside.
Tools(u) ==
  LET t == ToolOf(base[u].rec)
      tool == base[u].rec.tool
      kept == (site.prev = NoEnv /\ site.env.tool = t) \/ site.prev.tool = t
  IN  Sound(base[u]) =>
        /\ at[u] \in {"toolchain", "image", "venv"} => site.env.tool = t /\ site.prev = NoEnv
        /\ at[u] = "toolchain" => brec.tool = tool
        /\ at[u] \in {"image", "venv"} => brec.tool = task[u].tool
        /\ at[u] \in {"image", "undoTool"} => brec.tool # tool
        /\ at[u] \in (Applying \cup {"finish", "ping", "dropPrev", "undoRevert", "undoCode"}) =>
             IF brec.tool = tool THEN site.image = t /\ (site.env = NoEnv \/ site.env.tool = t) ELSE kept
        /\ at[u] \in {"undoTool", "undoImage", "undoEnv"} => kept
        /\ at[u] \in UndoneCode \ {"undoTool"} => brec.tool = tool
        /\ at[u] \in {"undoEnv", "undoReqs"} \cup UndoneReqs => site.image = t
        /\ at[u] = "undoReqs" => site.env = NoEnv \/ site.env.tool = t
        /\ at[u] \in UndoneReqs => site.env.tool = t

UpdateKnows(u) ==
  holder = u =>
    /\ task[u].kind = "update" => Progress(at[u], site) /\ Back(u) /\ Served(u) /\ Tools(u)
    /\ at[u] = "swapMigrate" => excused

UpdateInv == TypeInv /\ ServedWhole /\ \A u \in Users : UpdateKnows(u)

-----------------------------------------------------------------------------
(* What is known of the passwords *)

At(steps) == \E u \in Users : holder = u /\ at[u] \in steps

Replacing == At(Rooting)

AdminKnown == site.admin \in {brec.admin} \cup told \/ "admin" \in loose \/ "dump" \in loose \/ "agent" \in loose

RootsKnown ==
  \/ \A h \in RootHosts : roots[h] = brec.root /\ (secret \in {roots[h]} \cup told \/ "secret" \in loose)
  \/ \E p \in told : \A h \in RootHosts : roots[h] = p
  \/ "root" \in loose /\ (ufaults > 1 \/ "secret" \in loose)

\* Only while it is replaced does nobody know a password.
AdminFound == At({"admin", "swapMigrate", "swapAdmin", "undoAdmin"}) \/ AdminKnown
RootsFound == Replacing \/ RootsKnown

\* What the steps of a replacement have done: root accounts have the new password
\* or an issued one, the session's own is the last to get it, and the secret and
\* the record follow when all have it.
AdminSet    == At({"admin"}) => site.admin = New
NoneAhead   == brec.root =< issued /\ \A h \in RootHosts : roots[h] =< issued \/ (roots[h] = New /\ Replacing)
OwnIsLast   == At({"alter"}) => roots[Localhost] =< issued
AllAltered  == At({"secret", "root"}) => \A h \in RootHosts : roots[h] = New
SecretKnown == (IF At({"root"}) THEN secret = New ELSE secret \in {brec.root} \cup told) \/ "secret" \in loose

\* The secret opens a session as it did when the accounts were listed, and the
\* accounts are put back after a failed command, unless the secret was rewritten.
SecretOpens ==
  /\ At({"alter", "unalter"}) => roots[Localhost] = secret \/ "secret" \in loose
  /\ At({"unalter"}) => ufaults >= 1 \/ "secret" \in loose

PasswordInv ==
  "lost" \notin loose =>
    AdminFound /\ RootsFound /\ AdminSet /\ NoneAhead /\ OwnIsLast /\ AllAltered /\ SecretKnown /\ SecretOpens

-----------------------------------------------------------------------------
(* Types *)

\* What each kind of task is about.
LEMMA TaskIs ==
  ASSUME NEW t \in Tasks
  PROVE  /\ t.kind = "update" => t.to \in {0} \cup Releases /\ t.tool \in 1..2 /\ t.undo \in BOOLEAN
         /\ t.kind \in {"update", "snapshot", "delete", "trim", "restore"} => t.snap \in SnapNames
         /\ t.kind = "import" => t.schema \in Releases
         /\ t.kind \in {"restore", "import"} => t.migrate \in BOOLEAN
         /\ t.kind \in {"update", "snapshot", "delete", "trim", "restore", "import", "migrate", "rotateRoot",
                        "rotateAdmin", "password", "agent", "domain"}
BY DEF Tasks

\* At each step, what the task is.
LEMMA KindAt ==
  ASSUME ControlOK, NEW u \in Users, at[u] # "idle"
  PROVE  /\ task[u] \in Tasks
         /\ at[u] \in Updating => task[u].kind = "update"
         /\ at[u] \in Snapping => task[u].kind \in {"update", "snapshot", "trim"}
         /\ at[u] \in Loading => task[u].kind \in {"restore", "import"}
         /\ at[u] \in {"hosts"} \cup Rooting => task[u].kind = "rotateRoot"
         /\ at[u] = "compose" <=> task[u].kind = "domain"
         /\ at[u] \in {"setAdmin", "admin"} => task[u].kind \in {"rotateAdmin", "password", "agent"}
         /\ at[u] = "trim" => task[u].kind = "trim"
         /\ at[u] = "pick" => task[u].kind = "restore"
         /\ at[u] = "justMigrate" => task[u].kind = "migrate"
         /\ at[u] \in {"unlink", "rmdir"} <=> task[u].kind = "delete"
<1>1. task[u] \in Tasks /\ at[u] \in StepsOf(task[u].kind)
  BY DEF ControlOK, TaskOK
<1>2. task[u].kind \in {"update", "snapshot", "delete", "trim", "restore", "import", "migrate", "rotateRoot",
                        "rotateAdmin", "password", "agent", "domain"}
  BY <1>1, TaskIs
<1> QED
  BY <1>1, <1>2 DEF StepsOf, Snapping, Updating, Applying, RollingBack, Loading, Rooting

\* A task goes on at a step of its own.
LEMMA GoesOn ==
  ASSUME ControlOK, NEW u \in Users, holder = u \/ at[u] \in {"unlink", "rmdir"}, NEW next \in StepsOf(task[u].kind), Go(u, next),
         next \in Unlocked <=> holder # u, next \notin {"idle", "compose"},
         next \in {"toolchain", "image", "venv", "branch"} => task[u].to # 0
  PROVE  ControlOK' /\ at'[u] = next /\ holder' = holder /\ task' = task /\ base' = base
<1>1. /\ at' = [at EXCEPT ![u] = next] /\ holder' = holder /\ task' = task /\ base' = base
  BY DEF Go
<1>2. at[u] # "idle" /\ task[u] \in Tasks
  BY DEF ControlOK, LockOK, Unlocked, TaskOK
<1>3. next \in Steps
  <2>1. task[u].kind \in {"update", "snapshot", "delete", "trim", "restore", "import", "migrate", "rotateRoot",
                        "rotateAdmin", "password", "agent", "domain"}
    BY <1>2, TaskIs
  <2> QED
    BY <2>1 DEF StepsOf, Steps, Unlocked
<1>4. at' \in [Users -> Steps] /\ at'[u] = next /\ \A v \in Users \ {u} : at'[v] = at[v]
  BY <1>1, <1>3 DEF ControlOK
<1>5. \A v \in Users : LockOK(v)'
  BY <1>1, <1>4 DEF ControlOK, LockOK
<1>6. \A v \in Users \ {u} : TaskOK(v)'
  BY <1>1, <1>4 DEF ControlOK, TaskOK
<1>7. TaskOK(u)'
  BY <1>1, <1>2, <1>4 DEF ControlOK, TaskOK
<1> QED
  BY <1>1, <1>4, <1>5, <1>6, <1>7 DEF ControlOK

\* A task that ends leaves the lock free and its user idle.
LEMMA GoesHome ==
  ASSUME ControlOK, NEW u \in Users, Leave(u)
  PROVE  ControlOK' /\ at'[u] = "idle" /\ holder' # u /\ holder' \in {holder, Nobody}
<1>1. /\ holder' = IF holder = u THEN Nobody ELSE holder
      /\ at' = [at EXCEPT ![u] = "idle"] /\ task' = [task EXCEPT ![u] = Nobody] /\ base' = [base EXCEPT ![u] = Nobody]
  BY DEF Leave
<1>2. Nobody # u
  BY UpkeepAssumption
<1>3. /\ at' \in [Users -> Steps] /\ at'[u] = "idle" /\ \A v \in Users \ {u} : at'[v] = at[v]
      /\ task' \in [Users -> Tasks \cup {Nobody}] /\ \A v \in Users \ {u} : task'[v] = task[v]
      /\ base' \in [Users -> Bases \cup {Nobody}] /\ \A v \in Users \ {u} : base'[v] = base[v]
  BY <1>1 DEF ControlOK, Steps, Unlocked
<1>4. ASSUME NEW v \in Users PROVE LockOK(v)' /\ TaskOK(v)'
  <2>1. CASE v = u
    BY <1>1, <1>2, <1>3, <2>1 DEF LockOK, TaskOK, Unlocked
  <2>2. CASE v # u
    <3>1. holder' = v <=> holder = v
      BY <1>1, <2>2, UpkeepAssumption
    <3> QED
      BY <1>3, <2>2, <3>1 DEF ControlOK, LockOK, TaskOK
  <2> QED
    BY <2>1, <2>2
<1>5. holder' # u /\ holder' \in {holder, Nobody}
  BY <1>1, <1>2
<1>6. holder' \in Users \cup {Nobody}
  BY <1>5 DEF ControlOK
<1>7. ControlOK'
  BY <1>3, <1>4, <1>6 DEF ControlOK
<1> QED
  BY <1>3, <1>5, <1>7

\* What stands for no virtualenv and no dump is none.
LEMMA NoneIs == NoEnv.tool = 0 /\ NoEnv.reqs = 0 /\ NoDump.schema = 0 /\ NoDump.admin = 0
BY DEF NoEnv, NoDump

\* Initially all is of one release.
LEMMA InitType ==
  ASSUME UpkeepInit
  PROVE  TypeInv
<1> USE DEF UpkeepInit
<1>1. MaxRelease \in Nat /\ 1 \in Releases /\ 0 \in Parts /\ 1 \in Parts
  BY UpkeepAssumption DEF Releases, Parts
<1>2. NoEnv \in Envs /\ [tool |-> 1, reqs |-> 1] \in Envs
  BY <1>1 DEF NoEnv, Envs
<1>3. NoDump \in Dumps
  BY <1>1 DEF NoDump, Dumps
<1>4. brec \in Recs
  BY <1>1 DEF Recs
<1>5. site \in Sites
  BY <1>1, <1>2 DEF Sites
<1>6. snaps \in [SnapNames -> Dirs]
  BY <1>3 DEF Dirs
<1>7. StoresOK
  BY <1>4, <1>5, <1>6 DEF StoresOK
<1>8. HistoryOK
  BY DEF HistoryOK
<1>9. ControlOK
  BY UpkeepAssumption DEF ControlOK, LockOK, TaskOK, Steps, Unlocked
<1> QED
  BY <1>7, <1>8, <1>9 DEF TypeInv

\* What a command may make of the site.
LEMMA SiteStays ==
  ASSUME NEW s \in Sites
  PROVE  /\ \A v \in Parts : [s EXCEPT !.code = v] \in Sites
         /\ \A v \in Parts : [s EXCEPT !.schema = v] \in Sites
         /\ \A v \in Parts : [s EXCEPT !.assets = v] \in Sites
         /\ \A v \in Parts : [s EXCEPT !.live = v] \in Sites
         /\ \A v \in Nat : [s EXCEPT !.admin = v] \in Sites
         /\ \A v \in 1..2, w \in Parts : [s EXCEPT !.image = v, !.live = w] \in Sites
         /\ \A v \in Parts, w \in Releases : [s EXCEPT !.code = v, !.branch = w] \in Sites
         /\ \A v \in Parts, w \in Nat : [s EXCEPT !.schema = v, !.admin = w] \in Sites
         /\ \A v \in Envs : [s EXCEPT !.env = v] \in Sites
         /\ \A v \in Envs : [s EXCEPT !.prev = v] \in Sites
         /\ \A v \in Envs, w \in Envs : [s EXCEPT !.env = v, !.prev = w] \in Sites
         /\ \A v \in Envs, w \in Envs : [s EXCEPT !.prev = w, !.env = v] \in Sites
         /\ \A v \in Parts : [s EXCEPT !.env.reqs = v] \in Sites
         /\ \A v \in BOOLEAN, w \in BOOLEAN : [s EXCEPT !.maint = v, !.paused = w] \in Sites
         /\ \A v \in BOOLEAN : [s EXCEPT !.maint = v] \in Sites
         /\ \A v \in BOOLEAN : [s EXCEPT !.paused = v] \in Sites
<1>1. \A v \in Parts : [s EXCEPT !.code = v] \in Sites
  BY DEF Sites
<1>2. \A v \in Parts : [s EXCEPT !.schema = v] \in Sites
  BY DEF Sites
<1>3. \A v \in Parts : [s EXCEPT !.assets = v] \in Sites
  BY DEF Sites
<1>4. \A v \in Parts : [s EXCEPT !.live = v] \in Sites
  BY DEF Sites
<1>5. \A v \in Nat : [s EXCEPT !.admin = v] \in Sites
  BY DEF Sites
<1>6. \A v \in 1..2, w \in Parts : [s EXCEPT !.image = v, !.live = w] \in Sites
  BY DEF Sites
<1>7. \A v \in Parts, w \in Releases : [s EXCEPT !.code = v, !.branch = w] \in Sites
  BY DEF Sites
<1>8. \A v \in Parts, w \in Nat : [s EXCEPT !.schema = v, !.admin = w] \in Sites
  BY DEF Sites
<1>9. \A v \in Envs : [s EXCEPT !.env = v] \in Sites
  BY DEF Sites
<1>10. \A v \in Envs : [s EXCEPT !.prev = v] \in Sites
  BY DEF Sites
<1>11. \A v \in Envs, w \in Envs : [s EXCEPT !.env = v, !.prev = w] \in Sites
  BY DEF Sites
<1>12. \A v \in Envs, w \in Envs : [s EXCEPT !.prev = w, !.env = v] \in Sites
  BY DEF Sites
<1>13. \A v \in Parts : [s EXCEPT !.env.reqs = v] \in Sites
  BY DEF Sites, Envs
<1>14. \A v \in BOOLEAN, w \in BOOLEAN : [s EXCEPT !.maint = v, !.paused = w] \in Sites
  BY Zenon DEF Sites
<1>15. \A v \in BOOLEAN : [s EXCEPT !.maint = v] \in Sites
  BY Zenon DEF Sites
<1>16. \A v \in BOOLEAN : [s EXCEPT !.paused = v] \in Sites
  BY Zenon DEF Sites
<1> QED
  BY <1>1, <1>2, <1>3, <1>4, <1>5, <1>6, <1>7, <1>8, <1>9, <1>10, <1>11, <1>12, <1>13, <1>14, <1>15, <1>16

-----------------------------------------------------------------------------
(* Updates: how their invariant is kept *)

\* Only the holder of the lock knows something of the site: when its task goes
\* on, what it knows then is all there is to show.
LEMMA HolderGoes ==
  ASSUME UpdateInv, NEW u \in Users, holder = u, NEW next \in StepsOf(task[u].kind) \ Unlocked, Go(u, next),
         next \in {"toolchain", "image", "venv", "branch"} => task[u].to # 0,
         StoresOK', HistoryOK', ServedWhole',
         task[u].kind = "update" => (Progress(at[u], site) /\ Back(u) /\ Served(u) /\ Tools(u))',
         next = "swapMigrate" => excused'
  PROVE  UpdateInv'
<1>1. ControlOK' /\ at'[u] = next /\ holder' = holder /\ task' = task
  BY GoesOn DEF UpdateInv, TypeInv, Unlocked
<1>2. \A v \in Users : UpdateKnows(v)'
  BY <1>1 DEF UpdateKnows
<1> QED
  BY <1>1, <1>2 DEF UpdateInv, TypeInv

\* When it ends, nobody need know anything.
LEMMA HolderEnds ==
  ASSUME UpdateInv, NEW u \in Users, holder = u, Leave(u), StoresOK', HistoryOK', ServedWhole'
  PROVE  UpdateInv'
<1>1. ControlOK' /\ holder' = Nobody
  BY GoesHome DEF UpdateInv, TypeInv, Leave
<1>2. \A v \in Users : UpdateKnows(v)'
  BY <1>1, UpkeepAssumption DEF UpdateKnows
<1> QED
  BY <1>1, <1>2 DEF UpdateInv, TypeInv

\* A step of an update behind maintenance mode leaves it on.
LEMMA HiddenStep ==
  ASSUME UpdateInv, NEW u \in Users, NEW from \in Hidden, NEW next \in Hidden \cup {"branch", "finish", "undone"},
         NEW after \in Sites, at[u] = from, site' = after, Go(u, next), HistoryOK',
         UNCHANGED <<brec, roots, secret, snaps, excused>>, after.maint = site.maint,
         next \in {"toolchain", "image", "venv", "branch"} => task[u].to # 0,
         Progress(next, after), Back(u)', Tools(u)'
  PROVE  UpdateInv'
<1>2. from \in Updating \ Unlocked /\ next \in Updating \ Unlocked /\ next # "swapMigrate"
  BY DEF Hidden, Updating, Applying, RollingBack, Unlocked
<1>3. ControlOK /\ holder = u /\ task[u].kind = "update"
  BY <1>2, KindAt DEF UpdateInv, TypeInv, ControlOK, LockOK, Unlocked
<1>4. next \in StepsOf(task[u].kind) \ Unlocked
  BY <1>2, <1>3 DEF StepsOf
<1>5. StoresOK'
  BY DEF UpdateInv, TypeInv, StoresOK
<1>6. Served(u) /\ (site.maint \/ excused)
  BY <1>3 DEF UpdateInv, UpdateKnows, Served
<1>7. ServedWhole'
  BY <1>6 DEF ServedWhole
<1>8. at'[u] = next /\ base' = base
  BY <1>3, <1>4, GoesOn DEF Unlocked
<1>9. Served(u)'
  BY <1>6, <1>8 DEF Served
<1>10. Progress(at[u], site)'
  BY <1>8 DEF Progress
<1> QED
  BY <1>2, <1>3, <1>4, <1>5, <1>7, <1>9, <1>10, HolderGoes

\* So does a command that changes nothing but the site.
LEMMA HiddenCommand ==
  ASSUME UpdateInv, NEW u \in Users, NEW from \in Hidden, NEW next \in Hidden \cup {"branch", "finish", "undone"},
         NEW after \in Sites, Command(u, from, next, after), after.maint = site.maint,
         next \in {"toolchain", "image", "venv", "branch"} => task[u].to # 0,
         Progress(next, after), Back(u)', Tools(u)'
  PROVE  UpdateInv'
<1>1. /\ at[u] = from /\ site' = after /\ Go(u, next) /\ HistoryOK'
      /\ UNCHANGED <<brec, roots, secret, snaps, excused>>
  BY DEF Command, UpdateInv, TypeInv, HistoryOK, History
<1> QED
  BY <1>1, HiddenStep

\* What the holder of the lock knows at a step of an update.
LEMMA Knowing ==
  ASSUME UpdateInv, NEW u \in Users, at[u] \in Updating
  PROVE  /\ holder = u /\ task[u].kind = "update" /\ task[u] \in Tasks /\ base[u] \in Bases
         /\ task[u].to \in {0} \cup Releases /\ task[u].tool \in 1..2 /\ task[u].undo \in BOOLEAN /\ task[u].snap \in SnapNames
         /\ Progress(at[u], site) /\ Back(u) /\ Served(u) /\ Tools(u)
         /\ site \in Sites /\ brec \in Recs /\ StoresOK /\ HistoryOK /\ ControlOK
<1>1. at[u] \notin Unlocked
  BY DEF Updating, Applying, RollingBack, Unlocked
<1>2. ControlOK /\ holder = u /\ task[u].kind = "update" /\ task[u] \in Tasks /\ base[u] \in Bases
  BY <1>1, KindAt DEF UpdateInv, TypeInv, ControlOK, LockOK, TaskOK, Unlocked
<1> QED
  BY <1>2, TaskIs DEF UpdateInv, TypeInv, StoresOK, UpdateKnows

\* The release an update moves to is one.
LEMMA TargetIs ==
  ASSUME UpdateInv, NEW u \in Users, at[u] \in Updating
  PROVE  Target(u) \in Parts \ {0}
<1>1. site.code \in Parts /\ task[u].to \in {0} \cup Releases
  BY Knowing DEF Sites
<1>2. MaxRelease \in Nat \ {0}
  BY UpkeepAssumption
<1> QED
  BY <1>1, <1>2 DEF Target, Parts, Releases

\* What it means to serve one release, and to begin with one toolchain.
LEMMA WholeIs ==
  ASSUME NEW s
  PROVE  Whole(s) <=> s.code # 0 /\ s.env.reqs = s.code /\ s.schema = s.code /\ s.assets = s.code /\ s.live = s.code
BY DEF Whole

LEMMA SoundIs ==
  ASSUME NEW b
  PROVE  Sound(b) <=> Whole(b.site) /\ b.site.prev = NoEnv /\ b.site.image = ToolOf(b.rec) /\ b.site.env.tool = ToolOf(b.rec)
BY DEF Sound

-----------------------------------------------------------------------------
(* Updates: the commands *)

\* The schedulers stop behind maintenance mode.
LEMMA UpdatePause ==
  ASSUME UpdateInv, NEW u \in Users, Pause(u)
  PROVE  UpdateInv'
<1> DEFINE after == [site EXCEPT !.paused = TRUE]
<1>1. at[u] = "pause" /\ Command(u, "pause", "revert", after) /\ at[u] \in Updating
  BY DEF Pause, Command, Updating, Applying, RollingBack
<1>2. site \in Sites /\ site.env \in Envs /\ site.prev \in Envs
  BY <1>1, Knowing, TargetIs, UpkeepAssumption DEF Sites, Envs, Bases, Recs, ToolOf, Parts, Releases, NoEnv
<1>3. /\ after.code = site.code /\ after.branch = site.branch /\ after.env = site.env
      /\ after.prev = site.prev /\ after.image = site.image /\ after.schema = site.schema
      /\ after.assets = site.assets /\ after.live = site.live /\ after.maint = site.maint
  BY <1>2 DEF Sites, Envs
<1>4. after \in Sites
  BY <1>1, <1>2, SiteStays
<1> HIDE DEF after
<1>5. /\ site' = after /\ at'[u] = "revert" /\ UNCHANGED <<brec, snaps, task, base>>
  BY <1>1, Knowing DEF Command, Go, ControlOK
<1>6. Progress("revert", after)
  BY <1>1, <1>2, <1>3, Knowing DEF Progress, AfterCode, AfterReqs, AfterMigrate, AfterBuild, AfterRestart, UndoneReqs, UndoneSwap, UndoneBuild, Applying, RollingBack
<1>7. Back(u)'
  BY <1>1, <1>2, <1>3, <1>5, Knowing DEF Back, Code, UndoneCode, UndoneReqs, UndoneSwap, UndoneBuild, Untouched, Snapping, Updating, Applying, RollingBack
<1>8. Tools(u)'
  <2>1. Code(site) = Code(base[u].site) /\ site.prev = base[u].site.prev /\ brec = base[u].rec
    BY <1>1, Knowing DEF Back, Untouched
  <2> QED
    BY <1>1, <1>3, <1>5, <2>1, Knowing, NoneIs, SoundIs DEF Tools, Code, Applying, RollingBack, UndoneCode, UndoneReqs, UndoneSwap, UndoneBuild
<1> QED
  BY <1>1, <1>3, <1>4, <1>6, <1>7, <1>8, HiddenCommand DEF Hidden, Applying, RollingBack

\* Edits made to the apps go, which no part of the site knows.
LEMMA UpdateRevert ==
  ASSUME UpdateInv, NEW u \in Users, Revert(u)
  PROVE  UpdateInv'
<1> DEFINE after == site
<1>1. at[u] = "revert" /\ Command(u, "revert", "code", after) /\ at[u] \in Updating
  BY DEF Revert, Command, Updating, Applying, RollingBack
<1>2. site \in Sites /\ site.env \in Envs /\ site.prev \in Envs
  BY <1>1, Knowing, TargetIs, UpkeepAssumption DEF Sites, Envs, Bases, Recs, ToolOf, Parts, Releases, NoEnv
<1>3. /\ after.code = site.code /\ after.branch = site.branch /\ after.env = site.env
      /\ after.prev = site.prev /\ after.image = site.image /\ after.schema = site.schema
      /\ after.assets = site.assets /\ after.live = site.live /\ after.maint = site.maint
  BY <1>2 DEF Sites, Envs
<1>4. after \in Sites
  BY <1>1, <1>2, SiteStays
<1> HIDE DEF after
<1>5. /\ site' = after /\ at'[u] = "code" /\ UNCHANGED <<brec, snaps, task, base>>
  BY <1>1, Knowing DEF Command, Go, ControlOK
<1>6. Progress("code", after)
  BY <1>1, <1>2, <1>3, Knowing DEF Progress, AfterCode, AfterReqs, AfterMigrate, AfterBuild, AfterRestart, UndoneReqs, UndoneSwap, UndoneBuild, Applying, RollingBack
<1>7. Back(u)'
  BY <1>1, <1>2, <1>3, <1>5, Knowing DEF Back, Code, UndoneCode, UndoneReqs, UndoneSwap, UndoneBuild, Untouched, Snapping, Updating, Applying, RollingBack
<1>8. Tools(u)'
  <2>1. Code(site) = Code(base[u].site) /\ site.prev = base[u].site.prev /\ brec = base[u].rec
    BY <1>1, Knowing DEF Back, Untouched
  <2> QED
    BY <1>1, <1>3, <1>5, <2>1, Knowing, NoneIs, SoundIs DEF Tools, Code, Applying, RollingBack, UndoneCode, UndoneReqs, UndoneSwap, UndoneBuild
<1> QED
  BY <1>1, <1>3, <1>4, <1>6, <1>7, <1>8, HiddenCommand DEF Hidden, Applying, RollingBack

\* The code moves: the toolchain is still the one the update found.
LEMMA UpdatePull ==
  ASSUME UpdateInv, NEW u \in Users, Pull(u)
  PROVE  UpdateInv'
<1> DEFINE after == [site EXCEPT !.code = Target(u)]
<1>1. at[u] = "code" /\ Command(u, "code", "reqs", after) /\ at[u] \in Updating /\ task[u].to = 0
  BY DEF Pull, Command, Updating, Applying, RollingBack
<1>2. site \in Sites /\ site.env \in Envs /\ site.prev \in Envs /\ Target(u) \in Parts \ {0}
  BY <1>1, Knowing, TargetIs, UpkeepAssumption DEF Sites, Envs, Bases, Recs, ToolOf, Parts, Releases, NoEnv
<1>3. /\ after.code # 0 /\ after.branch = site.branch /\ after.env = site.env /\ after.prev = site.prev
      /\ after.image = site.image /\ after.schema = site.schema /\ after.assets = site.assets
      /\ after.live = site.live /\ after.maint = site.maint
  BY <1>2 DEF Sites, Envs
<1>4. after \in Sites
  BY <1>1, <1>2, SiteStays
<1> HIDE DEF after
<1>5. /\ site' = after /\ at'[u] = "reqs" /\ UNCHANGED <<brec, snaps, task, base>>
  BY <1>1, Knowing DEF Command, Go, ControlOK
<1>6. Progress("reqs", after)
  BY <1>1, <1>2, <1>3, Knowing DEF Progress, AfterCode, AfterReqs, AfterMigrate, AfterBuild, AfterRestart, UndoneReqs, UndoneSwap, UndoneBuild, Applying, RollingBack
<1>7. Back(u)'
  BY <1>1, <1>2, <1>3, <1>5, Knowing DEF Back, Code, UndoneCode, UndoneReqs, UndoneSwap, UndoneBuild, Untouched, Snapping, Updating, Applying, RollingBack
<1>8. Tools(u)'
  <2>1. Code(site) = Code(base[u].site) /\ site.prev = base[u].site.prev /\ brec = base[u].rec
    BY <1>1, Knowing DEF Back, Untouched
  <2> QED
    BY <1>1, <1>3, <1>5, <2>1, Knowing, NoneIs, SoundIs DEF Tools, Code, Applying, RollingBack, UndoneCode, UndoneReqs, UndoneSwap, UndoneBuild
<1> QED
  BY <1>1, <1>3, <1>4, <1>6, <1>7, <1>8, HiddenCommand DEF Hidden, Applying, RollingBack

\* The code and its branch move: the toolchain is still the one the update found.
LEMMA UpdateSwitch ==
  ASSUME UpdateInv, NEW u \in Users, Switch(u)
  PROVE  UpdateInv'
<1> DEFINE after == [site EXCEPT !.code = Target(u), !.branch = task[u].to]
<1>1. at[u] = "code" /\ Command(u, "code", "toolchain", after) /\ at[u] \in Updating /\ task[u].to # 0
  BY DEF Switch, Command, Updating, Applying, RollingBack
<1>2. site \in Sites /\ site.env \in Envs /\ site.prev \in Envs /\ Target(u) \in Parts \ {0} /\ task[u].to \in {0} \cup Releases
  BY <1>1, Knowing, TargetIs, UpkeepAssumption DEF Sites, Envs, Bases, Recs, ToolOf, Parts, Releases, NoEnv
<1>3. /\ after.code # 0 /\ after.env = site.env /\ after.prev = site.prev /\ after.image = site.image
      /\ after.schema = site.schema /\ after.assets = site.assets /\ after.live = site.live
      /\ after.maint = site.maint
  BY <1>2 DEF Sites, Envs
<1>4. after \in Sites
  BY <1>1, <1>2, SiteStays
<1> HIDE DEF after
<1>5. /\ site' = after /\ at'[u] = "toolchain" /\ UNCHANGED <<brec, snaps, task, base>>
  BY <1>1, Knowing DEF Command, Go, ControlOK
<1>6. Progress("toolchain", after)
  BY <1>1, <1>2, <1>3, Knowing DEF Progress, AfterCode, AfterReqs, AfterMigrate, AfterBuild, AfterRestart, UndoneReqs, UndoneSwap, UndoneBuild, Applying, RollingBack
<1>7. Back(u)'
  BY <1>1, <1>2, <1>3, <1>5, Knowing DEF Back, Code, UndoneCode, UndoneReqs, UndoneSwap, UndoneBuild, Untouched, Snapping, Updating, Applying, RollingBack
<1>8. Tools(u)'
  <2>1. Code(site) = Code(base[u].site) /\ site.prev = base[u].site.prev /\ brec = base[u].rec
    BY <1>1, Knowing DEF Back, Untouched
  <2> QED
    BY <1>1, <1>3, <1>5, <2>1, Knowing, NoneIs, SoundIs DEF Tools, Code, Applying, RollingBack, UndoneCode, UndoneReqs, UndoneSwap, UndoneBuild
<1> QED
  BY <1>1, <1>3, <1>4, <1>6, <1>7, <1>8, HiddenCommand DEF Hidden, Applying, RollingBack

\* The image changes with the toolchain, which the record has already.
LEMMA UpdateImage ==
  ASSUME UpdateInv, NEW u \in Users, Image(u)
  PROVE  UpdateInv'
<1> DEFINE after == [site EXCEPT !.image = task[u].tool, !.live = site.code]
<1>1. at[u] = "image" /\ Command(u, "image", "venv", after) /\ at[u] \in Updating
  BY DEF Image, Command, Updating, Applying, RollingBack
<1>2. site \in Sites /\ site.env \in Envs /\ site.prev \in Envs /\ site.code \in Parts /\ ToolOf(base[u].rec) \in 1..2 /\ task[u].tool \in 1..2
  BY <1>1, Knowing, TargetIs, UpkeepAssumption DEF Sites, Envs, Bases, Recs, ToolOf, Parts, Releases, NoEnv
<1>3. /\ after.code = site.code /\ after.branch = site.branch /\ after.env = site.env
      /\ after.prev = site.prev /\ after.image = task[u].tool /\ after.schema = site.schema
      /\ after.assets = site.assets /\ after.maint = site.maint
  BY <1>2 DEF Sites, Envs
<1>4. after \in Sites
  BY <1>1, <1>2, SiteStays
<1> HIDE DEF after
<1>5. /\ site' = after /\ at'[u] = "venv" /\ UNCHANGED <<brec, snaps, task, base>>
  BY <1>1, Knowing DEF Command, Go, ControlOK
<1>6. Progress("venv", after)
  BY <1>1, <1>2, <1>3, Knowing DEF Progress, AfterCode, AfterReqs, AfterMigrate, AfterBuild, AfterRestart, UndoneReqs, UndoneSwap, UndoneBuild, Applying, RollingBack
<1>7. Back(u)'
  BY <1>1, <1>2, <1>3, <1>5, Knowing DEF Back, Code, UndoneCode, UndoneReqs, UndoneSwap, UndoneBuild, Untouched, Snapping, Updating, Applying, RollingBack
<1>8. Tools(u)'
  BY <1>1, <1>2, <1>3, <1>5, Knowing, NoneIs, SoundIs DEF Tools, Back, Code, Applying, RollingBack, UndoneCode, UndoneReqs, UndoneSwap, UndoneBuild
<1>9. task[u].to # 0
  BY <1>1, Knowing DEF ControlOK, TaskOK
<1> QED
  BY <1>1, <1>3, <1>4, <1>6, <1>7, <1>8, <1>9, HiddenCommand DEF Hidden, Applying, RollingBack

\* The virtualenv that the update found is set aside.
LEMMA UpdateVenv ==
  ASSUME UpdateInv, NEW u \in Users, Venv(u)
  PROVE  UpdateInv'
<1> DEFINE after == [site EXCEPT !.prev = site.env, !.env = [tool |-> task[u].tool, reqs |-> 0]]
<1>1. at[u] = "venv" /\ Command(u, "venv", "reqs", after) /\ at[u] \in Updating
  BY DEF Venv, Command, Updating, Applying, RollingBack
<1>2. site \in Sites /\ site.env \in Envs /\ site.prev \in Envs /\ site.code \in Parts /\ ToolOf(base[u].rec) \in 1..2
      /\ task[u].tool \in 1..2 /\ [tool |-> task[u].tool, reqs |-> 0] \in Envs
  BY <1>1, Knowing, TargetIs, UpkeepAssumption DEF Sites, Envs, Bases, Recs, ToolOf, Parts, Releases, NoEnv
<1>3. /\ after.code = site.code /\ after.branch = site.branch /\ after.env.tool = task[u].tool
      /\ after.prev = site.env /\ after.image = site.image /\ after.schema = site.schema
      /\ after.assets = site.assets /\ after.live = site.live /\ after.maint = site.maint
  BY <1>2 DEF Sites, Envs
<1>4. after \in Sites
  BY <1>1, <1>2, SiteStays
<1> HIDE DEF after
<1>5. /\ site' = after /\ at'[u] = "reqs" /\ UNCHANGED <<brec, snaps, task, base>>
  BY <1>1, Knowing DEF Command, Go, ControlOK
<1>6. Progress("reqs", after)
  BY <1>1, <1>2, <1>3, Knowing DEF Progress, AfterCode, AfterReqs, AfterMigrate, AfterBuild, AfterRestart, UndoneReqs, UndoneSwap, UndoneBuild, Applying, RollingBack
<1>7. Back(u)'
  BY <1>1, <1>2, <1>3, <1>5, Knowing DEF Back, Code, UndoneCode, UndoneReqs, UndoneSwap, UndoneBuild, Untouched, Snapping, Updating, Applying, RollingBack
<1>8. Tools(u)'
  <2>1. Sound(base[u]) => site.env.tool = ToolOf(base[u].rec) /\ brec.tool = task[u].tool
    BY <1>1, Knowing DEF Tools
  <2>2. Sound(base[u]) => after.prev.tool = ToolOf(base[u].rec)
    BY <1>3, <2>1
  <2>3. Sound(base[u]) /\ brec.tool = base[u].rec.tool => site.image = ToolOf(base[u].rec)
    BY <1>1, Knowing DEF Tools, Applying
  <2>4. Sound(base[u]) /\ brec.tool = base[u].rec.tool => after.env.tool = ToolOf(base[u].rec)
    BY <1>2, <1>3, <2>1 DEF ToolOf
  <2> QED
    BY <1>3, <1>5, <2>2, <2>3, <2>4 DEF Tools, Applying, RollingBack, UndoneCode, UndoneReqs, UndoneSwap, UndoneBuild
<1> QED
  BY <1>1, <1>3, <1>4, <1>6, <1>7, <1>8, HiddenCommand DEF Hidden, Applying, RollingBack

\* The requirements follow the code.
LEMMA UpdateReqs ==
  ASSUME UpdateInv, NEW u \in Users, Reqs(u)
  PROVE  UpdateInv'
<1> DEFINE after == [site EXCEPT !.env.reqs = site.code]
<1>1. at[u] = "reqs" /\ Command(u, "reqs", "cache", after) /\ at[u] \in Updating /\ site.env # NoEnv
  BY DEF Reqs, Command, Updating, Applying, RollingBack
<1>2. site \in Sites /\ site.env \in Envs /\ site.prev \in Envs /\ site.code \in Parts /\ ToolOf(base[u].rec) \in 1..2
  BY <1>1, Knowing, TargetIs, UpkeepAssumption DEF Sites, Envs, Bases, Recs, ToolOf, Parts, Releases, NoEnv
<1>3. /\ after.code = site.code /\ after.branch = site.branch
      /\ after.env.reqs = site.code /\ after.env.tool = site.env.tool /\ after.prev = site.prev
      /\ after.image = site.image /\ after.schema = site.schema /\ after.assets = site.assets
      /\ after.live = site.live /\ after.maint = site.maint
  BY <1>2 DEF Sites, Envs
<1>4. after \in Sites
  BY <1>1, <1>2, SiteStays
<1> HIDE DEF after
<1>5. /\ site' = after /\ at'[u] = "cache" /\ UNCHANGED <<brec, snaps, task, base>>
  BY <1>1, Knowing DEF Command, Go, ControlOK
<1>6. Progress("cache", after)
  BY <1>1, <1>2, <1>3, Knowing DEF Progress, AfterCode, AfterReqs, AfterMigrate, AfterBuild, AfterRestart, UndoneReqs, UndoneSwap, UndoneBuild, Applying, RollingBack
<1>7. Back(u)'
  BY <1>1, <1>2, <1>3, <1>5, Knowing DEF Back, Code, UndoneCode, UndoneReqs, UndoneSwap, UndoneBuild, Untouched, Snapping, Updating, Applying, RollingBack
<1>8. Tools(u)'
  BY <1>1, <1>2, <1>3, <1>5, Knowing, NoneIs, SoundIs DEF Tools, Back, Code, Applying, RollingBack, UndoneCode, UndoneReqs, UndoneSwap, UndoneBuild
<1> QED
  BY <1>1, <1>3, <1>4, <1>6, <1>7, <1>8, HiddenCommand DEF Hidden, Applying, RollingBack

\* Clearing the cache changes nothing.
LEMMA UpdateCache ==
  ASSUME UpdateInv, NEW u \in Users, Cache(u)
  PROVE  UpdateInv'
<1> DEFINE after == site
<1>1. at[u] = "cache" /\ Command(u, "cache", "migrate", after) /\ at[u] \in Updating
  BY DEF Cache, Command, Updating, Applying, RollingBack
<1>2. site \in Sites /\ site.env \in Envs /\ site.prev \in Envs /\ site.code \in Parts /\ ToolOf(base[u].rec) \in 1..2
  BY <1>1, Knowing, TargetIs, UpkeepAssumption DEF Sites, Envs, Bases, Recs, ToolOf, Parts, Releases, NoEnv
<1>3. /\ after.code = site.code /\ after.branch = site.branch /\ after.env = site.env
      /\ after.prev = site.prev /\ after.image = site.image /\ after.schema = site.schema
      /\ after.assets = site.assets /\ after.live = site.live /\ after.maint = site.maint
  BY <1>2 DEF Sites, Envs
<1>4. after \in Sites
  BY <1>1, <1>2, SiteStays
<1> HIDE DEF after
<1>5. /\ site' = after /\ at'[u] = "migrate" /\ UNCHANGED <<brec, snaps, task, base>>
  BY <1>1, Knowing DEF Command, Go, ControlOK
<1>6. Progress("migrate", after)
  BY <1>1, <1>2, <1>3, Knowing DEF Progress, AfterCode, AfterReqs, AfterMigrate, AfterBuild, AfterRestart, UndoneReqs, UndoneSwap, UndoneBuild, Applying, RollingBack
<1>7. Back(u)'
  BY <1>1, <1>2, <1>3, <1>5, Knowing DEF Back, Code, UndoneCode, UndoneReqs, UndoneSwap, UndoneBuild, Untouched, Snapping, Updating, Applying, RollingBack
<1>8. Tools(u)'
  BY <1>1, <1>2, <1>3, <1>5, Knowing, NoneIs, SoundIs DEF Tools, Back, Code, Applying, RollingBack, UndoneCode, UndoneReqs, UndoneSwap, UndoneBuild
<1> QED
  BY <1>1, <1>3, <1>4, <1>6, <1>7, <1>8, HiddenCommand DEF Hidden, Applying, RollingBack

\* The schema follows the code.
LEMMA UpdateMigrate ==
  ASSUME UpdateInv, NEW u \in Users, Migrate(u)
  PROVE  UpdateInv'
<1> DEFINE after == [site EXCEPT !.schema = site.code]
<1>1. at[u] = "migrate" /\ Command(u, "migrate", "build", after) /\ at[u] \in Updating
  BY DEF Migrate, Command, Updating, Applying, RollingBack
<1>2. site \in Sites /\ site.env \in Envs /\ site.prev \in Envs /\ site.code \in Parts /\ ToolOf(base[u].rec) \in 1..2
  BY <1>1, Knowing, TargetIs, UpkeepAssumption DEF Sites, Envs, Bases, Recs, ToolOf, Parts, Releases, NoEnv
<1>3. /\ after.code = site.code /\ after.branch = site.branch /\ after.env = site.env
      /\ after.prev = site.prev /\ after.image = site.image /\ after.schema = site.code
      /\ after.assets = site.assets /\ after.live = site.live /\ after.maint = site.maint
  BY <1>2 DEF Sites, Envs
<1>4. after \in Sites
  BY <1>1, <1>2, SiteStays
<1> HIDE DEF after
<1>5. /\ site' = after /\ at'[u] = "build" /\ UNCHANGED <<brec, snaps, task, base>>
  BY <1>1, Knowing DEF Command, Go, ControlOK
<1>6. Progress("build", after)
  BY <1>1, <1>2, <1>3, Knowing DEF Progress, AfterCode, AfterReqs, AfterMigrate, AfterBuild, AfterRestart, UndoneReqs, UndoneSwap, UndoneBuild, Applying, RollingBack
<1>7. Back(u)'
  BY <1>1, <1>2, <1>3, <1>5, Knowing DEF Back, Code, UndoneCode, UndoneReqs, UndoneSwap, UndoneBuild, Untouched, Snapping, Updating, Applying, RollingBack
<1>8. Tools(u)'
  BY <1>1, <1>2, <1>3, <1>5, Knowing, NoneIs, SoundIs DEF Tools, Back, Code, Applying, RollingBack, UndoneCode, UndoneReqs, UndoneSwap, UndoneBuild
<1> QED
  BY <1>1, <1>3, <1>4, <1>6, <1>7, <1>8, HiddenCommand DEF Hidden, Applying, RollingBack

\* The assets follow the code.
LEMMA UpdateBuild ==
  ASSUME UpdateInv, NEW u \in Users, BuildAssets(u)
  PROVE  UpdateInv'
<1> DEFINE after == [site EXCEPT !.assets = site.code]
<1>1. at[u] = "build" /\ Command(u, "build", "patch", after) /\ at[u] \in Updating
  BY DEF BuildAssets, Command, Updating, Applying, RollingBack
<1>2. site \in Sites /\ site.env \in Envs /\ site.prev \in Envs /\ site.code \in Parts /\ ToolOf(base[u].rec) \in 1..2
  BY <1>1, Knowing, TargetIs, UpkeepAssumption DEF Sites, Envs, Bases, Recs, ToolOf, Parts, Releases, NoEnv
<1>3. /\ after.code = site.code /\ after.branch = site.branch /\ after.env = site.env
      /\ after.prev = site.prev /\ after.image = site.image /\ after.schema = site.schema
      /\ after.assets = site.code /\ after.live = site.live /\ after.maint = site.maint
  BY <1>2 DEF Sites, Envs
<1>4. after \in Sites
  BY <1>1, <1>2, SiteStays
<1> HIDE DEF after
<1>5. /\ site' = after /\ at'[u] = "patch" /\ UNCHANGED <<brec, snaps, task, base>>
  BY <1>1, Knowing DEF Command, Go, ControlOK
<1>6. Progress("patch", after)
  BY <1>1, <1>2, <1>3, Knowing DEF Progress, AfterCode, AfterReqs, AfterMigrate, AfterBuild, AfterRestart, UndoneReqs, UndoneSwap, UndoneBuild, Applying, RollingBack
<1>7. Back(u)'
  BY <1>1, <1>2, <1>3, <1>5, Knowing DEF Back, Code, UndoneCode, UndoneReqs, UndoneSwap, UndoneBuild, Untouched, Snapping, Updating, Applying, RollingBack
<1>8. Tools(u)'
  BY <1>1, <1>2, <1>3, <1>5, Knowing, NoneIs, SoundIs DEF Tools, Back, Code, Applying, RollingBack, UndoneCode, UndoneReqs, UndoneSwap, UndoneBuild
<1> QED
  BY <1>1, <1>3, <1>4, <1>6, <1>7, <1>8, HiddenCommand DEF Hidden, Applying, RollingBack

\* The patches of the realtime server change nothing.
LEMMA UpdatePatch ==
  ASSUME UpdateInv, NEW u \in Users, Patch(u)
  PROVE  UpdateInv'
<1> DEFINE after == site
<1>1. at[u] = "patch" /\ Command(u, "patch", "restart", after) /\ at[u] \in Updating
  BY DEF Patch, Command, Updating, Applying, RollingBack
<1>2. site \in Sites /\ site.env \in Envs /\ site.prev \in Envs /\ site.code \in Parts /\ ToolOf(base[u].rec) \in 1..2
  BY <1>1, Knowing, TargetIs, UpkeepAssumption DEF Sites, Envs, Bases, Recs, ToolOf, Parts, Releases, NoEnv
<1>3. /\ after.code = site.code /\ after.branch = site.branch /\ after.env = site.env
      /\ after.prev = site.prev /\ after.image = site.image /\ after.schema = site.schema
      /\ after.assets = site.assets /\ after.live = site.live /\ after.maint = site.maint
  BY <1>2 DEF Sites, Envs
<1>4. after \in Sites
  BY <1>1, <1>2, SiteStays
<1> HIDE DEF after
<1>5. /\ site' = after /\ at'[u] = "restart" /\ UNCHANGED <<brec, snaps, task, base>>
  BY <1>1, Knowing DEF Command, Go, ControlOK
<1>6. Progress("restart", after)
  BY <1>1, <1>2, <1>3, Knowing DEF Progress, AfterCode, AfterReqs, AfterMigrate, AfterBuild, AfterRestart, UndoneReqs, UndoneSwap, UndoneBuild, Applying, RollingBack
<1>7. Back(u)'
  BY <1>1, <1>2, <1>3, <1>5, Knowing DEF Back, Code, UndoneCode, UndoneReqs, UndoneSwap, UndoneBuild, Untouched, Snapping, Updating, Applying, RollingBack
<1>8. Tools(u)'
  BY <1>1, <1>2, <1>3, <1>5, Knowing, NoneIs, SoundIs DEF Tools, Back, Code, Applying, RollingBack, UndoneCode, UndoneReqs, UndoneSwap, UndoneBuild
<1> QED
  BY <1>1, <1>3, <1>4, <1>6, <1>7, <1>8, HiddenCommand DEF Hidden, Applying, RollingBack

\* The processes follow the code, and the site is of one release.
LEMMA UpdateRestart ==
  ASSUME UpdateInv, NEW u \in Users, Restart(u)
  PROVE  UpdateInv'
<1> DEFINE after == [site EXCEPT !.live = site.code]
           next == IF task[u].to # 0 THEN "branch" ELSE "finish"
<1>1. at[u] = "restart" /\ Command(u, "restart", next, after) /\ at[u] \in Updating
  BY DEF Restart, Command, Updating, Applying, RollingBack
<1>2. site \in Sites /\ site.env \in Envs /\ site.prev \in Envs /\ site.code \in Parts /\ ToolOf(base[u].rec) \in 1..2
  BY <1>1, Knowing, TargetIs, UpkeepAssumption DEF Sites, Envs, Bases, Recs, ToolOf, Parts, Releases, NoEnv
<1>3. /\ after.code = site.code /\ after.branch = site.branch /\ after.env = site.env
      /\ after.prev = site.prev /\ after.image = site.image /\ after.schema = site.schema
      /\ after.assets = site.assets /\ after.live = site.code /\ after.maint = site.maint
  BY <1>2 DEF Sites, Envs
<1>4. after \in Sites
  BY <1>1, <1>2, SiteStays
<1> HIDE DEF after
<1>5. /\ site' = after /\ at'[u] = next /\ UNCHANGED <<brec, snaps, task, base>>
  BY <1>1, Knowing DEF Command, Go, ControlOK
<1>6. Progress(next, after)
  BY <1>1, <1>2, <1>3, Knowing DEF Progress, AfterCode, AfterReqs, AfterMigrate, AfterBuild, AfterRestart, UndoneReqs, UndoneSwap, UndoneBuild, Applying, RollingBack
<1>7. Back(u)'
  BY <1>1, <1>2, <1>3, <1>5, Knowing DEF Back, Code, UndoneCode, UndoneReqs, UndoneSwap, UndoneBuild, Untouched, Snapping, Updating, Applying, RollingBack
<1>8. Tools(u)'
  BY <1>1, <1>2, <1>3, <1>5, Knowing, NoneIs, SoundIs DEF Tools, Back, Code, Applying, RollingBack, UndoneCode, UndoneReqs, UndoneSwap, UndoneBuild
<1> QED
  BY <1>1, <1>3, <1>4, <1>6, <1>7, <1>8, HiddenCommand DEF Hidden, Applying, RollingBack

\* A rollback takes back the edits to the code.
LEMMA UpdateUndoRevert ==
  ASSUME UpdateInv, NEW u \in Users, UndoRevert(u)
  PROVE  UpdateInv'
<1> DEFINE after == site
<1>1. at[u] = "undoRevert" /\ Command(u, "undoRevert", "undoCode", after) /\ at[u] \in Updating
  BY DEF UndoRevert, Command, Updating, Applying, RollingBack
<1>2. site \in Sites /\ site.env \in Envs /\ site.prev \in Envs /\ site.code \in Parts /\ ToolOf(base[u].rec) \in 1..2
  BY <1>1, Knowing, TargetIs, UpkeepAssumption DEF Sites, Envs, Bases, Recs, ToolOf, Parts, Releases, NoEnv
<1>3. /\ after.code = site.code /\ after.branch = site.branch /\ after.env = site.env
      /\ after.prev = site.prev /\ after.image = site.image /\ after.schema = site.schema
      /\ after.assets = site.assets /\ after.live = site.live /\ after.maint = site.maint
  BY <1>2 DEF Sites, Envs
<1>4. after \in Sites
  BY <1>1, <1>2, SiteStays
<1> HIDE DEF after
<1>5. /\ site' = after /\ at'[u] = "undoCode" /\ UNCHANGED <<brec, snaps, task, base>>
  BY <1>1, Knowing DEF Command, Go, ControlOK
<1>6. Progress("undoCode", after)
  BY <1>1, <1>2, <1>3, Knowing DEF Progress, AfterCode, AfterReqs, AfterMigrate, AfterBuild, AfterRestart, UndoneReqs, UndoneSwap, UndoneBuild, Applying, RollingBack
<1>7. Back(u)'
  BY <1>1, <1>2, <1>3, <1>5, Knowing DEF Back, Code, UndoneCode, UndoneReqs, UndoneSwap, UndoneBuild, Untouched, Snapping, Updating, Applying, RollingBack
<1>8. Tools(u)'
  BY <1>1, <1>2, <1>3, <1>5, Knowing, NoneIs, SoundIs DEF Tools, Back, Code, Applying, RollingBack, UndoneCode, UndoneReqs, UndoneSwap, UndoneBuild
<1> QED
  BY <1>1, <1>3, <1>4, <1>6, <1>7, <1>8, HiddenCommand DEF Hidden, Applying, RollingBack

\* A rollback puts the code and its branch back.
LEMMA UpdateUndoCode ==
  ASSUME UpdateInv, NEW u \in Users, UndoCode(u)
  PROVE  UpdateInv'
<1> DEFINE after == [site EXCEPT !.code = base[u].site.code, !.branch = base[u].site.branch]
           next == IF brec.tool # base[u].rec.tool THEN "undoTool" ELSE "undoReqs"
<1>1. at[u] = "undoCode" /\ Command(u, "undoCode", next, after) /\ at[u] \in Updating
  BY DEF UndoCode, Command, Updating, Applying, RollingBack
<1>2. site \in Sites /\ site.env \in Envs /\ site.prev \in Envs /\ site.code \in Parts /\ ToolOf(base[u].rec) \in 1..2
      /\ base[u].site.code \in Parts /\ base[u].site.branch \in Releases
  BY <1>1, Knowing, TargetIs, UpkeepAssumption DEF Sites, Envs, Bases, Recs, ToolOf, Parts, Releases, NoEnv
<1>3. /\ after.code = base[u].site.code /\ after.branch = base[u].site.branch /\ after.env = site.env
      /\ after.prev = site.prev /\ after.image = site.image /\ after.schema = site.schema
      /\ after.assets = site.assets /\ after.live = site.live /\ after.maint = site.maint
  BY <1>2 DEF Sites, Envs
<1>4. after \in Sites
  BY <1>1, <1>2, SiteStays
<1> HIDE DEF after
<1>5. /\ site' = after /\ at'[u] = next /\ UNCHANGED <<brec, snaps, task, base>>
  BY <1>1, Knowing DEF Command, Go, ControlOK
<1>6. Progress(next, after)
  BY <1>1, <1>2, <1>3, Knowing DEF Progress, AfterCode, AfterReqs, AfterMigrate, AfterBuild, AfterRestart, UndoneReqs, UndoneSwap, UndoneBuild, Applying, RollingBack
<1>7. Back(u)'
  BY <1>1, <1>2, <1>3, <1>5, Knowing DEF Back, Code, UndoneCode, UndoneReqs, UndoneSwap, UndoneBuild, Untouched, Snapping, Updating, Applying, RollingBack
<1>8. Tools(u)'
  BY <1>1, <1>2, <1>3, <1>5, Knowing, NoneIs, SoundIs DEF Tools, Back, Code, Applying, RollingBack, UndoneCode, UndoneReqs, UndoneSwap, UndoneBuild
<1>9. next \in {"undoTool", "undoReqs"}
  BY DEF next
<1> QED
  BY <1>1, <1>3, <1>4, <1>6, <1>7, <1>8, <1>9, HiddenCommand DEF Hidden, Applying, RollingBack

\* A rollback puts the image of the recorded toolchain back.
LEMMA UpdateUndoImage ==
  ASSUME UpdateInv, NEW u \in Users, UndoImage(u)
  PROVE  UpdateInv'
<1> DEFINE after == [site EXCEPT !.image = ToolOf(brec), !.live = site.code]
<1>1. at[u] = "undoImage" /\ Command(u, "undoImage", "undoEnv", after) /\ at[u] \in Updating
  BY DEF UndoImage, Command, Updating, Applying, RollingBack
<1>2. site \in Sites /\ site.env \in Envs /\ site.prev \in Envs /\ site.code \in Parts /\ ToolOf(base[u].rec) \in 1..2 /\ ToolOf(brec) \in 1..2
  BY <1>1, Knowing, TargetIs, UpkeepAssumption DEF Sites, Envs, Bases, Recs, ToolOf, Parts, Releases, NoEnv
<1>3. /\ after.code = site.code /\ after.branch = site.branch /\ after.env = site.env
      /\ after.prev = site.prev /\ after.image = ToolOf(brec) /\ after.schema = site.schema
      /\ after.assets = site.assets /\ after.maint = site.maint
  BY <1>2 DEF Sites, Envs
<1>4. after \in Sites
  BY <1>1, <1>2, SiteStays
<1> HIDE DEF after
<1>5. /\ site' = after /\ at'[u] = "undoEnv" /\ UNCHANGED <<brec, snaps, task, base>>
  BY <1>1, Knowing DEF Command, Go, ControlOK
<1>6. Progress("undoEnv", after)
  BY <1>1, <1>2, <1>3, Knowing DEF Progress, AfterCode, AfterReqs, AfterMigrate, AfterBuild, AfterRestart, UndoneReqs, UndoneSwap, UndoneBuild, Applying, RollingBack
<1>7. Back(u)'
  BY <1>1, <1>2, <1>3, <1>5, Knowing DEF Back, Code, UndoneCode, UndoneReqs, UndoneSwap, UndoneBuild, Untouched, Snapping, Updating, Applying, RollingBack
<1>8. Tools(u)'
  <2>1. Sound(base[u]) => /\ brec.tool = base[u].rec.tool
                          /\ \/ site.prev = NoEnv /\ site.env.tool = ToolOf(base[u].rec)
                             \/ site.prev.tool = ToolOf(base[u].rec)
    BY <1>1, Knowing DEF Tools, UndoneCode
  <2>2. Sound(base[u]) => after.image = ToolOf(base[u].rec)
    BY <1>3, <2>1 DEF ToolOf
  <2> QED
    BY <1>3, <1>5, <2>1, <2>2 DEF Tools, Applying, RollingBack, UndoneCode, UndoneReqs, UndoneSwap, UndoneBuild
<1> QED
  BY <1>1, <1>3, <1>4, <1>6, <1>7, <1>8, HiddenCommand DEF Hidden, Applying, RollingBack

\* A rollback puts the virtualenv back that was set aside.
LEMMA UpdateUndoEnv ==
  ASSUME UpdateInv, NEW u \in Users, UndoEnv(u)
  PROVE  UpdateInv'
<1> DEFINE after == IF site.prev = NoEnv THEN site ELSE [site EXCEPT !.env = site.prev, !.prev = NoEnv]
<1>1. at[u] = "undoEnv" /\ Command(u, "undoEnv", "undoReqs", after) /\ at[u] \in Updating
  BY DEF UndoEnv, Command, Updating, Applying, RollingBack
<1>2. site \in Sites /\ site.env \in Envs /\ site.prev \in Envs /\ site.code \in Parts /\ ToolOf(base[u].rec) \in 1..2 /\ NoEnv \in Envs
  BY <1>1, Knowing, TargetIs, UpkeepAssumption DEF Sites, Envs, Bases, Recs, ToolOf, Parts, Releases, NoEnv
<1>3. /\ after.code = site.code /\ after.branch = site.branch
      /\ after.env = (IF site.prev = NoEnv THEN site.env ELSE site.prev) /\ after.image = site.image
      /\ after.schema = site.schema /\ after.assets = site.assets /\ after.live = site.live
      /\ after.maint = site.maint
  BY <1>2 DEF Sites, Envs
<1>4. after \in Sites
  BY <1>1, <1>2, SiteStays
<1> HIDE DEF after
<1>5. /\ site' = after /\ at'[u] = "undoReqs" /\ UNCHANGED <<brec, snaps, task, base>>
  BY <1>1, Knowing DEF Command, Go, ControlOK
<1>6. Progress("undoReqs", after)
  BY <1>1, <1>2, <1>3, Knowing DEF Progress, AfterCode, AfterReqs, AfterMigrate, AfterBuild, AfterRestart, UndoneReqs, UndoneSwap, UndoneBuild, Applying, RollingBack
<1>7. Back(u)'
  BY <1>1, <1>2, <1>3, <1>5, Knowing DEF Back, Code, UndoneCode, UndoneReqs, UndoneSwap, UndoneBuild, Untouched, Snapping, Updating, Applying, RollingBack
<1>8. Tools(u)'
  <2>1. ASSUME Sound(base[u]) PROVE after.env.tool = ToolOf(base[u].rec)
    <3>1. (site.prev = NoEnv /\ site.env.tool = ToolOf(base[u].rec)) \/ site.prev.tool = ToolOf(base[u].rec)
      BY <1>1, <2>1, Knowing DEF Tools
    <3> QED
      BY <1>2, <1>3, <3>1, NoneIs
  <2>2. Sound(base[u]) => brec.tool = base[u].rec.tool /\ site.image = ToolOf(base[u].rec)
    BY <1>1, Knowing DEF Tools, UndoneCode
  <2> QED
    BY <1>3, <1>5, <2>1, <2>2, Knowing DEF Tools, Applying, RollingBack, UndoneCode, UndoneReqs, UndoneSwap, UndoneBuild
<1> QED
  BY <1>1, <1>3, <1>4, <1>6, <1>7, <1>8, HiddenCommand DEF Hidden, Applying, RollingBack

\* A rollback reinstalls the requirements of its code.
LEMMA UpdateUndoReqs ==
  ASSUME UpdateInv, NEW u \in Users, UndoReqs(u)
  PROVE  UpdateInv'
<1> DEFINE after == [site EXCEPT !.env.reqs = site.code]
<1>1. at[u] = "undoReqs" /\ Command(u, "undoReqs", "undoCache", after) /\ at[u] \in Updating /\ site.env # NoEnv
  BY DEF UndoReqs, Command, Updating, Applying, RollingBack
<1>2. site \in Sites /\ site.env \in Envs /\ site.prev \in Envs /\ site.code \in Parts /\ ToolOf(base[u].rec) \in 1..2
  BY <1>1, Knowing, TargetIs, UpkeepAssumption DEF Sites, Envs, Bases, Recs, ToolOf, Parts, Releases, NoEnv
<1>3. /\ after.code = site.code /\ after.branch = site.branch
      /\ after.env.reqs = site.code /\ after.env.tool = site.env.tool /\ after.prev = site.prev
      /\ after.image = site.image /\ after.schema = site.schema /\ after.assets = site.assets
      /\ after.live = site.live /\ after.maint = site.maint
  BY <1>2 DEF Sites, Envs
<1>4. after \in Sites
  BY <1>1, <1>2, SiteStays
<1> HIDE DEF after
<1>5. /\ site' = after /\ at'[u] = "undoCache" /\ UNCHANGED <<brec, snaps, task, base>>
  BY <1>1, Knowing DEF Command, Go, ControlOK
<1>6. Progress("undoCache", after)
  BY <1>1, <1>2, <1>3, Knowing DEF Progress, AfterCode, AfterReqs, AfterMigrate, AfterBuild, AfterRestart, UndoneReqs, UndoneSwap, UndoneBuild, Applying, RollingBack
<1>7. Back(u)'
  BY <1>1, <1>2, <1>3, <1>5, Knowing DEF Back, Code, UndoneCode, UndoneReqs, UndoneSwap, UndoneBuild, Untouched, Snapping, Updating, Applying, RollingBack
<1>8. Tools(u)'
  BY <1>1, <1>2, <1>3, <1>5, Knowing, NoneIs, SoundIs DEF Tools, Back, Code, Applying, RollingBack, UndoneCode, UndoneReqs, UndoneSwap, UndoneBuild
<1> QED
  BY <1>1, <1>3, <1>4, <1>6, <1>7, <1>8, HiddenCommand DEF Hidden, Applying, RollingBack

\* Clearing the cache changes nothing.
LEMMA UpdateUndoCache ==
  ASSUME UpdateInv, NEW u \in Users, UndoCache(u)
  PROVE  UpdateInv'
<1> DEFINE after == site
<1>1. at[u] = "undoCache" /\ Command(u, "undoCache", "undoPick", after) /\ at[u] \in Updating
  BY DEF UndoCache, Command, Updating, Applying, RollingBack
<1>2. site \in Sites /\ site.env \in Envs /\ site.prev \in Envs /\ site.code \in Parts /\ ToolOf(base[u].rec) \in 1..2
  BY <1>1, Knowing, TargetIs, UpkeepAssumption DEF Sites, Envs, Bases, Recs, ToolOf, Parts, Releases, NoEnv
<1>3. /\ after.code = site.code /\ after.branch = site.branch /\ after.env = site.env
      /\ after.prev = site.prev /\ after.image = site.image /\ after.schema = site.schema
      /\ after.assets = site.assets /\ after.live = site.live /\ after.maint = site.maint
  BY <1>2 DEF Sites, Envs
<1>4. after \in Sites
  BY <1>1, <1>2, SiteStays
<1> HIDE DEF after
<1>5. /\ site' = after /\ at'[u] = "undoPick" /\ UNCHANGED <<brec, snaps, task, base>>
  BY <1>1, Knowing DEF Command, Go, ControlOK
<1>6. Progress("undoPick", after)
  BY <1>1, <1>2, <1>3, Knowing DEF Progress, AfterCode, AfterReqs, AfterMigrate, AfterBuild, AfterRestart, UndoneReqs, UndoneSwap, UndoneBuild, Applying, RollingBack
<1>7. Back(u)'
  BY <1>1, <1>2, <1>3, <1>5, Knowing DEF Back, Code, UndoneCode, UndoneReqs, UndoneSwap, UndoneBuild, Untouched, Snapping, Updating, Applying, RollingBack
<1>8. Tools(u)'
  BY <1>1, <1>2, <1>3, <1>5, Knowing, NoneIs, SoundIs DEF Tools, Back, Code, Applying, RollingBack, UndoneCode, UndoneReqs, UndoneSwap, UndoneBuild
<1> QED
  BY <1>1, <1>3, <1>4, <1>6, <1>7, <1>8, HiddenCommand DEF Hidden, Applying, RollingBack

\* A rollback sets the Administrator's password of the record.
LEMMA UpdateUndoAdmin ==
  ASSUME UpdateInv, NEW u \in Users, UndoAdmin(u)
  PROVE  UpdateInv'
<1> DEFINE after == [site EXCEPT !.admin = brec.admin]
<1>1. /\ at[u] = "undoAdmin" /\ site' = after /\ Go(u, "undoBuild") /\ at[u] \in Updating
      /\ UNCHANGED <<brec, roots, secret, snaps, excused>>
  BY DEF UndoAdmin, Reapply, Updating, Applying, RollingBack
<1>2. site \in Sites /\ site.env \in Envs /\ site.prev \in Envs /\ site.code \in Parts /\ ToolOf(base[u].rec) \in 1..2 /\ brec.admin \in Nat
  BY <1>1, Knowing, TargetIs, UpkeepAssumption DEF Sites, Envs, Bases, Recs, ToolOf, Parts, Releases, NoEnv
<1>3. /\ after.code = site.code /\ after.branch = site.branch /\ after.env = site.env
      /\ after.prev = site.prev /\ after.image = site.image /\ after.schema = site.schema
      /\ after.assets = site.assets /\ after.live = site.live /\ after.maint = site.maint
  BY <1>2 DEF Sites, Envs
<1>4. after \in Sites
  BY <1>1, <1>2, SiteStays
<1> HIDE DEF after
<1>5. /\ site' = after /\ at'[u] = "undoBuild" /\ UNCHANGED <<brec, snaps, task, base>>
  BY <1>1, Knowing DEF Go, ControlOK
<1>6. Progress("undoBuild", after)
  BY <1>1, <1>2, <1>3, Knowing DEF Progress, AfterCode, AfterReqs, AfterMigrate, AfterBuild, AfterRestart, UndoneReqs, UndoneSwap, UndoneBuild, Applying, RollingBack
<1>7. Back(u)'
  BY <1>1, <1>2, <1>3, <1>5, Knowing DEF Back, Code, UndoneCode, UndoneReqs, UndoneSwap, UndoneBuild, Untouched, Snapping, Updating, Applying, RollingBack
<1>8. Tools(u)'
  BY <1>1, <1>2, <1>3, <1>5, Knowing, NoneIs, SoundIs DEF Tools, Back, Code, Applying, RollingBack, UndoneCode, UndoneReqs, UndoneSwap, UndoneBuild
<1>9. HistoryOK'
  BY DEF UndoAdmin, Reapply, UpdateInv, TypeInv, HistoryOK
<1> QED
  BY <1>1, <1>3, <1>4, <1>6, <1>7, <1>8, <1>9, HiddenStep DEF Hidden, Applying, RollingBack

\* A rollback builds the assets of its code.
LEMMA UpdateUndoBuild ==
  ASSUME UpdateInv, NEW u \in Users, UndoBuild(u)
  PROVE  UpdateInv'
<1> DEFINE after == [site EXCEPT !.assets = site.code]
<1>1. at[u] = "undoBuild" /\ Command(u, "undoBuild", "undoPatch", after) /\ at[u] \in Updating
  BY DEF UndoBuild, Command, Updating, Applying, RollingBack
<1>2. site \in Sites /\ site.env \in Envs /\ site.prev \in Envs /\ site.code \in Parts /\ ToolOf(base[u].rec) \in 1..2
  BY <1>1, Knowing, TargetIs, UpkeepAssumption DEF Sites, Envs, Bases, Recs, ToolOf, Parts, Releases, NoEnv
<1>3. /\ after.code = site.code /\ after.branch = site.branch /\ after.env = site.env
      /\ after.prev = site.prev /\ after.image = site.image /\ after.schema = site.schema
      /\ after.assets = site.code /\ after.live = site.live /\ after.maint = site.maint
  BY <1>2 DEF Sites, Envs
<1>4. after \in Sites
  BY <1>1, <1>2, SiteStays
<1> HIDE DEF after
<1>5. /\ site' = after /\ at'[u] = "undoPatch" /\ UNCHANGED <<brec, snaps, task, base>>
  BY <1>1, Knowing DEF Command, Go, ControlOK
<1>6. Progress("undoPatch", after)
  BY <1>1, <1>2, <1>3, Knowing DEF Progress, AfterCode, AfterReqs, AfterMigrate, AfterBuild, AfterRestart, UndoneReqs, UndoneSwap, UndoneBuild, Applying, RollingBack
<1>7. Back(u)'
  BY <1>1, <1>2, <1>3, <1>5, Knowing DEF Back, Code, UndoneCode, UndoneReqs, UndoneSwap, UndoneBuild, Untouched, Snapping, Updating, Applying, RollingBack
<1>8. Tools(u)'
  BY <1>1, <1>2, <1>3, <1>5, Knowing, NoneIs, SoundIs DEF Tools, Back, Code, Applying, RollingBack, UndoneCode, UndoneReqs, UndoneSwap, UndoneBuild
<1> QED
  BY <1>1, <1>3, <1>4, <1>6, <1>7, <1>8, HiddenCommand DEF Hidden, Applying, RollingBack

\* The patches change nothing.
LEMMA UpdateUndoPatch ==
  ASSUME UpdateInv, NEW u \in Users, UndoPatch(u)
  PROVE  UpdateInv'
<1> DEFINE after == site
<1>1. at[u] = "undoPatch" /\ Command(u, "undoPatch", "undoRestart", after) /\ at[u] \in Updating
  BY DEF UndoPatch, Command, Updating, Applying, RollingBack
<1>2. site \in Sites /\ site.env \in Envs /\ site.prev \in Envs /\ site.code \in Parts /\ ToolOf(base[u].rec) \in 1..2
  BY <1>1, Knowing, TargetIs, UpkeepAssumption DEF Sites, Envs, Bases, Recs, ToolOf, Parts, Releases, NoEnv
<1>3. /\ after.code = site.code /\ after.branch = site.branch /\ after.env = site.env
      /\ after.prev = site.prev /\ after.image = site.image /\ after.schema = site.schema
      /\ after.assets = site.assets /\ after.live = site.live /\ after.maint = site.maint
  BY <1>2 DEF Sites, Envs
<1>4. after \in Sites
  BY <1>1, <1>2, SiteStays
<1> HIDE DEF after
<1>5. /\ site' = after /\ at'[u] = "undoRestart" /\ UNCHANGED <<brec, snaps, task, base>>
  BY <1>1, Knowing DEF Command, Go, ControlOK
<1>6. Progress("undoRestart", after)
  BY <1>1, <1>2, <1>3, Knowing DEF Progress, AfterCode, AfterReqs, AfterMigrate, AfterBuild, AfterRestart, UndoneReqs, UndoneSwap, UndoneBuild, Applying, RollingBack
<1>7. Back(u)'
  BY <1>1, <1>2, <1>3, <1>5, Knowing DEF Back, Code, UndoneCode, UndoneReqs, UndoneSwap, UndoneBuild, Untouched, Snapping, Updating, Applying, RollingBack
<1>8. Tools(u)'
  BY <1>1, <1>2, <1>3, <1>5, Knowing, NoneIs, SoundIs DEF Tools, Back, Code, Applying, RollingBack, UndoneCode, UndoneReqs, UndoneSwap, UndoneBuild
<1> QED
  BY <1>1, <1>3, <1>4, <1>6, <1>7, <1>8, HiddenCommand DEF Hidden, Applying, RollingBack

\* A rollback restarts the processes.
LEMMA UpdateUndoRestart ==
  ASSUME UpdateInv, NEW u \in Users, UndoRestart(u)
  PROVE  UpdateInv'
<1> DEFINE after == [site EXCEPT !.live = site.code]
<1>1. at[u] = "undoRestart" /\ Command(u, "undoRestart", "undone", after) /\ at[u] \in Updating
  BY DEF UndoRestart, Command, Updating, Applying, RollingBack
<1>2. site \in Sites /\ site.env \in Envs /\ site.prev \in Envs /\ site.code \in Parts /\ ToolOf(base[u].rec) \in 1..2
  BY <1>1, Knowing, TargetIs, UpkeepAssumption DEF Sites, Envs, Bases, Recs, ToolOf, Parts, Releases, NoEnv
<1>3. /\ after.code = site.code /\ after.branch = site.branch /\ after.env = site.env
      /\ after.prev = site.prev /\ after.image = site.image /\ after.schema = site.schema
      /\ after.assets = site.assets /\ after.live = site.code /\ after.maint = site.maint
  BY <1>2 DEF Sites, Envs
<1>4. after \in Sites
  BY <1>1, <1>2, SiteStays
<1> HIDE DEF after
<1>5. /\ site' = after /\ at'[u] = "undone" /\ UNCHANGED <<brec, snaps, task, base>>
  BY <1>1, Knowing DEF Command, Go, ControlOK
<1>6. Progress("undone", after)
  BY <1>1, <1>2, <1>3, Knowing DEF Progress, AfterCode, AfterReqs, AfterMigrate, AfterBuild, AfterRestart, UndoneReqs, UndoneSwap, UndoneBuild, Applying, RollingBack
<1>7. Back(u)'
  BY <1>1, <1>2, <1>3, <1>5, Knowing DEF Back, Code, UndoneCode, UndoneReqs, UndoneSwap, UndoneBuild, Untouched, Snapping, Updating, Applying, RollingBack
<1>8. Tools(u)'
  BY <1>1, <1>2, <1>3, <1>5, Knowing, NoneIs, SoundIs DEF Tools, Back, Code, Applying, RollingBack, UndoneCode, UndoneReqs, UndoneSwap, UndoneBuild
<1> QED
  BY <1>1, <1>3, <1>4, <1>6, <1>7, <1>8, HiddenCommand DEF Hidden, Applying, RollingBack

\* Nothing is lost by a step that changes no store.
LEMMA SameStores ==
  ASSUME UpdateInv, UNCHANGED Stores, UNCHANGED History
  PROVE  StoresOK' /\ HistoryOK' /\ ServedWhole'
<1>1. StoresOK' /\ HistoryOK'
  BY DEF UpdateInv, TypeInv, StoresOK, HistoryOK, Stores, History
<1>2. ServedWhole'
  BY DEF UpdateInv, ServedWhole, Whole, Stores, History
<1> QED
  BY <1>1, <1>2

\* The bench backup of an update leaves the site as it is.
LEMMA UpdateBackup ==
  ASSUME UpdateInv, NEW u \in Users, Backup(u)
  PROVE  UpdateInv'
<1>1. at[u] = "backup" /\ Go(u, "snapDir") /\ UNCHANGED <<Stores, History>> /\ at[u] \in Updating
  BY DEF Backup, Command, Updating, Stores
<1>2. StoresOK' /\ HistoryOK' /\ ServedWhole'
  BY <1>1, SameStores
<1>3. at'[u] = "snapDir" /\ UNCHANGED <<brec, site, snaps, task, base, excused>>
  BY <1>1, Knowing DEF Go, ControlOK, Stores, History
<1>4. (Progress(at[u], site) /\ Back(u) /\ Served(u) /\ Tools(u))'
  <2>1. Progress("snapDir", site)
    BY DEF Progress, AfterCode, AfterReqs, AfterMigrate, AfterBuild, AfterRestart, UndoneReqs, UndoneSwap, UndoneBuild
  <2>2. Back(u)'
    BY <1>1, <1>3, Knowing DEF Back, Code, Untouched, Snapping, UndoneCode, UndoneReqs, UndoneSwap, UndoneBuild, Updating, Applying, RollingBack
  <2>3. Served(u)'
    BY <1>1, <1>3, Knowing DEF Served, Whole, Hidden, Applying, RollingBack
  <2>4. Tools(u)'
    BY <1>3 DEF Tools, Applying, RollingBack, UndoneCode, UndoneReqs, UndoneSwap, UndoneBuild
  <2> QED
    BY <1>3, <2>1, <2>2, <2>3, <2>4 DEF Progress
<1> QED
  BY <1>1, <1>2, <1>4, Knowing, HolderGoes DEF StepsOf, Snapping, Unlocked

\* Maintenance mode goes on before anything else of the site is touched.
LEMMA UpdateMaintOn ==
  ASSUME UpdateInv, NEW u \in Users, MaintOn(u)
  PROVE  UpdateInv'
<1> DEFINE after == [site EXCEPT !.maint = TRUE]
<1>1. /\ at[u] = "maintOn" /\ Go(u, "pause") /\ site' = after /\ UNCHANGED <<brec, roots, secret, snaps, History>>
      /\ at[u] \in Updating
  BY DEF MaintOn, Command, Updating
<1>2. site \in Sites /\ after \in Sites
  BY <1>1, Knowing, SiteStays
<1>3. /\ Code(after) = Code(site) /\ after.prev = site.prev /\ after.maint
  BY <1>2 DEF Sites, Code
<1>4. StoresOK' /\ HistoryOK'
  BY <1>1, <1>2, Knowing DEF StoresOK, HistoryOK, History
<1> HIDE DEF after
<1>5. at'[u] = "pause" /\ UNCHANGED <<brec, snaps, task, base, excused>>
  BY <1>1, Knowing DEF Go, ControlOK, History
<1>6. ServedWhole'
  BY <1>1, <1>3 DEF ServedWhole
<1>7. (Progress(at[u], site) /\ Back(u) /\ Served(u) /\ Tools(u))'
  <2>1. Progress("pause", after)
    BY DEF Progress, AfterCode, AfterReqs, AfterMigrate, AfterBuild, AfterRestart, UndoneReqs, UndoneSwap, UndoneBuild
  <2>2. Back(u)'
    BY <1>1, <1>3, <1>5, Knowing DEF Back, Untouched, UndoneCode, UndoneReqs, UndoneSwap, UndoneBuild, Updating, Applying, RollingBack
  <2>3. Served(u)'
    BY <1>1, <1>3, <1>5, Knowing DEF Served, Whole
  <2>4. Tools(u)'
    BY <1>5 DEF Tools, Applying, RollingBack, UndoneCode, UndoneReqs, UndoneSwap, UndoneBuild
  <2> QED
    BY <1>1, <1>5, <2>1, <2>2, <2>3, <2>4 DEF Progress
<1> QED
  BY <1>1, <1>4, <1>6, <1>7, Knowing, HolderGoes DEF StepsOf, Updating, Applying, Unlocked

\* The record gets the toolchain first.
LEMMA UpdateToolchain ==
  ASSUME UpdateInv, NEW u \in Users, Toolchain(u)
  PROVE  UpdateInv'
<1> DEFINE next == IF task[u].tool # brec.tool THEN "image" ELSE "venv"
           after == [brec EXCEPT !.tool = task[u].tool]
<1>1. /\ at[u] = "toolchain" /\ Go(u, next) /\ brec' = after /\ UNCHANGED <<site, roots, secret, snaps, History>>
      /\ at[u] \in Updating
  BY DEF Toolchain, Updating, Applying
<1>2. next \in {"image", "venv"} /\ (next = "image" <=> task[u].tool # brec.tool)
  OBVIOUS
<1>3. after \in Recs /\ after.tool = task[u].tool
  BY <1>1, Knowing DEF Recs
<1>4. StoresOK' /\ HistoryOK'
  BY <1>1, <1>3, Knowing DEF StoresOK, HistoryOK, History
<1> HIDE DEF after, next
<1>5. at'[u] = next /\ UNCHANGED <<site, snaps, task, base, excused>>
  BY <1>1, Knowing DEF Go, ControlOK, History
<1>6. ServedWhole'
  BY <1>5 DEF ServedWhole, Whole, UpdateInv
<1>7. (Progress(at[u], site) /\ Back(u) /\ Served(u) /\ Tools(u))'
  <2>1. Progress(next, site)
    BY <1>1, <1>2, Knowing DEF Progress, AfterCode, AfterReqs, AfterMigrate, AfterBuild, AfterRestart, UndoneReqs, UndoneSwap, UndoneBuild
  <2>2. Back(u)'
    BY <1>1, <1>2, <1>5, Knowing DEF Back, Untouched, Snapping, UndoneCode, UndoneReqs, UndoneSwap, UndoneBuild, Updating, Applying, RollingBack
  <2>3. Served(u)'
    BY <1>1, <1>2, <1>5, Knowing DEF Served, Whole, Hidden, Applying, RollingBack
  <2>4. Tools(u)'
    BY <1>1, <1>2, <1>3, <1>5, Knowing DEF Tools, Applying, RollingBack, UndoneCode, UndoneReqs, UndoneSwap, UndoneBuild
  <2> QED
    BY <1>5, <2>1, <2>2, <2>3, <2>4 DEF Progress
<1>8. task[u].to # 0
  BY <1>1, Knowing DEF ControlOK, TaskOK
<1> QED
  BY <1>1, <1>2, <1>4, <1>6, <1>7, <1>8, Knowing, HolderGoes DEF StepsOf, Updating, Applying, Unlocked

\* A rollback gives the record its toolchain back first.
LEMMA UpdateUndoTool ==
  ASSUME UpdateInv, NEW u \in Users, UndoTool(u)
  PROVE  UpdateInv'
<1> DEFINE after == [brec EXCEPT !.tool = base[u].rec.tool]
<1>1. /\ at[u] = "undoTool" /\ Go(u, "undoImage") /\ brec' = after /\ UNCHANGED <<site, roots, secret, snaps, History>>
      /\ at[u] \in Updating
  BY DEF UndoTool, Updating, RollingBack
<1>2. base[u].rec.tool \in 0..2
  BY <1>1, Knowing DEF Bases, Recs
<1>3. after \in Recs /\ after.tool = base[u].rec.tool
  BY <1>1, <1>2, Knowing DEF Recs
<1>4. StoresOK' /\ HistoryOK'
  BY <1>1, <1>3, Knowing DEF StoresOK, HistoryOK, History
<1> HIDE DEF after
<1>5. at'[u] = "undoImage" /\ UNCHANGED <<site, snaps, task, base, excused>>
  BY <1>1, Knowing DEF Go, ControlOK, History
<1>6. ServedWhole'
  BY <1>5 DEF ServedWhole, Whole, UpdateInv
<1>7. (Progress(at[u], site) /\ Back(u) /\ Served(u) /\ Tools(u))'
  <2>1. Progress("undoImage", site)
    BY DEF Progress, AfterCode, AfterReqs, AfterMigrate, AfterBuild, AfterRestart, UndoneReqs, UndoneSwap, UndoneBuild
  <2>2. Back(u)'
    BY <1>1, <1>5, Knowing DEF Back, Untouched, Snapping, UndoneCode, UndoneReqs, UndoneSwap, UndoneBuild, Updating, Applying, RollingBack
  <2>3. Served(u)'
    BY <1>1, <1>5, Knowing DEF Served, Whole, Hidden, RollingBack
  <2>4. Tools(u)'
    BY <1>1, <1>3, <1>5, Knowing DEF Tools, Applying, UndoneCode, UndoneReqs, UndoneSwap, UndoneBuild
  <2> QED
    BY <1>5, <2>1, <2>2, <2>3, <2>4 DEF Progress
<1> QED
  BY <1>1, <1>4, <1>6, <1>7, Knowing, HolderGoes DEF StepsOf, Updating, RollingBack, Unlocked

\* The branch of the record follows once the site is of one release.
LEMMA UpdateBranch ==
  ASSUME UpdateInv, NEW u \in Users, Branch(u)
  PROVE  UpdateInv'
<1> DEFINE after == [brec EXCEPT !.branch = task[u].to]
<1>1. /\ at[u] = "branch" /\ Go(u, "finish") /\ brec' = after /\ UNCHANGED <<site, roots, secret, snaps, History>>
      /\ at[u] \in Updating
  BY DEF Branch, Updating, Applying
<1>2. task[u].to \in Releases
  BY <1>1, Knowing DEF ControlOK, TaskOK
<1>3. after \in Recs /\ after.tool = brec.tool
  BY <1>1, <1>2, Knowing DEF Recs
<1>4. StoresOK' /\ HistoryOK'
  BY <1>1, <1>3, Knowing DEF StoresOK, HistoryOK, History
<1> HIDE DEF after
<1>5. at'[u] = "finish" /\ UNCHANGED <<site, snaps, task, base, excused>>
  BY <1>1, Knowing DEF Go, ControlOK, History
<1>6. ServedWhole'
  BY <1>5 DEF ServedWhole, Whole, UpdateInv
<1>7. (Progress(at[u], site) /\ Back(u) /\ Served(u) /\ Tools(u))'
  <2>1. Progress("finish", site)
    BY <1>1, Knowing DEF Progress, AfterCode, AfterReqs, AfterMigrate, AfterBuild, AfterRestart, UndoneReqs, UndoneSwap, UndoneBuild
  <2>2. Back(u)'
    BY <1>1, <1>5, Knowing DEF Back, Untouched, Snapping, UndoneCode, UndoneReqs, UndoneSwap, UndoneBuild, Updating, Applying, RollingBack
  <2>3. Served(u)'
    BY <1>1, <1>5, Knowing DEF Served, Whole, Hidden, Applying, RollingBack
  <2>4. Tools(u)'
    BY <1>1, <1>3, <1>5, Knowing DEF Tools, Applying, UndoneCode, UndoneReqs, UndoneSwap, UndoneBuild
  <2> QED
    BY <1>5, <2>1, <2>2, <2>3, <2>4 DEF Progress
<1> QED
  BY <1>1, <1>4, <1>6, <1>7, Knowing, HolderGoes DEF StepsOf, Updating, Unlocked

\* An update that got to its end, or back to its beginning, serves one release.
LEMMA WholeAgain ==
  ASSUME UpdateInv, NEW u \in Users, at[u] \in AfterRestart \cup {"undone"}
  PROVE  excused \/ Whole(site)
<1>1. at[u] \in Updating
  BY DEF AfterRestart, Updating, Applying
<1>2. CASE at[u] \in AfterRestart
  BY <1>1, <1>2, Knowing, WholeIs DEF Progress, AfterCode, AfterReqs, AfterMigrate, AfterBuild
<1>3. CASE at[u] = "undone"
  <2>1. site.code = base[u].site.code /\ site.schema = base[u].site.schema
    BY <1>1, <1>3, Knowing DEF Back, UndoneCode, UndoneReqs, UndoneSwap, UndoneBuild
  <2>2. site.env.reqs = site.code /\ site.assets = site.code /\ site.live = site.code
    BY <1>1, <1>3, Knowing DEF Progress, UndoneReqs, UndoneSwap, UndoneBuild
  <2> QED
    BY <1>1, <2>1, <2>2, Knowing, WholeIs DEF Served
<1> QED
  BY <1>2, <1>3

\* Maintenance mode goes off, or one of the commands only warns.
LEMMA UpdateFinish ==
  ASSUME UpdateInv, NEW u \in Users, Finish(u)
  PROVE  UpdateInv'
<1>1. PICK m \in Off(FALSE), z \in Off(FALSE) :
        /\ site' = [site EXCEPT !.maint = m /\ site.maint, !.paused = z /\ site.paused]
        /\ ufaults' = IF m \/ z THEN ufaults + 1 ELSE ufaults
  BY DEF Finish
<1>2. /\ at[u] \in {"finish", "undone"} /\ at[u] \in Updating /\ UNCHANGED <<brec, roots, secret, snaps, issued, told, loose, excused, begun>>
      /\ IF at[u] = "finish" THEN Go(u, "ping") ELSE Leave(u)
  BY DEF Finish, Updating
<1>3. m \in BOOLEAN /\ z \in BOOLEAN /\ site \in Sites
  BY <1>2, Knowing DEF Off
<1>4. PICK v \in BOOLEAN, w \in BOOLEAN : site' = [site EXCEPT !.maint = v, !.paused = w]
  BY <1>1, <1>3
<1>5. site' \in Sites
  BY <1>3, <1>4, SiteStays
<1>6. Code(site') = Code(site) /\ site'.prev = site.prev
  BY <1>3, <1>4 DEF Sites, Code
<1>7. StoresOK' /\ HistoryOK'
  BY <1>1, <1>2, <1>5, Knowing DEF StoresOK, HistoryOK
<1>8. excused \/ Whole(site)
  BY <1>2, WholeAgain DEF AfterRestart
<1>9. ServedWhole'
  BY <1>2, <1>6, <1>8 DEF ServedWhole, Whole, Code
<1>10. CASE at[u] = "finish"
  <2>1. at'[u] = "ping" /\ Go(u, "ping") /\ UNCHANGED <<brec, snaps, task, base, excused>>
    BY <1>2, <1>10, Knowing DEF Go, ControlOK
  <2>2. Progress("ping", site')
    BY <1>2, <1>6, <1>10, Knowing DEF Code, Progress, AfterCode, AfterReqs, AfterMigrate, AfterBuild, AfterRestart, UndoneReqs, UndoneSwap, UndoneBuild
  <2>3. Back(u)'
    BY <1>2, <1>10, <2>1, Knowing DEF Back, Untouched, Snapping, UndoneCode, UndoneReqs, UndoneSwap, UndoneBuild, Updating, Applying, RollingBack
  <2>4. Served(u)'
    BY <1>2, <2>1, Knowing DEF Served, Whole, Hidden, Applying, RollingBack
  <2>5. Tools(u)'
    BY <1>2, <1>6, <1>10, <2>1, Knowing DEF Tools, Code, Applying, UndoneCode, UndoneReqs, UndoneSwap, UndoneBuild
  <2>6. (Progress(at[u], site) /\ Back(u) /\ Served(u) /\ Tools(u))'
    BY <2>1, <2>2, <2>3, <2>4, <2>5 DEF Progress
  <2> QED
    BY <1>2, <1>7, <1>9, <2>1, <2>6, Knowing, HolderGoes DEF StepsOf, Updating, Unlocked
<1>11. CASE at[u] = "undone"
  BY <1>2, <1>7, <1>9, <1>11, Knowing, HolderEnds
<1> QED
  BY <1>2, <1>10, <1>11

\* A site that answers, the update drops what it set aside.
LEMMA UpdatePing ==
  ASSUME UpdateInv, NEW u \in Users, Ping(u)
  PROVE  UpdateInv'
<1>1. at[u] = "ping" /\ Go(u, "dropPrev") /\ UNCHANGED <<Stores, History>> /\ at[u] \in Updating
  BY DEF Ping, Command, Updating, Stores
<1>2. StoresOK' /\ HistoryOK' /\ ServedWhole'
  BY <1>1, SameStores
<1>3. at'[u] = "dropPrev" /\ UNCHANGED <<brec, site, snaps, task, base, excused>>
  BY <1>1, Knowing DEF Go, ControlOK, Stores, History
<1>4. (Progress(at[u], site) /\ Back(u) /\ Served(u) /\ Tools(u))'
  <2>1. Progress("dropPrev", site)
    BY <1>1, Knowing DEF Progress, AfterCode, AfterReqs, AfterMigrate, AfterBuild, AfterRestart, UndoneReqs, UndoneSwap, UndoneBuild
  <2>2. Back(u)'
    BY <1>1, <1>3, Knowing DEF Back, Code, Untouched, Snapping, UndoneCode, UndoneReqs, UndoneSwap, UndoneBuild, Updating, Applying, RollingBack
  <2>3. Served(u)'
    BY <1>1, <1>3, Knowing DEF Served, Whole, Hidden, Applying, RollingBack
  <2>4. Tools(u)'
    BY <1>1, <1>3, Knowing DEF Tools, Applying, RollingBack, UndoneCode, UndoneReqs, UndoneSwap, UndoneBuild
  <2> QED
    BY <1>3, <2>1, <2>2, <2>3, <2>4 DEF Progress
<1> QED
  BY <1>1, <1>2, <1>4, Knowing, HolderGoes DEF StepsOf, Updating, Unlocked

\* The virtualenv set aside serves nobody.
LEMMA UpdateDropPrev ==
  ASSUME UpdateInv, NEW u \in Users, DropPrev(u)
  PROVE  UpdateInv'
<1>1. /\ at[u] \in Updating /\ Leave(u) /\ UNCHANGED <<brec, roots, secret, snaps, issued, told, loose, excused, begun>>
      /\ ufaults' \in {ufaults, ufaults + 1} /\ site' \in {site, [site EXCEPT !.prev = NoEnv]}
  BY DEF DropPrev, Updating
<1>2. site \in Sites /\ NoEnv \in Envs
  BY <1>1, Knowing, UpkeepAssumption DEF NoEnv, Envs, Parts
<1>3. site' \in Sites /\ Code(site') = Code(site) /\ site'.maint = site.maint
  <2>1. [site EXCEPT !.prev = NoEnv] \in Sites
    BY <1>2, SiteStays
  <2>2. Code([site EXCEPT !.prev = NoEnv]) = Code(site) /\ [site EXCEPT !.prev = NoEnv].maint = site.maint
    BY <1>2 DEF Sites, Code
  <2> QED
    BY <1>1, <1>2, <2>1, <2>2
<1>4. StoresOK' /\ HistoryOK'
  BY <1>1, <1>3, Knowing DEF StoresOK, HistoryOK
<1>5. ServedWhole'
  BY <1>1, <1>3 DEF UpdateInv, ServedWhole, Whole, Code
<1> QED
  BY <1>1, <1>4, <1>5, Knowing, HolderEnds

\* A site that does not answer is hidden again, unless ffm says it could not.
LEMMA UpdatePingFails ==
  ASSUME UpdateInv, NEW u \in Users, PingFails(u)
  PROVE  UpdateInv'
<1>1. PICK on \in BOOLEAN : /\ site' = [site EXCEPT !.maint = site.maint \/ on]
                            /\ ufaults' = ufaults + IF on THEN 1 ELSE 2
                            /\ excused' = (excused \/ ~on)
  BY DEF PingFails
<1>2. /\ at[u] = "ping" /\ at[u] \in Updating /\ UNCHANGED <<brec, roots, secret, snaps, issued, told, loose, begun>>
      /\ IF task[u].undo THEN Go(u, "undoRevert") ELSE Leave(u)
  BY DEF PingFails, Updating
<1>3. site \in Sites
  BY <1>2, Knowing
<1>4. PICK v \in BOOLEAN : site' = [site EXCEPT !.maint = v] /\ (on => v) /\ (site.maint => v)
  BY <1>1
<1>5. site' \in Sites
  BY <1>3, <1>4, SiteStays
<1>6. Code(site') = Code(site) /\ site'.prev = site.prev /\ (on => site'.maint)
  BY <1>3, <1>4 DEF Sites, Code
<1>7. excused' \in BOOLEAN /\ (excused => excused') /\ (on \/ excused')
  BY <1>1, <1>2, Knowing DEF HistoryOK
<1>8. StoresOK' /\ HistoryOK'
  BY <1>1, <1>2, <1>5, <1>7, Knowing DEF StoresOK, HistoryOK
<1>9. ServedWhole'
  BY <1>6, <1>7 DEF ServedWhole
<1>10. CASE task[u].undo
  <2>1. at'[u] = "undoRevert" /\ Go(u, "undoRevert") /\ UNCHANGED <<brec, snaps, task, base>>
    BY <1>2, <1>10, Knowing DEF Go, ControlOK
  <2>2. Progress("undoRevert", site')
    BY DEF Progress, AfterCode, AfterReqs, AfterMigrate, AfterBuild, AfterRestart, UndoneReqs, UndoneSwap, UndoneBuild
  <2>3. Back(u)'
    BY <1>2, <2>1, Knowing DEF Back, Untouched, Snapping, UndoneCode, UndoneReqs, UndoneSwap, UndoneBuild, Updating, Applying, RollingBack
  <2>4. Served(u)'
    BY <1>2, <1>6, <1>7, <2>1, Knowing DEF Served, Whole
  <2>5. Tools(u)'
    BY <1>2, <1>6, <2>1, Knowing DEF Tools, Code, Applying, UndoneCode, UndoneReqs, UndoneSwap, UndoneBuild
  <2>6. (Progress(at[u], site) /\ Back(u) /\ Served(u) /\ Tools(u))'
    BY <2>1, <2>2, <2>3, <2>4, <2>5 DEF Progress
  <2> QED
    BY <1>2, <1>8, <1>9, <2>1, <2>6, Knowing, HolderGoes DEF StepsOf, Updating, RollingBack, Unlocked
<1>11. CASE ~task[u].undo
  BY <1>2, <1>8, <1>9, <1>11, Knowing, HolderEnds
<1> QED
  BY <1>10, <1>11

-----------------------------------------------------------------------------
(* Updates: the snapshot and the database *)

\* What the holder of the lock knows at a step that is none of an update's own.
LEMMA Holding ==
  ASSUME UpdateInv, NEW u \in Users, at[u] \notin Unlocked
  PROVE  /\ holder = u /\ task[u] \in Tasks /\ base[u] \in Bases /\ UpdateKnows(u) /\ at[u] \in StepsOf(task[u].kind)
         /\ site \in Sites /\ brec \in Recs /\ StoresOK /\ HistoryOK /\ ControlOK
BY DEF UpdateInv, TypeInv, ControlOK, LockOK, TaskOK, Unlocked, StoresOK

\* A snapshot's directory is made, or its name is taken.
LEMMA UpdateSnapDir ==
  ASSUME UpdateInv, NEW u \in Users, SnapDir(u)
  PROVE  UpdateInv'
<1>1. at[u] = "snapDir" /\ UNCHANGED <<brec, site, roots, secret, History>> /\ at[u] \in Snapping /\ at[u] \notin Unlocked
  BY DEF SnapDir, Snapping, Unlocked
<1>2. task[u].kind \in {"update", "snapshot", "trim"} /\ task[u].snap \in SnapNames
  BY <1>1, Holding, KindAt, TaskIs DEF Snapping
<1>3. ServedWhole' /\ HistoryOK'
  BY <1>1, Holding DEF UpdateInv, ServedWhole, Whole, History, HistoryOK
<1>4. CASE snaps[task[u].snap].dir
  <2>1. Leave(u) /\ StoresOK'
    BY <1>1, <1>4, Holding DEF SnapDir, StoresOK
  <2> QED
    BY <1>1, <1>3, <2>1, Holding, HolderEnds
<1>5. CASE ~snaps[task[u].snap].dir
  <2> DEFINE n == task[u].snap
  <2>1. Go(u, "snapDump") /\ snaps' = [snaps EXCEPT ![n].dir = TRUE, ![n].cut = Deleting(n)]
    BY <1>5 DEF SnapDir
  <2>2. Deleting(n) \in BOOLEAN
    BY DEF Deleting
  <2>3. [snaps[n] EXCEPT !.dir = TRUE, !.cut = Deleting(n)] \in Dirs
    <3>1. snaps[n] \in Dirs
      BY <1>1, <1>2, Holding DEF StoresOK
    <3>2. PICK w \in BOOLEAN : w = Deleting(n)
      BY <2>2
    <3>3. [snaps[n] EXCEPT !.dir = TRUE, !.cut = w] \in Dirs
      BY <3>1, Zenon DEF Dirs
    <3> QED
      BY <3>2, <3>3
  <2>4. snaps' = [snaps EXCEPT ![n] = [snaps[n] EXCEPT !.dir = TRUE, !.cut = Deleting(n)]]
    BY <1>1, <1>2, <2>1, Holding DEF StoresOK
  <2>5. StoresOK'
    BY <1>1, <1>2, <2>3, <2>4, Holding DEF StoresOK
  <2>6. at'[u] = "snapDump" /\ UNCHANGED <<brec, site, task, base, excused>>
    BY <1>1, <2>1, Holding DEF Go, ControlOK, History
  <2>7. ASSUME task[u].kind = "update" PROVE (Progress(at[u], site) /\ Back(u) /\ Served(u) /\ Tools(u))'
    <3>1. Progress("snapDump", site)
      BY DEF Progress, AfterCode, AfterReqs, AfterMigrate, AfterBuild, AfterRestart, UndoneReqs, UndoneSwap, UndoneBuild
    <3>2. Back(u)'
      BY <1>1, <2>6, <2>7, Holding DEF UpdateKnows, Back, Code, Untouched, Snapping, UndoneCode, UndoneReqs, UndoneSwap, UndoneBuild, Updating, Applying, RollingBack
    <3>3. Served(u)'
      BY <1>1, <2>6, <2>7, Holding DEF UpdateKnows, Served, Whole, Hidden, Applying, RollingBack
    <3>4. Tools(u)'
      BY <2>6 DEF Tools, Applying, RollingBack, UndoneCode, UndoneReqs, UndoneSwap, UndoneBuild
    <3> QED
      BY <2>6, <3>1, <3>2, <3>3, <3>4 DEF Progress
  <2>8. "snapDump" \in StepsOf(task[u].kind) \ Unlocked
    BY <1>2 DEF StepsOf, Snapping, Unlocked
  <2> QED
    BY <1>1, <1>3, <2>1, <2>5, <2>7, <2>8, Holding, HolderGoes
<1> QED
  BY <1>4, <1>5

\* The dump is of the site as it is, which an update has not touched yet.
LEMMA UpdateSnapDump ==
  ASSUME UpdateInv, NEW u \in Users, SnapDump(u)
  PROVE  UpdateInv'
<1> DEFINE n == task[u].snap
           d == [schema |-> site.schema, admin |-> site.admin]
<1>1. /\ at[u] = "snapDump" /\ UNCHANGED <<brec, site, roots, secret, History>> /\ at[u] \in Snapping /\ at[u] \notin Unlocked
      /\ Go(u, "snapMeta") /\ snaps' = [snaps EXCEPT ![n].dir = TRUE, ![n].dump = d]
  BY DEF SnapDump, Snapping, Unlocked
<1>2. task[u].kind \in {"update", "snapshot", "trim"} /\ n \in SnapNames
  BY <1>1, Holding, KindAt, TaskIs DEF Snapping
<1>3. ServedWhole' /\ HistoryOK'
  BY <1>1, Holding DEF UpdateInv, ServedWhole, Whole, History, HistoryOK
<1>4. d \in Dumps /\ d.schema = site.schema
  BY <1>1, Holding DEF Dumps, Sites
<1>5. snaps[n] \in Dirs /\ snaps \in [SnapNames -> Dirs]
  BY <1>1, <1>2, Holding DEF StoresOK
<1> HIDE DEF d
<1>6. [snaps[n] EXCEPT !.dir = TRUE, !.dump = d] \in Dirs
  BY <1>4, <1>5, Zenon DEF Dirs
<1>7. snaps' = [snaps EXCEPT ![n] = [snaps[n] EXCEPT !.dir = TRUE, !.dump = d]]
  BY <1>1, <1>2, <1>5
<1>8. StoresOK' /\ snaps'[n].dump = d
  BY <1>1, <1>2, <1>5, <1>6, <1>7, Holding DEF StoresOK, Dirs
<1>9. at'[u] = "snapMeta" /\ UNCHANGED <<brec, site, task, base, excused>>
  BY <1>1, Holding DEF Go, ControlOK, History
<1>10. ASSUME task[u].kind = "update" PROVE (Progress(at[u], site) /\ Back(u) /\ Served(u) /\ Tools(u))'
  <2>1. Progress("snapMeta", site)
    BY DEF Progress, AfterCode, AfterReqs, AfterMigrate, AfterBuild, AfterRestart, UndoneReqs, UndoneSwap, UndoneBuild
  <2>2. site.schema = base[u].site.schema
    BY <1>1, <1>10, Holding DEF UpdateKnows, Back, Code, Untouched, Snapping
  <2>3. Back(u)'
    BY <1>1, <1>4, <1>8, <1>9, <1>10, <2>2, Holding DEF UpdateKnows, Back, Code, Untouched, Snapping, UndoneCode, UndoneReqs, UndoneSwap, UndoneBuild, Updating, Applying, RollingBack
  <2>4. Served(u)'
    BY <1>1, <1>9, <1>10, Holding DEF UpdateKnows, Served, Whole, Hidden, Applying, RollingBack
  <2>5. Tools(u)'
    BY <1>9 DEF Tools, Applying, RollingBack, UndoneCode, UndoneReqs, UndoneSwap, UndoneBuild
  <2> QED
    BY <1>9, <2>1, <2>3, <2>4, <2>5 DEF Progress
<1>11. "snapMeta" \in StepsOf(task[u].kind) \ Unlocked
  BY <1>2 DEF StepsOf, Snapping, Unlocked
<1> QED
  BY <1>1, <1>3, <1>8, <1>10, <1>11, Holding, HolderGoes

\* A backup that fails takes its directory with it, and ends the operation.
LEMMA UpdateSnapDumpFails ==
  ASSUME UpdateInv, NEW u \in Users, SnapDumpFails(u)
  PROVE  UpdateInv'
<1> DEFINE none == [dir |-> FALSE, dump |-> NoDump, meta |-> FALSE, cut |-> FALSE]
<1>1. /\ at[u] = "snapDump" /\ UNCHANGED <<brec, site, roots, secret, issued, told, loose, excused, begun>> /\ at[u] \notin Unlocked
      /\ Leave(u) /\ snaps' = [snaps EXCEPT ![task[u].snap] = none] /\ ufaults' = ufaults + 1
  BY DEF SnapDumpFails, Unlocked
<1>2. none \in Dirs
  <2>1. NoDump \in Dumps
    BY UpkeepAssumption DEF NoDump, Dumps, Parts
  <2> QED
    BY <2>1, Zenon DEF Dirs
<1> HIDE DEF none
<1>3. StoresOK' /\ HistoryOK'
  <2>1. StoresOK'
    BY <1>1, <1>2, Holding DEF StoresOK
  <2>2. HistoryOK'
    BY <1>1, Holding DEF HistoryOK
  <2> QED
    BY <2>1, <2>2
<1>4. ServedWhole'
  BY <1>1 DEF UpdateInv, ServedWhole, Whole
<1> QED
  BY <1>1, <1>3, <1>4, Holding, HolderEnds

\* The metadata makes a snapshot whole, and the operation goes on, or ends.
LEMMA UpdateSnapMeta ==
  ASSUME UpdateInv, NEW u \in Users, SnapMeta(u)
  PROVE  UpdateInv'
<1> DEFINE n == task[u].snap
<1>1. at[u] = "snapMeta" /\ UNCHANGED <<brec, site, roots, secret, History>> /\ at[u] \in Snapping /\ at[u] \notin Unlocked
  BY DEF SnapMeta, Snapping, Unlocked
<1>2. task[u].kind \in {"update", "snapshot", "trim"} /\ n \in SnapNames
  BY <1>1, Holding, KindAt, TaskIs DEF Snapping
<1>3. ServedWhole' /\ HistoryOK'
  BY <1>1, Holding DEF UpdateInv, ServedWhole, Whole, History, HistoryOK
<1>4. snaps[n] \in Dirs /\ snaps \in [SnapNames -> Dirs]
  BY <1>1, <1>2, Holding DEF StoresOK
<1>5. [snaps[n] EXCEPT !.meta = TRUE] \in Dirs /\ [snaps[n] EXCEPT !.meta = TRUE].dump = snaps[n].dump
  BY <1>4, Zenon DEF Dirs
<1>6. snaps' = snaps \/ snaps' = [snaps EXCEPT ![n] = [snaps[n] EXCEPT !.meta = TRUE]]
  BY <1>2, <1>4 DEF SnapMeta
<1>7. StoresOK' /\ snaps'[n].dump = snaps[n].dump
  BY <1>1, <1>2, <1>4, <1>5, <1>6, Holding DEF StoresOK
<1>8. CASE Leave(u)
  BY <1>1, <1>3, <1>7, <1>8, Holding, HolderEnds
<1>9. CASE task[u].kind = "trim" /\ Go(u, "trim")
  <2>1. "trim" \in StepsOf(task[u].kind) \ Unlocked
    BY <1>9 DEF StepsOf, Unlocked
  <2> QED
    BY <1>1, <1>3, <1>7, <1>9, <2>1, Holding, HolderGoes
<1>10. CASE task[u].kind = "update" /\ Go(u, "maintOn")
  <2>1. at'[u] = "maintOn" /\ UNCHANGED <<brec, site, task, base, excused>>
    BY <1>1, <1>10, Holding DEF Go, ControlOK, History
  <2>2. Progress("maintOn", site)
    BY DEF Progress, AfterCode, AfterReqs, AfterMigrate, AfterBuild, AfterRestart, UndoneReqs, UndoneSwap, UndoneBuild
  <2>3. Back(u)'
    BY <1>1, <1>7, <1>10, <2>1, Holding DEF UpdateKnows, Back, Code, Untouched, Snapping, UndoneCode, UndoneReqs, UndoneSwap, UndoneBuild, Updating, Applying, RollingBack
  <2>4. Served(u)'
    BY <1>1, <1>10, <2>1, Holding DEF UpdateKnows, Served, Whole, Hidden, Applying, RollingBack
  <2>5. Tools(u)'
    BY <2>1 DEF Tools, Applying, RollingBack, UndoneCode, UndoneReqs, UndoneSwap, UndoneBuild
  <2>6. (Progress(at[u], site) /\ Back(u) /\ Served(u) /\ Tools(u))'
    BY <2>1, <2>2, <2>3, <2>4, <2>5 DEF Progress
  <2>7. "maintOn" \in StepsOf(task[u].kind) \ Unlocked
    BY <1>10 DEF StepsOf, Updating, Unlocked
  <2> QED
    BY <1>1, <1>3, <1>7, <1>10, <2>6, <2>7, Holding, HolderGoes
<1> QED
  BY <1>2, <1>8, <1>9, <1>10 DEF SnapMeta, AfterSnapshot

\* A snapshot is looked up, for a restore or a rollback.
LEMMA UpdatePick ==
  ASSUME UpdateInv, NEW u \in Users, Pick(u)
  PROVE  UpdateInv'
<1>1. /\ at[u] \in {"pick", "undoPick"} /\ at[u] \notin Unlocked /\ UNCHANGED <<Stores, History>>
      /\ Leave(u) \/ Go(u, IF at[u] = "pick" THEN "swap" ELSE "undoSwap")
  BY DEF Pick, Unlocked
<1>2. StoresOK' /\ HistoryOK' /\ ServedWhole'
  BY <1>1, SameStores
<1>3. CASE Leave(u)
  BY <1>1, <1>2, <1>3, Holding, HolderEnds
<1>4. CASE at[u] = "pick" /\ Go(u, "swap")
  <2>1. task[u].kind = "restore"
    BY <1>1, <1>4, Holding, KindAt
  <2>2. "swap" \in StepsOf(task[u].kind) \ Unlocked
    BY <2>1 DEF StepsOf, Loading, Unlocked
  <2> QED
    BY <1>1, <1>2, <1>4, <2>1, <2>2, Holding, HolderGoes
<1>5. CASE at[u] = "undoPick" /\ Go(u, "undoSwap")
  <2>1. at[u] \in Updating
    BY <1>5 DEF Updating, RollingBack
  <2>2. at'[u] = "undoSwap" /\ UNCHANGED <<brec, site, snaps, task, base, excused>>
    BY <1>1, <1>5, Holding DEF Go, ControlOK, Stores, History
  <2>3. Progress("undoSwap", site)
    BY <1>5, <2>1, Knowing DEF Progress, AfterCode, AfterReqs, AfterMigrate, AfterBuild, AfterRestart, UndoneReqs, UndoneSwap, UndoneBuild
  <2>4. Back(u)'
    BY <1>5, <2>1, <2>2, Knowing DEF Back, Untouched, Snapping, UndoneCode, UndoneReqs, UndoneSwap, UndoneBuild, Updating, Applying, RollingBack
  <2>5. Served(u)'
    BY <1>5, <2>1, <2>2, Knowing DEF Served, Whole, Hidden, RollingBack
  <2>6. Tools(u)'
    BY <1>5, <2>1, <2>2, Knowing DEF Tools, Applying, UndoneCode, UndoneReqs, UndoneSwap, UndoneBuild
  <2>7. (Progress(at[u], site) /\ Back(u) /\ Served(u) /\ Tools(u))'
    BY <2>2, <2>3, <2>4, <2>5, <2>6 DEF Progress
  <2> QED
    BY <1>1, <1>2, <1>5, <2>1, <2>7, Knowing, HolderGoes DEF StepsOf, Updating, RollingBack, Unlocked
<1> QED
  BY <1>1, <1>3, <1>4, <1>5

\* What is loaded has a schema, or half of one, and a password.
LEMMA DumpIs ==
  ASSUME UpdateInv, NEW u \in Users, at[u] \in {"swap", "undoSwap"}
  PROVE  DumpOf(u).schema \in Parts /\ DumpOf(u).admin \in Nat
<1>1. at[u] \notin Unlocked
  BY DEF Unlocked
<1>2. task[u].kind \in {"update", "restore", "import"}
  BY <1>1, Holding, KindAt DEF Updating, RollingBack, Loading
<1>3. CASE task[u].kind = "import"
  <2>1. task[u].schema \in Releases
    BY <1>1, <1>3, Holding, TaskIs
  <2>2. MaxRelease \in Nat /\ MaxPasswords \in Nat
    BY UpkeepAssumption
  <2> QED
    BY <1>3, <2>1, <2>2 DEF DumpOf, Foreign, Parts, Releases
<1>4. CASE task[u].kind # "import"
  <2>1. task[u].snap \in SnapNames
    BY <1>1, <1>2, <1>4, Holding, TaskIs
  <2>2. snaps[task[u].snap] \in Dirs
    BY <1>1, <2>1, Holding DEF StoresOK
  <2> QED
    BY <1>4, <2>2 DEF DumpOf, Dirs, Dumps
<1> QED
  BY <1>3, <1>4

\* What is loaded is a dump that exists; a rollback loads the schema its update found.
LEMMA UpdateSwap ==
  ASSUME UpdateInv, NEW u \in Users, Swap(u)
  PROVE  UpdateInv'
<1>1. /\ at[u] \in {"swap", "undoSwap"} /\ at[u] \notin Unlocked
      /\ UNCHANGED <<brec, roots, secret, snaps, ufaults, issued, told, loose, begun>>
  BY DEF Swap, Unlocked
<1>2. CASE Leave(u) /\ UNCHANGED <<site, excused>>
  <2>1. UNCHANGED Stores /\ UNCHANGED History
    BY <1>1, <1>2 DEF Stores, History
  <2> QED
    BY <1>1, <1>2, <2>1, Holding, HolderEnds, SameStores
<1>3. CASE ~(Leave(u) /\ UNCHANGED <<site, excused>>)
  <2> DEFINE after == [site EXCEPT !.schema = DumpOf(u).schema, !.admin = DumpOf(u).admin]
             next == IF at[u] = "undoSwap" THEN "undoAdmin" ELSE IF task[u].migrate THEN "swapMigrate" ELSE "swapAdmin"
  <2>1. /\ DumpOf(u) # NoDump /\ site' = after /\ Go(u, next) /\ excused' = (excused \/ at[u] = "swap")
    BY <1>3 DEF Swap
  <2>2. task[u].kind \in {"update", "restore", "import"} /\ (at[u] = "undoSwap" => at[u] \in Updating /\ task[u].kind = "update")
    BY <1>1, Holding, KindAt DEF Updating, RollingBack, Loading
  <2>3. DumpOf(u).schema \in Parts /\ DumpOf(u).admin \in Nat
    BY <1>1, DumpIs
  <2>4. site \in Sites
    BY <1>1, Holding
  <2>5. /\ after.schema = DumpOf(u).schema /\ after.maint = site.maint /\ after.code = site.code /\ after.branch = site.branch
        /\ after.env = site.env /\ after.prev = site.prev /\ after.image = site.image
    BY <2>4 DEF Sites
  <2>6. after \in Sites
    BY <2>3, <2>4, SiteStays
  <2> HIDE DEF after
  <2>7. excused' \in BOOLEAN /\ (at[u] = "swap" => excused') /\ (excused => excused')
    BY <1>1, <2>1, Holding DEF HistoryOK
  <2>8. StoresOK' /\ HistoryOK'
    BY <1>1, <2>1, <2>6, <2>7, Holding DEF StoresOK, HistoryOK
  <2>9. CASE at[u] = "swap"
    <3>1. task[u].kind \in {"restore", "import"}
      BY <1>1, <2>9, Holding, KindAt DEF Loading
    <3>2. next \in {"swapMigrate", "swapAdmin"}
      BY <2>9
    <3>3. next \in StepsOf(task[u].kind) \ Unlocked
      BY <3>1, <3>2 DEF StepsOf, Loading, Unlocked
    <3>4. ServedWhole'
      BY <2>7, <2>9 DEF ServedWhole
    <3> HIDE DEF next
    <3> QED
      BY <1>1, <2>1, <2>7, <2>8, <2>9, <3>1, <3>2, <3>3, <3>4, Holding, HolderGoes
  <2>10. CASE at[u] = "undoSwap"
    <3>1. next = "undoAdmin" /\ at[u] \in Updating /\ task[u].kind = "update"
      BY <2>2, <2>10
    <3> HIDE DEF next
    <3>2. DumpOf(u) = snaps[task[u].snap].dump
      BY <3>1 DEF DumpOf
    <3>3. DumpOf(u).schema = base[u].site.schema
      BY <2>1, <3>1, <3>2, <2>10, Knowing DEF Back
    <3>4. site.maint \/ excused
      BY <2>10, <3>1, Knowing DEF Served, Hidden, RollingBack
    <3>5. ServedWhole'
      BY <2>1, <2>5, <2>7, <3>4 DEF ServedWhole
    <3>6. at'[u] = "undoAdmin" /\ UNCHANGED <<brec, snaps, task, base>>
      BY <1>1, <2>1, <3>1, Holding DEF Go, ControlOK
    <3>7. Progress("undoAdmin", after)
      BY <2>5, <2>10, <3>1, Knowing DEF Progress, AfterCode, AfterReqs, AfterMigrate, AfterBuild, AfterRestart, UndoneReqs, UndoneSwap, UndoneBuild
    <3>8. Back(u)'
      BY <2>1, <2>5, <2>10, <3>1, <3>3, <3>6, Knowing DEF Back, Untouched, Snapping, UndoneCode, UndoneReqs, UndoneSwap, UndoneBuild, Updating, Applying, RollingBack
    <3>9. Served(u)'
      BY <2>1, <2>5, <2>7, <3>1, <3>4, <3>6, Knowing DEF Served, Whole
    <3>10. Tools(u)'
      BY <2>1, <2>5, <2>10, <3>1, <3>6, Knowing DEF Tools, Applying, UndoneCode, UndoneReqs, UndoneSwap, UndoneBuild
    <3>11. (Progress(at[u], site) /\ Back(u) /\ Served(u) /\ Tools(u))'
      BY <2>1, <3>6, <3>7, <3>8, <3>9, <3>10 DEF Progress
    <3>12. next \in StepsOf(task[u].kind) \ Unlocked
      BY <3>1 DEF StepsOf, Updating, RollingBack, Unlocked
    <3> QED
      BY <2>1, <2>8, <3>1, <3>5, <3>11, <3>12, Knowing, HolderGoes
  <2> QED
    BY <1>1, <2>9, <2>10
<1> QED
  BY <1>2, <1>3

\* A loaded database is migrated, but for what ffm said the site may be.
LEMMA UpdateSwapMigrate ==
  ASSUME UpdateInv, NEW u \in Users, SwapMigrate(u)
  PROVE  UpdateInv'
<1> DEFINE after == [site EXCEPT !.schema = site.code]
<1>1. /\ at[u] = "swapMigrate" /\ at[u] \notin Unlocked /\ site' = after /\ Go(u, "swapAdmin")
      /\ UNCHANGED <<brec, roots, secret, snaps, History>>
  BY DEF SwapMigrate, Command, Unlocked
<1>2. task[u].kind \in {"restore", "import"} /\ excused
  BY <1>1, Holding, KindAt DEF Loading, UpdateKnows
<1>3. after \in Sites
  <2>1. site \in Sites /\ site.code \in Parts
    BY <1>1, Holding DEF Sites
  <2> QED
    BY <2>1, SiteStays
<1> HIDE DEF after
<1>4. StoresOK' /\ HistoryOK' /\ ServedWhole'
  BY <1>1, <1>2, <1>3, Holding DEF StoresOK, HistoryOK, History, ServedWhole
<1>5. "swapAdmin" \in StepsOf(task[u].kind) \ Unlocked
  BY <1>2 DEF StepsOf, Loading, Unlocked
<1> QED
  BY <1>1, <1>2, <1>4, <1>5, Holding, HolderGoes

\* The Administrator's password is the record's again.
LEMMA UpdateSwapAdmin ==
  ASSUME UpdateInv, NEW u \in Users, SwapAdmin(u)
  PROVE  UpdateInv'
<1> DEFINE after == [site EXCEPT !.admin = brec.admin]
<1>1. /\ at[u] = "swapAdmin" /\ at[u] \notin Unlocked /\ site' = after /\ Go(u, "swapFlush")
      /\ UNCHANGED <<brec, roots, secret, snaps, begun, ufaults, issued, told, excused>> /\ loose' \subseteq loose
  BY DEF SwapAdmin, Reapply, Unlocked
<1>2. task[u].kind \in {"restore", "import"}
  BY <1>1, Holding, KindAt DEF Loading
<1>3. site \in Sites /\ brec.admin \in Nat
  BY <1>1, Holding DEF Recs
<1>4. after \in Sites
  BY <1>3, SiteStays
<1>5. Code(after) = Code(site) /\ after.maint = site.maint
  BY <1>3 DEF Code, Sites
<1> HIDE DEF after
<1>6. StoresOK' /\ HistoryOK'
  BY <1>1, <1>4, Holding DEF StoresOK, HistoryOK
<1>7. ServedWhole'
  BY <1>1, <1>5 DEF UpdateInv, ServedWhole, Whole, Code
<1>8. "swapFlush" \in StepsOf(task[u].kind) \ Unlocked
  BY <1>2 DEF StepsOf, Loading, Unlocked
<1> QED
  BY <1>1, <1>2, <1>6, <1>7, <1>8, Holding, HolderGoes

\* These end an operation and change nothing.
LEMMA UpdateEnds ==
  ASSUME UpdateInv, NEW u \in Users, SwapFlush(u) \/ Trim(u)
  PROVE  UpdateInv'
<1>1. at[u] \notin Unlocked /\ Leave(u) /\ UNCHANGED Stores /\ UNCHANGED History
  BY DEF SwapFlush, Trim, Unlocked
<1> QED
  BY <1>1, SameStores, Holding, HolderEnds

\* A migration makes the schema that of the code.
LEMMA UpdateJustMigrate ==
  ASSUME UpdateInv, NEW u \in Users, JustMigrate(u)
  PROVE  UpdateInv'
<1> DEFINE after == [site EXCEPT !.schema = site.code]
<1>1. /\ at[u] = "justMigrate" /\ at[u] \notin Unlocked /\ site' = after /\ Leave(u)
      /\ UNCHANGED <<brec, roots, secret, snaps, History>>
  BY DEF JustMigrate, Unlocked
<1>2. site \in Sites /\ site.code \in Parts
  BY <1>1, Holding DEF Sites
<1>3. after \in Sites
  BY <1>2, SiteStays
<1>4. /\ after.schema = site.code /\ after.code = site.code /\ after.env = site.env /\ after.assets = site.assets
      /\ after.live = site.live /\ after.maint = site.maint
  BY <1>2 DEF Sites
<1> HIDE DEF after
<1>5. StoresOK' /\ HistoryOK'
  BY <1>1, <1>3, Holding DEF StoresOK, HistoryOK, History
<1>6. ServedWhole'
  BY <1>1, <1>4, WholeIs DEF UpdateInv, ServedWhole, History
<1> QED
  BY <1>1, <1>5, <1>6, Holding, HolderEnds

-----------------------------------------------------------------------------
(* Updates: failures, deletions, maintenance, beginnings *)

\* What a command of an update leaves when it fails half-way: the mode of the
\* site, and the virtualenv or the one set aside, with its tool.
LEMMA HalfIs ==
  ASSUME UpdateInv, NEW u \in Users, at[u] \notin Unlocked, NEW s \in HalfDone(u)
  PROVE  /\ s \in Sites /\ s.maint = site.maint
         /\ at[u] \notin Applying \cup RollingBack \cup {"swap", "swapMigrate", "justMigrate"} => s = site
         /\ s.image = site.image \/ (at[u] = "image" /\ task[u].kind = "update" /\ s.image = task[u].tool)
         /\ \/ s.env = site.env /\ s.prev = site.prev
            \/ at[u] = "venv" /\ s.env = site.env /\ s.prev = NoEnv
            \/ at[u] = "venv" /\ s.env = NoEnv /\ s.prev = site.env
            \/ at[u] = "undoEnv"
            \/ at[u] \in {"reqs", "undoReqs"} /\ site.env # NoEnv /\ s.env.tool = site.env.tool /\ s.prev = site.prev
<1>0. site \in Sites
  BY Holding
<1>1. 0 \in Parts /\ NoEnv \in Envs /\ site.env \in Envs
  BY <1>0, UpkeepAssumption DEF NoEnv, Envs, Parts, Sites
<1>2. \/ s = site
      \/ at[u] \in {"code", "undoCode"} /\ s = [site EXCEPT !.code = 0]
      \/ at[u] = "image" /\ s = [site EXCEPT !.image = task[u].tool, !.live = 0]
      \/ at[u] \in {"undoImage", "restart", "undoRestart"} /\ s = [site EXCEPT !.live = 0]
      \/ at[u] = "venv" /\ s = [site EXCEPT !.prev = NoEnv]
      \/ at[u] = "venv" /\ s = [site EXCEPT !.prev = site.env, !.env = NoEnv]
      \/ at[u] = "undoEnv" /\ s = [site EXCEPT !.env = NoEnv]
      \/ at[u] \in {"reqs", "undoReqs"} /\ site.env # NoEnv /\ s = [site EXCEPT !.env.reqs = 0]
      \/ at[u] \in {"migrate", "swapMigrate", "justMigrate"} /\ s = [site EXCEPT !.schema = 0]
      \/ at[u] \in {"build", "undoBuild"} /\ s = [site EXCEPT !.assets = 0]
      \/ at[u] \in {"swap", "undoSwap"} /\ s \in Loaded(u)
  BY DEF HalfDone
<1>3. CASE s = site
  BY <1>0, <1>3
<1>4. CASE at[u] \in {"code", "undoCode"} /\ s = [site EXCEPT !.code = 0]
  <2>1. s \in Sites
    BY <1>0, <1>1, <1>4, SiteStays
  <2>2. s.maint = site.maint /\ s.image = site.image /\ s.env = site.env /\ s.prev = site.prev
    BY <1>0, <1>4 DEF Sites
  <2> QED
    BY <1>4, <2>1, <2>2 DEF Applying, RollingBack
<1>5. CASE at[u] = "image" /\ s = [site EXCEPT !.image = task[u].tool, !.live = 0]
  <2>1. at[u] \in Updating
    BY <1>5 DEF Updating, Applying
  <2>2. task[u].kind = "update" /\ task[u].tool \in 1..2
    BY <2>1, Knowing
  <2>3. s \in Sites
    BY <1>0, <1>1, <1>5, <2>2, SiteStays
  <2>4. s.maint = site.maint /\ s.image = task[u].tool /\ s.env = site.env /\ s.prev = site.prev
    BY <1>0, <1>5 DEF Sites
  <2> QED
    BY <1>5, <2>2, <2>3, <2>4 DEF Applying, RollingBack
<1>6. CASE at[u] \in {"undoImage", "restart", "undoRestart"} /\ s = [site EXCEPT !.live = 0]
  <2>1. s \in Sites
    BY <1>0, <1>1, <1>6, SiteStays
  <2>2. s.maint = site.maint /\ s.image = site.image /\ s.env = site.env /\ s.prev = site.prev
    BY <1>0, <1>6 DEF Sites
  <2> QED
    BY <1>6, <2>1, <2>2 DEF Applying, RollingBack
<1>7. CASE at[u] = "venv" /\ s = [site EXCEPT !.prev = NoEnv]
  <2>1. s \in Sites
    BY <1>0, <1>1, <1>7, SiteStays
  <2>2. s.maint = site.maint /\ s.image = site.image /\ s.env = site.env /\ s.prev = NoEnv
    BY <1>0, <1>7 DEF Sites
  <2> QED
    BY <1>7, <2>1, <2>2 DEF Applying, RollingBack
<1>8. CASE at[u] = "venv" /\ s = [site EXCEPT !.prev = site.env, !.env = NoEnv]
  <2>1. s \in Sites
    BY <1>0, <1>1, <1>8, SiteStays
  <2>2. s.maint = site.maint /\ s.image = site.image /\ s.env = NoEnv /\ s.prev = site.env
    BY <1>0, <1>8 DEF Sites
  <2> QED
    BY <1>8, <2>1, <2>2 DEF Applying, RollingBack
<1>9. CASE at[u] = "undoEnv" /\ s = [site EXCEPT !.env = NoEnv]
  <2>1. s \in Sites
    BY <1>0, <1>1, <1>9, SiteStays
  <2>2. s.maint = site.maint /\ s.image = site.image
    BY <1>0, <1>9 DEF Sites
  <2> QED
    BY <1>9, <2>1, <2>2 DEF Applying, RollingBack
<1>10. CASE at[u] \in {"reqs", "undoReqs"} /\ site.env # NoEnv /\ s = [site EXCEPT !.env.reqs = 0]
  <2>1. s \in Sites
    BY <1>0, <1>1, <1>10, SiteStays
  <2>2. s.maint = site.maint /\ s.image = site.image /\ s.env.tool = site.env.tool /\ s.prev = site.prev
    BY <1>0, <1>1, <1>10 DEF Sites, Envs
  <2> QED
    BY <1>10, <2>1, <2>2 DEF Applying, RollingBack
<1>11. CASE at[u] \in {"migrate", "swapMigrate", "justMigrate"} /\ s = [site EXCEPT !.schema = 0]
  <2>1. s \in Sites
    BY <1>0, <1>1, <1>11, SiteStays
  <2>2. s.maint = site.maint /\ s.image = site.image /\ s.env = site.env /\ s.prev = site.prev
    BY <1>0, <1>11 DEF Sites
  <2> QED
    BY <1>11, <2>1, <2>2 DEF Applying, RollingBack
<1>12. CASE at[u] \in {"build", "undoBuild"} /\ s = [site EXCEPT !.assets = 0]
  <2>1. s \in Sites
    BY <1>0, <1>1, <1>12, SiteStays
  <2>2. s.maint = site.maint /\ s.image = site.image /\ s.env = site.env /\ s.prev = site.prev
    BY <1>0, <1>12 DEF Sites
  <2> QED
    BY <1>12, <2>1, <2>2 DEF Applying, RollingBack
<1>13. CASE at[u] \in {"swap", "undoSwap"} /\ s \in Loaded(u)
  <2>1. PICK v \in Parts, w \in Nat : s = [site EXCEPT !.schema = v, !.admin = w]
    <3>1. DumpOf(u).schema \in Parts /\ DumpOf(u).admin \in Nat /\ site.admin \in Nat
      BY <1>0, <1>13, DumpIs DEF Sites
    <3>2. CASE \E a \in {site.admin, DumpOf(u).admin} : s = [site EXCEPT !.schema = 0, !.admin = a]
      BY <1>1, <3>1, <3>2
    <3>3. CASE s = [site EXCEPT !.schema = DumpOf(u).schema, !.admin = DumpOf(u).admin]
      BY <3>1, <3>3
    <3> QED
      BY <1>13, <3>2, <3>3 DEF Loaded
  <2>2. s \in Sites
    BY <1>0, <2>1, SiteStays
  <2>3. s.maint = site.maint /\ s.image = site.image /\ s.env = site.env /\ s.prev = site.prev
    BY <1>0, <2>1 DEF Sites
  <2> QED
    BY <1>13, <2>2, <2>3 DEF Applying, RollingBack
<1> QED
  BY <1>2, <1>3, <1>4, <1>5, <1>6, <1>7, <1>8, <1>9, <1>10, <1>11, <1>12, <1>13

\* A command that fails leaves a site that is hidden, or excused; the update rolls
\* back from any half-way toolchain, or the operation ends.
LEMMA UpdateCommandFails ==
  ASSUME UpdateInv, NEW u \in Users, CommandFails(u)
  PROVE  UpdateInv'
<1>1. /\ at[u] \in Applying \cup RollingBack \cup
           {"backup", "maintOn", "pause", "swap", "swapMigrate", "swapAdmin", "swapFlush", "justMigrate", "trim"}
      /\ at[u] \notin Unlocked /\ UNCHANGED <<brec, roots, secret, snaps, issued, told, begun>>
      /\ ufaults' \in {ufaults, ufaults + 1} /\ loose' \subseteq loose \cup {"admin", "dump"}
      /\ excused' = (excused \/ at[u] \in {"swap", "justMigrate"})
      /\ site' \in HalfDone(u)
      /\ IF at[u] \in Applying /\ task[u].undo THEN Go(u, "undoRevert") ELSE Leave(u)
  BY DEF CommandFails, Applying, RollingBack, Unlocked, HalfDone
<1>2. /\ site' \in Sites /\ site'.maint = site.maint
      /\ at[u] \notin Applying \cup RollingBack \cup {"swap", "swapMigrate", "justMigrate"} => site' = site
  BY <1>1, HalfIs
<1>3. excused' \in BOOLEAN /\ (excused => excused') /\ (at[u] \in {"swap", "justMigrate"} => excused')
  BY <1>1, Holding DEF HistoryOK
<1>4. StoresOK'
  BY <1>1, <1>2, Holding DEF StoresOK
<1>5. HistoryOK'
  BY <1>1, <1>3, Holding DEF HistoryOK
<1>6. ServedWhole'
  <2>1. CASE at[u] \in Applying \cup RollingBack
    <3>1. at[u] \in Updating /\ at[u] \in Hidden
      BY <2>1 DEF Updating, Hidden
    <3> QED
      BY <1>2, <1>3, <3>1, Knowing DEF Served, ServedWhole
  <2>2. CASE at[u] \in {"swap", "swapMigrate", "justMigrate"}
    <3>1. excused'
      BY <1>1, <1>3, <2>2, Holding DEF UpdateKnows
    <3> QED
      BY <3>1 DEF ServedWhole
  <2>3. CASE at[u] \notin Applying \cup RollingBack \cup {"swap", "swapMigrate", "justMigrate"}
    BY <1>2, <1>3, <2>3 DEF UpdateInv, ServedWhole, Whole
  <2> QED
    BY <2>1, <2>2, <2>3
<1>7. CASE at[u] \in Applying /\ task[u].undo
  <2>1. at[u] \in Updating
    BY <1>7 DEF Updating
  <2>2. Go(u, "undoRevert") /\ at'[u] = "undoRevert" /\ UNCHANGED <<brec, snaps, task, base>>
    BY <1>1, <1>7, Holding DEF Go, ControlOK
  <2>3. Progress("undoRevert", site')
    BY DEF Progress, AfterCode, AfterReqs, AfterMigrate, AfterBuild, AfterRestart, UndoneReqs, UndoneSwap, UndoneBuild
  <2>4. Back(u)'
    <3>1. at[u] \in {"snapMeta"} \cup (Updating \ {"backup"})
      BY <1>7, <2>1 DEF Applying
    <3> QED
      BY <2>1, <2>2, <3>1, Knowing DEF Back, Untouched, Snapping, UndoneCode, UndoneReqs, UndoneSwap, UndoneBuild
  <2>5. Served(u)'
    BY <1>2, <1>3, <1>7, <2>1, <2>2, Knowing DEF Served, Whole, Hidden
  <2>6. Tools(u)'
    <3> DEFINE t == ToolOf(base[u].rec)
               tool == base[u].rec.tool
    <3> SUFFICES ASSUME Sound(base[u])
                 PROVE  IF brec.tool = tool THEN site'.image = t /\ (site'.env = NoEnv \/ site'.env.tool = t)
                        ELSE (site'.prev = NoEnv /\ site'.env.tool = t) \/ site'.prev.tool = t
      BY <2>2 DEF Tools, Applying, UndoneCode, UndoneReqs, UndoneSwap, UndoneBuild
    <3>1. IF brec.tool = tool THEN site.image = t /\ (site.env = NoEnv \/ site.env.tool = t)
          ELSE (site.prev = NoEnv /\ site.env.tool = t) \/ site.prev.tool = t
      BY <1>7, <2>1, Knowing DEF Tools
    <3>2. /\ at[u] = "venv" => site.env.tool = t /\ site.prev = NoEnv
          /\ at[u] = "image" => brec.tool # tool
      BY <2>1, Knowing DEF Tools
    <3>3. /\ site'.image = site.image \/ at[u] = "image"
          /\ \/ site'.env = site.env /\ site'.prev = site.prev
             \/ at[u] = "venv" /\ site'.env = site.env /\ site'.prev = NoEnv
             \/ at[u] = "venv" /\ site'.env = NoEnv /\ site'.prev = site.env
             \/ at[u] = "reqs" /\ site.env # NoEnv /\ site'.env.tool = site.env.tool /\ site'.prev = site.prev
      BY <1>1, <1>7, HalfIs DEF Applying
    <3> HIDE DEF t, tool
    <3> QED
      BY <3>1, <3>2, <3>3
  <2>7. (Progress(at[u], site) /\ Back(u) /\ Served(u) /\ Tools(u))'
    BY <2>2, <2>3, <2>4, <2>5, <2>6 DEF Progress
  <2> QED
    BY <1>4, <1>5, <1>6, <2>1, <2>2, <2>7, Knowing, HolderGoes DEF StepsOf, Updating, RollingBack, Unlocked
<1>8. CASE ~(at[u] \in Applying /\ task[u].undo)
  BY <1>1, <1>4, <1>5, <1>6, <1>8, Holding, HolderEnds
<1> QED
  BY <1>7, <1>8

\* Who does not hold the lock changes nothing that its holder relies on, as long
\* as a dump stays or goes.
LEMMA OffLock ==
  ASSUME UpdateInv, NEW u \in Users, holder # u, holder' = holder,
         UNCHANGED <<brec, site, excused>>,
         \A v \in Users \ {u} : at'[v] = at[v] /\ task'[v] = task[v] /\ base'[v] = base[v],
         \A n \in SnapNames : snaps'[n].dump \in {NoDump, snaps[n].dump}
  PROVE  /\ \A v \in Users : UpdateKnows(v)'
         /\ ServedWhole'
<1>1. ServedWhole'
  BY DEF UpdateInv, ServedWhole, Whole
<1>2. ASSUME NEW v \in Users PROVE UpdateKnows(v)'
  <2> SUFFICES ASSUME holder = v
               PROVE  /\ (task[v].kind = "update" => Progress(at[v], site) /\ Back(v) /\ Served(v) /\ Tools(v))'
                      /\ at'[v] = "swapMigrate" => excused'
    BY DEF UpdateKnows
  <2>1. v # u /\ at'[v] = at[v] /\ task'[v] = task[v] /\ base'[v] = base[v]
    OBVIOUS
  <2>2. UpdateKnows(v)
    BY DEF UpdateInv
  <2>3. ASSUME task[v].kind = "update" PROVE Back(v)'
    <3>1. at[v] # "idle" /\ task[v].snap \in SnapNames
      BY <2>3, TaskIs DEF UpdateInv, TypeInv, ControlOK, LockOK, TaskOK, Unlocked
    <3>2. Back(v)
      BY <2>2, <2>3 DEF UpdateKnows
    <3> QED
      BY <2>1, <3>1, <3>2 DEF Back, Code
  <2>4. ASSUME task[v].kind = "update" PROVE (Progress(at[v], site) /\ Served(v) /\ Tools(v))'
    <3>1. Progress(at[v], site) /\ Served(v) /\ Tools(v)
      BY <2>2, <2>4 DEF UpdateKnows
    <3> QED
      BY <2>1, <3>1 DEF Progress, Served, Whole, Tools, Sound
  <2> QED
    BY <2>1, <2>2, <2>3, <2>4 DEF UpdateKnows
<1> QED
  BY <1>1, <1>2

\* A killed ffm leaves things as they are and frees the lock.
LEMMA UpdateKill ==
  ASSUME UpdateInv, NEW u \in Users, Kill(u)
  PROVE  UpdateInv'
<1>1. /\ Leave(u) /\ UNCHANGED <<Stores, told, excused, begun>> /\ ufaults' = ufaults + 1
      /\ loose' \in {loose, loose \cup {"lost"}} /\ issued' \in {issued, issued + 1}
  BY DEF Kill, New
<1>2. StoresOK' /\ HistoryOK' /\ ServedWhole'
  <2>1. StoresOK'
    BY <1>1 DEF UpdateInv, TypeInv, StoresOK, Stores
  <2>2. HistoryOK'
    BY <1>1 DEF UpdateInv, TypeInv, HistoryOK
  <2>3. ServedWhole'
    BY <1>1 DEF UpdateInv, ServedWhole, Whole, Stores
  <2> QED
    BY <2>1, <2>2, <2>3
<1>3. CASE holder = u
  BY <1>1, <1>2, <1>3, HolderEnds
<1>4. CASE holder # u
  <2>1. ControlOK' /\ holder' = holder
    BY <1>1, <1>4, GoesHome DEF UpdateInv, TypeInv, Leave
  <2>2. \A v \in Users \ {u} : at'[v] = at[v] /\ task'[v] = task[v] /\ base'[v] = base[v]
    BY <1>1 DEF UpdateInv, TypeInv, ControlOK, Leave
  <2>3. \A v \in Users : UpdateKnows(v)'
    BY <1>1, <1>4, <2>1, <2>2, OffLock DEF Stores
  <2> QED
    BY <1>2, <2>1, <2>3 DEF UpdateInv, TypeInv
<1> QED
  BY <1>3, <1>4

\* A deletion begins with a snapshot that is there, whole or not.
LEMMA UpdateStartDelete ==
  ASSUME UpdateInv, NEW u \in Users, NEW t \in Tasks, StartDelete(u, t)
  PROVE  UpdateInv'
<1> DEFINE n == t.snap
<1>1. /\ at[u] = "idle" /\ t.kind = "delete" /\ begun' = begun + 1 /\ snaps' = [snaps EXCEPT ![n].cut = TRUE]
      /\ at' = [at EXCEPT ![u] = "unlink"] /\ task' = [task EXCEPT ![u] = t]
      /\ UNCHANGED <<brec, site, roots, secret, holder, base, ufaults, issued, told, loose, excused>>
  BY DEF StartDelete
<1>2. n \in SnapNames /\ StoresOK /\ HistoryOK /\ ControlOK /\ holder # u
  BY <1>1, TaskIs DEF UpdateInv, TypeInv, ControlOK, LockOK, Unlocked
<1>3. snaps[n] \in Dirs /\ [snaps[n] EXCEPT !.cut = TRUE] \in Dirs /\ [snaps[n] EXCEPT !.cut = TRUE].dump = snaps[n].dump
  <2>1. snaps[n] \in Dirs
    BY <1>2 DEF StoresOK
  <2> QED
    BY <2>1, Zenon DEF Dirs
<1>4. snaps' = [snaps EXCEPT ![n] = [snaps[n] EXCEPT !.cut = TRUE]]
  BY <1>1, <1>2 DEF StoresOK
<1>5. StoresOK' /\ \A m \in SnapNames : snaps'[m].dump = snaps[m].dump
  BY <1>1, <1>2, <1>3, <1>4 DEF StoresOK
<1>6. HistoryOK'
  BY <1>1, <1>2 DEF HistoryOK
<1>7. /\ at' \in [Users -> Steps] /\ at'[u] = "unlink" /\ task' \in [Users -> Tasks \cup {Nobody}] /\ task'[u] = t
      /\ \A v \in Users \ {u} : at'[v] = at[v] /\ task'[v] = task[v] /\ base'[v] = base[v]
  BY <1>1, <1>2 DEF ControlOK, Steps, Unlocked
<1>8. \A v \in Users : LockOK(v)' /\ TaskOK(v)'
  BY <1>1, <1>2, <1>7 DEF ControlOK, LockOK, TaskOK, Unlocked, StepsOf
<1>9. ControlOK'
  BY <1>1, <1>2, <1>7, <1>8 DEF ControlOK
<1>10. (\A v \in Users : UpdateKnows(v)') /\ ServedWhole'
  BY <1>1, <1>2, <1>5, <1>7, OffLock
<1> QED
  BY <1>5, <1>6, <1>9, <1>10 DEF UpdateInv, TypeInv

\* A change of the domains begins with the record it finds.
LEMMA UpdateDomainRead ==
  ASSUME UpdateInv, NEW u \in Users, NEW t \in Tasks, DomainRead(u, t)
  PROVE  UpdateInv'
<1> DEFINE b == [rec |-> brec, site |-> site]
<1>1. /\ at[u] = "idle" /\ t.kind = "domain" /\ begun' = begun + 1
      /\ at' = [at EXCEPT ![u] = "compose"] /\ task' = [task EXCEPT ![u] = t] /\ base' = [base EXCEPT ![u] = b]
      /\ UNCHANGED <<brec, site, roots, secret, snaps, holder, ufaults, issued, told, loose, excused>>
  BY DEF DomainRead, Stores
<1>2. StoresOK /\ HistoryOK /\ ControlOK /\ holder # u
  BY <1>1 DEF UpdateInv, TypeInv, ControlOK, LockOK, Unlocked
<1>3. b \in Bases
  BY <1>2 DEF Bases, StoresOK
<1> HIDE DEF b
<1>4. StoresOK' /\ HistoryOK'
  BY <1>1, <1>2 DEF StoresOK, HistoryOK
<1>5. /\ at' \in [Users -> Steps] /\ at'[u] = "compose"
      /\ task' \in [Users -> Tasks \cup {Nobody}] /\ task'[u] = t
      /\ base' \in [Users -> Bases \cup {Nobody}] /\ base'[u] = b
      /\ \A v \in Users \ {u} : at'[v] = at[v] /\ task'[v] = task[v] /\ base'[v] = base[v]
  BY <1>1, <1>2, <1>3 DEF ControlOK, Steps, Unlocked
<1>6. ASSUME NEW v \in Users PROVE LockOK(v)' /\ TaskOK(v)'
  <2>1. CASE v = u
    BY <1>1, <1>2, <1>3, <1>5, <2>1 DEF LockOK, TaskOK, Unlocked, StepsOf
  <2>2. CASE v # u
    BY <1>1, <1>2, <1>5, <2>2 DEF ControlOK, LockOK, TaskOK
  <2> QED
    BY <2>1, <2>2
<1>7. ControlOK'
  BY <1>1, <1>2, <1>5, <1>6 DEF ControlOK
<1>8. (\A v \in Users : UpdateKnows(v)') /\ ServedWhole'
  BY <1>1, <1>2, <1>5, OffLock
<1> QED
  BY <1>4, <1>7, <1>8 DEF UpdateInv, TypeInv

\* It rewrites the secret file, which no update looks at.
LEMMA UpdateRewriteSecret ==
  ASSUME UpdateInv, NEW u \in Users, RewriteSecret(u)
  PROVE  UpdateInv'
<1>1. /\ at[u] = "compose" /\ Leave(u) /\ secret' \in {base[u].rec.root, secret, 0}
      /\ ufaults' \in {ufaults, ufaults + 1} /\ loose' \subseteq loose \cup {"secret"}
      /\ UNCHANGED <<brec, site, roots, snaps, begun, issued, told, excused>>
  BY DEF RewriteSecret, Fault
<1>2. StoresOK /\ HistoryOK /\ ControlOK /\ holder # u
  BY <1>1 DEF UpdateInv, TypeInv, ControlOK, LockOK, Unlocked
<1>3. base[u].rec.root \in Nat
  BY <1>1, <1>2 DEF ControlOK, TaskOK, Bases, Recs
<1>4. StoresOK' /\ HistoryOK'
  BY <1>1, <1>2, <1>3 DEF StoresOK, HistoryOK
<1>5. ControlOK' /\ holder' = holder
  BY <1>1, <1>2, GoesHome DEF Leave
<1>6. \A v \in Users \ {u} : at'[v] = at[v] /\ task'[v] = task[v] /\ base'[v] = base[v]
  BY <1>1, <1>2 DEF ControlOK, Leave
<1>7. (\A v \in Users : UpdateKnows(v)') /\ ServedWhole'
  BY <1>1, <1>2, <1>5, <1>6, OffLock
<1> QED
  BY <1>4, <1>5, <1>7 DEF UpdateInv, TypeInv

\* Then a file of it goes, and the directory with the rest.
LEMMA UpdateUnlink ==
  ASSUME UpdateInv, NEW u \in Users, Unlink(u) \/ Rmdir(u)
  PROVE  UpdateInv'
<1> DEFINE n == task[u].snap
<1>1. at[u] \in {"unlink", "rmdir"} /\ UNCHANGED <<brec, site, roots, secret, History>> /\ (Leave(u) \/ Go(u, "rmdir"))
  BY DEF Unlink, Rmdir
<1>2. StoresOK /\ HistoryOK /\ ControlOK /\ holder # u
  BY <1>1 DEF UpdateInv, TypeInv, ControlOK, LockOK, Unlocked
<1>3. n \in SnapNames /\ "rmdir" \in StepsOf(task[u].kind)
  BY <1>1, <1>2, KindAt, TaskIs DEF StepsOf
<1>4. snaps[n] \in Dirs /\ snaps \in [SnapNames -> Dirs] /\ NoDump \in Dumps
  BY <1>2, <1>3, UpkeepAssumption DEF StoresOK, NoDump, Dumps, Parts
<1>5. PICK d \in Dirs : snaps' = [snaps EXCEPT ![n] = d] /\ d.dump \in {NoDump, snaps[n].dump}
  <2>1. CASE Rmdir(u)
    <3> DEFINE none == [dir |-> FALSE, dump |-> NoDump, meta |-> FALSE, cut |-> TRUE]
    <3>1. none \in Dirs
      BY <1>4, Zenon DEF Dirs
    <3> QED
      BY <2>1, <3>1 DEF Rmdir
  <2>2. CASE Unlink(u)
    <3>1. PICK part \in {[dump |-> NoDump, meta |-> snaps[n].meta], [dump |-> snaps[n].dump, meta |-> FALSE]} :
             snaps' = [snaps EXCEPT ![n].dump = part.dump, ![n].meta = part.meta]
      BY <2>2 DEF Unlink
    <3>2. PICK m \in BOOLEAN, x \in {NoDump, snaps[n].dump} : part.meta = m /\ part.dump = x
      <4>1. snaps[n].meta \in BOOLEAN
        BY <1>4, Zenon DEF Dirs
      <4>2. CASE part = [dump |-> NoDump, meta |-> snaps[n].meta]
        <5>1. part.meta = snaps[n].meta /\ part.dump = NoDump
          BY <4>2, Zenon
        <5> QED
          BY <4>1, <5>1, Zenon
      <4>3. CASE part = [dump |-> snaps[n].dump, meta |-> FALSE]
        <5>1. part.meta = FALSE /\ part.dump = snaps[n].dump
          BY <4>3, Zenon
        <5> QED
          BY <5>1, Zenon
      <4> QED
        BY <3>1, <4>2, <4>3
    <3>3. x \in Dumps
      BY <1>4, <3>2 DEF Dirs
    <3>4. [snaps[n] EXCEPT !.dump = x, !.meta = m] \in Dirs
      BY <1>4, <3>3, Zenon DEF Dirs
    <3>5. [snaps[n] EXCEPT !.dump = x, !.meta = m].dump = x
      BY <1>4, Zenon DEF Dirs
    <3>6. snaps' = [snaps EXCEPT ![n] = [snaps[n] EXCEPT !.dump = x, !.meta = m]]
      BY <1>3, <1>4, <3>1, <3>2
    <3> QED
      BY <3>2, <3>4, <3>5, <3>6
  <2> QED
    BY <2>1, <2>2
<1>6. StoresOK' /\ \A m \in SnapNames : snaps'[m].dump \in {NoDump, snaps[m].dump}
  BY <1>1, <1>2, <1>3, <1>4, <1>5 DEF StoresOK
<1>7. HistoryOK'
  BY <1>1, <1>2 DEF HistoryOK, History
<1>8. ControlOK' /\ holder' = holder
  <2>1. CASE Leave(u)
    BY <1>2, <2>1, GoesHome DEF Leave
  <2>2. CASE Go(u, "rmdir")
    BY <1>1, <1>2, <1>3, <2>2, GoesOn DEF Unlocked
  <2> QED
    BY <1>1, <2>1, <2>2
<1>9. \A v \in Users \ {u} : at'[v] = at[v] /\ task'[v] = task[v] /\ base'[v] = base[v]
  BY <1>1, <1>2 DEF ControlOK, Leave, Go
<1>10. (\A v \in Users : UpdateKnows(v)') /\ ServedWhole'
  BY <1>1, <1>2, <1>6, <1>8, <1>9, OffLock DEF History
<1> QED
  BY <1>6, <1>7, <1>8, <1>10 DEF UpdateInv, TypeInv


-----------------------------------------------------------------------------
(* Updates: what begins, maintenance mode by hand, passwords *)

\* An operation that begins has the bench for itself, and an update notes what
\* it finds.
LEMMA UpdateStart ==
  ASSUME UpdateInv, NEW u \in Users, NEW t \in Tasks, Start(u, t)
  PROVE  UpdateInv'
<1> DEFINE b == [rec |-> brec, site |-> site]
<1>1. /\ at[u] = "idle" /\ holder = Nobody /\ t.kind \notin {"delete", "domain"} /\ begun' = begun + 1 /\ holder' = u
      /\ at' = [at EXCEPT ![u] = First(t)] /\ task' = [task EXCEPT ![u] = t] /\ base' = [base EXCEPT ![u] = b]
      /\ excused' = (excused \/ (t.kind = "update" /\ ~Whole(site)))
      /\ UNCHANGED <<brec, site, roots, secret, snaps, ufaults, issued, told, loose>>
  BY DEF Start, Stores
<1>2. StoresOK /\ HistoryOK /\ ControlOK
  BY DEF UpdateInv, TypeInv
<1>3. b \in Bases /\ b.rec = brec /\ b.site = site
  BY <1>2 DEF Bases, StoresOK
<1> HIDE DEF b
<1>4. /\ First(t) \in StepsOf(t.kind) /\ First(t) \in Steps \ Unlocked
      /\ First(t) \notin {"toolchain", "image", "venv", "branch", "swapMigrate"}
      /\ t.kind = "update" => First(t) = "backup"
  <2>1. t.kind \in {"update", "snapshot", "trim", "restore", "import", "migrate", "rotateRoot",
                    "rotateAdmin", "password", "agent"}
    BY <1>1, TaskIs
  <2>2. First(t) = IF t.kind = "update" THEN "backup" ELSE IF t.kind \in {"snapshot", "trim"} THEN "snapDir"
                   ELSE IF t.kind = "restore" THEN "pick" ELSE IF t.kind = "import" THEN "swap"
                   ELSE IF t.kind = "migrate" THEN "justMigrate" ELSE IF t.kind = "rotateRoot" THEN "hosts" ELSE "setAdmin"
    BY <2>1 DEF First
  <2> QED
    BY <2>1, <2>2 DEF StepsOf, Steps, Unlocked, Snapping, Updating, Loading, Rooting, Applying, RollingBack
<1>5. /\ at' \in [Users -> Steps] /\ at'[u] = First(t)
      /\ task' \in [Users -> Tasks \cup {Nobody}] /\ task'[u] = t
      /\ base' \in [Users -> Bases \cup {Nobody}] /\ base'[u] = b
      /\ \A v \in Users \ {u} : at'[v] = at[v] /\ task'[v] = task[v] /\ base'[v] = base[v]
  BY <1>1, <1>2, <1>3, <1>4 DEF ControlOK
<1>6. ControlOK'
  <2>1. ASSUME NEW v \in Users PROVE LockOK(v)' /\ TaskOK(v)'
    <3>1. CASE v = u
      BY <1>1, <1>3, <1>4, <1>5, <3>1 DEF LockOK, TaskOK
    <3>2. CASE v # u
      <4>1. holder # v /\ holder' # v
        BY <1>1, <3>2, UpkeepAssumption
      <4> QED
        BY <1>2, <1>5, <3>2, <4>1 DEF ControlOK, LockOK, TaskOK
    <3> QED
      BY <3>1, <3>2
  <2> QED
    BY <1>1, <1>5, <2>1 DEF ControlOK
<1>7. StoresOK'
  BY <1>1, <1>2 DEF StoresOK
<1>8. HistoryOK'
  <2>1. excused' \in BOOLEAN
    BY <1>1, Zenon
  <2> QED
    BY <1>1, <1>2, <2>1 DEF HistoryOK
<1>9. ServedWhole'
  BY <1>1 DEF UpdateInv, ServedWhole, Whole
<1>10. ASSUME NEW v \in Users PROVE UpdateKnows(v)'
  <2> SUFFICES ASSUME v = u, t.kind = "update"
               PROVE  (Progress(at[u], site) /\ Back(u) /\ Served(u) /\ Tools(u))'
    BY <1>1, <1>4, <1>5 DEF UpdateKnows
  <2>1. at'[u] = "backup"
    BY <1>4, <1>5
  <2>2. Progress("backup", site)
    BY DEF Progress, AfterCode, AfterReqs, AfterMigrate, AfterBuild, AfterRestart, UndoneReqs, UndoneSwap, UndoneBuild
  <2>3. Back(u)'
    BY <1>1, <1>3, <1>5, <2>1 DEF Back, Code, UndoneCode, UndoneReqs, UndoneSwap, UndoneBuild, Updating, Applying, RollingBack
  <2>4. Served(u)'
    BY <1>1, <1>3, <1>5, <2>1 DEF Served, Whole, Hidden, Applying, RollingBack
  <2>5. Tools(u)'
    BY <2>1 DEF Tools, Applying, RollingBack, UndoneCode, UndoneReqs, UndoneSwap, UndoneBuild
  <2> QED
    BY <1>1, <2>1, <2>2, <2>3, <2>4, <2>5 DEF Progress
<1> QED
  BY <1>6, <1>7, <1>8, <1>9, <1>10 DEF UpdateInv, TypeInv

\* Maintenance mode off by hand in the middle of an update is excused.
LEMMA UpdateMaintenance ==
  ASSUME UpdateInv, NEW on \in BOOLEAN, Maintenance(on)
  PROVE  UpdateInv'
<1> DEFINE after == [site EXCEPT !.maint = on]
<1>1. /\ site' = after
      /\ excused' = (excused \/ (~on /\ (~Whole(site) \/ \E u \in Users : at[u] \in Hidden)))
      /\ UNCHANGED <<brec, roots, secret, snaps, holder, at, task, base, ufaults, issued, told, loose, begun>>
  BY DEF Maintenance, Hidden
<1>2. StoresOK /\ HistoryOK /\ ControlOK /\ site \in Sites
  BY DEF UpdateInv, TypeInv, StoresOK
<1>3. /\ after.code = site.code /\ after.branch = site.branch /\ after.env = site.env
      /\ after.prev = site.prev /\ after.image = site.image /\ after.schema = site.schema
      /\ after.assets = site.assets /\ after.live = site.live
  BY <1>2 DEF Sites
<1>4. after.maint = on
  BY <1>2, Zenon DEF Sites
<1>5. after \in Sites
  BY <1>2, SiteStays
<1> HIDE DEF after
<1>6. StoresOK'
  BY <1>1, <1>2, <1>5 DEF StoresOK
<1>7. HistoryOK' /\ (excused => excused')
  <2>1. excused' \in BOOLEAN
    BY <1>1, Zenon
  <2> QED
    BY <1>1, <1>2, <2>1 DEF HistoryOK
<1>8. ControlOK'
  BY <1>1, <1>2 DEF ControlOK, LockOK, TaskOK
<1>9. ServedWhole'
  BY <1>1, <1>3, <1>4, WholeIs DEF ServedWhole
<1>10. ASSUME NEW v \in Users PROVE UpdateKnows(v)'
  <2> SUFFICES ASSUME holder = v
               PROVE  /\ (task[v].kind = "update" => Progress(at[v], site) /\ Back(v) /\ Served(v) /\ Tools(v))'
                      /\ at'[v] = "swapMigrate" => excused'
    BY <1>1 DEF UpdateKnows
  <2>1. UpdateKnows(v)
    BY DEF UpdateInv
  <2>2. ASSUME task[v].kind = "update" PROVE (Progress(at[v], site) /\ Back(v) /\ Served(v) /\ Tools(v))'
    <3>1. Progress(at[v], site) /\ Back(v) /\ Served(v) /\ Tools(v)
      BY <2>1, <2>2 DEF UpdateKnows
    <3>2. Progress(at[v], site)'
      BY <1>1, <1>3, <3>1 DEF Progress
    <3>3. Back(v)'
      BY <1>1, <1>3, <3>1 DEF Back, Code
    <3>4. Served(v)'
      BY <1>1, <1>4, <1>7, <3>1 DEF Served, Whole
    <3>5. Tools(v)'
      BY <1>1, <1>3, <3>1 DEF Tools, Sound, Whole
    <3> QED
      BY <3>2, <3>3, <3>4, <3>5
  <2> QED
    BY <1>1, <1>7, <2>1, <2>2 DEF UpdateKnows
<1> QED
  BY <1>6, <1>7, <1>8, <1>9, <1>10 DEF UpdateInv, TypeInv

\* A step that replaces a password.
PasswordStep(u) == ListHosts(u) \/ Alter(u) \/ AlterFails(u) \/ Unalter(u) \/ Secret(u) \/ RecordRoot(u) \/ SetAdmin(u) \/ RecordAdmin(u)

\* Replacing a password leaves the rest of the site as it is.
LEMMA UpdatePasswords ==
  ASSUME UpdateInv, NEW u \in Users, PasswordStep(u)
  PROVE  UpdateInv'
<1>1. /\ at[u] \in {"hosts"} \cup Rooting \cup {"setAdmin", "admin"}
      /\ Leave(u) \/ (at[u] \in {"hosts"} \cup Rooting /\ \E next \in Rooting : Go(u, next)) \/ (at[u] = "setAdmin" /\ Go(u, "admin"))
  BY DEF PasswordStep, ListHosts, Alter, AlterFails, Unalter, Secret, RecordRoot, SetAdmin, RecordAdmin, Tell, Rooting
<1>2. at[u] \notin Unlocked
  BY <1>1 DEF Rooting, Unlocked
<1>3. StoresOK /\ HistoryOK /\ ControlOK /\ New \in Nat /\ holder = u
  BY <1>2, Holding DEF HistoryOK, New
<1>4. task[u].kind # "update" /\ (at[u] \in {"hosts"} \cup Rooting => task[u].kind = "rotateRoot")
         /\ (at[u] \in {"setAdmin", "admin"} => task[u].kind \in {"rotateAdmin", "password", "agent"})
  BY <1>1, <1>2, <1>3, KindAt DEF Unlocked
<1>5. /\ brec' \in {brec, [brec EXCEPT !.root = New], [brec EXCEPT !.admin = New]}
      /\ site' \in {site, [site EXCEPT !.admin = New]}
      /\ secret' \in {secret, 0, New} /\ UNCHANGED <<snaps, excused, begun>>
      /\ ufaults' \in {ufaults, ufaults + 1} /\ issued' \in {issued, New} /\ told' \in {told, told \cup {New}}
      /\ loose' \subseteq loose \cup {"admin", "agent", "root", "secret"}
  <2>1. CASE Alter(u)
    BY <2>1 DEF Alter, History
  <2>2. CASE AlterFails(u)
    BY <2>2 DEF AlterFails, Fault, Stores
  <2>3. CASE Unalter(u)
    BY <2>3 DEF Unalter, Fault
  <2>4. CASE Secret(u)
    BY <2>4 DEF Secret, Tell, Fault
  <2>5. CASE RecordRoot(u)
    BY <2>5 DEF RecordRoot, Tell, Fault
  <2>6. CASE SetAdmin(u)
    BY <2>6 DEF SetAdmin, Fault
  <2>7. CASE RecordAdmin(u)
    BY <2>7 DEF RecordAdmin, Tell, Fault
  <2>8. CASE ListHosts(u)
    BY <2>8 DEF ListHosts, Fault, Stores
  <2> QED
    BY <2>1, <2>2, <2>3, <2>4, <2>5, <2>6, <2>7, <2>8 DEF PasswordStep
<1>6. roots' \in [RootHosts -> Nat]
  <2>1. brec.root \in Nat /\ roots \in [RootHosts -> Nat]
    BY <1>3 DEF StoresOK, Recs
  <2>2. roots' = roots \/ roots' = [h \in RootHosts |-> brec.root] \/ \E h \in RootHosts : roots' = [roots EXCEPT ![h] = New]
    BY DEF PasswordStep, ListHosts, Alter, AlterFails, Unalter, Secret, RecordRoot, SetAdmin, RecordAdmin, Tell, Stores, NextHosts
  <2> QED
    BY <1>3, <2>1, <2>2
<1>7. brec' \in Recs
  BY <1>3, <1>5 DEF StoresOK, Recs
<1>8. site' \in Sites /\ (Whole(site') <=> Whole(site)) /\ site'.maint = site.maint
  <2>1. site \in Sites
    BY <1>3 DEF StoresOK
  <2>2. CASE site' = site
    BY <2>1, <2>2
  <2>3. CASE site' = [site EXCEPT !.admin = New]
    <3>1. /\ site'.code = site.code /\ site'.env = site.env /\ site'.schema = site.schema
          /\ site'.assets = site.assets /\ site'.live = site.live /\ site'.maint = site.maint
      BY <2>1, <2>3 DEF Sites
    <3>2. site' \in Sites
      BY <1>3, <2>1, <2>3, SiteStays
    <3> QED
      BY <3>1, <3>2, WholeIs
  <2> QED
    BY <1>5, <2>2, <2>3
<1>9. StoresOK'
  BY <1>3, <1>5, <1>6, <1>7, <1>8 DEF StoresOK
<1>10. HistoryOK'
  BY <1>3, <1>5 DEF HistoryOK
<1>11. ServedWhole'
  BY <1>5, <1>8 DEF UpdateInv, ServedWhole
<1>12. CASE Leave(u)
  BY <1>3, <1>9, <1>10, <1>11, <1>12, HolderEnds
<1>13. CASE ~Leave(u)
  <2>1. PICK next \in Rooting \cup {"admin"} : Go(u, next) /\ next \in StepsOf(task[u].kind)
    BY <1>1, <1>4, <1>13 DEF StepsOf
  <2>2. next \notin Unlocked \cup {"toolchain", "image", "venv", "branch", "swapMigrate"}
    BY <2>1 DEF Rooting, Unlocked
  <2> QED
    BY <1>3, <1>4, <1>9, <1>10, <1>11, <2>1, <2>2, HolderGoes
<1> QED
  BY <1>12, <1>13


-----------------------------------------------------------------------------
(* The updates' theorems *)

\* Initially nobody holds the lock and the site is whole.
LEMMA UpdateInit ==
  ASSUME UpkeepInit
  PROVE  UpdateInv
<1>1. TypeInv
  BY InitType
<1>2. ServedWhole
  BY DEF UpkeepInit, ServedWhole, Whole
<1>3. \A u \in Users : UpdateKnows(u)
  BY UpkeepAssumption DEF UpkeepInit, UpdateKnows
<1> QED
  BY <1>1, <1>2, <1>3 DEF UpdateInv

\* Every step of every user keeps it.
LEMMA UpdateStep ==
  ASSUME UpdateInv, [UpkeepNext]_uvars
  PROVE  UpdateInv'
<1>1. ASSUME NEW u \in Users, NEW t \in Tasks, Start(u, t) \/ StartDelete(u, t) \/ DomainRead(u, t) PROVE UpdateInv'
  BY <1>1, UpdateStart, UpdateStartDelete, UpdateDomainRead
<1>2. ASSUME NEW u \in Users,
             \/ Backup(u) \/ SnapDir(u) \/ SnapDump(u) \/ SnapDumpFails(u) \/ SnapMeta(u) \/ Unlink(u) \/ Rmdir(u)
             \/ Pick(u) \/ Swap(u) \/ SwapMigrate(u) \/ SwapAdmin(u) \/ SwapFlush(u) \/ JustMigrate(u) \/ Trim(u)
      PROVE  UpdateInv'
  BY <1>2, UpdateBackup, UpdateSnapDir, UpdateSnapDump, UpdateSnapDumpFails, UpdateSnapMeta, UpdateUnlink,
     UpdatePick, UpdateSwap, UpdateSwapMigrate, UpdateSwapAdmin, UpdateEnds, UpdateJustMigrate
<1>3. ASSUME NEW u \in Users,
             \/ MaintOn(u) \/ Pause(u) \/ Revert(u) \/ Pull(u) \/ Switch(u) \/ Toolchain(u) \/ Image(u) \/ Venv(u)
             \/ Reqs(u) \/ Cache(u) \/ Migrate(u) \/ BuildAssets(u) \/ Patch(u) \/ Restart(u) \/ Branch(u)
             \/ Finish(u) \/ Ping(u) \/ PingFails(u) \/ DropPrev(u)
      PROVE  UpdateInv'
  BY <1>3, UpdateMaintOn, UpdatePause, UpdateRevert, UpdatePull, UpdateSwitch, UpdateToolchain, UpdateImage, UpdateVenv,
     UpdateReqs, UpdateCache, UpdateMigrate, UpdateBuild, UpdatePatch, UpdateRestart, UpdateBranch,
     UpdateFinish, UpdatePing, UpdatePingFails, UpdateDropPrev
<1>4. ASSUME NEW u \in Users,
             \/ UndoRevert(u) \/ UndoCode(u) \/ UndoTool(u) \/ UndoImage(u) \/ UndoEnv(u) \/ UndoReqs(u) \/ UndoCache(u)
             \/ UndoAdmin(u) \/ UndoBuild(u) \/ UndoPatch(u) \/ UndoRestart(u)
      PROVE  UpdateInv'
  BY <1>4, UpdateUndoRevert, UpdateUndoCode, UpdateUndoTool, UpdateUndoImage, UpdateUndoEnv, UpdateUndoReqs, UpdateUndoCache,
     UpdateUndoAdmin, UpdateUndoBuild, UpdateUndoPatch, UpdateUndoRestart
<1>5. ASSUME NEW u \in Users, CommandFails(u) \/ Kill(u) \/ RewriteSecret(u) \/ PasswordStep(u)
      PROVE  UpdateInv'
  BY <1>5, UpdateCommandFails, UpdateKill, UpdateRewriteSecret, UpdatePasswords
<1>6. ASSUME NEW on \in BOOLEAN, Maintenance(on) PROVE UpdateInv'
  BY <1>6, UpdateMaintenance
<1>7. CASE UNCHANGED uvars
  <2>1. StoresOK' /\ HistoryOK' /\ ServedWhole'
    BY <1>7, SameStores DEF uvars, Stores, History
  <2>2. ControlOK'
    BY <1>7 DEF uvars, UpdateInv, TypeInv, ControlOK, LockOK, TaskOK
  <2>3. ASSUME NEW u \in Users PROVE UpdateKnows(u)'
    <3>1. UpdateKnows(u)
      BY DEF UpdateInv
    <3> QED
      BY <1>7, <3>1 DEF uvars, UpdateKnows, Progress, Back, Served, Tools, Sound, Whole, Code
  <2> QED
    BY <2>1, <2>2, <2>3 DEF UpdateInv, TypeInv
<1> QED
  BY <1>1, <1>2, <1>3, <1>4, <1>5, <1>6, <1>7 DEF UpkeepNext, PasswordStep

\* What the steps of upkeep know holds always.
THEOREM UpdatesKnow == UpkeepSpec => []UpdateInv
<1>1. UpkeepInit => UpdateInv
  BY UpdateInit
<1>2. UpdateInv /\ [UpkeepNext]_uvars => UpdateInv'
  BY UpdateStep
<1> QED
  BY <1>1, <1>2, PTL DEF UpkeepSpec

\* Visitors are served one release throughout, however updates, snapshots and
\* replaced databases fail or are killed, unless ffm excused it.
THEOREM VisitorsServed == UpkeepSpec => []ServedWhole
<1>1. UpdateInv => ServedWhole
  BY DEF UpdateInv
<1> QED
  BY <1>1, UpdatesKnow, PTL

\* An update that says it rolled back has put back the apps, the toolchain with
\* its record, the virtualenv, the schema, the assets and the processes.
THEOREM RolledBack == UpkeepSpec => []RollbackWhole
<1>1. ASSUME UpdateInv, NEW u \in Users, at[u] = "undone", Sound(base[u])
      PROVE  brec.tool = base[u].rec.tool /\ Code(site) = Code(base[u].site)
  <2> DEFINE was == base[u].site
             t   == ToolOf(base[u].rec)
  <2>1. at[u] \in Updating
    BY <1>1 DEF Updating
  <2>2. Progress("undone", site) /\ Back(u) /\ Tools(u) /\ site \in Sites /\ was \in Sites
    BY <1>1, <2>1, Knowing DEF Bases
  <2>3. Whole(was) /\ was.image = t /\ was.env.tool = t
    BY <1>1, SoundIs
  <2>4. was.env.reqs = was.code /\ was.schema = was.code /\ was.assets = was.code /\ was.live = was.code
    BY <2>3, WholeIs
  <2>5. site.code = was.code /\ site.branch = was.branch /\ site.schema = was.schema
    BY <1>1, <2>2 DEF Back, UndoneCode, UndoneReqs, UndoneSwap, UndoneBuild
  <2>6. site.env.reqs = site.code /\ site.assets = site.code /\ site.live = site.code
    BY <2>2 DEF Progress, UndoneReqs, UndoneSwap, UndoneBuild
  <2>7. brec.tool = base[u].rec.tool /\ site.image = t /\ site.env.tool = t
    BY <1>1, <2>2 DEF Tools, UndoneCode, UndoneReqs, UndoneSwap, UndoneBuild
  <2>8. site.env = was.env
    BY <2>2, <2>3, <2>4, <2>5, <2>6, <2>7 DEF Sites, Envs
  <2> QED
    BY <2>3, <2>4, <2>5, <2>6, <2>7, <2>8 DEF Code
<1>2. UpdateInv => RollbackWhole
  BY <1>1 DEF RollbackWhole
<1> QED
  BY <1>2, UpdatesKnow, PTL


-----------------------------------------------------------------------------
(* Passwords: the steps that replace none *)

\* The steps at which the passwords and what is known of them differ.
Delicate == {"admin", "swapMigrate", "swapAdmin", "undoAdmin"} \cup Rooting

\* Who keeps the lock at such a step, or never was at one, leaves what is known of
\* the passwords as it was.
LEMMA SameKnown ==
  ASSUME TypeInv, PasswordInv, HistoryOK',
         UNCHANGED <<roots, secret, told, issued>>, ufaults' >= ufaults, loose' = loose,
         brec'.root = brec.root, brec'.admin = brec.admin, site'.admin = site.admin,
         \A v \in Users : (holder' = v /\ at'[v] \in Delicate) <=> (holder = v /\ at[v] \in Delicate),
         \A v \in Users : holder = v /\ at[v] \in Delicate => at'[v] = at[v]
  PROVE  PasswordInv'
<1>1. ASSUME NEW S \in SUBSET Delicate PROVE At(S)' <=> At(S)
  BY <1>1 DEF At
<1>2. /\ {"admin", "swapMigrate", "swapAdmin", "undoAdmin"} \in SUBSET Delicate /\ {"admin"} \in SUBSET Delicate
      /\ Rooting \in SUBSET Delicate /\ {"alter"} \in SUBSET Delicate /\ {"secret", "root"} \in SUBSET Delicate
      /\ {"root"} \in SUBSET Delicate /\ {"secret"} \in SUBSET Delicate /\ {"unalter"} \in SUBSET Delicate
      /\ {"alter", "unalter"} \in SUBSET Delicate
  BY DEF Delicate, Rooting
<1>3. /\ At({"admin", "swapMigrate", "swapAdmin", "undoAdmin"})' <=> At({"admin", "swapMigrate", "swapAdmin", "undoAdmin"})
      /\ (At({"admin"})' <=> At({"admin"})) /\ (Replacing' <=> Replacing) /\ (At({"alter"})' <=> At({"alter"}))
      /\ (At({"secret", "root"})' <=> At({"secret", "root"})) /\ (At({"root"})' <=> At({"root"}))
      /\ (At({"secret"})' <=> At({"secret"})) /\ (At({"unalter"})' <=> At({"unalter"}))
      /\ (At({"alter", "unalter"})' <=> At({"alter", "unalter"}))
  BY <1>1, <1>2 DEF Replacing
<1>4. /\ ufaults \in Nat /\ ufaults' \in Nat /\ issued \in Nat /\ New' = New
  BY DEF TypeInv, HistoryOK, New
<1>5. SUFFICES ASSUME "lost" \notin loose PROVE PasswordInv'
  BY DEF PasswordInv
<1>6. AdminFound /\ RootsFound /\ AdminSet /\ NoneAhead /\ OwnIsLast /\ AllAltered /\ SecretKnown /\ SecretOpens
  BY <1>5 DEF PasswordInv
<1>7. AdminFound' /\ AdminSet'
  BY <1>3, <1>4, <1>6 DEF AdminFound, AdminKnown, AdminSet
<1>8. RootsFound'
  BY <1>3, <1>4, <1>6 DEF RootsFound, RootsKnown
<1>9. NoneAhead' /\ OwnIsLast' /\ AllAltered'
  BY <1>3, <1>4, <1>6 DEF NoneAhead, OwnIsLast, AllAltered
<1>10. SecretKnown' /\ SecretOpens'
  BY <1>3, <1>4, <1>6 DEF SecretKnown, SecretOpens
<1> QED
  BY <1>7, <1>8, <1>9, <1>10 DEF PasswordInv


\* A step of the holder that replaces no password, from a step that replaces none
\* to another.
Harmless(u) ==
  /\ at[u] \notin Delicate \cup Unlocked
  /\ Leave(u) \/ \E next : next \notin Delicate /\ Go(u, next)
  /\ UNCHANGED <<roots, secret, told, issued, loose>> /\ ufaults' >= ufaults
  /\ brec'.root = brec.root /\ brec'.admin = brec.admin /\ site'.admin = site.admin

\* It leaves the passwords as they were.
LEMMA QuietStep ==
  ASSUME UpdateInv, UpdateInv', PasswordInv, NEW u \in Users, Harmless(u)
  PROVE  PasswordInv'
<1>1. ControlOK /\ holder = u /\ TypeInv /\ HistoryOK'
  BY Holding DEF Harmless, UpdateInv, TypeInv
<1>2. at[u] \notin Delicate /\ (holder' = u => at'[u] \notin Delicate) /\ holder' \in {u, Nobody}
  BY <1>1, UpkeepAssumption DEF Harmless, Leave, Go, ControlOK
<1>3. /\ \A v \in Users : (holder' = v /\ at'[v] \in Delicate) <=> (holder = v /\ at[v] \in Delicate)
      /\ \A v \in Users : holder = v /\ at[v] \in Delicate => at'[v] = at[v]
  BY <1>1, <1>2, UpkeepAssumption
<1> QED
  BY <1>1, <1>3, SameKnown DEF Harmless

\* The commands of updates and snapshots replace no password.
LEMMA QuietApply ==
  ASSUME UpdateInv, NEW u \in Users,
         \/ Backup(u) \/ Trim(u) \/ JustMigrate(u) \/ SwapFlush(u) \/ Pick(u)
         \/ SnapDir(u) \/ SnapDump(u) \/ SnapDumpFails(u) \/ SnapMeta(u)
         \/ MaintOn(u) \/ Pause(u) \/ Revert(u) \/ Pull(u) \/ Switch(u) \/ Toolchain(u) \/ Image(u) \/ Venv(u)
         \/ Reqs(u) \/ Cache(u) \/ Migrate(u) \/ BuildAssets(u) \/ Patch(u) \/ Restart(u) \/ Branch(u)
         \/ Finish(u) \/ Ping(u) \/ PingFails(u) \/ DropPrev(u)
         \/ UndoRevert(u) \/ UndoCode(u) \/ UndoTool(u) \/ UndoImage(u) \/ UndoEnv(u) \/ UndoReqs(u) \/ UndoCache(u)
         \/ UndoBuild(u) \/ UndoPatch(u) \/ UndoRestart(u)
  PROVE  Harmless(u)
<1>1. site \in Sites /\ brec \in Recs /\ ufaults \in Nat
  BY DEF UpdateInv, TypeInv, StoresOK, HistoryOK
<1>2. ASSUME NEW from, NEW next, NEW after, Command(u, from, next, after), from \notin Delicate \cup Unlocked,
             next \notin Delicate, after.admin = site.admin
      PROVE  Harmless(u)
  BY <1>1, <1>2 DEF Command, Harmless, History
<1>3. CASE Backup(u)
  BY <1>2, <1>3 DEF Backup, Delicate, Rooting, Unlocked
<1>4. CASE MaintOn(u)
  BY <1>1, <1>2, <1>4 DEF MaintOn, Sites, Delicate, Rooting, Unlocked
<1>5. CASE Pause(u)
  BY <1>1, <1>2, <1>5 DEF Pause, Sites, Delicate, Rooting, Unlocked
<1>6. CASE Revert(u)
  BY <1>1, <1>2, <1>6 DEF Revert, Sites, Delicate, Rooting, Unlocked
<1>7. CASE Pull(u)
  BY <1>1, <1>2, <1>7 DEF Pull, Sites, Delicate, Rooting, Unlocked
<1>8. CASE Switch(u)
  <2> DEFINE after == [site EXCEPT !.code = Target(u), !.branch = task[u].to]
             next  == "toolchain"
  <2>1. Command(u, "code", next, after)
    BY <1>8 DEF Switch
  <2>2. after.admin = site.admin
    BY <1>1 DEF Sites
  <2>3. "code" \notin Delicate \cup Unlocked /\ next \notin Delicate
    BY DEF Delicate, Rooting, Unlocked
  <2> QED
    BY <1>2, <2>1, <2>2, <2>3
<1>9. CASE Image(u)
  <2> DEFINE after == [site EXCEPT !.image = task[u].tool, !.live = site.code]
             next  == "venv"
  <2>1. Command(u, "image", next, after)
    BY <1>9 DEF Image
  <2>2. after.admin = site.admin
    BY <1>1 DEF Sites
  <2>3. "image" \notin Delicate \cup Unlocked /\ next \notin Delicate
    BY DEF Delicate, Rooting, Unlocked
  <2> QED
    BY <1>2, <2>1, <2>2, <2>3
<1>10. CASE Venv(u)
  <2> DEFINE after == [site EXCEPT !.prev = site.env, !.env = [tool |-> task[u].tool, reqs |-> 0]]
             next  == "reqs"
  <2>1. Command(u, "venv", next, after)
    BY <1>10 DEF Venv
  <2>2. after.admin = site.admin
    BY <1>1 DEF Sites
  <2>3. "venv" \notin Delicate \cup Unlocked /\ next \notin Delicate
    BY DEF Delicate, Rooting, Unlocked
  <2> QED
    BY <1>2, <2>1, <2>2, <2>3
<1>11. CASE Reqs(u)
  BY <1>1, <1>2, <1>11 DEF Reqs, Sites, Delicate, Rooting, Unlocked
<1>12. CASE Cache(u)
  BY <1>1, <1>2, <1>12 DEF Cache, Sites, Delicate, Rooting, Unlocked
<1>13. CASE Migrate(u)
  BY <1>1, <1>2, <1>13 DEF Migrate, Sites, Delicate, Rooting, Unlocked
<1>14. CASE BuildAssets(u)
  BY <1>1, <1>2, <1>14 DEF BuildAssets, Sites, Delicate, Rooting, Unlocked
<1>15. CASE Patch(u)
  BY <1>1, <1>2, <1>15 DEF Patch, Sites, Delicate, Rooting, Unlocked
<1>16. CASE Restart(u)
  BY <1>1, <1>2, <1>16 DEF Restart, Sites, Delicate, Rooting, Unlocked
<1>17. CASE Ping(u)
  BY <1>1, <1>2, <1>17 DEF Ping, Sites, Delicate, Rooting, Unlocked
<1>18. CASE UndoRevert(u)
  BY <1>1, <1>2, <1>18 DEF UndoRevert, Sites, Delicate, Rooting, Unlocked
<1>19. CASE UndoCode(u)
  <2> DEFINE after == [site EXCEPT !.code = base[u].site.code, !.branch = base[u].site.branch]
             next  == IF brec.tool # base[u].rec.tool THEN "undoTool" ELSE "undoReqs"
  <2>1. Command(u, "undoCode", next, after)
    BY <1>19 DEF UndoCode
  <2>2. after.admin = site.admin
    BY <1>1 DEF Sites
  <2>3. "undoCode" \notin Delicate \cup Unlocked /\ next \notin Delicate
    BY DEF Delicate, Rooting, Unlocked
  <2> QED
    BY <1>2, <2>1, <2>2, <2>3
<1>20. CASE UndoImage(u)
  BY <1>1, <1>2, <1>20 DEF UndoImage, Sites, Delicate, Rooting, Unlocked
<1>21. CASE UndoEnv(u)
  BY <1>1, <1>2, <1>21 DEF UndoEnv, Sites, Delicate, Rooting, Unlocked
<1>22. CASE UndoReqs(u)
  BY <1>1, <1>2, <1>22 DEF UndoReqs, Sites, Delicate, Rooting, Unlocked
<1>23. CASE UndoCache(u)
  BY <1>1, <1>2, <1>23 DEF UndoCache, Sites, Delicate, Rooting, Unlocked
<1>24. CASE UndoBuild(u)
  BY <1>1, <1>2, <1>24 DEF UndoBuild, Sites, Delicate, Rooting, Unlocked
<1>25. CASE UndoPatch(u)
  BY <1>1, <1>2, <1>25 DEF UndoPatch, Sites, Delicate, Rooting, Unlocked
<1>26. CASE UndoRestart(u)
  BY <1>1, <1>2, <1>26 DEF UndoRestart, Sites, Delicate, Rooting, Unlocked
<1>27. CASE Trim(u)
  BY <1>1, <1>27 DEF Trim, Harmless, Stores, History, Sites, Recs, Delicate, Rooting, Unlocked
<1>28. CASE JustMigrate(u)
  BY <1>1, <1>28 DEF JustMigrate, Harmless, Stores, History, Sites, Recs, Delicate, Rooting, Unlocked
<1>29. CASE SwapFlush(u)
  BY <1>1, <1>29 DEF SwapFlush, Harmless, Stores, History, Sites, Recs, Delicate, Rooting, Unlocked
<1>30. CASE Pick(u)
  BY <1>1, <1>30 DEF Pick, Harmless, Stores, History, Sites, Recs, Delicate, Rooting, Unlocked
<1>31. CASE SnapDir(u)
  BY <1>1, <1>31 DEF SnapDir, Harmless, Stores, History, Sites, Recs, Delicate, Rooting, Unlocked
<1>32. CASE SnapDump(u)
  BY <1>1, <1>32 DEF SnapDump, Harmless, Stores, History, Sites, Recs, Delicate, Rooting, Unlocked
<1>33. CASE SnapDumpFails(u)
  BY <1>1, <1>33 DEF SnapDumpFails, Harmless, Stores, History, Sites, Recs, Delicate, Rooting, Unlocked
<1>34. CASE SnapMeta(u)
  BY <1>1, <1>34 DEF SnapMeta, AfterSnapshot, Harmless, Stores, History, Sites, Recs, Delicate, Rooting, Unlocked
<1>35. CASE Toolchain(u)
  BY <1>1, <1>35 DEF Toolchain, Harmless, Stores, History, Sites, Recs, Delicate, Rooting, Unlocked
<1>36. CASE Branch(u)
  BY <1>1, <1>36 DEF Branch, Harmless, Stores, History, Sites, Recs, Delicate, Rooting, Unlocked
<1>37. CASE Finish(u)
  <2>1. PICK m, z : /\ site' = [site EXCEPT !.maint = m /\ site.maint, !.paused = z /\ site.paused]
                    /\ ufaults' = IF m \/ z THEN ufaults + 1 ELSE ufaults
    BY <1>37 DEF Finish
  <2>2. site'.admin = site.admin
    BY <1>1, <2>1 DEF Sites
  <2>3. ufaults' \in {ufaults, ufaults + 1}
    BY <2>1
  <2>4. /\ at[u] \in {"finish", "undone"} /\ (Leave(u) \/ Go(u, "ping"))
        /\ UNCHANGED <<brec, roots, secret, told, issued, loose>>
    BY <1>37 DEF Finish
  <2>5. ufaults' >= ufaults
    BY <1>1, <2>3
  <2> QED
    BY <2>2, <2>4, <2>5 DEF Harmless, Delicate, Rooting, Unlocked
<1>38. CASE PingFails(u)
  BY <1>1, <1>38 DEF PingFails, Harmless, Stores, History, Sites, Recs, Delicate, Rooting, Unlocked
<1>39. CASE DropPrev(u)
  BY <1>1, <1>39 DEF DropPrev, Harmless, Stores, History, Sites, Recs, Delicate, Rooting, Unlocked
<1>40. CASE UndoTool(u)
  BY <1>1, <1>40 DEF UndoTool, Harmless, Stores, History, Sites, Recs, Delicate, Rooting, Unlocked
<1> QED
  BY <1>3, <1>4, <1>5, <1>6, <1>7, <1>8, <1>9, <1>10, <1>11, <1>12, <1>13, <1>14, <1>15, <1>16, <1>17, <1>18,
     <1>19, <1>20, <1>21, <1>22, <1>23, <1>24, <1>25, <1>26, <1>27, <1>28, <1>29, <1>30, <1>31, <1>32, <1>33, <1>34,
     <1>35, <1>36, <1>37, <1>38, <1>39, <1>40


-----------------------------------------------------------------------------
(* Passwords: the steps that replace them *)

\* Where the holder of the lock is.
LEMMA HolderAt ==
  ASSUME NEW u \in Users, holder = u
  PROVE  /\ At({"admin", "swapMigrate", "swapAdmin", "undoAdmin"}) <=> at[u] \in {"admin", "swapMigrate", "swapAdmin", "undoAdmin"}
         /\ At({"admin"}) <=> at[u] = "admin"
         /\ Replacing <=> at[u] \in Rooting
         /\ At({"alter"}) <=> at[u] = "alter"
         /\ At({"secret", "root"}) <=> at[u] \in {"secret", "root"}
         /\ At({"root"}) <=> at[u] = "root"
         /\ At({"secret"}) <=> at[u] = "secret"
         /\ At({"unalter"}) <=> at[u] = "unalter"
         /\ At({"alter", "unalter"}) <=> at[u] \in {"alter", "unalter"}
BY DEF At, Replacing

\* Nobody is anywhere while the lock is free.
LEMMA NobodyAt ==
  ASSUME holder = Nobody
  PROVE  /\ ~At({"admin", "swapMigrate", "swapAdmin", "undoAdmin"}) /\ ~At({"admin"}) /\ ~Replacing /\ ~At({"alter"})
         /\ ~At({"secret", "root"}) /\ ~At({"root"}) /\ ~At({"secret"}) /\ ~At({"unalter"})
         /\ ~At({"alter", "unalter"})
BY UpkeepAssumption DEF At, Replacing

\* The same of the next state.
LEMMA HolderAtNext ==
  ASSUME NEW u \in Users, holder' = u
  PROVE  /\ At({"admin", "swapMigrate", "swapAdmin", "undoAdmin"})' <=> at'[u] \in {"admin", "swapMigrate", "swapAdmin", "undoAdmin"}
         /\ At({"admin"})' <=> at'[u] = "admin"
         /\ Replacing' <=> at'[u] \in Rooting
         /\ At({"alter"})' <=> at'[u] = "alter"
         /\ At({"secret", "root"})' <=> at'[u] \in {"secret", "root"}
         /\ At({"root"})' <=> at'[u] = "root"
         /\ At({"secret"})' <=> at'[u] = "secret"
         /\ At({"unalter"})' <=> at'[u] = "unalter"
         /\ At({"alter", "unalter"})' <=> at'[u] \in {"alter", "unalter"}
BY DEF At, Replacing

\* Nobody is anywhere once the lock is free.
LEMMA NobodyAtNext ==
  ASSUME holder' = Nobody
  PROVE  /\ ~At({"admin", "swapMigrate", "swapAdmin", "undoAdmin"})' /\ ~At({"admin"})' /\ ~Replacing' /\ ~At({"alter"})'
         /\ ~At({"secret", "root"})' /\ ~At({"root"})' /\ ~At({"secret"})' /\ ~At({"unalter"})'
         /\ ~At({"alter", "unalter"})'
BY UpkeepAssumption DEF At, Replacing

\* The Administrator's password is the dump's until ffm sets the record's again,
\* or says to check it.
LEMMA AdminSteps ==
  ASSUME UpdateInv, UpdateInv', PasswordInv, NEW u \in Users,
         \/ Swap(u) \/ SwapMigrate(u) \/ SwapAdmin(u) \/ UndoAdmin(u)
         \/ CommandFails(u)
  PROVE  PasswordInv'
<1>1. CASE /\ at[u] \notin Delicate \cup Unlocked
           /\ Leave(u) \/ \E next : next \notin Delicate /\ Go(u, next)
           /\ UNCHANGED <<brec, roots, secret, told, issued, loose>> /\ ufaults' >= ufaults /\ site'.admin = site.admin
  BY <1>1, QuietStep DEF Harmless
<1>2. CASE /\ at[u] \in {"swap", "undoSwap", "swapMigrate", "swapAdmin", "undoAdmin"}
           /\ \/ Go(u, "swapMigrate") \/ Go(u, "swapAdmin") \/ Go(u, "undoAdmin")
              \/ Leave(u) /\ (AdminDoubts \cap loose' # {} \/ site'.admin \in {brec.admin})
              \/ site'.admin \in {brec.admin} /\ (Go(u, "swapFlush") \/ Go(u, "undoBuild"))
           /\ UNCHANGED <<brec, roots, secret, told, issued>> /\ ufaults' >= ufaults
           /\ \A x \in {"root", "secret", "lost"} : x \in loose' <=> x \in loose
  <2>1. SUFFICES ASSUME "lost" \notin loose PROVE PasswordInv'
    BY <1>2 DEF PasswordInv
  <2>2. AdminFound /\ RootsFound /\ AdminSet /\ NoneAhead /\ OwnIsLast /\ AllAltered /\ SecretKnown /\ SecretOpens
    BY <2>1 DEF PasswordInv
  <2>3. at[u] \notin Unlocked \cup Rooting \cup {"admin"}
    BY <1>2 DEF Unlocked, Rooting
  <2>4. ControlOK /\ holder = u /\ ufaults \in Nat /\ ufaults' \in Nat /\ issued \in Nat
    BY <2>3, Holding DEF HistoryOK, UpdateInv, TypeInv
  <2>5. ~Replacing /\ ~At({"alter"}) /\ ~At({"secret", "root"}) /\ ~At({"root"}) /\ ~At({"secret"}) /\ ~At({"unalter"})
        /\ ~At({"alter", "unalter"})
    BY <2>3, <2>4, HolderAt DEF Rooting
  <2>6. /\ ~Replacing' /\ ~At({"alter"})' /\ ~At({"secret", "root"})' /\ ~At({"root"})' /\ ~At({"secret"})' /\ ~At({"unalter"})'
        /\ ~At({"admin"})' /\ ~At({"alter", "unalter"})'
        /\ \/ At({"admin", "swapMigrate", "swapAdmin", "undoAdmin"})'
           \/ AdminDoubts \cap loose' # {} \/ site'.admin \in {brec.admin}
    <3>1. CASE Leave(u)
      <4>1. holder' = Nobody
        BY <2>4, <3>1 DEF Leave
      <4> QED
        BY <1>2, <2>3, <2>4, <3>1, <4>1, NobodyAtNext, UpkeepAssumption DEF Leave, Go
    <3>2. CASE ~Leave(u)
      <4>1. holder' = u /\ at'[u] \in {"swapMigrate", "swapAdmin", "undoAdmin", "swapFlush", "undoBuild"}
        BY <1>2, <2>4, <3>2 DEF Go, ControlOK
      <4>2. at'[u] \in {"swapMigrate", "swapAdmin", "undoAdmin"} \/ site'.admin \in {brec.admin}
        BY <1>2, <2>4, <3>2 DEF Go, ControlOK
      <4> QED
        BY <4>1, <4>2, HolderAtNext DEF Rooting
    <3> QED
      BY <3>1, <3>2
  <2>7. AdminFound' /\ AdminSet'
    BY <1>2, <2>6 DEF AdminFound, AdminKnown, AdminSet, AdminDoubts
  <2>8. RootsFound'
    BY <1>2, <2>2, <2>4, <2>5 DEF RootsFound, RootsKnown
  <2>9. NoneAhead' /\ OwnIsLast' /\ AllAltered'
    BY <1>2, <2>2, <2>5, <2>6 DEF NoneAhead, OwnIsLast, AllAltered, New
  <2>10. SecretKnown' /\ SecretOpens'
    BY <1>2, <2>2, <2>4, <2>5, <2>6 DEF SecretKnown, SecretOpens
  <2> QED
    BY <2>7, <2>8, <2>9, <2>10 DEF PasswordInv
<1>3. site \in Sites /\ ufaults \in Nat /\ brec \in Recs
  BY DEF UpdateInv, TypeInv, StoresOK, HistoryOK
<1>4. CASE Swap(u)
  <2>1. at[u] \in {"swap", "undoSwap"} /\ UNCHANGED <<brec, roots, secret, told, issued, ufaults, loose>>
    BY <1>4 DEF Swap
  <2>2. \/ Leave(u) /\ UNCHANGED site
        \/ Go(u, "swapMigrate") \/ Go(u, "swapAdmin") \/ Go(u, "undoAdmin")
    BY <1>4 DEF Swap
  <2> QED
    BY <1>1, <1>2, <1>3, <2>1, <2>2 DEF Delicate, Rooting, Unlocked
<1>5. CASE SwapMigrate(u)
  BY <1>2, <1>3, <1>5 DEF SwapMigrate, Command, History
<1>6. CASE SwapAdmin(u) \/ UndoAdmin(u)
  <2>1. site'.admin = brec.admin /\ \A x \in {"root", "secret", "lost"} : x \in loose' <=> x \in loose
    BY <1>3, <1>6 DEF SwapAdmin, UndoAdmin, Reapply, Sites, AdminDoubts
  <2> QED
    BY <1>2, <1>3, <1>6, <2>1 DEF SwapAdmin, UndoAdmin, Reapply
<1>7. CASE CommandFails(u)
  <2> DEFINE more == CASE at[u] \in {"swapAdmin", "undoAdmin"} -> {"admin"}
                       [] at[u] \in {"swap", "undoSwap", "swapMigrate"} -> {"dump"}
                       [] OTHER -> {}
  <2>1. /\ at[u] \in Applying \cup RollingBack \cup
             {"backup", "maintOn", "pause", "swap", "swapMigrate", "swapAdmin", "swapFlush", "justMigrate", "trim"}
        /\ ufaults' >= ufaults /\ UNCHANGED <<brec, roots, secret, told, issued>> /\ site' \in HalfDone(u)
        /\ Leave(u) \/ (at[u] \in Applying /\ Go(u, "undoRevert"))
        /\ loose' = loose \cup more
    BY <1>3, <1>7 DEF CommandFails, HalfDone
  <2>2. at[u] \notin Unlocked \cup Rooting \cup {"admin"}
    BY <2>1 DEF Unlocked, Rooting, Applying, RollingBack
  <2>3. CASE at[u] \in {"swap", "undoSwap", "swapMigrate", "swapAdmin", "undoAdmin"}
    <3>1. more \in {{"admin"}, {"dump"}}
      BY <2>3
    <3> HIDE DEF more
    <3>2. AdminDoubts \cap loose' # {} /\ \A x \in {"root", "secret", "lost"} : x \in loose' <=> x \in loose
      BY <2>1, <3>1 DEF AdminDoubts
    <3> QED
      BY <1>2, <2>1, <2>3, <3>2 DEF Applying
  <2>4. CASE at[u] \notin {"swap", "undoSwap", "swapMigrate", "swapAdmin", "undoAdmin"}
    <3>1. site'.admin = site.admin
      BY <1>3, <2>1, <2>4 DEF HalfDone, Sites
    <3>2. more = {}
      BY <2>4
    <3>3. loose' = loose
      BY <2>1, <3>2
    <3> QED
      BY <1>1, <2>1, <2>2, <2>4, <3>1, <3>3 DEF Delicate, Rooting
  <2> QED
    BY <2>3, <2>4
<1> QED
  BY <1>4, <1>5, <1>6, <1>7


\* A secret that a change of the domains rewrites is in doubt, and all else is
\* known as before.
LEMMA SecretMoved ==
  ASSUME TypeInv, TypeInv', PasswordInv, NEW u \in Users, holder # u, holder' = holder,
         \A v \in Users \ {u} : at'[v] = at[v],
         UNCHANGED <<brec, site, roots, told, issued>>, ufaults' \in {ufaults, ufaults + 1}, loose' = loose \cup {"secret"}
  PROVE  PasswordInv'
<1>1. SUFFICES ASSUME "lost" \notin loose PROVE PasswordInv'
  BY DEF PasswordInv
<1>2. AdminFound /\ RootsFound /\ AdminSet /\ NoneAhead /\ OwnIsLast /\ AllAltered
  BY <1>1 DEF PasswordInv
<1>3. ASSUME NEW S PROVE At(S)' <=> At(S)
  BY DEF At
<1>4. Replacing' <=> Replacing
  BY <1>3 DEF Replacing
<1>5. AdminFound' /\ AdminSet'
  BY <1>2, <1>3 DEF AdminFound, AdminKnown, AdminSet, New
<1>6. RootsFound'
  BY <1>2, <1>4 DEF RootsFound, RootsKnown
<1>7. NoneAhead' /\ OwnIsLast' /\ AllAltered'
  BY <1>2, <1>3, <1>4 DEF NoneAhead, OwnIsLast, AllAltered, New
<1>8. SecretKnown' /\ SecretOpens'
  BY DEF SecretKnown, SecretOpens
<1> QED
  BY <1>5, <1>6, <1>7, <1>8 DEF PasswordInv

\* Operations that begin, deletions, maintenance mode by hand and a killed ffm.
LEMMA OtherSteps ==
  ASSUME UpdateInv, UpdateInv', PasswordInv,
         \/ \E u \in Users, t \in Tasks : Start(u, t) \/ StartDelete(u, t) \/ DomainRead(u, t)
         \/ \E u \in Users : Unlink(u) \/ Rmdir(u) \/ RewriteSecret(u) \/ Kill(u)
         \/ \E on \in BOOLEAN : Maintenance(on)
         \/ UNCHANGED uvars
  PROVE  PasswordInv'
<1>1. TypeInv /\ StoresOK /\ HistoryOK /\ ControlOK /\ site \in Sites /\ HistoryOK' /\ ufaults \in Nat
  BY DEF UpdateInv, TypeInv, StoresOK, HistoryOK
<1>2. ASSUME NEW u \in Users, NEW t \in Tasks, Start(u, t) PROVE PasswordInv'
  <2>1. /\ holder = Nobody /\ holder' = u /\ at'[u] = First(t) /\ UNCHANGED <<brec, site, roots, secret, told, issued, ufaults, loose>>
    BY <1>1, <1>2 DEF Start, Stores, ControlOK
  <2>2. First(t) \notin {"admin", "swapMigrate", "swapAdmin", "undoAdmin"} \cup Rooting
    <3>1. First(t) \in {"backup", "snapDir", "pick", "swap", "justMigrate", "hosts", "setAdmin"}
      BY <1>2, TaskIs DEF First, Start
    <3> QED
      BY <3>1 DEF Rooting
  <2>3. SUFFICES ASSUME "lost" \notin loose PROVE PasswordInv'
    BY <2>1 DEF PasswordInv
  <2>4. AdminFound /\ RootsFound /\ AdminSet /\ NoneAhead /\ OwnIsLast /\ AllAltered /\ SecretKnown /\ SecretOpens
    BY <2>3 DEF PasswordInv
  <2>5. AdminFound' /\ AdminSet'
    BY <2>1, <2>2, <2>4, NobodyAt, HolderAtNext DEF AdminFound, AdminKnown, AdminSet
  <2>6. RootsFound'
    BY <2>1, <2>4, NobodyAt DEF RootsFound, RootsKnown
  <2>7. NoneAhead' /\ OwnIsLast' /\ AllAltered'
    BY <2>1, <2>2, <2>4, NobodyAt, HolderAtNext, UpkeepAssumption DEF NoneAhead, OwnIsLast, AllAltered, New, Rooting
  <2>8. SecretKnown' /\ SecretOpens'
    BY <2>1, <2>2, <2>4, NobodyAt, HolderAtNext DEF SecretKnown, SecretOpens, Rooting
  <2> QED
    BY <2>5, <2>6, <2>7, <2>8 DEF PasswordInv
<1>3. ASSUME NEW u \in Users, holder # u, UNCHANGED <<brec, site, roots, secret, told, issued, loose, holder>>, ufaults' >= ufaults,
             \A v \in Users \ {u} : at'[v] = at[v]
      PROVE  PasswordInv'
  BY <1>1, <1>3, SameKnown
<1>4. ASSUME NEW u \in Users, NEW t \in Tasks, StartDelete(u, t) PROVE PasswordInv'
  <2>1. holder # u /\ UNCHANGED <<brec, site, roots, secret, told, issued, loose, holder, ufaults>> /\ at' = [at EXCEPT ![u] = "unlink"]
    BY <1>1, <1>4 DEF StartDelete, ControlOK, LockOK, Unlocked
  <2> QED
    BY <1>1, <1>3, <2>1 DEF ControlOK
<1>5. ASSUME NEW u \in Users, Unlink(u) \/ Rmdir(u) PROVE PasswordInv'
  <2>1. holder # u /\ UNCHANGED <<brec, site, roots, secret, told, issued, loose, ufaults>> /\ (Leave(u) \/ Go(u, "rmdir"))
    BY <1>1, <1>5 DEF Unlink, Rmdir, History, ControlOK, LockOK, Unlocked
  <2>2. holder' = holder /\ \A v \in Users \ {u} : at'[v] = at[v]
    BY <1>1, <2>1 DEF Leave, Go, ControlOK
  <2> QED
    BY <1>1, <1>3, <2>1, <2>2
<1>6. ASSUME NEW u \in Users, Kill(u) PROVE PasswordInv'
  <2>1. CASE at[u] \in Changing
    BY <1>6, <2>1 DEF Kill, PasswordInv
  <2>2. CASE at[u] \notin Changing
    <3>1. /\ Leave(u) /\ UNCHANGED <<brec, site, roots, secret, told, issued>> /\ ufaults' >= ufaults /\ at[u] \notin Delicate
          /\ loose' = loose \cup {} /\ at[u] # "idle"
      BY <1>1, <1>6, <2>2 DEF Kill, Stores, Changing, Delicate, Rooting
    <3>2. loose' = loose
      BY <3>1
    <3>3. CASE holder = u
      <4>1. at[u] \notin Unlocked
        BY <1>1, <3>3 DEF ControlOK, LockOK
      <4> QED
        BY <3>1, <3>2, <4>1, QuietStep DEF Harmless
    <3>4. CASE holder # u
      <4>1. holder' = holder /\ \A v \in Users \ {u} : at'[v] = at[v]
        BY <1>1, <3>1, <3>4 DEF Leave, ControlOK
      <4> QED
        BY <1>1, <1>3, <3>1, <3>2, <3>4, <4>1
    <3> QED
      BY <3>3, <3>4
  <2> QED
    BY <2>1, <2>2
<1>7. ASSUME NEW on \in BOOLEAN, Maintenance(on) PROVE PasswordInv'
  <2>1. site'.admin = site.admin /\ UNCHANGED <<brec, roots, secret, told, issued, loose, holder, at, ufaults>>
    BY <1>1, <1>7 DEF Maintenance, Sites
  <2> QED
    BY <1>1, <2>1, SameKnown
<1>8. CASE UNCHANGED uvars
  BY <1>1, <1>8, SameKnown DEF uvars
<1>9. ASSUME NEW u \in Users, NEW t \in Tasks, DomainRead(u, t) PROVE PasswordInv'
  <2>1. /\ holder # u /\ UNCHANGED <<brec, site, roots, secret, told, issued, loose, holder, ufaults>>
        /\ at' = [at EXCEPT ![u] = "compose"]
    BY <1>1, <1>9 DEF DomainRead, Stores, ControlOK, LockOK, Unlocked
  <2> QED
    BY <1>1, <1>3, <2>1 DEF ControlOK
<1>10. ASSUME NEW u \in Users, RewriteSecret(u) PROVE PasswordInv'
  <2>1. /\ at[u] = "compose" /\ Leave(u) /\ ufaults' \in {ufaults, ufaults + 1}
        /\ loose' = IF secret' = secret THEN loose ELSE loose \cup {"secret"}
        /\ UNCHANGED <<brec, site, roots, issued, told>>
    BY <1>10 DEF RewriteSecret, Fault
  <2>2. holder # u
    BY <1>1, <2>1 DEF ControlOK, LockOK, Unlocked
  <2>3. holder' = holder /\ \A v \in Users \ {u} : at'[v] = at[v]
    BY <1>1, <2>1, <2>2 DEF Leave, ControlOK
  <2>4. CASE secret' = secret
    BY <1>1, <1>3, <2>1, <2>2, <2>3, <2>4
  <2>5. CASE secret' # secret
    BY <1>1, <2>1, <2>2, <2>3, <2>5, SecretMoved DEF UpdateInv
  <2> QED
    BY <2>4, <2>5
<1> QED
  BY <1>2, <1>4, <1>5, <1>6, <1>7, <1>8, <1>9, <1>10

\* A value that is told is known, and nothing is replaced any more.
LEMMA Telling ==
  ASSUME UpdateInv, UpdateInv', PasswordInv, NEW u \in Users, holder = u, Tell(u), UNCHANGED roots,
         loose \subseteq loose', "lost" \in loose' => "lost" \in loose, secret' \in {secret, New} \/ "secret" \in loose',
         \/ /\ at[u] \in {"secret", "root"}
            /\ brec'.root = brec.root /\ brec'.admin = brec.admin /\ site'.admin = site.admin
         \/ /\ at[u] = "admin"
            /\ brec'.root = brec.root /\ site'.admin = New /\ secret' = secret
  PROVE  PasswordInv'
<1>1. issued \in Nat /\ ufaults \in Nat /\ brec.root \in Nat /\ roots \in [RootHosts -> Nat] /\ New \in Nat
  BY DEF UpdateInv, TypeInv, StoresOK, HistoryOK, Recs, New
<1>2. holder' = Nobody /\ issued' = New /\ told' = told \cup {New} /\ ufaults' = ufaults + 1 /\ New = issued + 1
  BY DEF Tell, Fault, Leave, New
<1>3. SUFFICES ASSUME "lost" \notin loose PROVE PasswordInv'
  BY DEF PasswordInv
<1>4. AdminFound /\ RootsFound /\ AdminSet /\ NoneAhead /\ OwnIsLast /\ AllAltered /\ SecretKnown /\ SecretOpens
  BY <1>3 DEF PasswordInv
<1>5. AdminFound' /\ AdminSet'
  BY <1>2, <1>4, HolderAt, NobodyAtNext DEF AdminFound, AdminKnown, AdminSet
<1>6. RootsFound'
  <2>1. CASE at[u] \in {"secret", "root"}
    <3>1. \A h \in RootHosts : roots'[h] = New
      BY <1>4, <2>1, HolderAt DEF AllAltered
    <3> QED
      BY <1>2, <3>1 DEF RootsFound, RootsKnown
  <2>2. CASE at[u] = "admin"
    <3>1. RootsKnown
      BY <1>4, <2>2, HolderAt DEF RootsFound, Rooting
    <3> QED
      BY <1>1, <1>2, <2>2, <3>1 DEF RootsFound, RootsKnown
  <2> QED
    BY <2>1, <2>2
<1>7. NoneAhead' /\ OwnIsLast' /\ AllAltered'
  BY <1>1, <1>2, <1>4, NobodyAtNext DEF NoneAhead, OwnIsLast, AllAltered
<1>8. SecretKnown' /\ SecretOpens'
  BY <1>1, <1>2, <1>4, HolderAt, NobodyAtNext DEF SecretKnown, SecretOpens
<1> QED
  BY <1>5, <1>6, <1>7, <1>8 DEF PasswordInv


\* The accounts get the new password one by one, the session's own last.
LEMMA RootSteps ==
  ASSUME UpdateInv, UpdateInv', PasswordInv, NEW u \in Users,
         ListHosts(u) \/ Alter(u) \/ AlterFails(u) \/ Unalter(u) \/ Secret(u) \/ RecordRoot(u)
  PROVE  PasswordInv'
<1>1. at[u] \in {"hosts"} \cup Rooting /\ at[u] \notin Unlocked
  BY DEF ListHosts, Alter, AlterFails, Unalter, Secret, RecordRoot, Rooting, Unlocked
<1>2. holder = u /\ ControlOK /\ StoresOK /\ HistoryOK
  BY <1>1, Holding
<1>3. /\ issued \in Nat /\ ufaults \in Nat /\ brec \in Recs /\ brec.root \in Nat /\ secret \in Nat
      /\ roots \in [RootHosts -> Nat] /\ New = issued + 1 /\ Localhost \in RootHosts
  BY <1>2, UpkeepAssumption DEF StoresOK, HistoryOK, Recs, New
<1>4. SUFFICES ASSUME "lost" \notin loose PROVE PasswordInv'
  BY DEF PasswordInv, ListHosts, Alter, AlterFails, Unalter, Secret, RecordRoot, History
<1>5. AdminFound /\ RootsFound /\ AdminSet /\ NoneAhead /\ OwnIsLast /\ AllAltered /\ SecretKnown /\ SecretOpens
  BY <1>4 DEF PasswordInv
<1>6. AdminKnown
  BY <1>1, <1>2, <1>5, HolderAt DEF AdminFound, Rooting
<1>7. ASSUME NEW next, Go(u, next) PROVE holder' = u /\ at'[u] = next
  BY <1>2, <1>7 DEF Go, ControlOK
<1>8. Leave(u) => holder' = Nobody
  BY <1>2 DEF Leave
<1>9. CASE Alter(u)
  <2>1. PICK h \in NextHosts : roots' = [roots EXCEPT ![h] = New]
    BY <1>9 DEF Alter
  <2>2. /\ at[u] = "alter" /\ Go(u, IF \A k \in RootHosts : roots'[k] = New THEN "secret" ELSE "alter")
        /\ UNCHANGED <<brec, site, secret, told, issued, ufaults, loose>>
    BY <1>9 DEF Alter, History
  <2>3. roots[Localhost] =< issued /\ roots[Localhost] # New
    BY <1>2, <1>3, <1>5, <2>2, HolderAt DEF OwnIsLast
  <2>4. /\ h \in RootHosts /\ roots'[h] = New /\ \A k \in RootHosts \ {h} : roots'[k] = roots[k]
        /\ h = Localhost => \A k \in RootHosts \ {Localhost} : roots[k] = New
    BY <1>3, <2>1, <2>3 DEF NextHosts
  <2>5. AdminFound' /\ AdminSet'
    BY <1>6, <1>7, <2>2, HolderAtNext DEF AdminFound, AdminKnown, AdminSet
  <2>6. RootsFound'
    BY <1>7, <2>2, HolderAtNext DEF RootsFound, Rooting
  <2>7. Replacing' /\ New' = New
    BY <1>7, <2>2, HolderAtNext DEF Rooting, New
  <2>8. NoneAhead'
    BY <1>3, <1>5, <2>2, <2>4, <2>7 DEF NoneAhead
  <2>9. OwnIsLast' /\ AllAltered'
    <3>1. CASE \A k \in RootHosts : roots'[k] = New
      BY <1>7, <2>2, <2>7, <3>1, HolderAtNext DEF OwnIsLast, AllAltered
    <3>2. CASE ~\A k \in RootHosts : roots'[k] = New
      <4>1. h # Localhost
        BY <2>4, <3>2
      <4> QED
        BY <1>3, <1>7, <2>2, <2>3, <2>4, <3>2, <4>1, HolderAtNext DEF OwnIsLast, AllAltered
    <3> QED
      BY <3>1, <3>2
  <2>10. SecretKnown'
    BY <1>2, <1>5, <1>7, <2>2, HolderAt, HolderAtNext DEF SecretKnown
  <2>11. SecretOpens'
    <3>1. roots[Localhost] = secret \/ "secret" \in loose
      BY <1>2, <1>5, <2>2, HolderAt DEF SecretOpens
    <3>2. CASE \A k \in RootHosts : roots'[k] = New
      BY <1>7, <2>2, <3>2, HolderAtNext DEF SecretOpens
    <3>3. CASE ~\A k \in RootHosts : roots'[k] = New
      <4>1. h # Localhost
        BY <2>4, <3>3
      <4> QED
        BY <1>3, <1>7, <2>2, <2>4, <3>1, <3>3, <4>1, HolderAtNext DEF SecretOpens
    <3> QED
      BY <3>2, <3>3
  <2> QED
    BY <2>5, <2>6, <2>8, <2>9, <2>10, <2>11 DEF PasswordInv
<1>10. CASE AlterFails(u)
  <2>1. /\ at[u] = "alter" /\ Go(u, "unalter") /\ (ufaults' = ufaults + 1 \/ roots[Localhost] # secret)
        /\ UNCHANGED <<brec, site, roots, secret, told, issued, loose>>
    BY <1>10 DEF AlterFails, Fault, SecretOpen, Stores
  <2>2. AdminFound' /\ AdminSet'
    BY <1>6, <1>7, <2>1, HolderAtNext DEF AdminFound, AdminKnown, AdminSet
  <2>3. RootsFound'
    BY <1>7, <2>1, HolderAtNext DEF RootsFound, Rooting
  <2>4. NoneAhead' /\ OwnIsLast' /\ AllAltered'
    BY <1>5, <1>7, <2>1, HolderAtNext DEF NoneAhead, OwnIsLast, AllAltered, New, Rooting
  <2>5. SecretKnown' /\ SecretOpens'
    BY <1>2, <1>3, <1>5, <1>7, <2>1, HolderAt, HolderAtNext DEF SecretKnown, SecretOpens
  <2> QED
    BY <2>2, <2>3, <2>4, <2>5 DEF PasswordInv
<1>11. CASE Unalter(u)
  <2>1. /\ at[u] = "unalter" /\ holder' = Nobody /\ issued' = New /\ UNCHANGED <<brec, site, secret, told>>
        /\ \/ /\ roots[Localhost] = secret /\ roots' = [h \in RootHosts |-> brec.root]
              /\ ufaults' = ufaults /\ loose' = loose
           \/ /\ ufaults' = IF roots[Localhost] = secret THEN ufaults + 1 ELSE ufaults
              /\ loose' = loose \cup {"root"} /\ roots' = roots
    BY <1>8, <1>11 DEF Unalter, SecretOpen, Fault
  <2>2. /\ ufaults >= 1 \/ "secret" \in loose
        /\ roots[Localhost] = secret \/ "secret" \in loose
        /\ secret \in {brec.root} \cup told \/ "secret" \in loose
    BY <1>2, <1>5, <2>1, HolderAt DEF SecretOpens, SecretKnown
  <2>3. ufaults' \in Nat
    BY <1>3, <2>1
  <2>4. AdminFound' /\ AdminSet'
    BY <1>6, <2>1, NobodyAtNext DEF AdminFound, AdminKnown, AdminSet
  <2>5. RootsFound' /\ (\A h \in RootHosts : roots'[h] =< New)
    <3>1. CASE roots' = [h \in RootHosts |-> brec.root]
      BY <1>3, <1>5, <2>1, <2>2, <3>1 DEF RootsFound, RootsKnown, NoneAhead
    <3>2. CASE roots' = roots /\ "root" \in loose' /\ ufaults' = IF roots[Localhost] = secret THEN ufaults + 1 ELSE ufaults
      <4>1. ufaults' > 1 \/ "secret" \in loose'
        BY <1>3, <2>1, <2>2, <3>2
      <4>2. \A h \in RootHosts : roots[h] =< New
        BY <1>3, <1>5 DEF NoneAhead
      <4> QED
        BY <3>2, <4>1, <4>2 DEF RootsFound, RootsKnown
    <3> QED
      BY <2>1, <3>1, <3>2
  <2>6. NoneAhead' /\ OwnIsLast' /\ AllAltered'
    BY <1>3, <1>5, <2>1, <2>5, NobodyAtNext DEF NoneAhead, OwnIsLast, AllAltered
  <2>7. SecretKnown' /\ SecretOpens'
    BY <2>1, <2>2, <2>3, NobodyAtNext DEF SecretKnown, SecretOpens
  <2> QED
    BY <2>4, <2>5, <2>6, <2>7 DEF PasswordInv
<1>12. CASE Secret(u)
  <2>1. at[u] = "secret" /\ UNCHANGED <<brec, site, roots>>
    BY <1>12 DEF Secret
  <2>2. CASE secret' = New /\ loose' = loose \ {"root", "secret"} /\ Go(u, "root") /\ UNCHANGED <<ufaults, issued, told>>
    <3>1. New' = New /\ \A h \in RootHosts : roots'[h] = New
      BY <1>2, <1>5, <2>1, <2>2, HolderAt DEF New, AllAltered
    <3>2. AdminFound' /\ AdminSet'
      BY <1>6, <1>7, <2>1, <2>2, HolderAtNext DEF AdminFound, AdminKnown, AdminSet
    <3>3. RootsFound'
      BY <1>7, <2>2, HolderAtNext DEF RootsFound, Rooting
    <3>4. NoneAhead' /\ OwnIsLast' /\ AllAltered'
      BY <1>3, <1>5, <1>7, <2>1, <2>2, <3>1, HolderAtNext DEF NoneAhead, OwnIsLast, AllAltered, Rooting
    <3>5. SecretKnown' /\ SecretOpens'
      BY <1>3, <1>7, <2>2, <3>1, HolderAtNext DEF SecretKnown, SecretOpens
    <3> QED
      BY <3>2, <3>3, <3>4, <3>5 DEF PasswordInv
  <2>3. CASE Tell(u) /\ secret' \in {secret, 0, New} /\ loose' = IF secret' = 0 THEN loose \cup {"secret"} ELSE loose
    <3>1. loose \subseteq loose' /\ ("lost" \in loose' => "lost" \in loose) /\ (secret' \in {secret, New} \/ "secret" \in loose')
      BY <2>3
    <3> QED
      BY <1>2, <2>1, <2>3, <3>1, Telling
  <2> QED
    BY <1>12, <2>2, <2>3 DEF Secret
<1>13. CASE RecordRoot(u)
  <2>1. at[u] = "root" /\ UNCHANGED <<site, roots, secret, loose>>
    BY <1>13 DEF RecordRoot
  <2>2. CASE brec' = [brec EXCEPT !.root = New] /\ issued' = New /\ Leave(u) /\ UNCHANGED <<ufaults, told>>
    <3>1. brec'.root = New /\ brec'.admin = brec.admin /\ holder' = Nobody
      BY <1>3, <1>8, <2>2 DEF Recs
    <3>2. (secret = New \/ "secret" \in loose) /\ \A h \in RootHosts : roots[h] = New
      BY <1>2, <1>5, <2>1, HolderAt DEF SecretKnown, AllAltered
    <3>3. AdminFound' /\ AdminSet'
      BY <1>6, <2>1, <2>2, <3>1, NobodyAtNext DEF AdminFound, AdminKnown, AdminSet
    <3>4. RootsFound'
      BY <2>1, <3>1, <3>2 DEF RootsFound, RootsKnown
    <3>5. NoneAhead' /\ OwnIsLast' /\ AllAltered'
      BY <1>3, <2>1, <2>2, <3>1, <3>2, NobodyAtNext DEF NoneAhead, OwnIsLast, AllAltered
    <3>6. SecretKnown' /\ SecretOpens'
      BY <1>3, <2>1, <3>1, <3>2, NobodyAtNext DEF SecretKnown, SecretOpens
    <3> QED
      BY <3>3, <3>4, <3>5, <3>6 DEF PasswordInv
  <2>3. CASE Tell(u) /\ UNCHANGED brec
    BY <1>2, <2>1, <2>3, Telling
  <2> QED
    BY <1>13, <2>2, <2>3 DEF RecordRoot
<1>14. CASE ListHosts(u)
  <2>1. /\ at[u] = "hosts" /\ UNCHANGED <<brec, site, roots, secret, told, issued, loose>> /\ ufaults' \in {ufaults, ufaults + 1}
        /\ Leave(u) \/ (roots[Localhost] = secret /\ Go(u, "alter"))
    BY <1>14 DEF ListHosts, SecretOpen, Fault, Stores
  <2>2. ~Replacing
    BY <1>2, <2>1, HolderAt DEF Rooting
  <2>3. RootsKnown /\ \A h \in RootHosts : roots[h] =< issued
    BY <1>5, <2>2 DEF RootsFound, NoneAhead
  <2>4. secret \in {brec.root} \cup told \/ "secret" \in loose
    BY <1>2, <1>5, <2>1, HolderAt DEF SecretKnown
  <2>5. /\ AdminKnown' /\ RootsKnown' /\ brec'.root =< issued' /\ New' = New
        /\ \A h \in RootHosts : roots'[h] =< issued'
    BY <1>3, <1>5, <1>6, <2>1, <2>3 DEF AdminKnown, RootsKnown, NoneAhead, New
  <2>6. CASE Leave(u)
    BY <1>8, <2>1, <2>4, <2>5, <2>6, NobodyAtNext
       DEF PasswordInv, AdminFound, RootsFound, AdminSet, NoneAhead, OwnIsLast, AllAltered, SecretKnown, SecretOpens
  <2>7. CASE roots[Localhost] = secret /\ Go(u, "alter")
    BY <1>3, <1>7, <2>1, <2>4, <2>5, <2>7, HolderAtNext
       DEF PasswordInv, AdminFound, RootsFound, AdminSet, NoneAhead, OwnIsLast, AllAltered, SecretKnown, SecretOpens
  <2> QED
    BY <2>1, <2>6, <2>7
<1> QED
  BY <1>9, <1>10, <1>11, <1>12, <1>13, <1>14


\* The Administrator's password changes first, its record follows.
LEMMA RecordSteps ==
  ASSUME UpdateInv, UpdateInv', PasswordInv, NEW u \in Users, SetAdmin(u) \/ RecordAdmin(u)
  PROVE  PasswordInv'
<1>1. at[u] \in {"setAdmin", "admin"} /\ at[u] \notin Unlocked \cup Rooting
  BY DEF SetAdmin, RecordAdmin, Rooting, Unlocked
<1>2. holder = u /\ ControlOK /\ StoresOK /\ HistoryOK
  BY <1>1, Holding
<1>3. /\ issued \in Nat /\ ufaults \in Nat /\ brec \in Recs /\ site \in Sites
      /\ roots \in [RootHosts -> Nat] /\ New = issued + 1
  BY <1>2 DEF StoresOK, HistoryOK, New
<1>4. SUFFICES ASSUME "lost" \notin loose PROVE PasswordInv'
  BY DEF PasswordInv, SetAdmin, RecordAdmin, AdminDoubts
<1>5. AdminFound /\ RootsFound /\ AdminSet /\ NoneAhead /\ OwnIsLast /\ AllAltered /\ SecretKnown /\ SecretOpens
  BY <1>4 DEF PasswordInv
<1>6. /\ RootsKnown /\ brec.root =< issued /\ \A h \in RootHosts : roots[h] =< issued
      /\ secret \in {brec.root} \cup told \/ "secret" \in loose
  BY <1>1, <1>2, <1>5, HolderAt DEF RootsFound, NoneAhead, SecretKnown, Rooting
<1>7. UNCHANGED <<roots, secret>> /\ brec'.root = brec.root
  BY <1>3 DEF SetAdmin, RecordAdmin, Recs
<1>8. ASSUME holder' = Nobody, issued' = New, "root" \in loose => "root" \in loose', "secret" \in loose => "secret" \in loose',
             ufaults' >= ufaults, told' = told,
             site'.admin = brec'.admin \/ site'.admin \in told' \/ AdminDoubts \cap loose' # {}
      PROVE  PasswordInv'
  <2>1. AdminFound' /\ AdminSet'
    BY <1>8, NobodyAtNext DEF AdminFound, AdminKnown, AdminSet, AdminDoubts
  <2>2. ufaults' \in Nat
    BY DEF UpdateInv, TypeInv, HistoryOK
  <2>3. RootsFound'
    BY <1>3, <1>6, <1>7, <1>8, <2>2 DEF RootsFound, RootsKnown
  <2>4. NoneAhead' /\ OwnIsLast' /\ AllAltered'
    <3>1. brec'.root =< New /\ \A h \in RootHosts : roots'[h] =< New
      <4>1. brec.root \in Nat
        BY <1>3 DEF Recs
      <4> QED
        BY <1>3, <1>6, <1>7, <4>1
    <3> QED
      BY <1>8, <3>1, NobodyAtNext DEF NoneAhead, OwnIsLast, AllAltered
  <2>5. SecretKnown' /\ SecretOpens'
    BY <1>3, <1>6, <1>7, <1>8, <2>2, NobodyAtNext DEF SecretKnown, SecretOpens
  <2> QED
    BY <2>1, <2>3, <2>4, <2>5 DEF PasswordInv
<1>9. Leave(u) => holder' = Nobody
  BY <1>2 DEF Leave
<1>10. CASE SetAdmin(u)
  <2>1. at[u] = "setAdmin" /\ UNCHANGED <<brec, told>>
    BY <1>10 DEF SetAdmin
  <2>2. CASE site' = [site EXCEPT !.admin = New] /\ Go(u, "admin") /\ UNCHANGED <<ufaults, issued, loose>>
    <3>1. holder' = u /\ at'[u] = "admin" /\ New' = New /\ site'.admin = New
      BY <1>2, <1>3, <2>2 DEF Go, ControlOK, New, Sites
    <3>2. AdminFound' /\ AdminSet'
      BY <3>1, HolderAtNext DEF AdminFound, AdminSet
    <3>3. RootsFound'
      BY <1>6, <1>7, <2>1, <2>2 DEF RootsFound, RootsKnown
    <3>4. NoneAhead' /\ OwnIsLast' /\ AllAltered'
      BY <1>6, <1>7, <2>2, <3>1, HolderAtNext DEF NoneAhead, OwnIsLast, AllAltered
    <3>5. SecretKnown' /\ SecretOpens'
      BY <1>6, <1>7, <2>1, <2>2, <3>1, HolderAtNext DEF SecretKnown, SecretOpens
    <3> QED
      BY <3>2, <3>3, <3>4, <3>5 DEF PasswordInv
  <2>3. CASE ufaults' = ufaults + 1 /\ issued' = New /\ loose' = loose \cup {"admin"} /\ Leave(u)
    <3>1. AdminDoubts \cap loose' # {} /\ loose \subseteq loose'
      BY <2>3 DEF AdminDoubts
    <3> QED
      BY <1>3, <1>8, <1>9, <2>1, <2>3, <3>1
  <2> QED
    BY <1>10, <2>2, <2>3 DEF SetAdmin, Fault
<1>11. CASE RecordAdmin(u)
  <2>1. at[u] = "admin" /\ UNCHANGED site /\ site'.admin = New
    BY <1>2, <1>5, <1>11, HolderAt DEF RecordAdmin, AdminSet
  <2>2. CASE brec' = [brec EXCEPT !.admin = New] /\ issued' = New /\ loose' = loose \ AdminDoubts /\ Leave(u) /\ UNCHANGED <<ufaults, told>>
    <3>1. brec'.admin = New
      BY <1>3, <2>2 DEF Recs
    <3> QED
      BY <1>3, <1>8, <1>9, <2>1, <2>2, <3>1 DEF AdminDoubts
  <2>3. CASE Tell(u) /\ UNCHANGED <<brec, loose>>
    BY <1>2, <1>7, <2>1, <2>3, Telling
  <2>4. CASE /\ ufaults' = ufaults + 1 /\ issued' = New /\ loose' = loose \cup {"agent"} /\ Leave(u) /\ UNCHANGED <<brec, told>>
    BY <1>3, <1>8, <1>9, <2>4 DEF AdminDoubts
  <2> QED
    BY <1>11, <2>2, <2>3, <2>4 DEF RecordAdmin, Fault
<1> QED
  BY <1>10, <1>11

\* Between two operations the record knows the Administrator's and every root
\* account's password, and the secret file the latter; or ffm told it, or an error
\* named it; one failed command leaves no accounts with two.  Left out are a killed
\* ffm, a restore or its migrate that failed before the password was set again, an
\* agent profile that could not be recorded, and a secret file emptied or written
\* from an older record.
THEOREM PasswordsSafe == UpkeepSpec => []PasswordsKnown
<1>1. UpkeepInit => PasswordInv
  <2> SUFFICES ASSUME UpkeepInit PROVE PasswordInv
    OBVIOUS
  <2>1. /\ brec.admin = 1 /\ brec.root = 1 /\ site.admin = 1 /\ roots = [h \in RootHosts |-> 1]
        /\ secret = 1 /\ issued = 1 /\ holder = Nobody
    BY DEF UpkeepInit
  <2>2. Localhost \in RootHosts
    BY UpkeepAssumption
  <2>3. AdminFound /\ RootsFound /\ AdminSet
    BY <2>1, NobodyAt DEF AdminFound, AdminKnown, RootsFound, RootsKnown, AdminSet
  <2>4. NoneAhead /\ OwnIsLast /\ AllAltered
    BY <2>1, NobodyAt DEF NoneAhead, OwnIsLast, AllAltered
  <2>5. SecretKnown /\ SecretOpens
    BY <2>1, <2>2, NobodyAt DEF SecretKnown, SecretOpens
  <2> QED
    BY <2>3, <2>4, <2>5 DEF PasswordInv
<1>2. UpdateInv /\ UpdateInv' /\ PasswordInv /\ [UpkeepNext]_uvars => PasswordInv'
  <2> SUFFICES ASSUME UpdateInv, UpdateInv', PasswordInv, [UpkeepNext]_uvars PROVE PasswordInv'
    OBVIOUS
  <2>1. ASSUME NEW u \in Users, Harmless(u) PROVE PasswordInv'
    BY <2>1, QuietStep
  <2>2. ASSUME NEW u \in Users,
               \/ Swap(u) \/ SwapMigrate(u) \/ SwapAdmin(u) \/ UndoAdmin(u) \/ CommandFails(u)
        PROVE  PasswordInv'
    BY <2>2, AdminSteps
  <2>3. ASSUME NEW u \in Users, PasswordStep(u) PROVE PasswordInv'
    BY <2>3, RootSteps, RecordSteps DEF PasswordStep
  <2>4. ASSUME \/ \E u \in Users, t \in Tasks : Start(u, t) \/ StartDelete(u, t) \/ DomainRead(u, t)
               \/ \E u \in Users : Unlink(u) \/ Rmdir(u) \/ RewriteSecret(u) \/ Kill(u)
               \/ \E on \in BOOLEAN : Maintenance(on)
               \/ UNCHANGED uvars
        PROVE  PasswordInv'
    BY <2>4, OtherSteps
  <2> QED
    BY <2>1, <2>2, <2>3, <2>4, QuietApply DEF UpkeepNext, PasswordStep
<1>3. PasswordInv => PasswordsKnown
  BY NobodyAt DEF PasswordInv, PasswordsKnown, AdminFound, AdminKnown, AdminDoubts, RootsFound, RootsKnown
<1> QED
  BY <1>1, <1>2, <1>3, UpdatesKnow, PTL DEF UpkeepSpec

-----------------------------------------------------------------------------
(* From the record of a bench to its containers *)

RolledRecords == [workers : 1..2, bind : {"loopback", "lan"}, alias : BOOLEAN, tv : {1, Current}, apps : SUBSET Apps]

\* The steps of an operation on an app, and those of them that have the lock.
WithApp  == {"get", "install", "assets", "recordApp", "uninstall", "removeCode", "forgetApp"}
RollSteps == {"idle", "recordScale", "recordDomain", "look", "recordBind", "write", "up", "restart", "startUp", "startDev",
              "stop", "build", "debugpy", "procfile", "restartWeb", "snapshot", "lock", "restartApps"} \cup WithApp

RollTypes ==
  /\ prod \in BOOLEAN
  /\ rec \in RolledRecords
  /\ fetched \in SUBSET Apps
  /\ installed \in SUBSET Apps
  /\ locker \in Actors \cup {Nil}
  /\ step \in [Actors -> RollSteps]
  /\ job \in [Actors -> Rollouts \cup {Nil}]
  /\ read \in [Actors -> RolledRecords \cup {Nil}]

\* What the step of u says of its task, and of the lock.
RollKnown(u) ==
  /\ step[u] # "idle" => job[u] \in Rollouts /\ read[u] \in RolledRecords
  /\ step[u] = "recordScale" => job[u].kind = "scale"
  /\ step[u] = "recordDomain" => job[u].kind = "domain"
  /\ step[u] \in {"look", "recordBind"} => job[u].kind = "reconcile"
  /\ step[u] \in WithApp \cup {"snapshot", "lock"} => job[u].kind \in {"addApp", "removeApp"}
  /\ step[u] \in WithApp => locker = u

RollKnows == RollTypes /\ \A u \in Actors : RollKnown(u)

\* A difference between record, file, containers and dev server is the work of
\* an operation that is about to remove it.
FileMade == compose = RenderCompose(rec) \/ \E u \in Actors : step[u] = "write"
ContainersMade ==
  \/ containers = Down \/ containers = [compose |-> compose, image |-> image]
  \/ \E u \in Actors : step[u] \in {"up", "startUp"}
ServerMade ==
  \/ containers = Down \/ prod \/ server = procfile
  \/ \E u \in Actors : step[u] \in {"up", "restart", "restartWeb", "restartApps"}
  \/ server = "down" /\ \E u \in Actors : step[u] \in {"startUp", "startDev"}
Applied == ~unapplied => FileMade /\ ContainersMade /\ ServerMade

\* What an operation on an app has reached, and what it has yet to record.
Reached(u) ==
  /\ step[u] \in {"install", "assets", "recordApp"} => job[u].app \in fetched
  /\ step[u] \in {"removeCode", "forgetApp"} => job[u].app \notin installed
Recording(a) == \E u \in Actors : step[u] \in {"assets", "recordApp", "forgetApp"} /\ job[u].app = a
AppKept(a) == Recording(a) \/ ((a \in installed => a \in rec.apps) /\ (a \in rec.apps => a \in fetched))
AppsKept == (\A u \in Actors : Reached(u)) /\ \A a \in Apps \ (unfinished \cup Misnamed) : AppKept(a)


LEMMA TaskShape ==
  ASSUME NEW t \in Rollouts
  PROVE  /\ t # Nil
         /\ t.kind = "scale" => t.workers \in 1..2
         /\ t.kind = "domain" => t.alias \in BOOLEAN
         /\ t.kind = "reconcile" => t.bind \in {"as is", "lan", "loopback"}
         /\ t.kind \in {"addApp", "removeApp"} => t.app \in Apps
BY RolloutAssumption DEF Rollouts

LEMMA FirstKnows ==
  ASSUME NEW t \in Rollouts
  PROVE  /\ FirstStep(t) \in RollSteps \ {"idle"}
         /\ FirstStep(t) = "recordScale" => t.kind = "scale"
         /\ FirstStep(t) = "recordDomain" => t.kind = "domain"
         /\ FirstStep(t) = "look" => t.kind = "reconcile"
         /\ FirstStep(t) = "get" <=> t.kind = "addApp"
         /\ FirstStep(t) = "snapshot" => t.kind = "removeApp"
         /\ FirstStep(t) \in {"recordScale", "recordDomain", "look", "startUp", "stop", "debugpy", "procfile", "get", "snapshot"}
BY DEF Rollouts, FirstStep, RollSteps, WithApp

\* An action of u leaves the others at their steps, and takes no lock from them.
ActsAlone(u) ==
  /\ \E s \in RollSteps : step' = [step EXCEPT ![u] = s]
  /\ \E t \in Rollouts \cup {Nil} : job' = [job EXCEPT ![u] = t]
  /\ \E r \in RolledRecords \cup {Nil} : read' = [read EXCEPT ![u] = r]
  /\ \/ locker' = locker
     \/ locker = Nil /\ locker' = u
     \/ locker = u /\ locker' = Nil

LEMMA AloneKnows ==
  ASSUME RollKnows, NEW u \in Actors, ActsAlone(u)
  PROVE  /\ step' \in [Actors -> RollSteps]
         /\ job' \in [Actors -> Rollouts \cup {Nil}]
         /\ read' \in [Actors -> RolledRecords \cup {Nil}]
         /\ locker' \in Actors \cup {Nil}
         /\ \A v \in Actors \ {u} : RollKnown(v)'
         /\ \A v \in Actors \ {u} : step'[v] = step[v] /\ job'[v] = job[v] /\ read'[v] = read[v]
<1>1. /\ step' \in [Actors -> RollSteps]
      /\ \A v \in Actors \ {u} : step'[v] = step[v]
  BY DEF RollKnows, RollTypes, ActsAlone
<1>2. /\ job' \in [Actors -> Rollouts \cup {Nil}]
      /\ \A v \in Actors \ {u} : job'[v] = job[v]
  <2>1. PICK t \in Rollouts \cup {Nil} : job' = [job EXCEPT ![u] = t]
    BY DEF ActsAlone
  <2>. QED
    BY <2>1 DEF RollKnows, RollTypes
<1>3. /\ read' \in [Actors -> RolledRecords \cup {Nil}]
      /\ \A v \in Actors \ {u} : read'[v] = read[v]
  <2>1. PICK r \in RolledRecords \cup {Nil} : read' = [read EXCEPT ![u] = r]
    BY DEF ActsAlone
  <2>. QED
    BY <2>1 DEF RollKnows, RollTypes
<1>4. locker' \in Actors \cup {Nil}
  BY DEF RollKnows, RollTypes, ActsAlone
<1>5. ASSUME NEW v \in Actors \ {u} PROVE RollKnown(v)'
  <2>1. locker = v => locker' = v
    BY RolloutAssumption DEF ActsAlone
  <2>2. RollKnown(v)
    BY DEF RollKnows
  <2>. QED
    BY <1>1, <1>2, <1>3, <2>1, <2>2 DEF RollKnown
<1>. QED
  BY <1>1, <1>2, <1>3, <1>4, <1>5

LEMMA RollKnowsInit == RolloutInit => RollKnows
<1>. SUFFICES ASSUME RolloutInit PROVE RollKnows
  OBVIOUS
<1>1. RollTypes
  BY DEF RolloutInit, RollTypes, RolledRecords, RollSteps, Current
<1>2. ASSUME NEW u \in Actors PROVE RollKnown(u)
  BY DEF RolloutInit, RollKnown, WithApp
<1>. QED
  BY <1>1, <1>2 DEF RollKnows

\* What is left to show of an action of u.
LEMMA KnowsAfter ==
  ASSUME RollKnows, NEW u \in Actors, ActsAlone(u), RollKnown(u)', prod' = prod,
         rec' \in RolledRecords, fetched' \in SUBSET Apps, installed' \in SUBSET Apps
  PROVE  RollKnows'
<1>1. RollTypes'
  BY AloneKnows DEF RollKnows, RollTypes
<1>2. \A v \in Actors : RollKnown(v)'
  BY AloneKnows
<1>. QED
  BY <1>1, <1>2 DEF RollKnows

LEMMA EndKnows ==
  ASSUME RollKnows, NEW u \in Actors, EndTask(u)
  PROVE  ActsAlone(u) /\ RollKnown(u)' /\ step'[u] = "idle"
<1>1. step' = [step EXCEPT ![u] = "idle"] /\ step'[u] = "idle"
  BY DEF EndTask, RollKnows, RollTypes
<1>2. ActsAlone(u)
  BY <1>1 DEF EndTask, ActsAlone, RollSteps
<1>. QED
  BY <1>1, <1>2 DEF RollKnown, WithApp

LEMMA AdvanceKnows ==
  ASSUME RollKnows, NEW u \in Actors, step[u] # "idle", NEW s \in RollSteps, Advance(u, s),
         s \notin {"recordScale", "recordDomain", "look"},
         s = "recordBind" => step[u] = "look",
         s \in {"lock", "snapshot"} => step[u] = "snapshot",
         s \in WithApp => step[u] \in WithApp
  PROVE  ActsAlone(u) /\ RollKnown(u)' /\ step'[u] = s
<1>1. step' = [step EXCEPT ![u] = s] /\ step'[u] = s /\ UNCHANGED <<locker, job, read>>
  BY DEF Advance, RollKnows, RollTypes
<1>2. ActsAlone(u)
  <2>1. job' = [job EXCEPT ![u] = job[u]] /\ job[u] \in Rollouts \cup {Nil}
    BY <1>1 DEF RollKnows, RollTypes
  <2>2. read' = [read EXCEPT ![u] = read[u]] /\ read[u] \in RolledRecords \cup {Nil}
    BY <1>1 DEF RollKnows, RollTypes
  <2>. QED
    BY <1>1, <2>1, <2>2 DEF ActsAlone
<1>3. RollKnown(u)
  BY DEF RollKnows
<1>. QED
  BY <1>1, <1>2, <1>3 DEF RollKnown, WithApp


\* Each action of the model keeps RollKnows.
LEMMA RollKnowsKept == RollKnows /\ [RolloutNext]_rvars => RollKnows'
<1>. SUFFICES ASSUME RollKnows, [RolloutNext]_rvars PROVE RollKnows'
  OBVIOUS
<1>. USE DEF Marks
<1>1. CASE UNCHANGED rvars
  <2>1. RollTypes'
    BY <1>1 DEF RollKnows, RollTypes, rvars
  <2>2. \A u \in Actors : RollKnown(u)'
    BY <1>1 DEF RollKnows, RollKnown, rvars
  <2>. QED
    BY <2>1, <2>2 DEF RollKnows
<1>2. ASSUME NEW u \in Actors, NEW t \in Rollouts, BeginTask(u, t) PROVE RollKnows'
  <2>1. step' = [step EXCEPT ![u] = FirstStep(t)] /\ job' = [job EXCEPT ![u] = t] /\ read' = [read EXCEPT ![u] = rec]
    BY <1>2 DEF BeginTask
  <2>2. /\ rec \in RolledRecords /\ prod' = prod /\ rec' = rec
        /\ fetched' = fetched /\ installed' = installed /\ fetched \in SUBSET Apps /\ installed \in SUBSET Apps
    BY <1>2 DEF BeginTask, World, RollKnows, RollTypes
  <2>3. locker' = locker \/ (locker = Nil /\ locker' = u)
    BY <1>2 DEF BeginTask
  <2>4. ActsAlone(u)
    BY <2>1, <2>2, <2>3, FirstKnows DEF ActsAlone
  <2>5. step'[u] = FirstStep(t) /\ job'[u] = t /\ read'[u] = rec
    BY <2>1 DEF RollKnows, RollTypes
  <2>6. FirstStep(t) = "get" => locker' = u
    BY <1>2, FirstKnows DEF BeginTask, LockedTasks
  <2>7. RollKnown(u)'
    <3>1. FirstStep(t) \in WithApp => FirstStep(t) = "get"
      BY FirstKnows DEF WithApp
    <3>2. FirstStep(t) # "recordBind" /\ FirstStep(t) # "lock"
      BY FirstKnows
    <3>. QED
      BY <2>2, <2>5, <2>6, <3>1, <3>2, FirstKnows DEF RollKnown
  <2>. QED
    BY <2>2, <2>4, <2>7, KnowsAfter
<1>3. ASSUME NEW u \in Actors, NEW part \in {"workers", "alias"},
             NEW value, part = "workers" => value \in 1..2, part = "alias" => value \in BOOLEAN,
             step[u] # "idle", RecordPart(u, part, value, "write")
      PROVE  RollKnows'
  <2>1. /\ rec' = [rec EXCEPT ![part] = value] /\ read' = [read EXCEPT ![u][part] = value]
        /\ step' = [step EXCEPT ![u] = "write"] /\ locker' = locker /\ job' = job
        /\ prod' = prod /\ fetched' = fetched /\ installed' = installed
    BY <1>3 DEF RecordPart
  <2>2. rec' \in RolledRecords
    BY <1>3, <2>1 DEF RollKnows, RollTypes, RolledRecords
  <2>3. read[u] \in RolledRecords /\ job[u] \in Rollouts
    BY <1>3 DEF RollKnows, RollKnown
  <2>4. [read[u] EXCEPT ![part] = value] \in RolledRecords
    BY <1>3, <2>3 DEF RolledRecords
  <2>5. read' = [read EXCEPT ![u] = [read[u] EXCEPT ![part] = value]]
    BY <2>1
  <2>6. job' = [job EXCEPT ![u] = job[u]]
    BY <2>1 DEF RollKnows, RollTypes
  <2>7. ActsAlone(u)
    BY <2>1, <2>3, <2>4, <2>5, <2>6 DEF ActsAlone, RollSteps
  <2>8. RollKnown(u)'
    BY <2>1, <2>3, <2>4, <2>5 DEF RollKnown, RollKnows, RollTypes, WithApp
  <2>. QED
    BY <2>1, <2>2, <2>7, <2>8, KnowsAfter DEF RollKnows, RollTypes
<1>4. ASSUME NEW u \in Actors, RecordScale(u) PROVE RollKnows'
  <2>1. job[u].workers \in 1..2
    BY <1>4, TaskShape DEF RollKnows, RollKnown, RecordScale
  <2>. QED
    BY <1>3, <1>4, <2>1 DEF RecordScale
<1>5. ASSUME NEW u \in Actors, RecordDomain(u) PROVE RollKnows'
  <2>1. job[u].alias \in BOOLEAN
    BY <1>5, TaskShape DEF RollKnows, RollKnown, RecordDomain
  <2>. QED
    BY <1>3, <1>5, <2>1 DEF RecordDomain
<1>6. ASSUME NEW u \in Actors, step[u] \in {"look", "recordBind"} PROVE BindOf(u) \in RolledRecords
  <2>1. job[u].bind \in {"as is", "lan", "loopback"} /\ read[u] \in RolledRecords
    BY <1>6, TaskShape DEF RollKnows, RollKnown
  <2>. QED
    BY <2>1 DEF BindOf, RolledRecords
<1>7. \A r \in RolledRecords : /\ [rec EXCEPT !.tv = Current] \in RolledRecords
                               /\ [rec EXCEPT !.bind = r.bind, !.tv = Current] \in RolledRecords
  BY DEF RollKnows, RollTypes, RolledRecords

\* What stays of the record and of the apps.
<1>8. /\ rec \in RolledRecords /\ fetched \in SUBSET Apps /\ installed \in SUBSET Apps
      /\ \A u \in Actors : step[u] \in WithApp => job[u].app \in Apps
  <2>1. ASSUME NEW u \in Actors, step[u] \in WithApp PROVE job[u].app \in Apps
    <3>1. RollKnown(u) /\ step[u] # "idle"
      BY <2>1 DEF RollKnows, WithApp
    <3>2. job[u] \in Rollouts /\ job[u].kind \in {"addApp", "removeApp"}
      BY <2>1, <3>1 DEF RollKnown
    <3>. QED
      BY <3>2, TaskShape
  <2>. QED
    BY <2>1 DEF RollKnows, RollTypes
<1>9. ASSUME NEW u \in Actors, LookAtFile(u) PROVE RollKnows'
  <2>1. rec' \in RolledRecords
    BY <1>7, <1>8, <1>9 DEF LookAtFile
  <2>2. ActsAlone(u) /\ RollKnown(u)'
    BY <1>9, EndKnows, AdvanceKnows DEF LookAtFile, RollSteps, WithApp
  <2>. QED
    BY <1>8, <1>9, <2>1, <2>2, KnowsAfter DEF LookAtFile
<1>10. ASSUME NEW u \in Actors, RecordBind(u) PROVE RollKnows'
  <2>1. BindOf(u) \in RolledRecords
    BY <1>6, <1>10 DEF RecordBind
  <2>2. rec' \in RolledRecords
    BY <1>7, <1>10, <2>1 DEF RecordBind
  <2>3. /\ step' = [step EXCEPT ![u] = "write"] /\ read' = [read EXCEPT ![u] = BindOf(u)] /\ job' = [job EXCEPT ![u] = job[u]]
        /\ locker' = locker /\ job[u] \in Rollouts
    BY <1>10 DEF RecordBind, RollKnows, RollTypes, RollKnown
  <2>4. ActsAlone(u)
    BY <2>1, <2>3 DEF ActsAlone, RollSteps
  <2>5. RollKnown(u)'
    BY <2>1, <2>3 DEF RollKnown, RollKnows, RollTypes, WithApp
  <2>. QED
    BY <1>8, <1>10, <2>2, <2>4, <2>5, KnowsAfter DEF RecordBind
<1>11. ASSUME NEW u \in Actors, Write(u) \/ RollOut(u) \/ RestartDevServer(u) \/ ComposeStart(u) \/ StartDev(u)
                 \/ ComposeStop(u) \/ RebuildImage(u) \/ Debugpy(u) \/ SetDebugWeb(u) \/ RestartWeb(u) \/ RestartApps(u) \/ SnapshotFirst(u)
       PROVE  RollKnows'
  <2>1. prod' = prod /\ rec' = rec /\ fetched' = fetched /\ installed' = installed
    BY <1>11 DEF Write, RollOut, RestartDevServer, ComposeStart, StartDev, ComposeStop, RebuildImage, Debugpy, SetDebugWeb,
                 RestartWeb, RestartApps, SnapshotFirst, World
  <2>2. \/ EndTask(u)
        \/ Advance(u, "lock") /\ step[u] = "snapshot"
        \/ step[u] # "idle" /\ \E s \in {"up", "restart", "startDev", "build", "startUp", "procfile", "restartWeb"} : Advance(u, s)
    BY <1>11 DEF Write, RollOut, RestartDevServer, ComposeStart, StartDev, ComposeStop, RebuildImage, Debugpy, SetDebugWeb,
                 RestartWeb, RestartApps, SnapshotFirst
  <2>3. ActsAlone(u) /\ RollKnown(u)'
    BY <2>2, EndKnows, AdvanceKnows DEF RollSteps, WithApp
  <2>. QED
    BY <1>8, <2>1, <2>3, KnowsAfter
<1>12. ASSUME NEW u \in Actors, GetApp(u) \/ Install(u) \/ Assets(u) \/ Uninstall(u) \/ RemoveCode(u) PROVE RollKnows'
  <2>1. prod' = prod /\ rec' = rec /\ step[u] \in WithApp
    BY <1>12 DEF GetApp, Install, Assets, Uninstall, RemoveCode, AppStep, WithApp
  <2>2. fetched' \in SUBSET Apps /\ installed' \in SUBSET Apps
    BY <1>8, <1>12, <2>1 DEF GetApp, Install, Assets, Uninstall, RemoveCode
  <2>3. EndTask(u) \/ \E s \in {"install", "assets", "recordApp", "removeCode", "forgetApp"} : Advance(u, s)
    BY <1>12 DEF GetApp, Install, Assets, Uninstall, RemoveCode, AppStep
  <2>4. ActsAlone(u) /\ RollKnown(u)'
    BY <2>1, <2>3, EndKnows, AdvanceKnows DEF RollSteps, WithApp
  <2>. QED
    BY <2>1, <2>2, <2>4, KnowsAfter, <1>8
<1>13. ASSUME NEW u \in Actors, RecordApp(u) PROVE RollKnows'
  <2>1. rec' \in RolledRecords
    <3>1. job[u].app \in Apps
      BY <1>8, <1>13 DEF RecordApp, WithApp
    <3>2. PICK S \in SUBSET Apps : rec' = [rec EXCEPT !.apps = S]
      BY <1>8, <1>13, <3>1 DEF RecordApp, WithoutApp, RolledRecords
    <3>. QED
      BY <1>8, <3>2 DEF RolledRecords
  <2>2. ActsAlone(u) /\ RollKnown(u)'
    BY <1>13, AdvanceKnows DEF RecordApp, RollSteps, WithApp
  <2>. QED
    BY <1>8, <1>13, <2>1, <2>2, KnowsAfter DEF RecordApp
<1>14. ASSUME NEW u \in Actors, LockRemove(u) PROVE RollKnows'
  <2>1. UNCHANGED World
    BY <1>14 DEF LockRemove
  <2>2. CASE locker # Nil
    BY <1>8, <1>14, <2>1, <2>2, EndKnows, KnowsAfter DEF LockRemove, World
  <2>3. CASE locker = Nil
    <3>1. /\ locker' = u /\ step' = [step EXCEPT ![u] = "uninstall"] /\ step'[u] = "uninstall"
          /\ job' = [job EXCEPT ![u] = job[u]] /\ read' = [read EXCEPT ![u] = read[u]] /\ job'[u] = job[u] /\ read'[u] = read[u]
          /\ job[u] \in Rollouts \cup {Nil} /\ read[u] \in RolledRecords \cup {Nil}
      BY <1>14, <2>3 DEF LockRemove, RollKnows, RollTypes
    <3>2. ActsAlone(u)
      BY <2>3, <3>1 DEF ActsAlone, RollSteps, WithApp
    <3>3. RollKnown(u)'
      BY <1>14, <3>1 DEF LockRemove, RollKnown, RollKnows, WithApp
    <3>. QED
      BY <1>8, <2>1, <3>2, <3>3, KnowsAfter DEF World
  <2>. QED
    BY <2>2, <2>3
<1>15. ASSUME NEW u \in Actors, TaskFails(u) PROVE RollKnows'
  <2>1. prod' = prod /\ rec' = rec /\ EndTask(u)
    BY <1>15 DEF TaskFails
  <2>2. fetched' \in SUBSET Apps /\ installed' \in SUBSET Apps
    BY <1>8, <1>15 DEF TaskFails, WithApp
  <2>. QED
    BY <1>8, <2>1, <2>2, EndKnows, KnowsAfter
<1>16. ASSUME NEW u \in Actors, KillTask(u) PROVE RollKnows'
  BY <1>8, <1>16, EndKnows, KnowsAfter DEF KillTask, World
<1>. QED
  BY <1>1, <1>2, <1>4, <1>5, <1>9, <1>10, <1>11, <1>12, <1>13, <1>14, <1>15, <1>16 DEF RolloutNext


LEMMA StepOf ==
  ASSUME RollKnows, NEW u \in Actors, NEW s, step' = [step EXCEPT ![u] = s]
  PROVE  step'[u] = s /\ \A v \in Actors \ {u} : step'[v] = step[v]
BY DEF RollKnows, RollTypes

\* An action of u that has nothing to do with one of the differences keeps it as it is.
LEMMA FileStays ==
  ASSUME RollKnows, FileMade, NEW u \in Actors, NEW s, step' = [step EXCEPT ![u] = s], step[u] # "write",
         compose' = compose, RenderCompose(rec') = RenderCompose(rec)
  PROVE  FileMade'
BY StepOf DEF FileMade

LEMMA ContainersStay ==
  ASSUME RollKnows, ContainersMade, NEW u \in Actors, NEW s, step' = [step EXCEPT ![u] = s],
         step[u] \notin {"up", "startUp"}, UNCHANGED <<compose, containers, image>>
  PROVE  ContainersMade'
BY StepOf DEF ContainersMade

LEMMA ServerStays ==
  ASSUME RollKnows, ServerMade, NEW u \in Actors, NEW s, step' = [step EXCEPT ![u] = s],
         step[u] \notin {"up", "restart", "restartWeb", "restartApps", "startUp", "startDev"},
         UNCHANGED <<prod, containers, procfile, server>>
  PROVE  ServerMade'
BY StepOf DEF ServerMade

\* What the file is rendered from is not the apps of the record, nor its version.
LEMMA RenderIgnores ==
  ASSUME NEW r \in RolledRecords, NEW S
  PROVE  /\ RenderCompose([r EXCEPT !.apps = S]) = RenderCompose(r)
         /\ RenderCompose([r EXCEPT !.tv = S]) = RenderCompose(r)
BY DEF RenderCompose, RolledRecords

LEMMA AppliedInit == RolloutInit => Applied
<1>. SUFFICES ASSUME RolloutInit, ~unapplied PROVE FileMade /\ ContainersMade /\ ServerMade
  BY DEF Applied
<1>1. PICK tv \in {Current} \cup {v \in {1} : Old} :
        /\ rec = [workers |-> 1, bind |-> "loopback", alias |-> FALSE, tv |-> tv, apps |-> {}]
        /\ compose = [workers |-> 1, bind |-> "loopback", alias |-> FALSE, tv |-> tv]
        /\ unapplied = (tv # Current)
  BY DEF RolloutInit
<1>2. tv = Current
  BY <1>1
<1>3. FileMade
  BY <1>1, <1>2 DEF FileMade, RenderCompose
<1>. QED
  BY <1>3 DEF RolloutInit, ContainersMade, ServerMade

\* Each action of the model keeps Applied.
LEMMA AppliedKept == RollKnows /\ Applied /\ [RolloutNext]_rvars => Applied'
<1>. SUFFICES ASSUME RollKnows, Applied, [RolloutNext]_rvars, ~unapplied'
              PROVE  FileMade' /\ ContainersMade' /\ ServerMade'
  BY DEF Applied
<1>. USE DEF Marks
<1>1. CASE UNCHANGED rvars
  BY <1>1 DEF Applied, FileMade, ContainersMade, ServerMade, rvars
<1>2. unapplied' = unapplied => FileMade /\ ContainersMade /\ ServerMade
  BY DEF Applied
<1>3. ASSUME NEW u \in Actors, NEW t \in Rollouts, BeginTask(u, t) PROVE FileMade' /\ ContainersMade' /\ ServerMade'
  BY <1>2, <1>3, FileStays, ContainersStay, ServerStays DEF BeginTask, World
<1>4. ASSUME NEW u \in Actors, RecordScale(u) \/ RecordDomain(u) \/ RecordBind(u)
      PROVE  FileMade' /\ ContainersMade' /\ ServerMade'
  <2>1. /\ step' = [step EXCEPT ![u] = "write"] /\ step[u] \in {"recordScale", "recordDomain", "recordBind"}
        /\ UNCHANGED <<prod, compose, containers, image, procfile, server, unapplied>>
    BY <1>4 DEF RecordScale, RecordDomain, RecordBind, RecordPart
  <2>2. FileMade'
    BY <2>1, StepOf DEF FileMade
  <2>. QED
    BY <1>2, <2>1, <2>2, ContainersStay, ServerStays
<1>5. ASSUME NEW u \in Actors, LookAtFile(u) PROVE FileMade' /\ ContainersMade' /\ ServerMade'
  <2>1. RenderCompose(rec') = RenderCompose(rec)
    <3>1. rec \in RolledRecords
      BY DEF RollKnows, RollTypes
    <3>2. rec' = rec \/ rec' = [rec EXCEPT !.tv = Current]
      BY <1>5 DEF LookAtFile
    <3>. QED
      BY <3>1, <3>2, RenderIgnores
  <2>2. \E s \in {"idle", "recordBind"} : step' = [step EXCEPT ![u] = s]
    BY <1>5 DEF LookAtFile, EndTask, Advance
  <2>. QED
    BY <1>2, <1>5, <2>1, <2>2, FileStays, ContainersStay, ServerStays DEF LookAtFile
<1>6. ASSUME NEW u \in Actors, Write(u) PROVE FileMade' /\ ContainersMade' /\ ServerMade'
  <2>1. compose' = RenderCompose(read[u]) /\ RenderCompose(read[u]) = RenderCompose(rec) /\ rec' = rec
    BY <1>6 DEF Write
  <2>2. CASE containers = Down
    BY <1>6, <2>1, <2>2 DEF Write, FileMade, ContainersMade, ServerMade
  <2>3. CASE containers # Down
    <3>1. step'[u] = "up"
      BY <1>6, <2>3, StepOf DEF Write, Advance
    <3>. QED
      BY <2>1, <3>1 DEF FileMade, ContainersMade, ServerMade, RenderCompose
  <2>. QED
    BY <2>2, <2>3
<1>7. ASSUME NEW u \in Actors, RollOut(u) PROVE FileMade' /\ ContainersMade' /\ ServerMade'
  <2>1. \E s \in {"idle", "restart"} : step' = [step EXCEPT ![u] = s]
    BY <1>7 DEF RollOut, EndTask, Advance
  <2>2. FileMade'
    BY <1>2, <1>7, <2>1, FileStays DEF RollOut
  <2>3. ContainersMade'
    BY <1>7 DEF RollOut, ComposeUp, ContainersMade
  <2>4. prod \/ step'[u] = "restart"
    BY <1>7, StepOf DEF RollOut, Advance
  <2>. QED
    BY <1>7, <2>2, <2>3, <2>4 DEF RollOut, ServerMade
<1>8. ASSUME NEW u \in Actors, RestartDevServer(u) PROVE FileMade' /\ ContainersMade' /\ ServerMade'
  <2>1. step' = [step EXCEPT ![u] = "idle"] /\ unapplied' = unapplied
    BY <1>8 DEF RestartDevServer, EndTask
  <2>2. FileMade' /\ ContainersMade'
    BY <1>2, <1>8, <2>1, FileStays, ContainersStay DEF RestartDevServer
  <2>3. containers' = containers /\ procfile' = procfile /\ (containers = Down \/ server' = procfile)
    BY <1>8 DEF RestartDevServer
  <2>. QED
    BY <2>2, <2>3 DEF ServerMade
<1>9. ASSUME NEW u \in Actors, ComposeStart(u) PROVE FileMade' /\ ContainersMade' /\ ServerMade'
  <2>1. \E s \in {"idle", "startDev"} : step' = [step EXCEPT ![u] = s]
    BY <1>9 DEF ComposeStart, EndTask, Advance
  <2>2. FileMade'
    BY <1>2, <1>9, <2>1, FileStays DEF ComposeStart
  <2>3. ContainersMade'
    BY <1>9 DEF ComposeStart, ComposeUp, ContainersMade
  <2>4. prod' = prod /\ (prod \/ step'[u] = "startDev")
    BY <1>9, StepOf DEF ComposeStart, Advance
  <2>5. CASE containers' = containers
    <3>1. server' = server /\ procfile' = procfile
      BY <1>9, <2>5 DEF ComposeStart, ComposeUp
    <3>2. \A v \in Actors \ {u} : step'[v] = step[v]
      BY <2>1, StepOf
    <3>3. ServerMade /\ step[u] = "startUp"
      BY <1>2, <1>9 DEF ComposeStart
    <3>. QED
      BY <2>2, <2>3, <2>4, <2>5, <3>1, <3>2, <3>3 DEF ServerMade
  <2>6. CASE containers' # containers
    BY <1>9, <2>2, <2>3, <2>4, <2>6 DEF ComposeStart, ComposeUp, ServerMade
  <2>. QED
    BY <2>5, <2>6
<1>10. ASSUME NEW u \in Actors, StartDev(u) PROVE FileMade' /\ ContainersMade' /\ ServerMade'
  <2>1. step' = [step EXCEPT ![u] = "idle"]
    BY <1>10 DEF StartDev, EndTask
  <2>2. FileMade' /\ ContainersMade'
    BY <1>2, <1>10, <2>1, FileStays, ContainersStay DEF StartDev
  <2>3. /\ containers' = containers /\ procfile' = procfile /\ prod' = prod
        /\ server' = IF containers = Down \/ server # "down" THEN server ELSE procfile
    BY <1>10 DEF StartDev
  <2>4. \A v \in Actors \ {u} : step'[v] = step[v]
    BY <2>1, StepOf
  <2>5. ServerMade /\ step[u] = "startDev"
    BY <1>2, <1>10 DEF StartDev
  <2>. QED
    BY <2>2, <2>3, <2>4, <2>5 DEF ServerMade
<1>11. ASSUME NEW u \in Actors, ComposeStop(u) PROVE FileMade' /\ ContainersMade' /\ ServerMade'
  <2>1. \E s \in {"idle", "build"} : step' = [step EXCEPT ![u] = s]
    BY <1>11 DEF ComposeStop, EndTask, Advance
  <2>2. FileMade'
    BY <1>2, <1>11, <2>1, FileStays DEF ComposeStop
  <2>. QED
    BY <1>11, <2>2 DEF ComposeStop, ContainersMade, ServerMade
<1>12. ASSUME NEW u \in Actors, RebuildImage(u) PROVE FileMade' /\ ContainersMade' /\ ServerMade'
  <2>1. step' = [step EXCEPT ![u] = "startUp"] /\ step'[u] = "startUp"
    BY <1>12, StepOf DEF RebuildImage, Advance
  <2>2. FileMade' /\ ServerMade'
    BY <1>2, <1>12, <2>1, FileStays, ServerStays DEF RebuildImage
  <2>. QED
    BY <2>1, <2>2 DEF ContainersMade
<1>13. ASSUME NEW u \in Actors, SetDebugWeb(u) PROVE FileMade' /\ ContainersMade' /\ ServerMade'
  <2>1. \E s \in {"idle", "restartWeb"} : step' = [step EXCEPT ![u] = s]
    BY <1>13 DEF SetDebugWeb, EndTask, Advance
  <2>2. FileMade' /\ ContainersMade'
    BY <1>2, <1>13, <2>1, FileStays, ContainersStay DEF SetDebugWeb
  <2>3. CASE procfile' = procfile
    BY <1>2, <1>13, <2>1, <2>2, <2>3, ServerStays DEF SetDebugWeb
  <2>4. CASE procfile' # procfile
    <3>1. step'[u] = "restartWeb"
      BY <1>13, <2>4, StepOf DEF SetDebugWeb, Advance
    <3>. QED
      BY <2>2, <3>1 DEF ServerMade
  <2>. QED
    BY <2>3, <2>4
<1>14. ASSUME NEW u \in Actors, RestartWeb(u) \/ RestartApps(u) PROVE FileMade' /\ ContainersMade' /\ ServerMade'
  <2>1. step' = [step EXCEPT ![u] = "idle"] /\ step[u] \in {"restartWeb", "restartApps"}
    BY <1>14 DEF RestartWeb, RestartApps, EndTask
  <2>2. FileMade' /\ ContainersMade'
    BY <1>2, <1>14, <2>1, FileStays, ContainersStay DEF RestartWeb, RestartApps
  <2>3. containers' = containers /\ procfile' = procfile /\ prod' = prod /\ (containers = Down \/ prod \/ server' = procfile)
    BY <1>14 DEF RestartWeb, RestartApps
  <2>. QED
    BY <2>2, <2>3 DEF ServerMade
<1>15. ASSUME NEW u \in Actors,
              Debugpy(u) \/ GetApp(u) \/ Install(u) \/ Assets(u) \/ SnapshotFirst(u) \/ LockRemove(u) \/ Uninstall(u) \/ RemoveCode(u)
       PROVE  FileMade' /\ ContainersMade' /\ ServerMade'
  <2>1. /\ step[u] \in {"debugpy", "get", "install", "assets", "snapshot", "lock", "uninstall", "removeCode"}
        /\ \E s \in RollSteps : step' = [step EXCEPT ![u] = s]
    BY <1>15 DEF Debugpy, GetApp, Install, Assets, SnapshotFirst, LockRemove, Uninstall, RemoveCode, AppStep,
                 EndTask, Advance, RollSteps, WithApp
  <2>2. UNCHANGED <<prod, rec, compose, containers, image, procfile, server, unapplied>>
    BY <1>15 DEF Debugpy, GetApp, Install, Assets, SnapshotFirst, LockRemove, Uninstall, RemoveCode, AppStep, World
  <2>. QED
    BY <1>2, <2>1, <2>2, FileStays, ContainersStay, ServerStays
<1>16. ASSUME NEW u \in Actors, RecordApp(u) PROVE FileMade' /\ ContainersMade' /\ ServerMade'
  <2>1. step' = [step EXCEPT ![u] = "restartApps"] /\ step[u] \in {"recordApp", "forgetApp"}
    BY <1>16 DEF RecordApp, Advance
  <2>2. RenderCompose(rec') = RenderCompose(rec)
    <3>1. PICK S : rec' = [rec EXCEPT !.apps = S]
      BY <1>16 DEF RecordApp
    <3>. QED
      BY <3>1, RenderIgnores DEF RollKnows, RollTypes
  <2>. QED
    BY <1>2, <1>16, <2>1, <2>2, FileStays, ContainersStay, ServerStays DEF RecordApp
<1>17. ASSUME NEW u \in Actors, TaskFails(u) \/ KillTask(u) PROVE FileMade' /\ ContainersMade' /\ ServerMade'
  <2>1. /\ step' = [step EXCEPT ![u] = "idle"] /\ step[u] \notin Promised /\ ~unapplied
        /\ UNCHANGED <<prod, rec, compose, image, procfile, server>>
    <3>1. CASE TaskFails(u)
      <4>1. unapplied' = (unapplied \/ step[u] \in Promised \/ containers' = Mixed)
        BY <3>1 DEF TaskFails
      <4>2. step[u] \notin Promised /\ ~unapplied
        BY <4>1
      <4>. QED
        BY <3>1, <4>2 DEF TaskFails, EndTask
    <3>2. CASE KillTask(u)
      <4>1. unapplied' = (unapplied \/ step[u] \in Promised)
        BY <3>2 DEF KillTask
      <4>2. step[u] \notin Promised /\ ~unapplied
        BY <4>1
      <4>. QED
        BY <3>2, <4>2 DEF KillTask, EndTask, World
    <3>. QED
      BY <1>17, <3>1, <3>2
  <2>2. containers' = containers
    BY <1>17 DEF TaskFails, KillTask, World
  <2>3. FileMade /\ ContainersMade /\ ServerMade
    BY <2>1 DEF Applied
  <2>. QED
    BY <2>1, <2>2, <2>3, FileStays, ContainersStay, ServerStays DEF Promised
<1>. QED
  BY <1>1, <1>3, <1>4, <1>5, <1>6, <1>7, <1>8, <1>9, <1>10, <1>11, <1>12, <1>13, <1>14, <1>15, <1>16, <1>17 DEF RolloutNext


\* An action of u that leaves the apps alone, and does not end the recording of one.
LEMMA AppsStay ==
  ASSUME RollKnows, AppsKept, NEW u \in Actors, ActsAlone(u),
         step'[u] \notin {"install", "assets", "recordApp", "removeCode", "forgetApp"},
         UNCHANGED <<fetched, installed>>, rec'.apps = rec.apps, unfinished \subseteq unfinished',
         step[u] \in {"assets", "recordApp", "forgetApp"} => job[u].app \in unfinished'
  PROVE  AppsKept'
<1>1. \A v \in Actors \ {u} : step'[v] = step[v] /\ job'[v] = job[v]
  BY AloneKnows
<1>2. \A v \in Actors : Reached(v)'
  BY <1>1 DEF AppsKept, Reached
<1>3. ASSUME NEW a \in Apps \ (unfinished' \cup Misnamed) PROVE AppKept(a)'
  BY <1>1, <1>3 DEF AppsKept, AppKept, Recording
<1>. QED
  BY <1>2, <1>3 DEF AppsKept

\* What an action of the one who works on the app a has to show.
LEMMA AppsMoved ==
  ASSUME RollKnows, AppsKept, NEW u \in Actors, ActsAlone(u), step[u] \in WithApp, Reached(u)',
         unfinished \subseteq unfinished' \cup {job[u].app},
         \A a \in Apps \ {job[u].app} : /\ a \in installed' <=> a \in installed
                                        /\ a \in rec'.apps <=> a \in rec.apps
                                        /\ a \in fetched' <=> a \in fetched,
         \A a \in {job[u].app} : a \notin unfinished' \cup Misnamed => AppKept(a)'
  PROVE  AppsKept'
<1>1. \A v \in Actors \ {u} : step'[v] = step[v] /\ job'[v] = job[v]
  BY AloneKnows
<1>2. \A v \in Actors \ {u} : step[v] \notin WithApp
  BY DEF RollKnows, RollKnown
<1>3. \A v \in Actors : Reached(v)'
  BY <1>1, <1>2 DEF Reached, WithApp
<1>4. ASSUME NEW a \in Apps \ (unfinished' \cup Misnamed) PROVE AppKept(a)'
  <2>1. CASE a = job[u].app
    BY <1>4, <2>1
  <2>2. CASE a # job[u].app
    <3>1. AppKept(a)
      BY <1>4, <2>2 DEF AppsKept
    <3>2. ~Recording(a)
      BY <1>2, <2>2 DEF Recording, WithApp
    <3>. QED
      BY <2>2, <3>1, <3>2 DEF AppKept
  <2>. QED
    BY <2>1, <2>2
<1>. QED
  BY <1>3, <1>4 DEF AppsKept

LEMMA AppsInit == RolloutInit => AppsKept
BY DEF RolloutInit, AppsKept, AppKept, Reached

\* Each action of the model keeps AppsKept.
LEMMA AppsKeptOn == RollKnows /\ AppsKept /\ [RolloutNext]_rvars => AppsKept'
<1>. SUFFICES ASSUME RollKnows, AppsKept, [RolloutNext]_rvars PROVE AppsKept'
  OBVIOUS
<1>. USE DEF Marks
<1>1. CASE UNCHANGED rvars
  BY <1>1 DEF AppsKept, AppKept, Recording, Reached, rvars
<1>2. ASSUME NEW u \in Actors, step[u] # "idle" 
      PROVE  job[u] \in Rollouts /\ read[u] \in RolledRecords /\ rec \in RolledRecords
  BY <1>2 DEF RollKnows, RollKnown, RollTypes
<1>3. ASSUME NEW u \in Actors, NEW t \in Rollouts, BeginTask(u, t) PROVE AppsKept'
  <2>1. /\ step' = [step EXCEPT ![u] = FirstStep(t)] /\ job' = [job EXCEPT ![u] = t] /\ read' = [read EXCEPT ![u] = rec]
        /\ locker' = locker \/ (locker = Nil /\ locker' = u)
        /\ step[u] = "idle" /\ UNCHANGED <<fetched, installed, rec, unfinished>>
    BY <1>3 DEF BeginTask, World
  <2>2. ActsAlone(u)
    BY <2>1, FirstKnows DEF ActsAlone, RollKnows, RollTypes
  <2>3. step'[u] = FirstStep(t)
    BY <2>1, StepOf
  <2>. QED
    BY <2>1, <2>2, <2>3, FirstKnows, AppsStay
<1>4. ASSUME NEW u \in Actors, RecordScale(u) \/ RecordDomain(u) \/ RecordBind(u) PROVE AppsKept'
  <2>1. /\ step' = [step EXCEPT ![u] = "write"] /\ step[u] \in {"recordScale", "recordDomain", "recordBind"}
        /\ UNCHANGED <<fetched, installed, unfinished, locker, job>>
    BY <1>4 DEF RecordScale, RecordDomain, RecordBind, RecordPart
  <2>2. rec'.apps = rec.apps
    BY <1>2, <1>4, <2>1 DEF RecordScale, RecordDomain, RecordBind, RecordPart, RolledRecords
  <2>3. /\ job' = [job EXCEPT ![u] = job[u]] /\ job[u] \in Rollouts
        /\ read' = [read EXCEPT ![u] = read'[u]] /\ read'[u] \in RolledRecords
    <3>1. job' = [job EXCEPT ![u] = job[u]] /\ job[u] \in Rollouts
      BY <1>2, <2>1 DEF RollKnows, RollTypes
    <3>2. RollKnows'
      BY RollKnowsKept
    <3>3. read'[u] \in RolledRecords
      BY <2>1, <3>2, StepOf DEF RollKnows, RollKnown
    <3>4. \E r : read' = [read EXCEPT ![u] = r]
      BY <1>4 DEF RecordScale, RecordDomain, RecordBind, RecordPart
    <3>. QED
      BY <3>1, <3>3, <3>4 DEF RollKnows, RollTypes
  <2>4. ActsAlone(u)
    BY <2>1, <2>3 DEF ActsAlone, RollSteps
  <2>. QED
    BY <2>1, <2>2, <2>4, StepOf, AppsStay
<1>5. ASSUME NEW u \in Actors, LookAtFile(u) PROVE AppsKept'
  <2>1. rec'.apps = rec.apps
    BY <1>2, <1>5 DEF LookAtFile, RolledRecords
  <2>2. ActsAlone(u) /\ step'[u] \in {"idle", "recordBind"}
    BY <1>5, EndKnows, AdvanceKnows DEF LookAtFile, RollSteps, WithApp
  <2>. QED
    BY <1>5, <2>1, <2>2, AppsStay DEF LookAtFile
<1>6. ASSUME NEW u \in Actors, Write(u) \/ RollOut(u) \/ RestartDevServer(u) \/ ComposeStart(u) \/ StartDev(u)
                 \/ ComposeStop(u) \/ RebuildImage(u) \/ Debugpy(u) \/ SetDebugWeb(u) \/ RestartWeb(u) \/ RestartApps(u) \/ SnapshotFirst(u)
       PROVE  AppsKept'
  <2>1. /\ UNCHANGED <<rec, fetched, installed, unfinished>>
        /\ step[u] \in {"write", "up", "restart", "startUp", "startDev", "stop", "build", "debugpy", "procfile", "restartWeb",
                        "restartApps", "snapshot"}
    BY <1>6 DEF Write, RollOut, RestartDevServer, ComposeStart, StartDev, ComposeStop, RebuildImage, Debugpy, SetDebugWeb,
                 RestartWeb, RestartApps, SnapshotFirst, World
  <2>2. \/ EndTask(u)
        \/ Advance(u, "lock") /\ step[u] = "snapshot"
        \/ \E s \in {"up", "restart", "startDev", "build", "startUp", "procfile", "restartWeb"} : Advance(u, s)
    BY <1>6 DEF Write, RollOut, RestartDevServer, ComposeStart, StartDev, ComposeStop, RebuildImage, Debugpy, SetDebugWeb,
                 RestartWeb, RestartApps, SnapshotFirst
  <2>3. ActsAlone(u) /\ step'[u] \notin WithApp
    BY <2>1, <2>2, EndKnows, AdvanceKnows DEF RollSteps, WithApp
  <2>. QED
    BY <2>1, <2>3, AppsStay DEF WithApp
<1>7. ASSUME NEW u \in Actors, LockRemove(u) PROVE AppsKept'
  <2>1. step[u] = "lock" /\ UNCHANGED <<fetched, installed, rec, unfinished>>
    BY <1>7 DEF LockRemove, World
  <2>2. CASE locker # Nil
    BY <1>7, <2>1, <2>2, EndKnows, AppsStay DEF LockRemove
  <2>3. CASE locker = Nil
    <3>1. /\ locker' = u /\ step' = [step EXCEPT ![u] = "uninstall"] /\ step'[u] = "uninstall"
          /\ job' = [job EXCEPT ![u] = job[u]] /\ read' = [read EXCEPT ![u] = read[u]]
          /\ job[u] \in Rollouts \cup {Nil} /\ read[u] \in RolledRecords \cup {Nil}
      BY <1>7, <2>3 DEF LockRemove, RollKnows, RollTypes
    <3>2. ActsAlone(u)
      BY <2>3, <3>1 DEF ActsAlone, RollSteps, WithApp
    <3>. QED
      BY <2>1, <3>1, <3>2, AppsStay
  <2>. QED
    BY <2>2, <2>3

\* The steps on an app: a leaves fetched or installed only while u is to record it.
<1>8. ASSUME NEW u \in Actors, step[u] \in WithApp
      PROVE  /\ job[u].app \in Apps /\ Reached(u)
             /\ job[u].app \notin unfinished \cup Misnamed => AppKept(job[u].app)
             /\ \A v \in Actors \ {u} : step[v] \notin WithApp
             /\ Recording(job[u].app) => step[u] \in {"assets", "recordApp", "forgetApp"}
  <2>1. job[u].app \in Apps
    <3>1. RollKnown(u) /\ step[u] # "idle"
      BY <1>8 DEF RollKnows, WithApp
    <3>2. job[u] \in Rollouts /\ job[u].kind \in {"addApp", "removeApp"}
      BY <1>8, <3>1 DEF RollKnown
    <3>. QED
      BY <3>2, TaskShape
  <2>2. \A v \in Actors \ {u} : step[v] \notin WithApp
    BY <1>8 DEF RollKnows, RollKnown
  <2>. QED
    BY <2>1, <2>2 DEF AppsKept, Recording, WithApp
<1>9. ASSUME NEW u \in Actors, GetApp(u) PROVE AppsKept'
  <2>1. /\ step[u] = "get" /\ fetched' = fetched \cup {job[u].app} /\ UNCHANGED <<rec, installed, unfinished, job>>
        /\ \E s \in {"install", "assets"} : Advance(u, s)
    BY <1>9 DEF GetApp, AppStep, Advance
  <2>2. ActsAlone(u) /\ step'[u] \in {"install", "assets"}
    BY <2>1, AdvanceKnows DEF RollSteps, WithApp
  <2>3. Reached(u)'
    BY <2>1, <2>2 DEF Reached
  <2>4. \A a \in {job[u].app} : a \notin unfinished' \cup Misnamed => AppKept(a)'
    BY <1>8, <2>1 DEF AppKept, WithApp
  <2>. QED
    BY <2>1, <2>2, <2>3, <2>4, AppsMoved DEF WithApp
<1>10. ASSUME NEW u \in Actors, Install(u) PROVE AppsKept'
  <2>1. /\ step[u] = "install" /\ installed' = installed \cup {job[u].app} /\ UNCHANGED <<rec, fetched, unfinished, job>>
        /\ Advance(u, "assets")
    BY <1>10 DEF Install, AppStep, Advance
  <2>2. ActsAlone(u) /\ step'[u] = "assets"
    BY <2>1, AdvanceKnows DEF RollSteps, WithApp
  <2>3. Reached(u)'
    BY <1>8, <2>1, <2>2 DEF Reached, WithApp
  <2>4. \A a \in {job[u].app} : AppKept(a)'
    BY <2>1, <2>2 DEF AppKept, Recording
  <2>. QED
    BY <2>1, <2>2, <2>3, <2>4, AppsMoved DEF WithApp
<1>11. ASSUME NEW u \in Actors, Assets(u) PROVE AppsKept'
  <2>1. step[u] = "assets" /\ UNCHANGED <<rec, fetched, installed, unfinished, job>> /\ Advance(u, "recordApp")
    BY <1>11 DEF Assets, AppStep, Advance
  <2>2. ActsAlone(u) /\ step'[u] = "recordApp"
    BY <2>1, AdvanceKnows DEF RollSteps, WithApp
  <2>3. Reached(u)'
    BY <1>8, <2>1, <2>2 DEF Reached, WithApp
  <2>4. \A a \in {job[u].app} : AppKept(a)'
    BY <2>1, <2>2 DEF AppKept, Recording
  <2>. QED
    BY <2>1, <2>2, <2>3, <2>4, AppsMoved DEF WithApp
<1>12. ASSUME NEW u \in Actors, RecordApp(u) PROVE AppsKept'
  <2>1. /\ step[u] \in {"recordApp", "forgetApp"} /\ unfinished' = unfinished \ {job[u].app}
        /\ UNCHANGED <<fetched, installed, job>> /\ Advance(u, "restartApps")
    BY <1>12 DEF RecordApp, Advance
  <2>2. ActsAlone(u) /\ step'[u] = "restartApps"
    BY <2>1, AdvanceKnows DEF RollSteps, WithApp
  <2>3. Reached(u)'
    BY <2>2 DEF Reached
  <2>4. rec'.apps = WithoutApp(rec.apps, job[u].app) \cup IF step[u] = "recordApp" THEN {job[u].app} ELSE {}
    BY <1>2, <1>12, <2>1 DEF RecordApp, RolledRecords
  <2>5. \A a \in {job[u].app} : a \notin Misnamed => AppKept(a)'
    <3>1. CASE step[u] = "recordApp"
      BY <1>8, <2>1, <2>4, <3>1 DEF AppKept, Reached, WithApp
    <3>2. CASE step[u] = "forgetApp"
      BY <1>8, <2>1, <2>4, <3>2 DEF AppKept, Reached, WithApp, WithoutApp
    <3>. QED
      BY <2>1, <3>1, <3>2
  <2>. QED
    BY <2>1, <2>2, <2>3, <2>4, <2>5, AppsMoved DEF WithApp, WithoutApp
<1>13. ASSUME NEW u \in Actors, Uninstall(u) PROVE AppsKept'
  <2>1. /\ step[u] = "uninstall" /\ installed' = installed \ {job[u].app} /\ UNCHANGED <<rec, fetched, unfinished, job>>
        /\ \E s \in {"removeCode", "forgetApp"} : Advance(u, s)
    BY <1>13 DEF Uninstall, AppStep, Advance
  <2>2. ActsAlone(u) /\ step'[u] \in {"removeCode", "forgetApp"}
    BY <2>1, AdvanceKnows DEF RollSteps, WithApp
  <2>3. Reached(u)'
    BY <2>1, <2>2 DEF Reached
  <2>4. \A a \in {job[u].app} : a \notin unfinished' \cup Misnamed => AppKept(a)'
    BY <1>8, <2>1 DEF AppKept, WithApp
  <2>. QED
    BY <2>1, <2>2, <2>3, <2>4, AppsMoved DEF WithApp
<1>14. ASSUME NEW u \in Actors, RemoveCode(u) PROVE AppsKept'
  <2>1. /\ step[u] = "removeCode" /\ fetched' = fetched \ {job[u].app} /\ UNCHANGED <<rec, installed, unfinished>>
    BY <1>14 DEF RemoveCode
  <2>2. CASE job[u].app \in fetched
    <3>1. ActsAlone(u) /\ step'[u] = "forgetApp" /\ job' = job
      BY <1>14, <2>1, <2>2, AdvanceKnows DEF RemoveCode, Advance, RollSteps, WithApp
    <3>2. Reached(u)'
      BY <1>8, <2>1, <3>1 DEF Reached, WithApp
    <3>3. \A a \in {job[u].app} : AppKept(a)'
      BY <3>1 DEF AppKept, Recording
    <3>. QED
      BY <2>1, <3>1, <3>2, <3>3, AppsMoved DEF WithApp
  <2>3. CASE job[u].app \notin fetched
    <3>1. fetched' = fetched
      BY <2>1, <2>3
    <3>. QED
      BY <1>14, <2>1, <2>3, <3>1, EndKnows, AppsStay DEF RemoveCode
  <2>. QED
    BY <2>2, <2>3
<1>15. ASSUME NEW u \in Actors, TaskFails(u) PROVE AppsKept'
  <2>1. ActsAlone(u) /\ step'[u] = "idle" /\ rec' = rec
    BY <1>15, EndKnows DEF TaskFails
  <2>2. CASE step[u] \in Inside
    <3>1. /\ unfinished' = unfinished \cup {job[u].app} /\ step[u] \in WithApp
          /\ fetched' \in {fetched, fetched \cup {job[u].app}} /\ installed' \in {installed, installed \cup {job[u].app}}
      BY <1>15, <2>2 DEF TaskFails, Inside, WithApp
    <3>2. Reached(u)'
      BY <2>1 DEF Reached
    <3>. QED
      BY <2>1, <3>1, <3>2, AppsMoved
  <2>3. CASE step[u] \notin Inside
    <3>1. UNCHANGED <<fetched, installed, unfinished>> /\ step[u] \notin {"assets", "recordApp", "forgetApp"}
      BY <1>15, <2>3 DEF TaskFails, Inside, CommandSteps
    <3>. QED
      BY <2>1, <3>1, AppsStay
  <2>. QED
    BY <2>2, <2>3
<1>16. ASSUME NEW u \in Actors, KillTask(u) PROVE AppsKept'
  <2>1. ActsAlone(u) /\ step'[u] = "idle" /\ UNCHANGED <<fetched, installed, rec>>
    BY <1>16, EndKnows DEF KillTask, World
  <2>2. unfinished' = IF step[u] \in Inside \cup {"recordApp", "forgetApp"} THEN unfinished \cup {job[u].app} ELSE unfinished
    BY <1>16 DEF KillTask
  <2>. QED
    BY <2>1, <2>2, AppsStay DEF Inside
<1>. QED
  BY <1>1, <1>3, <1>4, <1>5, <1>6, <1>7, <1>9, <1>10, <1>11, <1>12, <1>13, <1>14, <1>15, <1>16 DEF RolloutNext

-----------------------------------------------------------------------------
(* What follows for a bench *)

RollInv == RollKnows /\ Applied /\ AppsKept

LEMMA RollInvHolds == RolloutSpec => []RollInv
<1>1. RolloutInit => RollInv
  BY RollKnowsInit, AppliedInit, AppsInit DEF RollInv
<1>2. RollInv /\ [RolloutNext]_rvars => RollInv'
  BY RollKnowsKept, AppliedKept, AppsKeptOn DEF RollInv
<1>. QED
  BY <1>1, <1>2, PTL DEF RolloutSpec

\* A bench that nobody works on runs what its record says: docker-compose.yml is
\* rendered from it, the containers are made from that file, and the dev server
\* runs the web line of the Procfile, unless an error or a killed ffm came after
\* the last change (scale.go, reconcile.go, debug.go, restart.go): for any users,
\* operations and failures.
THEOREM RecordsRun == RolloutSpec => []RecordRuns
<1>1. RollInv => RecordRuns
  BY DEF RollInv, Applied, FileMade, ContainersMade, ServerMade, RecordRuns, AtRest
<1>. QED
  BY <1>1, RollInvHolds, PTL

\* The record of a bench names the apps of its site and none that is gone
\* (AppAdd and AppRemove, apps.go): for any users, apps and failures.
THEOREM AppsAreRecorded == RolloutSpec => []AppsRecorded
<1>1. ASSUME RollInv, NEW a \in Apps \ (unfinished \cup Misnamed),
             \A u \in Actors : job[u] # Nil /\ job[u].kind \in {"addApp", "removeApp"} => job[u].app # a
      PROVE  (a \in installed => a \in rec.apps) /\ (a \in rec.apps => a \in fetched)
  <2>1. ~Recording(a)
    <3>1. SUFFICES ASSUME NEW u \in Actors, step[u] \in {"assets", "recordApp", "forgetApp"}, job[u].app = a PROVE FALSE
      BY DEF Recording
    <3>2. job[u] \in Rollouts /\ job[u].kind \in {"addApp", "removeApp"}
      BY <1>1, <3>1 DEF RollInv, RollKnows, RollKnown, WithApp
    <3>. QED
      BY <1>1, <3>1, <3>2, TaskShape
  <2>. QED
    BY <1>1, <2>1 DEF RollInv, AppsKept, AppKept
<1>2. RollInv => AppsRecorded
  BY <1>1 DEF AppsRecorded
<1>. QED
  BY <1>2, RollInvHolds, PTL

-----------------------------------------------------------------------------
(* Worktrees: what a step of a command knows *)

\* The steps that have the lock of the bench of their branch.
Locked == {"attach", "mount", "setup", "undo", "backup", "gitRemove", "delete", "branch"}
WorkSteps  == {"idle", "clone", "gitAdd", "look"} \cup Locked

BranchStates == [local : BOOLEAN, remote : BOOLEAN, elsewhere : BOOLEAN, ahead : BOOLEAN,
                 by : {"none", "user", "ffm"}]
Records  == [linked : BOOLEAN, created : BOOLEAN, mounted : BOOLEAN, saved : BOOLEAN, there : BOOLEAN]
Commands == [pc : WorkSteps, f : Branches \cup {NoWorker}, local : BOOLEAN, remote : BOOLEAN, force : BOOLEAN,
             keep : BOOLEAN, delete : BOOLEAN, backup : BOOLEAN, created : BOOLEAN, exists : BOOLEAN]

TypeOK ==
  /\ checkout \in BOOLEAN
  /\ source \in {"none", "stopped", "running"}
  /\ branch \in [Branches -> BranchStates]
  /\ tree \in [Branches -> {"none", "foreign", "worktree"}]
  /\ files \in [Branches -> SUBSET {"copied", "edited"}]
  /\ bench \in [Branches -> Records]
  /\ wlock \in [Branches -> Workers \cup {NoWorker}]
  /\ proc \in [Workers -> Commands]
  /\ moves \in Nat
  /\ trouble \in Nat

\* What a step of p knows of its bench f and of the path of f.
Knows(p, f) ==
  /\ proc[p].pc \in Locked => wlock[f] = p
  /\ proc[p].pc \in {"mount", "setup"} => bench[f].linked
  /\ proc[p].pc = "setup" => bench[f].mounted
  /\ proc[p].pc \in {"attach", "mount", "setup"} /\ moves = 0 => tree[f] = "worktree"
  /\ proc[p].pc = "backup" /\ ~proc[p].exists /\ moves = 0 => tree[f] = "none"
  /\ proc[p].pc = "gitRemove" => ~proc[p].keep /\ (bench[f].there => bench[f].saved \/ ~proc[p].backup)
  /\ proc[p].pc \in {"delete", "branch"} /\ ~proc[p].keep /\ moves = 0 => tree[f] = "none"
  /\ proc[p].pc = "branch" => ~bench[f].there

StepKnows(p) == proc[p].pc # "idle" => proc[p].f \in Branches /\ Knows(p, proc[p].f)

WorkInv == TypeOK /\ \A p \in Workers : StepKnows(p)

-----------------------------------------------------------------------------
(* Worktrees: who disturbs whom *)

\* In an initial state no command is under way.
LEMMA InitWork == WorktreeInit => WorkInv
<1> SUFFICES ASSUME WorktreeInit PROVE WorkInv
  OBVIOUS
<1> USE DEF WorktreeInit
<1>1. NoBench \in Records /\ NoCommand \in Commands
  BY DEF NoBench, NoCommand, Records, Commands, WorkSteps
<1>2. branch \in [Branches -> BranchStates]
  <2> DEFINE first(l, r) == [local |-> l, remote |-> r, elsewhere |-> FALSE, ahead |-> FALSE,
                             by |-> IF l THEN "user" ELSE "none"]
  <2>1. \A l, r \in BOOLEAN : first(l, r) \in BranchStates
    BY DEF BranchStates
  <2>2. branch \in [Branches -> {first(l, r) : l \in BOOLEAN, r \in BOOLEAN}]
    OBVIOUS
  <2> HIDE DEF first
  <2> QED
    BY <2>1, <2>2
<1>3. TypeOK
  BY <1>1, <1>2 DEF TypeOK
<1>4. \A p \in Workers : proc[p].pc = "idle"
  BY DEF NoCommand
<1> QED
  BY <1>3, <1>4 DEF WorkInv, StepKnows

\* A command knows what it knew as long as its bench keeps its lock and its
\* record, and the path what is there unless the user moved.
LEMMA Stays ==
  ASSUME WorkInv, NEW q \in Workers, proc'[q] = proc[q], moves' = 0 => moves = 0,
         LET f == proc[q].f IN
           f \in Branches /\ wlock[f] = q => /\ wlock'[f] = q /\ bench'[f] = bench[f]
                                             /\ moves' = 0 => tree'[f] = tree[f]
  PROVE  StepKnows(q)'
<1>1. StepKnows(q)
  BY DEF WorkInv
<1> SUFFICES ASSUME proc[q].pc # "idle"
             PROVE  proc[q].f \in Branches /\ Knows(q, proc[q].f)'
  BY DEF StepKnows, Knows
<1>2. proc[q].f \in Branches /\ Knows(q, proc[q].f)
  BY <1>1 DEF StepKnows
<1> DEFINE f == proc[q].f
<1>3. CASE proc[q].pc \in Locked
  <2>1. wlock'[f] = q /\ bench'[f] = bench[f] /\ (moves' = 0 => tree'[f] = tree[f])
    BY <1>2, <1>3 DEF Knows
  <2> QED
    BY <1>2, <2>1 DEF Knows
<1>4. CASE proc[q].pc \notin Locked
  BY <1>2, <1>4 DEF Knows, Locked
<1> QED
  BY <1>3, <1>4

\* A step of p that takes and frees no lock but p's own, and changes a bench or
\* a path only if its lock is free or p's, disturbs no other command.
LEMMA OthersKnow ==
  ASSUME WorkInv, NEW p \in Workers, NoWorker \notin Workers, moves' = moves,
         \A q \in Workers \ {p} : proc'[q] = proc[q],
         \A f \in Branches : \/ wlock'[f] = wlock[f] /\ bench'[f] = bench[f] /\ tree'[f] = tree[f]
                             \/ wlock[f] \in {p, NoWorker}
  PROVE  \A q \in Workers \ {p} : StepKnows(q)'
<1> SUFFICES ASSUME NEW q \in Workers \ {p}
             PROVE  StepKnows(q)'
  OBVIOUS
<1> DEFINE f == proc[q].f
<1>1. f \in Branches /\ wlock[f] = q => wlock'[f] = q /\ bench'[f] = bench[f] /\ tree'[f] = tree[f]
  OBVIOUS
<1> QED
  BY <1>1, Stays

\* A command that returns leaves a process that knows nothing, and frees locks
\* of its own only.
LEMMA EndsOwn ==
  ASSUME TypeOK, NEW p \in Workers, Ends(p)
  PROVE  /\ proc' \in [Workers -> Commands] /\ proc'[p] = NoCommand /\ StepKnows(p)'
         /\ \A q \in Workers \ {p} : proc'[q] = proc[q]
         /\ wlock' \in [Branches -> Workers \cup {NoWorker}]
         /\ \A f \in Branches : wlock'[f] = wlock[f] \/ wlock[f] = p
<1>1. NoCommand \in Commands
  BY DEF NoCommand, Commands, WorkSteps
<1>2. proc' = [proc EXCEPT ![p] = NoCommand] /\ proc \in [Workers -> Commands]
  BY DEF Ends, TypeOK
<1>3. proc'[p] = NoCommand
  BY <1>2
<1>4. StepKnows(p)'
  BY <1>3 DEF StepKnows, NoCommand
<1>5. wlock' \in [Branches -> Workers \cup {NoWorker}] /\ \A f \in Branches : wlock'[f] = wlock[f] \/ wlock[f] = p
  BY DEF Ends, TypeOK
<1> QED
  BY <1>1, <1>2, <1>3, <1>4, <1>5

\* A command that goes on to another step keeps its branch and its flags.
LEMMA WorkGoesOn ==
  ASSUME TypeOK, NEW p \in Workers, NEW pc \in WorkSteps, Goes(p, pc)
  PROVE  /\ proc' \in [Workers -> Commands] /\ proc'[p] = [proc[p] EXCEPT !.pc = pc]
         /\ proc'[p].pc = pc /\ proc'[p].f = proc[p].f /\ proc'[p].keep = proc[p].keep
         /\ proc'[p].backup = proc[p].backup /\ proc'[p].exists = proc[p].exists
         /\ \A q \in Workers \ {p} : proc'[q] = proc[q]
<1>1. proc' = [proc EXCEPT ![p].pc = pc] /\ proc \in [Workers -> Commands]
  BY DEF Goes, TypeOK
<1>2. proc[p] \in Commands
  BY <1>1
<1>3. [proc[p] EXCEPT !.pc = pc] \in Commands
  BY <1>2 DEF Commands
<1> QED
  BY <1>1, <1>2, <1>3 DEF Commands

-----------------------------------------------------------------------------
(* worktree add *)

\* The look of an add takes nothing and changes no bench.
LEMMA AddCheckWork ==
  ASSUME WorkInv, NoWorker \notin Workers, NEW p \in Workers, NEW f \in Branches, AddCheck(p, f)
  PROVE  WorkInv'
<1> USE DEF AddCheck, repo
<1>1. PICK remote \in {FALSE, ~branch[f].local /\ branch[f].remote} :
        proc' = [proc EXCEPT ![p] = [NoCommand EXCEPT !.pc = "clone", !.f = f, !.local = branch[f].local,
                                                      !.remote = remote]]
  OBVIOUS
<1> DEFINE r == [NoCommand EXCEPT !.pc = "clone", !.f = f, !.local = branch[f].local, !.remote = remote]
<1>2. branch[f] \in BranchStates
  BY DEF WorkInv, TypeOK
<1>3. r \in Commands /\ r.pc = "clone" /\ r.f = f
  BY <1>2 DEF NoCommand, Commands, WorkSteps, BranchStates
<1>4. proc' = [proc EXCEPT ![p] = r] /\ proc \in [Workers -> Commands]
  BY <1>1 DEF WorkInv, TypeOK
<1> HIDE DEF r
<1>5. TypeOK'
  BY <1>3, <1>4 DEF WorkInv, TypeOK
<1>6. StepKnows(p)'
  BY <1>3, <1>4 DEF StepKnows, Knows, Locked
<1>7. \A q \in Workers \ {p} : StepKnows(q)'
  BY <1>4, OthersKnow
<1> QED
  BY <1>5, <1>6, <1>7 DEF WorkInv

\* The clone makes the bench of a branch whose lock is free.
LEMMA AddCloneWork ==
  ASSUME WorkInv, NoWorker \notin Workers, NEW p \in Workers, AddClone(p)
  PROVE  WorkInv'
<1> USE DEF AddClone, repo, IsAt
<1> DEFINE f == proc[p].f
<1>0. TypeOK /\ StepKnows(p)
  BY DEF WorkInv
<1>1. f \in Branches
  BY <1>0 DEF StepKnows
<1>2. CASE Ends(p) /\ bench' = bench /\ (trouble' = trouble \/ Trouble)
  <2>1. TypeOK'
    BY <1>0, <1>2, EndsOwn DEF TypeOK, Trouble
  <2>2. \A q \in Workers \ {p} : StepKnows(q)'
    BY <1>0, <1>2, EndsOwn, OthersKnow
  <2> QED
    BY <1>0, <1>2, <2>1, <2>2, EndsOwn DEF WorkInv
<1>3. CASE /\ wlock[f] = NoWorker
           /\ bench' = [bench EXCEPT ![f] = Cloned]
           /\ Goes(p, "gitAdd") /\ UNCHANGED <<wlock, trouble>>
  <2>1. "gitAdd" \in WorkSteps /\ "gitAdd" \notin Locked
    BY DEF WorkSteps, Locked
  <2>2. /\ proc' \in [Workers -> Commands] /\ proc'[p].pc = "gitAdd" /\ proc'[p].f = f
        /\ \A q \in Workers \ {p} : proc'[q] = proc[q]
    BY <1>0, <1>3, <2>1, WorkGoesOn
  <2>3. Cloned \in Records
    BY DEF Cloned, NoBench, Records
  <2>4. TypeOK'
    BY <1>0, <1>3, <2>2, <2>3 DEF TypeOK
  <2>5. StepKnows(p)'
    BY <1>1, <2>1, <2>2 DEF StepKnows, Knows
  <2>6. \A g \in Branches : \/ wlock'[g] = wlock[g] /\ bench'[g] = bench[g] /\ tree'[g] = tree[g]
                            \/ wlock[g] \in {p, NoWorker}
    BY <1>0, <1>3 DEF TypeOK
  <2>7. \A q \in Workers \ {p} : StepKnows(q)'
    BY <2>2, <2>6, OthersKnow
  <2> QED
    BY <2>4, <2>5, <2>7 DEF WorkInv
<1> QED
  BY <1>2, <1>3

\* git worktree add, under the lock it finds free.
LEMMA AddTreeWork ==
  ASSUME WorkInv, NoWorker \notin Workers, NEW p \in Workers, AddTree(p)
  PROVE  WorkInv'
<1> USE DEF AddTree, IsAt
<1> DEFINE f == proc[p].f
<1>0. TypeOK /\ StepKnows(p)
  BY DEF WorkInv
<1>1. f \in Branches
  BY <1>0 DEF StepKnows
<1>2. MakesBranch(f) \in BranchStates
  <2>1. branch[f] \in BranchStates
    BY <1>0, <1>1 DEF TypeOK
  <2> QED
    BY <2>1 DEF MakesBranch, BranchStates
<1>3. CASE wlock[f] # NoWorker /\ Ends(p) /\ UNCHANGED <<tree, branch, files, trouble>>
  <2>1. TypeOK'
    BY <1>0, <1>3, EndsOwn DEF TypeOK
  <2>2. \A q \in Workers \ {p} : StepKnows(q)'
    BY <1>0, <1>3, EndsOwn, OthersKnow
  <2> QED
    BY <1>0, <1>3, <2>1, <2>2, EndsOwn DEF WorkInv
<1>4. ASSUME wlock[f] = NoWorker, wlock' = [wlock EXCEPT ![f] = p], NEW pc \in {"attach", "undo"}, Goes(p, pc),
             branch' \in {branch, [branch EXCEPT ![f] = MakesBranch(f)]},
             \/ tree' = tree /\ files' = files /\ pc = "undo"
             \/ tree' = [tree EXCEPT ![f] = "worktree"] /\ \E copies \in Included : files' = [files EXCEPT ![f] = copies],
             trouble' = trouble \/ Trouble
      PROVE  WorkInv'
  <2>1. pc \in WorkSteps
    BY DEF WorkSteps, Locked
  <2>2. /\ proc' \in [Workers -> Commands] /\ proc'[p].pc = pc /\ proc'[p].f = f
        /\ \A q \in Workers \ {p} : proc'[q] = proc[q]
    BY <1>0, <1>4, <2>1, WorkGoesOn
  <2>3. branch' \in [Branches -> BranchStates] /\ wlock' \in [Branches -> Workers \cup {NoWorker}]
    <3> DEFINE made == MakesBranch(f)
    <3>1. branch \in [Branches -> BranchStates] /\ wlock \in [Branches -> Workers \cup {NoWorker}]
      BY <1>0 DEF TypeOK
    <3>2. made \in BranchStates /\ branch' \in {branch, [branch EXCEPT ![f] = made]}
      BY <1>2, <1>4
    <3> HIDE DEF made
    <3>3. branch' \in [Branches -> BranchStates]
      BY <3>1, <3>2
    <3>4. wlock' = [wlock EXCEPT ![f] = p]
      BY <1>4
    <3>5. wlock' \in [Branches -> Workers \cup {NoWorker}]
      BY <3>1, <3>4
    <3> QED
      BY <3>3, <3>5
  <2>4. tree' \in [Branches -> {"none", "foreign", "worktree"}]
    BY <1>0, <1>4 DEF TypeOK
  <2>5. files' \in [Branches -> SUBSET {"copied", "edited"}]
    <3>1. files \in [Branches -> SUBSET {"copied", "edited"}]
      BY <1>0 DEF TypeOK
    <3>2. CASE \E copies \in Included : files' = [files EXCEPT ![f] = copies]
      <4>1. PICK copies \in SUBSET {"copied", "edited"} : files' = [files EXCEPT ![f] = copies]
        BY <3>2 DEF Included
      <4> QED
        BY <3>1, <4>1
    <3> QED
      BY <1>4, <3>1, <3>2
  <2>6. TypeOK'
    BY <1>0, <1>4, <2>2, <2>3, <2>4, <2>5 DEF TypeOK, Trouble
  <2>7. StepKnows(p)'
    BY <1>0, <1>1, <1>4, <2>2 DEF StepKnows, Knows, Locked, TypeOK
  <2>8. \A g \in Branches : \/ wlock'[g] = wlock[g] /\ bench'[g] = bench[g] /\ tree'[g] = tree[g]
                            \/ wlock[g] \in {p, NoWorker}
    BY <1>0, <1>4 DEF TypeOK
  <2>9. \A q \in Workers \ {p} : StepKnows(q)'
    BY <2>2, <2>8, OthersKnow
  <2> QED
    BY <2>6, <2>7, <2>9 DEF WorkInv
<1> QED
  BY <1>3, <1>4

-----------------------------------------------------------------------------
(* Worktrees: steps under the lock *)

\* What a step under the lock may change: the bench and the path of its branch.
OwnOnly(p) ==
  /\ moves' = moves /\ checkout' = checkout /\ source' = source
  /\ trouble' = trouble \/ Trouble
  /\ branch' \in [Branches -> BranchStates]
  /\ tree' \in [Branches -> {"none", "foreign", "worktree"}]
  /\ files' \in [Branches -> SUBSET {"copied", "edited"}]
  /\ bench' \in [Branches -> Records]
  /\ \A g \in Branches \ {proc[p].f} : bench'[g] = bench[g] /\ tree'[g] = tree[g]

\* A command that returns from a step under its lock keeps the invariant.
LEMMA OwnEnds ==
  ASSUME WorkInv, NoWorker \notin Workers, NEW p \in Workers, proc[p].pc \in Locked, OwnOnly(p), Ends(p)
  PROVE  WorkInv'
<1>0. TypeOK /\ wlock[proc[p].f] = p
  BY DEF WorkInv, StepKnows, Knows, Locked
<1>1. /\ proc' \in [Workers -> Commands] /\ StepKnows(p)'
      /\ \A q \in Workers \ {p} : proc'[q] = proc[q]
      /\ wlock' \in [Branches -> Workers \cup {NoWorker}]
      /\ \A g \in Branches : wlock'[g] = wlock[g] \/ wlock[g] = p
  BY <1>0, EndsOwn
<1>2. TypeOK'
  BY <1>0, <1>1 DEF TypeOK, OwnOnly, Trouble
<1>3. \A g \in Branches : \/ wlock'[g] = wlock[g] /\ bench'[g] = bench[g] /\ tree'[g] = tree[g]
                          \/ wlock[g] \in {p, NoWorker}
  BY <1>0, <1>1 DEF OwnOnly
<1>4. \A q \in Workers \ {p} : StepKnows(q)'
  BY <1>1, <1>3, OthersKnow DEF OwnOnly
<1> QED
  BY <1>1, <1>2, <1>4 DEF WorkInv

\* A command that goes on under its lock keeps the invariant if the next step
\* knows what it should.
LEMMA OwnGoes ==
  ASSUME WorkInv, NoWorker \notin Workers, NEW p \in Workers, proc[p].pc \in Locked, OwnOnly(p),
         NEW pc \in WorkSteps, Goes(p, pc), wlock' = wlock, StepKnows(p)'
  PROVE  WorkInv'
<1>0. TypeOK /\ wlock[proc[p].f] = p
  BY DEF WorkInv, StepKnows, Knows, Locked
<1>1. proc' \in [Workers -> Commands] /\ \A q \in Workers \ {p} : proc'[q] = proc[q]
  BY <1>0, WorkGoesOn
<1>2. TypeOK'
  BY <1>0, <1>1 DEF TypeOK, OwnOnly, Trouble
<1>3. \A g \in Branches : \/ wlock'[g] = wlock[g] /\ bench'[g] = bench[g] /\ tree'[g] = tree[g]
                          \/ wlock[g] \in {p, NoWorker}
  BY <1>0, <1>1 DEF OwnOnly
<1>4. \A q \in Workers \ {p} : StepKnows(q)'
  BY <1>1, <1>3, OthersKnow DEF OwnOnly
<1> QED
  BY <1>2, <1>4 DEF WorkInv

\* The link of the record to its worktree, under the lock.
LEMMA AttachWork ==
  ASSUME WorkInv, NoWorker \notin Workers, NEW p \in Workers, Attach(p)
  PROVE  WorkInv'
<1> USE DEF Attach, IsAt, repo
<1> DEFINE f == proc[p].f
<1>0. TypeOK /\ StepKnows(p)
  BY DEF WorkInv
<1>1. f \in Branches /\ wlock[f] = p /\ (moves = 0 => tree[f] = "worktree") /\ proc[p].pc \in Locked
  BY <1>0 DEF StepKnows, Knows, Locked
<1>2. "mount" \in WorkSteps /\ "undo" \in WorkSteps
  BY DEF WorkSteps, Locked
<1>3. CASE bench' = [bench EXCEPT ![f].linked = TRUE, ![f].created = ~proc[p].local]
           /\ Goes(p, "mount") /\ UNCHANGED trouble
  <2>1. proc[p].local \in BOOLEAN /\ bench \in [Branches -> Records]
    BY <1>0 DEF TypeOK, Commands
  <2>2. bench' \in [Branches -> Records] /\ bench'[f].linked /\ \A g \in Branches \ {f} : bench'[g] = bench[g]
    <3> DEFINE new == ~proc[p].local
               r == [[bench[f] EXCEPT !.linked = TRUE] EXCEPT !.created = new]
    <3>1. bench[f] \in Records /\ new \in BOOLEAN
      BY <1>1, <2>1
    <3>2. r \in Records /\ r.linked
      BY <3>1, Zenon DEF Records
    <3>3. bench' = [bench EXCEPT ![f].linked = TRUE, ![f].created = new]
      BY <1>3
    <3> HIDE DEF new
    <3>4. bench' = [g \in Branches |-> IF g = f THEN r ELSE bench[g]]
      BY <1>1, <2>1, <3>1, <3>3 DEF Records
    <3> HIDE DEF r
    <3> QED
      BY <1>1, <2>1, <3>2, <3>4
  <2>3. OwnOnly(p)
    BY <1>0, <1>3, <2>2 DEF OwnOnly, TypeOK
  <2>4. proc'[p].pc = "mount" /\ proc'[p].f = f
    BY <1>0, <1>2, <1>3, WorkGoesOn
  <2>5. StepKnows(p)'
    BY <1>1, <2>2, <2>4 DEF StepKnows, Knows, Locked
  <2> QED
    BY <1>1, <1>2, <1>3, <2>3, <2>5, OwnGoes
<1>4. CASE Goes(p, "undo") /\ bench' = bench /\ (trouble' = trouble \/ Trouble)
  <2>1. OwnOnly(p)
    BY <1>0, <1>4 DEF OwnOnly, TypeOK
  <2>2. proc'[p].pc = "undo" /\ proc'[p].f = f
    BY <1>0, <1>2, <1>4, WorkGoesOn
  <2>3. StepKnows(p)'
    BY <1>1, <2>2 DEF StepKnows, Knows, Locked
  <2> QED
    BY <1>1, <1>2, <1>4, <2>1, <2>3, OwnGoes
<1> QED
  BY <1>3, <1>4

\* The containers with the mount.
LEMMA MountWork ==
  ASSUME WorkInv, NoWorker \notin Workers, NEW p \in Workers, Mount(p)
  PROVE  WorkInv'
<1> USE DEF Mount, IsAt, repo
<1> DEFINE f == proc[p].f
<1>0. TypeOK /\ StepKnows(p)
  BY DEF WorkInv
<1>1. /\ f \in Branches /\ wlock[f] = p /\ (moves = 0 => tree[f] = "worktree") /\ proc[p].pc \in Locked
      /\ bench[f].linked
  BY <1>0 DEF StepKnows, Knows, Locked
<1>2. "setup" \in WorkSteps /\ "undo" \in WorkSteps
  BY DEF WorkSteps, Locked
<1>3. CASE bench' = [bench EXCEPT ![f].mounted = TRUE] /\ Goes(p, "setup") /\ UNCHANGED trouble
  <2>1. bench \in [Branches -> Records]
    BY <1>0 DEF TypeOK
  <2>2. /\ bench' \in [Branches -> Records] /\ bench'[f].linked /\ bench'[f].mounted
        /\ \A g \in Branches \ {f} : bench'[g] = bench[g]
    BY <1>1, <1>3, <2>1 DEF Records
  <2>3. OwnOnly(p)
    BY <1>0, <1>3, <2>2 DEF OwnOnly, TypeOK
  <2>4. proc'[p].pc = "setup" /\ proc'[p].f = f
    BY <1>0, <1>2, <1>3, WorkGoesOn
  <2>5. StepKnows(p)'
    BY <1>1, <2>2, <2>4 DEF StepKnows, Knows, Locked
  <2> QED
    BY <1>1, <1>2, <1>3, <2>3, <2>5, OwnGoes
<1>4. CASE Goes(p, "undo") /\ bench' = bench /\ (trouble' = trouble \/ Trouble)
  <2>1. OwnOnly(p)
    BY <1>0, <1>4 DEF OwnOnly, TypeOK
  <2>2. proc'[p].pc = "undo" /\ proc'[p].f = f
    BY <1>0, <1>2, <1>4, WorkGoesOn
  <2>3. StepKnows(p)'
    BY <1>1, <2>2 DEF StepKnows, Knows, Locked
  <2> QED
    BY <1>1, <1>2, <1>4, <2>1, <2>3, OwnGoes
<1> QED
  BY <1>3, <1>4

\* The set-up of the mounted app: done, or to be undone.
LEMMA SetupWork ==
  ASSUME WorkInv, NoWorker \notin Workers, NEW p \in Workers, Setup(p)
  PROVE  WorkInv'
<1> USE DEF Setup, IsAt, repo
<1>0. TypeOK /\ StepKnows(p)
  BY DEF WorkInv
<1>1. proc[p].f \in Branches /\ wlock[proc[p].f] = p /\ proc[p].pc \in Locked /\ "undo" \in WorkSteps
  BY <1>0 DEF StepKnows, Knows, Locked, WorkSteps
<1>2. OwnOnly(p)
  BY <1>0 DEF OwnOnly, TypeOK
<1>3. CASE Ends(p)
  BY <1>1, <1>2, <1>3, OwnEnds
<1>4. CASE Goes(p, "undo") /\ UNCHANGED wlock
  <2>1. proc'[p].pc = "undo" /\ proc'[p].f = proc[p].f
    BY <1>0, <1>1, <1>4, WorkGoesOn
  <2>2. StepKnows(p)'
    BY <1>1, <1>4, <2>1 DEF StepKnows, Knows, Locked
  <2> QED
    BY <1>1, <1>2, <1>4, <2>2, OwnGoes
<1> QED
  BY <1>3, <1>4

\* The undoing of an add.
LEMMA UndoWork ==
  ASSUME WorkInv, NoWorker \notin Workers, NEW p \in Workers, Undo(p)
  PROVE  WorkInv'
<1> USE DEF Undo, IsAt, repo
<1>0. TypeOK /\ StepKnows(p)
  BY DEF WorkInv
<1>1. proc[p].f \in Branches /\ proc[p].pc \in Locked /\ NoBench \in Records
  BY <1>0 DEF StepKnows, Knows, Locked, NoBench, Records
<1>2. bench' \in [Branches -> Records] /\ \A g \in Branches \ {proc[p].f} : bench'[g] = bench[g]
  BY <1>0, <1>1 DEF TypeOK
<1>3. OwnOnly(p)
  BY <1>0, <1>2 DEF OwnOnly, TypeOK
<1> QED
  BY <1>1, <1>3, OwnEnds

-----------------------------------------------------------------------------
(* worktree remove *)

\* Finding the record takes nothing and changes no bench.
LEMMA ResolveWork ==
  ASSUME WorkInv, NoWorker \notin Workers, NEW p \in Workers, NEW f \in Branches, Resolve(p, f)
  PROVE  WorkInv'
<1> USE DEF Resolve, repo
<1> DEFINE r(force, keep, delete, backup, created) ==
             [NoCommand EXCEPT !.pc = "look", !.f = f, !.force = force, !.keep = keep, !.delete = delete,
                               !.backup = backup, !.created = created]
<1>1. PICK force, keep, delete, backup, created \in BOOLEAN :
        proc' = [proc EXCEPT ![p] = r(force, keep, delete, backup, created)]
  <2>1. PICK flags \in Flags :
          proc' = [proc EXCEPT ![p] = r("force" \in flags, "keep" \in flags, "delete" \in flags,
                                        "nobackup" \notin flags, bench[f].created)]
    OBVIOUS
  <2>2. bench[f].created \in BOOLEAN
    BY DEF WorkInv, TypeOK, Records
  <2>3. /\ ("force" \in flags) \in BOOLEAN /\ ("keep" \in flags) \in BOOLEAN
        /\ ("delete" \in flags) \in BOOLEAN /\ ("nobackup" \notin flags) \in BOOLEAN
    OBVIOUS
  <2> HIDE DEF r
  <2> QED
    BY <2>1, <2>2, <2>3, Zenon
<1> DEFINE s == r(force, keep, delete, backup, created)
<1>3. s \in Commands /\ s.pc = "look" /\ s.f = f
  BY DEF NoCommand, Commands, WorkSteps
<1>4. proc' = [proc EXCEPT ![p] = s] /\ proc \in [Workers -> Commands]
  BY <1>1 DEF WorkInv, TypeOK
<1> HIDE DEF s
<1>5. TypeOK'
  BY <1>3, <1>4 DEF WorkInv, TypeOK
<1>6. StepKnows(p)'
  BY <1>3, <1>4 DEF StepKnows, Knows, Locked
<1>7. \A q \in Workers \ {p} : StepKnows(q)'
  BY <1>4, OthersKnow
<1> QED
  BY <1>5, <1>6, <1>7 DEF WorkInv

\* The look takes the lock it finds free, and notes what is at the path.
LEMMA LookWork ==
  ASSUME WorkInv, NoWorker \notin Workers, NEW p \in Workers, Look(p)
  PROVE  WorkInv'
<1> USE DEF Look, repo, IsAt
<1> DEFINE f == proc[p].f
           there == tree[f] # "none"
           r == [[proc[p] EXCEPT !.pc = "backup"] EXCEPT !.exists = there]
<1>0. TypeOK /\ StepKnows(p)
  BY DEF WorkInv
<1>1. f \in Branches
  BY <1>0 DEF StepKnows
<1>2. CASE Ends(p)
  <2>1. TypeOK'
    BY <1>0, <1>2, EndsOwn DEF TypeOK
  <2>2. \A q \in Workers \ {p} : StepKnows(q)'
    BY <1>0, <1>2, EndsOwn, OthersKnow
  <2> QED
    BY <1>0, <1>2, <2>1, <2>2, EndsOwn DEF WorkInv
<1>3. CASE /\ wlock[f] = NoWorker /\ wlock' = [wlock EXCEPT ![f] = p]
           /\ proc' = [proc EXCEPT ![p].pc = "backup", ![p].exists = there]
  <2>1. proc[p] \in Commands /\ proc \in [Workers -> Commands] /\ there \in BOOLEAN /\ wlock \in [Branches -> Workers \cup {NoWorker}]
    BY <1>0 DEF TypeOK
  <2>2. r \in Commands
    <3>1. "backup" \in WorkSteps
      BY DEF WorkSteps, Locked
    <3> QED
      BY <2>1, <3>1, Zenon DEF Commands
  <2>3. r.pc = "backup" /\ r.f = f /\ r.exists = there
    BY <2>1 DEF Commands
  <2> HIDE DEF there
  <2>4. proc' = [q \in Workers |-> IF q = p THEN r ELSE proc[q]]
    BY <1>3, <2>1 DEF Commands
  <2> HIDE DEF r
  <2>5. TypeOK'
    <3>1. proc' \in [Workers -> Commands]
      BY <2>1, <2>2, <2>4
    <3>2. wlock' \in [Branches -> Workers \cup {NoWorker}]
      BY <1>1, <1>3, <2>1
    <3>3. UNCHANGED <<checkout, source, branch, tree, files, bench, moves, trouble>>
      OBVIOUS
    <3> QED
      BY <1>0, <3>1, <3>2, <3>3 DEF TypeOK
  <2>6. moves = 0 /\ ~there => tree[f] = "none"
    BY DEF there
  <2>7. proc'[p] = r /\ wlock'[f] = p
    BY <1>1, <1>3, <2>1, <2>4
  <2>8. StepKnows(p)'
    BY <1>1, <2>3, <2>6, <2>7 DEF StepKnows, Knows, Locked
  <2>9. \A g \in Branches : wlock'[g] = wlock[g] \/ wlock[g] = NoWorker
    BY <1>3, <2>1
  <2>10. \A q \in Workers \ {p} : proc'[q] = proc[q]
    BY <2>4
  <2>11. \A q \in Workers \ {p} : StepKnows(q)'
    BY <2>9, <2>10, OthersKnow
  <2> QED
    BY <2>5, <2>8, <2>11 DEF WorkInv
<1> QED
  BY <1>2, <1>3

\* The backup of the bench, if asked for and if there is a bench.
LEMMA BackupWork ==
  ASSUME WorkInv, NoWorker \notin Workers, NEW p \in Workers, BackUpFirst(p)
  PROVE  WorkInv'
<1> USE DEF BackUpFirst, IsAt, repo
<1> DEFINE f == proc[p].f
<1>0. TypeOK /\ StepKnows(p)
  BY DEF WorkInv
<1>1. /\ f \in Branches /\ wlock[f] = p /\ proc[p].pc \in Locked
      /\ ~proc[p].exists /\ moves = 0 => tree[f] = "none"
  BY <1>0 DEF StepKnows, Knows, Locked
<1>2. CASE Ends(p) /\ Trouble /\ bench' = bench
  <2>1. OwnOnly(p)
    BY <1>0, <1>2 DEF OwnOnly, TypeOK
  <2> QED
    BY <1>1, <1>2, <2>1, OwnEnds
<1>3. CASE /\ bench' = IF proc[p].backup /\ bench[f].there THEN [bench EXCEPT ![f].saved = TRUE] ELSE bench
           /\ Goes(p, IF ~proc[p].keep /\ proc[p].exists THEN "gitRemove" ELSE "delete")
           /\ UNCHANGED <<wlock, trouble>>
  <2> DEFINE next == IF ~proc[p].keep /\ proc[p].exists THEN "gitRemove" ELSE "delete"
  <2>1. bench \in [Branches -> Records] /\ next \in WorkSteps
    BY <1>0 DEF TypeOK, WorkSteps, Locked
  <2>2. /\ bench' \in [Branches -> Records] /\ \A g \in Branches \ {f} : bench'[g] = bench[g]
        /\ bench'[f].there => bench'[f].saved \/ ~proc[p].backup
    BY <1>1, <1>3, <2>1 DEF Records
  <2>3. OwnOnly(p)
    BY <1>0, <1>3, <2>2 DEF OwnOnly, TypeOK
  <2>4. /\ proc'[p].pc = next /\ proc'[p].f = f /\ proc'[p].keep = proc[p].keep
        /\ proc'[p].backup = proc[p].backup /\ proc'[p].exists = proc[p].exists
    BY <1>0, <1>3, <2>1, WorkGoesOn
  <2>5. StepKnows(p)'
    BY <1>1, <1>3, <2>2, <2>4 DEF StepKnows, Knows, Locked
  <2> QED
    BY <1>1, <1>3, <2>1, <2>3, <2>5, OwnGoes
<1> QED
  BY <1>2, <1>3

\* git worktree remove takes the worktree, or refuses.
LEMMA RemoveTreeWork ==
  ASSUME WorkInv, NoWorker \notin Workers, NEW p \in Workers, RemoveTree(p)
  PROVE  WorkInv'
<1> USE DEF RemoveTree, IsAt
<1> DEFINE f == proc[p].f
<1>0. TypeOK /\ StepKnows(p)
  BY DEF WorkInv
<1>1. f \in Branches /\ wlock[f] = p /\ proc[p].pc \in Locked /\ "delete" \in WorkSteps
  BY <1>0 DEF StepKnows, Knows, Locked, WorkSteps
<1>2. CASE Ends(p) /\ tree' = tree /\ files' = files /\ (trouble' = trouble \/ Trouble)
  <2>1. OwnOnly(p)
    BY <1>0, <1>2 DEF OwnOnly, TypeOK
  <2> QED
    BY <1>1, <1>2, <2>1, OwnEnds
<1>3. CASE /\ tree' = [tree EXCEPT ![f] = "none"] /\ files' = [files EXCEPT ![f] = {}]
           /\ Goes(p, "delete") /\ UNCHANGED <<wlock, trouble>>
  <2>1. OwnOnly(p)
    BY <1>0, <1>3 DEF OwnOnly, TypeOK
  <2>2. proc'[p].pc = "delete" /\ proc'[p].f = f /\ tree'[f] = "none"
    BY <1>0, <1>1, <1>3, WorkGoesOn DEF TypeOK
  <2>3. StepKnows(p)'
    BY <1>1, <1>3, <2>2 DEF StepKnows, Knows, Locked
  <2> QED
    BY <1>1, <1>3, <2>1, <2>3, OwnGoes
<1> QED
  BY <1>2, <1>3

\* The bench goes after the worktree.
LEMMA DeleteBenchWork ==
  ASSUME WorkInv, NoWorker \notin Workers, NEW p \in Workers, DeleteBench(p)
  PROVE  WorkInv'
<1> USE DEF DeleteBench, IsAt, repo
<1> DEFINE f == proc[p].f
<1>0. TypeOK /\ StepKnows(p)
  BY DEF WorkInv
<1>1. /\ f \in Branches /\ wlock[f] = p /\ proc[p].pc \in Locked /\ "branch" \in WorkSteps
      /\ ~proc[p].keep /\ moves = 0 => tree[f] = "none"
  BY <1>0 DEF StepKnows, Knows, Locked, WorkSteps
<1>2. CASE Ends(p) /\ bench' = bench /\ (trouble' = trouble \/ Trouble)
  <2>1. OwnOnly(p)
    BY <1>0, <1>2 DEF OwnOnly, TypeOK
  <2> QED
    BY <1>1, <1>2, <2>1, OwnEnds
<1>3. CASE bench' = [bench EXCEPT ![f] = NoBench] /\ Goes(p, "branch") /\ UNCHANGED <<wlock, trouble>>
  <2>1. NoBench \in Records /\ ~NoBench.there
    BY DEF NoBench, Records
  <2>2. bench' \in [Branches -> Records] /\ ~bench'[f].there /\ \A g \in Branches \ {f} : bench'[g] = bench[g]
    BY <1>0, <1>1, <1>3, <2>1 DEF TypeOK
  <2>3. OwnOnly(p)
    BY <1>0, <1>3, <2>2 DEF OwnOnly, TypeOK
  <2>4. proc'[p].pc = "branch" /\ proc'[p].f = f /\ proc'[p].keep = proc[p].keep
    BY <1>0, <1>1, <1>3, WorkGoesOn
  <2>5. StepKnows(p)'
    BY <1>1, <1>3, <2>2, <2>4 DEF StepKnows, Knows, Locked
  <2> QED
    BY <1>1, <1>3, <2>3, <2>5, OwnGoes
<1> QED
  BY <1>2, <1>3

\* The branch goes last, if git agrees.
LEMMA DeleteBranchWork ==
  ASSUME WorkInv, NoWorker \notin Workers, NEW p \in Workers, DeleteBranch(p)
  PROVE  WorkInv'
<1> USE DEF DeleteBranch, IsAt
<1> DEFINE f == proc[p].f
<1>0. TypeOK /\ StepKnows(p)
  BY DEF WorkInv
<1>1. proc[p].pc \in Locked /\ f \in Branches
  BY <1>0 DEF Locked, StepKnows
<1>2. branch' \in [Branches -> BranchStates]
  <2>1. branch \in [Branches -> BranchStates] /\ branch[f] \in BranchStates
    BY <1>0, <1>1 DEF TypeOK
  <2>2. CASE branch' = [branch EXCEPT ![f].local = FALSE, ![f].by = "none"]
    <3> DEFINE r == [[branch[f] EXCEPT !.local = FALSE] EXCEPT !.by = "none"]
    <3>1. r \in BranchStates
      BY <2>1, Zenon DEF BranchStates
    <3>2. branch' = [g \in Branches |-> IF g = f THEN r ELSE branch[g]]
      BY <2>1, <2>2 DEF BranchStates
    <3> HIDE DEF r
    <3> QED
      BY <2>1, <3>1, <3>2
  <2> QED
    BY <2>1, <2>2
<1>3. OwnOnly(p)
  BY <1>0, <1>2 DEF OwnOnly, TypeOK
<1> QED
  BY <1>1, <1>3, OwnEnds

\* A killed command gives its locks back.
LEMMA KilledWork ==
  ASSUME WorkInv, NoWorker \notin Workers, NEW p \in Workers, Killed(p)
  PROVE  WorkInv'
<1> USE DEF Killed, repo
<1>0. TypeOK
  BY DEF WorkInv
<1>1. TypeOK'
  BY <1>0, EndsOwn DEF TypeOK, Trouble
<1>2. \A q \in Workers \ {p} : StepKnows(q)'
  BY <1>0, EndsOwn, OthersKnow
<1> QED
  BY <1>0, <1>1, <1>2, EndsOwn DEF WorkInv

-----------------------------------------------------------------------------
(* Worktrees: the user *)

\* Whatever the user does leaves the commands and their locks, and a bench only
\* the user's own 'ffm delete' changes, which waits for the lock.
LEMMA UserWork ==
  ASSUME WorkInv, NoWorker \notin Workers, TypeOK', UNCHANGED <<proc, wlock>>,
         moves' = 0 => moves = 0 /\ tree' = tree,
         \A f \in Branches : bench'[f] = bench[f] \/ wlock[f] = NoWorker
  PROVE  WorkInv'
<1> SUFFICES ASSUME NEW p \in Workers PROVE StepKnows(p)'
  BY DEF WorkInv
<1> QED
  BY Stays

\* A field of one branch changes, the rest of the branches stays as it is.
LEMMA BranchKept ==
  ASSUME TypeOK, NEW f \in Branches, NEW r \in BranchStates, branch' = [branch EXCEPT ![f] = r]
  PROVE  branch' \in [Branches -> BranchStates]
BY DEF TypeOK

\* The moves of the user keep the types.
LEMMA MovesType ==
  ASSUME TypeOK, NEW f \in Branches,
         Edit(f) \/ Commit(f) \/ Merge(f) \/ Occupy(f) \/ OwnBranch(f) \/ Delete(f)
  PROVE  TypeOK' /\ moves' # 0
<1>0. moves' = moves + 1 /\ moves' \in Nat /\ moves' # 0
  BY DEF TypeOK, Edit, Commit, Merge, Occupy, OwnBranch, Delete, Moves
<1>1. branch[f] \in BranchStates /\ files[f] \in SUBSET {"copied", "edited"}
  BY DEF TypeOK
<1>2. CASE Edit(f)
  <2>1. files' \in [Branches -> SUBSET {"copied", "edited"}]
    BY <1>1, <1>2 DEF Edit, TypeOK
  <2> QED
    BY <1>0, <1>2, <2>1 DEF Edit, TypeOK
<1>3. CASE Commit(f)
  <2>1. files' \in [Branches -> SUBSET {"copied", "edited"}]
    BY <1>3 DEF Commit, TypeOK
  <2>2. branch' \in [Branches -> BranchStates]
    BY <1>1, <1>3 DEF Commit, TypeOK, BranchStates
  <2> QED
    BY <1>0, <1>3, <2>1, <2>2 DEF Commit, TypeOK
<1>4. CASE Merge(f)
  <2>2. branch' \in [Branches -> BranchStates]
    BY <1>1, <1>4 DEF Merge, TypeOK, BranchStates
  <2> QED
    BY <1>0, <1>4, <2>2 DEF Merge, TypeOK
<1>5. CASE Occupy(f)
  <2>1. files' \in [Branches -> SUBSET {"copied", "edited"}]
    BY <1>5 DEF Occupy, TypeOK
  <2>2. tree' \in [Branches -> {"none", "foreign", "worktree"}]
    BY <1>5 DEF Occupy, TypeOK
  <2> QED
    BY <1>0, <1>5, <2>1, <2>2 DEF Occupy, TypeOK
<1>6. CASE OwnBranch(f)
  <2> DEFINE b == branch[f]
             made  == [[b EXCEPT !.local = TRUE] EXCEPT !.by = "user"]
             drops == [[[b EXCEPT !.local = FALSE] EXCEPT !.ahead = FALSE] EXCEPT !.by = "none"]
             moved == [b EXCEPT !.elsewhere = ~b.elsewhere]
  <2>1. made \in BranchStates /\ drops \in BranchStates /\ moved \in BranchStates
    <3>1. \A x \in BranchStates, e \in BOOLEAN :
             /\ [[x EXCEPT !.local = TRUE] EXCEPT !.by = "user"] \in BranchStates
             /\ [[[x EXCEPT !.local = FALSE] EXCEPT !.ahead = FALSE] EXCEPT !.by = "none"] \in BranchStates
             /\ [x EXCEPT !.elsewhere = e] \in BranchStates
      BY DEF BranchStates
    <3>2. (~b.elsewhere) \in BOOLEAN
      OBVIOUS
    <3> QED
      BY <1>1, <3>1, <3>2
  <2>2. branch \in [Branches -> BranchStates]
    BY DEF TypeOK
  <2>3. \/ branch' = [branch EXCEPT ![f] = made]
        \/ branch' = [branch EXCEPT ![f] = drops]
        \/ branch' = [branch EXCEPT ![f] = moved]
    BY <1>1, <1>6, <2>2 DEF OwnBranch, BranchStates
  <2> HIDE DEF made, drops, moved
  <2>4. branch' \in [Branches -> BranchStates]
    BY <2>1, <2>2, <2>3
  <2> QED
    BY <1>0, <1>6, <2>4 DEF OwnBranch, TypeOK
<1>7. CASE Delete(f)
  <2>1. bench' \in [Branches -> Records]
    BY <1>7 DEF Delete, TypeOK, NoBench, Records
  <2> QED
    BY <1>0, <1>7, <2>1 DEF Delete, repo, TypeOK
<1> QED
  BY <1>2, <1>3, <1>4, <1>5, <1>6, <1>7

\* No step of ffm and no move of the user ends what the commands rely on.
LEMMA NextWork ==
  ASSUME WorkInv, NoWorker \notin Workers, [WorktreeNext]_wvars
  PROVE  WorkInv'
<1>0. TypeOK
  BY DEF WorkInv
<1>1. CASE UNCHANGED wvars
  <2>1. TypeOK'
    BY <1>0, <1>1 DEF wvars, TypeOK
  <2> QED
    BY <1>1, <2>1, UserWork DEF wvars
<1>2. CASE ProjectUp
  <2>1. TypeOK'
    BY <1>0, <1>2 DEF ProjectUp, repo, TypeOK
  <2> QED
    BY <1>2, <2>1, UserWork DEF ProjectUp, repo
<1>3. ASSUME NEW p \in Workers, NEW f \in Branches, AddCheck(p, f) \/ Resolve(p, f)
      PROVE  WorkInv'
  BY <1>3, AddCheckWork, ResolveWork
<1>4. ASSUME NEW p \in Workers,
             \/ AddClone(p) \/ AddTree(p) \/ Attach(p) \/ Mount(p) \/ Setup(p) \/ Undo(p)
             \/ Look(p) \/ BackUpFirst(p) \/ RemoveTree(p) \/ DeleteBench(p) \/ DeleteBranch(p) \/ Killed(p)
      PROVE  WorkInv'
  BY <1>4, AddCloneWork, AddTreeWork, AttachWork, MountWork, SetupWork, UndoWork, LookWork, BackupWork,
     RemoveTreeWork, DeleteBenchWork, DeleteBranchWork, KilledWork
<1>5. ASSUME NEW f \in Branches,
             Edit(f) \/ Commit(f) \/ Merge(f) \/ Occupy(f) \/ OwnBranch(f) \/ Delete(f)
      PROVE  WorkInv'
  <2>1. TypeOK' /\ moves' # 0
    BY <1>0, <1>5, MovesType
  <2>2. UNCHANGED <<proc, wlock>>
    BY <1>5 DEF Edit, Commit, Merge, Occupy, OwnBranch, Delete, repo
  <2>3. \A g \in Branches : bench'[g] = bench[g] \/ wlock[g] = NoWorker
    BY <1>0, <1>5 DEF Edit, Commit, Merge, Occupy, OwnBranch, Delete, TypeOK
  <2> QED
    BY <2>1, <2>2, <2>3, UserWork
<1>6. CASE MoveCheckout \/ SourceEnds
  <2>1. TypeOK' /\ moves' # 0
    <3>1. moves' \in Nat /\ moves' # 0
      BY <1>0, <1>6 DEF MoveCheckout, SourceEnds, Moves, TypeOK
    <3>2. CASE MoveCheckout
      <4>1. checkout' \in BOOLEAN
        BY <3>2 DEF MoveCheckout
      <4> QED
        BY <1>0, <3>1, <3>2, <4>1 DEF MoveCheckout, TypeOK
    <3>3. CASE SourceEnds
      <4>1. source' \in {"none", "stopped", "running"}
        BY <3>3 DEF SourceEnds
      <4> QED
        BY <1>0, <3>1, <3>3, <4>1 DEF SourceEnds, repo, TypeOK
    <3> QED
      BY <1>6, <3>2, <3>3
  <2>2. UNCHANGED <<proc, wlock, bench>>
    BY <1>6 DEF MoveCheckout, SourceEnds
  <2> QED
    BY <2>1, <2>2, UserWork
<1> QED
  BY <1>1, <1>2, <1>3, <1>4, <1>5, <1>6 DEF WorktreeNext

-----------------------------------------------------------------------------
(* Worktrees: the user's work is safe *)

\* Only git, told to by a removal that has the lock, takes a worktree away; no
\* step touches what is foreign or a branch with commits of its own.
LEMMA NextSpared ==
  ASSUME WorkInv, NoWorker \notin Workers, WorktreeNext, moves' = moves
  PROVE  UserSpared
<1>0. TypeOK
  BY DEF WorkInv
<1>1. ASSUME tree' = tree, \A f \in Branches : branch'[f].local = branch[f].local
      PROVE  UserSpared
  BY <1>1 DEF UserSpared
<1>2. CASE ProjectUp
  BY <1>1, <1>2 DEF ProjectUp, repo
<1>3. ASSUME NEW p \in Workers, NEW f \in Branches, AddCheck(p, f) \/ Resolve(p, f)
      PROVE  UserSpared
  BY <1>1, <1>3 DEF AddCheck, Resolve, repo
<1>4. ASSUME NEW p \in Workers,
             \/ AddClone(p) \/ Attach(p) \/ Mount(p) \/ Setup(p) \/ Undo(p)
             \/ Look(p) \/ BackUpFirst(p) \/ DeleteBench(p) \/ Killed(p)
      PROVE  UserSpared
  <2>1. UNCHANGED repo
    BY <1>4 DEF AddClone, Attach, Mount, Setup, Undo, Look, BackUpFirst, DeleteBench, Killed
  <2> QED
    BY <1>1, <2>1 DEF repo
<1>5. ASSUME NEW p \in Workers, AddTree(p)
      PROVE  UserSpared
  <2> DEFINE f == proc[p].f
  <2>1. f \in Branches
    BY <1>5 DEF WorkInv, StepKnows, AddTree, IsAt
  <2>2. tree' = tree \/ (tree[f] = "none" /\ tree' = [tree EXCEPT ![f] = "worktree"])
    BY <1>5 DEF AddTree, GitCanAdd
  <2>3. branch' = branch \/ branch' = [branch EXCEPT ![f] = MakesBranch(f)]
    BY <1>5 DEF AddTree
  <2>4. branch[f].local => MakesBranch(f).local
    BY <1>0, <2>1 DEF MakesBranch, TypeOK, BranchStates
  <2>5. \A g \in Branches : branch[g].local => branch'[g].local
    BY <1>0, <2>1, <2>3, <2>4 DEF TypeOK
  <2>6. \A g \in Branches : tree'[g] = tree[g] \/ (tree[g] = "none" /\ tree'[g] = "worktree")
    BY <1>0, <2>1, <2>2 DEF TypeOK
  <2> QED
    BY <2>5, <2>6 DEF UserSpared
<1>6. ASSUME NEW p \in Workers, RemoveTree(p)
      PROVE  UserSpared
  <2> DEFINE f == proc[p].f
  <2>1. /\ f \in Branches /\ IsAt(p, "gitRemove") /\ wlock[f] = p /\ ~proc[p].keep
        /\ bench[f].there => bench[f].saved \/ ~proc[p].backup
    BY <1>6 DEF WorkInv, StepKnows, Knows, RemoveTree, IsAt, Locked
  <2>2. branch' = branch
    BY <1>6 DEF RemoveTree
  <2>3. \/ tree' = tree
        \/ /\ tree[f] = "worktree" /\ (proc[p].force \/ files[f] = {})
           /\ tree' = [tree EXCEPT ![f] = "none"]
    BY <1>6 DEF RemoveTree, GitRemoves
  <2>4. \A g \in Branches : \/ tree'[g] = tree[g]
                            \/ g = f /\ tree[f] = "worktree" /\ (proc[p].force \/ files[f] = {})
    BY <1>0, <2>1, <2>3 DEF TypeOK
  <2>5. ASSUME NEW g \in Branches, tree[g] = "worktree", tree'[g] = "none"
        PROVE  /\ IsAt(p, "gitRemove") /\ wlock[g] = p /\ ~proc[p].keep
               /\ "edited" \in files[g] => proc[p].force
               /\ bench[g].there => bench[g].saved \/ ~proc[p].backup
    <3>1. g = f /\ (proc[p].force \/ files[f] = {})
      BY <2>4, <2>5
    <3> QED
      BY <2>1, <3>1
  <2> QED
    BY <2>2, <2>4, <2>5 DEF UserSpared
<1>7. ASSUME NEW p \in Workers, DeleteBranch(p)
      PROVE  UserSpared
  <2>1. proc[p].f \in Branches
    BY <1>7 DEF WorkInv, StepKnows, DeleteBranch, IsAt
  <2>2. tree' = tree
    BY <1>7 DEF DeleteBranch
  <2>3. \A g \in Branches : branch'[g].local = branch[g].local \/ ~branch[g].ahead
    BY <1>0, <1>7, <2>1 DEF DeleteBranch, TypeOK
  <2> QED
    BY <2>2, <2>3 DEF UserSpared
<1>8. ASSUME NEW f \in Branches, Edit(f) \/ Commit(f) \/ Merge(f) \/ Occupy(f) \/ OwnBranch(f) \/ Delete(f)
      PROVE  UserSpared
  <2>1. moves' # moves
    BY <1>0, <1>8 DEF Edit, Commit, Merge, Occupy, OwnBranch, Delete, Moves, TypeOK
  <2> QED
    BY <2>1
<1>9. CASE MoveCheckout \/ SourceEnds
  <2>1. moves' # moves
    BY <1>0, <1>9 DEF MoveCheckout, SourceEnds, Moves, TypeOK
  <2> QED
    BY <2>1
<1> QED
  BY <1>2, <1>3, <1>4, <1>5, <1>6, <1>7, <1>8, <1>9 DEF WorktreeNext

\* A command returns by a step of its own, from where it stands.
LEMMA ReturnsItself ==
  ASSUME WorkInv, WorktreeNext, NEW p \in Workers, NEW pc \in {"setup", "undo", "gitRemove", "branch"},
         moves' = moves, Returns(p, pc)
  PROVE  \/ pc = "setup" /\ Setup(p)
         \/ pc = "undo" /\ Undo(p)
         \/ pc = "gitRemove" /\ RemoveTree(p)
         \/ pc = "branch" /\ DeleteBranch(p)
<1>0. /\ TypeOK /\ proc[p].pc = pc /\ proc'[p] = NoCommand /\ trouble' = trouble
      /\ NoCommand.pc = "idle" /\ proc'[p] # proc[p]
  BY DEF WorkInv, Returns, IsAt, NoCommand
<1>1. ASSUME NEW q \in Workers,
             \/ \E f \in Branches : AddCheck(q, f) \/ Resolve(q, f)
             \/ AddClone(q) \/ AddTree(q) \/ Attach(q) \/ Mount(q) \/ Setup(q) \/ Undo(q)
             \/ Look(q) \/ BackUpFirst(q) \/ RemoveTree(q) \/ DeleteBench(q) \/ DeleteBranch(q) \/ Killed(q)
      PROVE  q = p
  <2>1. SUFFICES ASSUME q # p PROVE proc'[p] = proc[p]
    BY <1>0
  <2>2. proc \in [Workers -> Commands]
    BY <1>0 DEF TypeOK
  <2>3. CASE \E f \in Branches : AddCheck(q, f) \/ Resolve(q, f)
    BY <2>1, <2>2, <2>3 DEF AddCheck, Resolve
  <2>4. CASE Look(q)
    BY <2>1, <2>2, <2>4 DEF Look, Ends
  <2>5. CASE \/ AddClone(q) \/ AddTree(q) \/ Attach(q) \/ Mount(q) \/ Setup(q) \/ Undo(q)
             \/ BackUpFirst(q) \/ RemoveTree(q) \/ DeleteBench(q) \/ DeleteBranch(q) \/ Killed(q)
    <3>1. Ends(q) \/ \E to \in WorkSteps : Goes(q, to)
      BY <2>5 DEF AddClone, AddTree, Attach, Mount, Setup, Undo, BackUpFirst, RemoveTree, DeleteBench,
                  DeleteBranch, Killed, WorkSteps, Locked
    <3> QED
      BY <2>1, <2>2, <3>1 DEF Ends, Goes
  <2> QED
    BY <1>1, <2>3, <2>4, <2>5
<1>2. ASSUME AddClone(p) \/ AddTree(p) \/ Attach(p) \/ Mount(p) \/ Look(p) \/ BackUpFirst(p) \/ DeleteBench(p)
             \/ \E f \in Branches : AddCheck(p, f) \/ Resolve(p, f)
      PROVE  FALSE
  BY <1>0, <1>2 DEF AddClone, AddTree, Attach, Mount, Look, BackUpFirst, DeleteBench, AddCheck, Resolve, IsAt
<1>3. ~Killed(p)
  BY <1>0 DEF Killed, Trouble, TypeOK
<1>4. ~ProjectUp /\ ~MoveCheckout /\ ~SourceEnds
  BY <1>0 DEF ProjectUp, MoveCheckout, SourceEnds
<1>5. ~\E f \in Branches : Edit(f) \/ Commit(f) \/ Merge(f) \/ Occupy(f) \/ OwnBranch(f) \/ Delete(f)
  BY <1>0 DEF Edit, Commit, Merge, Occupy, OwnBranch, Delete
<1>6. \E q \in Workers :
        \/ \E f \in Branches : AddCheck(q, f) \/ Resolve(q, f)
        \/ AddClone(q) \/ AddTree(q) \/ Attach(q) \/ Mount(q) \/ Setup(q) \/ Undo(q)
        \/ Look(q) \/ BackUpFirst(q) \/ RemoveTree(q) \/ DeleteBench(q) \/ DeleteBranch(q) \/ Killed(q)
  BY <1>4, <1>5 DEF WorktreeNext
<1>7. Setup(p) \/ Undo(p) \/ RemoveTree(p) \/ DeleteBranch(p)
  BY <1>1, <1>2, <1>3, <1>6
<1> QED
  BY <1>0, <1>7 DEF Setup, Undo, RemoveTree, DeleteBranch, IsAt

\* What a command tells when it returns is what its last step knew.
LEMMA NextTold ==
  ASSUME WorkInv, NoWorker \notin Workers, WorktreeNext, moves' = moves
  PROVE  ToldTruly
<1> SUFFICES ASSUME NEW p \in Workers
             PROVE  /\ Returns(p, "setup") => /\ bench[proc[p].f].linked /\ bench[proc[p].f].mounted
                                              /\ moves = 0 => tree[proc[p].f] = "worktree"
                    /\ Returns(p, "undo") => ~bench'[proc[p].f].there
                    /\ Returns(p, "gitRemove") => bench'[proc[p].f] = bench[proc[p].f]
                    /\ Returns(p, "branch") => /\ ~bench[proc[p].f].there
                                               /\ ~proc[p].keep /\ moves = 0 => tree[proc[p].f] = "none"
  BY DEF ToldTruly
<1>0. TypeOK /\ StepKnows(p)
  BY DEF WorkInv
<1>1. ASSUME Returns(p, "setup")
      PROVE  /\ bench[proc[p].f].linked /\ bench[proc[p].f].mounted
             /\ moves = 0 => tree[proc[p].f] = "worktree"
  BY <1>0, <1>1 DEF StepKnows, Knows, Returns, IsAt
<1>2. ASSUME Returns(p, "undo")
      PROVE  ~bench'[proc[p].f].there
  <2>1. Undo(p) /\ trouble' = trouble
    BY <1>2, ReturnsItself DEF Returns
  <2>2. bench' = [bench EXCEPT ![proc[p].f] = NoBench]
    BY <1>0, <2>1 DEF Undo, Trouble, TypeOK
  <2>3. proc[p].f \in Branches
    BY <1>0, <1>2 DEF StepKnows, Returns, IsAt
  <2> QED
    BY <1>0, <2>2, <2>3 DEF TypeOK, NoBench
<1>3. ASSUME Returns(p, "gitRemove")
      PROVE  bench'[proc[p].f] = bench[proc[p].f]
  <2>1. RemoveTree(p)
    BY <1>3, ReturnsItself
  <2> QED
    BY <2>1 DEF RemoveTree
<1>4. ASSUME Returns(p, "branch")
      PROVE  /\ ~bench[proc[p].f].there
             /\ ~proc[p].keep /\ moves = 0 => tree[proc[p].f] = "none"
  BY <1>0, <1>4 DEF StepKnows, Knows, Returns, IsAt
<1> QED
  BY <1>1, <1>2, <1>3, <1>4

\* Every command knows at each step what it goes on from: its lock, the link and
\* the mount of an add, the backup of a removal, and the worktree that is gone
\* before its bench goes, unless the user put one back (worktree.go,
\* projectmount.go).
THEOREM StepsKnow == WorktreeSpec => []WorkInv
<1>1. WorkInv /\ [WorktreeNext]_wvars => WorkInv'
  BY NextWork, WorktreeAssumption
<1> QED
  BY <1>1, InitWork, PTL DEF WorktreeSpec

\* "The worktree belongs to the user" (worktree.go:22-33), for any processes,
\* branches, flags and moves of the user: ffm takes away no changes without
\* --force, no branch with commits of its own, nothing foreign and no bench
\* that should be backed up first, and what a command tells is so.
THEOREM UsersWorkSafe == WorktreeSpec => WorktreesSafe
<1>1. WorkInv /\ [WorktreeNext]_wvars => [moves' = moves => UserSpared /\ ToldTruly]_wvars
  BY NextSpared, NextTold, WorktreeAssumption
<1> QED
  BY <1>1, StepsKnow, PTL DEF WorktreeSpec, WorktreesSafe
=============================================================================
