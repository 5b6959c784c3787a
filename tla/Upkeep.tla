------------------------------- MODULE Upkeep -------------------------------
(***************************************************************************)
(* What ffm does to the code and the data of one bench that exists         *)
(* (internal/manager: update.go, snapshot.go, rotate.go, trim.go and the   *)
(* password and database parts of users.go, agent.go, devtools.go,         *)
(* site.go): updates with their rollback, snapshots, replaced databases    *)
(* and replaced passwords.                                                 *)
(*                                                                         *)
(* All but DeleteSnapshot, SiteMaintenance and changes of the domains hold *)
(* the bench lock.  Each command inside the containers is one step; it can *)
(* fail, having done nothing, half or all of what the properties can tell, *)
(* and ffm can be killed between two steps.  A release of the apps is a    *)
(* number; code, virtualenv, schema, assets and processes each carry the   *)
(* release they belong to, 0 when a failed command left them half-way.     *)
(***************************************************************************)
EXTENDS Naturals, FiniteSets

CONSTANTS
  Users,         \* ffm processes and dashboard requests
  Nobody,        \* no holder of the bench lock, no task
  SnapNames,     \* names of snapshots
  RootHosts,     \* the hosts MariaDB has a root account for
  Localhost,     \* the one a session in the container comes from
  MaxRelease,    \* bound: releases of the apps, and branches
  MaxPasswords,  \* bound: passwords generated
  MaxTasks,      \* bound: operations begun
  MaxUpkeepFaults \* bound: failed commands and killed processes

\* The session in the container is a root account's, and there is a release and a
\* password to begin with.
ASSUME UpkeepAssumption ==
  /\ Nobody \notin Users
  /\ Localhost \in RootHosts
  /\ MaxRelease \in Nat \ {0} /\ MaxPasswords \in Nat \ {0} /\ MaxTasks \in Nat /\ MaxUpkeepFaults \in Nat

Releases == 1..MaxRelease
NoEnv == [tool |-> 0, reqs |-> 0]
NoDump == [schema |-> 0, admin |-> 0]
\* The Administrator password of another site's dump.
Foreign == MaxPasswords + 1

VARIABLES
  brec,    \* the record: branch, toolchain (0: not recorded), passwords
  site,    \* code, virtualenv, image, database, processes and modes
  roots,   \* roots[h]: the password of root@h
  secret,  \* the database root password in the secret file
  snaps,   \* snaps[n]: the directory, dump and metadata of snapshot n
  holder,  \* who holds the bench lock
  at,      \* at[u]: the step u is at
  task,    \* task[u]: what u was asked for
  base,    \* base[u]: the record and the site as u's update found them
  begun,   \* operations begun so far
  ufaults, \* commands failed and processes killed so far
  issued,  \* passwords generated so far
  told,    \* passwords an error printed, or that the user chose
  loose,   \* passwords and files no error told: see below
  excused  \* the site is served half-way for a reason ffm told, or by hand

uvars == <<brec, site, roots, secret, snaps, holder, at, task, base, begun, ufaults, issued, told, loose, excused>>

\* In loose: "admin", "root", an error named that password as doubtful; "dump",
\* a database may have been replaced without its Administrator's password set
\* back; "agent", the agent profile's new one could not be recorded; "secret",
\* the file holds another password than a rotation left; "lost", ffm was killed.
AdminDoubts == {"admin", "dump", "agent"}

Tasks ==
  [kind : {"update"}, to : {0} \cup Releases, tool : 1..2, undo : BOOLEAN, snap : SnapNames]
    \cup [kind : {"snapshot", "delete", "trim"}, snap : SnapNames]
    \cup [kind : {"restore"}, snap : SnapNames, migrate : BOOLEAN]
    \cup [kind : {"import"}, schema : Releases, migrate : BOOLEAN]
    \cup [kind : {"migrate", "rotateRoot", "rotateAdmin", "password", "agent", "domain"}]

\* Everything that serves a request belongs to one release.
Whole(s) == s.code # 0 /\ {s.env.reqs, s.schema, s.assets, s.live} = {s.code}

UpkeepInit ==
  /\ \E tool \in 0..1 : brec = [branch |-> 1, tool |-> tool, admin |-> 1, root |-> 1]
  /\ site = [code |-> 1, branch |-> 1, env |-> [tool |-> 1, reqs |-> 1], prev |-> NoEnv, image |-> 1,
             schema |-> 1, admin |-> 1, assets |-> 1, live |-> 1, maint |-> FALSE, paused |-> FALSE]
  /\ roots = [h \in RootHosts |-> 1] /\ secret = 1
  /\ snaps = [n \in SnapNames |-> [dir |-> FALSE, dump |-> NoDump, meta |-> FALSE, cut |-> FALSE]]
  /\ holder = Nobody
  /\ at = [u \in Users |-> "idle"] /\ task = [u \in Users |-> Nobody] /\ base = [u \in Users |-> Nobody]
  /\ begun = 0 /\ ufaults = 0 /\ issued = 1 /\ told = {} /\ loose = {} /\ excused = FALSE

History == <<begun, ufaults, issued, told, loose, excused>>
Stores  == <<brec, site, roots, secret, snaps>>

Go(u, step) == at' = [at EXCEPT ![u] = step] /\ UNCHANGED <<holder, task, base>>

Leave(u) ==
  /\ holder' = IF holder = u THEN Nobody ELSE holder
  /\ at' = [at EXCEPT ![u] = "idle"]
  /\ task' = [task EXCEPT ![u] = Nobody]
  /\ base' = [base EXCEPT ![u] = Nobody]

\* A command in the containers: site becomes after, u goes on at next.
Command(u, step, next, after) ==
  /\ at[u] = step /\ site' = after
  /\ Go(u, next)
  /\ UNCHANGED <<brec, roots, secret, snaps, History>>

First(t) ==
  CASE t.kind = "update" -> "backup"
    [] t.kind \in {"snapshot", "trim"} -> "snapDir"
    [] t.kind = "restore" -> "pick"
    [] t.kind = "import" -> "swap"
    [] t.kind = "migrate" -> "justMigrate"
    [] t.kind = "rotateRoot" -> "hosts"
    [] t.kind \in {"rotateAdmin", "password", "agent"} -> "setAdmin"

\* planUpdate: a branch is switched only from the one the record names.
Plannable(t) == t.kind = "update" /\ t.to # 0 => t.to # brec.branch /\ site.branch = brec.branch

Start(u, t) ==
  /\ at[u] = "idle" /\ holder = Nobody /\ t.kind \notin {"delete", "domain"} /\ Plannable(t)
  /\ begun < MaxTasks /\ begun' = begun + 1
  /\ t.kind \in {"rotateRoot", "rotateAdmin", "password", "agent"} => issued < MaxPasswords
  /\ holder' = u
  /\ at' = [at EXCEPT ![u] = First(t)]
  /\ task' = [task EXCEPT ![u] = t]
  /\ base' = [base EXCEPT ![u] = [rec |-> brec, site |-> site]]
  /\ excused' = (excused \/ (t.kind = "update" /\ ~Whole(site)))
  /\ UNCHANGED <<Stores, ufaults, issued, told, loose>>

\* The release an update moves the code to.
Target(u) == IF task[u].to # 0 THEN task[u].to
             ELSE IF site.code < MaxRelease THEN site.code + 1 ELSE MaxRelease

-----------------------------------------------------------------------------
(* Snapshots. *)

Backup(u) == Command(u, "backup", "snapDir", site)

Deleting(n) == \E v \in Users : at[v] \in {"unlink", "rmdir"} /\ task[v].snap = n

\* The name is taken by a directory, whole or not.
SnapDir(u) ==
  /\ at[u] = "snapDir"
  /\ IF snaps[task[u].snap].dir
     THEN Leave(u) /\ UNCHANGED snaps
     ELSE /\ Go(u, "snapDump")
          /\ snaps' = [snaps EXCEPT ![task[u].snap].dir = TRUE, ![task[u].snap].cut = Deleting(task[u].snap)]
  /\ UNCHANGED <<brec, site, roots, secret, History>>

\* The command makes the directory again when it is gone.
SnapDump(u) ==
  /\ at[u] = "snapDump"
  /\ snaps' = [snaps EXCEPT ![task[u].snap].dir = TRUE,
                            ![task[u].snap].dump = [schema |-> site.schema, admin |-> site.admin]]
  /\ Go(u, "snapMeta")
  /\ UNCHANGED <<brec, site, roots, secret, History>>

\* A bench backup that fails takes its directory with it.
SnapDumpFails(u) ==
  /\ at[u] = "snapDump" /\ ufaults < MaxUpkeepFaults
  /\ snaps' = [snaps EXCEPT ![task[u].snap] = [dir |-> FALSE, dump |-> NoDump, meta |-> FALSE, cut |-> FALSE]]
  /\ Leave(u)
  /\ ufaults' = ufaults + 1
  /\ UNCHANGED <<brec, site, roots, secret, issued, told, loose, excused, begun>>

AfterSnapshot(u) ==
  CASE task[u].kind = "update" -> Go(u, "maintOn")
    [] task[u].kind = "trim" -> Go(u, "trim")
    [] OTHER -> Leave(u)

SnapMeta(u) ==
  /\ at[u] = "snapMeta"
  /\ IF snaps[task[u].snap].dir
     THEN snaps' = [snaps EXCEPT ![task[u].snap].meta = TRUE] /\ AfterSnapshot(u)
     ELSE UNCHANGED snaps /\ Leave(u)
  /\ UNCHANGED <<brec, site, roots, secret, History>>

Listed == {n \in SnapNames : snaps[n].dir /\ snaps[n].meta}

\* DeleteSnapshot: no bench lock, and files go one after the other.
StartDelete(u, t) ==
  /\ at[u] = "idle" /\ t.kind = "delete" /\ snaps[t.snap].dir
  /\ begun < MaxTasks /\ begun' = begun + 1
  /\ snaps' = [snaps EXCEPT ![t.snap].cut = TRUE]
  /\ at' = [at EXCEPT ![u] = "unlink"]
  /\ task' = [task EXCEPT ![u] = t]
  /\ UNCHANGED <<brec, site, roots, secret, holder, base, ufaults, issued, told, loose, excused>>

Unlink(u) ==
  /\ at[u] = "unlink"
  /\ \E part \in {[dump |-> NoDump, meta |-> snaps[task[u].snap].meta], [dump |-> snaps[task[u].snap].dump, meta |-> FALSE]} :
        snaps' = [snaps EXCEPT ![task[u].snap].dump = part.dump, ![task[u].snap].meta = part.meta]
  /\ Go(u, "rmdir")
  /\ UNCHANGED <<brec, site, roots, secret, History>>

Rmdir(u) ==
  /\ at[u] = "rmdir"
  /\ snaps' = [snaps EXCEPT ![task[u].snap] = [dir |-> FALSE, dump |-> NoDump, meta |-> FALSE, cut |-> TRUE]]
  /\ Leave(u)
  /\ UNCHANGED <<brec, site, roots, secret, History>>

\* restoreSnapshotLocked: the snapshot is looked up in the list.
Pick(u) ==
  /\ at[u] \in {"pick", "undoPick"}
  /\ IF task[u].snap \in Listed THEN Go(u, IF at[u] = "pick" THEN "swap" ELSE "undoSwap") ELSE Leave(u)
  /\ UNCHANGED <<Stores, History>>

\* What bench restore loads: a snapshot's dump, or one from elsewhere.
DumpOf(u) == IF task[u].kind = "import" THEN [schema |-> task[u].schema, admin |-> Foreign] ELSE snaps[task[u].snap].dump

\* bench restore refuses a dump that is not there, and connects as root from
\* another container than the database's.
Swap(u) ==
  /\ at[u] \in {"swap", "undoSwap"}
  /\ IF DumpOf(u) = NoDump \/ \E h \in RootHosts \ {Localhost} : roots[h] # brec.root
     THEN Leave(u) /\ UNCHANGED <<site, excused>>
     ELSE /\ site' = [site EXCEPT !.schema = DumpOf(u).schema, !.admin = DumpOf(u).admin]
          /\ excused' = (excused \/ at[u] = "swap")
          /\ Go(u, IF at[u] = "undoSwap" THEN "undoAdmin" ELSE IF task[u].migrate THEN "swapMigrate" ELSE "swapAdmin")
  /\ UNCHANGED <<brec, roots, secret, snaps, ufaults, issued, told, loose, begun>>

\* afterDatabaseSwap
SwapMigrate(u) == Command(u, "swapMigrate", "swapAdmin", [site EXCEPT !.schema = site.code])
Reapply(u, step, next) ==
  /\ at[u] = step /\ site' = [site EXCEPT !.admin = brec.admin] /\ loose' = loose \ AdminDoubts
  /\ Go(u, next)
  /\ UNCHANGED <<brec, roots, secret, snaps, begun, ufaults, issued, told, excused>>
SwapAdmin(u)   == Reapply(u, "swapAdmin", "swapFlush")
SwapFlush(u)   == at[u] = "swapFlush" /\ Leave(u) /\ UNCHANGED <<Stores, History>>

JustMigrate(u) == /\ at[u] = "justMigrate" /\ site' = [site EXCEPT !.schema = site.code]
                  /\ Leave(u) /\ UNCHANGED <<brec, roots, secret, snaps, History>>
\* The tables and columns trimmed are ones the release does not have.
Trim(u) == at[u] = "trim" /\ Leave(u) /\ UNCHANGED <<Stores, History>>

-----------------------------------------------------------------------------
(* Update. *)

MaintOn(u) == Command(u, "maintOn", "pause", [site EXCEPT !.maint = TRUE])
Pause(u)   == Command(u, "pause", "revert", [site EXCEPT !.paused = TRUE])
Revert(u)  == Command(u, "revert", "code", site)

Pull(u)   == at[u] = "code" /\ task[u].to = 0 /\ Command(u, "code", "reqs", [site EXCEPT !.code = Target(u)])
Switch(u) == /\ at[u] = "code" /\ task[u].to # 0
             /\ Command(u, "code", "toolchain", [site EXCEPT !.code = Target(u), !.branch = task[u].to])

\* changeToolchain: the record first, then the image when Node differs.
Toolchain(u) ==
  /\ at[u] = "toolchain"
  /\ brec' = [brec EXCEPT !.tool = task[u].tool]
  /\ Go(u, IF task[u].tool # brec.tool THEN "image" ELSE "venv")
  /\ UNCHANGED <<site, roots, secret, snaps, History>>
Image(u) == at[u] = "image" /\ Command(u, "image", "venv", [site EXCEPT !.image = task[u].tool, !.live = site.code])
Venv(u)  == /\ at[u] = "venv" /\ site.env # NoEnv
            /\ Command(u, "venv", "reqs", [site EXCEPT !.prev = site.env, !.env = [tool |-> task[u].tool, reqs |-> 0]])

Reqs(u)    == site.env # NoEnv /\ Command(u, "reqs", "cache", [site EXCEPT !.env.reqs = site.code])
Cache(u)   == Command(u, "cache", "migrate", site)
Migrate(u) == Command(u, "migrate", "build", [site EXCEPT !.schema = site.code])
BuildAssets(u)   == Command(u, "build", "patch", [site EXCEPT !.assets = site.code])
Patch(u)   == Command(u, "patch", "restart", site)
\* Mutant: production's workers keep running the old code.
RestartWebOnly(u) == at[u] = "restart" /\ Command(u, "restart", IF task[u].to # 0 THEN "branch" ELSE "finish", site)
Restart(u) == at[u] = "restart" /\ Command(u, "restart", IF task[u].to # 0 THEN "branch" ELSE "finish", [site EXCEPT !.live = site.code])
Branch(u) ==
  /\ at[u] = "branch"
  /\ brec' = [brec EXCEPT !.branch = task[u].to]
  /\ Go(u, "finish")
  /\ UNCHANGED <<site, roots, secret, snaps, History>>

\* Both commands of finish only warn when they fail.
Off(m) == {m} \cup {x \in {TRUE} : ufaults < MaxUpkeepFaults}
Finish(u) ==
  /\ at[u] \in {"finish", "undone"}
  /\ \E m \in Off(FALSE), z \in Off(FALSE) :
       /\ site' = [site EXCEPT !.maint = m /\ site.maint, !.paused = z /\ site.paused]
       /\ ufaults' = IF m \/ z THEN ufaults + 1 ELSE ufaults
  /\ IF at[u] = "finish" THEN Go(u, "ping") ELSE Leave(u)
  /\ UNCHANGED <<brec, roots, secret, snaps, issued, told, loose, excused, begun>>

Ping(u) == Command(u, "ping", "dropPrev", site)

\* A virtualenv that cannot be deleted is only warned about.
DropPrev(u) ==
  /\ at[u] = "dropPrev"
  /\ \/ site' = [site EXCEPT !.prev = NoEnv] /\ UNCHANGED ufaults
     \/ ufaults < MaxUpkeepFaults /\ ufaults' = ufaults + 1 /\ UNCHANGED site
  /\ Leave(u)
  /\ UNCHANGED <<brec, roots, secret, snaps, issued, told, loose, excused, begun>>

\* The site does not answer: maintenance mode again, which may only warn.
PingFails(u) ==
  /\ at[u] = "ping" /\ ufaults < MaxUpkeepFaults
  /\ \E on \in {TRUE} \cup {x \in {FALSE} : ufaults + 1 < MaxUpkeepFaults} :
       /\ site' = [site EXCEPT !.maint = site.maint \/ on]
       /\ ufaults' = ufaults + IF on THEN 1 ELSE 2
       /\ excused' = (excused \/ ~on)
  /\ IF task[u].undo THEN Go(u, "undoRevert") ELSE Leave(u)
  /\ UNCHANGED <<brec, roots, secret, snaps, issued, told, loose, begun>>

-----------------------------------------------------------------------------
(* rollbackUpdate.  The branch of the record stays as it is. *)

UndoRevert(u) == Command(u, "undoRevert", "undoCode", site)
UndoCode(u) == /\ at[u] = "undoCode"
               /\ Command(u, "undoCode", IF brec.tool # base[u].rec.tool THEN "undoTool" ELSE "undoReqs",
                          [site EXCEPT !.code = base[u].site.code, !.branch = base[u].site.branch])
\* Mutant: the record goes back, the image stays.
UndoToolRecordOnly(u) ==
  /\ at[u] = "undoTool"
  /\ brec' = [brec EXCEPT !.tool = base[u].rec.tool]
  /\ Go(u, "undoEnv")
  /\ UNCHANGED <<site, roots, secret, snaps, History>>
UndoTool(u) ==
  /\ at[u] = "undoTool"
  /\ brec' = [brec EXCEPT !.tool = base[u].rec.tool]
  /\ Go(u, "undoImage")
  /\ UNCHANGED <<site, roots, secret, snaps, History>>
\* What was not recorded is the toolchain of ffm's first benches.
ToolOf(rec) == IF rec.tool = 0 THEN 1 ELSE rec.tool
UndoImage(u) == Command(u, "undoImage", "undoEnv", [site EXCEPT !.image = ToolOf(brec), !.live = site.code])
UndoEnv(u) == Command(u, "undoEnv", "undoReqs",
                      IF site.prev = NoEnv THEN site ELSE [site EXCEPT !.env = site.prev, !.prev = NoEnv])
UndoReqs(u)    == site.env # NoEnv /\ Command(u, "undoReqs", "undoCache", [site EXCEPT !.env.reqs = site.code])
UndoCache(u)   == Command(u, "undoCache", "undoPick", site)
UndoAdmin(u)   == Reapply(u, "undoAdmin", "undoBuild")
UndoBuild(u)   == Command(u, "undoBuild", "undoPatch", [site EXCEPT !.assets = site.code])
UndoPatch(u)   == Command(u, "undoPatch", "undoRestart", site)
UndoRestart(u) == Command(u, "undoRestart", "undone", [site EXCEPT !.live = site.code])

Applying == {"revert", "code", "toolchain", "image", "venv", "reqs", "cache", "migrate", "build", "patch", "restart", "branch"}
RollingBack  == {"undoRevert", "undoCode", "undoTool", "undoImage", "undoEnv", "undoReqs", "undoCache", "undoPick",
             "undoSwap", "undoAdmin", "undoBuild", "undoPatch", "undoRestart"}

\* A restore that fails has loaded the dump in part or whole, the table of
\* passwords before or after the failure.
Loaded(u) == IF DumpOf(u) = NoDump THEN {} ELSE
  {[site EXCEPT !.schema = 0, !.admin = a] : a \in {site.admin, DumpOf(u).admin}}
    \cup {[site EXCEPT !.schema = DumpOf(u).schema, !.admin = DumpOf(u).admin]}

\* What a command that fails can leave behind.
HalfDone(u) ==
  {site} \cup
  CASE at[u] \in {"code", "undoCode"}    -> {[site EXCEPT !.code = 0]}
    [] at[u] = "image"                   -> {[site EXCEPT !.image = task[u].tool, !.live = 0]}
    [] at[u] = "undoImage"               -> {[site EXCEPT !.live = 0]}
    [] at[u] = "venv"                    -> {[site EXCEPT !.prev = NoEnv], [site EXCEPT !.prev = site.env, !.env = NoEnv]}
    [] at[u] = "undoEnv"                 -> {[site EXCEPT !.env = NoEnv]}
    [] at[u] \in {"reqs", "undoReqs"} /\ site.env # NoEnv -> {[site EXCEPT !.env.reqs = 0]}
    [] at[u] \in {"swap", "undoSwap"}     -> Loaded(u)
    [] at[u] \in {"migrate", "swapMigrate", "justMigrate"} -> {[site EXCEPT !.schema = 0]}
    [] at[u] \in {"build", "undoBuild"}  -> {[site EXCEPT !.assets = 0]}
    [] at[u] \in {"restart", "undoRestart"} -> {[site EXCEPT !.live = 0]}
    [] OTHER -> {}

\* An update that fails rolls back; a rollback that fails leaves the bench in
\* maintenance mode.  Without its virtualenv bench cannot run at all.  The errors
\* of bench restore and of the migrate after it do not speak of a password.
CommandFails(u) ==
  /\ at[u] \in Applying \cup RollingBack \cup
       {"backup", "maintOn", "pause", "swap", "swapMigrate", "swapAdmin", "swapFlush", "justMigrate", "trim"}
  /\ \/ ufaults < MaxUpkeepFaults /\ ufaults' = ufaults + 1 /\ site' \in HalfDone(u)
     \/ at[u] \in {"venv", "reqs", "undoReqs"} /\ site.env = NoEnv /\ UNCHANGED <<ufaults, site>>
  /\ loose' = loose \cup CASE at[u] \in {"swapAdmin", "undoAdmin"} -> {"admin"}
                            [] at[u] \in {"swap", "undoSwap", "swapMigrate"} -> {"dump"}
                            [] OTHER -> {}
  /\ excused' = (excused \/ at[u] \in {"swap", "justMigrate"})
  /\ IF at[u] \in Applying /\ task[u].undo THEN Go(u, "undoRevert") ELSE Leave(u)
  /\ UNCHANGED <<brec, roots, secret, snaps, issued, told, begun>>

\* SiteMaintenance holds no lock.
Maintenance(on) ==
  /\ site' = [site EXCEPT !.maint = on]
  /\ excused' = (excused \/ (~on /\ (~Whole(site) \/ \E u \in Users : at[u] \in {"pause"} \cup Applying \cup RollingBack)))
  /\ UNCHANGED <<brec, roots, secret, snaps, holder, at, task, base, ufaults, issued, told, loose, begun>>

-----------------------------------------------------------------------------
(* Passwords. *)

New == issued + 1

\* Mutant: the hosts in the order MariaDB lists them.
NextHostsUnsorted == {h \in RootHosts : roots[h] # New}
\* mariaDBRootHosts: the session's own host is altered last.
NextHosts == LET rest == {h \in RootHosts : roots[h] # New}
             IN  IF rest = {Localhost} THEN rest ELSE rest \ {Localhost}

\* A session in the container opens with the password of the secret file.
SecretOpen == roots[Localhost] = secret
Fault == ufaults < MaxUpkeepFaults /\ ufaults' = ufaults + 1

ListHosts(u) ==
  /\ at[u] = "hosts"
  /\ \/ SecretOpen /\ Go(u, "alter") /\ UNCHANGED ufaults
     \/ IF SecretOpen THEN Fault /\ Leave(u) ELSE UNCHANGED ufaults /\ Leave(u)
  /\ UNCHANGED <<Stores, begun, issued, told, loose, excused>>

\* All statements run in one session, opened before the first.
NoneAltered == \A h \in RootHosts : roots[h] # New
Alter(u) ==
  /\ at[u] = "alter" /\ (NoneAltered => SecretOpen)
  /\ \E h \in NextHosts : roots' = [roots EXCEPT ![h] = New]
  /\ Go(u, IF \A h \in RootHosts : roots'[h] = New THEN "secret" ELSE "alter")
  /\ UNCHANGED <<brec, site, secret, snaps, History>>

AlterFails(u) ==
  /\ at[u] = "alter"
  /\ Fault \/ (NoneAltered /\ ~SecretOpen /\ UNCHANGED ufaults)
  /\ Go(u, "unalter")
  /\ UNCHANGED <<Stores, issued, told, loose, excused, begun>>

\* A new session puts every host back, if the old password still opens one.
Unalter(u) ==
  /\ at[u] = "unalter"
  /\ \/ SecretOpen /\ roots' = [h \in RootHosts |-> brec.root] /\ UNCHANGED <<ufaults, loose>>
     \/ /\ IF SecretOpen THEN Fault ELSE UNCHANGED ufaults
        /\ loose' = loose \cup {"root"} /\ UNCHANGED roots
  /\ Leave(u) /\ issued' = New
  /\ UNCHANGED <<brec, site, secret, snaps, told, excused, begun>>

\* tellNewValue: the value that could not be written down is printed.
Tell(u) ==
  /\ Fault
  /\ told' = told \cup {New} /\ issued' = New
  /\ Leave(u)

\* The file is rewritten in place: a write that fails can leave it empty (0).
Secret(u) ==
  /\ at[u] = "secret"
  /\ \/ secret' = New /\ loose' = loose \ {"root", "secret"} /\ Go(u, "root") /\ UNCHANGED <<ufaults, issued, told>>
     \/ /\ Tell(u) /\ secret' \in {secret, 0, New}
        /\ loose' = IF secret' = 0 THEN loose \cup {"secret"} ELSE loose
  /\ UNCHANGED <<brec, site, roots, snaps, excused, begun>>

RecordRoot(u) ==
  /\ at[u] = "root"
  /\ \/ brec' = [brec EXCEPT !.root = New] /\ issued' = New /\ Leave(u) /\ UNCHANGED <<ufaults, told>>
     \/ Tell(u) /\ UNCHANGED brec
  /\ UNCHANGED <<site, roots, secret, snaps, loose, excused, begun>>

\* A change of the domains, without the bench lock, writes docker-compose.yml and
\* with it the secret file from the record it read at its beginning.  Scale and
\* reconcile do the same under the lock.  A write that fails, or is killed, can
\* leave the file empty.
DomainRead(u, t) ==
  /\ at[u] = "idle" /\ t.kind = "domain"
  /\ begun < MaxTasks /\ begun' = begun + 1
  /\ at' = [at EXCEPT ![u] = "compose"]
  /\ task' = [task EXCEPT ![u] = t]
  /\ base' = [base EXCEPT ![u] = [rec |-> brec, site |-> site]]
  /\ UNCHANGED <<Stores, holder, ufaults, issued, told, loose, excused>>

RewriteSecret(u) ==
  /\ at[u] = "compose"
  /\ \/ secret' = base[u].rec.root /\ UNCHANGED ufaults
     \/ Fault /\ secret' \in {secret, 0}
  /\ loose' = IF secret' = secret THEN loose ELSE loose \cup {"secret"}
  /\ Leave(u)
  /\ UNCHANGED <<brec, site, roots, snaps, begun, issued, told, excused>>

\* The command can fail after the change: the error names the password.
SetAdmin(u) ==
  /\ at[u] = "setAdmin"
  /\ \/ site' = [site EXCEPT !.admin = New] /\ Go(u, "admin") /\ UNCHANGED <<ufaults, issued, loose>>
     \/ /\ Fault /\ issued' = New /\ loose' = loose \cup {"admin"} /\ Leave(u)
        /\ site' \in {site, [site EXCEPT !.admin = New]}
  /\ UNCHANGED <<brec, roots, secret, snaps, told, excused, begun>>

\* The user who chose a password knows it; SetAgent prints none when its record
\* cannot be written.
RecordAdmin(u) ==
  /\ at[u] = "admin"
  /\ \/ /\ brec' = [brec EXCEPT !.admin = New] /\ loose' = loose \ AdminDoubts
        /\ issued' = New /\ Leave(u) /\ UNCHANGED <<ufaults, told>>
     \/ task[u].kind # "agent" /\ Tell(u) /\ UNCHANGED <<brec, loose>>
     \/ /\ task[u].kind = "agent" /\ Fault
        /\ issued' = New /\ loose' = loose \cup {"agent"} /\ Leave(u) /\ UNCHANGED <<brec, told>>
  /\ UNCHANGED <<site, roots, secret, snaps, excused, begun>>

Changing == {"alter", "unalter", "secret", "root", "setAdmin", "admin", "swapMigrate", "swapAdmin", "undoAdmin"}

\* A killed ffm: the system frees the lock; a password not written down is gone.
Kill(u) ==
  /\ at[u] # "idle" /\ ufaults < MaxUpkeepFaults
  /\ ufaults' = ufaults + 1
  /\ loose' = loose \cup IF at[u] \in Changing THEN {"lost"} ELSE {}
  /\ issued' = IF at[u] \in Changing THEN New ELSE issued
  /\ Leave(u)
  /\ UNCHANGED <<Stores, told, excused, begun>>

UpkeepNext ==
  \/ \E u \in Users, t \in Tasks : Start(u, t) \/ StartDelete(u, t) \/ DomainRead(u, t)
  \/ \E u \in Users :
       \/ Backup(u) \/ SnapDir(u) \/ SnapDump(u) \/ SnapDumpFails(u) \/ SnapMeta(u) \/ Unlink(u) \/ Rmdir(u)
       \/ Pick(u) \/ Swap(u) \/ SwapMigrate(u) \/ SwapAdmin(u) \/ SwapFlush(u) \/ JustMigrate(u) \/ Trim(u)
       \/ MaintOn(u) \/ Pause(u) \/ Revert(u) \/ Pull(u) \/ Switch(u) \/ Toolchain(u) \/ Image(u) \/ Venv(u)
       \/ Reqs(u) \/ Cache(u) \/ Migrate(u) \/ BuildAssets(u) \/ Patch(u) \/ Restart(u) \/ Branch(u)
       \/ Finish(u) \/ Ping(u) \/ PingFails(u) \/ DropPrev(u)
       \/ UndoRevert(u) \/ UndoCode(u) \/ UndoTool(u) \/ UndoImage(u) \/ UndoEnv(u) \/ UndoReqs(u) \/ UndoCache(u)
       \/ UndoAdmin(u) \/ UndoBuild(u) \/ UndoPatch(u) \/ UndoRestart(u)
       \/ CommandFails(u) \/ Kill(u)
       \/ RewriteSecret(u) \/ ListHosts(u) \/ Alter(u) \/ AlterFails(u) \/ Unalter(u)
       \/ Secret(u) \/ RecordRoot(u) \/ SetAdmin(u) \/ RecordAdmin(u)
  \/ \E on \in BOOLEAN : Maintenance(on)

UpkeepSpec == UpkeepInit /\ [][UpkeepNext]_uvars

-----------------------------------------------------------------------------
(* Properties. *)

Code(s) == [code |-> s.code, branch |-> s.branch, env |-> s.env, image |-> s.image, schema |-> s.schema,
            assets |-> s.assets, live |-> s.live]
\* An update that begins on a whole site with the toolchain its record says, and
\* no virtualenv left aside by an earlier update.
Sound(b) == /\ Whole(b.site) /\ b.site.prev = NoEnv
            /\ {b.site.image, b.site.env.tool} = {ToolOf(b.rec)}

\* Visitors are served by one release throughout: code, requirements, schema,
\* assets and processes, however an update fails or is killed, unless the update
\* found the bench half-way, or ffm said that it could not turn maintenance on.
ServedWhole == site.maint \/ excused \/ Whole(site)

\* An update that reports that it rolled back has put back every app, the
\* toolchain with its record, the virtualenv, the schema and the processes.
RollbackWhole ==
  \A u \in Users : at[u] = "undone" /\ Sound(base[u]) =>
    /\ brec.tool = base[u].rec.tool
    /\ Code(site) = Code(base[u].site)

\* Between two operations the record knows the Administrator's password and the
\* password of every root account, and the secret file holds it, or an error has
\* told it or named it as doubtful; and one failed command never leaves root
\* accounts with two passwords.  The code is silent in four cases, which are left
\* out: ffm was killed in the middle ("lost"); a bench restore, or the migrate
\* after it, failed before the recorded password was set again ("dump"); the
\* agent profile's password could not be recorded ("agent"); and a compose file
\* written from an older record put an older password into the secret file, or a
\* failed write emptied that file ("secret").
PasswordsKnown ==
  holder = Nobody /\ "lost" \notin loose =>
    /\ site.admin \in {brec.admin} \cup told \/ AdminDoubts \cap loose # {}
    /\ \/ \A h \in RootHosts : roots[h] = brec.root /\ (secret \in {roots[h]} \cup told \/ "secret" \in loose)
       \/ \E p \in told : \A h \in RootHosts : roots[h] = p
       \/ "root" \in loose /\ (ufaults > 1 \/ "secret" \in loose)

=============================================================================
