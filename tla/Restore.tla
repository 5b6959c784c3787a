-------------------------------- MODULE Restore --------------------------------
(***************************************************************************)
(* Backing a bench up and building a new one from the archive              *)
(* (internal/manager/backup.go, restore.go, backup_verify.go, clone.go,    *)
(* restore_frappe.go): one ffm process at a time, step by step, while the  *)
(* rest of the world goes on: branches move, are rewritten and deleted,    *)
(* the source is stopped, started, changed and deleted, the archive rots.  *)
(* Any step may fail, the process may be killed between two.               *)
(*                                                                         *)
(* Create is one step here, with its own rollback; BenchLifecycle has its  *)
(* details.  data, key and pw say whose database content, encryption key   *)
(* and Administrator password a bench has.                                 *)
(***************************************************************************)
EXTENDS AppSources

CONSTANTS
  Names, Throwaway,           \* bench names; the one a verification makes up
  Branches, Tags, Main,       \* refs of the remotes, those that never move, the default
  VersionBranches,
  Ports, Hosts,
  Firsts,                     \* the first bench: its checkouts, domain and key
  MaxFaults, MaxMoves, MaxOps \* bounds: failures, moves of the world, operations

\* A verification's name is nobody's; bench finds a repository for the names it
\* knows; None is none of the words the manifest uses.
ASSUME RestoreAssumption ==
  /\ "frappe" \in Apps
  /\ Throwaway \notin Names \cup {None}
  /\ Ports \subseteq Nat \ {0}
  /\ Tags \subseteq Branches /\ VersionBranches \cup {Main} \subseteq Branches
  /\ None \notin Branches \cup Repos \cup Registry
  /\ None \notin {"no-git", "no-remote", "no-commit", "unpushed", "requested", "archive", "dirty-mounted", "own"}
  /\ {"own", "forced"} \cap Repos = {} /\ "HEAD" \notin Branches
  /\ \A x \in Registry : \E r \in Repos : RepoName[r] = x

\* What git says of a checkout; "own" commits are on no remote.
IsCommit(c) == c = [line |-> c.line, n |-> c.n]

IsCheckout(c) ==
  /\ c = [git |-> c.git, remote |-> c.remote, head |-> c.head, branch |-> c.branch, tracking |-> c.tracking,
          tag |-> c.tag, on |-> c.on, tagged |-> c.tagged, edits |-> c.edits]
  /\ IsCommit(c.head) /\ c.on \subseteq Branches
  /\ c.branch \in Branches \cup {"HEAD"} /\ c.tag \in Branches \cup {None}
  /\ c.head.line = "own" => c.git /\ c.on = {} /\ ~c.tagged

IsCode(code) == code = [a \in DOMAIN code |-> code[a]] /\ \A a \in DOMAIN code : IsCheckout(code[a])

ASSUME FirstsAssumption ==
  \A f \in Firsts : IsCode(f.code) /\ DOMAIN f.code \subseteq Apps /\ IsFiniteSet(DOMAIN f.code)

D == INSTANCE FrappeDump WITH AppNames <- Apps, Nothing <- None, DefaultBranch <- Main

VARIABLES
  repos,    \* the remotes: tip of each ref, and the commits still served
  bench,    \* benches.json
  host,     \* what is on disk, in volumes and in containers under each name
  arch,     \* the newest archive
  op,       \* the operation ffm runs
  staging,  \* _restore-*, .download-*, .clone-* or .verify-* is on disk
  budget    \* faults, moves and operations so far

rvars == <<repos, bench, host, arch, op, staging, budget>>

NoApps  == [x \in {} |-> None]
NoRec  == [port |-> 0, domain |-> None, aliases |-> {}, frappe |-> NoSpec, apps |-> {}]
NoData == [v |-> 0, apps |-> {}]
NoHost == [dir |-> FALSE, volumes |-> FALSE, up |-> FALSE, data |-> NoData, files |-> FALSE, key |-> None,
           pw |-> None, code |-> NoApps, patched |-> FALSE, migrated |-> NoApps, serves |-> NoApps]
NoArch == [name |-> None, bench |-> NoRec, domain |-> None, port |-> 0, aliases |-> {}, frappe |-> NoSpec,
           apps |-> {}, installed |-> {}, infos |-> NoApps, trees |-> NoApps, was |-> NoApps, data |-> NoData,
           files |-> FALSE, key |-> None, damaged |-> FALSE, foreign |-> FALSE]
NoOpts == [latest |-> FALSE, over |-> NoApps, keep |-> FALSE, realloc |-> FALSE, domain |-> None, skipKey |-> FALSE]
NoOp   == [kind |-> "none", pc |-> "idle", target |-> None, source |-> None, opts |-> NoOpts, m |-> NoArch,
           port |-> 0, started |-> FALSE, warned |-> {}, ok |-> FALSE, made |-> FALSE, left |-> "nothing"]

AllNames   == Names \cup {Throwaway}
Tracked(n) == bench[n].port # 0
Heads(code) == [a \in DOMAIN code |-> code[a].head]
HostsOf(n) == bench[n].aliases \cup ({bench[n].domain} \ {None})
Listening  == {bench[n].port : n \in {x \in AllNames : Tracked(x) /\ host[x].up}}
Claimed    == {bench[n].port : n \in {x \in AllNames : Tracked(x)}}

(***************************************************************************)
(* Initially one bench with frappe and the other apps in one of the states *)
(* an app is really found in, dev or production.                           *)
(***************************************************************************)
History(r) == [b \in Branches |-> [line |-> r, n |-> IF b \in Tags THEN 1 ELSE 2]]

RestoreInit ==
  /\ repos = [tip |-> [r \in Repos |-> History(r)],
              served |-> {<<r, [line |-> r, n |-> i]>> : r \in Repos, i \in 1..2}]
  /\ \E f \in Firsts :
       LET c    == f.code
           n    == CHOOSE x \in Names : TRUE
           apps == {[source |-> c[a].remote, branch |-> Main] : a \in DOMAIN c \ {"frappe"}}
       IN  /\ bench = [x \in AllNames |-> IF x # n THEN NoRec ELSE
                 [port |-> 1, domain |-> f.domain, aliases |-> {}, frappe |-> [source |-> Upstream, branch |-> Main],
                  apps |-> {IF s.source \in Repos THEN s ELSE [source |-> "kb", branch |-> None] : s \in apps}]]
           /\ host = [x \in AllNames |-> IF x # n THEN NoHost ELSE
                 [NoHost EXCEPT !.dir = TRUE, !.volumes = TRUE, !.up = TRUE, !.files = TRUE, !.key = f.key,
                    !.data = [v |-> 1, apps |-> DOMAIN c], !.pw = "dump", !.code = c, !.patched = TRUE,
                    !.migrated = Heads(c), !.serves = Heads(c)]]
  /\ arch = NoArch
  /\ op = NoOp
  /\ staging = FALSE
  /\ budget = [faults |-> 0, moves |-> 0, ops |-> 0]

(***************************************************************************)
(* One operation: it advances, ends, or fails at a step.                   *)
(***************************************************************************)
At(pc)     == op.pc = pc
Go(pc)     == op' = [op EXCEPT !.pc = pc]
Fault      == budget.faults < MaxFaults /\ budget' = [budget EXCEPT !.faults = @ + 1]
NoFault    == UNCHANGED budget
End(o, ok) == op' = [o EXCEPT !.pc = "finished", !.ok = ok] /\ staging' = FALSE

Begin(o) ==
  /\ At("idle") /\ budget.ops < MaxOps
  /\ budget' = [budget EXCEPT !.ops = @ + 1]
  /\ op' = [NoOp EXCEPT !.kind = o.kind, !.pc = o.pc, !.target = o.target, !.source = o.source, !.opts = o.opts]
  /\ UNCHANGED <<repos, bench, host, arch>>

Answer ==
  /\ At("finished")
  /\ op' = NoOp
  /\ UNCHANGED <<repos, bench, host, arch, staging, budget>>

\* Killed: what it made stays, its locks go with the process.
Kill ==
  /\ op.pc \notin {"idle", "finished"} /\ Fault
  /\ op' = NoOp
  /\ UNCHANGED <<repos, bench, host, arch, staging>>

(***************************************************************************)
(* Backup and the first half of a clone.                                   *)
(***************************************************************************)
StartBackup ==
  \E n \in Names : /\ Tracked(n)
                   /\ Begin([NoOp EXCEPT !.kind = "backup", !.pc = "collect", !.source = n])
                   /\ UNCHANGED staging

StartClone ==
  \E n, t \in Names, d \in {None} \cup Hosts :
    /\ n # t /\ Tracked(n) /\ ~Tracked(t) /\ (bench[n].domain = None <=> d = None)
    /\ Begin([NoOp EXCEPT !.kind = "clone", !.pc = "collect", !.source = n, !.target = t,
                          !.opts = [NoOpts EXCEPT !.domain = d, !.realloc = TRUE]])
    /\ staging' = TRUE

\* Bring the bench up, read its configuration and probe its apps.
Collect ==
  LET n == op.source
      b == bench[n]
      code == host[n].code
      infos == [a \in DOMAIN code |-> applyProbe(code[a])]
      used == vendorCandidates(host[n].data.apps, b.apps, {})
  IN  /\ At("collect") /\ Tracked(n) /\ NoFault
      /\ host' = [host EXCEPT ![n].up = TRUE]
      /\ op' = [op EXCEPT !.pc = "dump", !.started = ~host[n].up,
                  !.m = [NoArch EXCEPT !.name = n, !.domain = b.domain, !.port = b.port, !.aliases = b.aliases,
                           !.frappe = b.frappe, !.apps = b.apps, !.installed = host[n].data.apps,
                           !.infos = planAppSources(infos, used, {}, None), !.key = host[n].key,
                           !.was = [a \in host[n].data.apps \cap DOMAIN code |-> code[a]]]]
      /\ UNCHANGED <<repos, bench, arch, staging>>

\* bench backup into a directory of its own, checked for the __Auth table.
DumpSite ==
  LET n == op.source
  IN  /\ At("dump") /\ host[n].up /\ NoFault
      /\ op' = [op EXCEPT !.pc = "write", !.m.data = host[n].data, !.m.files = TRUE]
      /\ UNCHANGED <<repos, bench, host, arch, staging>>

\* The apps that travel, the dump and, last, the manifest; then the rename.
WriteArchive ==
  LET n == op.source
      kept == {a \in DOMAIN op.m.infos \cap DOMAIN host[n].code : Archived(op.m.infos[a])}
      m == [op.m EXCEPT !.trees = [a \in kept |-> host[n].code[a]]]
  IN  /\ At("write") /\ host[n].up /\ NoFault
      /\ arch' = m
      /\ host' = [host EXCEPT ![n].up = @ /\ ~op.started]
      /\ IF op.kind = "clone" THEN Go("read") /\ UNCHANGED staging ELSE End(op, TRUE)
      /\ UNCHANGED <<repos, bench>>

BackupFails ==
  /\ op.pc \in {"collect", "dump", "write"} /\ Fault
  /\ host' = [host EXCEPT ![op.source].up = @ /\ ~op.started]
  /\ End(op, FALSE)
  /\ UNCHANGED <<repos, bench, arch>>

\* The bench was stopped or deleted under the backup.
BackupCannot ==
  /\ op.pc \in {"collect", "dump", "write"} /\ NoFault
  /\ IF At("collect") THEN ~Tracked(op.source) ELSE ~host[op.source].up
  /\ End(op, FALSE)
  /\ UNCHANGED <<repos, bench, host, arch>>

(***************************************************************************)
(* Restore, the second half of a clone, and a verification.                *)
(***************************************************************************)
Overrides == {NoApps} \cup {[a \in {"kb"} |-> [source |-> r, branch |-> b]] :
                             r \in Repos \ {Upstream}, b \in Branches \ Tags}

StartRestore ==
  /\ arch # NoArch /\ staging' = TRUE
  /\ \E t \in Names, latest, keep \in BOOLEAN, over \in Overrides, skip \in BOOLEAN :
       /\ skip => arch.key = None
       /\ keep => ~latest /\ over = NoApps \* it matters to a failure only
       /\ Begin([NoOp EXCEPT !.kind = "restore", !.pc = "read", !.target = t,
                   !.opts = [NoOpts EXCEPT !.latest = latest, !.over = over, !.keep = keep, !.skipKey = skip]])

StartVerify ==
  /\ arch # NoArch /\ staging' = TRUE
  /\ Begin([NoOp EXCEPT !.kind = "verify", !.pc = "read", !.target = Throwaway,
              !.opts = [NoOpts EXCEPT !.realloc = TRUE,
                          !.domain = IF arch.domain = None THEN None ELSE "verify.invalid"]])

\* Header first, then every member against the manifest's checksums.
ReadArchive ==
  /\ At("read") /\ ~arch.damaged /\ NoFault
  /\ op' = [op EXCEPT !.pc = "gates", !.m = arch]
  /\ UNCHANGED <<repos, bench, host, arch, staging>>

\* The rows of the dump's apps table.
Rows(m) == {[app |-> a, branch |-> IF a = "frappe" THEN m.frappe.branch ELSE None] : a \in m.data.apps}

\* Import: the site's manifest is made up from the dump, flags and defaults.
ImportDump ==
  /\ At("idle") /\ arch # NoArch /\ ~arch.foreign
  /\ \E d \in {D!inspectDump(lines) : lines \in D!DumpsOf(Rows(arch), None)} :
     \E t \in Names, requested \in {None} \cup (Branches \ Tags), named \in SUBSET (Apps \ {"frappe"}) :
       LET b == D!chooseFrappeBranch(d, requested, FALSE)
           p == D!planDumpApps(d, named)
           m == [NoArch EXCEPT !.name = t, !.frappe = [source |-> Upstream, branch |-> b.branch],
                   !.apps = {[source |-> a, branch |-> None] : a \in named}, !.installed = p.installed,
                   !.data = arch.data, !.files = arch.files, !.key = arch.key, !.foreign = TRUE]
       IN  /\ D!Importable(d) /\ D!chooseDBEngine(d, None) # None /\ ~b.refused /\ p.problems = {}
           /\ budget.ops < MaxOps /\ budget' = [budget EXCEPT !.ops = @ + 1]
           /\ op' = [NoOp EXCEPT !.kind = "import", !.pc = "gates", !.target = t, !.m = m]
           /\ staging' = TRUE
  /\ UNCHANGED <<repos, bench, host, arch>>

Plan == planRestoreApps(op.m, op.opts.over)

nameCollisions(n) == Tracked(n) \/ host[n].dir \/ host[n].volumes

\* GitHub is asked about names and commits, and may not answer.
Refusals(answers) ==
  checkRestorePlan(op.m, Plan, op.opts.over)
  \cup (IF answers THEN checkBareNames(Plan) ELSE {})
  \cup (IF answers /\ ~op.opts.latest
        THEN {<<"commit gone", a>> : a \in checkPinnedCommits(op.m, Plan, repos.served)} ELSE {})
  \cup (IF op.m.key = None /\ ~op.opts.skipKey THEN {<<"no key", op.target>>} ELSE {})
  \cup (IF nameCollisions(op.target) THEN {<<"name taken", op.target>>} ELSE {})

\* The same with the live probe only (a mutant).
restorePortsProbed(m, o) ==
  IF o.realloc \/ m.port \in Listening THEN 0 ELSE m.port

\* The archived pair when it is neither listened on nor anybody's.
restorePorts(m, o) ==
  IF o.realloc \/ m.port \in Listening \cup Claimed THEN 0 ELSE m.port

Gates ==
  /\ At("gates") /\ NoFault
  /\ \E answers \in BOOLEAN :
       IF Refusals(answers) # {} THEN End(op, FALSE)
       ELSE /\ op' = [op EXCEPT !.pc = "create", !.port = restorePorts(op.m, op.opts)]
            /\ UNCHANGED staging
  /\ UNCHANGED <<repos, bench, host, arch>>

\* git clone --branch ref; bench init and bench get-app name the remote upstream.
RepoOf(s) == IF IsURL(s) THEN s.source ELSE CHOOSE r \in Repos : RepoName[r] = s.source
RefOf(s)  == IF s.branch # None THEN s.branch ELSE IF IsURL(s) THEN Main ELSE Plan["frappe"].spec.branch

CloneOf(s) ==
  LET r == RepoOf(s)
      b == RefOf(s)
  IN  [git |-> TRUE, remote |-> r, head |-> repos.tip[r][b], branch |-> IF b \in Tags THEN "HEAD" ELSE b,
       tracking |-> IF b \in Tags THEN None ELSE b, tag |-> IF b \in Tags THEN b ELSE None,
       on |-> {b} \ Tags, tagged |-> b \in Tags, edits |-> FALSE]

Cloned == (DOMAIN Plan \ FromArchive(Plan)) \cup {"frappe"}

CanClone(s) == /\ IsURL(s) \/ s.source \in Registry
               /\ RefOf(s) \in Branches
               /\ repos.tip[RepoOf(s)][RefOf(s)] # NoCommit

\* Aliases come back only under the archived name.
RestoredAliases == IF op.target = op.m.name THEN op.m.aliases ELSE {}
RestoredDomain  == IF op.opts.domain # None THEN op.opts.domain ELSE op.m.domain

checkAliasesFree(hs, self) == \A n \in AllNames \ {self} : hs \cap HostsOf(n) = {}

NewPort ==
  IF op.port # 0 THEN (IF op.port \in Listening THEN 0 ELSE op.port)
  ELSE LET free == Ports \ (Claimed \cup Listening)
       IN  IF free = {} THEN 0 ELSE CHOOSE p \in free : \A q \in free : p <= q

CanCreate ==
  /\ ~Tracked(op.target) /\ NewPort # 0 /\ checkAliasesFree(RestoredAliases, op.target)
  /\ \A a \in Cloned : CanClone(Plan[a].spec)

Create ==
  LET t == op.target
      code == [a \in Cloned |-> CloneOf(Plan[a].spec)]
  IN  /\ At("create") /\ CanCreate /\ NoFault
      /\ bench' = [bench EXCEPT ![t] =
            [port |-> NewPort, domain |-> RestoredDomain, aliases |-> RestoredAliases,
             frappe |-> Plan["frappe"].spec, apps |-> {Plan[a].spec : a \in Cloned \ {"frappe"}}]]
      /\ host' = [host EXCEPT ![t] = [NoHost EXCEPT !.dir = TRUE, !.volumes = TRUE, !.up = TRUE, !.code = code,
            !.data = [v |-> 0, apps |-> {"frappe"}], !.pw = "record", !.patched = TRUE, !.migrated = Heads(code),
            !.serves = Heads(code)]]
      /\ op' = [op EXCEPT !.pc = "unpack", !.made = TRUE]
      /\ UNCHANGED <<repos, arch, staging>>

\* Create removes what it made itself.
CreateFails ==
  /\ At("create") /\ (Fault \/ (~CanCreate /\ NoFault))
  /\ End(op, FALSE)
  /\ UNCHANGED <<repos, bench, host, arch>>

Step(pc, h) ==
  /\ NoFault /\ Go(pc)
  /\ host' = [host EXCEPT ![op.target] = h]
  /\ UNCHANGED <<repos, bench, arch, staging>>

Target == host[op.target]

\* Archived source goes in before anything reads the apps.
installArchivedApps ==
  /\ At("unpack")
  /\ Step("pin", [Target EXCEPT !.code = [a \in DOMAIN @ \cup FromArchive(Plan) |->
                                            IF a \in FromArchive(Plan) THEN op.m.trees[a] ELSE @[a]]])

\* A shallow clone has the tip only: each pinned commit is fetched by itself,
\* and the checkout throws ffm's own edits away.
Pinned(skip) == {a \in pinnable(op.m, Plan) \ skip : /\ op.m.infos[a].commit # NoCommit
                                                     /\ a \in DOMAIN Target.code /\ Target.code[a].git}

Checkout(c, commit) == [c EXCEPT !.head = commit, !.branch = "HEAD", !.tracking = None, !.edits = FALSE,
                                 !.on = {b \in @ : c.head = commit}, !.tagged = c.tagged /\ c.head = commit]

Pins == ~op.opts.latest /\ ~op.m.foreign

pinApps ==
  /\ At("pin")
  /\ \E skip \in {{}} \cup {{a} : a \in Apps} :
       LET pinned == IF Pins THEN Pinned(skip) ELSE {}
       IN  /\ (IF skip = {} THEN NoFault ELSE Fault)
           /\ \A a \in pinned : <<Target.code[a].remote, op.m.infos[a].commit>> \in repos.served
           /\ host' = [host EXCEPT ![op.target].code =
                         [a \in DOMAIN @ |-> IF a \in pinned THEN Checkout(@[a], op.m.infos[a].commit) ELSE @[a]],
                         ![op.target].patched = @ /\ "frappe" \notin pinned]
           /\ op' = [op EXCEPT !.pc = "drift", !.warned = IF Pins THEN skip ELSE {}]
  /\ UNCHANGED <<repos, bench, arch, staging>>

\* No commit to fetch: everything is undone.
PinGone ==
  /\ At("pin") /\ NoFault /\ Pins
  /\ \E a \in Pinned({}) : <<Target.code[a].remote, op.m.infos[a].commit>> \notin repos.served
  /\ Go("undo") /\ UNCHANGED <<repos, bench, host, arch, staging>>

Drifted == {a \in pinnable(op.m, Plan) \cap DOMAIN Target.code :
              op.m.infos[a].commit \notin {NoCommit, Target.code[a].head}}

\* A check made only where the restore pins (a mutant).
checkDriftPinned ==
  /\ At("drift") /\ NoFault
  /\ op' = [op EXCEPT !.pc = "config", !.warned = IF Pins THEN @ \cup Drifted ELSE @]
  /\ UNCHANGED <<repos, bench, host, arch, staging>>

\* Before migrate runs on it, code that is not the archived one is named.
checkDrift ==
  /\ At("drift")
  /\ \/ NoFault /\ op' = [op EXCEPT !.pc = "config", !.warned = @ \cup Drifted]
     \/ Fault /\ op' = [op EXCEPT !.pc = "config", !.warned = pinnable(op.m, Plan)]
  /\ UNCHANGED <<repos, bench, host, arch, staging>>

\* Host-side and before anything reads the site, which would mint a key.
applySiteConfig ==
  /\ At("config")
  /\ Step("load", [Target EXCEPT !.key = IF op.m.key # None THEN op.m.key ELSE @])

runBenchRestore ==
  /\ At("load")
  /\ Step("password", [Target EXCEPT !.data = op.m.data, !.files = op.m.files, !.pw = "dump",
                                     !.key = IF @ = None THEN "minted" ELSE @])

setAdminPassword == At("password") /\ Step("settings", [Target EXCEPT !.pw = "record"])
\* installed_apps, use, developer_mode and host_name, then migrate on this code.
Settings == At("settings") /\ Step("migrate", Target)
Migrate  == At("migrate") /\ Step("build", [Target EXCEPT !.migrated = Heads(Target.code)])
\* bench build, the realtime patches and the check that they took.
Build    == At("build") /\ Step("restart", [Target EXCEPT !.patched = TRUE])
Restart  == At("restart") /\ Step("record", [Target EXCEPT !.serves = Heads(Target.code)])

\* The site's list of apps, or apps.txt where the site does not answer.
Record ==
  /\ At("record")
  /\ \E listed \in BOOLEAN :
       /\ (IF listed THEN NoFault ELSE Fault)
       /\ bench' = [bench EXCEPT ![op.target].apps =
            appsWithoutFramework(op.m, Plan, IF listed THEN Target.data.apps ELSE DOMAIN Target.code)]
  /\ IF op.kind = "verify" THEN Go("ping") /\ UNCHANGED staging ELSE End(op, TRUE)
  /\ UNCHANGED <<repos, host, arch>>

\* The removal deferred only after the archived apps are in (a mutant).
StepFailsBare ==
  /\ op.pc \in {"unpack", "pin", "config", "load", "password", "settings", "migrate", "build", "restart", "record"}
  /\ Fault
  /\ IF At("unpack") THEN End(op, FALSE) ELSE Go("undo") /\ UNCHANGED staging
  /\ UNCHANGED <<repos, bench, host, arch>>

StepFails ==
  /\ op.pc \in {"unpack", "pin", "config", "load", "password", "settings", "migrate", "build", "restart", "record"}
  /\ Fault /\ Go("undo")
  /\ UNCHANGED <<repos, bench, host, arch, staging>>

\* The new bench is read once more before its removal is deferred: that failing,
\* it stays.
CreatedUnread ==
  /\ At("unpack") /\ Fault
  /\ End([op EXCEPT !.left = "bench"], FALSE)
  /\ UNCHANGED <<repos, bench, host, arch>>

\* deleteLocked: the teardown's failures are warnings, only a record that stays
\* is an error.
Gone(n) == bench' = [bench EXCEPT ![n] = NoRec] /\ host' = [host EXCEPT ![n] = NoHost]

\* What docker did not remove (volumes, and containers that hold them), and the
\* directory.
Remains == {[NoHost EXCEPT !.dir = TRUE], [NoHost EXCEPT !.volumes = TRUE], [NoHost EXCEPT !.dir = TRUE, !.volumes = TRUE]}

Torn(n)        == bench' = [bench EXCEPT ![n] = NoRec] /\ \E h \in Remains : host' = [host EXCEPT ![n] = h]
RecordStays(n) == UNCHANGED bench /\ \E h \in Remains \cup {NoHost, host[n]} : host' = [host EXCEPT ![n] = h]

\* The undo's deletion writes to DiscardProgress: of a failing teardown nothing
\* is said.
Undo ==
  /\ At("undo")
  /\ IF op.opts.keep THEN NoFault /\ End(op, FALSE) /\ UNCHANGED <<bench, host>>
     ELSE \/ NoFault /\ Gone(op.target) /\ End(op, FALSE)
          \/ Fault /\ Torn(op.target) /\ End([op EXCEPT !.left = "remains"], FALSE)
          \/ Fault /\ RecordStays(op.target) /\ End([op EXCEPT !.left = "told"], FALSE)
  /\ UNCHANGED <<repos, arch>>

\* verify --restore: the site answers or not, the bench goes, with warnings.
Ping ==
  /\ At("ping")
  /\ \/ NoFault /\ op' = [op EXCEPT !.pc = "discard", !.ok = TRUE]
     \/ Fault /\ Go("discard")
  /\ UNCHANGED <<repos, bench, host, arch, staging>>

Discard ==
  /\ At("discard")
  /\ \/ NoFault /\ Gone(op.target) /\ End(op, op.ok)
     \/ Fault /\ (Torn(op.target) \/ RecordStays(op.target)) /\ End([op EXCEPT !.left = "told"], op.ok)
  /\ UNCHANGED <<repos, arch>>

(***************************************************************************)
(* The rest of the world.                                                  *)
(***************************************************************************)
Moves == /\ budget.moves < MaxMoves
         /\ budget' = [budget EXCEPT !.moves = @ + 1]
         /\ UNCHANGED <<op, staging>>

Push ==
  \E r \in Repos, b \in Branches \ Tags :
    LET new == [repos.tip[r][b] EXCEPT !.n = @ + 1]
    IN  /\ repos.tip[r][b] # NoCommit /\ Moves
        /\ repos' = [tip |-> [repos.tip EXCEPT ![r][b] = new], served |-> repos.served \cup {<<r, new>>}]
        /\ UNCHANGED <<bench, host, arch>>

\* The old commits are collected once no ref holds them.
ForcePush ==
  \E r \in Repos, b \in Branches \ Tags :
    LET tip == [repos.tip EXCEPT ![r][b] = [line |-> "forced", n |-> 1]]
        held == {tip[r][x] : x \in Branches}
    IN  /\ repos.tip[r][b] # NoCommit /\ Moves
        /\ repos' = [tip |-> tip,
                     served |-> {s \in repos.served : s[1] # r} \cup {<<r, c>> : c \in held \ {NoCommit}}]
        /\ UNCHANGED <<bench, host, arch>>

DropBranch ==
  \E r \in Repos, b \in Branches \ Tags :
    /\ repos.tip[r][b] # NoCommit /\ Moves
    /\ repos' = [repos EXCEPT !.tip[r][b] = NoCommit]
    /\ UNCHANGED <<bench, host, arch>>

\* Whoever works on a bench commits to its apps, and uses its site.
UserCommit ==
  \E n \in Names \ {op.target}, a \in Apps \ {"frappe"} :
    /\ Tracked(n) /\ a \in DOMAIN host[n].code /\ host[n].code[a].git /\ Moves
    /\ host' = [host EXCEPT ![n].code[a] = [@ EXCEPT !.on = {}, !.tagged = FALSE,
                  !.head = [line |-> "own", n |-> host[n].code[a].head.n + 1]]]
    /\ UNCHANGED <<repos, bench, arch>>

ChangeData ==
  \E n \in Names \ {op.target} :
    /\ host[n].up /\ Moves
    /\ host' = [host EXCEPT ![n].data.v = @ + 1]
    /\ UNCHANGED <<repos, bench, arch>>

\* Stop and start take no lock; a deletion takes that of its bench.
Toggle ==
  \E n \in Names \ {op.target} :
    /\ Tracked(n) /\ Moves
    /\ host' = [host EXCEPT ![n].up = ~@]
    /\ UNCHANGED <<repos, bench, arch>>

BackingUp == op.pc \in {"collect", "dump", "write"}

DeleteBench ==
  \E n \in Names \ ({op.target} \cup (IF BackingUp THEN {op.source} ELSE {})) :
    /\ Tracked(n) /\ Moves /\ Gone(n)
    /\ UNCHANGED <<repos, arch>>

AddAlias ==
  \E n \in Names \ {op.target}, h \in Hosts :
    /\ Tracked(n) /\ checkAliasesFree({h}, Throwaway) /\ Moves
    /\ bench' = [bench EXCEPT ![n].aliases = @ \cup {h}]
    /\ UNCHANGED <<repos, host, arch>>

Rot == /\ arch # NoArch /\ Moves
       /\ arch' = [arch EXCEPT !.damaged = TRUE]
       /\ UNCHANGED <<repos, bench, host>>

\* A damaged archive is refused before anything is built.
ReadFails ==
  /\ At("read") /\ ((arch.damaged /\ NoFault) \/ Fault)
  /\ End(op, FALSE)
  /\ UNCHANGED <<repos, bench, host, arch>>

World == Push \/ ForcePush \/ DropBranch \/ UserCommit \/ ChangeData \/ Toggle \/ DeleteBench \/ AddAlias \/ Rot

BackupStep == StartBackup \/ StartClone \/ Collect \/ DumpSite \/ WriteArchive \/ BackupFails \/ BackupCannot

RestoreStep == \/ StartRestore \/ StartVerify \/ ReadArchive \/ ReadFails \/ ImportDump \/ Gates \/ Create \/ CreateFails
               \/ installArchivedApps \/ pinApps \/ PinGone \/ checkDrift \/ applySiteConfig \/ runBenchRestore
               \/ setAdminPassword \/ Settings \/ Migrate \/ Build \/ Restart \/ Record \/ StepFails
               \/ CreatedUnread \/ Undo \/ Ping \/ Discard

\* No ffm process, no user.
Quiet == At("idle") /\ UNCHANGED rvars

RestoreNext == BackupStep \/ RestoreStep \/ World \/ Kill \/ Answer \/ Quiet

RestoreSpec == RestoreInit /\ [][RestoreNext]_rvars

(***************************************************************************)
(* Properties.                                                             *)
(***************************************************************************)
Restores  == op.kind \in {"restore", "clone", "import"}
\* The apps that come from the commit the archive names, and nobody asked otherwise.
Expected(a) == /\ a \notin FromArchive(Plan) /\ ~overrideMovesBranch(op.m, Plan, a) /\ a \notin op.warned
               /\ InfoOf(op.m, a).commit # NoCommit

\* A restore that says it worked: the archive's data, files and key, the
\* password of the new record, an app for every name the database lists, at
\* the commit of the backup unless a warning or a flag named the app, and
\* migrated, patched and served from that very code (restore.go restoreCore,
\* reconcileAfterRestore; restore_drift.go:70 "nothing used to say so").
RestoredFaithful ==
  At("finished") /\ op.ok /\ Restores =>
    LET h == Target
    IN  /\ h.data = op.m.data /\ h.files = op.m.files /\ h.pw = "record"
        /\ op.m.key # None => h.key = op.m.key
        /\ h.data.apps \subseteq DOMAIN h.code
        /\ \A a \in DOMAIN op.m.was \cap DOMAIN Plan : Expected(a) => h.code[a].head = op.m.was[a].head
        /\ h.migrated = Heads(h.code) /\ h.serves = h.migrated /\ h.patched

\* The record of a restored bench names, for every app that was cloned, the
\* repository it was cloned from, so that a recreate finds it again
\* (restore.go:806 appsWithoutFramework).
RecordClones ==
  At("finished") /\ op.ok /\ Restores =>
    \A a \in Target.data.apps \ ({"frappe"} \cup FromArchive(Plan)) :
      \E s \in bench[op.target].apps : RepoOf(s) = Target.code[a].remote

\* A restore that fails leaves the machine as it found it: no record, no
\* directory, no volume, no staging (README.md:1088, restore.go:49), unless the
\* user asked to keep it, or the removal of the record failed and said so
\* (restore.go:268).  Excepted are two leftovers the code says nothing of: the
\* new bench, when it cannot be read back before its removal is deferred
\* (restore.go:249), and a directory or volumes whose removal failed, with the
\* warning discarded (restore.go:268, lifecycle.go:229-238); of those no record
\* is left and nothing else.
LeftAsFound ==
  At("finished") /\ ~op.ok /\ op.made /\ ~op.opts.keep /\ op.left \in {"nothing", "remains"} =>
    /\ ~Tracked(op.target) /\ ~staging
    /\ host[op.target] \in IF op.left = "nothing" THEN {NoHost} ELSE Remains

\* No two benches publish the same port or have the same alias, however the
\* second came to be (restore.go restorePorts, create.go checkAliasesFree).  A
\* domain is not compared with anything: HostsApart.
NothingShared ==
  \A n, o \in {x \in AllNames : Tracked(x)} : n # o =>
    bench[n].port # bench[o].port /\ bench[n].aliases \cap bench[o].aliases = {}

\* The archive of a backup that worked holds the source of every app whose
\* commit no remote was ever given (backup_appsource.go vendorReason).
Portable ==
  arch # NoArch =>
    \A a \in DOMAIN arch.infos \cap arch.installed :
      /\ Archived(arch.infos[a]) => a \in DOMAIN arch.trees
      /\ arch.infos[a].commit.line = "own" => Archived(arch.infos[a])

\* What a comment says of production domains: two benches never answer on one
\* name (restore.go:440).
HostsApart ==
  \A n, o \in {x \in AllNames : Tracked(x)} : n # o => HostsOf(n) \cap HostsOf(o) = {}
===============================================================================
