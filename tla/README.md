# Formal models of ffm

`ffm` (Foxmayn Frappe Manager) creates, runs, backs up and deletes Frappe
benches: Docker Compose projects with a directory, containers, volumes and one
site each. It is one Go binary used as a command line tool, as a dashboard
server and as an hourly scheduled task, so several `ffm` processes routinely
work on the same files and the same containers with nothing between them but
file locks. This directory holds TLA+ models of the parts where that matters,
the TLC runs that check them and TLAPS proofs about them.

## 1. Inventory

| Component | Code (`internal/`) | State | Operations | Interacts with |
|---|---|---|---|---|
| State store | `state/store.go`, `lock/` | `benches.json`, `.bak`, `.lock` | Add, Remove, Update, Load, Get | every operation on a bench |
| Dashboard jobs | `manager/jobs.go`, `dashboard/handler_jobs.go`, `static/jobs.js` | job map, key map, `jobs.json`, the page's text | start, run, print, end, load, stream | wraps every long dashboard operation |
| Bench lifecycle | `manager/create.go`, `recreate.go`, `lifecycle.go`, `domains.go`, `benchlock.go`, `bench/port.go` | bench lock, directory, compose file, containers, volumes, record | create + rollback, recreate, delete, start, stop, alias add/remove | store, Docker, backup |
| Backup | `manager/backup.go`, `archive/` | archives, staging directory | backup, verify | lifecycle (before destroy), schedule |
| Backup schedule, retention | `manager/backup_schedule.go`, `backup_retention.go`, `backup_policy.go` | policy, run state, archives | set schedule, run-due, prune | backup, targets, bench lock |
| Backup targets, keys | `manager/backup_targets.go`, `backup_keys.go`, `backuptarget/`, `agecrypt/` | remote archives, keys | upload, list, fetch, prune | schedule |
| Restore, clone | `manager/restore*.go`, `clone.go` | a bench being rebuilt | preflight, create, load, undo | create, delete, archive |
| Snapshots | `manager/snapshot.go` | tar files of volumes | create, restore, delete | Docker, bench lock |
| Updates, databases, passwords | `manager/update.go`, `rotate.go`, `trim.go`, `users.go`, `agent.go`, `site.go` | code, virtualenv, schema, assets, processes, passwords | one locked operation each, with a rollback | Docker, snapshots, bench lock |
| Settings and apps | `manager/scale.go`, `reconcile.go`, `restart.go`, `debug.go`, `apps.go` | record, compose file, containers, Procfile, apps | some locked, some not | store, Docker, lifecycle |
| Worktrees, project mounts | `manager/worktree.go`, `project.go`, `projectmount.go`, `cli/worktree_hook.go` | a user's repository, worktrees, benches that mount them | up, add, remove | clone, delete, git, the user |
| Status of benches | `manager/benches.go` | the last `docker ps` | read, invalidate | dashboard, jobs |
| Tunnels, host names | `manager/tunnel_ops.go`, `setproxy.go`, `tunnel/` | profiles, `frpc.toml`, a container, record, `host_name` | enable, disable, set-proxy | store, Docker |
| Shared proxy | `proxy/` | one Traefik container for all benches | start, stop, ensure HTTPS | create, Docker |
| Login throttle | `dashboard/auth_limit.go` | failures per address and overall | check, fail, success, sweep | every page |
| Scheduler | `scheduler/`, `cli/backup_scheduler.go` | cron line, systemd, launchd or Windows files | install, remove | schedule, run-due |
| Editor configuration | `mcpinstall/`, `cli/mcp_install.go` | JSON and TOML files of other programs | install, uninstall | those programs |
| Self-update | `cli/update.go`, `update_check.go` | the binary, a cache of the latest release | check, update | the publisher |
| Other CLI, notifications, templates | `cli/`, `notify/`, `bench/` | little | parsing, text | all of the above |

What is hard here, and what must hold:

* **The store.** A read-modify-write by many processes, an atomic file
  replacement with a copy of the previous version, lock waits with a deadline.
  No update may be lost, no reader may see half a file, a reported error must
  mean an unchanged file.
* **Jobs.** One job per bench at a time, also across a restart that reads old
  jobs back; the running job must survive a cap on finished ones; the live page
  must reconnect without showing lines twice.
* **The lifecycle.** An operation is a dozen external commands, each of which
  can fail, and the process can be killed between any two. Some operations take
  the bench lock and some do not. A site must never be destroyed without an
  archive of it, a rollback must never reach a bench that is tracked, nothing
  may be left of a deleted bench.
* **Schedule and retention.** Time: due dates with slack, buckets per hour, day
  and week, a floor. Pruning must not remove what the policy promised to keep.
* **Archives.** Written, encrypted, uploaded, downloaded and unpacked by steps
  that are cut short; nothing partial may pass for an archive.
* **Restores.** The world has moved on since the backup: branches, remotes, ports,
  the source bench. A restore that says it worked must be that site on that code,
  one that failed must leave nothing.
* **Updates and passwords.** Code, schema, assets and processes must change together or
  go back together; a password that is replaced must be known to somebody throughout.
* **What ffm shares with others.** A client's configuration, a user's worktree, the
  crontab, the binary itself: changed by programs that know nothing of ffm's locks.

`PROJECT.json` lists every component with its status, and every hazard with its
line and the properties that watch it.

## 2. Modules

| Module | Models |
|---|---|
| `BenchRecords` | the contents of `benches.json` as a sequence of records and the pure functions of `store.go` on it (`add`, `remove`, `update`, `Get`, `Exists`) |
| `Registry` | the abstract specification: a list of records on which every call takes effect once, atomically, or not at all |
| `StateStore` | `store.go` over `lock.go`, one action per system call |
| `Jobs` | the job store, its goroutines, `jobs.json`, the event stream and the page |
| `BenchLifecycle` | the operations that make and destroy benches, one action per external command |
| `Retention` | which archives a policy keeps: the floor, the tiers, and the loop of the code that chooses them |
| `BackupSchedule` | the schedule, passes of run-due, backups from dump to confirmed upload, prunes here and on a target |
| `AppSources` | where an app's code comes from: what a backup records, archives and refuses, what a restore plans (pure functions) |
| `FrappeDump` | what one pass over a foreign database dump finds (pure functions) |
| `Restore` | backups, restores, clones, imports and verifications by restore, in a world that changes |
| `Transit` | one archive from the dump's host through a target or a web server to another host |
| `Upkeep` | updates with rollback, snapshots, database swaps, password changes of one bench |
| `Rollout` | how settings and apps reach the compose file, the containers and the dev server |
| `Worktree` | project benches and worktree benches next to a user who works in the repository |
| `Tunnel` | tunnel profiles, frpc, host names |
| `Proxy` | the shared Traefik container |
| `HourlyJob` | the hourly job on cron, systemd, launchd and Windows |
| `ConfigText` | the edits of a client's JSON and TOML text |
| `McpInstall` | plan, question, backup and write of a client's configuration |
| `SelfUpdate` | the update of the binary |
| `BenchStatus` | the cached statuses and the pages that show them |
| `Throttle` | the limiter of failed logins |
| `MC*` | constants, symmetry and side-by-side composition for TLC |
| `BenchRecordsProofs`, `JobsProofs`, `BenchLifecycleProofs`, `BackupScheduleProofs`, `RestoreProofs`, `UpkeepProofs`, `ConfigTextProofs` | lemmas, invariants and theorems about the module of the name, `JobsProofs` about `BenchStatus` and `Throttle`, `BackupScheduleProofs` about `Transit`, `UpkeepProofs` about `Rollout` and `Worktree` |
| `HostProofs` | the same about `StateStore`, `McpInstall`, `Tunnel`, `SelfUpdate`, `Proxy` and `HourlyJob` |

How they fit: `StateStore` shows that a call of the store is one atomic step, and every
other module uses it as one. `BenchLifecycle` shows what creating and deleting do, step
by step, and `Restore` and `Worktree` use them as one step with its failure.
`BackupSchedule` has the order of a backup's steps among other operations, `Restore` what
a backup records, `Transit` whether the file survives. `FrappeDump` and `AppSources` are
the functions `Restore` calls.

### StateStore and Registry

`pc[p]` is the system call that process `p` makes next. `Call` enters
`Store.locked`, `Acquire` is the `TryAcquire` of the retry loop that succeeds,
`Timeout` its deadline and `LockFails` any other error. `Modify` loads the file
and computes what is to be saved (`buf`); then `Save` keeps the previous version
(`KeepPrevious`, and the three steps of `writeFileAtomic` on `.bak`) and writes
the new one (three more). `Fail` makes any of these calls return an error, which
removes the temporary file and leaves through the deferred `Release`; `Crash`
kills the process and the operating system drops its lock. A file is a record
with its contents and whether it is completely written (`whole`).

`ImplementsRegistry` maps `file` to the list of records and each process's
outcome to `Registry`'s: the call takes effect at the rename. A call that
answered `"error"` must have changed nothing, and one that answered `"ok"` must
have taken effect once, on the contents of that moment. `Registry` has no code of
its own: it is what the comment at `store.go:224` promises the callers.

### Jobs

All accesses to the store hold `JobStore.mu`, so each is one action. `Persist` is
`persistLocked`: it drops finished jobs above the cap from memory as well, then
writes `jobs.json` in place with errors ignored (the file keeps its old contents
or becomes unreadable; `intact` remembers that this happened). `gor` is the
goroutine of a job, which `Crash` loses. Output lines are their absolute numbers, so
that order and duplication can be seen. The page is `page` and `stream`: `Open`
renders it, `Connect` is its `EventSource`, `Event` one message with the code of
both ends (`newJobLines` and `onmessage`), `Disconnect` a broken connection.

### BenchLifecycle

Per bench name: the record, the bench lock, the directory (absent, without a
compose file, or what the compose file was rendered from), containers, volumes.
Per process: the call, the step it is at (`pc`), the record it read (`seen`) and
the port pair it builds with. Each action is one external command or one call of
the store, which `StateStore` shows to be atomic; the comment over each says which.
`Fail` is a command that fails at any step that returns its error, `Warn` one at a
step that only prints it, `Misread` the existence check whose read error is taken
for "no such bench", `Crash` a killed process. Creating and recreating share the
steps from the existence check on, as the code does. Start, Stop, DomainAdd and
DomainRemove take no bench lock: they run between any two steps of the others.
`expendable`, `leftover` and `promised` are history: sites that are in an archive
or given up by `--no-backup`, names where a failure left something, aliases whose
saving was reported as done.

A record's value is its port pair and its aliases; of a site only its existence is
kept. The steps inside the containers (`bench init`, `new-site`, apps, assets) are
`BuildImage` and `MakeSite`.

### Retention and BackupSchedule

`Retention` has no state. `Tier` says what a tier keeps (of each of the newest
`limit` buckets one archive, preferably one with attachments), `Visit` and `Pass`
are the loop of `selectRetained` over the list of the archives (`Nth`), and
`PassesAgree` compares the two. The calendar
is three constants that put every time into an hour, a day and a week.

`BackupSchedule` has one bench, its archives in `local`, the ones on its target in
`remote`, and what is half written in `partials`. An archive is one file of a form:
plain, encrypted with its header next to it, or encrypted alone (`headless`), which
`ScanArchives` cannot identify. `LoadBenches` and `CheckDue` are the part of a pass
before the bench lock, `LockBench` the lock that is never waited for; then one action
for each of the steps after which other files exist: `Dump`, `CreateArchive`,
`CloseArchive`, `Encrypt`, `Sidecar`, `Replace`, `Put`, `PutSidecar`, `Confirm`, `Prune`,
`PruneRemote`. `Fail` is an error at any of them with the clean-up that the code does,
`Crash` a killed process, which leaves all of it and may have pruned half.
The clock is a variable that `Tick` advances between any two steps, so a step may take
long enough for a partial file to become old. `taken` is history: the scheduled
archives that prunes have looked at, and the policies that prunes, and passes from their
dump on, have followed; a prune that is killed has looked too (`Looks`). Archives written to another place with `--out` are
nobody's candidates and left out; so are several benches in one pass (each is handled
alone, under its own lock) and more than one target.

### AppSources, FrappeDump and Restore

`Restore` is one `ffm` process at a time whose operation (`op`) goes from step to step,
while the rest moves: branches of remotes advance, are rewritten or deleted, the source
is stopped, started, changed and deleted, the archive is damaged. A bench on disk is
`host`: directory, volumes, containers, the data with the apps its database lists, files,
encryption key, which password works, per app the checkout, what is migrated and what is
served. `Collect`, `DumpSite` and `WriteArchive` are a backup; `ReadArchive` to `Gates` the
preflight that may refuse and changes nothing; `Create` is `BenchLifecycle`'s create in
one step; then `installArchivedApps`, `Checkout`, `Pins`, `checkDrift`, `applySiteConfig`,
`runBenchRestore`, `setAdminPassword`, `Settings`, `Migrate`, `Build`, `Restart`, `Record`;
`StepFails` and `Undo` are a failure at any of them. `StartVerify` restores under a
throwaway name and removes it. A commit is a point on a line of history, so that whether a
branch still contains it can be asked; app specs, plans and pins are computed by
`AppSources`, which has no state. `FrappeDump` reads a
dump by `scanLine`, one line after the other (`Scan`).

### Transit

A file is the sequence of members written so far, whether the last is cut, which members
are spoilt, and whether it is sealed by encryption. `sender` writes members, closes,
encrypts, writes the header file and uploads in `PutOrder`; `fetch` picks the newest
archive by its header, downloads, compares the size, decrypts, peeks at the header,
extracts and compares with the manifest. Targets differ in what a killed upload leaves.
Reader and writer run at once. Not in it: SFTP servers without the posix-rename
extension, where `Put` removes before it renames.

### Upkeep and Rollout

`Upkeep` gives code, virtualenv, image, schema, assets and processes of one bench the
number of the release they belong to, 0 when a command left them half-way, and each
command of `applyUpdate`, `rollbackUpdate`, `restoreSnapshotLocked`, `rotateDBRoot` and so
on is an action; `CommandFails` has its outcomes: nothing, all or half done (`Loaded` for a
`bench restore`, which may have brought the dump's Administrator before it failed). `told`
holds passwords that an error message named. `loose` holds doubts: `admin` and `root` an
error named; `dump`, `agent`, `secret` and `lost` (a kill) are those the code does not
speak of, each set only by the step that is silent and, except the last, cleared by the
next one that settles it. `RewriteSecret` is a change of the domains, which has no lock and
writes the root password of the record it read into the secret file. `excused` says that the
update found the bench half-way or could not turn maintenance on. `Rollout` follows a record through `RenderCompose` to `compose`, from
there to `containers` by `ComposeUp`, and on a dev bench through the Procfile to the running server; each
operation reads the record once (`read`) and works from that. `unapplied` and `unfinished`
say that an error, a kill or an overlap is the reason for a difference.

### Worktree

Per branch: the git branch with whether it has commits of its own, what is at the path of
its worktree, what `git status` would list there, the bench record and its lock. `AddCheck`
to `Setup` are `WorktreeAdd`, `Resolve` to `DeleteBranch` `WorktreeRemove`. git is external:
`GitCanAdd`, `GitRemoves` and the condition in `DeleteBranch` are what the code relies on it
to refuse. The user edits, commits, merges, makes and removes branches and files, moves the
checkout and deletes benches between any two steps.

### Tunnel, Proxy, HourlyJob

Three parts where ffm drives an external program without a lock. `Tunnel`: `tkept[b]` says
that the last calls on a bench ended well and alone, so that the record and the world must
agree; `blind` in a call, that a `docker inspect` of it failed and it took the container
there is for none (`LooksBlind`). `Proxy`: `promised` is what successful calls left, `disturbed` that one failed or
overlapped another since; `StartGoes`, `StopGoes` and `HttpsGoes` are the decisions from
one `docker inspect`. `HourlyJob`: a job is the version of ffm it runs, `stored` the files
and `loaded` what the scheduler of the system has; `promise` is what the last command that
ended well left, `loose` that a job may be where ffm does not look, which it said, and
`left` the backends where a command that ended well left a job behind without a word: a stop
(`Unload`) or a look (`ChooseBlind`) failed, and the code takes that for "nothing there".

### ConfigText, McpInstall, SelfUpdate

A JSON object is a sequence of tokens: members, commas, line breaks, blanks, comments that
end with the line or do not. `memberCuts` and `appendMember` compute positions as the code
does, and `checkRemoveResult` is the check of its result that makes an edit refused. A TOML
text is a sequence of lines, and `scanTOML` carries an open multi-line string from line to
line (`inString`). `Goes` are the lines a removal takes out, `keep` what it leaves, and `Foreign`
is what belongs to the other tables. `McpInstall` takes a file as its entry and a version of the rest: `PlanFile`, `Answer`,
`Reread`, `WriteBackup`, `WriteFile`; `Rewrite` and `ByHand` are the client and its user. Claude
Code's file is changed by running its command (`RunWorks`, `RunRefused`, `RunFails`,
`RemoveFirst`). `SelfUpdate` has the publisher (`Publish`, `UploadAsset`), the downloads and
both ways to swap the binary; the cached look for a newer release only prints a notice and
is left out.

### BenchStatus and Throttle

`BenchStatus`: a page loads the records (`List`), loads them again (`StatusAll`), reads or
asks docker under `statusMu` and shows (`Show`); `ChangeBench` changes benches meanwhile. `held` and
`since` remember which status a bench had when. `Throttle`: a request is let in and reports
later; durations are `Width`-bit integers, so that the shift in `backoff` overflows as it
would at 64 bits (`Shifted`), and `prune` drops what is old from the head of the list, as the
code does.

## 3. Runs

Side by side. Most runs have several parts: a variable `part`, chosen at the start and
never changed, says which model moves. The models of one run share no variable and no
action, so a behaviour of all of them together is an interleaving of behaviours of each,
and a property about one of them holds of all interleavings exactly when it holds of that
one alone. What does interact is inside one module: processes, users, the world, the page. An MC module
extends the modules that its theorems are about and takes the others by `INSTANCE`.

| Run | Parts and bounds | Question |
|---|---|---|
| `host` | store: 2 processes, 1 name, 2 contents; texts: JSON with 3 servers, comments and breaks, TOML up to 5 lines; MCP: 2 processes, 1 change by the client; job: 3 systems, 1 schedule, 4 commands, 1 fault; binary: 2 processes, 2 builds, 2 faults; proxy and tunnels: 2 processes, 2 benches, 3 calls, 1 fault | is the store an atomic registry; does what ffm keeps beside its benches survive failures, kills and others that write too |
| `jobs` | jobs: 3 of 2 keys, cap 1, 2 restarts, or 1 with 5 lines of which 2 are kept; restore: 2 names, 2 apps, a fork named otherwise, 3 operations, 1 fault, 1 change of the world, 4 of these together; throttle: 2 requests, 2 addresses, 7 ticks, 4-bit durations; status: 1 bench, 2 pages, 2 ticks | one job per key, final outcomes, is the page in order and complete; is a restore that worked faithful and one that failed gone; do lockouts hold; are pages fresh |
| `lifecycle` | benches: 2 processes, 1 bench, 1 fault, the operations that take the lock; jobs: 2 of one key, 1 restart; with fairness | is the lock given back and nothing left of a bench that is gone; is the key given back |
| `benches` | lifecycle: 2 processes, 1 bench, 1 alias, 1 fault, all operations; upkeep: 2 users, 2 releases, 3 passwords, 3 operations, 2 faults, 3 of both together; rollout: 2 users, 3 operations, 1 fault, 3 of both together; worktrees: 2 processes, 1 branch, 2 moves of the user, 1 fault | unique names, rollback, archive before destruction; updates, passwords, settings, apps and worktrees |
| `archives` | passes: 2 processes, 3 calls, 4 times, 1 fault, 3 calls and faults together, an hourly policy with a target; history: passes one at a time under a schedule that keeps 1 hour, 2 days and 2 weeks, 4 calls, 13 times in 3 days and 2 weeks, 1 interrupted prune; transit: every kind of target, 2 faults | distance, prunes, promises over weeks, the loop of `selectRetained`; does nothing partial pass for an archive |

Why the bounds are enough.

* *Store:* two processes already give every order of two read-modify-writes, with a third
  call following a crash; one name with `MaxRecs = 1` gives duplicate records (two adds
  that both found none), removals of several and updates of a record somebody removed; the
  theorems hold for all names and values.
* *Jobs:* three jobs with a cap of one put a running job below finished ones and drop one
  for newer ones. Five lines with two kept cut more than once, also between two events.
* *Lifecycle:* benches meet only in their ports (`port_twice`), so one is enough. One fault at any step of either process reaches every rollback; a second one
  only repeats what `leftover` already excuses. `MaxFaults` counts failed commands and
  killed processes together; commands that cannot work (`Impossible`) fail without being
  counted.
* *Archives:* in `passes` an interval is three units, the slack one and a partial file is
  old after one, so within four times an archive is due early, due and not due, and a slow
  backup has an old partial file; three calls are two passes and a third call between
  them, two calls and a fault the same cut short. In `history` an hour is three units, a day two hours and
  a week two days: four passes reach the third day, which is one more than the daily tier keeps.
  The floor is one instead of three, so that fewer archives reach it. In `transit` two things go wrong: the upload of
  a cut file and its download, say.
* *Restore:* three operations are a backup, a restore from it and one after that; a backup and
  a restore meet a fault and a change of the world, three operations one of the two. The first
  bench's app is at its branch, unpushed, or on a tag; a fork has a repository name that is
  no app's name.
* *Upkeep:* two faults are one in an update and one in its rollback, which needs no second
  operation; two operations with one fault are an
  update after a snapshot, a rotation after another; three without are a rotation while a
  domain changes and one more rotation with the secret file that leaves. Three passwords are
  one to start with and two new ones.
* *Rollout, tunnels, proxy:* three operations of two users: one that fails, one that
  repairs it and, in the last two, one that overlaps.
* *Hourly job:* four commands install, move, fail and install again. *Texts:* the
  gaps of a JSON text hold every kind of comment and break around one member, comments to the
  end of the line and over lines between two, those over lines between three; four TOML lines hold two tables with a foreign one between
  them, or a string that looks like one, five more of the tables alone. *Throttle:* the shift reaches the sign at the fourth strike of four bits.
* *Worktrees:* one branch, since a branch's path, bench and lock are its own; two moves of
  the user between any steps are a change and what follows from it.

The counts of two kinds of events are bounded together where the run says so (`MaxEvents`,
`MaxCalls`): the largest instances of both at once show nothing new and take too long.

`CHECK_DEADLOCK FALSE` is said only in the runs that show a disagreement. In the others a
part that has used up its bounds stutters, explicitly.

### Runs that show a disagreement

Each checks one sentence of the code's comments or documents, and TLC finds the
steps that contradict it.

| Run | The text says | What happens |
|---|---|---|
| `lost_alias` | `store.go:224`: concurrent processes cannot lose each other's updates | DomainAdd computes the list outside the lock; the second of two adds writes over the first (`domains.go:199`) |
| `start_delete` | `README.md:1355`: delete removes containers, volumes and directory | a Start in between makes them again, and no record is left to find them by (`lifecycle.go:36`) |
| `port_twice` | `restore.go:374`: the store holds the port reservations | a pair is reserved only by the record saved at the end of create (`create.go:886`) |
| `create_misread` | `create.go:241`: a second create of a name is refused | not when `benches.json` could not be read: any error means "not existing" (`create.go:254`) |
| `reconcile` | `scale.go:208`: reconcile applies the recorded counts again | the failed scale has written the compose file; reconcile compares it with itself and stops (`reconcile.go:76`) |
| `domain_twice` | `restore.go:439`: two benches must never both answer on one name | the archive's domain is taken over under a new name (`restore.go:421`) |
| `job_lost` | `README.md:1054`: the first schedule installs the job, the last `--off` removes it | the look at the schedules and the removal are not one step (`backup_scheduler.go:37`) |

Some more of the same kind are not runs of their own. A recreate builds from the record
read before its lock and its backup, and so undoes an alias added meanwhile
(`recreate.go:56`). Aliases have the same window as ports: create checks them at its start
(`create.go:235`) and claims them with the record. The removal of a policy's daily tier:
with `--keep` and an interval under a day only the hourly tier is set
(`backup_policy.go:96`); it does not prefer archives with attachments, so those of the day
are pruned after that many hours and are due again, although the policy says daily.

`ReadsFail` says whether the existence check of create can fail to read
`benches.json`. `create_misread` is what happens when it can; the other lifecycle
safety runs, and the theorems that say so, assume that it cannot, so that they show
what else holds.

### What the properties leave out on purpose

The code does not promise everything, and a property that says "unless" names a place where
it does not. These are the ones worth knowing:

* *Updates:* the rollback does not restore the branch in the record; a virtualenv is put
  back only if the toolchain changed; maintenance mode ends although it was on before.
* *Passwords:* four times the code replaces a password, or may have, and says nothing of it.
  The agent profile loses the new Administrator password when it cannot be recorded
  (`agent.go:184`). A `bench restore` that fails, or the migrate after it, leaves the dump's
  Administrator (`snapshot.go:264`, `285`, `devtools.go:329`). A change of the domains
  during a rotation puts the old root password back into the secret file, and a failed write
  empties it (`bench/compose.go:309`, `361`); the accounts still have the recorded one, and
  the next rotation fails before it changes anything. And a kill between change and record.
* *Settings:* two changes that overlap, one of them unlocked, leave what the last one
  rendered from the record it read.
* *Restore:* the undo of a failed restore discards the warnings of its teardown
  (`restore.go:268`, `lifecycle.go:229`): what docker or the file system did not remove
  stays, without a record and without a word. A bench that cannot be read back right after
  create is not undone at all (`restore.go:249`). A kill after create leaves a tracked bench and decrypted staging. Ports are
  compared with ports and aliases with aliases; a restored domain is compared with nothing
  (`domain_twice`), so it may be what somebody has as an alias.
* *MCP:* what a client writes between the last read and the rename is lost. *Claude Code:*
  a run killed after two minutes may have taken effect.
* *Hourly job:* a launchd agent whose bootstrap failed stays unloaded, or the old one, while
  install says it is up to date. A job whose stop failed survives the removal of its files, without
  a word (`systemd.go:167`, `launchd.go:128`; a failing `/Query` reads as no task), and so
  does one that a look does not see: a systemd manager that does not answer
  (`backend.go:330`), a crontab that cannot be read before any backend was recorded
  (`backend.go:204`). `JobFollows` leaves out such a job until a command installs one there
  again or removes it.
* *Proxy, tunnels:* calls that overlap. A `docker inspect` that fails reads as "no container"
  (`frpc.go:100`): a disable then reports success while frpc goes on publishing
  (`frpc.go:157`), and `PublishedAsSaid` says nothing of frpc after it. *Self-update:* the file is missing for
  a moment on Windows; of two updates at once the older may come last.
* *Worktrees:* a branch the user makes during the clone is recorded as ffm's; git's
  `branch -d` still keeps its commits. Files that git ignores go with the worktree.
* *Throttle:* a login that was under way lifts a lockout that another request caused.

### Fairness

Liveness is checked in `lifecycle` alone. `BenchLifecycle`: weak fairness of each
process's work (`Work`): `lockBench` never waits and commands return. `Jobs`: weak fairness of
running and ending each job: Go runs every goroutine and an operation's commands end.
`AllFairSpec` asks each of the part that moves; start, stop and the changes of aliases never
hold the lock and are not in that run. None of them asks for strong fairness, for
a fault or for a user's call.

## 4. Proofs

All theorems hold for every value of the constants that satisfies the `ASSUME`s of
the modules: identifiers that are distinct, bounds that are numbers, a policy whose
interval exceeds the slack and a floor of at least one archive (`IntervalAssumption`), an
email for HTTPS (`ProxyAssumption`), a page that is not the free mutex (`StatusAssumption`),
a root account for the session in the container (`UpkeepAssumption`), a first bench that
has frappe and finitely many apps the record can name, a registry that names repositories
(`RestoreAssumption`, `FirstsAssumption`), and lockouts that grow up to their maximum before the base is shifted out of a duration
(`BackoffAssumption`: for the code's 30 s, 15 min and 64 bits, and the bounds of the run, a
computation of as many steps as there are bits). Two theorems, on attachments, assume
`CadencesKept` besides.

* **`HostProofs`, the store.** The invariant is `TypeOK`, `OneWriter` and the freshness of
  every buffer, strengthened by what each step of the save knows: which steps
  hold a temporary file, that it is whole before a rename and contains `buf` or the
  file's contents, that the outcome is still pending before the rename. From it
  follow `TypeCorrect`, `MutualExclusion`, `NoLostUpdate`, `WholeFiles`, `BackupKept` and the refinement
  `Spec => Abstract!Spec`, step by step: a rename of the new file is `Commit`, an
  unaccepted update is `Refuse`, a return is `Answer` or `Die`, the rest stutters.
* **`BenchRecordsProofs`.** The lookup finds the first record of a name, `remove`
  returns a sequence of the records of other names, operations keep the type.
* **`JobsProofs`.** `OneJobPerKey` is not inductive: the invariant adds that a
  goroutine exists exactly for the unfinished jobs, that the key map is injective
  and points to them, that ids above `started` are unused and that what a restart
  reads back is finished. `RunningJobKept` and `LineNumbers` follow for any cap.
  `OutcomeForGood` needs `Durable`: what a page was told is the outcome in the store and,
  while every write was complete, in the file, which is what a restart reads back.
  `PageTrue` needs `Sent`: the stream has sent the lines before a number that is not past
  the last line printed; and that no line is printed or cut back (`Grows`).
  *The statuses:* `PageFresh` needs `StatusInv`: an answer of docker that is kept or about to
  be kept is `Good`, that is, of statuses had no earlier than it was asked for and since
  the work of the last job, and either too old for a page under way or covered by what that
  page may say (`Covered`). It is why the answer has to be dropped under `statusMu`:
  otherwise a call under way keeps an answer from before the job's end.
  *The limiter:* `LimiterInv` says that the failures the limiter counts are the wrong
  passwords of the window (`Counted`), with room in the limit for the requests that were let
  in beside the last one, and that the strikes of an address are its lockouts, or nobody
  needs to know (`Strikes`), which is what the sweep relies on. `LockoutsHold` follows from
  lemmas about its operators: dropping old failures now or later is the same (`PruneTwice`),
  and once the shift has pushed the base out, 0 stays 0 and counts as the maximum
  (`ShiftedOut`, `BackoffGrows`), so that lockouts grow for any number of strikes.
* **`BenchLifecycleProofs`.** `TypeInv` adds to `TypeOK` what each step knows of its
  call (`StepOK`: a step of the build has a port, one of a teardown belongs to a
  delete or a recreate, ...) and that every step which needs the lock of its bench has
  it (`LockOK`). That alone gives `TypeCorrect`. `SafeInv` adds what the three safety
  theorems rest on: names are unique; no record of the name exists from the existence
  check to the save, nor during a rollback; the directory is there from its making to
  the save; a site without a record or without a directory is in an archive or was
  given up (`SitesOK`), because delete takes no backup of such a bench; and the steps
  of a teardown come after the archive. Whoever moves either disturbs nothing the
  others rely on (`QuietNames`) or holds the lock of the only bench it disturbs
  (`HolderSafe`). From it follow `NamesUnique`, `RollbackSpares` and `SiteArchived`,
  for any processes, names, aliases, ports, operations and number of faults, all
  under `~ReadsFail`; the run `create_misread` shows that without that assumption
  `RollbackSparesTracked` is false. `TrackedComplete` adds (`CompleteInv`) that a build has
  its compose file from `WriteCompose` on and that only the holder of its lock takes a
  bench apart. `NothingLeft` is proved for creates, recreates and deletes only
  (`start_delete` is the counterexample with a start): `TidyInv` says what each clearing
  step has achieved, so that the last one knows that all of it is gone.
* **`BackupScheduleProofs`.** `TypeInv` has the types and that a step of a backup or a prune
  holds the lock of the bench. `PassInv` adds what a pass has on disk at each step
  (`StageOK`), that every other scheduled archive is an interval older than its attempt
  (`IntervalOK`), and that of the finished archives one that can be identified is as new
  as any (`Covered`): what cannot be identified is not looked at when a run is due, and a
  prune never removes the newest. `Spaced` follows. `PruneSpares`, `WritingKept` and
  `OnlyAfterSuccess` use the same invariant. `AlwaysPass` is `Spec => []PassInv`.
  `HistoryKept` is about all archives that prunes ever looked at. It is not inductive: a later
  prune looks only at what is left. `HistoryInv` says that what is left of them (`Stays`)
  represents each of the newest hours, days and weeks of all (`Represents`), that the
  newest of it is as new as any, and that a pass that writes is newer than all of them
  (`Older`), so that nothing of theirs goes with an archive that could not be encrypted.
  `TierKeeps` is the argument on sets: the more archives, the more newer buckets
  (`MoreUsed`), so what is among the newest of all is among the newest of what is left.
  *The loop:* `PassIs` says that `Pass` chooses what `Tier` does. Its argument goes along the
  list: archives that can be told apart have one order (`OneBefore`), so the next one is behind all
  before it (`NthNext`), and what the loop has chosen of those is their tier, less the
  buckets too many (`ChosenOf`); one more archive keeps that so in each branch of `Visit`
  (`VisitChosen`). The induction is on the number of archives, by the least one that fails.
  *Attachments:* `FilesSpaced` is about archives that may be long gone. `FilesInv` says of
  each with attachments that a newer one with attachments is still there or they are due again
  (`Held`), and of a pass that takes them that it began a cadence after all the others
  (`FilesDue`). A prune keeps `Held` because a tier of two buckets leaves the newest of a
  bucket, or the archive is two buckets old (`TierHolds`). That is the assumption `CadencesKept` of
  `AttachmentsSpaced` and `PrunesAsSaid`: a policy with a daily or weekly cadence keeps two
  days or weeks, as all presets do (`backup_policy.go:29`), and the second next day or week is at least a
  full one later. `--keep-daily 1` is outside of it, and so is `--keep` with a short interval, as
  section 3 says; so is the day on which summer time begins, when the two days are 23 hours
  apart and attachments may be due 55 minutes early. The run `archives` evaluates the
  assumption for its own policies.
  *`Transit`:* a file holds a prefix of the archive (`Bodies`), so one that ends with the
  manifest is all of it, and a cut never is (`WholeFacts`, `CutFacts`; with the library's
  facts on sequences). `TransitInv` says that what the sender has under a name is whole and
  what it has still to write is the rest (`SenderKnows`); that an object that was cut never
  gets a header, because the header is put after it (`FarKnows`); and that a restore which
  took the newest archive pulled a whole one, and one that decrypted has unspoilt
  bytes (`NearKnows`). `ArchivesWhole` follows.
* **`RestoreProofs`.** `RestoreInv` follows an operation through its steps. `Course` says
  which kind is at which step and what it has made by then, `ArchiveInv` that the commits
  and apps of a manifest are those of the source when they were read, `SharedInv` that
  the port chosen at the gates is still nobody's at create. `Achieved` says what the bench
  has at each step of the rebuild: the code of the plan from the repositories of the plan,
  every app at another commit named before the site is migrated, the archive's key before
  anything mints one, then its data, the migration, the processes. When the restore ends,
  that is what it says (`Promised`: `RestoredFaithful`, `RecordClones`), and `LeftAsFound`
  when it does not, with what `op.left` says of the removal: of what a failed teardown left
  only the record and the staging are promised to be gone. The world moves at every step and disturbs none of it, because users
  leave alone the bench that is being rebuilt (`Spared`).
  *Dumps:* an import takes the apps from a dump ffm did not make. `DumpsAreRead` says
  that the pass finds the rows of the apps table, all and no other, for any number of rows,
  either engine, on one line (shorter than `maxKeptLine`) or many, before or after the other
  tables. What a run of lines
  tells can be computed in parts (`ScanOn`; `Scan` is one function for each dump, so its course
  exists and is unique by the least number of lines for which it would not be:
  `ScanRuns`, `ScanFollows`), and each block leaves the pass where the next expects it
  (`Between`, `Reading`, `AppsBlock`), except an INSERT without rows, which stays open
  until the file ends.
* **`UpkeepProofs`.** Only the holder of the bench lock works on the site, so `UpdateInv` says
  for each step what its user knows: how far code, virtualenv, image, schema, assets and
  processes are on the way to the new release (`Progress`), and on the way back to the old
  one (`Back`, `Tools`), and when the mode or an excuse covers a site that is half-way
  (`Served`). `ServedWhole` is one of its conjuncts; `RollbackWhole` is what `Progress` and
  `Back` say at the last step. `PasswordInv` says where each password can be found while it
  is replaced: in the record, in the secret file, in what was told, or as the one just
  generated; which accounts already have the new one; and that the secret file opens the
  session, unless it is in doubt: then a rotation does not get past `ListHosts`, or fails
  before it changes an account. The steps fall into those that touch no password (`Harmless`), those of the
  Administrator, of the root accounts, of the record, and a failed command that tells one.
  *Rollout:* `RecordRuns` needs that a difference between two neighbours in the chain of
  record, file, containers and dev server is the work of an operation whose step is about
  to remove it (`FileMade`, `ContainersMade`, `ServerMade`), or was left by one that failed
  or was killed (`unapplied`). For the file and the containers it does not matter who holds the
  bench lock. `AppsRecorded` needs the lock: the holder has reached what its step says
  (`Reached`), and only the app it is yet to record may differ (`Recording`).
  *Worktrees:* `WorkInv` says what each step of a command knows of the bench and the
  worktree of its branch: it has the bench lock, what is recorded so far and, while the
  user moves nothing, what is at the path. `WorktreesSafe` is an action property from it
  (`UserSpared`, `ToldTruly`); what git refuses by itself is in the actions.
* **`ConfigTextProofs`.** `TablesStay` says that every edit of config.toml leaves the lines and
  comments of the other tables as they are (`Foreign`) and a text that can be edited again, for
  any lines and texts of any length. An edit is described without folds: the lines of a result
  are those of the old text at some places, in order (`Listing`; `OnlyListed` and `KeepListed`
  prove it of the folds by the least number of lines for which it would not be so). What goes
  is then what the properties call the entry's (`GoesIs`), and it begins and ends outside of
  strings over lines (`Seams`). So the result is the old text woven with the new table at one
  place (`Woven`), and a line is in a string, a header, or in a table exactly when it was
  (`WovenStrings`, `WovenAbove`), which keeps `Foreign` and `Editable`. Appending, replacing
  and removing are three such weavings (`AppendIs`, `ReplaceIs`, `RemoveIs`).
* **`HostProofs`, the rest.** *Tunnels:* no lock here: a call is `alone` if no other call on its bench overlapped
  it. `TunnelInv` says what such a call has achieved at its step (`CallKnows`) and that nothing
  is promised of a bench while one that may change it is under way (`Owner`, `HostOwner`).
  When the last one ends, its knowledge is the promise; a call whose look failed knows nothing
  of frpc. That no two benches have one tunnel
  holds while enabling calls do not race (`raced`). *The binary:* `BinaryInv` says what a
  process has checked of its downloads at each step (`Checked`: the signature is never of
  spoiled bytes, so checksums it vouches for are of a build, and so is the archive), and
  that on Windows only one swap at a time is between its renames, with the old file still
  there because it is in use (`Swapping`). *MCP clients:* `McpInv` says what an installer
  knows at its step: the version it planned from is the one it read again and backed up
  (`FileKnown`), and an install that took Claude Code's old entry out has noted it, or the
  `claude` that did was killed (`EntryKnown`). `RemovalTold` and `ReplacedKept` (an action
  property) follow; the clients and their users change the file and the entry at any step.
  *The proxy:* `ProxyInv` says that while nothing
  disturbed the proxy at most one call is under way, and where what was promised is now
  (`KeepsPromise`): in the container, or, between `rm` and `run`, in what the call saw of it. A
  failed inspect reads as no container, but then the name is still in use and `run` fails.
  *The hourly job:* `JobInv` says, until a command told of a job where ffm does not look, what
  the one command under way knows: where a job of whose version may be, and that it has
  files behind it (`Places`, `FilesBehind`), what its step has achieved (`CommandCourse`) and
  what the last one promised (`Standing`), all but of the backends in `left`. `JobFollows` is proved for commands that do not
  overlap (`OneAtATime`): nothing in the code keeps two apart, and two at once can leave a
  job nobody asked for.

Only model-checked: liveness (`BenchFreed`, `KeyFreed`; out of the prover's reach),
and the JSON half of `EditsClean`, that the positions `memberCuts` computes never fail the check
of their result. It speaks of how many comments a text has left and of ranges that come from
one another; no proof of it was found, and TLC decides it for the objects of up to three
members of the run.

## 5. Not modelled, and why

* What runs inside containers, templates, parsing and output: there is nothing to
  interleave. Secrets and their masking, prompts and notifications, for the same reason.
* The checks of untrusted input (names of archive members, size limits, HTTP forms,
  CSRF): a model of them would repeat their conditions.
* Several benches in one pass of run-due and several targets per bench: each is handled
  alone. Adding and removing targets, keys and SFTP host keys; the removal before a rename
  of SFTP's `Put`.
* Mail servers, site configuration, test runs, cleaning of images and logs: one command and
  one record each, in the shape of `Rollout`'s operations.
* Seeds, extra compose services and the trust prompt of a project file; a worktree bench
  deleted and made anew under its name while a command on it has not yet taken the lock.
* `doctor`, which only reads.

## 6. Plan

1. Done: the models above; the proofs of the store, the jobs, the statuses, the lifecycle, the backup
   schedule, backups and restores, upkeep, the rollout of settings and apps, worktrees,
   archives on their way, tunnels, the MCP clients, the binary, the proxy, the hourly job
   and the limiter.
2. Models left: mail and site configuration as further kinds of `Rollout`; several benches
   of one pass.
