--------------------------- MODULE BenchLifecycle ---------------------------
(***************************************************************************)
(* The life of benches (internal/manager: create.go, recreate.go,          *)
(* lifecycle.go, domains.go, benchlock.go), driven by several ffm          *)
(* processes and dashboard requests at once.                               *)
(*                                                                         *)
(* Create, Recreate and Delete hold the lock of their bench; Start, Stop,  *)
(* DomainAdd and DomainRemove take none and work from a record they read   *)
(* at the start.  Calls of the state store are atomic, as StateStore shows *)
(* they are.  Docker and the file system do one command per step, which    *)
(* can fail; a process can be killed between any two steps.                *)
(***************************************************************************)
EXTENDS BenchRecords, FiniteSets

CONSTANTS
  Procs,      \* ffm processes and dashboard requests
  Hosts,      \* domain aliases
  MaxPort,    \* bound: the port pairs 1..MaxPort
  Kinds,      \* bound: the operations that are called
  MaxFaults,  \* bound: failed commands and killed processes
  ReadsFail,  \* bound: the existence check can fail to read benches.json
  Idle, Free, \* no call, no holder
  NoDir,      \* no bench directory
  Bare        \* a bench directory without docker-compose.yml

Ports == 1..MaxPort

\* What a record holds, what docker-compose.yml is rendered from.
ASSUME ValuesAssumption == Values = [port : Ports, hosts : SUBSET Hosts]
ASSUME KindsAssumption ==
  Kinds \subseteq {"create", "recreate", "delete", "start", "stop", "domainAdd", "domainRemove"}
ASSUME LifecycleAssumption ==
  /\ {MaxPort, MaxFaults} \subseteq Nat /\ ReadsFail \in BOOLEAN
  /\ Free \notin Procs
  /\ NoDir \notin Values /\ Bare \notin Values /\ NoDir # Bare

\* hosts: the aliases asked for, or the one alias to add or remove.
\* backup: delete and recreate without --no-backup.
Calls == { c \in [kind : Kinds, name : Names, hosts : SUBSET Hosts, backup : BOOLEAN] :
             /\ c.kind \in {"domainAdd", "domainRemove"} => Cardinality(c.hosts) = 1
             /\ c.kind \in {"delete", "recreate", "start", "stop"} => c.hosts = {}
             /\ c.kind \notin {"delete", "recreate"} => c.backup }

VARIABLES
  reg,        \* the records of benches.json
  lock,       \* lock[n]: who holds the lock of bench n
  dir,        \* dir[n]: NoDir, Bare or what docker-compose.yml was rendered from
  cont,       \* cont[n]: the containers of n and the port they publish
  data,       \* data[n]: the volumes of n: none, of an unfinished bench, a site
  pc, call,   \* the step a process is at and its call
  seen,       \* seen[p]: the record p has read
  port,       \* port[p]: the port pair p builds with
  faults,     \* commands failed and processes killed so far
  expendable, \* names whose present site is expendable or given up by --no-backup
  leftover,   \* names a failed command or a killed process left behind
  promised    \* promised[n]: the aliases whose saving to the record succeeded

shared  == <<reg, lock, dir, cont, data>>
local   == <<pc, call, seen, port>>
history == <<faults, expendable, leftover, promised>>
vars    == <<shared, local, history>>

Building  == {"mkdir", "compose", "image", "up", "site", "save"}
Undoing   == {"undoDown", "undoDir"}
Tearing   == {"down", "rmdir", "remove"}
Saving    == {"backup", "dump", "dumpStarted", "reread"}
Unlocked  == {"home", "startUp", "stop", "update", "render", "apply"}
Steps     == Building \cup Undoing \cup Tearing \cup Saving \cup Unlocked
               \cup {"idle", "read", "check", "lock", "exists", "alloc"}

TypeOK ==
  /\ reg \in Seq(Record)
  /\ lock \in [Names -> Procs \cup {Free}]
  /\ dir \in [Names -> Values \cup {NoDir, Bare}]
  /\ cont \in [Names -> [state : {"none", "stopped", "up"}, port : 0..MaxPort]]
  /\ data \in [Names -> {"none", "unfinished", "site"}]
  /\ pc \in [Procs -> Steps]
  /\ call \in [Procs -> Calls \cup {Idle}]
  /\ seen \in [Procs -> Values \cup {Idle}]
  /\ port \in [Procs -> 0..MaxPort]
  /\ faults \in 0..MaxFaults
  /\ expendable \subseteq Names /\ leftover \subseteq Names
  /\ promised \in [Names -> SUBSET Hosts]

NoContainers == [state |-> "none", port |-> 0]

Init ==
  /\ reg = <<>>
  /\ lock = [n \in Names |-> Free]
  /\ dir = [n \in Names |-> NoDir]
  /\ cont = [n \in Names |-> NoContainers]
  /\ data = [n \in Names |-> "none"]
  /\ pc = [p \in Procs |-> "idle"]
  /\ call = [p \in Procs |-> Idle]
  /\ seen = [p \in Procs |-> Idle]
  /\ port = [p \in Procs |-> 0]
  /\ faults = 0
  /\ expendable = {} /\ leftover = {}
  /\ promised = [n \in Names |-> {}]

name(p) == call[p].name
kind(p) == call[p].kind

At(p, step) == pc[p] = step
Goto(p, step) == pc' = [pc EXCEPT ![p] = step] /\ UNCHANGED <<call, seen, port>>

\* A deferred release runs on every return, and the operating system releases
\* what a killed process holds.
Released(p) == [n \in Names |-> IF lock[n] = p THEN Free ELSE lock[n]]

Return(p) ==
  /\ lock' = Released(p)
  /\ pc' = [pc EXCEPT ![p] = "idle"]
  /\ call' = [call EXCEPT ![p] = Idle]
  /\ seen' = [seen EXCEPT ![p] = Idle]
  /\ port' = [port EXCEPT ![p] = 0]

\* Goto, with the record just read.
GotoWith(p, step, val) ==
  /\ pc' = [pc EXCEPT ![p] = step]
  /\ seen' = [seen EXCEPT ![p] = val]
  /\ UNCHANGED <<call, port>>

\* The ports that running containers of these benches publish; nobody else can
\* bind them.
Bound(benches) == {cont[m].port : m \in {m \in benches : cont[m].state = "up"}}

\* Every docker compose run or up creates the volumes that are missing.
WithVolumes(n) == [data EXCEPT ![n] = IF @ = "none" THEN "unfinished" ELSE @]

\* docker compose up needs a compose file and its ports.
CanUp(n) == dir[n] \in Values /\ dir[n].port \notin Bound(Names \ {n})

Up(n) ==
  /\ CanUp(n)
  /\ cont' = [cont EXCEPT ![n] = [state |-> "up", port |-> dir[n].port]]
  /\ data' = WithVolumes(n)

\* docker compose stop
Stopped(n) == [cont EXCEPT ![n].state = IF @ = "up" THEN "stopped" ELSE @]

-----------------------------------------------------------------------------
(* Steps that several operations begin with *)

Begin(p, c) ==
  /\ At(p, "idle")
  /\ call' = [call EXCEPT ![p] = c]
  /\ pc' = [pc EXCEPT ![p] = IF c.kind # "create" THEN "read"
                             ELSE IF c.hosts # {} THEN "check" ELSE "lock"]
  /\ UNCHANGED <<shared, seen, port, history>>

\* Where a call goes with the record b; "idle" when it has nothing to do.
AfterRead(c, b) ==
  CASE c.kind \in {"delete", "recreate"} -> "lock"
    [] c.kind = "start"                  -> "home"
    [] c.kind = "stop"                   -> "stop"
    [] c.kind = "domainAdd"    -> IF c.hosts \subseteq b.hosts THEN "idle" ELSE "check"
    [] c.kind = "domainRemove" -> IF c.hosts \subseteq b.hosts THEN "update" ELSE "idle"

\* GetBench, before any lock is taken.
Read(p) ==
  /\ At(p, "read")
  /\ LET known == Exists(reg, name(p))
         b     == Get(reg, name(p)).val
     IN  IF known /\ AfterRead(call[p], b) # "idle"
         THEN GotoWith(p, AfterRead(call[p], b), b) /\ UNCHANGED lock
         ELSE Return(p)
  /\ UNCHANGED <<reg, dir, cont, data, history>>

\* checkAliasesFree: the aliases are looked up in the other benches' records.
Wanted(p) == IF kind(p) = "recreate" THEN seen[p].hosts ELSE call[p].hosts

Taken(p) == UNION {reg[i].val.hosts : i \in {i \in DOMAIN reg : reg[i].name # name(p)}}

Check(p) ==
  /\ At(p, "check")
  /\ IF Wanted(p) \cap Taken(p) # {}
     THEN Return(p)
     ELSE /\ Goto(p, CASE kind(p) = "create"   -> "lock"
                       [] kind(p) = "recreate" -> "exists"
                       [] OTHER                -> "update")
          /\ UNCHANGED lock
  /\ UNCHANGED <<reg, dir, cont, data, history>>

\* Mutant of TryLock: only an existing bench is locked.
TryLockExisting(p) ==
  /\ At(p, "lock")
  /\ IF kind(p) = "create" \/ lock[name(p)] = Free
     THEN /\ lock' = IF kind(p) = "create" THEN lock ELSE [lock EXCEPT ![name(p)] = p]
          /\ Goto(p, IF kind(p) = "create" THEN "exists" ELSE "backup")
     ELSE Return(p)
  /\ UNCHANGED <<reg, dir, cont, data, history>>

\* lockBench: a held lock is refused at once.
TryLock(p) ==
  /\ At(p, "lock")
  /\ IF lock[name(p)] = Free
     THEN /\ lock' = [lock EXCEPT ![name(p)] = p]
          /\ Goto(p, IF kind(p) = "create" THEN "exists" ELSE "backup")
     ELSE Return(p)
  /\ UNCHANGED <<reg, dir, cont, data, history>>

-----------------------------------------------------------------------------
(* Create, from its existence check on; also the second half of Recreate *)

\* Mutant of CheckExists: the rollback is set up before the check.
CheckExistsUndone(p) ==
  /\ At(p, "exists")
  /\ Goto(p, IF Exists(reg, name(p)) THEN "undoDown" ELSE "alloc")
  /\ UNCHANGED <<shared, history>>

\* Mutant of CheckExists: returns without the deferred release.
CheckExistsHeld(p) ==
  /\ At(p, "exists")
  /\ Goto(p, IF Exists(reg, name(p)) THEN "idle" ELSE "alloc")
  /\ UNCHANGED <<shared, history>>

CheckExists(p) ==
  /\ At(p, "exists")
  /\ IF Exists(reg, name(p)) THEN Return(p) ELSE Goto(p, "alloc") /\ UNCHANGED lock
  /\ UNCHANGED <<reg, dir, cont, data, history>>

UsedPorts == {reg[i].val.port : i \in DOMAIN reg}

\* A port that is neither in a record nor bound, the lowest one.
FreePorts == Ports \ (UsedPorts \cup Bound(Names))

Build(p, k) ==
  /\ pc' = [pc EXCEPT ![p] = "mkdir"]
  /\ port' = [port EXCEPT ![p] = k]
  /\ UNCHANGED <<lock, call, seen>>

\* AllocatePorts, or the recorded pair of a recreate that does not reallocate.
\* An error here comes before the rollback is set up.
AllocPorts(p) ==
  /\ At(p, "alloc")
  /\ \/ IF FreePorts = {} THEN Return(p)
        ELSE Build(p, CHOOSE k \in FreePorts : \A j \in FreePorts : k <= j)
     \/ /\ kind(p) = "recreate"
        /\ IF seen[p].port \in Bound(Names) THEN Return(p) ELSE Build(p, seen[p].port)
  /\ UNCHANGED <<reg, dir, cont, data, history>>

MakeDir(p) ==
  /\ At(p, "mkdir")
  /\ Goto(p, "compose")
  /\ dir' = [dir EXCEPT ![name(p)] = IF @ = NoDir THEN Bare ELSE @]
  /\ UNCHANGED <<reg, lock, cont, data, history>>

Planned(p) == [port |-> port[p], hosts |-> Wanted(p)]

WriteCompose(p) ==
  /\ At(p, "compose")
  /\ Goto(p, "image")
  /\ dir' = [dir EXCEPT ![name(p)] = Planned(p)]
  /\ UNCHANGED <<reg, lock, cont, data, history>>

\* The image, the workspace and bench init in a one-off container; a project
\* mount rewrites the compose file with the same ports and aliases.
BuildImage(p) ==
  /\ At(p, "image")
  /\ Goto(p, "up")
  /\ data' = WithVolumes(name(p))
  /\ UNCHANGED <<reg, lock, dir, cont, history>>

BringUp(p) ==
  /\ At(p, "up")
  /\ Up(name(p))
  /\ Goto(p, "site")
  /\ UNCHANGED <<reg, lock, dir, history>>

\* bench new-site, the apps and the assets, by exec in the containers.  The
\* bench stays unfinished until its record is saved.
MakeSite(p) ==
  /\ At(p, "site")
  /\ cont[name(p)].state = "up"
  /\ Goto(p, "save")
  /\ UNCHANGED <<shared, history>>

\* AddBench, the last step that can fail.
SaveBench(p) ==
  /\ At(p, "save")
  /\ reg' = add(reg, [name |-> name(p), val |-> Planned(p)])
  /\ data' = [data EXCEPT ![name(p)] = "site"]
  /\ expendable' = expendable \ {name(p)}
  /\ leftover' = leftover \ {name(p)}
  /\ promised' = [promised EXCEPT ![name(p)] = IF kind(p) = "create" THEN Wanted(p) ELSE @]
  /\ Return(p)
  /\ UNCHANGED <<dir, cont, faults>>

\* Mutant of UndoDown: docker compose down without -v.
UndoDownKeepingVolumes(p) ==
  /\ At(p, "undoDown")
  /\ Goto(p, "undoDir")
  /\ cont' = [cont EXCEPT ![name(p)] = IF dir[name(p)] \in Values THEN NoContainers ELSE @]
  /\ UNCHANGED <<reg, lock, dir, data, history>>

\* The rollback of a failed create: docker compose down -v if there is a
\* compose file, then the directory; nothing under --keep-on-failure.
UndoDown(p) ==
  /\ At(p, "undoDown")
  /\ Goto(p, "undoDir")
  /\ IF dir[name(p)] \in Values
     THEN /\ cont' = [cont EXCEPT ![name(p)] = NoContainers]
          /\ data' = [data EXCEPT ![name(p)] = "none"]
     ELSE UNCHANGED <<cont, data>>
  /\ UNCHANGED <<reg, lock, dir, history>>

UndoDir(p) ==
  /\ At(p, "undoDir")
  /\ dir' = [dir EXCEPT ![name(p)] = NoDir]
  /\ Return(p)
  /\ UNCHANGED <<reg, cont, data, history>>

KeepOnFailure(p) ==
  /\ At(p, "undoDown")
  /\ leftover' = leftover \cup {name(p)}
  /\ Return(p)
  /\ UNCHANGED <<reg, dir, cont, data, faults, expendable, promised>>

-----------------------------------------------------------------------------
(* Delete, and the first half of Recreate *)

AfterBackup(p) == IF kind(p) = "delete" THEN "reread" ELSE "down"

\* Mutant of StartBackup: only a running bench is backed up.
StartBackupIfUp(p) ==
  /\ At(p, "backup")
  /\ Goto(p, IF call[p].backup /\ cont[name(p)].state = "up" THEN "dump" ELSE AfterBackup(p))
  /\ UNCHANGED <<shared, history>>

\* backupBeforeDestroy is skipped on request or without a directory.
SkipsBackup(p) == ~call[p].backup \/ dir[name(p)] = NoDir

\* A backup needs the record.  A bench that is not running is started for it.
StartBackup(p) ==
  /\ At(p, "backup")
  /\ \/ SkipsBackup(p) /\ Goto(p, AfterBackup(p)) /\ UNCHANGED <<lock, cont, data>>
     \/ ~SkipsBackup(p) /\ ~Exists(reg, name(p)) /\ Return(p) /\ UNCHANGED <<cont, data>>
     \/ /\ ~SkipsBackup(p) /\ Exists(reg, name(p))
        /\ UNCHANGED lock
        /\ IF cont[name(p)].state = "up"
           THEN Goto(p, "dump") /\ UNCHANGED <<cont, data>>
           ELSE Up(name(p)) /\ Goto(p, "dumpStarted")
  /\ UNCHANGED <<reg, dir, history>>

\* The dump needs the site and its containers; a bench started for the backup
\* is stopped again.
Dump(p) ==
  /\ pc[p] \in {"dump", "dumpStarted"}
  /\ data[name(p)] = "site" /\ cont[name(p)].state = "up"
  /\ expendable' = expendable \cup {name(p)}
  /\ cont' = IF At(p, "dumpStarted") THEN Stopped(name(p)) ELSE cont
  /\ Goto(p, AfterBackup(p))
  /\ UNCHANGED <<reg, lock, dir, data, faults, leftover, promised>>

\* deleteLocked reads the record again.
Reread(p) ==
  /\ At(p, "reread")
  /\ IF Exists(reg, name(p))
     THEN GotoWith(p, "down", Get(reg, name(p)).val) /\ UNCHANGED lock
     ELSE Return(p)
  /\ UNCHANGED <<reg, dir, cont, data, history>>

\* docker compose down needs the compose file; without one only volumes that
\* no container uses are removed.  Errors are warnings.
GivenUp(p) == IF call[p].backup THEN expendable ELSE expendable \cup {name(p)}

TearDown(p) ==
  /\ At(p, "down")
  /\ Goto(p, "rmdir")
  /\ expendable' = GivenUp(p)
  /\ IF dir[name(p)] \in Values
     THEN /\ cont' = [cont EXCEPT ![name(p)] = NoContainers]
          /\ data' = [data EXCEPT ![name(p)] = "none"]
          /\ UNCHANGED leftover
     ELSE /\ UNCHANGED cont
          /\ IF cont[name(p)] = NoContainers
             THEN data' = [data EXCEPT ![name(p)] = "none"] /\ UNCHANGED leftover
             ELSE leftover' = leftover \cup {name(p)} /\ UNCHANGED data
  /\ UNCHANGED <<reg, lock, dir, faults, promised>>

RemoveDir(p) ==
  /\ At(p, "rmdir")
  /\ Goto(p, "remove")
  /\ dir' = [dir EXCEPT ![name(p)] = NoDir]
  /\ UNCHANGED <<reg, lock, cont, data, history>>

\* Mutant of RemoveBench: a delete returns with the record still there.
RemoveBenchForgotten(p) ==
  /\ At(p, "remove")
  /\ reg' = IF kind(p) = "delete" THEN reg ELSE remove(reg, name(p))
  /\ IF kind(p) = "delete"
     THEN Return(p) /\ promised' = [promised EXCEPT ![name(p)] = {}]
     ELSE /\ Goto(p, IF seen[p].hosts = {} THEN "exists" ELSE "check")
          /\ UNCHANGED <<lock, promised>>
  /\ UNCHANGED <<dir, cont, data, faults, expendable, leftover>>

\* RemoveBench ends a delete; a recreate goes on to create.
RemoveBench(p) ==
  /\ At(p, "remove")
  /\ reg' = remove(reg, name(p))
  /\ IF kind(p) = "delete"
     THEN Return(p) /\ promised' = [promised EXCEPT ![name(p)] = {}]
     ELSE /\ Goto(p, IF seen[p].hosts = {} THEN "exists" ELSE "check")
          /\ UNCHANGED <<lock, promised>>
  /\ UNCHANGED <<dir, cont, data, faults, expendable, leftover>>

-----------------------------------------------------------------------------
(* Operations without a lock *)

\* Start makes the home directories, of a bench directory that is gone too.
MakeHome(p) ==
  /\ At(p, "home")
  /\ Goto(p, "startUp")
  /\ dir' = [dir EXCEPT ![name(p)] = IF @ = NoDir THEN Bare ELSE @]
  /\ UNCHANGED <<reg, lock, cont, data, history>>

StartUp(p) ==
  /\ At(p, "startUp")
  /\ Up(name(p))
  /\ Return(p)
  /\ UNCHANGED <<reg, dir, history>>

Stop(p) ==
  /\ At(p, "stop")
  /\ dir[name(p)] \in Values
  /\ cont' = Stopped(name(p))
  /\ Return(p)
  /\ UNCHANGED <<reg, dir, data, history>>

\* UpdateBench sets the aliases computed from the record read at the start.
Aliases(p) == IF kind(p) = "domainAdd" THEN seen[p].hosts \cup call[p].hosts
                                       ELSE seen[p].hosts \ call[p].hosts

SetAliases(p) ==
  /\ At(p, "update")
  /\ IF Exists(reg, name(p))
     THEN /\ reg' = update(reg, name(p), [Get(reg, name(p)).val EXCEPT !.hosts = Aliases(p)])
          /\ GotoWith(p, "render", [seen[p] EXCEPT !.hosts = Aliases(p)])
          /\ promised' = [promised EXCEPT ![name(p)] =
                            IF kind(p) = "domainAdd" THEN @ \cup call[p].hosts
                                                     ELSE @ \ call[p].hosts]
          /\ UNCHANGED lock
     ELSE Return(p) /\ UNCHANGED <<reg, promised>>
  /\ UNCHANGED <<dir, cont, data, faults, expendable, leftover>>

\* applyDomainChange renders the caller's copy of the record, making the
\* directory if need be, and rolls it onto a running bench.
Render(p) ==
  /\ At(p, "render")
  /\ Goto(p, "apply")
  /\ dir' = [dir EXCEPT ![name(p)] = seen[p]]
  /\ UNCHANGED <<reg, lock, cont, data, history>>

ApplyChange(p) ==
  /\ At(p, "apply")
  /\ IF cont[name(p)].state = "up" THEN Up(name(p)) ELSE UNCHANGED <<cont, data>>
  /\ Return(p)
  /\ UNCHANGED <<reg, dir, history>>

-----------------------------------------------------------------------------
(* What goes wrong *)

\* A step that cannot be done, or that fails although it could (a read or write
\* of benches.json included): an error of the build is rolled back, every other
\* one is returned.
Impossible(p) ==
  \/ pc[p] \in {"up", "startUp", "apply"} /\ ~CanUp(name(p))
  \/ /\ At(p, "backup") /\ ~SkipsBackup(p)
     /\ cont[name(p)].state # "up" /\ ~CanUp(name(p))
  \/ pc[p] \in {"dump", "dumpStarted"}
       /\ ~(data[name(p)] = "site" /\ cont[name(p)].state = "up")
  \/ At(p, "site") /\ cont[name(p)].state # "up"
  \/ At(p, "stop") /\ dir[name(p)] \notin Values

Warned  == {"down", "rmdir", "undoDown", "undoDir"}
CanFail == Steps \ (Warned \cup {"idle", "exists"})

Fail(p) ==
  /\ pc[p] \in CanFail
  /\ \/ Impossible(p) /\ UNCHANGED faults
     \/ faults < MaxFaults /\ faults' = faults + 1
  /\ IF pc[p] \in Building THEN Goto(p, "undoDown") /\ UNCHANGED lock ELSE Return(p)
  /\ cont' = IF At(p, "dumpStarted") THEN Stopped(name(p)) ELSE cont
  /\ leftover' = IF At(p, "remove") THEN leftover \cup {name(p)} ELSE leftover
  /\ UNCHANGED <<reg, dir, data, expendable, promised>>

\* Any error of the existence check is taken for "no such bench".
Misread(p) ==
  /\ At(p, "exists")
  /\ ReadsFail
  /\ faults < MaxFaults
  /\ faults' = faults + 1
  /\ Goto(p, "alloc")
  /\ UNCHANGED <<shared, expendable, leftover, promised>>

\* A failed down or removal of the directory is only a warning; the volumes are
\* removed even after a failed down, if no container uses them.
Warn(p) ==
  /\ pc[p] \in Warned
  /\ faults < MaxFaults
  /\ faults' = faults + 1
  /\ leftover' = leftover \cup {name(p)}
  /\ expendable' = IF At(p, "down") THEN GivenUp(p) ELSE expendable
  /\ CASE At(p, "down")     -> Goto(p, "rmdir") /\ UNCHANGED lock
       [] At(p, "rmdir")    -> Goto(p, "remove") /\ UNCHANGED lock
       [] At(p, "undoDown") -> Goto(p, "undoDir") /\ UNCHANGED lock
       [] At(p, "undoDir")  -> Return(p)
  /\ \/ UNCHANGED data
     \/ /\ At(p, "down") /\ cont[name(p)] = NoContainers
        /\ data' = [data EXCEPT ![name(p)] = "none"]
  /\ UNCHANGED <<reg, dir, cont, promised>>

Crash(p) ==
  /\ ~At(p, "idle")
  /\ faults < MaxFaults
  /\ faults' = faults + 1
  /\ leftover' = IF pc[p] \in Building \cup Undoing \cup Tearing
               THEN leftover \cup {name(p)} ELSE leftover
  /\ Return(p)
  /\ UNCHANGED <<reg, dir, cont, data, expendable, promised>>

-----------------------------------------------------------------------------
Work(p) ==
  \/ Read(p) \/ Check(p) \/ TryLock(p)
  \/ CheckExists(p) \/ AllocPorts(p) \/ MakeDir(p) \/ WriteCompose(p)
  \/ BuildImage(p) \/ BringUp(p) \/ MakeSite(p) \/ SaveBench(p)
  \/ UndoDown(p) \/ UndoDir(p) \/ KeepOnFailure(p)
  \/ StartBackup(p) \/ Dump(p) \/ Reread(p) \/ TearDown(p) \/ RemoveDir(p) \/ RemoveBench(p)
  \/ MakeHome(p) \/ StartUp(p) \/ Stop(p) \/ SetAliases(p) \/ Render(p) \/ ApplyChange(p)
  \/ Fail(p) \/ Misread(p) \/ Warn(p)

Next == \E p \in Procs : \/ \E c \in Calls : Begin(p, c)
                         \/ Work(p)
                         \/ Crash(p)

Spec == Init /\ [][Next]_vars

\* A call runs on: lockBench never waits, and every command returns.
FairSpec == Spec /\ \A p \in Procs : WF_vars(Work(p))

-----------------------------------------------------------------------------
(* Properties *)

\* benches.json never has two records of one name, although the store appends
\* whatever it is given: the bench lock covers the time between the existence
\* check and the save, minutes later.
UniqueNames == \A i, j \in DOMAIN reg : reg[i].name = reg[j].name => i = j

\* The rollback of a failed create never touches a tracked bench: a create that
\* finds its name taken returns before the rollback is set up, and nobody else
\* saves a record of that name while it runs.
RollbackSparesTracked ==
  \A p \in Procs : pc[p] \in Building \cup Undoing => ~Exists(reg, name(p))

\* A site that a finished create made is destroyed only once it is in an archive
\* or under --no-backup, whatever runs at the same time, fails or is killed.
SiteArchivedFirst ==
  [][\A n \in Names : data[n] = "site" /\ data'[n] # "site" => n \in expendable']_vars

\* A tracked bench is a finished one: while nobody tears it down, its site and
\* its compose file are there, unless a teardown was cut short.
TrackedComplete ==
  \A i \in DOMAIN reg : LET n == reg[i].name IN
     \/ data[n] = "site" /\ dir[n] \in Values
     \/ n \in leftover
     \/ \E p \in Procs : lock[n] = p /\ pc[p] \in Tearing

\* Once nobody works on a bench that is not tracked, nothing of it is left,
\* unless a command failed, a process was killed or --keep-on-failure was given.
NothingLeft ==
  \A n \in Names :
     ~Exists(reg, n) /\ n \notin leftover /\ (\A p \in Procs : ~At(p, "idle") => name(p) # n)
       => dir[n] = NoDir /\ cont[n] = NoContainers /\ data[n] = "none"

\* The aliases of a tracked bench are those whose saving succeeded.
AliasesKept ==
  \A i \in DOMAIN reg : reg[i].val.hosts = promised[reg[i].name]

\* A port pair in a record is reserved for its bench.
PortOnce ==
  \A i, j \in DOMAIN reg : i # j => reg[i].val.port # reg[j].val.port

\* The lock of a bench is always given back.
BenchFreed == \A n \in Names, p \in Procs : lock[n] = p ~> lock[n] # p
=============================================================================
