----------------------------- MODULE HourlyJob ------------------------------
(***************************************************************************)
(* The hourly system job that runs the scheduled backups                   *)
(* (internal/scheduler, cli/backup_scheduler.go): a line of the crontab, a *)
(* systemd user timer, a launchd agent or a Windows task.  Every change of *)
(* a schedule installs or removes it; "ffm backup scheduler" does so by    *)
(* hand and can move it to another backend.  The crontab has one tagged    *)
(* line, which may be another ffm configuration's; the other backends keep *)
(* what they run in files of this configuration's name and load them with  *)
(* a command that can fail.  A job is the version of ffm it runs.          *)
(***************************************************************************)
EXTENDS Naturals, FiniteSets

CONSTANTS Users,      \* the ffm processes
          Machines,   \* the operating systems to look at
          Hands,      \* the commands given by hand: "install", "uninstall"
          Scheduled,  \* the benches that may get a schedule
          MaxTasks,   \* bound: commands of the users
          MaxJobTrouble \* bound: failing commands and killed processes

ASSUME HandsAssumption == Hands \subseteq {"install", "uninstall"}

VARIABLES host,      \* what the machine has
          policies,  \* the benches with a schedule, as in benches.json
          version,   \* the ffm that is installed
          crontab,   \* the tagged line: none, a version, or somebody else's
          stored,    \* the files of the other backends
          loaded,    \* what their schedulers run
          recorded,  \* backup-scheduler.json
          work,      \* what each process does
          tasks, jobTrouble,
          promise,   \* what the last command that ended well left: a job, none, or nobody can say
          loose,     \* a job may be where ffm does not look for it, which it said
          left       \* where a command that ended well left a job behind without a word

hvars == <<host, policies, version, crontab, stored, loaded, recorded, work, tasks, jobTrouble, promise, loose, left>>

Files    == {"systemd", "launchd", "schtasks"}
Backends == {"cron"} \cup Files
NoJob    == 0       \* no job; versions count from 1
Foreign  == 9       \* the line of another configuration

Linux    == [os : {"linux"}, crontab : BOOLEAN, daemon : BOOLEAN, systemctl : BOOLEAN]
NotLinux == [os : {"darwin", "windows"}, crontab : BOOLEAN, daemon : {FALSE}, systemctl : {FALSE}]

\* Nobody has a cron daemon without crontab, or a crontab on Windows.
Possible(h) == (h.daemon => h.crontab) /\ (h.os = "windows" => ~h.crontab)

Available(b) ==
  CASE b = "cron"     -> host.crontab
    [] b = "systemd"  -> host.systemctl
    [] b = "launchd"  -> host.os = "darwin"
    [] b = "schtasks" -> host.os = "windows"

\* The platform's own scheduler, or none that can be used.
Default ==
  CASE host.os = "windows"                     -> "schtasks"
    [] host.os = "darwin"                      -> "launchd"
    [] host.crontab /\ host.daemon             -> "cron"
    [] host.systemctl                          -> "systemd"
    [] OTHER                                   -> "none"

legacyCronJob == host.crontab /\ crontab \notin {NoJob, Foreign}

Resolve(flag) ==
  IF flag # "none" THEN flag
  ELSE IF recorded # "none" THEN recorded
  ELSE IF legacyCronJob THEN "cron" ELSE Default

previousBackend ==
  IF recorded # "none" THEN recorded ELSE IF legacyCronJob THEN "cron" ELSE "none"

\* The version a backend runs at the next hour.
Runs(b) ==
  CASE b = "cron"     -> IF crontab = Foreign THEN NoJob ELSE crontab
    [] b = "schtasks" -> IF loaded[b] = NoJob THEN NoJob ELSE stored[b]
    [] OTHER          -> loaded[b]

NoCommand == [pc |-> "idle", op |-> "none", flag |-> "none", force |-> FALSE, at |-> "none",
              prev |-> "none", seen |-> NoJob, told |-> FALSE]

HourlyInit ==
  /\ host \in {h \in Linux \cup NotLinux : h.os \in Machines /\ Possible(h)}
  /\ policies = {}
  /\ version = 1
  /\ crontab \in IF host.crontab THEN {NoJob, 1, Foreign} ELSE {NoJob}
  /\ stored = [b \in Files |-> NoJob]
  /\ loaded = [b \in Files |-> NoJob]
  /\ recorded = "none"
  /\ work = [u \in Users |-> NoCommand]
  /\ tasks = 0 /\ jobTrouble = 0
  /\ promise = "unsure"
  /\ loose = FALSE /\ left = {}

Quiet == \A u \in Users : work[u].pc = "idle"
To(u, pc) == work' = [work EXCEPT ![u].pc = pc]

\* A command ends; an error or a warning told the user.
Done(u, what) ==
  /\ work' = [work EXCEPT ![u] = NoCommand]
  /\ promise' = IF work[u].told THEN "unsure" ELSE what
  /\ UNCHANGED loose

CommandFails(u) ==
  /\ jobTrouble < MaxJobTrouble
  /\ jobTrouble' = jobTrouble + 1
  /\ work' = [work EXCEPT ![u] = NoCommand]
  /\ promise' = "unsure"

----------------------------------------------------------------------------
(* The commands                                                            *)

\* "ffm backup schedule": the policy is saved, then the job follows it.
SetSchedule(u) ==
  /\ work[u].pc = "idle" /\ tasks < MaxTasks
  /\ \E b \in Scheduled : policies' \in {policies \cup {b}, policies \ {b}}
  /\ tasks' = tasks + 1
  /\ work' = [work EXCEPT ![u].pc = "sync"]
  /\ promise' = "unsure"
  /\ UNCHANGED <<host, version, crontab, stored, loaded, recorded, jobTrouble, loose, left>>

\* syncSchedulerJob: does any bench have a schedule?
Sync(u) ==
  /\ work[u].pc = "sync"
  /\ work' = [work EXCEPT ![u].pc = "resolve", ![u].op = IF policies = {} THEN "uninstall" ELSE "install"]
  /\ UNCHANGED <<host, policies, version, crontab, stored, loaded, recorded, tasks, jobTrouble, promise, loose, left>>

\* "ffm backup scheduler install" and "uninstall".
Command(u) ==
  /\ work[u].pc = "idle" /\ tasks < MaxTasks
  /\ tasks' = tasks + 1
  /\ \E op \in Hands, force \in BOOLEAN, flag \in Backends \cup {"none"} :
       /\ op = "uninstall" => flag = "none"
       /\ work' = [work EXCEPT ![u].pc = "resolve", ![u].op = op, ![u].force = force, ![u].flag = flag]
  /\ promise' = "unsure"
  /\ UNCHANGED <<host, policies, version, crontab, stored, loaded, recorded, jobTrouble, loose, left>>

\* Goes on with backend b, if the machine has it; prev is where the job was.
GoOn(u, b, prev) ==
  IF b = "none" \/ ~Available(b)
  THEN /\ work' = [work EXCEPT ![u] = NoCommand]
       /\ promise' = "unsure"
  ELSE /\ work' = [work EXCEPT ![u].pc = IF work[u].op = "install" THEN "install" ELSE "remove",
                               ![u].at = b, ![u].prev = prev]
       /\ UNCHANGED promise

\* Which backend, and where the job was before.
Choose(u) ==
  /\ work[u].pc = "resolve"
  /\ GoOn(u, Resolve(work[u].flag), previousBackend)
  /\ UNCHANGED <<host, policies, version, crontab, stored, loaded, recorded, tasks, jobTrouble, loose, left>>

\* A look that fails is taken for nothing there: a crontab that cannot be read
\* has no ffm line, a systemd that does not answer has no job to remove.
ChooseBlind(u) ==
  /\ work[u].pc = "resolve"
  /\ jobTrouble < MaxJobTrouble /\ jobTrouble' = jobTrouble + 1
  /\ \/ /\ recorded = "none" /\ legacyCronJob
        /\ LET b == IF work[u].flag # "none" THEN work[u].flag ELSE Default IN
             /\ GoOn(u, b, "none")
             /\ left' = left \cup ({"cron"} \ {b})
        /\ UNCHANGED loose
     \/ /\ work[u].op = "uninstall" /\ Resolve(work[u].flag) = "systemd"
        /\ Done(u, "none")
        /\ left' = left \cup {"systemd"}
  /\ UNCHANGED <<host, policies, version, crontab, stored, loaded, recorded, tasks>>

----------------------------------------------------------------------------
(* Installing                                                              *)

\* A line for another configuration's log is not touched without --force.
checkOwner(u) == crontab # Foreign \/ work[u].force

ReadLine(u) ==
  /\ work[u].pc = "install" /\ work[u].at = "cron"
  /\ \/ /\ ~checkOwner(u)
        /\ work' = [work EXCEPT ![u] = NoCommand] /\ promise' = "unsure" /\ UNCHANGED loose
     \/ /\ checkOwner(u)
        /\ work' = [work EXCEPT ![u].pc = IF crontab = version THEN "save" ELSE "line", ![u].seen = crontab]
        /\ UNCHANGED <<promise, loose>>
  /\ UNCHANGED <<host, policies, version, crontab, stored, loaded, recorded, tasks, jobTrouble, left>>

WriteLine(u) ==
  /\ work[u].pc = "line"
  /\ \/ /\ crontab' = version
        /\ To(u, "save")
        /\ UNCHANGED <<promise, jobTrouble, loose>>
     \/ CommandFails(u) /\ UNCHANGED <<crontab, loose>>
  /\ UNCHANGED <<host, policies, version, stored, loaded, recorded, tasks, left>>

\* The timer is enabled when it is new only (mutant).
LoadAgainNever(b) == b = "schtasks" /\ loaded[b] = NoJob

\* What a backend does when its files already say what they should:
\* systemd's timer is enabled again, a missing task is made, launchd's agent
\* is taken to be loaded.
LoadAgain(b) == b = "systemd" \/ (b = "schtasks" /\ loaded[b] = NoJob)

WriteFiles(u) ==
  /\ work[u].pc = "install" /\ work[u].at \in Files
  /\ LET b == work[u].at IN
       \/ /\ stored' = [stored EXCEPT ![b] = version]
          /\ To(u, IF stored[b] # version \/ LoadAgain(b) THEN "load" ELSE "save")
          /\ UNCHANGED <<jobTrouble, promise, loose>>
       \/ CommandFails(u) /\ UNCHANGED <<stored, loose>>
  /\ UNCHANGED <<host, policies, version, crontab, loaded, recorded, tasks, left>>

\* enable --now, bootout and bootstrap, /Create.  A bootstrap that fails leaves
\* nothing loaded, or the agent that a failing bootout has left: bootstrap
\* refuses one that is loaded.
LoadJob(u) ==
  /\ work[u].pc = "load"
  /\ LET b == work[u].at IN
       \/ /\ loaded' = [loaded EXCEPT ![b] = stored[b]]
          /\ To(u, "save")
          /\ UNCHANGED <<jobTrouble, promise, loose>>
       \/ /\ loaded' \in {loaded} \cup (IF b = "launchd" THEN {[loaded EXCEPT ![b] = NoJob]} ELSE {})
          /\ CommandFails(u)
          /\ UNCHANGED loose
  /\ UNCHANGED <<host, policies, version, crontab, stored, recorded, tasks, left>>

\* The backend is recorded, a failure is a warning; then the old one goes.  What
\* was left behind at this backend is the job now.
SaveState(u) ==
  /\ work[u].pc = "save"
  /\ LET j == work[u]
         moved == j.prev \notin {"none", j.at}
         after == [j EXCEPT !.pc = IF moved THEN "remove" ELSE "end",
                            !.at = IF moved THEN j.prev ELSE @] IN
       \/ /\ recorded' = j.at
          /\ work' = [work EXCEPT ![u] = after]
          /\ UNCHANGED <<jobTrouble, loose>>
       \/ /\ jobTrouble < MaxJobTrouble /\ jobTrouble' = jobTrouble + 1
          /\ work' = [work EXCEPT ![u] = [after EXCEPT !.told = TRUE]]
          /\ loose' = TRUE
          /\ UNCHANGED recorded
       /\ left' = left \ {j.at}
  /\ UNCHANGED <<host, policies, version, crontab, stored, loaded, tasks, promise>>

----------------------------------------------------------------------------
(* Removing: from the backend of an uninstall, or from the old one         *)

\* An error after a move is a warning: the job is in two places now.
RemoveFails(u) ==
  IF work[u].op = "install"
  THEN /\ work' = [work EXCEPT ![u].pc = "end", ![u].told = TRUE]
       /\ loose' = TRUE
       /\ UNCHANGED promise
  ELSE /\ work' = [work EXCEPT ![u] = NoCommand]
       /\ promise' = "unsure"
       /\ UNCHANGED loose

FindJob(u) ==
  /\ work[u].pc = "remove"
  /\ LET b == work[u].at IN
       \/ /\ b = "cron" /\ (crontab = NoJob \/ checkOwner(u))
          /\ work' = [work EXCEPT ![u].pc = IF crontab = NoJob THEN "end" ELSE "unline", ![u].seen = crontab]
          /\ UNCHANGED <<promise, loose>>
       \/ /\ b = "cron" /\ crontab # NoJob /\ ~checkOwner(u)
          /\ RemoveFails(u)
       \/ /\ b \in Files
          /\ To(u, IF stored[b] = NoJob /\ (b = "schtasks" => loaded[b] = NoJob) THEN "end" ELSE "unload")
          /\ UNCHANGED <<promise, loose>>
  /\ UNCHANGED <<host, policies, version, crontab, stored, loaded, recorded, tasks, jobTrouble, left>>

RemoveLine(u) ==
  /\ work[u].pc = "unline"
  /\ \/ /\ crontab' = NoJob /\ left' = left \ {"cron"}
        /\ To(u, "end")
        /\ UNCHANGED <<promise, jobTrouble, loose>>
     \/ /\ jobTrouble < MaxJobTrouble /\ jobTrouble' = jobTrouble + 1
        /\ RemoveFails(u)
        /\ UNCHANGED <<crontab, left>>
  /\ UNCHANGED <<host, policies, version, stored, loaded, recorded, tasks>>

\* The job is stopped first: disable --now, bootout, /Query and /Delete.
Unload(u) ==
  /\ work[u].pc = "unload"
  /\ LET b == work[u].at IN
       \/ /\ loaded' = [loaded EXCEPT ![b] = NoJob] /\ left' = left \ {b}
          /\ To(u, "delete")
          /\ UNCHANGED <<promise, jobTrouble, loose>>
       \* Only a failing /Delete is an error; a failing /Query reads as no task,
       \* and the result of the others is not looked at.
       \/ /\ jobTrouble < MaxJobTrouble /\ jobTrouble' = jobTrouble + 1
          /\ \/ b = "schtasks" /\ RemoveFails(u)
             \/ To(u, "delete") /\ UNCHANGED <<promise, loose>>
          /\ UNCHANGED <<loaded, left>>
  /\ UNCHANGED <<host, policies, version, crontab, stored, recorded, tasks>>

\* The files go, and with them the way back to a job that is still loaded.
DeleteFiles(u) ==
  /\ work[u].pc = "delete"
  /\ LET b == work[u].at IN
       \/ /\ stored' = [stored EXCEPT ![b] = NoJob]
          /\ left' = IF loaded[b] = NoJob THEN left ELSE left \cup {b}
          /\ To(u, "end")
          /\ UNCHANGED <<promise, jobTrouble, loose>>
       \/ /\ jobTrouble < MaxJobTrouble /\ jobTrouble' = jobTrouble + 1
          /\ RemoveFails(u)
          /\ UNCHANGED <<stored, left>>
  /\ UNCHANGED <<host, policies, version, crontab, loaded, recorded, tasks>>

End(u) ==
  /\ work[u].pc = "end"
  /\ Done(u, IF work[u].op = "install" THEN "job" ELSE "none")
  /\ UNCHANGED <<host, policies, version, crontab, stored, loaded, recorded, tasks, jobTrouble, left>>

\* A process killed after it installed the job and before it recorded where
\* leaves one the next command may not look for.
KillCommand(u) ==
  /\ work[u].pc # "idle"
  /\ jobTrouble < MaxJobTrouble /\ jobTrouble' = jobTrouble + 1
  /\ work' = [work EXCEPT ![u] = NoCommand]
  /\ promise' = "unsure"
  /\ loose' = (loose \/ work[u].pc \in {"load", "save", "remove", "unline", "unload", "delete"})
  /\ UNCHANGED <<host, policies, version, crontab, stored, loaded, recorded, tasks, left>>

\* A new ffm at another place: the job runs the old one until it is installed
\* again.
Move ==
  /\ version = 1 /\ Quiet
  /\ version' = 2
  /\ promise' = "unsure"
  /\ UNCHANGED <<host, policies, crontab, stored, loaded, recorded, work, tasks, jobTrouble, loose, left>>

\* The other configuration takes the line, by force or because it is free.
OtherInstalls ==
  /\ host.crontab /\ crontab # Foreign /\ tasks < MaxTasks /\ tasks' = tasks + 1
  /\ crontab' = Foreign
  /\ promise' = "unsure"
  /\ work' = [u \in Users |-> [work[u] EXCEPT !.told = @ \/ work[u].pc # "idle"]]
  /\ UNCHANGED <<host, policies, version, stored, loaded, recorded, jobTrouble, loose, left>>

HourlyNext ==
  \/ \E u \in Users :
       \/ SetSchedule(u) \/ Sync(u) \/ Command(u) \/ Choose(u) \/ ChooseBlind(u)
       \/ ReadLine(u) \/ WriteLine(u) \/ WriteFiles(u) \/ LoadJob(u) \/ SaveState(u)
       \/ FindJob(u) \/ RemoveLine(u) \/ Unload(u) \/ DeleteFiles(u) \/ End(u) \/ KillCommand(u)
  \/ Move \/ OtherInstalls

HourlySpec == HourlyInit /\ [][HourlyNext]_hvars

\* The bounds on the commands and the troubles are used up.
HourlyStops == Quiet /\ tasks = MaxTasks

----------------------------------------------------------------------------
(* Properties                                                              *)

\* launchd does not run the agent of its file: an install whose bootstrap failed,
\* which it said, and the next one says that it is up to date (launchd.go,
\* Install).
OldAgent == stored["launchd"] # NoJob /\ loaded["launchd"] # stored["launchd"]

\* After a command that ended without an error or a warning, one backend runs
\* the ffm that is installed and no other backend runs any, or none does if it
\* was a removal - however many times the job moved, and whatever failed
\* before (backend.go, Install and Uninstall).  Excepted are the jobs that a
\* command left behind without a word: one whose stop failed before its files
\* were removed (systemd.go:167 and launchd.go:128 discard the result, schtasks'
\* taskExists reads a failing /Query as no task), a systemd job whose manager
\* did not answer an uninstall (backend.go:330), and a line of the crontab that
\* could not be read while no backend was recorded (legacyCronJob,
\* backend.go:204).  They are excepted until a command installs the job there
\* again or removes it.  While launchd runs an old agent, of which the failed
\* install spoke and the later ones do not, nothing is said.
JobFollows ==
  Quiet /\ ~loose /\ ~OldAgent =>
    LET running == {b \in Backends \ left : Runs(b) # NoJob} IN
    /\ promise = "job"  => Cardinality(running) = 1 /\ \A b \in running : Runs(b) = version
    /\ promise = "none" => running = {}

\* "The first schedule installs a single job ...; the last --off removes it"
\* (README.md, backup schedule): when no command runs and none said that
\* something went wrong, a bench with a schedule is backed up by a job.
ScheduleRuns ==
  Quiet /\ promise # "unsure" /\ ~loose /\ policies # {} => \E b \in Backends : Runs(b) # NoJob

=============================================================================
