-------------------------- MODULE BackupSchedule ---------------------------
(***************************************************************************)
(* Scheduled backups of a bench and their pruning (internal/manager:       *)
(* backup_schedule.go, backup_retention.go, backup.go, backup_keys.go,     *)
(* backup_targets.go): passes of `ffm backup run-due`, started by the      *)
(* scheduler or by a user, next to backups, prunes and other locked        *)
(* operations of users, with failing steps and killed processes.           *)
(*                                                                         *)
(* Time is counted in units; a pass sees one bench and at most one remote  *)
(* target.  What a bench contains and how an archive is laid out is left   *)
(* out: of an archive there are the files it consists of.                  *)
(***************************************************************************)
EXTENDS Retention

CONSTANTS
  Procs,          \* ffm processes
  Policies,       \* the schedules that a user may set
  Slack,          \* dueSlack
  Day, Week,      \* 24 and 168 hours
  PartialMaxAge,  \* partialMaxAge
  MaxFaults,      \* bound: failed steps and killed processes
  UserCalls,      \* bound: what users call besides run-due
  MaxCalls,       \* bound: calls started
  Free, None      \* no holder, nothing

Policy == [enabled : BOOLEAN, every : Nat, hourly : Nat, daily : Nat, weekly : Nat,
           files : {"every-run", "daily", "weekly", "never"},
           encrypt : BOOLEAN, upload : BOOLEAN]

ASSUME ScheduleAssumption ==
  /\ Policies \subseteq Policy
  /\ {Slack, Day, Week, PartialMaxAge, MaxFaults, MaxCalls} \subseteq Nat
  /\ UserCalls \subseteq {"backup", "prune", "other"}
  /\ Free \notin Procs /\ None \notin Archive \cup Policy

\* A run is due early by less than an interval (5 minutes, where ValidatePolicy
\* asks for an hour), and every prune keeps the newest archive.
ASSUME IntervalAssumption ==
  /\ \A pol \in Policies : pol.every > Slack
  /\ RetentionFloor >= 1

\* What a process does: what is asked of the backup, when the attempt began.
Job == [kind : {"run", "backup", "prune", "other"}, files : BOOLEAN, encrypt : BOOLEAN,
        upload : BOOLEAN, attempt : Times]

VARIABLES
  now,        \* the clock
  policy,     \* the bench's BackupSchedule, None without one
  local,      \* the archives in the bench's backup directory
  partials,   \* the .partial files there: whose archive they are, how old
  remote,     \* the archives on the target
  runLock,    \* the holder of the lock of run-due
  benchLock,  \* the holder of the lock of the bench
  pc, job,    \* the step a process is at and what it does
  seen,       \* seen[p]: the policy p has read
  making,     \* making[p]: the archive p makes, as its plain file
  run,        \* the RunState file
  faults,     \* steps failed and processes killed so far
  calls,      \* calls started so far
  taken       \* ghost: the scheduled archives that prunes have looked at, and
              \*   the policies that passes and prunes have followed

disk    == <<local, partials, remote>>
process == <<pc, job, seen, making>>
vars    == <<now, policy, disk, runLock, benchLock, process, run, faults, calls, taken>>

Steps == {"idle", "load", "check", "lock", "other", "dump", "create", "close", "encrypt",
          "sidecar", "replace", "put", "putSidecar", "confirm", "prune", "pruneRemote"}

TypeOK ==
  /\ now \in Times
  /\ policy \in Policies \cup {None}
  /\ local \subseteq Archive /\ remote \subseteq Archive
  /\ partials \subseteq [of : Times, since : Times]
  /\ runLock \in Procs \cup {Free} /\ benchLock \in Procs \cup {Free}
  /\ pc \in [Procs -> Steps]
  /\ job \in [Procs -> Job \cup {None}]
  /\ seen \in [Procs -> Policies \cup {None}]
  /\ making \in [Procs -> Archive \cup {None}]
  /\ run \in [result : {"none", "ok", "failed", "skipped-stopped", "skipped-busy"}, attempt : Times]
  /\ faults \in 0..MaxFaults /\ calls \in 0..MaxCalls
  /\ taken \in [archives : SUBSET Archive, under : SUBSET Policies]

Init ==
  /\ now = 0
  /\ policy = None
  /\ local = {} /\ partials = {} /\ remote = {}
  /\ runLock = Free /\ benchLock = Free
  /\ pc = [p \in Procs |-> "idle"]
  /\ job = [p \in Procs |-> None]
  /\ seen = [p \in Procs |-> None]
  /\ making = [p \in Procs |-> None]
  /\ run = [result |-> "none", attempt |-> 0]
  /\ faults = 0 /\ calls = 0
  /\ taken = [archives |-> {}, under |-> {}]

At(p, step)   == pc[p] = step
Goto(p, step) == pc' = [pc EXCEPT ![p] = step]

Released(l, p) == IF l = p THEN Free ELSE l

\* Deferred releases run on every return; a killed process loses its locks.
Return(p) ==
  /\ pc' = [pc EXCEPT ![p] = "idle"]
  /\ job' = [job EXCEPT ![p] = None]
  /\ seen' = [seen EXCEPT ![p] = None]
  /\ making' = [making EXCEPT ![p] = None]
  /\ runLock' = Released(runLock, p)
  /\ benchLock' = Released(benchLock, p)

Goes(p, step) == Goto(p, step) /\ UNCHANGED <<job, seen, making, runLock, benchLock>>

\* writeRunState, by a pass of run-due, which ignores its error.
Records(p, result) ==
  \/ run' = run
  \/ job[p].kind = "run" /\ run' = [result |-> result, attempt |-> job[p].attempt]

\* The files of the archive that p makes.
Plain(p)    == making[p]
Age(p)      == [making[p] EXCEPT !.form = "age"]
Headless(p) == [making[p] EXCEPT !.form = "headless"]

-----------------------------------------------------------------------------
(* Users, the clock *)

Tick == now < MaxTime /\ now' = now + 1
        /\ UNCHANGED <<policy, disk, runLock, benchLock, process, run, faults, calls, taken>>

ValidatePolicy(p) == p.every >= 1 /\ p.hourly + p.daily + p.weekly > 0

\* Takes no lock but the store's.
SetBackupSchedule ==
  /\ \/ policy' = None
     \/ \E p \in Policies : ValidatePolicy(p) /\ policy' = p
  /\ UNCHANGED <<now, disk, runLock, benchLock, process, run, faults, calls, taken>>

NewJob(kind, encrypt, upload) ==
  [kind |-> kind, files |-> TRUE, encrypt |-> encrypt \/ upload, upload |-> upload, attempt |-> 0]

Calls(p) == At(p, "idle") /\ calls < MaxCalls /\ calls' = calls + 1

\* Mutant of StartRun: a second pass may run.
StartRunAnyway(p) ==
  /\ Calls(p)
  /\ runLock' = p
  /\ Goto(p, "load")
  /\ job' = [job EXCEPT ![p] = NewJob("run", FALSE, FALSE)]
  /\ UNCHANGED <<now, policy, disk, benchLock, seen, making, run, faults, taken>>

\* RunDue: a second pass is refused at once.
StartRun(p) ==
  /\ Calls(p)
  /\ runLock = Free
  /\ runLock' = p
  /\ Goto(p, "load")
  /\ job' = [job EXCEPT ![p] = NewJob("run", FALSE, FALSE)]
  /\ UNCHANGED <<now, policy, disk, benchLock, seen, making, run, faults, taken>>

\* A user's backup, prune or any other operation that holds the bench lock; a
\* prune reads the policy before it takes the lock.
StartUser(p) ==
  /\ Calls(p)
  /\ \/ /\ "backup" \in UserCalls
        /\ \E encrypt, upload \in BOOLEAN :
             job' = [job EXCEPT ![p] = NewJob("backup", encrypt, upload)]
        /\ UNCHANGED seen
     \/ /\ "prune" \in UserCalls
        /\ policy # None
        /\ job' = [job EXCEPT ![p] = NewJob("prune", FALSE, FALSE)]
        /\ seen' = [seen EXCEPT ![p] = policy]
     \/ /\ "other" \in UserCalls
        /\ job' = [job EXCEPT ![p] = NewJob("other", FALSE, FALSE)]
        /\ UNCHANGED seen
  /\ Goto(p, "lock")
  /\ UNCHANGED <<now, policy, disk, runLock, benchLock, making, run, faults, taken>>

\* Any other operation under the bench lock; it leaves the archives alone.
Other(p) ==
  /\ At(p, "other")
  /\ Return(p)
  /\ UNCHANGED <<now, policy, disk, run, faults, calls, taken>>

-----------------------------------------------------------------------------
(* A pass of run-due *)

\* LoadBenches: the pass works with the policy as it is now.
LoadBenches(p) ==
  /\ At(p, "load")
  /\ IF policy = None \/ ~policy.enabled THEN Return(p)
     ELSE /\ Goto(p, "check")
          /\ seen' = [seen EXCEPT ![p] = policy]
          /\ UNCHANGED <<job, making, runLock, benchLock>>
  /\ UNCHANGED <<now, policy, disk, run, faults, calls, taken>>

\* scheduleStatus: how long ago the newest archive (with files) was taken.
Newest(S)   == CHOOSE t \in {a.at : a \in S} : \A a \in S : a.at <= t
WithFiles   == {a \in Candidates(local) : a.files}

due(p) == Candidates(local) = {} \/ now >= Newest(Candidates(local)) + seen[p].every - Slack

Cadence(pol) == CASE pol.files = "daily" -> Day [] pol.files = "weekly" -> Week [] OTHER -> 0

includeFiles(p) ==
  CASE seen[p].files = "never"     -> FALSE
    [] seen[p].files = "every-run" -> TRUE
    [] OTHER -> WithFiles = {} \/ now - Newest(WithFiles) >= Cadence(seen[p]) - Slack

CheckDue(p) ==
  /\ At(p, "check")
  /\ IF ~due(p) THEN Return(p)
     ELSE /\ Goto(p, "lock")
          /\ job' = [job EXCEPT ![p] =
                       [NewJob("run", seen[p].encrypt, seen[p].upload) EXCEPT !.files = includeFiles(p), !.attempt = now]]
          /\ UNCHANGED <<seen, making, runLock, benchLock>>
  /\ UNCHANGED <<now, policy, disk, run, faults, calls, taken>>

\* What each kind of call does under the bench lock.
AfterLock(kind) == CASE kind \in {"run", "backup"} -> "dump" [] kind = "prune" -> "prune"
                  [] kind = "other" -> "other"

\* Mutant of LockBench: a prune does not take the lock.
LockBenchUnlessPrune(p) ==
  /\ At(p, "lock")
  /\ IF benchLock = Free \/ job[p].kind = "prune"
     THEN /\ benchLock' = IF job[p].kind = "prune" THEN benchLock ELSE p
          /\ Goto(p, AfterLock(job[p].kind))
          /\ UNCHANGED <<job, seen, making, runLock, run>>
     ELSE Records(p, "skipped-busy") /\ Return(p)
  /\ UNCHANGED <<now, policy, disk, faults, calls, taken>>

\* lockBench: a pass that finds the bench busy skips it.
LockBench(p) ==
  /\ At(p, "lock")
  /\ IF benchLock = Free
     THEN /\ benchLock' = p
          /\ Goto(p, AfterLock(job[p].kind))
          /\ UNCHANGED <<job, seen, making, runLock, run>>
     ELSE Records(p, "skipped-busy") /\ Return(p)
  /\ UNCHANGED <<now, policy, disk, faults, calls, taken>>

-----------------------------------------------------------------------------
(* The backup, under the bench lock *)

\* A pass does not start a stopped bench.
SkipStopped(p) ==
  /\ At(p, "dump") /\ job[p].kind = "run"
  /\ Records(p, "skipped-stopped")
  /\ Return(p)
  /\ UNCHANGED <<now, policy, disk, faults, calls, taken>>

\* The archive has the time of its dump.
Dump(p) ==
  /\ At(p, "dump")
  /\ Goto(p, "create")
  /\ making' = [making EXCEPT ![p] =
       [at |-> now, files |-> job[p].files, form |-> "plain",
        trigger |-> IF job[p].kind = "run" THEN "scheduled" ELSE "manual"]]
  /\ taken' = IF job[p].kind = "run" THEN [taken EXCEPT !.under = @ \cup {seen[p]}] ELSE taken
  /\ UNCHANGED <<now, policy, disk, runLock, benchLock, job, seen, run, faults, calls>>

\* archive.Create; the age of the file is that of its creation here, the
\* least that its modification time may show.
CreateArchive(p) ==
  /\ At(p, "create")
  /\ Goes(p, "close")
  /\ partials' = partials \cup {[of |-> making[p].at, since |-> now]}
  /\ UNCHANGED <<now, policy, local, remote, run, faults, calls, taken>>

MyPartials(p) == {f \in partials : f.of = making[p].at}

\* After its archive is stored, a pass prunes; a backup is done.
Stored(p) ==
  IF job[p].kind = "run" THEN Goes(p, "prune") ELSE Return(p)

\* Writer.Close: the archive gets its name only when it is complete.
CloseArchive(p) ==
  /\ At(p, "close")
  /\ partials' = partials \ MyPartials(p)
  /\ local' = local \cup {Plain(p)}
  /\ IF job[p].encrypt THEN Goes(p, "encrypt") ELSE Stored(p)
  /\ UNCHANGED <<now, policy, remote, run, faults, calls, taken>>

\* encryptArchive: the encrypted file, its header, then the plain file goes.
Encrypt(p) ==
  /\ At(p, "encrypt")
  /\ Goes(p, "sidecar")
  /\ local' = local \cup {Headless(p)}
  /\ UNCHANGED <<now, policy, partials, remote, run, faults, calls, taken>>

Sidecar(p) ==
  /\ At(p, "sidecar")
  /\ Goes(p, "replace")
  /\ local' = (local \ {Headless(p)}) \cup {Age(p)}
  /\ UNCHANGED <<now, policy, partials, remote, run, faults, calls, taken>>

Replace(p) ==
  /\ At(p, "replace")
  /\ local' = local \ {Plain(p)}
  /\ IF job[p].upload THEN Goes(p, "put") ELSE Stored(p)
  /\ UNCHANGED <<now, policy, partials, remote, run, faults, calls, taken>>

\* Mutant of Put: a failed upload is only a warning.
PutWarns(p) ==
  /\ At(p, "put")
  /\ Goes(p, "putSidecar") \/ Stored(p)
  /\ remote' = IF pc'[p] = "putSidecar" THEN remote \cup {Headless(p)} ELSE remote
  /\ UNCHANGED <<now, policy, local, partials, run, faults, calls, taken>>

\* uploadArchive: the archive, its header, then both are looked up.
Put(p) ==
  /\ At(p, "put")
  /\ Goes(p, "putSidecar")
  /\ remote' = remote \cup {Headless(p)}
  /\ UNCHANGED <<now, policy, local, partials, run, faults, calls, taken>>

PutSidecar(p) ==
  /\ At(p, "putSidecar")
  /\ Goes(p, "confirm")
  /\ remote' = (remote \ {Headless(p)}) \cup {Age(p)}
  /\ UNCHANGED <<now, policy, local, partials, run, faults, calls, taken>>

Confirm(p) ==
  /\ At(p, "confirm")
  /\ Stored(p)
  /\ UNCHANGED <<now, policy, disk, run, faults, calls, taken>>

-----------------------------------------------------------------------------
(* Pruning, under the bench lock *)

\* What a prune removes of these archives.
Dropped(p, archives) == Candidates(archives) \ selectRetained(Candidates(archives), seen[p])

OldPartials == {f \in partials : now - f.since > PartialMaxAge}

\* The archives are removed one by one, newest first: what is gone when a
\* removal fails or the process is killed.
Interrupted(S) == {{}} \cup {{b \in S : Before(b, a)} : a \in S}

\* The prune of p looks at the archives here.
Looks(p) ==
  taken' = [archives |-> taken.archives \cup Candidates(local), under |-> taken.under \cup {seen[p]}]

\* What comes after the local prune; its errors are warnings to a pass.
Pruned(p) ==
  IF job[p].kind = "run" /\ job[p].upload
  THEN Goes(p, "pruneRemote") /\ UNCHANGED run
  ELSE Records(p, "ok") /\ Return(p)

\* pruneWithPolicy
Prune(p) ==
  /\ At(p, "prune")
  /\ \/ /\ local' = local \ Dropped(p, local)
        /\ partials' = partials \ OldPartials
        /\ UNCHANGED faults
     \/ /\ faults < MaxFaults /\ faults' = faults + 1
        /\ \E gone \in Interrupted(Dropped(p, local)) : local' = local \ gone
        /\ UNCHANGED partials
  /\ Pruned(p)
  /\ Looks(p)
  /\ UNCHANGED <<now, policy, remote, calls>>

\* pruneRemote: the same rules on the target.
PruneRemote(p) ==
  /\ At(p, "pruneRemote")
  /\ \/ remote' = remote \ Dropped(p, remote) /\ UNCHANGED faults
     \/ /\ faults < MaxFaults /\ faults' = faults + 1
        /\ \E gone \in Interrupted(Dropped(p, remote)) : remote' = remote \ gone
  /\ Records(p, "ok")
  /\ Return(p)
  /\ UNCHANGED <<now, policy, local, partials, calls, taken>>

-----------------------------------------------------------------------------
(* What goes wrong *)

\* A step of the backup that returns an error, and what is cleaned up after it:
\* the partial file, or the files of an archive that could not be encrypted.  A
\* plain file that cannot be removed fails the backup with the encrypted one in
\* place; a failed upload leaves the archive here.
Fail(p) ==
  /\ pc[p] \in {"load", "check", "dump", "create", "close", "encrypt", "sidecar", "replace",
               "put", "putSidecar", "confirm"}
  /\ faults < MaxFaults /\ faults' = faults + 1
  /\ partials' = IF At(p, "close") THEN partials \ MyPartials(p) ELSE partials
  /\ \/ pc[p] \notin {"encrypt", "sidecar"} /\ local' = local
     \/ At(p, "encrypt") /\ local' = local \ {Plain(p)}
     \/ At(p, "sidecar") /\ local' = local \ {Plain(p), Headless(p)}
     \/ At(p, "replace") /\ local' = local \ {Plain(p)}
  /\ \/ remote' = remote
     \/ At(p, "put") /\ remote' = remote \cup {Headless(p)}
  /\ IF pc[p] \in {"load", "check"} THEN UNCHANGED run ELSE Records(p, "failed")
  /\ Return(p)
  /\ UNCHANGED <<now, policy, calls, taken>>

\* A killed process leaves what it was writing; a prune may be half done.
Crash(p) ==
  /\ ~At(p, "idle")
  /\ faults < MaxFaults /\ faults' = faults + 1
  /\ local' \in {local} \cup (IF At(p, "prune")
                              THEN {local \ gone : gone \in Interrupted(Dropped(p, local))} ELSE {})
  /\ remote' \in {remote} \cup (IF At(p, "pruneRemote")
                                THEN {remote \ gone : gone \in Interrupted(Dropped(p, remote))} ELSE {})
  /\ partials' \in {partials} \cup (IF At(p, "encrypt")
                                    THEN {partials \cup {[of |-> making[p].at, since |-> now]}} ELSE {})
  /\ IF At(p, "prune") THEN Looks(p) ELSE UNCHANGED taken
  /\ Return(p)
  /\ UNCHANGED <<now, policy, run, calls>>

-----------------------------------------------------------------------------
Step(p) ==
  \/ LoadBenches(p) \/ CheckDue(p) \/ LockBench(p) \/ Other(p)
  \/ SkipStopped(p) \/ Dump(p) \/ CreateArchive(p) \/ CloseArchive(p)
  \/ Encrypt(p) \/ Sidecar(p) \/ Replace(p) \/ Put(p) \/ PutSidecar(p) \/ Confirm(p)
  \/ Prune(p) \/ PruneRemote(p)

Next ==
  \/ Tick \/ SetBackupSchedule
  \/ \E p \in Procs : StartRun(p) \/ StartUser(p) \/ Step(p) \/ Fail(p) \/ Crash(p)

Spec == Init /\ [][Next]_vars

-----------------------------------------------------------------------------
(* Properties *)

Scheduled == {a \in local : a.trigger = "scheduled"}

Apart(a, b) == IF a.at > b.at THEN a.at - b.at ELSE b.at - a.at

\* Scheduled archives are never closer than an interval less the slack, whoever
\* starts run-due how often, and whatever fails: an archive whose upload failed
\* counts, one that could not be encrypted is not there.
Spaced ==
  \A a, b \in Scheduled :
     a.at # b.at => \E pol \in Policies : Apart(a, b) >= pol.every - Slack

\* Every archive that a step removes, other than the one it is making, is an
\* identified archive of a scheduled run, and RetentionFloor newer ones stay,
\* here and on the target: manual archives and those that cannot be identified
\* are never touched, and the newest survive any policy, any outage and an
\* interrupted prune.
Identified(a) == a.trigger = "scheduled" /\ a.form # "headless"
Spares(was, is) ==
  \A a \in was \ is :
     \/ \E p \in Procs : making[p] # None /\ making[p].at = a.at
     \/ Identified(a) /\ Cardinality({b \in is : Identified(b) /\ b.at >= a.at}) >= RetentionFloor
PruneSpares == [][Spares(local, local') /\ Spares(remote, remote')]_vars

\* A pass removes an archive only once its own new one is complete here, and on
\* the target if there is one: a failed backup or upload prunes nothing.
Safe(p) ==
  /\ (IF job[p].encrypt THEN Age(p) ELSE Plain(p)) \in local
  /\ job[p].encrypt => Plain(p) \notin local
  /\ job[p].upload => Age(p) \in remote
OnlyAfterSuccess ==
  [][\A p \in Procs :
       /\ job[p] # None /\ job[p].kind = "run"
       /\ \/ \E a \in local \ local' : making[p] # None /\ a.at # making[p].at
          \/ \E a \in remote \ remote' : making[p] # None /\ a.at # making[p].at
       /\ benchLock = p
       => Safe(p)]_vars

\* The partial file of a backup that is still writing it is never removed by a
\* prune, however old it is.
WritingKept ==
  \A p \in Procs : At(p, "close") => MyPartials(p) # {}

\* As long as all followed one policy, prune after prune keeps what a
\* single one would have kept: each of the newest hours, days and weeks with a
\* scheduled archive still has one, with the attachments if any archive of that
\* day or week had them, whoever prunes, is killed at it or cannot remove a file.
KeepsTier(limit, preferFiles, bucket) ==
  \A a \in taken.archives :
     Cardinality({j \in {bucket[b.at] : b \in taken.archives} : j > bucket[a.at]}) < limit =>
       \E b \in Candidates(local) : bucket[b.at] = bucket[a.at] /\ (preferFiles /\ a.files => b.files)
HistoryKept ==
  \A pol \in Policies : taken.under \subseteq {pol} =>
     /\ KeepsTier(pol.hourly, FALSE, HourOf)
     /\ KeepsTier(pol.daily, TRUE, DayOf)
     /\ KeepsTier(pol.weekly, TRUE, WeekOf)

\* Attachments are archived no more often than the policy says (README.md:1044,
\* `--files <cadence>`): pruning does not make them due again.
FilesSpaced ==
  \A a, b \in taken.archives : a.files /\ b.files /\ a.at # b.at =>
     \E pol \in taken.under : Apart(a, b) >= Cadence(pol) - Slack

\* When pruning leaves them time: two buckets on is a full bucket later (not so
\* on the day that summer time begins, which lasts 23 hours), and a policy that
\* asks for attachments once a day, or once a week, keeps two of such days or
\* weeks, as every preset does.
FullLength(bucket, length) ==
  \A s, t \in Times : bucket[t] >= bucket[s] + 2 => t - s >= length - Slack
Backed(pol) ==
  /\ pol.files = "daily" => pol.daily >= 2 \/ pol.weekly >= 2
  /\ pol.files = "weekly" => pol.weekly >= 2
CadencesKept ==
  /\ \A pol \in Policies : Backed(pol)
  /\ FullLength(DayOf, Day) /\ FullLength(WeekOf, Week) /\ Day <= Week

\* The loop of selectRetained stops early and still chooses what its comment
\* says, whatever archives have piled up.
SelectionAgrees == \A pol \in Policies : PassesAgree(Candidates(local), pol)

\* What pruning promises of its choice and of what that is for.
PruningAsSaid == SelectionAgrees /\ FilesSpaced
=============================================================================
