------------------------------ MODULE AppSources ------------------------------
(***************************************************************************)
(* Where the code of a bench's apps comes from: what a backup records of   *)
(* each app, which apps it has to archive, and where a restore gets each   *)
(* app back (internal/manager/backup_appsource.go, backup_manifest.go,     *)
(* restore_appsource.go, restore_pincheck.go, bench/app.go).               *)
(*                                                                         *)
(* Pure functions.  A spec ("erpnext@version-15", "https://host/x@main")   *)
(* is a record of its source, a repository or a bare name, and its branch. *)
(* A commit is a point of a line of history, so that one commit contains   *)
(* another or not; tags are branches that never move.                      *)
(***************************************************************************)
EXTENDS Integers, FiniteSets

CONSTANTS
  Apps,      \* names appNameRe accepts, "frappe" among them
  Repos,     \* remotes another machine can clone from (cloneableRemote)
  RepoName,  \* RepoName[r]: the last path element of r, often an app's name
  Registry,  \* bare names bench finds under github.com/frappe or /erpnext
  Upstream,  \* the repository of upstream frappe
  None

NoCommit == [line |-> None, n |-> 0]
NoSpec   == [source |-> None, branch |-> None]

IsURL(s)       == s.source \in Repos
DisplayName(s) == IF IsURL(s) THEN RepoName[s.source] ELSE s.source

(***************************************************************************)
(* What a backup records of an app.  A checkout c is what git says of      *)
(* apps/<name>: on is the set of branches of the remote whose tracking     *)
(* refs contain HEAD, tagged whether a tag does, tag the tag HEAD is on.   *)
(***************************************************************************)
NoInfo == [git |-> FALSE, commit |-> NoCommit, branch |-> None, tag |-> None, remote |-> None,
           remoteBranch |-> None, unpushed |-> FALSE, edits |-> FALSE, source |-> None, reason |-> None]

\* The branch a restore clones: the one tracked, else the remote's branch of the
\* same name, else any that holds the commit.
RemoteBranch(c) ==
  IF c.tracking \in c.on THEN c.tracking
  ELSE IF c.branch \in c.on THEN c.branch
  ELSE IF c.on # {} THEN CHOOSE b \in c.on : TRUE ELSE None

applyProbe(c) ==
  LET remote == IF c.remote \in Repos THEN c.remote ELSE None
      known  == remote # None /\ c.head # NoCommit
  IN  IF ~c.git THEN NoInfo
      ELSE [NoInfo EXCEPT !.git = TRUE, !.commit = c.head, !.branch = c.branch, !.tag = c.tag,
                          !.remote = remote, !.edits = c.edits,
                          !.unpushed = known /\ c.on = {} /\ ~c.tagged,
                          !.remoteBranch = IF known THEN RemoteBranch(c) ELSE None]

\* The same without the look at the remote-tracking refs (a mutant).
vendorReasonUnlooked(i, forced) ==
  IF ~i.git THEN "no-git"
  ELSE IF i.remote = None THEN "no-remote"
  ELSE IF i.commit = NoCommit THEN "no-commit"
  ELSE IF forced THEN "requested" ELSE None

\* Why an app has to travel inside the archive.
vendorReason(i, forced) ==
  IF ~i.git THEN "no-git"
  ELSE IF i.remote = None THEN "no-remote"
  ELSE IF i.commit = NoCommit THEN "no-commit"
  ELSE IF i.unpushed THEN "unpushed"
  ELSE IF forced THEN "requested" ELSE None

vendorCandidates(installed, recorded, forced) ==
  {"frappe"} \cup installed \cup {DisplayName(s) : s \in recorded} \cup forced

\* What the manifest says of each app that is in apps/.
planAppSources(infos, candidates, forced, mounted) ==
  [a \in DOMAIN infos |->
     LET i      == infos[a]
         asked  == IF a \in candidates THEN vendorReason(i, a \in forced) ELSE None
         reason == IF a \in candidates /\ asked = None /\ a = mounted /\ i.edits
                   THEN "dirty-mounted" ELSE asked
     IN  IF reason # None THEN [i EXCEPT !.source = "archive", !.reason = reason]
         ELSE IF i.git /\ i.remote # None THEN [i EXCEPT !.source = "git"] ELSE i]

Archived(i) == i.source = "archive"

\* An archive of this schema never falls back to the local branch.
CloneBranch(i) ==
  IF i.remoteBranch # None THEN i.remoteBranch
  ELSE IF i.tag # None THEN i.tag
  ELSE IF i.source = None /\ i.branch # "HEAD" THEN i.branch ELSE None

(***************************************************************************)
(* Where a restore gets each app.  A manifest m has the bench record's     *)
(* specs m.apps and m.frappe, the apps m.installed on the site and the     *)
(* infos of the apps on the bench; over maps the apps named with --app to  *)
(* their specs.                                                            *)
(***************************************************************************)
InfoOf(m, a)     == IF a \in DOMAIN m.infos THEN m.infos[a] ELSE NoInfo
Recorded(m, a)   == {s \in m.apps : DisplayName(s) = a}
RecordSpec(m, a) == IF Recorded(m, a) = {} THEN NoSpec ELSE CHOOSE s \in Recorded(m, a) : TRUE

\* Nothing the database expects is dropped.
PlannedApps(m) == ({DisplayName(s) : s \in m.apps} \cup m.installed) \ {"frappe"}

PlanApp(m, over, a) ==
  LET i == InfoOf(m, a)
      r == RecordSpec(m, a)
  IN  IF a \in DOMAIN over THEN [spec |-> over[a], origin |-> "--app"]
      ELSE IF Archived(i) THEN [spec |-> NoSpec, origin |-> "archive"]
      ELSE IF i.remote # None /\ (CloneBranch(i) # None \/ r = NoSpec)
           THEN [spec |-> [source |-> i.remote, branch |-> CloneBranch(i)], origin |-> "recorded remote"]
      ELSE IF r # NoSpec THEN [spec |-> r, origin |-> "bench record"]
      ELSE [spec |-> [source |-> a, branch |-> None], origin |-> "bare name"]

planFrappe(m, over) ==
  LET i    == InfoOf(m, "frappe")
      made == [spec |-> m.frappe, origin |-> "bench record"]
      At(s, b) == [source |-> s, branch |-> IF b = None THEN m.frappe.branch ELSE b]
  IN  IF "frappe" \in DOMAIN over
        THEN LET s == over["frappe"]
             IN  [spec |-> At(IF IsURL(s) THEN s.source ELSE Upstream, s.branch), origin |-> "--app"]
      ELSE IF Archived(i) THEN [made EXCEPT !.origin = "archive"]
      ELSE IF i.remote # None THEN [spec |-> At(i.remote, CloneBranch(i)), origin |-> "recorded remote"]
      ELSE made

planRestoreApps(m, over) ==
  [a \in PlannedApps(m) \cup {"frappe"} |-> IF a = "frappe" THEN planFrappe(m, over) ELSE PlanApp(m, over, a)]

FromArchive(plan) == {a \in DOMAIN plan : plan[a].origin = "archive"}

\* An --app that names another branch than the one the commit was on.
overrideMovesBranch(m, plan, a) ==
  /\ plan[a].origin = "--app"
  /\ LET b == plan[a].spec.branch
         c == CloneBranch(InfoOf(m, a))
     IN  IF a = "frappe" THEN c # None /\ b # c ELSE b # None /\ b # c

\* The cloned apps that can be put on the commit the archive recorded.
pinnable(m, plan) ==
  {a \in DOMAIN plan \cap Apps \cap DOMAIN m.infos :
     a \notin FromArchive(plan) /\ ~overrideMovesBranch(m, plan, a)}

pinTargets(m, plan) ==
  {[app |-> a, source |-> plan[a].spec.source, commit |-> m.infos[a].commit] :
     a \in {x \in pinnable(m, plan) : m.infos[x].commit # NoCommit}}

\* GitHub is asked whether it still has each pinned commit.
checkPinnedCommits(m, plan, served) ==
  {t.app : t \in {x \in pinTargets(m, plan) : x.source \in Repos /\ <<x.source, x.commit>> \notin served}}

\* The plan and the archive agree and no name is refused by the shell's rules.
checkRestorePlan(m, plan, over) ==
  {<<"app name", a>> : a \in DOMAIN plan \ Apps}
  \cup {<<"no member", a>> : a \in FromArchive(plan) \ DOMAIN m.trees}
  \cup {<<"unknown --app", a>> : a \in DOMAIN over \ DOMAIN plan}

checkBareNames(plan) ==
  {<<"no source", a>> : a \in {x \in DOMAIN plan \ (FromArchive(plan) \cup {"frappe"}) :
                                 ~IsURL(plan[x].spec) /\ plan[x].spec.source \notin Registry}}

\* The spec the record of the restored bench keeps for an app.
specsByName(m, plan, a) ==
  LET i == InfoOf(m, a)
  IN  IF a \notin FromArchive(plan) THEN plan[a].spec
      ELSE IF i.remote = None THEN NoSpec
      ELSE [source |-> i.remote,
            branch |-> IF i.remoteBranch # None THEN i.remoteBranch
                       ELSE IF i.branch # "HEAD" THEN i.branch ELSE None]

\* The same with the specs looked up by the name a URL spells (a mutant).
appsByURLName(m, plan, installed) ==
  {LET named == {plan[x].spec : x \in {y \in DOMAIN plan : DisplayName(plan[y].spec) = a}}
   IN  IF named # {} THEN CHOOSE s \in named : TRUE ELSE [source |-> a, branch |-> None] : a \in installed \ {"frappe"}}

\* What the record keeps: the site's apps, each with its source.
appsWithoutFramework(m, plan, installed) ==
  {LET s == IF a \in DOMAIN plan THEN specsByName(m, plan, a) ELSE NoSpec
   IN  IF s # NoSpec THEN s ELSE [source |-> a, branch |-> None] : a \in installed \ {"frappe"}}
===============================================================================
