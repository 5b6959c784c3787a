---------------------------- MODULE BenchStatus ----------------------------
(***************************************************************************)
(* The statuses the dashboard shows: manager/benches.go, and the end of a  *)
(* job in manager/jobs.go that drops the answer of docker they are read    *)
(* from.                                                                   *)
(*                                                                         *)
(* Pages run concurrently.  Each loads the records twice, takes a snapshot *)
(* under statusMu (the mutex is held while docker runs) and looks for the  *)
(* compose file of each bench.  One job at a time changes the benches, and *)
(* so does anybody at a terminal, whose commands drop no snapshot: they    *)
(* run in another process.                                                 *)
(***************************************************************************)
EXTENDS Integers, FiniteSets

CONSTANTS
  Benches,
  Pages,     \* page requests that may be under way together
  Nobody,    \* the holder of a free mutex
  TTL,       \* Service.StatusTTL
  MaxNow,    \* bound on the clock
  MaxWorks   \* bound on the jobs and the changes to benches

ASSUME StatusAssumption == TTL \in Nat /\ Nobody \notin Pages

Services == {"frappe", "db"}

VARIABLES
  clock,
  box,     \* Benches -> [recorded, file, up]: in benches.json, its compose
             \*   file, its running containers
  job,       \* "none", "runs", "over" (fn returned) or "dropped" (the snapshot)
  statusMu,  \* who holds the mutex
  snap,      \* Service.statusSnap
  view,      \* Pages -> its request
  works,
  held,      \* ghost: Benches -> status -> when it last had it (0: not since
             \*   the work of the last job that was shown as over)
  since      \* ghost: Benches -> the statuses it had since fn returned,
             \*   until the job is shown as over

status == <<clock, box, job, statusMu, snap, view, works, held, since>>

NoSnap == [fresh |-> FALSE, at |-> 0, up |-> [b \in Benches |-> {}], failed |-> FALSE]
NoView == [at |-> "idle", list |-> {}, asked |-> {}, snap |-> NoSnap, shown |-> <<>>,
           may |-> [b \in Benches |-> {}]]

\* What makes a bench running, partial or stopped.
benchStatus(up) ==
  CASE "frappe" \in up -> "running"
    [] up = {} -> "stopped"
    [] OTHER -> "partial"

Statuses == {"running", "partial", "stopped"}

\* Containers run from a compose file, which is made and removed while the
\* bench has a record.
BenchStates ==
  {w \in [recorded : BOOLEAN, file : BOOLEAN, up : SUBSET Services] :
     (w.up # {} => w.file) /\ (w.file => w.recorded)}

StatusTypeOK ==
  /\ clock \in 1..MaxNow
  /\ box \in [Benches -> BenchStates]
  /\ job \in {"none", "runs", "over", "dropped"}
  /\ statusMu \in Pages \cup {Nobody}
  /\ snap.fresh \in BOOLEAN /\ snap.at \in 0..clock
  /\ held \in [Benches -> [Statuses -> 0..clock]]
  /\ since \in [Benches -> SUBSET Statuses]

StatusInit ==
  /\ clock = 1
  /\ box \in [Benches -> {w \in BenchStates : w.up = {}}]
  /\ job = "none"
  /\ statusMu = Nobody
  /\ snap = NoSnap
  /\ view = [p \in Pages |-> NoView]
  /\ works = 0
  /\ held = [b \in Benches |-> [s \in Statuses |-> IF s = "stopped" THEN 1 ELSE 0]]
  /\ since = [b \in Benches |-> {}]

Listed == {b \in Benches : box[b].recorded}

-----------------------------------------------------------------------------
\* What may truly be shown of a bench from now on.
Says(w) ==
  {benchStatus(w.up)} \cup (IF w.file THEN {} ELSE {"unknown"}) \cup (IF w.recorded THEN {} ELSE {"none"})

\* A job, or somebody at a terminal, changes a bench.
ChangeBench ==
  /\ works < MaxWorks
  /\ works' = works + 1
  /\ \E b \in Benches, w \in BenchStates :
       LET s == benchStatus(w.up) IN
       /\ box' = [box EXCEPT ![b] = w]
       /\ held' = [held EXCEPT ![b] = [@ EXCEPT ![benchStatus(box[b].up)] = clock, ![s] = clock]]
       /\ since' = IF job \in {"over", "dropped"} THEN [since EXCEPT ![b] = @ \cup {s}] ELSE since
       /\ view' = [p \in Pages |->
            IF view[p].at = "idle" THEN view[p] ELSE [view[p] EXCEPT !.may[b] = @ \cup Says(w)]]
  /\ UNCHANGED <<clock, job, statusMu, snap>>

JobStarts ==
  /\ job = "none" /\ works < MaxWorks
  /\ job' = "runs"
  /\ works' = works + 1
  /\ UNCHANGED <<clock, box, statusMu, snap, view, held, since>>

\* fn returned: what the job did to the benches is done.
WorkOver ==
  /\ job = "runs"
  /\ job' = "over"
  /\ since' = [b \in Benches |-> {benchStatus(box[b].up)}]
  /\ UNCHANGED <<clock, box, statusMu, snap, view, works, held>>

\* BUG variant: the snapshot is dropped without its mutex.
InvalidateStatusUnlocked ==
  /\ job = "over"
  /\ job' = "dropped"
  /\ snap' = NoSnap
  /\ UNCHANGED <<clock, box, statusMu, view, works, held, since>>

InvalidateStatus ==
  /\ job = "over"
  /\ statusMu = Nobody
  /\ job' = "dropped"
  /\ snap' = NoSnap
  /\ UNCHANGED <<clock, box, statusMu, view, works, held, since>>

\* The job is shown as over: pages asked for from now on come after its work.
JobShown ==
  /\ job = "dropped"
  /\ job' = "none"
  /\ held' = [b \in Benches |-> [s \in Statuses |-> IF s \in since[b] THEN held[b][s] ELSE 0]]
  /\ since' = [b \in Benches |-> {}]
  /\ UNCHANGED <<clock, box, statusMu, snap, view, works>>

Tick ==
  /\ clock < MaxNow
  /\ clock' = clock + 1
  /\ held' = [b \in Benches |-> [held[b] EXCEPT ![benchStatus(box[b].up)] = clock + 1]]
  /\ UNCHANGED <<box, job, statusMu, snap, view, works, since>>

-----------------------------------------------------------------------------
\* listBenchViews: the first look at the records.
List(p) ==
  /\ view[p].at = "idle"
  /\ view' = [view EXCEPT ![p] = [NoView EXCEPT !.at = "listed", !.list = Listed,
       !.may = [b \in Benches |->
         Says(box[b]) \cup {s \in Statuses : held[b][s] > 0 /\ clock - held[b][s] < TTL}]]]
  /\ UNCHANGED <<clock, box, job, statusMu, snap, works, held, since>>

\* StatusAll: the second look.
StatusAll(p) ==
  /\ view[p].at = "listed"
  /\ view' = [view EXCEPT ![p].at = "asked", ![p].asked = Listed]
  /\ UNCHANGED <<clock, box, job, statusMu, snap, works, held, since>>

Usable == snap.fresh /\ clock - snap.at < TTL

\* psSnapshot: the answer kept from another call.
psReuse(p) ==
  /\ view[p].at = "asked" /\ statusMu = Nobody /\ Usable
  /\ view' = [view EXCEPT ![p].at = "answered", ![p].snap = snap]
  /\ UNCHANGED <<clock, box, job, statusMu, snap, works, held, since>>

\* ... or docker is asked, with the mutex held: the snapshot is of this time.
psAsk(p) ==
  /\ view[p].at = "asked" /\ statusMu = Nobody /\ ~Usable
  /\ statusMu' = p
  /\ view' = [view EXCEPT ![p].at = "docker",
                          ![p].snap = [NoSnap EXCEPT !.fresh = TRUE, !.at = clock]]
  /\ UNCHANGED <<clock, box, job, snap, works, held, since>>

\* Docker looks at the containers, or fails.
psLook(p) ==
  /\ view[p].at = "docker"
  /\ \/ view' = [view EXCEPT ![p].at = "looked",
                             ![p].snap.up = [b \in Benches |-> box[b].up]]
     \/ view' = [view EXCEPT ![p].at = "looked", ![p].snap.failed = TRUE,
                             ![p].may = [b \in Benches |-> @[b] \cup {"unknown"}]]
  /\ UNCHANGED <<clock, box, job, statusMu, snap, works, held, since>>

\* Its answer is kept, a failure is not.
psKeep(p) ==
  /\ view[p].at = "looked"
  /\ snap' = IF view[p].snap.failed THEN snap ELSE view[p].snap
  /\ statusMu' = Nobody
  /\ view' = [view EXCEPT ![p].at = "answered"]
  /\ UNCHANGED <<clock, box, job, works, held, since>>

statusOf(sn, b) ==
  IF sn.failed \/ ~box[b].file THEN "unknown" ELSE benchStatus(sn.up[b])

\* The page shows one status for each bench of the first look: none for one
\* the second did not find.
Show(p) ==
  /\ view[p].at = "answered"
  /\ view' = [view EXCEPT ![p].at = "shown", ![p].snap = NoSnap, ![p].asked = {},
       ![p].shown = [b \in view[p].list |->
         IF b \in view[p].asked THEN statusOf(view[p].snap, b) ELSE "none"]]
  /\ UNCHANGED <<clock, box, job, statusMu, snap, works, held, since>>

Leave(p) ==
  /\ view[p].at = "shown"
  /\ view' = [view EXCEPT ![p] = NoView]
  /\ UNCHANGED <<clock, box, job, statusMu, snap, works, held, since>>

StatusNext ==
  \/ ChangeBench \/ JobStarts \/ WorkOver \/ InvalidateStatus \/ JobShown \/ Tick
  \/ \E p \in Pages : \/ List(p) \/ StatusAll(p) \/ psReuse(p) \/ psAsk(p) \/ psLook(p)
                      \/ psKeep(p) \/ Show(p) \/ Leave(p)

StatusSpec == StatusInit /\ [][StatusNext]_status

-----------------------------------------------------------------------------
\* A page never shows what is long over.  Each status on it is one the bench
\* had at some time since the TTL before the page was asked for, and since
\* the work of the last job then shown as over ("so the page they redirect to
\* is not stale", benches.go:102); "unknown" only when the page's own call of
\* docker failed or the compose file was missing meanwhile, and a blank only
\* when the record was not there meanwhile.
PageFresh ==
  \A p \in Pages : view[p].at = "shown" => \A b \in view[p].list : view[p].shown[b] \in view[p].may[b]
=============================================================================
