---------------------------- MODULE MCLifecycle -----------------------------
(***************************************************************************)
(* What must come to an end: the operations that hold the lock of a bench  *)
(* and the jobs of the dashboard with the page that shows one.  They share *)
(* no state; part chooses the one that moves (MCBenches says why that is   *)
(* enough), and fairness is asked of that one alone.                       *)
(***************************************************************************)
EXTENDS BenchLifecycle, TLC

VARIABLES
  up, jobs, byBench, disk, gor, started, printed, crashes, intact, stream, page, told,   \* Jobs
  part

dashboard == <<up, jobs, byBench, disk, gor, started, printed, crashes, intact, stream, page, told>>

MCValues == [port : Ports, hosts : SUBSET Hosts]

\* Two jobs for one key, a failed write at any save, one restart.
J == INSTANCE Jobs WITH Keys <- {"j"}, MaxFinished <- 1, MaxLines <- 1, MaxJobs <- 2, MaxOutput <- 1, MaxCrashes <- 1

-----------------------------------------------------------------------------
AllInit ==
  /\ part \in {"benches", "jobs"}
  /\ Init /\ J!Init

AllNext ==
  /\ part' = part
  /\ \/ part = "benches" /\ Next /\ UNCHANGED dashboard
     \/ part = "jobs" /\ J!Next /\ UNCHANGED vars

AllFairSpec ==
  /\ AllInit /\ [][AllNext]_<<vars, dashboard, part>>
  /\ \A p \in Procs : WF_vars(part = "benches" /\ Work(p) /\ UNCHANGED <<dashboard, part>>)
  /\ \A id \in J!Ids : WF_dashboard(part = "jobs" /\ J!Work(id) /\ UNCHANGED <<vars, part>>)

-----------------------------------------------------------------------------
\* A job always gives its key back.
KeyFreed == J!KeyFreed
=============================================================================
