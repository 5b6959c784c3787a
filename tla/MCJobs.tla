------------------------------- MODULE MCJobs -------------------------------
(***************************************************************************)
(* Model values and bounds for the runs of Jobs and, beside it, of         *)
(* Restore, of the dashboard's login limiter and of the statuses its pages *)
(* show: they share no state, so part chooses the one that moves           *)
(* (MCBenches says why that is enough).                                    *)
(***************************************************************************)
EXTENDS Jobs, Restore, BenchStatus, Throttle, TLC

CONSTANTS
  MaxEvents  \* operations, moves and faults of Restore together

VARIABLE part

Symmetry == Permutations(Keys) \cup Permutations(Callers)

\* One app beside frappe, from a repository of that name, in
\* one of the states a checkout is found in: at the tip of its branch, at a
\* commit that was not pushed, and on a tag.
MCCheckout(r, line, n, branch, on) ==
  [git |-> TRUE, remote |-> r, head |-> [line |-> line, n |-> n], branch |-> branch,
   tracking |-> IF branch = "HEAD" THEN "none" ELSE branch, tag |-> "none", on |-> on, tagged |-> FALSE,
   edits |-> FALSE]

KbCheckouts ==
  <<MCCheckout("gh/kb", "gh/kb", 2, "main", {"main"}),
    MCCheckout("gh/kb", "own", 3, "main", {}),
    [MCCheckout("gh/kb", "gh/kb", 1, "HEAD", {"main"}) EXCEPT !.tag = "v1", !.tagged = TRUE]>>

MCFirsts ==
  {[code |-> [a \in {"frappe", "kb"} |-> IF a = "kb" THEN KbCheckouts[i]
                                         ELSE MCCheckout("gh/frappe", "gh/frappe", 2, "main", {"main"})],
    domain |-> IF i % 2 = 0 THEN "none" ELSE "x", key |-> IF i < 2 THEN "site" ELSE "none"] :
   i \in DOMAIN KbCheckouts}

\* The fork is named differently from the app it holds.
MCRepoName == [r \in Repos |-> IF r = "gh/frappe" THEN "frappe" ELSE IF r = "gh/kb" THEN "kb" ELSE "AchatsExtern"]

AllInit ==
  /\ Init /\ RestoreInit /\ LimiterInit /\ StatusInit
  /\ part \in {"jobs", "restore", "throttle", "status"}
  /\ part # "restore" => bench["a"].domain = "x" /\ host["a"].key = "site"
  /\ part # "status" => ~box["b"].recorded

AllNext ==
  /\ part' = part
  /\ \/ part = "jobs" /\ Next /\ (started' =< 1 \/ \A id \in Ids : printed'[id] = 0) /\ UNCHANGED <<rvars, throttle, status>>
     \/ part = "restore" /\ RestoreNext /\ budget'.faults + budget'.moves + budget'.ops =< MaxEvents
        /\ UNCHANGED <<vars, throttle, status>>
     \/ part = "throttle" /\ LimiterNext /\ UNCHANGED <<vars, rvars, status>>
     \/ part = "status" /\ StatusNext /\ UNCHANGED <<vars, rvars, throttle>>

AllSpec == AllInit /\ [][AllNext]_<<vars, rvars, throttle, status, part>>
=============================================================================
