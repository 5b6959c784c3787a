----------------------------- MODULE MCArchives -----------------------------
(***************************************************************************)
(* The archives of a bench: passes and prunes of two processes next to a   *)
(* user, a longer history of passes one after the other, and one archive   *)
(* on its way to another host.  part chooses the one that moves (MCBenches *)
(* says why that is enough).                                               *)
(***************************************************************************)
EXTENDS BackupSchedule, Transit, TLC

VARIABLE part

Units(n) == [t \in 0..MaxTime |-> t \div n]
Per3  == Units(3)
Per6  == Units(6)
Per12 == Units(12)

Uploading == {[enabled |-> TRUE, every |-> 3, hourly |-> 1, daily |-> 0, weekly |-> 0, files |-> "every-run",
               encrypt |-> TRUE, upload |-> TRUE]}

\* Every hour, attachments once a day.
Daily == {[enabled |-> TRUE, every |-> 3, hourly |-> 1, daily |-> 2, weekly |-> 2, files |-> "daily",
           encrypt |-> FALSE, upload |-> FALSE]}

MCPolicies == Uploading \cup Daily

\* These policies and this calendar are such that the theorem on attachments
\* (BackupScheduleProofs, PrunesAsSaid) speaks of them.
ASSUME CadencesKeptHere == CadencesKept

Symmetry == Permutations(Procs)

ArchivesInit ==
  /\ Init /\ TransitInit
  /\ part \in {"passes", "history", "transit"}
  /\ part # "transit" => kind = CHOOSE k \in TargetKinds : TRUE

\* Three calls and faults of any processes within an hour of the first.
Passes ==
  /\ Next
  /\ now' =< 3 /\ calls' + faults' =< 3 /\ policy' \in Uploading \cup {None}

\* Passes of run-due, one after the other, under one schedule; the dump is what
\* takes them time, and only a prune is interrupted.
History ==
  /\ Next
  /\ IF now = 0 THEN policy' \in Daily \cup {None} ELSE policy' = policy
  /\ now' # now => \A p \in Procs : pc[p] \in {"idle", "dump"}
  /\ faults' # faults => \E p \in Procs : pc[p] = "prune"
  /\ \A p, q \in Procs : pc'[p] # "idle" /\ pc'[q] # "idle" => p = q
  /\ \A p \in Procs : job'[p] # None => job'[p].kind = "run"

ArchivesNext ==
  /\ part' = part
  /\ \/ part = "passes" /\ Passes /\ UNCHANGED tvars
     \/ part = "history" /\ History /\ UNCHANGED tvars
     \/ part = "transit" /\ TransitNext /\ UNCHANGED vars
     \/ part = "transit" /\ Settled /\ UNCHANGED <<vars, tvars>> \* nothing left to do

ArchivesSpec == ArchivesInit /\ [][ArchivesNext]_<<vars, tvars, part>>

=============================================================================
