----------------------------- MODULE MCBenches ------------------------------
(***************************************************************************)
(* Runs several models of one bench side by side.  They share no state and *)
(* no action, so the steps of two of them commute and their properties,    *)
(* each about one model, hold of all interleavings when they hold of each  *)
(* model alone: part chooses the one that moves.                           *)
(***************************************************************************)
EXTENDS BenchLifecycle, Upkeep, Worktree, Rollout, TLC

CONSTANT MaxEvents   \* operations and faults together, of Upkeep and of Rollout

VARIABLE part

MCValues == [port : Ports, hosts : SUBSET Hosts]

Symmetry == Permutations(Procs)

BenchesInit ==
  /\ Init /\ UpkeepInit /\ RolloutInit /\ WorktreeInit
  /\ part \in {"lifecycle", "upkeep", "rollout", "worktrees"}
  /\ part # "upkeep" => brec.tool = 1
  /\ part # "rollout" => prod /\ rec.tv = Current
  /\ part # "worktrees" => branch = [f \in Branches |-> [local |-> FALSE, remote |-> FALSE, elsewhere |-> FALSE,
                                                         ahead |-> FALSE, by |-> "none"]]

BenchesNext ==
  /\ part' = part
  /\ \/ part = "lifecycle" /\ Next /\ UNCHANGED <<uvars, rvars, wvars>>
     \/ part = "upkeep" /\ UpkeepNext /\ begun' + ufaults' =< MaxEvents /\ UNCHANGED <<vars, rvars, wvars>>
     \/ part = "rollout" /\ RolloutNext /\ count' + mishaps' =< MaxEvents /\ UNCHANGED <<vars, uvars, wvars>>
     \/ part = "worktrees" /\ WorktreeNext /\ UNCHANGED <<vars, uvars, rvars>>
     \/ /\ (part = "rollout" /\ AtRest) \/ (part = "worktrees" /\ Quiet)  \* no more operations than the bounds
        /\ UNCHANGED <<vars, uvars, rvars, wvars>>

BenchesSpec == BenchesInit /\ [][BenchesNext]_<<vars, uvars, rvars, wvars, part>>
=============================================================================
