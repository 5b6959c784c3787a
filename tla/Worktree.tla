------------------------------ MODULE Worktree ------------------------------
(***************************************************************************)
(* Project benches and worktree benches: manager/worktree.go,              *)
(* manager/projectmount.go, Up of manager/project.go, and the hooks of     *)
(* cli/worktree_hook.go.                                                   *)
(*                                                                         *)
(* One app repository, the bench that mounts its checkout (the source),    *)
(* and for each branch a bench of its name and one path for its worktree.  *)
(* ffm commands run as processes that can be killed; the user edits,       *)
(* commits, merges, makes and removes files and branches between any two   *)
(* of their steps.  What a step of ffm may do to the user's work is the    *)
(* subject; BenchLifecycle and Restore have the creation of the benches.   *)
(***************************************************************************)
EXTENDS Naturals, FiniteSets

CONSTANTS
  Workers, Branches, NoWorker,
  Flags,      \* sets of flags worktree remove is given
  MaxMoves,   \* bound on what the user does
  MaxTrouble  \* bound on failed calls and kills

ASSUME WorktreeAssumption == NoWorker \notin Workers

VARIABLES
  checkout,  \* the source's checkout is where it was mounted from
  source,    \* the source bench: "none", "stopped" or "running"
  branch,    \* Branches -> [local, remote, elsewhere: checked out elsewhere,
             \*   ahead: commits that nothing else has, by: who made it (ghost)]
  tree,      \* Branches -> what is at its path: "none", "foreign", "worktree"
  files,     \* Branches -> what git status lists there: "copied", "edited"
  bench,     \* Branches -> its record, or NoBench
  wlock,     \* Branches -> who holds the lock of its bench
  proc,      \* Workers -> its command
  moves, trouble

repo == <<checkout, branch, tree, files>>
wvars == <<checkout, source, branch, tree, files, bench, wlock, proc, moves, trouble>>

\* A record: linked (WorktreeOf and the mount are set), created (ffm made the
\* branch), mounted (in the running containers), saved (backed up before a
\* removal).
NoBench == [linked |-> FALSE, created |-> FALSE, mounted |-> FALSE, saved |-> FALSE, there |-> FALSE]
Cloned  == [NoBench EXCEPT !.there = TRUE]

NoCommand == [pc |-> "idle", f |-> NoWorker, local |-> FALSE, remote |-> FALSE, force |-> FALSE, keep |-> FALSE,
              delete |-> FALSE, backup |-> TRUE, created |-> FALSE, exists |-> FALSE]

WorktreeInit ==
  /\ checkout = TRUE
  /\ source = "none"
  /\ branch \in [Branches -> {[local |-> l, remote |-> r, elsewhere |-> FALSE, ahead |-> FALSE,
                               by |-> IF l THEN "user" ELSE "none"] : l \in BOOLEAN, r \in BOOLEAN}]
  /\ tree = [f \in Branches |-> "none"]
  /\ files = [f \in Branches |-> {}]
  /\ bench = [f \in Branches |-> NoBench]
  /\ wlock = [f \in Branches |-> NoWorker]
  /\ proc = [p \in Workers |-> NoCommand]
  /\ moves = 0
  /\ trouble = 0

Trouble == trouble < MaxTrouble /\ trouble' = trouble + 1
Goes(p, pc) == proc' = [proc EXCEPT ![p].pc = pc]
\* The command returns: the deferred release gives back a lock it holds.
Ends(p) ==
  /\ proc' = [proc EXCEPT ![p] = NoCommand]
  /\ wlock' = [f \in Branches |-> IF wlock[f] = p THEN NoWorker ELSE wlock[f]]
IsAt(p, pc) == proc[p].pc = pc

-----------------------------------------------------------------------------
\* ffm up: a missing bench is made with the checkout mounted, a stopped one
\* is started, after the same look at the checkout (checkProjectMount).
ProjectUp ==
  /\ checkout /\ source # "running"
  /\ source' = "running"
  /\ UNCHANGED <<repo, bench, wlock, proc, moves, trouble>>

\* What git worktree add must be told: an existing branch, or a new one.
Existing(p) == proc[p].local \/ proc[p].remote

\* WorktreeAdd up to the clone: nothing is changed before all this holds.
AddCheck(p, f) ==
  /\ IsAt(p, "idle")
  /\ source # "none" /\ checkout
  /\ ~bench[f].there /\ tree[f] = "none"
  /\ ~branch[f].elsewhere
  /\ \E remote \in {FALSE, ~branch[f].local /\ branch[f].remote} :   \* --base leaves the remote's branch aside
       proc' = [proc EXCEPT ![p] = [NoCommand EXCEPT !.pc = "clone", !.f = f, !.local = branch[f].local, !.remote = remote]]
  /\ UNCHANGED <<source, repo, bench, wlock, moves, trouble>>

\* Clone backs the source up and restores it under the new name; a failure
\* rolls back and leaves nothing (Restore).
AddClone(p) ==
  LET f == proc[p].f IN
  /\ IsAt(p, "clone")
  /\ \/ /\ source # "none" /\ ~bench[f].there /\ wlock[f] = NoWorker
        /\ bench' = [bench EXCEPT ![f] = Cloned]
        /\ Goes(p, "gitAdd") /\ UNCHANGED <<wlock, trouble>>
     \/ /\ source = "none" \/ bench[f].there \/ wlock[f] # NoWorker
        /\ Ends(p) /\ UNCHANGED <<bench, trouble>>
     \/ Trouble /\ Ends(p) /\ UNCHANGED bench
  /\ UNCHANGED <<source, repo, moves>>

\* git worktree add: it wants the path free, the branch not checked out, and a
\* branch that is there, here or on a remote, or for -b one that is not.
GitCanAdd(p) ==
  LET f == proc[p].f IN
  /\ tree[f] = "none" /\ ~branch[f].elsewhere /\ checkout
  /\ IF Existing(p) THEN branch[f].local \/ branch[f].remote ELSE ~branch[f].local

MakesBranch(f) == [branch[f] EXCEPT !.local = TRUE, !.by = IF branch[f].local THEN @ ELSE "ffm"]

\* copyWorktreeInclude: git lists the copies unless it ignores them; a copy
\* that fails is only warned about.
Included == SUBSET {"copied"}

\* The lock is taken again, without it the clone stays as it is.  git makes the
\* branch of -b before it looks at the path, and leaves it when it then fails.
AddTree(p) ==
  LET f == proc[p].f IN
  /\ IsAt(p, "gitAdd")
  /\ \/ wlock[f] # NoWorker /\ Ends(p) /\ UNCHANGED <<tree, branch, files, trouble>>
     \/ /\ wlock[f] = NoWorker /\ GitCanAdd(p)
        /\ wlock' = [wlock EXCEPT ![f] = p]
        /\ tree' = [tree EXCEPT ![f] = "worktree"]
        /\ branch' = [branch EXCEPT ![f] = MakesBranch(f)]
        /\ \E copies \in Included : files' = [files EXCEPT ![f] = copies]
        /\ Goes(p, "attach")
        /\ UNCHANGED trouble
     \/ /\ wlock[f] = NoWorker
        /\ \/ ~GitCanAdd(p) /\ UNCHANGED trouble
           \/ GitCanAdd(p) /\ Trouble
        /\ wlock' = [wlock EXCEPT ![f] = p]
        /\ branch' \in {branch} \cup IF Existing(p) \/ branch[f].local \/ ~checkout THEN {}
                                    ELSE {[branch EXCEPT ![f] = MakesBranch(f)]}
        /\ Goes(p, "undo") /\ UNCHANGED <<tree, files>>
  /\ UNCHANGED <<checkout, source, bench, moves>>

\* attachProjectMount: the clone of the app gives way to a mountpoint and the
\* record to the link, if both are as the clone left them.
Attach(p) ==
  LET f == proc[p].f IN
  /\ IsAt(p, "attach")
  /\ \/ /\ bench[f].there /\ ~bench[f].linked /\ tree[f] = "worktree"
        /\ bench' = [bench EXCEPT ![f].linked = TRUE, ![f].created = ~proc[p].local]
        /\ Goes(p, "mount") /\ UNCHANGED trouble
     \/ ~(bench[f].there /\ ~bench[f].linked /\ tree[f] = "worktree") /\ Goes(p, "undo") /\ UNCHANGED <<bench, trouble>>
     \/ Trouble /\ Goes(p, "undo") /\ UNCHANGED bench
  /\ UNCHANGED <<source, repo, wlock, moves>>

\* applyDomainChange: the compose file with the mount, and the containers.
Mount(p) ==
  LET f == proc[p].f IN
  /\ IsAt(p, "mount")
  /\ \/ tree[f] = "worktree" /\ bench' = [bench EXCEPT ![f].mounted = TRUE] /\ Goes(p, "setup") /\ UNCHANGED trouble
     \/ tree[f] # "worktree" /\ Goes(p, "undo") /\ UNCHANGED <<bench, trouble>>
     \/ Trouble /\ Goes(p, "undo") /\ UNCHANGED bench
  /\ UNCHANGED <<source, repo, wlock, moves>>

\* Requirements, migration and assets of the mounted app.
Setup(p) ==
  /\ IsAt(p, "setup")
  /\ \/ Ends(p) /\ UNCHANGED trouble
     \/ Trouble /\ Goes(p, "undo") /\ UNCHANGED wlock
  /\ UNCHANGED <<source, repo, bench, moves>>

\* BUG variant: what the failed add made is taken away whole.
UndoWhole(p) ==
  LET f == proc[p].f IN
  /\ IsAt(p, "undo")
  /\ bench' = [bench EXCEPT ![f] = NoBench]
  /\ tree' = [tree EXCEPT ![f] = "none"]
  /\ files' = [files EXCEPT ![f] = {}]
  /\ Ends(p)
  /\ UNCHANGED <<checkout, source, branch, moves, trouble>>

\* deleteLocked removes the bench; what it could not do is not told.
Undo(p) ==
  LET f == proc[p].f IN
  /\ IsAt(p, "undo")
  /\ \/ bench' = [bench EXCEPT ![f] = NoBench] /\ Ends(p) /\ UNCHANGED trouble
     \/ Trouble /\ Ends(p) /\ UNCHANGED bench
  /\ UNCHANGED <<source, repo, moves>>

-----------------------------------------------------------------------------
\* WorktreeRemove finds the record by path, name or branch, before the lock.
\* The hook of Claude Code never forces and always asks for the branch.
Resolve(p, f) ==
  /\ IsAt(p, "idle") /\ bench[f].linked
  /\ \E flags \in Flags :
       proc' = [proc EXCEPT ![p] = [NoCommand EXCEPT !.pc = "look", !.f = f, !.force = "force" \in flags,
                                    !.keep = "keep" \in flags, !.delete = "delete" \in flags,
                                    !.backup = "nobackup" \notin flags, !.created = bench[f].created]]
  /\ UNCHANGED <<source, repo, bench, wlock, moves, trouble>>

\* Under the lock: the repository is found through the source's record, and a
\* worktree with changes is refused before the long backup.
Look(p) ==
  LET f == proc[p].f
      exists == tree[f] # "none"
      gitWork == ~proc[p].keep /\ (exists \/ (proc[p].delete /\ proc[p].created)) IN
  /\ IsAt(p, "look")
  /\ IF \/ wlock[f] # NoWorker
        \/ gitWork /\ source = "none"
        \/ ~proc[p].keep /\ exists /\ ~proc[p].force /\ files[f] # {}
     THEN Ends(p)
     ELSE /\ wlock' = [wlock EXCEPT ![f] = p]
          /\ proc' = [proc EXCEPT ![p].pc = "backup", ![p].exists = exists]
  /\ UNCHANGED <<source, repo, bench, moves, trouble>>

\* backupBeforeDestroy; a bench that is gone has nothing to back up.
BackUpFirst(p) ==
  LET f == proc[p].f IN
  /\ IsAt(p, "backup")
  /\ \/ /\ bench' = IF proc[p].backup /\ bench[f].there THEN [bench EXCEPT ![f].saved = TRUE] ELSE bench
        /\ Goes(p, IF ~proc[p].keep /\ proc[p].exists THEN "gitRemove" ELSE "delete")
        /\ UNCHANGED <<wlock, trouble>>
     \/ proc[p].backup /\ Trouble /\ Ends(p) /\ UNCHANGED bench
  /\ UNCHANGED <<source, repo, moves>>

\* BUG variant: git is told --force, as a clean worktree was seen before the
\* backup.
GitRemovesForced(p) == tree[proc[p].f] = "worktree" /\ checkout

\* git worktree remove, the authority: it looks again.
GitRemoves(p) ==
  LET f == proc[p].f IN
  /\ tree[f] = "worktree" /\ checkout
  /\ proc[p].force \/ files[f] = {}

RemoveTree(p) ==
  LET f == proc[p].f IN
  /\ IsAt(p, "gitRemove")
  /\ \/ /\ GitRemoves(p)
        /\ tree' = [tree EXCEPT ![f] = "none"] /\ files' = [files EXCEPT ![f] = {}]
        /\ Goes(p, "delete") /\ UNCHANGED <<wlock, trouble>>
     \/ ~GitRemoves(p) /\ Ends(p) /\ UNCHANGED <<tree, files, trouble>>
     \/ Trouble /\ Ends(p) /\ UNCHANGED <<tree, files>>
  /\ UNCHANGED <<checkout, source, branch, bench, moves>>

DeleteBench(p) ==
  LET f == proc[p].f IN
  /\ IsAt(p, "delete")
  /\ \/ bench[f].there /\ bench' = [bench EXCEPT ![f] = NoBench] /\ Goes(p, "branch") /\ UNCHANGED <<wlock, trouble>>
     \/ ~bench[f].there /\ Ends(p) /\ UNCHANGED <<bench, trouble>>
     \/ Trouble /\ Ends(p) /\ UNCHANGED bench
  /\ UNCHANGED <<source, repo, moves>>

\* git branch -d refuses a branch with commits of its own or checked out; the
\* refusal is only warned about.
DeleteBranch(p) ==
  LET f == proc[p].f
      asked == proc[p].delete /\ ~proc[p].keep /\ proc[p].created
      gits == branch[f].local /\ ~branch[f].ahead /\ ~branch[f].elsewhere /\ tree[f] # "worktree" IN
  /\ IsAt(p, "branch")
  /\ branch' = IF asked /\ gits THEN [branch EXCEPT ![f].local = FALSE, ![f].by = "none"] ELSE branch
  /\ Ends(p)
  /\ UNCHANGED <<checkout, source, tree, files, bench, moves, trouble>>

\* A process is killed: the system gives its lock back.
Killed(p) ==
  /\ ~IsAt(p, "idle") /\ Trouble
  /\ Ends(p)
  /\ UNCHANGED <<source, repo, bench, moves>>

-----------------------------------------------------------------------------
Moves == moves < MaxMoves /\ moves' = moves + 1

\* The user works in the worktree.
Edit(f) ==
  /\ tree[f] = "worktree" /\ Moves
  /\ files' = [files EXCEPT ![f] = @ \cup {"edited"}]
  /\ UNCHANGED <<checkout, source, branch, tree, bench, wlock, proc, trouble>>

Commit(f) ==
  /\ tree[f] = "worktree" /\ branch[f].local /\ Moves
  /\ files' = [files EXCEPT ![f] = {}]
  /\ branch' = [branch EXCEPT ![f].ahead = TRUE]
  /\ UNCHANGED <<checkout, source, tree, bench, wlock, proc, trouble>>

Merge(f) ==
  /\ branch[f].ahead /\ Moves
  /\ branch' = [branch EXCEPT ![f].ahead = FALSE]
  /\ UNCHANGED <<checkout, source, tree, files, bench, wlock, proc, trouble>>

\* The user puts something at the path, or takes away what is there.
Occupy(f) ==
  /\ Moves
  /\ tree' = [tree EXCEPT ![f] = IF @ = "none" THEN "foreign" ELSE "none"]
  /\ files' = [files EXCEPT ![f] = {}]
  /\ UNCHANGED <<checkout, source, branch, bench, wlock, proc, trouble>>

\* The user makes the branch, drops it, or checks it out elsewhere.
OwnBranch(f) ==
  /\ tree[f] # "worktree" /\ Moves
  /\ \/ ~branch[f].local /\ branch' = [branch EXCEPT ![f].local = TRUE, ![f].by = "user"]
     \/ /\ branch[f].local /\ ~branch[f].elsewhere
        /\ branch' = [branch EXCEPT ![f].local = FALSE, ![f].ahead = FALSE, ![f].by = "none"]
     \/ branch[f].local /\ branch' = [branch EXCEPT ![f].elsewhere = ~@]
  /\ UNCHANGED <<checkout, source, tree, files, bench, wlock, proc, trouble>>

\* The checkout is moved away or put back; the source is stopped or deleted.
MoveCheckout ==
  /\ Moves /\ checkout' = ~checkout
  /\ UNCHANGED <<source, branch, tree, files, bench, wlock, proc, trouble>>

SourceEnds ==
  /\ source # "none" /\ Moves
  /\ source' \in {"none", "stopped"} \ {source}
  /\ UNCHANGED <<repo, bench, wlock, proc, trouble>>

\* ffm delete of a worktree bench, with the backup it takes: the worktree stays.
Delete(f) ==
  /\ bench[f].there /\ wlock[f] = NoWorker /\ Moves
  /\ bench' = [bench EXCEPT ![f] = NoBench]
  /\ UNCHANGED <<repo, source, wlock, proc, trouble>>

WorktreeNext ==
  \/ ProjectUp
  \/ \E p \in Workers :
       \/ \E f \in Branches : AddCheck(p, f) \/ Resolve(p, f)
       \/ AddClone(p) \/ AddTree(p) \/ Attach(p) \/ Mount(p) \/ Setup(p) \/ Undo(p)
       \/ Look(p) \/ BackUpFirst(p) \/ RemoveTree(p) \/ DeleteBench(p) \/ DeleteBranch(p) \/ Killed(p)
  \/ \E f \in Branches : Edit(f) \/ Commit(f) \/ Merge(f) \/ Occupy(f) \/ OwnBranch(f) \/ Delete(f)
  \/ MoveCheckout \/ SourceEnds

\* No command is under way.
Quiet == \A p \in Workers : IsAt(p, "idle")

WorktreeSpec == WorktreeInit /\ [][WorktreeNext]_wvars

-----------------------------------------------------------------------------
\* A command returns from pc, neither failed by a call nor killed.
Returns(p, pc) == IsAt(p, pc) /\ proc'[p] = NoCommand /\ trouble' = trouble

\* What a step of ffm leaves alone: what the user put at a path, a branch with
\* commits of its own, a worktree that nobody removes, keeps or has not forced,
\* and one whose bench should be backed up and is not.
UserSpared ==
  \A f \in Branches :
    /\ tree[f] = "foreign" => tree'[f] = "foreign"
    /\ branch[f].local /\ branch[f].ahead => branch'[f].local
    /\ tree[f] = "worktree" /\ tree'[f] = "none" =>
         \E p \in Workers : /\ IsAt(p, "gitRemove") /\ wlock[f] = p /\ ~proc[p].keep
                            /\ "edited" \in files[f] => proc[p].force
                            /\ bench[f].there => bench[f].saved \/ ~proc[p].backup

\* What a command that returns tells of the bench and the worktree.
ToldTruly ==
  \A p \in Workers : LET f == proc[p].f IN
    /\ Returns(p, "setup") => /\ bench[f].linked /\ bench[f].mounted
                              /\ moves = 0 => tree[f] = "worktree"
    /\ Returns(p, "undo") => ~bench'[f].there
    /\ Returns(p, "gitRemove") => bench'[f] = bench[f]
    /\ Returns(p, "branch") => /\ ~bench[f].there
                               /\ ~proc[p].keep /\ moves = 0 => tree[f] = "none"

\* "The worktree belongs to the user" (worktree.go:22-33): whatever the user
\* does between its steps, ffm takes away changes only with --force, a branch
\* only without commits of its own, a worktree only for a removal that was not
\* asked to keep it, never what it did not put at the path, and a worktree
\* bench only backed up or with --no-backup.  And a command that returns says
\* what is: an add that succeeds left its bench on the worktree (which is there
\* if the user did nothing), one that undid itself left no bench, a removal
\* that git refused left the bench, and one that is done left neither.
WorktreesSafe == [][moves' = moves => UserSpared /\ ToldTruly]_wvars
=============================================================================
