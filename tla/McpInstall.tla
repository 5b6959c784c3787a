----------------------------- MODULE McpInstall -----------------------------
(***************************************************************************)
(* "ffm mcp install" and "ffm mcp uninstall" (internal/mcpinstall and      *)
(* cli/mcp_install.go): a plan computed from the client's config file, a   *)
(* question, and the change, made while the client itself and a second ffm *)
(* change the same file.  A file is the entry it has for ffm and the       *)
(* version of everything else in it; ConfigText has the edit of the text.  *)
(* Claude Code's file is never written: its command line is run, once to   *)
(* take the old entry out and once to add the new one, and each run may    *)
(* fail, or be killed after it took effect.                                *)
(***************************************************************************)
EXTENDS Naturals, Sequences

CONSTANTS Installers,   \* the ffm processes
          MaxRewrites   \* bound: changes by the clients and their users

VARIABLES files, baks, installed, claude, jobs, rewrites

mvars == <<files, baks, installed, claude, jobs, rewrites>>

\* Contents: nothing there, or a file with an entry and the rest.
Missing == [entry |-> "missing", rest |-> 0]
NoEntry == "none"
Old     == "old"

\* The two places Claude Desktop keeps its file in on Windows.
Paths == {"classic", "packaged"}

There(f, path) == f[path] # Missing

\* Where ffm looks for it.
ConfigPath(f) ==
  IF There(f, "packaged") \/ (installed /\ ~There(f, "classic"))
  THEN "packaged" ELSE "classic"

\* Where the packaged application looks: its own copy shadows the real one.
AppReads(f) ==
  IF installed /\ (There(f, "packaged") \/ ~There(f, "classic"))
  THEN "packaged" ELSE "classic"

Resting == [pc |-> "idle", op |-> "install", path |-> "classic", old |-> Missing,
            seen |-> Missing, cmds |-> <<>>, retry |-> FALSE, absentOK |-> FALSE,
            removed |-> FALSE, took |-> FALSE, late |-> FALSE, told |-> FALSE]

McpInit ==
  /\ \E classic, packaged \in {Missing} \cup [entry : {NoEntry, Old}, rest : {0}] :
       files = [classic |-> classic, packaged |-> packaged]
  /\ baks = {}
  /\ installed \in {b \in BOOLEAN : There(files, "packaged") => b}
  /\ claude \in {NoEntry, Old}
  /\ jobs = [p \in Installers |-> Resting]
  /\ rewrites = 0

McpGoto(p, pc) == jobs' = [jobs EXCEPT ![p].pc = pc]

\* What the process wants the entry to be.
Wanted(p) == IF jobs[p].op = "install" THEN p ELSE NoEntry

\* The old content with the entry changed; a new file has nothing else.
Edited(p) ==
  [entry |-> Wanted(p), rest |-> jobs[p].old.rest]

Changed(p, old) ==
  IF old = Missing THEN jobs[p].op = "install" ELSE old.entry # Wanted(p)

----------------------------------------------------------------------------
(* The clients with a file                                                 *)

\* Plan and PlanRemove: read the file and compute the new one.
PlanFile(p) ==
  /\ jobs[p].pc = "idle"
  /\ \E op \in {"install", "remove"} :
       jobs' = [jobs EXCEPT ![p].pc = "planned", ![p].op = op,
                            ![p].path = ConfigPath(files),
                            ![p].old = files[ConfigPath(files)]]
  /\ UNCHANGED <<files, baks, installed, claude, rewrites>>

\* Nothing to change; or shown, and the user says yes or no.
Answer(p) ==
  /\ jobs[p].pc = "planned"
  /\ IF Changed(p, jobs[p].old)
     THEN \E yes \in BOOLEAN : McpGoto(p, IF yes THEN "apply" ELSE "refused")
     ELSE McpGoto(p, "refused")
  /\ UNCHANGED <<files, baks, installed, claude, rewrites>>

\* Reread forgets to compare (mutant).
RereadUnchecked(p) ==
  /\ jobs[p].pc = "apply"
  /\ LET cur == files[jobs[p].path] IN
       jobs' = [jobs EXCEPT ![p].seen = cur,
                            ![p].pc = IF jobs[p].old = Missing THEN "write" ELSE "backup"]
  /\ UNCHANGED <<files, baks, installed, claude, rewrites>>

\* Apply: refused when the file is not what the plan was computed from.
Reread(p) ==
  /\ jobs[p].pc = "apply"
  /\ LET cur == files[jobs[p].path] IN
       jobs' = [jobs EXCEPT ![p].seen = cur,
                            ![p].pc = IF cur # jobs[p].old THEN "failed"
                                      ELSE IF cur = Missing THEN "write"
                                      ELSE "backup"]
  /\ UNCHANGED <<files, baks, installed, claude, rewrites>>

\* A copy under a name nothing has yet; none is written when it fails.
WriteBackup(p) ==
  /\ jobs[p].pc = "backup"
  /\ \/ /\ baks' = baks \cup {jobs[p].old}
        /\ McpGoto(p, "write")
     \/ /\ UNCHANGED baks
        /\ McpGoto(p, "failed")
  /\ UNCHANGED <<files, installed, claude, rewrites>>

\* A temporary file next to it, renamed over it.
WriteFile(p) ==
  /\ jobs[p].pc = "write"
  /\ \/ /\ files' = [files EXCEPT ![jobs[p].path] = Edited(p)]
        /\ McpGoto(p, "done")
     \/ /\ UNCHANGED files
        /\ McpGoto(p, "failed")
  /\ UNCHANGED <<baks, installed, claude, rewrites>>

\* The client, or its user, changes its own file.
Rewrite ==
  /\ rewrites < MaxRewrites
  /\ rewrites' = rewrites + 1
  /\ LET path == AppReads(files) IN
       files' = [files EXCEPT ![path] =
                   [entry |-> IF @ = Missing THEN NoEntry ELSE @.entry, rest |-> rewrites + 1]]
  /\ UNCHANGED <<baks, installed, claude, jobs>>

----------------------------------------------------------------------------
(* Claude Code                                                             *)

\* planClaudeCode: the state file says what is there, if it can be read.
PlanInstall(p) ==
  /\ jobs[p].pc = "idle"
  /\ \E known \in BOOLEAN :
       jobs' = [jobs EXCEPT ![p].pc = "shown", ![p].op = "install",
                            ![p].retry = ~known \/ claude = NoEntry,
                            ![p].cmds = IF known /\ claude = p THEN <<>>
                                        ELSE IF known /\ claude # NoEntry
                                        THEN <<"remove", "add-json">>
                                        ELSE <<"add-json">>]
  /\ UNCHANGED <<files, baks, installed, claude, rewrites>>

\* planClaudeCodeRemove.
PlanUninstall(p) ==
  /\ jobs[p].pc = "idle"
  /\ \E known \in BOOLEAN :
       jobs' = [jobs EXCEPT ![p].pc = "shown", ![p].op = "remove",
                            ![p].absentOK = ~known,
                            ![p].cmds = IF known /\ claude = NoEntry THEN <<>>
                                        ELSE <<"remove">>]
  /\ UNCHANGED <<files, baks, installed, claude, rewrites>>

\* checkTool: no claude, or a batch file that takes no JSON; or no answer.
Confirm(p) ==
  /\ jobs[p].pc = "shown"
  /\ \/ McpGoto(p, IF jobs[p].cmds = <<>> THEN "refused" ELSE "run")
     \/ McpGoto(p, "refused")
  /\ UNCHANGED <<files, baks, installed, claude, rewrites>>

Allowed(cmd) == IF cmd = "remove" THEN claude # NoEntry ELSE claude = NoEntry
EntryAfter(p, cmd) == IF cmd = "remove" THEN NoEntry ELSE p

\* A run that took effect: "took" is what really happened.
Ran(p, cmd, j) == [j EXCEPT !.took = cmd = "remove"]

Proceed(j) ==
  [j EXCEPT !.cmds = Tail(j.cmds),
            !.pc = IF Len(j.cmds) = 1 THEN "done" ELSE "run",
            !.removed = @ \/ Head(j.cmds) = "remove"]

RunWorks(p) ==
  /\ jobs[p].pc = "run"
  /\ LET cmd == Head(jobs[p].cmds) IN
       /\ Allowed(cmd)
       /\ claude' = EntryAfter(p, cmd)
       /\ jobs' = [jobs EXCEPT ![p] = Proceed(Ran(p, cmd, @))]
  /\ UNCHANGED <<files, baks, installed, rewrites>>

\* The loop does not see removals of the retry (mutant).
GiveUpInLoop(j) == [j EXCEPT !.pc = "failed", !.told = j.removed /\ ~j.retry]

\* What an error of the main loop leads to; "removed" makes it say that the
\* old entry is gone.
GiveUp(j) == [j EXCEPT !.pc = "failed", !.told = j.removed]

\* claude refuses: the entry is there already, or there is none to remove.
RunRefused(p) ==
  /\ jobs[p].pc = "run"
  /\ LET j == jobs[p]
         cmd == Head(j.cmds) IN
       /\ ~Allowed(cmd)
       /\ jobs' = [jobs EXCEPT ![p] =
                     CASE cmd = "remove" /\ j.absentOK -> [j EXCEPT !.pc = "done"]
                       [] cmd = "add-json" /\ j.retry /\ ~j.removed -> [j EXCEPT !.pc = "again"]
                       [] OTHER -> GiveUp(j)]
  /\ UNCHANGED <<files, baks, installed, claude, rewrites>>

\* Any other error; a run killed after two minutes may have taken effect.
RunFails(p) ==
  /\ jobs[p].pc = "run"
  /\ LET j == jobs[p]
         cmd == Head(j.cmds) IN
       \/ /\ jobs' = [jobs EXCEPT ![p] = GiveUp(j)]
          /\ UNCHANGED claude
       \/ /\ Allowed(cmd)
          /\ claude' = EntryAfter(p, cmd)
          /\ jobs' = [jobs EXCEPT ![p] = GiveUp([Ran(p, cmd, j) EXCEPT !.late = TRUE])]
  /\ UNCHANGED <<files, baks, installed, rewrites>>

\* The entry the state file did not show is removed, then added again.
RemoveFirst(p) ==
  /\ jobs[p].pc = "again"
  /\ \/ /\ claude # NoEntry
        /\ claude' = NoEntry
        /\ jobs' = [jobs EXCEPT ![p].pc = "run", ![p].took = TRUE, ![p].removed = TRUE]
     \/ /\ UNCHANGED claude
        /\ jobs' = [jobs EXCEPT ![p].pc = "failed"]
     \/ /\ claude # NoEntry
        /\ claude' = NoEntry
        /\ jobs' = [jobs EXCEPT ![p].pc = "failed", ![p].took = TRUE, ![p].late = TRUE]
  /\ UNCHANGED <<files, baks, installed, rewrites>>

\* Somebody adds or removes the entry with claude itself.
ByHand ==
  /\ rewrites < MaxRewrites
  /\ rewrites' = rewrites + 1
  /\ claude' = IF claude = NoEntry THEN Old ELSE NoEntry
  /\ UNCHANGED <<files, baks, installed, jobs>>

\* A killed ffm ends where it is.
Kill(p) ==
  /\ jobs[p].pc \notin {"idle", "done", "failed", "refused", "killed"}
  /\ McpGoto(p, "killed")
  /\ UNCHANGED <<files, baks, installed, claude, rewrites>>

McpNext ==
  \/ \E p \in Installers :
       \/ PlanFile(p) \/ Answer(p) \/ Reread(p) \/ WriteBackup(p) \/ WriteFile(p)
       \/ PlanInstall(p) \/ PlanUninstall(p) \/ Confirm(p)
       \/ RunWorks(p) \/ RunRefused(p) \/ RunFails(p) \/ RemoveFirst(p) \/ Kill(p)
  \/ Rewrite \/ ByHand

McpSpec == McpInit /\ [][McpNext]_mvars

----------------------------------------------------------------------------
(* Properties                                                              *)

\* A file ffm replaces is in a backup as it was when ffm read it for the
\* last time, and the new one differs from it in the entry alone
\* (install.go, Apply).  What the client writes between that read and the
\* rename is lost: the code has no lock the clients would take.
ReplacedKept ==
  [][\A p \in Installers :
       jobs[p].pc = "write" /\ jobs'[p].pc = "done" /\ files[jobs[p].path] = jobs[p].seen =>
         LET path == jobs[p].path IN
         /\ There(files, path) => files[path] \in baks
         /\ files'[path].rest = files[path].rest]_mvars

\* An install or uninstall that fails without saying that the old entry was
\* removed has not left it removed, and one that succeeds has not either,
\* unless it was to (claudecode.go, applyClaudeCode).  A claude run killed
\* by the timeout is the exception: ffm cannot know what it did.
RemovalTold ==
  \A p \in Installers :
    jobs[p].took /\ jobs[p].op = "install" /\ jobs[p].pc \in {"done", "failed"} =>
      jobs[p].pc = "failed" /\ (jobs[p].told \/ jobs[p].late)

=============================================================================
