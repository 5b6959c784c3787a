----------------------------- MODULE SelfUpdate -----------------------------
(***************************************************************************)
(* 'ffm update' (cli/update.go).  Several ffm processes run from one file; *)
(* each may replace it while the others run, and the publisher uploads the *)
(* files of a release one at a time, replacing earlier ones when a release *)
(* is built again.  On Windows a file that a process runs from can be      *)
(* renamed but neither removed nor replaced.                               *)
(*                                                                         *)
(* A build is [tag, no]: release tag, built for the no-th time overall.    *)
(* Spoiled stands for bytes that no release build produced.                *)
(***************************************************************************)
EXTENDS Naturals

CONSTANTS Updaters,          \* processes of ffm
          Systems,           \* Systems \subseteq {"unix", "windows"}
          MaxBuild,          \* builds the publisher makes
          MaxUpdateTrouble   \* failed calls, spoiled uploads and kills

\* The publisher has made a release.
ASSUME BuildAssumption == MaxBuild \in Nat \ {0}

Nothing == [tag |-> 0, no |-> 0, of |-> "nothing"]
Spoiled == [tag |-> 0, no |-> 0, of |-> "spoiled"]
Build(tag, no) == [tag |-> tag, no |-> no, of |-> "build"]
Builds == {Build(t, n) : t \in 0..MaxBuild, n \in 0..MaxBuild}

Assets == {"sums", "sig", "archive"}

VARIABLES system,   \* the operating system
          made,     \* the newest build the publisher made
          shelf,    \* what each file of the latest release holds
          exe, old, \* the files ffm and ffm.old
          proc,     \* what each ffm process does
          utrouble,
          gap       \* a Windows swap ended between its two renames

uvars == <<system, made, shelf, exe, old, proc, utrouble, gap>>

Away == [at |-> "away", runs |-> Nothing, from |-> "exe", got |-> [a \in Assets |-> Nothing]]

UpdateInit ==
  /\ system \in Systems
  /\ made = Build(1, 1)
  /\ shelf = [a \in Assets |-> made]
  /\ exe = Build(0, 0)
  /\ old = Nothing
  /\ proc = [p \in Updaters |-> Away]
  /\ utrouble = 0
  /\ gap = FALSE

UpdateTrouble == utrouble < MaxUpdateTrouble /\ utrouble' = utrouble + 1
Put(p, r) == proc' = [proc EXCEPT ![p] = r]
Proceeds(p, at) == Put(p, [proc[p] EXCEPT !.at = at])
Exits(p) == Put(p, Away)

\* The publisher starts a release, or builds the latest one again; its files
\* follow one at a time.
Publish ==
  /\ made.no < MaxBuild
  /\ \E tag \in {made.tag, made.tag + 1} :
       /\ made' = Build(tag, made.no + 1)
       /\ shelf' = IF tag = made.tag THEN shelf ELSE [a \in Assets |-> Nothing]
  /\ UNCHANGED <<system, exe, old, proc, utrouble, gap>>

UploadAsset ==
  /\ \E a \in Assets :
       \/ shelf[a] # made /\ shelf' = [shelf EXCEPT ![a] = made] /\ UNCHANGED utrouble
       \/ a # "sig" /\ shelf[a] # Spoiled /\ UpdateTrouble /\ shelf' = [shelf EXCEPT ![a] = Spoiled]
  /\ UNCHANGED <<system, made, exe, old, proc, gap>>

------------------------------------------------------------------------------
\* Files that may not be removed or replaced: on Windows, those a process runs from.
InUse(file) == system = "windows" /\ \E p \in Updaters : proc[p].at # "away" /\ proc[p].from = file

\* A process starts from the file: the stale ffm.old of an earlier update goes
\* if nothing runs from it.
removeStaleBinary == IF system = "windows" /\ ~InUse("old") THEN Nothing ELSE old

newerThan(current, latest) == latest > current

Starts(p) ==
  /\ proc[p].at = "away" /\ exe # Nothing
  /\ old' = removeStaleBinary
  /\ Put(p, [Away EXCEPT !.at = "command", !.runs = exe])
  /\ UNCHANGED <<system, made, shelf, exe, utrouble, gap>>

\* Any other command ends.
Finishes(p) ==
  /\ proc[p].at = "command"
  /\ Exits(p)
  /\ UNCHANGED <<system, made, shelf, exe, old, utrouble, gap>>

\* 'ffm update' learns the latest release and refuses without a newer one, or
\* one whose files are not all there.
runUpdate(p) ==
  /\ proc[p].at = "command"
  /\ IF newerThan(proc[p].runs.tag, made.tag) /\ \A a \in Assets : shelf[a] # Nothing
     THEN Proceeds(p, "sums") ELSE Exits(p)
  /\ UNCHANGED <<system, made, shelf, exe, old, utrouble, gap>>

\* downloadAndInstall fetches the three files one after the other.  The
\* signature must be that of the checksums, and the archive must have the
\* checksum listed for it.
Follows == [sums |-> "sig", sig |-> "archive", archive |-> "temp"]

Accepted(asset, got) ==
  CASE asset = "sums" -> TRUE
    [] asset = "sig" -> got.sums = got.sig
    [] asset = "archive" -> got.archive = got.sums

Download(p) ==
  /\ proc[p].at \in Assets
  /\ LET asset == proc[p].at
         got == [proc[p].got EXCEPT ![asset] = shelf[asset]]
     IN  \/ /\ shelf[asset] # Nothing /\ Accepted(asset, got)
            /\ Put(p, [proc[p] EXCEPT !.at = Follows[asset], !.got = got])
            /\ UNCHANGED utrouble
         \/ (shelf[asset] = Nothing \/ ~Accepted(asset, got)) /\ Exits(p) /\ UNCHANGED utrouble
         \/ UpdateTrouble /\ Exits(p)
  /\ UNCHANGED <<system, made, shelf, exe, old, gap>>

\* replaceBinary writes and marks a temporary file beside the executable;
\* nothing of it stays behind a failure.
replaceBinary(p) ==
  /\ proc[p].at = "temp"
  /\ \/ Proceeds(p, "swap") /\ UNCHANGED utrouble
     \/ UpdateTrouble /\ Exits(p)
  /\ UNCHANGED <<system, made, shelf, exe, old, gap>>

\* swapExecutable: one atomic rename, or on Windows first the running file out
\* of the way, then the new one into place, and back when that fails.
SwapUnix(p) ==
  /\ proc[p].at = "swap" /\ system = "unix"
  /\ \/ exe' = proc[p].got.archive /\ UNCHANGED utrouble
     \/ UpdateTrouble /\ UNCHANGED exe
  /\ Exits(p)
  /\ UNCHANGED <<system, made, shelf, old, gap>>

MoveOut(p) ==
  /\ proc[p].at = "swap" /\ system = "windows"
  /\ \/ /\ exe # Nothing /\ ~InUse("old")
        /\ old' = exe /\ exe' = Nothing
        /\ proc' = [q \in Updaters |->
                     CASE q = p -> [proc[q] EXCEPT !.from = "old", !.at = "moved"]
                       [] q # p /\ proc[q].at # "away" -> [proc[q] EXCEPT !.from = "old"]
                       [] OTHER -> proc[q]]
        /\ UNCHANGED utrouble
     \/ (exe = Nothing \/ InUse("old")) /\ Exits(p) /\ UNCHANGED <<exe, old, utrouble>>
     \/ UpdateTrouble /\ Exits(p) /\ old' = (IF InUse("old") THEN old ELSE Nothing) /\ UNCHANGED exe
  /\ UNCHANGED <<system, made, shelf, gap>>

\* As MoveIn, without the way back.
MoveInOnly(p) ==
  /\ proc[p].at = "moved" /\ Exits(p)
  /\ \/ exe' = proc[p].got.archive /\ UNCHANGED utrouble
     \/ UpdateTrouble /\ UNCHANGED exe
  /\ UNCHANGED <<system, made, shelf, old, gap>>

MoveIn(p) ==
  /\ proc[p].at = "moved"
  /\ \/ exe' = proc[p].got.archive /\ Exits(p) /\ UNCHANGED <<old, utrouble, gap>>
     \/ /\ UpdateTrouble /\ exe' = old /\ old' = Nothing
        /\ proc' = [q \in Updaters |-> IF q = p THEN Away ELSE [proc[q] EXCEPT !.from = "exe"]]
        /\ UNCHANGED gap
     \/ /\ utrouble + 2 =< MaxUpdateTrouble /\ utrouble' = utrouble + 2    \* the way back fails too
        /\ Exits(p) /\ gap' = TRUE /\ UNCHANGED <<exe, old>>
  /\ UNCHANGED <<system, made, shelf>>

\* A process is killed; between the two renames of Windows no executable is left.
UpdateKilled(p) ==
  /\ proc[p].at # "away" /\ UpdateTrouble
  /\ Exits(p)
  /\ gap' = (gap \/ proc[p].at = "moved")
  /\ UNCHANGED <<system, made, shelf, exe, old>>

UpdateNext ==
  \/ Publish \/ UploadAsset
  \/ \E p \in Updaters :
       \/ Starts(p) \/ Finishes(p) \/ runUpdate(p)
       \/ Download(p) \/ replaceBinary(p) \/ SwapUnix(p) \/ MoveOut(p) \/ MoveIn(p) \/ UpdateKilled(p)

UpdateSpec == UpdateInit /\ [][UpdateNext]_uvars

------------------------------------------------------------------------------
\* The file ffm is started from always holds a whole build the publisher made,
\* through interleaved updates of several processes, uploads replaced between
\* two downloads, failed renames and kills; it is missing only inside a Windows
\* swap (downloadAndInstall, replaceBinary, swapExecutable).
BinaryWhole ==
  \/ exe \in Builds
  \/ exe = Nothing /\ (gap \/ \E p \in Updaters : proc[p].at = "moved")

==============================================================================
