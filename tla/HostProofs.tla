----------------------------- MODULE HostProofs -----------------------------
(***************************************************************************)
(* What ffm keeps on the machine beside its benches, for any callers and   *)
(* processes, and any number of calls and failures.                        *)
(*                                                                         *)
(* benches.json: IInv is inductive.  TypeOK says where a value lives,      *)
(* OneWriter who may be in the critical section, StepData what a process   *)
(* knows at each step of it (Knows).                                       *)
(*                                                                         *)
(* Tunnels: PublishedAsSaid holds.  A call that is alone knows what it     *)
(* achieved (CallKnows), of frpc if it saw it; one that is not makes no    *)
(* promise, and while one that changes things is under way (Owner) none is *)
(* made by others.  Names are only unique while enabling calls do not race *)
(* (Unique).                                                               *)
(*                                                                         *)
(* The binary: BinaryWhole holds.  What a process installs was checked     *)
(* against a signature (Checked), and on Windows one swap at a time is     *)
(* between its renames (Swapping).                                         *)
(*                                                                         *)
(* MCP clients: RemovalTold and ReplacedKept hold.  An installer that      *)
(* writes planned from the version it backed up (FileKnown); one that took *)
(* Claude Code's old entry out knows it (EntryKnown).                      *)
(*                                                                         *)
(* The hourly job: JobFollows holds of commands that do not overlap.       *)
(* JobKnown says where a job can be while a command is at each of its      *)
(* steps (Places), and what it has achieved (Standing); a job left behind  *)
(* without a word is counted as not there (Here).                          *)
(*                                                                         *)
(* The proxy: ProxyAsPromised holds.  While nothing disturbs it one call   *)
(* is under way, which has what was promised in the container or in what   *)
(* it will make (KeepsPromise).                                            *)
(***************************************************************************)
EXTENDS StateStore, McpInstall, HourlyJob, Tunnel, SelfUpdate, Proxy, BenchRecordsProofs, FiniteSetTheorems

-----------------------------------------------------------------------------
(* benches.json: the invariant *)

\* What p knows at each step of its call.
Knows(p) ==
  /\ pc[p] # "idle" => op[p] \in Ops
  /\ pc[p] = "idle" => op[p] = Idle
  /\ pc[p] = "release" <=> outcome[p] # "pending"
  /\ pc[p] \in {"bakWrite", "bakSync", "bakRename"} => file # NoFile
  /\ pc[p] = "bakSync" => tmp[p] \in File /\ tmp[p].recs = file.recs
  /\ pc[p] = "bakRename" => tmp[p] = [whole |-> TRUE, recs |-> file.recs]
  /\ pc[p] = "sync" => tmp[p] \in File /\ tmp[p].recs = buf[p]
  /\ pc[p] = "rename" => tmp[p] = [whole |-> TRUE, recs |-> buf[p]]
  /\ pc[p] \notin {"write", "sync", "rename", "release"} => ~kept[p]
  /\ pc[p] \in {"write", "sync", "rename"} /\ kept[p] =>
       file = NoFile \/ file.recs = buf[p] \/ bak = file

StepData == \A p \in Procs : Knows(p)

IInv == TypeOK /\ OneWriter /\ FreshBuffer /\ NeverTorn /\ StepData

-----------------------------------------------------------------------------
(* benches.json: type correctness *)

\* What is loaded has the type of what was written.
LEMMA LoadType == TypeOK => Load(file) \in Seq(Record)
  BY DEF TypeOK, Load, File

\* A written file is not a missing one.
LEMMA WholeFile ==
  ASSUME NEW recs \in Seq(Record)
  PROVE  [whole |-> TRUE, recs |-> recs] # NoFile
<1>1. [whole |-> TRUE, recs |-> recs] \in File
  BY DEF File
<1> QED
  BY <1>1, NoFileAssumption

\* The types hold at the start.
LEMMA InitType == Init => TypeOK
  BY DEF Init, TypeOK, Steps, Critical, Saving

\* They are inductive.
LEMMA NextType == IInv /\ [Next]_vars => TypeOK'
<1> SUFFICES ASSUME IInv, [Next]_vars
             PROVE  TypeOK'
  OBVIOUS
<1> USE DEF IInv, TypeOK, Steps, Critical, Saving, Goto
<1>1. ASSUME NEW p \in Procs, NEW o \in Ops, Call(p, o)
      PROVE  TypeOK'
  BY <1>1 DEF Call
<1>2. ASSUME NEW p \in Procs, Acquire(p)
      PROVE  TypeOK'
  BY <1>2 DEF Acquire
<1>3. ASSUME NEW p \in Procs, Timeout(p) \/ LockFails(p)
      PROVE  TypeOK'
  <2>1. Return(p, "error") /\ UNCHANGED <<file, bak, tmp, holder>>
    BY <1>3 DEF Timeout, LockFails
  <2> QED
    BY <2>1 DEF Return
<1>4. ASSUME NEW p \in Procs, Release(p)
      PROVE  TypeOK'
  <2>1. outcome[p] \in {"none", "ok", "notfound", "error"}
    BY <1>4 DEF Release, StepData, Knows
  <2> QED
    BY <1>4, <2>1 DEF Release, Return
<1>5. ASSUME NEW p \in Procs, Modify(p)
      PROVE  TypeOK'
  <2>1. Apply(op[p], Load(file)) \in Seq(Record)
    BY <1>5, LoadType, ApplyType DEF Modify, StepData, Knows
  <2> QED
    BY <1>5, <2>1 DEF Modify
<1>6. ASSUME NEW p \in Procs, NotFound(p)
      PROVE  TypeOK'
  BY <1>6 DEF NotFound
<1>7. ASSUME NEW p \in Procs, KeepPrevious(p)
      PROVE  TypeOK'
  BY <1>7 DEF KeepPrevious
<1>8. ASSUME NEW p \in Procs, WriteBak(p)
      PROVE  TypeOK'
  BY <1>8 DEF WriteBak, WriteTemp, StepData, Knows, File
<1>9. ASSUME NEW p \in Procs, WriteNew(p)
      PROVE  TypeOK'
  BY <1>9 DEF WriteNew, WriteTemp, File
<1>10. ASSUME NEW p \in Procs, SyncBak(p) \/ SyncNew(p)
       PROVE  TypeOK'
  <2>1. tmp[p] \in File
    BY <1>10, Zenon DEF SyncBak, SyncNew, SyncTemp, StepData, Knows
  <2>2. [tmp[p] EXCEPT !.whole = TRUE] \in File
    BY <2>1 DEF File
  <2>3. tmp' = [tmp EXCEPT ![p] = [tmp[p] EXCEPT !.whole = TRUE]]
    BY <1>10, Zenon DEF SyncBak, SyncNew, SyncTemp
  <2>4. tmp' \in [Procs -> File \cup {NoFile}]
    BY <2>2, <2>3
  <2>5. CASE SyncBak(p)
    BY <2>4, <2>5 DEF SyncBak, SyncTemp
  <2>6. CASE SyncNew(p)
    BY <2>4, <2>6 DEF SyncNew, SyncTemp
  <2> QED
    BY <1>10, <2>5, <2>6
<1>11. ASSUME NEW p \in Procs, RenameBak(p)
       PROVE  TypeOK'
  BY <1>11 DEF RenameBak
<1>12. ASSUME NEW p \in Procs, RenameNew(p)
       PROVE  TypeOK'
  BY <1>12 DEF RenameNew
<1>13. ASSUME NEW p \in Procs, Fail(p)
       PROVE  TypeOK'
  BY <1>13 DEF Fail
<1>14. ASSUME NEW p \in Procs, Crash(p)
       PROVE  TypeOK'
  BY <1>14 DEF Crash, Return
<1>15. CASE UNCHANGED vars
  BY <1>15 DEF vars
<1> QED
  BY <1>1, <1>2, <1>3, <1>4, <1>5, <1>6, <1>7, <1>8, <1>9, <1>10, <1>11,
     <1>12, <1>13, <1>14, <1>15 DEF Next, Progress, Fault

-----------------------------------------------------------------------------
(* benches.json: the steps *)

\* One process at a time is between lock and unlock.
LEMMA NextOneWriter == IInv /\ [Next]_vars => OneWriter'
<1> SUFFICES ASSUME IInv, [Next]_vars
             PROVE  OneWriter'
  OBVIOUS
<1> USE DEF IInv, TypeOK, OneWriter, Steps, Critical, Saving, Goto
<1>1. \A p \in Procs : pc[p] \in Steps
  OBVIOUS
<1>2. ASSUME NEW p \in Procs, NEW o \in Ops, Call(p, o)
      PROVE  OneWriter'
  BY <1>2 DEF Call
<1>3. ASSUME NEW p \in Procs, Acquire(p)
      PROVE  OneWriter'
  BY <1>3, FreeAssumption DEF Acquire
<1>4. ASSUME NEW p \in Procs, Timeout(p) \/ LockFails(p)
      PROVE  OneWriter'
  <2>1. pc[p] = "acquire" /\ pc' = [pc EXCEPT ![p] = "idle"] /\ holder' = holder
    BY <1>4 DEF Timeout, LockFails, Return
  <2> QED
    BY <2>1
<1>5. ASSUME NEW p \in Procs, Release(p)
      PROVE  OneWriter'
  BY <1>5, FreeAssumption DEF Release, Return
<1>6. ASSUME NEW p \in Procs,
             \/ Modify(p) \/ NotFound(p) \/ KeepPrevious(p) \/ WriteBak(p)
             \/ SyncBak(p) \/ RenameBak(p) \/ WriteNew(p) \/ SyncNew(p)
             \/ RenameNew(p) \/ Fail(p)
      PROVE  OneWriter'
  <2>1. /\ pc[p] \in Critical /\ holder' = holder
        /\ \E to \in Critical : pc' = [pc EXCEPT ![p] = to]
    BY <1>6 DEF Modify, NotFound, KeepPrevious, WriteBak, SyncBak, RenameBak,
       WriteNew, SyncNew, RenameNew, WriteTemp, SyncTemp, Fail
  <2> QED
    BY <2>1
<1>7. ASSUME NEW p \in Procs, Crash(p)
      PROVE  OneWriter'
  BY <1>7, FreeAssumption DEF Crash, Return
<1>8. CASE UNCHANGED vars
  BY <1>8 DEF vars
<1> QED
  BY <1>2, <1>3, <1>4, <1>5, <1>6, <1>7, <1>8, Zenon DEF Next, Progress, Fault

Step(p) == (\E o \in Ops : Call(p, o)) \/ Progress(p) \/ Fault(p)

\* A step of one process leaves what another one knows alone, and while that
\* other one is in the critical section the files too.
LEMMA OthersKeep ==
  ASSUME IInv, NEW p \in Procs, Step(p), NEW q \in Procs, q # p
  PROVE  /\ pc'[q] = pc[q] /\ op'[q] = op[q] /\ buf'[q] = buf[q]
         /\ kept'[q] = kept[q] /\ outcome'[q] = outcome[q] /\ tmp'[q] = tmp[q]
         /\ pc[q] \in Critical => UNCHANGED <<file, bak>>
<1> USE DEF IInv, TypeOK, Goto
<1>1. pc[q] \in Critical => pc[p] \notin Critical
  BY DEF OneWriter
<1>2. CASE \E o \in Ops : Call(p, o)
  BY <1>2 DEF Call
<1>3. CASE \/ Acquire(p) \/ Modify(p) \/ NotFound(p) \/ KeepPrevious(p)
           \/ WriteBak(p) \/ SyncBak(p) \/ WriteNew(p) \/ SyncNew(p) \/ Fail(p)
  BY <1>3 DEF Acquire, Modify, NotFound, KeepPrevious, WriteBak, SyncBak,
     WriteNew, SyncNew, WriteTemp, SyncTemp, Fail
<1>4. CASE Timeout(p) \/ LockFails(p) \/ Release(p) \/ Crash(p)
  BY <1>4 DEF Timeout, LockFails, Release, Crash, Return
<1>5. CASE RenameBak(p) \/ RenameNew(p)
  <2>1. pc[p] \in Critical
    BY <1>5 DEF RenameBak, RenameNew, Critical, Saving
  <2> QED
    BY <1>1, <2>1, <1>5 DEF RenameBak, RenameNew
<1> QED
  BY <1>2, <1>3, <1>4, <1>5 DEF Step, Progress, Fault

\* The file of the store is replaced whole.
LEMMA NextNeverTorn == IInv /\ [Next]_vars => NeverTorn'
<1> SUFFICES ASSUME IInv, [Next]_vars
             PROVE  NeverTorn'
  OBVIOUS
<1> USE DEF IInv, NeverTorn
<1>1. CASE UNCHANGED <<file, bak>>
  BY <1>1
<1>2. ASSUME NEW p \in Procs, RenameBak(p) \/ RenameNew(p)
      PROVE  NeverTorn'
  <2>1. Knows(p)
    BY DEF StepData
  <2> QED
    BY <1>2, <2>1 DEF RenameBak, RenameNew, Goto, Knows
<1>3. UNCHANGED <<file, bak>> \/ \E p \in Procs : RenameBak(p) \/ RenameNew(p)
  BY DEF Next, Progress, Fault, vars, Call, Acquire, Timeout, LockFails, Release,
     Modify, NotFound, KeepPrevious, WriteBak, SyncBak, WriteNew, SyncNew,
     WriteTemp, SyncTemp, Fail, Crash
<1> QED
  BY <1>1, <1>2, <1>3

\* What a process knows of the file at its step, it knows after its own step.
LEMMA NextKnows ==
  ASSUME IInv, TypeOK', NEW p \in Procs, Step(p)
  PROVE  Knows(p)'
<1> USE DEF IInv, TypeOK, Goto
<1>1. Knows(p)
  BY DEF StepData
<1> USE <1>1 DEF Knows
<1>2. CASE \E o \in Ops : Call(p, o)
  BY <1>2 DEF Call
<1>3. CASE Acquire(p)
  BY <1>3 DEF Acquire
<1>4. CASE Timeout(p) \/ LockFails(p) \/ Release(p) \/ Crash(p)
  BY <1>4 DEF Timeout, LockFails, Release, Crash, Return
<1>5. CASE Modify(p) \/ NotFound(p)
  BY <1>5 DEF Modify, NotFound
<1>6. CASE KeepPrevious(p)
  <2>1. CASE Changes(p) /\ Goto(p, "keep", "bakWrite")
    BY <1>6, <2>1 DEF KeepPrevious, Changes
  <2>2. CASE ~Changes(p) /\ Goto(p, "keep", "write")
    BY <1>6, <2>2 DEF KeepPrevious, Changes
  <2>3. CASE Changes(p) /\ Goto(p, "keep", "write") /\ UNCHANGED kept
    BY <1>6, <2>3 DEF KeepPrevious, Changes
  <2> QED
    BY <1>6, <2>1, <2>2, <2>3 DEF KeepPrevious
<1>7. ASSUME NEW from, NEW to, NEW recs \in Seq(Record), WriteTemp(p, from, to, recs)
      PROVE  tmp'[p] \in File /\ tmp'[p].recs = recs
  BY <1>7 DEF WriteTemp, File
<1>8. ASSUME NEW from, NEW to, SyncTemp(p, from, to), tmp[p] \in File
      PROVE  tmp'[p] = [whole |-> TRUE, recs |-> tmp[p].recs]
  <2>1. tmp'[p] = [tmp[p] EXCEPT !.whole = TRUE]
    BY <1>8 DEF SyncTemp
  <2> QED
    BY <2>1, <1>8 DEF File
<1>9. CASE WriteBak(p)
  <2>1. file.recs \in Seq(Record)
    BY <1>9 DEF WriteBak, WriteTemp, File
  <2>2. tmp'[p] \in File /\ tmp'[p].recs = file.recs
    BY <2>1, <1>7, <1>9, Zenon DEF WriteBak
  <2> QED
    BY <1>9, <2>2 DEF WriteBak, WriteTemp
<1>10. CASE WriteNew(p)
  <2>1. tmp'[p] \in File /\ tmp'[p].recs = buf[p]
    BY <1>7, <1>10, Zenon DEF WriteNew
  <2> QED
    BY <1>10, <2>1 DEF WriteNew, WriteTemp
<1>11. CASE SyncBak(p)
  <2>1. tmp'[p] = [whole |-> TRUE, recs |-> file.recs]
    BY <1>8, <1>11 DEF SyncBak, SyncTemp
  <2> QED
    BY <1>11, <2>1 DEF SyncBak, SyncTemp
<1>12. CASE SyncNew(p)
  <2>1. tmp'[p] = [whole |-> TRUE, recs |-> buf[p]]
    BY <1>8, <1>12 DEF SyncNew, SyncTemp
  <2> QED
    BY <1>12, <2>1 DEF SyncNew, SyncTemp
<1>13. CASE RenameBak(p)
  <2>1. file # NoFile => file = [whole |-> TRUE, recs |-> file.recs]
    BY DEF NeverTorn, File
  <2> QED
    BY <1>13, <2>1 DEF RenameBak
<1>14. CASE RenameNew(p)
  BY <1>14 DEF RenameNew
<1>15. CASE Fail(p)
  BY <1>15 DEF Fail, Saving
<1> QED
  BY <1>2, <1>3, <1>4, <1>5, <1>6, <1>9, <1>10, <1>11, <1>12, <1>13, <1>14, <1>15
     DEF Step, Progress, Fault

\* And after the steps of all others.
LEMMA NextStepData == IInv /\ [Next]_vars => StepData'
<1> SUFFICES ASSUME IInv, [Next]_vars, NEW q \in Procs
             PROVE  Knows(q)'
  BY DEF StepData
<1>1. Knows(q)
  BY DEF IInv, StepData
<1>2. TypeOK'
  BY NextType
<1>3. ASSUME NEW p \in Procs, Step(p)
      PROVE  Knows(q)'
  <2>1. CASE q = p
    BY <1>2, <1>3, <2>1, NextKnows
  <2>2. CASE q # p
    <3>1. /\ pc'[q] = pc[q] /\ op'[q] = op[q] /\ buf'[q] = buf[q]
          /\ kept'[q] = kept[q] /\ outcome'[q] = outcome[q] /\ tmp'[q] = tmp[q]
          /\ pc[q] \in Critical => UNCHANGED <<file, bak>>
      BY <1>3, <2>2, OthersKeep
    <3>2. CASE pc[q] \in Critical
      BY <1>1, <3>1, <3>2 DEF Knows
    <3>3. CASE pc[q] \notin Critical
      BY <1>1, <3>1, <3>3 DEF Knows, Critical, Saving
    <3> QED
      BY <3>2, <3>3
  <2> QED
    BY <2>1, <2>2
<1>4. CASE UNCHANGED vars
  BY <1>1, <1>4 DEF vars, Knows
<1> QED
  BY <1>3, <1>4 DEF Next, Step

\* The contents p is about to save are its operation on the file as it is.
Fresh(p) ==
  /\ op[p] # Idle
  /\ Accepts(op[p], Load(file))
  /\ buf[p] = Apply(op[p], Load(file))

\* What a process is about to write is made from what the file holds.
LEMMA NextFresh == IInv /\ [Next]_vars => FreshBuffer'
<1> SUFFICES ASSUME IInv, [Next]_vars, NEW q \in Procs, pc'[q] \in Saving
             PROVE  Fresh(q)'
  BY DEF FreshBuffer, Fresh
<1> USE DEF IInv, TypeOK, Goto
<1>1. pc[q] \in Saving => Fresh(q)
  BY DEF FreshBuffer, Fresh
<1>2. ASSUME NEW p \in Procs, Step(p), q # p
      PROVE  Fresh(q)'
  <2>1. pc[q] \in Saving /\ pc[q] \in Critical
    BY <1>2, OthersKeep DEF Critical
  <2> QED
    BY <1>1, <1>2, <2>1, OthersKeep DEF Fresh, Load
<1>3. CASE Modify(q)
  BY <1>3, IdleAssumption DEF Modify, Fresh, Load, StepData, Knows
<1>4. ASSUME pc[q] \in Saving, UNCHANGED <<file, op, buf>>
      PROVE  Fresh(q)'
  BY <1>1, <1>4 DEF Fresh, Load
<1>5. CASE \/ KeepPrevious(q) \/ WriteBak(q) \/ SyncBak(q) \/ RenameBak(q)
           \/ WriteNew(q) \/ SyncNew(q)
  BY <1>4, <1>5 DEF KeepPrevious, WriteBak, SyncBak, RenameBak, WriteNew,
     SyncNew, WriteTemp, SyncTemp, Saving
<1>6. ~ \/ \E o \in Ops : Call(q, o)
        \/ Acquire(q) \/ NotFound(q) \/ RenameNew(q) \/ Fail(q)
  BY DEF Call, Acquire, NotFound, RenameNew, Fail, Saving
<1>7. ~(Timeout(q) \/ LockFails(q) \/ Release(q) \/ Crash(q))
  BY DEF Timeout, LockFails, Release, Crash, Return, Saving
<1>8. CASE UNCHANGED vars
  BY <1>4, <1>8 DEF vars
<1>9. Step(q) => Modify(q) \/ KeepPrevious(q) \/ WriteBak(q) \/ SyncBak(q)
                 \/ RenameBak(q) \/ WriteNew(q) \/ SyncNew(q)
  BY <1>6, <1>7, Zenon DEF Step, Progress, Fault
<1>10. UNCHANGED vars \/ \E p \in Procs : Step(p)
  BY Zenon DEF Next, Step
<1> QED
  BY <1>2, <1>3, <1>5, <1>8, <1>9, <1>10

-----------------------------------------------------------------------------
(* benches.json: the theorems *)

\* IInv holds in every reachable state.
THEOREM Inductive == Spec => []IInv
<1>1. Init => IInv
  <2>1. Init => OneWriter /\ FreshBuffer /\ NeverTorn
    BY FreeAssumption DEF Init, OneWriter, FreshBuffer, NeverTorn, Critical, Saving
  <2>2. Init => StepData
    BY DEF Init, StepData, Knows
  <2> QED
    BY <2>1, <2>2, InitType DEF IInv
<1>2. IInv /\ [Next]_vars => IInv'
  <2>1. IInv' <=> TypeOK' /\ OneWriter' /\ FreshBuffer' /\ NeverTorn' /\ StepData'
    BY DEF IInv
  <2> QED
    BY <2>1, NextType, NextOneWriter, NextFresh, NextNeverTorn, NextStepData
<1> QED
  BY <1>1, <1>2, PTL DEF Spec

\* Every variable keeps its type: in particular benches.json only ever holds
\* bench records, whatever sequence of calls, failures and crashes came before.
THEOREM TypeCorrect == Spec => []TypeOK
<1>1. IInv => TypeOK
  BY DEF IInv
<1> QED
  BY <1>1, Inductive, PTL

\* The read-modify-writes of benches.json never overlap (Store.locked).
THEOREM MutualExclusion == Spec => []OneWriter
<1>1. IInv => OneWriter
  BY DEF IInv
<1> QED
  BY <1>1, Inductive, PTL

\* What a process saves is its operation on the current file: no update of
\* another process is lost (the promise of the comment on Store).
THEOREM NoLostUpdate == Spec => []FreshBuffer
<1>1. IInv => FreshBuffer
  BY DEF IInv
<1> QED
  BY <1>1, Inductive, PTL

\* An unlocked reader finds a whole file under both names (writeFileAtomic).
THEOREM WholeFiles == Spec => []NeverTorn
<1>1. IInv => NeverTorn
  BY DEF IInv
<1> QED
  BY <1>1, Inductive, PTL

\* Replacing the contents of benches.json leaves the replaced version in
\* benches.json.bak, unless the writer failed to read it back (Store.Save).
THEOREM BackupKept == Spec => PreviousKept
<1>1. IInv /\ [Next]_vars =>
        [file # NoFile /\ Load(file)' # Load(file) => bak = file \/ ~kept[holder]]_vars
  <2> SUFFICES ASSUME IInv, Next, file # NoFile, Load(file)' # Load(file)
               PROVE  bak = file \/ ~kept[holder]
    BY Zenon DEF vars
  <2>1. PICK p \in Procs : Step(p)
    BY DEF Next, Step
  <2>2. file' # file
    BY DEF Load
  <2>3. RenameNew(p)
    BY <2>1, <2>2 DEF Step, Progress, Fault, Call, Acquire, Timeout, LockFails,
       Release, Modify, NotFound, KeepPrevious, WriteBak, SyncBak, RenameBak,
       WriteNew, SyncNew, WriteTemp, SyncTemp, Fail, Crash
  <2>4. pc[p] = "rename" /\ holder = p /\ Knows(p)
    BY <2>3 DEF RenameNew, Goto, IInv, OneWriter, StepData, Critical, Saving
  <2>5. file' = [whole |-> TRUE, recs |-> buf[p]]
    BY <2>3, <2>4 DEF RenameNew, Knows
  <2>6. [whole |-> TRUE, recs |-> buf[p]] # NoFile
    BY WholeFile DEF IInv, TypeOK
  <2>7. Load(file)' = buf[p]
    BY <2>5, <2>6 DEF Load
  <2> QED
    BY <2>4, <2>7 DEF Knows, Load
<1> QED
  BY <1>1, Inductive, PTL DEF Spec, PreviousKept

-----------------------------------------------------------------------------
(* benches.json: the store implements the atomic registry *)

Effect == [p \in Procs |-> IF outcome[p] = "error" THEN "pending" ELSE outcome[p]]

\* Both modules speak of the same operations on records.
LEMMA SameOperations ==
  ASSUME NEW o, NEW recs
  PROVE  /\ Abstract!Accepts(o, recs) <=> Accepts(o, recs)
         /\ Abstract!Apply(o, recs) = Apply(o, recs)
  BY DEF Abstract!Accepts, Abstract!Exists, Abstract!Named, Abstract!Apply,
     Abstract!add, Abstract!remove, Abstract!update, Abstract!FirstNamed,
     Accepts, Exists, Named, Apply, add, remove, update, FirstNamed

\* Leaving a call, whatever the reason: what changes, seen from the registry.
LEMMA ReturnImplements ==
  ASSUME IInv, NEW p \in Procs, NEW a, Return(p, a), UNCHANGED file, op[p] # Idle
  PROVE  Abstract!Leave(p, a)
<1>1. Effect' = [Effect EXCEPT ![p] = "pending"]
  BY DEF Effect, Return, IInv, TypeOK
<1>2. Load(file)' = Load(file)
  BY DEF Load
<1> QED
  BY <1>1, <1>2 DEF Abstract!Leave, Effect, Return

\* One step of the store is one step of the registry or none.
LEMMA StepImplements ==
  ASSUME IInv, NEW p \in Procs, Step(p)
  PROVE  Abstract!Next \/ UNCHANGED Abstract!vars
<1> USE DEF IInv, TypeOK, Goto
<1>1. Knows(p)
  BY DEF StepData
<1>2. ASSUME NEW o \in Ops, Call(p, o)
      PROVE  Abstract!Invoke(p, o)
  <2>1. op[p] = Idle
    BY <1>1, <1>2 DEF Call, Knows
  <2>2. Load(file)' = Load(file) /\ Effect' = Effect
    BY <1>2 DEF Call, Load, Effect
  <2> QED
    BY <1>2, <2>1, <2>2 DEF Call, Abstract!Invoke, Effect
<1>3. CASE RenameNew(p)
  <2>1. Fresh(p) /\ Effect[p] = "pending"
    BY <1>3, <1>1 DEF RenameNew, FreshBuffer, Fresh, Saving, Knows, Effect
  <2>2. [whole |-> TRUE, recs |-> buf[p]] # NoFile
    BY WholeFile
  <2>3. Load(file)' = buf[p]
    BY <1>3, <1>1, <2>2 DEF RenameNew, Knows, Load
  <2>4. Effect' = [Effect EXCEPT ![p] = "ok"]
    BY <1>3 DEF RenameNew, Effect
  <2>5. UNCHANGED <<op, answer>>
    BY <1>3 DEF RenameNew
  <2>6. Abstract!Commit(p)
    BY <2>1, <2>3, <2>4, <2>5, SameOperations DEF Abstract!Commit, Effect, Fresh
  <2> QED
    BY <2>6 DEF Abstract!Next
<1>4. CASE NotFound(p)
  <2>1. op[p] # Idle /\ Effect[p] = "pending" /\ ~Accepts(op[p], Load(file))
    BY <1>4, <1>1, IdleAssumption DEF NotFound, Knows, Effect
  <2>2. Load(file)' = Load(file) /\ Effect' = [Effect EXCEPT ![p] = "notfound"]
    BY <1>4 DEF NotFound, Load, Effect
  <2>3. UNCHANGED <<op, answer>>
    BY <1>4 DEF NotFound
  <2>4. Abstract!Refuse(p)
    BY <2>1, <2>2, <2>3, SameOperations DEF Abstract!Refuse, Effect
  <2> QED
    BY <2>4 DEF Abstract!Next
<1>5. ASSUME NEW a, Return(p, a), UNCHANGED file, pc[p] # "idle",
             a = "none" \/ a = IF Effect[p] = "pending" THEN "error" ELSE Effect[p]
      PROVE  Abstract!Next
  <2>1. op[p] # Idle
    BY <1>1, <1>5, IdleAssumption DEF Knows
  <2>2. Abstract!Leave(p, a)
    BY <2>1, <1>5, ReturnImplements
  <2>3. CASE a = "none"
    BY <2>2, <2>3 DEF Abstract!Die, Abstract!Next
  <2>4. CASE a = IF Effect[p] = "pending" THEN "error" ELSE Effect[p]
    <3>1. Abstract!Answer(p)
      BY <2>2, <2>4, Zenon DEF Abstract!Answer, Abstract!Leave, Effect
    <3> QED
      BY <3>1 DEF Abstract!Next
  <2> QED
    BY <1>5, <2>3, <2>4
<1>6. CASE Timeout(p) \/ LockFails(p)
  <2>1. /\ Return(p, "error") /\ UNCHANGED file /\ pc[p] # "idle"
        /\ Effect[p] = "pending"
    BY <1>6, <1>1 DEF Timeout, LockFails, Knows, Effect
  <2> QED
    BY <2>1, <1>5
<1>7. CASE Release(p)
  <2>1. /\ Return(p, outcome[p]) /\ UNCHANGED file /\ pc[p] # "idle"
        /\ outcome[p] = IF Effect[p] = "pending" THEN "error" ELSE Effect[p]
    BY <1>7, <1>1 DEF Release, Knows, Effect
  <2> QED
    BY <2>1, <1>5
<1>8. CASE Crash(p)
  <2>1. Return(p, "none") /\ UNCHANGED file /\ pc[p] # "idle"
    BY <1>8 DEF Crash
  <2> QED
    BY <2>1, <1>5
<1>9. ASSUME UNCHANGED <<file, op, answer>>, Effect' = Effect
      PROVE  UNCHANGED Abstract!vars
  BY <1>9 DEF Abstract!vars, Effect, Load
<1>10. CASE \/ Acquire(p) \/ Modify(p) \/ KeepPrevious(p) \/ WriteBak(p)
            \/ SyncBak(p) \/ RenameBak(p) \/ WriteNew(p) \/ SyncNew(p)
  <2>1. UNCHANGED <<file, op, answer, outcome>>
    BY <1>10 DEF Acquire, Modify, KeepPrevious, WriteBak, SyncBak, RenameBak,
       WriteNew, SyncNew, WriteTemp, SyncTemp
  <2> QED
    BY <2>1, <1>9 DEF Effect
<1>11. CASE Fail(p)
  <2>1. outcome[p] = "pending" /\ outcome' = [outcome EXCEPT ![p] = "error"]
    BY <1>11, <1>1 DEF Fail, Knows, Saving
  <2>2. Effect' = Effect
    BY <2>1 DEF Effect
  <2> QED
    BY <2>2, <1>9, <1>11 DEF Fail
<1>12. CASE \E o \in Ops : Call(p, o)
  BY <1>2, <1>12 DEF Abstract!Next, Abstract!Ops, Abstract!AddOps,
     Abstract!RemoveOps, Abstract!UpdateOps, Abstract!Record,
     Ops, AddOps, RemoveOps, UpdateOps, Record
<1> QED
  BY <1>3, <1>4, <1>6, <1>7, <1>8, <1>10, <1>11, <1>12 DEF Step, Progress, Fault

\* The store implements the atomic registry: every call that is answered took
\* effect in one step, on the current contents, exactly when the answer says so.
THEOREM Refinement == Spec => ImplementsRegistry
<1>1. Init => Abstract!Init
  BY DEF Init, Abstract!Init, Load
<1>2. IInv /\ [Next]_vars => [Abstract!Next]_Abstract!vars
  <2> SUFFICES ASSUME IInv, [Next]_vars
               PROVE  Abstract!Next \/ UNCHANGED Abstract!vars
    OBVIOUS
  <2>1. CASE UNCHANGED vars
    BY <2>1 DEF vars, Abstract!vars, Load
  <2>2. CASE \E p \in Procs : Step(p)
    BY <2>2, StepImplements
  <2> QED
    BY <2>1, <2>2, Zenon DEF Next, Step
<1> QED
  BY <1>1, <1>2, Inductive, PTL DEF Spec, ImplementsRegistry, Abstract!Spec


-----------------------------------------------------------------------------
(* Tunnels: the invariant *)

HostNames == Tunnels \cup {Off} \cup {Plain(x) : x \in Hosts}
MaybeTunnel == Tunnels \cup {Off}
Kinds == {"enable", "disable", "start", "proxy", "reset"}
Containers == [status : {"", "created", "running", "exited"}, loaded : MaybeTunnel]
Records == [tunnel : MaybeTunnel, proxyHost : HostNames]
Promises == [tunnel : BOOLEAN, host : BOOLEAN]
Points == Kinds \cup {"idle", "unique", "toml", "exists", "rm", "up", "run", "save", "host", "note"}
Calls == [at : Points, kind : Kinds \cup {"none"}, bench : Benches \cup {None}, tunnel : MaybeTunnel,
          host : HostNames, warned : BOOLEAN, blind : BOOLEAN, alone : BOOLEAN]

FilesOK ==
  /\ profiles \in SUBSET Servers
  /\ record \in [Benches -> Records]
  /\ frpcToml \in [Benches -> MaybeTunnel]
  /\ frpc \in [Benches -> Containers]
  /\ hostName \in [Benches -> HostNames]

TunnelTypeOK ==
  /\ FilesOK
  /\ calls \in [Callers -> Calls]
  /\ tkept \in [Benches -> Promises]
  /\ raced \in BOOLEAN

\* The steps of each kind of call.
PointsOf(kind) ==
  CASE kind = "enable"  -> {"enable", "unique", "toml", "exists", "rm", "up", "run", "save", "host"}
    [] kind = "disable" -> {"disable", "rm", "save", "host", "note"}
    [] kind = "start"   -> {"start", "up", "run"}
    [] kind = "proxy"   -> {"proxy", "host", "note"}
    [] kind = "reset"   -> {"reset", "host", "note"}

\* What a call that is alone on its bench b has achieved.
CallKnows(k, b) ==
  /\ k.kind = "enable" =>
       /\ k.at \in {"exists", "rm", "up", "run"} => frpcToml[b] = k.tunnel
       /\ k.at \in {"save", "host"} /\ ~k.blind => frpc[b] = [status |-> "running", loaded |-> k.tunnel]
       /\ k.at = "up" /\ ~k.blind => frpc[b].status = ""
       /\ k.at = "host" => record[b] = [tunnel |-> k.tunnel, proxyHost |-> k.host]
  /\ k.kind = "disable" =>
       /\ k.at \in {"save", "host", "note"} /\ ~k.warned /\ ~k.blind => frpc[b] = NoContainer
       /\ k.at \in {"host", "note"} => record[b].tunnel = Off
       /\ k.at = "note" => hostName[b] = k.host
  /\ k.kind \in {"proxy", "reset"} /\ k.at = "note" /\ ~(k.kind = "proxy" /\ k.host = Off) => hostName[b] = k.host

CallOK(c) ==
  calls[c].at # "idle" =>
    /\ calls[c].kind \in Kinds /\ calls[c].at \in PointsOf(calls[c].kind) /\ calls[c].bench \in Benches
    /\ calls[c].kind = "enable" /\ calls[c].at # "enable" => calls[c].tunnel \in Tunnels
    /\ calls[c].alone => Busy(calls[c].bench) = {c} /\ CallKnows(calls[c], calls[c].bench)

\* A call that changes the tunnel of b, or the host name, is under way: when it
\* ends it says of them what it knows, or nothing.
Owner(k, b) == k.bench = b /\ k.kind \in {"enable", "disable"} /\ k.at \notin {"idle", "enable", "unique", "disable"}
HostOwner(k, b) == Owner(k, b) \/ (k.bench = b /\ k.kind \in {"proxy", "reset"} /\ k.at \in {"host", "note"})

Owned(b) == \E c \in Callers : Owner(calls[c], b)
HostOwned(b) == \E c \in Callers : HostOwner(calls[c], b)

AsRecorded(b) ==
  frpc[b] = IF record[b].tunnel = Off THEN NoContainer ELSE [status |-> "running", loaded |-> record[b].tunnel]

\* A start of b that is about to bring the tunnel up, or to make its container.
Starting(b, at) == \E c \in Callers : calls[c].bench = b /\ calls[c].kind = "start" /\ calls[c].at = at

TunnelKept(b) ==
  tkept[b].tunnel => \/ Owned(b)
                     \/ /\ AsRecorded(b)
                        /\ Starting(b, "up") \/ Starting(b, "run") => record[b].tunnel # Off
HostKept(b) == tkept[b].host => HostOwned(b) \/ hostName[b] = record[b].proxyHost

\* Unless enabling calls overlapped there is one at a time, and from its look on
\* no other bench has the tunnel it is about to record.
Unique ==
  ~raced =>
    /\ \A c, d \in Callers : calls[c].kind = "enable" /\ calls[d].kind = "enable" => c = d
    /\ \A c \in Callers : calls[c].kind = "enable" /\ calls[c].at \notin {"enable", "unique", "host"} =>
         \A b \in Benches \ {calls[c].bench} : record[b].tunnel # calls[c].tunnel
    /\ \A a, b \in Benches : a # b => record[a].tunnel = Off \/ record[a].tunnel # record[b].tunnel

TunnelInv ==
  /\ TunnelTypeOK
  /\ \A c \in Callers : calls[c].at = "idle" => calls[c] = Rest
  /\ \A c \in Callers : CallOK(c)
  /\ \A b \in Benches : TunnelKept(b)
  /\ \A b \in Benches : HostKept(b)
  /\ Unique

-----------------------------------------------------------------------------
(* Tunnels: whom a step disturbs *)

\* A tunnel is none of the things that stand for having none.
LEMMA TunnelsAre ==
  ASSUME None \notin Servers
  PROVE  /\ Off \notin Tunnels /\ Off \in HostNames /\ Direct \in HostNames
         /\ NoContainer \in Containers /\ NoContainer.status = "" /\ Rest \in Calls
         /\ \A t \in Tunnels : Url(t) = t
<1>1. Off \notin Tunnels
  BY DEF Off, Tunnels
<1>2. Off \in HostNames /\ Direct \in HostNames
  BY DEF HostNames, Direct
<1>3. NoContainer \in Containers /\ NoContainer.status = ""
  BY DEF NoContainer, Containers, MaybeTunnel
<1>4. Rest \in Calls
  BY <1>2 DEF Rest, Calls, Points, Kinds, MaybeTunnel
<1>5. \A t \in Tunnels : Url(t) = t
  BY DEF Tunnels, Url
<1> QED
  BY <1>1, <1>2, <1>3, <1>4, <1>5

\* In an initial state nothing is published and nobody calls.
LEMMA InitTunnel ==
  ASSUME None \notin Servers, TunnelInit
  PROVE  TunnelInv
<1> USE DEF TunnelInit
<1>1. /\ Off \in HostNames /\ Direct \in HostNames /\ NoContainer \in Containers /\ Rest \in Calls
      /\ Off \in MaybeTunnel /\ Off = Direct
  BY TunnelsAre DEF MaybeTunnel, Direct
<1>2. [tunnel |-> Off, proxyHost |-> Direct] \in Records
  BY <1>1 DEF Records
<1>3. [tunnel |-> TRUE, host |-> TRUE] \in Promises
  BY DEF Promises
<1>4. TunnelTypeOK
  BY <1>1, <1>2, <1>3 DEF TunnelTypeOK, FilesOK
<1>5. \A c \in Callers : calls[c] = Rest /\ calls[c].at = "idle" /\ calls[c].kind = "none"
  BY DEF Rest
<1>6. \A b \in Benches : TunnelKept(b) /\ HostKept(b)
  BY <1>5 DEF TunnelKept, HostKept, AsRecorded, Starting
<1>7. Unique
  BY <1>5 DEF Unique
<1> QED
  BY <1>4, <1>5, <1>6, <1>7 DEF TunnelInv, CallOK

\* A step of c changes nothing of other calls and other benches.
OnlyAt(c) ==
  /\ \A d \in Callers \ {c} : calls'[d] = calls[d]
  /\ \/ calls'[c] = Rest
     \/ calls'[c].bench = calls[c].bench /\ calls'[c].kind = calls[c].kind /\ calls'[c].at # "idle"
  /\ \A b \in Benches \ {calls[c].bench} :
       /\ frpcToml'[b] = frpcToml[b] /\ frpc'[b] = frpc[b] /\ record'[b] = record[b]
       /\ hostName'[b] = hostName[b] /\ tkept'[b] = tkept[b]

\* Then other calls know what they knew, and promises about other benches hold.
LEMMA OthersKept ==
  ASSUME TunnelInv, NEW c \in Callers, calls[c].at # "idle", OnlyAt(c)
  PROVE  /\ \A d \in Callers \ {c} : CallOK(d)' /\ (calls'[d].at = "idle" => calls'[d] = Rest)
         /\ \A b \in Benches \ {calls[c].bench} : TunnelKept(b)' /\ HostKept(b)'
<1>1. ASSUME NEW d \in Callers \ {c} PROVE CallOK(d)'
  <2>1. CallOK(d) /\ calls'[d] = calls[d]
    BY DEF TunnelInv, OnlyAt
  <2> SUFFICES ASSUME calls[d].at # "idle", calls[d].alone
               PROVE  (Busy(calls[d].bench) = {d} /\ CallKnows(calls[d], calls[d].bench))'
    BY <2>1 DEF CallOK
  <2> DEFINE b == calls[d].bench
  <2>2. b \in Benches /\ Busy(b) = {d} /\ CallKnows(calls[d], b)
    BY <2>1 DEF CallOK
  <2>3. calls[c].bench # b
    BY <2>2 DEF Busy
  <2>4. /\ frpcToml'[b] = frpcToml[b] /\ frpc'[b] = frpc[b] /\ record'[b] = record[b] /\ hostName'[b] = hostName[b]
    BY <2>2, <2>3 DEF OnlyAt
  <2>5. CallKnows(calls[d], calls[d].bench)'
    BY <2>1, <2>2, <2>4 DEF CallKnows
  <2>6. \A e \in Callers : e # d => ~(calls'[e].at # "idle" /\ calls'[e].bench = b)
    BY <2>2, <2>3 DEF Busy, OnlyAt, Rest
  <2>7. (Busy(calls[d].bench) = {d})'
    BY <2>1, <2>6 DEF Busy
  <2> QED
    BY <2>5, <2>7
<1>2. ASSUME NEW b \in Benches \ {calls[c].bench} PROVE TunnelKept(b)' /\ HostKept(b)'
  <2>1. TunnelKept(b) /\ HostKept(b)
    BY DEF TunnelInv
  <2>2. \A d \in Callers : Owner(calls'[d], b) <=> Owner(calls[d], b)
    BY DEF OnlyAt, Owner, Rest
  <2>3. \A d \in Callers : HostOwner(calls'[d], b) <=> HostOwner(calls[d], b)
    BY <2>2 DEF OnlyAt, HostOwner, Rest
  <2>4. (Starting(b, "up")' <=> Starting(b, "up")) /\ (Starting(b, "run")' <=> Starting(b, "run"))
    <3>1. \A d \in Callers : calls'[d] = calls[d] \/ (calls[d].bench # b /\ (calls'[d].bench # b \/ calls'[d].kind = "none"))
      BY DEF OnlyAt, Rest
    <3> QED
      BY <3>1 DEF Starting
  <2>5. Owned(b)' <=> Owned(b)
    BY <2>2 DEF Owned
  <2>6. HostOwned(b)' <=> HostOwned(b)
    BY <2>3 DEF HostOwned
  <2> QED
    BY <2>1, <2>4, <2>5, <2>6 DEF TunnelKept, HostKept, AsRecorded, OnlyAt
<1>3. ASSUME NEW d \in Callers \ {c} PROVE calls'[d].at = "idle" => calls'[d] = Rest
  BY DEF TunnelInv, OnlyAt
<1> QED
  BY <1>1, <1>2, <1>3

\* A promise about the tunnel stays as long as its container, its record and the
\* calls that own it or start it do.
LEMMA TunnelStays ==
  ASSUME TunnelInv, NEW c \in Callers, OnlyAt(c), NEW b \in Benches,
         ~Owner(calls[c], b), tkept'[b].tunnel => tkept[b].tunnel,
         frpc'[b] = frpc[b], record'[b].tunnel = record[b].tunnel,
         calls'[c].kind = "start" /\ calls'[c].at \in {"up", "run"} => record[b].tunnel # Off \/ Starting(b, "up")
  PROVE  TunnelKept(b)'
<1>1. TunnelKept(b)
  BY DEF TunnelInv
<1>2. Owned(b) => Owned(b)'
  BY DEF Owned, OnlyAt
<1>3. Starting(b, "up")' => Starting(b, "up") \/ Starting(b, "run") \/ record[b].tunnel # Off
  BY DEF Starting, OnlyAt
<1>4. Starting(b, "run")' => Starting(b, "up") \/ Starting(b, "run") \/ record[b].tunnel # Off
  BY DEF Starting, OnlyAt
<1> QED
  BY <1>1, <1>2, <1>3, <1>4 DEF TunnelKept, AsRecorded

\* A promise about the host name stays as long as it, its record and the calls
\* that own it do.
LEMMA HostStays ==
  ASSUME TunnelInv, NEW c \in Callers, OnlyAt(c), NEW b \in Benches,
         ~HostOwner(calls[c], b), tkept'[b].host => tkept[b].host,
         hostName'[b] = hostName[b], record'[b].proxyHost = record[b].proxyHost
  PROVE  HostKept(b)'
<1>1. HostKept(b)
  BY DEF TunnelInv
<1>2. HostOwned(b) => HostOwned(b)'
  BY DEF HostOwned, OnlyAt
<1> QED
  BY <1>1, <1>2 DEF HostKept

\* Under a call that owns them, nothing is said of the tunnel or the host name.
LEMMA OwnersSilent ==
  ASSUME NEW c \in Callers, NEW b \in Benches
  PROVE  /\ Owner(calls'[c], b) => TunnelKept(b)'
         /\ HostOwner(calls'[c], b) => HostKept(b)'
BY DEF TunnelKept, HostKept, Owned, HostOwned

\* No two benches get one tunnel by a step of a call that records none.
LEMMA UniqueStays ==
  ASSUME TunnelInv, None \notin Servers, NEW c \in Callers, OnlyAt(c), raced' = raced,
         \A b \in Benches : record'[b].tunnel \in {record[b].tunnel, Off},
         calls'[c] = Rest \/ calls'[c].tunnel = calls[c].tunnel \/ calls'[c].at = "unique",
         calls'[c].kind = "enable" => \/ calls'[c].at \in {"enable", "unique", "host"}
                                      \/ calls[c].at \notin {"enable", "unique", "host", "idle"}
                                      \/ ~Taken(calls[c].bench, calls[c].tunnel) /\ calls[c].tunnel # Off
  PROVE  Unique'
<1> SUFFICES ASSUME ~raced
             PROVE  /\ \A d, e \in Callers : calls'[d].kind = "enable" /\ calls'[e].kind = "enable" => d = e
                    /\ \A d \in Callers : calls'[d].kind = "enable" /\ calls'[d].at \notin {"enable", "unique", "host"} =>
                         \A b \in Benches \ {calls'[d].bench} : record'[b].tunnel # calls'[d].tunnel
                    /\ \A a, b \in Benches : a # b => record'[a].tunnel = Off \/ record'[a].tunnel # record'[b].tunnel
  BY DEF Unique
<1>1. /\ \A d, e \in Callers : calls[d].kind = "enable" /\ calls[e].kind = "enable" => d = e
      /\ \A d \in Callers : calls[d].kind = "enable" /\ calls[d].at \notin {"enable", "unique", "host"} =>
           \A b \in Benches \ {calls[d].bench} : record[b].tunnel # calls[d].tunnel
      /\ \A a, b \in Benches : a # b => record[a].tunnel = Off \/ record[a].tunnel # record[b].tunnel
  BY DEF TunnelInv, Unique
<1>2. \A d \in Callers : calls'[d].kind = "enable" => calls[d].kind = "enable" /\ calls'[d].at # "idle"
  <2>1. Rest.kind = "none" /\ Rest.at = "idle"
    BY DEF Rest
  <2>2. \A d \in Callers : calls'[d] = calls[d] \/ calls'[d].kind = calls[d].kind \/ calls'[d] = Rest
    BY DEF OnlyAt
  <2>3. \A d \in Callers : calls[d].kind = "enable" => calls[d].at # "idle"
    BY <2>1 DEF TunnelInv
  <2>4. calls'[c].kind = "enable" => calls'[c].at # "idle"
    BY <2>1 DEF OnlyAt
  <2> QED
    BY <2>1, <2>2, <2>3, <2>4 DEF OnlyAt
<1>3. ASSUME NEW d \in Callers, calls'[d].kind = "enable", calls'[d].at \notin {"enable", "unique", "host"},
             NEW b \in Benches \ {calls'[d].bench}
      PROVE  record'[b].tunnel # calls'[d].tunnel
  <2>1. calls[d].kind = "enable" /\ calls'[d].bench = calls[d].bench /\ calls'[d].tunnel = calls[d].tunnel
    BY <1>2, <1>3 DEF OnlyAt, Rest
  <2>2. calls[d].at # "idle"
    BY <2>1 DEF TunnelInv, Rest
  <2>3. calls[d].at # "enable" => calls[d].tunnel # Off
    BY <2>1, <2>2, TunnelsAre DEF TunnelInv, CallOK
  <2>4. calls[d].tunnel # Off /\ record[b].tunnel # calls[d].tunnel
    BY <1>1, <1>3, <2>1, <2>2, <2>3 DEF OnlyAt, Taken
  <2> QED
    BY <2>1, <2>4
<1>4. ASSUME NEW a \in Benches, NEW b \in Benches, a # b
      PROVE  record'[a].tunnel = Off \/ record'[a].tunnel # record'[b].tunnel
  BY <1>1, <1>4
<1> QED
  BY <1>1, <1>2, <1>3, <1>4

-----------------------------------------------------------------------------
(* Tunnels: how a call goes on, and how it ends *)

\* What a step at bench b leaves of the other benches.
OthersSame(b) ==
  \A g \in Benches \ {b} : /\ frpcToml'[g] = frpcToml[g] /\ frpc'[g] = frpc[g] /\ record'[g] = record[g]
                           /\ hostName'[g] = hostName[g]

\* A call that ends keeps the invariant if it promises what it knows, alone on
\* its bench, or leaves what others promised.
LEMMA Ending ==
  ASSUME TunnelInv, None \notin Servers, NEW c \in Callers, NEW b \in Benches, b = calls[c].bench,
         calls[c].at # "idle", NEW t \in BOOLEAN, NEW h \in BOOLEAN, Ends(c, t, h),
         FilesOK', OthersSame(b), raced' = raced,
         \A g \in Benches : record'[g].tunnel \in {record[g].tunnel, Off},
         t => \/ calls[c].alone /\ AsRecorded(b)'
              \/ \E d \in Callers \ {c} : Owner(calls[d], b)
              \/ /\ tkept[b].tunnel /\ ~Owner(calls[c], b)
                 /\ frpc'[b] = frpc[b] /\ record'[b].tunnel = record[b].tunnel,
         h => \/ hostName'[b] = record'[b].proxyHost
              \/ /\ tkept[b].host /\ ~HostOwner(calls[c], b)
                 /\ hostName'[b] = hostName[b] /\ record'[b].proxyHost = record[b].proxyHost
  PROVE  TunnelInv'
<1>0. TunnelTypeOK /\ CallOK(c)
  BY DEF TunnelInv
<1>1. Rest \in Calls /\ Rest.at = "idle" /\ Rest.kind = "none"
  BY TunnelsAre DEF Rest
<1>2. calls' = [calls EXCEPT ![c] = Rest] /\ tkept' = [tkept EXCEPT ![b] = [tunnel |-> t, host |-> h]]
  BY DEF Ends
<1>3. [tunnel |-> t, host |-> h] \in Promises
  BY DEF Promises
<1>4. TunnelTypeOK'
  BY <1>0, <1>1, <1>2, <1>3 DEF TunnelTypeOK
<1>5. OnlyAt(c) /\ calls'[c] = Rest
  BY <1>0, <1>2 DEF OnlyAt, TunnelTypeOK, OthersSame
<1>6. tkept'[b].tunnel = t /\ tkept'[b].host = h
  BY <1>0, <1>2 DEF TunnelTypeOK
<1>7. TunnelKept(b)'
  <2>1. CASE ~t
    BY <1>6, <2>1 DEF TunnelKept
  <2>2. CASE calls[c].alone /\ AsRecorded(b)'
    <3>1. Busy(b) = {c}
      BY <1>0, <2>2 DEF CallOK
    <3>2. \A d \in Callers : d # c => calls'[d].at = "idle" \/ calls'[d].bench # b
      BY <1>5, <3>1 DEF OnlyAt, Busy
    <3>3. \A d \in Callers : d # c /\ calls'[d].at = "idle" => calls'[d].kind = "none"
      BY <1>1, <1>5 DEF TunnelInv, OnlyAt
    <3>4. ~Starting(b, "up")' /\ ~Starting(b, "run")'
      BY <1>1, <1>5, <3>2, <3>3 DEF Starting
    <3> QED
      BY <2>2, <3>4 DEF TunnelKept
  <2>3. CASE /\ tkept[b].tunnel /\ ~Owner(calls[c], b)
             /\ frpc'[b] = frpc[b] /\ record'[b].tunnel = record[b].tunnel
    <3>1. ~(calls'[c].kind = "start")
      BY <1>1, <1>5
    <3> QED
      BY <1>5, <2>3, <3>1, TunnelStays
  <2>4. CASE \E d \in Callers \ {c} : Owner(calls[d], b)
    <3>1. \E d \in Callers : Owner(calls'[d], b)
      BY <1>5, <2>4 DEF OnlyAt
    <3> QED
      BY <3>1, OwnersSilent
  <2> QED
    BY <2>1, <2>2, <2>3, <2>4
<1>8. HostKept(b)'
  <2>1. CASE ~h
    BY <1>6, <2>1 DEF HostKept
  <2>2. CASE hostName'[b] = record'[b].proxyHost
    BY <2>2 DEF HostKept
  <2>3. CASE /\ tkept[b].host /\ ~HostOwner(calls[c], b)
             /\ hostName'[b] = hostName[b] /\ record'[b].proxyHost = record[b].proxyHost
    BY <1>5, <2>3, HostStays
  <2> QED
    BY <2>1, <2>2, <2>3
<1>9. Unique'
  BY <1>1, <1>5, UniqueStays
<1>10. /\ \A d \in Callers \ {c} : CallOK(d)' /\ (calls'[d].at = "idle" => calls'[d] = Rest)
       /\ \A g \in Benches \ {b} : TunnelKept(g)' /\ HostKept(g)'
  BY <1>5, OthersKept
<1>11. CallOK(c)'
  BY <1>1, <1>5 DEF CallOK
<1> QED
  BY <1>4, <1>5, <1>7, <1>8, <1>9, <1>10, <1>11 DEF TunnelInv

\* A call that goes on keeps the invariant if it knows what it should, and owns
\* what it changes.
LEMMA Going ==
  ASSUME TunnelInv, None \notin Servers, NEW c \in Callers, NEW b \in Benches, b = calls[c].bench,
         calls[c].at # "idle", NEW k \in Calls, calls' = [calls EXCEPT ![c] = k],
         k.bench = b, k.kind = calls[c].kind, k.alone => calls[c].alone, k.at \in PointsOf(k.kind),
         k.kind = "enable" /\ k.at # "enable" => k.tunnel \in Tunnels,
         k.alone => CallKnows(k, b)',
         tkept' = tkept, raced' = raced, FilesOK', OthersSame(b),
         Owner(k, b) \/ TunnelKept(b)', HostOwner(k, b) \/ HostKept(b)', Unique'
  PROVE  TunnelInv'
<1>0. TunnelTypeOK /\ CallOK(c)
  BY DEF TunnelInv
<1>1. k.kind \in Kinds /\ k.at # "idle"
  BY <1>0 DEF CallOK, PointsOf, Kinds
<1>2. TunnelTypeOK'
  BY <1>0 DEF TunnelTypeOK
<1>3. calls'[c] = k /\ OnlyAt(c)
  BY <1>0, <1>1 DEF OnlyAt, TunnelTypeOK, OthersSame
<1>4. CallOK(c)'
  <2>1. ASSUME k.alone PROVE Busy(b)' = {c}
    <3>1. Busy(b) = {c}
      BY <1>0, <2>1 DEF CallOK
    <3>2. \A d \in Callers : calls'[d].at # "idle" /\ calls'[d].bench = b <=> d = c
      BY <1>1, <1>3, <3>1 DEF Busy, OnlyAt
    <3> QED
      BY <3>2 DEF Busy
  <2>2. ASSUME k.alone PROVE (Busy(calls[c].bench) = {c} /\ CallKnows(calls[c], calls[c].bench))'
    BY <1>3, <2>1, <2>2 DEF CallKnows, Busy
  <2> QED
    BY <1>1, <1>3, <2>2 DEF CallOK
<1>5. TunnelKept(b)' /\ HostKept(b)'
  BY <1>3, OwnersSilent
<1>6. /\ \A d \in Callers \ {c} : CallOK(d)' /\ (calls'[d].at = "idle" => calls'[d] = Rest)
      /\ \A g \in Benches \ {b} : TunnelKept(g)' /\ HostKept(g)'
  BY <1>3, OthersKept
<1> QED
  BY <1>1, <1>2, <1>3, <1>4, <1>5, <1>6 DEF TunnelInv

\* The call that Goes leads to: the same one at another point.
LEMMA GoesCall ==
  ASSUME TunnelTypeOK, NEW c \in Callers, NEW pt \in Points, Goes(c, pt)
  PROVE  \E k \in Calls : /\ calls' = [calls EXCEPT ![c] = k] /\ k.at = pt
                          /\ k.kind = calls[c].kind /\ k.bench = calls[c].bench /\ k.tunnel = calls[c].tunnel
                          /\ k.host = calls[c].host /\ k.warned = calls[c].warned /\ k.alone = calls[c].alone
                          /\ k.blind = calls[c].blind
<1> DEFINE k == [calls[c] EXCEPT !.at = pt]
<1>1. calls[c] \in Calls /\ calls \in [Callers -> Calls]
  BY DEF TunnelTypeOK
<1>2. k \in Calls
  BY <1>1, Zenon DEF Calls
<1>3. /\ k.at = pt /\ k.kind = calls[c].kind /\ k.bench = calls[c].bench /\ k.tunnel = calls[c].tunnel
      /\ k.host = calls[c].host /\ k.warned = calls[c].warned /\ k.alone = calls[c].alone
      /\ k.blind = calls[c].blind
  BY <1>1 DEF Calls
<1>4. calls' = [calls EXCEPT ![c] = k]
  BY <1>1 DEF Goes
<1> HIDE DEF k
<1> QED
  BY <1>2, <1>3, <1>4

\* The call that GoesBlind leads to: at another point, without having seen frpc.
LEMMA GoesBlindCall ==
  ASSUME TunnelTypeOK, NEW c \in Callers, NEW pt \in Points, GoesBlind(c, pt)
  PROVE  \E k \in Calls : /\ calls' = [calls EXCEPT ![c] = k] /\ k.at = pt /\ k.blind
                          /\ k.kind = calls[c].kind /\ k.bench = calls[c].bench /\ k.tunnel = calls[c].tunnel
                          /\ k.alone = calls[c].alone
<1> DEFINE k == [[calls[c] EXCEPT !.at = pt] EXCEPT !.blind = TRUE]
<1>1. calls[c] \in Calls /\ calls \in [Callers -> Calls]
  BY DEF TunnelTypeOK
<1>2. k \in Calls
  BY <1>1, Zenon DEF Calls
<1>3. /\ k.at = pt /\ k.blind /\ k.kind = calls[c].kind /\ k.bench = calls[c].bench
      /\ k.tunnel = calls[c].tunnel /\ k.alone = calls[c].alone
  BY <1>1 DEF Calls
<1>4. calls' = [calls EXCEPT ![c] = k]
  BY <1>1 DEF GoesBlind, Calls
<1> HIDE DEF k
<1> QED
  BY <1>2, <1>3, <1>4

\* Going on without changing a file, outside what a call owns.
LEMMA JustGoing ==
  ASSUME TunnelInv, None \notin Servers, NEW c \in Callers, calls[c].at # "idle", NEW k \in Calls,
         calls' = [calls EXCEPT ![c] = k], k.bench = calls[c].bench, k.kind = calls[c].kind,
         k.alone => calls[c].alone, k.at \in PointsOf(k.kind),
         k.kind = "enable" /\ k.at # "enable" => k.tunnel \in Tunnels,
         UNCHANGED <<tunnelFiles, tkept, raced>>,
         k.alone => CallKnows(k, calls[c].bench),
         Owner(k, calls[c].bench) \/ ~Owner(calls[c], calls[c].bench),
         HostOwner(k, calls[c].bench) \/ ~HostOwner(calls[c], calls[c].bench),
         k.kind = "start" => \/ k.at = "up" /\ record[calls[c].bench].tunnel # Off
                             \/ k.at \notin {"up", "run"},
         Unique'
  PROVE  TunnelInv'
<1>0. TunnelTypeOK /\ CallOK(c)
  BY DEF TunnelInv
<1>1. PICK b \in Benches : b = calls[c].bench
  BY <1>0 DEF CallOK
<1>2. calls'[c] = k /\ FilesOK' /\ OthersSame(b) /\ OnlyAt(c)
  <2>1. k.at # "idle"
    BY <1>0 DEF CallOK, PointsOf, Kinds
  <2> QED
    BY <1>0, <1>1, <2>1 DEF TunnelTypeOK, FilesOK, tunnelFiles, OthersSame, OnlyAt
<1>3. k.alone => CallKnows(k, b)'
  BY <1>1 DEF CallKnows, tunnelFiles
<1>4. Owner(k, b) \/ TunnelKept(b)'
  <2>1. SUFFICES ASSUME ~Owner(calls[c], b) PROVE TunnelKept(b)'
    BY <1>1
  <2> QED
    BY <1>1, <1>2, <2>1, TunnelStays DEF tunnelFiles
<1>5. HostOwner(k, b) \/ HostKept(b)'
  BY <1>1, <1>2, HostStays DEF tunnelFiles
<1> QED
  BY <1>1, <1>2, <1>3, <1>4, <1>5, Going

\* A call that refuses before it owns anything, and has changed nothing.
LEMMA Refusing ==
  ASSUME TunnelInv, None \notin Servers, NEW c \in Callers, calls[c].at # "idle", Refuses(c),
         UNCHANGED <<tunnelFiles, raced>>, ~HostOwner(calls[c], calls[c].bench)
  PROVE  TunnelInv'
<1>0. TunnelTypeOK /\ CallOK(c)
  BY DEF TunnelInv
<1>1. PICK b \in Benches : b = calls[c].bench
  BY <1>0 DEF CallOK
<1>2. FilesOK' /\ OthersSame(b)
  BY <1>0 DEF TunnelTypeOK, FilesOK, tunnelFiles, OthersSame
<1>3. tkept[b].tunnel \in BOOLEAN /\ tkept[b].host \in BOOLEAN
  BY <1>0 DEF TunnelTypeOK, Promises
<1>4. Ends(c, tkept[b].tunnel, tkept[b].host)
  BY <1>1 DEF Refuses
<1> QED
  BY <1>1, <1>2, <1>3, <1>4, Ending DEF HostOwner, tunnelFiles

\* A call that fails promises nothing, whatever it did to its bench.
LEMMA Failing ==
  ASSUME TunnelInv, None \notin Servers, NEW c \in Callers, calls[c].at # "idle", Fails(c),
         FilesOK', OthersSame(calls[c].bench), raced' = raced,
         \A g \in Benches : record'[g].tunnel = record[g].tunnel
  PROVE  TunnelInv'
<1>1. PICK b \in Benches : b = calls[c].bench
  BY DEF TunnelInv, CallOK
<1>2. Ends(c, FALSE, FALSE)
  BY DEF Fails
<1> QED
  BY <1>1, <1>2, Ending

\* Where nothing but tunnel.json changes, nothing promised does.
LEMMA SameState ==
  ASSUME TunnelInv, profiles' \in SUBSET Servers,
         UNCHANGED <<record, frpcToml, frpc, hostName, calls, tkept, raced>>
  PROVE  TunnelInv'
<1>1. TunnelTypeOK'
  BY DEF TunnelInv, TunnelTypeOK, FilesOK
<1>2. ASSUME NEW c \in Callers PROVE CallOK(c)'
  BY DEF TunnelInv, CallOK, CallKnows, Busy
<1>3. ASSUME NEW b \in Benches PROVE TunnelKept(b)' /\ HostKept(b)'
  BY DEF TunnelInv, TunnelKept, HostKept, Owned, HostOwned, AsRecorded, Starting
<1>4. Unique'
  BY DEF TunnelInv, Unique
<1> QED
  BY <1>1, <1>2, <1>3, <1>4 DEF TunnelInv

-----------------------------------------------------------------------------
(* Tunnels: the steps *)

\* The profiles change: a subset of the servers still.
LEMMA EditProfilesInv ==
  ASSUME TunnelInv, EditProfiles
  PROVE  TunnelInv'
<1>1. profiles' \in SUBSET Servers
  BY DEF TunnelInv, TunnelTypeOK, FilesOK, EditProfiles, PutServer, RemoveServer, UseServer
<1> QED
  BY <1>1, SameState DEF EditProfiles

\* A container that stops by itself takes back what was said of its tunnel.
LEMMA FrpcExitsInv ==
  ASSUME TunnelInv, FrpcExits
  PROVE  TunnelInv'
<1>0. TunnelTypeOK /\ FilesOK
  BY DEF TunnelInv, TunnelTypeOK
<1>1. PICK b \in Benches :
        /\ frpc' = [frpc EXCEPT ![b].status = "exited"]
        /\ tkept' = [tkept EXCEPT ![b].tunnel = FALSE]
        /\ calls' = [c \in Callers |-> [calls[c] EXCEPT !.alone = @ /\ c \notin Busy(b)]]
  BY DEF FrpcExits
<1>2. ASSUME NEW c \in Callers
      PROVE  /\ calls'[c] \in Calls /\ calls'[c].at = calls[c].at /\ calls'[c].kind = calls[c].kind
             /\ calls'[c].bench = calls[c].bench /\ calls'[c].tunnel = calls[c].tunnel
             /\ calls'[c].host = calls[c].host /\ calls'[c].warned = calls[c].warned
             /\ calls'[c].alone => calls[c].alone /\ c \notin Busy(b)
             /\ c \notin Busy(b) => calls'[c] = calls[c]
  <2> DEFINE a == calls[c].alone /\ c \notin Busy(b)
  <2>1. calls[c] \in Calls /\ a \in BOOLEAN
    BY <1>0 DEF TunnelTypeOK
  <2>2. calls'[c] = [calls[c] EXCEPT !.alone = a]
    BY <1>1
  <2>3. a <=> calls[c].alone /\ c \notin Busy(b)
    OBVIOUS
  <2>4. c \notin Busy(b) => a = calls[c].alone
    BY <2>1 DEF Calls
  <2> HIDE DEF a
  <2> QED
    BY <2>1, <2>2, <2>3, <2>4 DEF Calls
<1>3. /\ frpc' \in [Benches -> Containers] /\ tkept' \in [Benches -> Promises]
      /\ \A g \in Benches \ {b} : frpc'[g] = frpc[g] /\ tkept'[g] = tkept[g]
      /\ ~tkept'[b].tunnel /\ tkept'[b].host = tkept[b].host
  BY <1>0, <1>1 DEF TunnelTypeOK, FilesOK, Containers, Promises
<1>4. calls' \in [Callers -> Calls]
  BY <1>1, <1>2
<1>5. UNCHANGED <<profiles, record, frpcToml, hostName, raced>>
  BY DEF FrpcExits
<1>6. TunnelTypeOK'
  BY <1>0, <1>3, <1>4, <1>5 DEF TunnelTypeOK, FilesOK
<1>7. ASSUME NEW c \in Callers PROVE CallOK(c)' /\ (calls'[c].at = "idle" => calls'[c] = Rest)
  <2>1. calls[c].at = "idle" => calls'[c] = Rest
    BY <1>2 DEF TunnelInv, Busy
  <2>2. CallOK(c)
    BY DEF TunnelInv
  <2>3. ASSUME calls[c].at # "idle", calls'[c].alone
        PROVE  (Busy(calls[c].bench) = {c} /\ CallKnows(calls[c], calls[c].bench))'
    <3>1. calls[c].alone /\ calls[c].bench # b /\ calls'[c] = calls[c]
      BY <1>2, <2>3 DEF Busy
    <3>2. Busy(calls[c].bench) = {c} /\ CallKnows(calls[c], calls[c].bench) /\ calls[c].bench \in Benches
      BY <2>2, <2>3, <3>1 DEF CallOK
    <3>3. (Busy(calls[c].bench) = {c})'
      BY <1>2, <3>1, <3>2 DEF Busy
    <3>4. frpc'[calls[c].bench] = frpc[calls[c].bench]
      BY <1>3, <3>1, <3>2
    <3>5. CallKnows(calls[c], calls[c].bench)'
      BY <1>5, <3>1, <3>2, <3>4 DEF CallKnows
    <3> QED
      BY <3>3, <3>5
  <2>4. CallOK(c)'
    BY <1>2, <2>2, <2>3 DEF CallOK
  <2> QED
    BY <1>2, <2>1, <2>4
<1>8. ASSUME NEW g \in Benches PROVE TunnelKept(g)' /\ HostKept(g)'
  <2>1. \A c \in Callers : Owner(calls'[c], g) <=> Owner(calls[c], g)
    BY <1>2 DEF Owner
  <2>2. \A c \in Callers : HostOwner(calls'[c], g) <=> HostOwner(calls[c], g)
    BY <1>2, <2>1 DEF HostOwner
  <2>3. (Starting(g, "up")' <=> Starting(g, "up")) /\ (Starting(g, "run")' <=> Starting(g, "run"))
    BY <1>2 DEF Starting
  <2>4. (Owned(g)' <=> Owned(g)) /\ (HostOwned(g)' <=> HostOwned(g))
    BY <2>1, <2>2 DEF Owned, HostOwned
  <2>5. TunnelKept(g) /\ HostKept(g)
    BY DEF TunnelInv
  <2>6. HostKept(g)'
    BY <1>3, <1>5, <2>4, <2>5 DEF HostKept
  <2>7. TunnelKept(g)'
    BY <1>3, <1>5, <2>3, <2>4, <2>5 DEF TunnelKept, AsRecorded
  <2> QED
    BY <2>6, <2>7
<1>9. Unique'
  BY <1>2, <1>5 DEF TunnelInv, Unique
<1> QED
  BY <1>6, <1>7, <1>8, <1>9 DEF TunnelInv

\* A call that begins takes from the calls on its bench, and from itself, that
\* they are alone, and owns nothing yet.
LEMMA BeginInv ==
  ASSUME TunnelInv, NEW c \in Callers, Begin(c)
  PROVE  TunnelInv'
<1>0. TunnelTypeOK /\ FilesOK /\ calls[c] = Rest /\ Rest.at = "idle" /\ Rest.kind = "none"
  BY DEF TunnelInv, TunnelTypeOK, Begin, Rest
<1>1. PICK b \in Benches, kind \in Kinds :
        /\ calls' = [d \in Callers |->
             IF d = c THEN [Rest EXCEPT !.at = kind, !.kind = kind, !.bench = b, !.alone = Busy(b) = {}]
             ELSE [calls[d] EXCEPT !.alone = @ /\ d \notin Busy(b)]]
        /\ raced' = (raced \/ (kind = "enable" /\ \E d \in Callers : calls[d].kind = "enable"))
  BY DEF Begin, Kinds
<1>2. /\ calls'[c] \in Calls /\ calls'[c].at = kind /\ calls'[c].kind = kind /\ calls'[c].bench = b
      /\ calls'[c].alone <=> Busy(b) = {}
  <2> DEFINE a == Busy(b) = {}
             k == [Rest EXCEPT !.at = kind, !.kind = kind, !.bench = b, !.alone = a]
  <2>1. a \in BOOLEAN /\ (a <=> Busy(b) = {})
    OBVIOUS
  <2>2. calls'[c] = k
    BY <1>1
  <2>3. Rest \in Calls
    BY <1>0 DEF TunnelTypeOK
  <2> HIDE DEF a
  <2>4. k \in Calls /\ k.at = kind /\ k.kind = kind /\ k.bench = b /\ k.alone = a
    BY <2>1, <2>3 DEF Rest, Calls, Points, Kinds
  <2> QED
    BY <2>1, <2>2, <2>4
<1>3. ASSUME NEW d \in Callers, d # c
      PROVE  /\ calls'[d] \in Calls /\ calls'[d].at = calls[d].at /\ calls'[d].kind = calls[d].kind
             /\ calls'[d].bench = calls[d].bench /\ calls'[d].tunnel = calls[d].tunnel
             /\ calls'[d].host = calls[d].host /\ calls'[d].warned = calls[d].warned
             /\ calls'[d].alone => calls[d].alone /\ d \notin Busy(b)
             /\ d \notin Busy(b) => calls'[d] = calls[d]
  <2> DEFINE a == calls[d].alone /\ d \notin Busy(b)
  <2>1. calls[d] \in Calls /\ a \in BOOLEAN
    BY <1>0 DEF TunnelTypeOK
  <2>2. calls'[d] = [calls[d] EXCEPT !.alone = a]
    BY <1>1, <1>3
  <2>3. a <=> calls[d].alone /\ d \notin Busy(b)
    OBVIOUS
  <2>4. d \notin Busy(b) => a = calls[d].alone
    BY <2>1 DEF Calls
  <2> HIDE DEF a
  <2> QED
    BY <2>1, <2>2, <2>3, <2>4 DEF Calls
<1>4. UNCHANGED <<tunnelFiles, tkept>>
  BY DEF Begin
<1>5. TunnelTypeOK'
  <2>1. calls' \in [Callers -> Calls]
    BY <1>1, <1>2, <1>3
  <2>2. raced' \in BOOLEAN
    BY <1>1
  <2>3. FilesOK' /\ tkept' \in [Benches -> Promises]
    BY <1>0, <1>4 DEF TunnelTypeOK, FilesOK, tunnelFiles
  <2> QED
    BY <2>1, <2>2, <2>3 DEF TunnelTypeOK
<1>6. CallOK(c)'
  <2>1. kind \in PointsOf(kind)
    BY DEF PointsOf, Kinds
  <2>2. ASSUME Busy(b) = {} PROVE Busy(b)' = {c}
    <3>1. \A d \in Callers : calls'[d].at # "idle" /\ calls'[d].bench = b <=> d = c
      BY <1>2, <1>3, <2>2 DEF Busy, Kinds
    <3> QED
      BY <3>1 DEF Busy
  <2>3. CallKnows(calls[c], calls[c].bench)'
    BY <1>2 DEF CallKnows, Kinds
  <2>4. calls'[c].alone => (Busy(calls[c].bench) = {c})'
    BY <1>2, <2>2 DEF Busy
  <2> QED
    BY <1>2, <2>1, <2>3, <2>4 DEF CallOK
<1>7. ASSUME NEW d \in Callers, d # c PROVE CallOK(d)' /\ (calls'[d].at = "idle" => calls'[d] = Rest)
  <2>1. calls[d].at = "idle" => calls'[d] = Rest
    BY <1>3, <1>7 DEF TunnelInv, Busy
  <2>2. CallOK(d)
    BY DEF TunnelInv
  <2>3. ASSUME calls[d].at # "idle", calls'[d].alone
        PROVE  (Busy(calls[d].bench) = {d} /\ CallKnows(calls[d], calls[d].bench))'
    <3>1. calls[d].alone /\ calls[d].bench # b /\ calls'[d] = calls[d]
      BY <1>3, <1>7, <2>3 DEF Busy
    <3>2. Busy(calls[d].bench) = {d} /\ CallKnows(calls[d], calls[d].bench)
      BY <2>2, <2>3, <3>1 DEF CallOK
    <3>3. (Busy(calls[d].bench) = {d})'
      <4>1. \A e \in Callers : e # c => (calls'[e].at # "idle" /\ calls'[e].bench = calls[d].bench <=> e = d)
        BY <1>3, <3>2 DEF Busy
      <4> QED
        BY <1>2, <1>7, <3>1, <4>1 DEF Busy
    <3>4. CallKnows(calls[d], calls[d].bench)'
      BY <1>4, <3>1, <3>2 DEF CallKnows, tunnelFiles
    <3> QED
      BY <3>3, <3>4
  <2>4. CallOK(d)'
    BY <1>3, <1>7, <2>2, <2>3 DEF CallOK
  <2> QED
    BY <1>3, <1>7, <2>1, <2>4
<1>8. ASSUME NEW g \in Benches PROVE TunnelKept(g)' /\ HostKept(g)'
  <2>1. \A d \in Callers : Owner(calls'[d], g) <=> Owner(calls[d], g)
    BY <1>0, <1>2, <1>3 DEF Owner
  <2>2. \A d \in Callers : HostOwner(calls'[d], g) <=> HostOwner(calls[d], g)
    BY <1>0, <1>2, <1>3, <2>1 DEF HostOwner
  <2>3. (Starting(g, "up")' <=> Starting(g, "up")) /\ (Starting(g, "run")' <=> Starting(g, "run"))
    BY <1>0, <1>2, <1>3 DEF Starting, Kinds
  <2>4. (Owned(g)' <=> Owned(g)) /\ (HostOwned(g)' <=> HostOwned(g))
    BY <2>1, <2>2 DEF Owned, HostOwned
  <2>5. TunnelKept(g) /\ HostKept(g)
    BY DEF TunnelInv
  <2>6. HostKept(g)'
    BY <1>4, <2>4, <2>5 DEF HostKept, tunnelFiles
  <2>7. TunnelKept(g)'
    BY <1>4, <2>3, <2>4, <2>5 DEF TunnelKept, AsRecorded, tunnelFiles
  <2> QED
    BY <2>6, <2>7
<1>9. Unique'
  <2> SUFFICES ASSUME ~raced' PROVE Unique'
    BY DEF Unique
  <2>1. ~raced /\ (kind = "enable" => \A d \in Callers : calls[d].kind # "enable")
    BY <1>1
  <2>2. /\ \A d, e \in Callers : calls[d].kind = "enable" /\ calls[e].kind = "enable" => d = e
        /\ \A d \in Callers : calls[d].kind = "enable" /\ calls[d].at \notin {"enable", "unique", "host"} =>
             \A g \in Benches \ {calls[d].bench} : record[g].tunnel # calls[d].tunnel
        /\ \A g, h \in Benches : g # h => record[g].tunnel = Off \/ record[g].tunnel # record[h].tunnel
    BY <2>1 DEF TunnelInv, Unique
  <2>3. \A d, e \in Callers : calls'[d].kind = "enable" /\ calls'[e].kind = "enable" => d = e
    BY <1>2, <1>3, <2>1, <2>2
  <2>4. \A d \in Callers : calls'[d].kind = "enable" /\ calls'[d].at \notin {"enable", "unique", "host"} =>
           \A g \in Benches \ {calls'[d].bench} : record'[g].tunnel # calls'[d].tunnel
    BY <1>2, <1>3, <1>4, <2>2 DEF tunnelFiles
  <2> QED
    BY <1>4, <2>2, <2>3, <2>4 DEF Unique, tunnelFiles
<1> QED
  BY <1>2, <1>5, <1>6, <1>7, <1>8, <1>9 DEF TunnelInv, Kinds

\* Which calls come to a point.
LEMMA KindAt ==
  ASSUME NEW c \in Callers, CallOK(c), calls[c].at # "idle"
  PROVE  /\ calls[c].at \in {"enable", "unique", "toml", "exists"} => calls[c].kind = "enable"
         /\ calls[c].at = "disable" => calls[c].kind = "disable"
         /\ calls[c].at = "start" => calls[c].kind = "start"
         /\ calls[c].at \in {"proxy", "reset"} => calls[c].kind = calls[c].at
         /\ calls[c].at \in {"up", "run"} => calls[c].kind \in {"enable", "start"}
         /\ calls[c].at \in {"rm", "save"} => calls[c].kind \in {"enable", "disable"}
         /\ calls[c].at = "host" => calls[c].kind \in {"enable", "disable", "proxy", "reset"}
         /\ calls[c].at = "note" => calls[c].kind \in {"disable", "proxy", "reset"}
BY DEF CallOK, PointsOf, Kinds

\* The tunnel asked for, recorded or by default; a server without a profile is
\* refused.
LEMMA TunnelEnableInv ==
  ASSUME TunnelInv, None \notin Servers, NEW c \in Callers, TunnelEnable(c)
  PROVE  TunnelInv'
<1>0. TunnelTypeOK /\ FilesOK /\ CallOK(c) /\ calls[c] \in Calls /\ calls[c].at = "enable"
  BY DEF TunnelInv, TunnelTypeOK, TunnelEnable
<1>1. calls[c].kind = "enable" /\ calls[c].bench \in Benches
  BY <1>0, KindAt DEF CallOK
<1>2. UNCHANGED <<tunnelFiles, raced>>
  BY DEF TunnelEnable
<1>3. CASE Refuses(c)
  BY <1>0, <1>1, <1>2, <1>3, Refusing DEF HostOwner, Owner
<1>4. ASSUME NEW s \in Servers \cup {None}, NEW d \in Benches \cup {None},
             Server(calls[c].bench, s) \in profiles, UNCHANGED tkept,
             LET t == [server |-> Server(calls[c].bench, s), subdomain |-> Subdomain(calls[c].bench, d)]
             IN  calls' = [calls EXCEPT ![c].tunnel = t, ![c].host = Url(t), ![c].at = "unique"]
      PROVE  TunnelInv'
  <2>1. Subdomain(calls[c].bench, d) \in Benches
    <3>1. record[calls[c].bench].tunnel \in Tunnels \cup {Off}
      BY <1>0, <1>1 DEF FilesOK, Records, MaybeTunnel
    <3> QED
      BY <1>1, <3>1 DEF Subdomain, Tunnels
  <2>2. PICK t \in Tunnels : calls' = [calls EXCEPT ![c].tunnel = t, ![c].host = Url(t), ![c].at = "unique"]
    BY <1>0, <1>4, <2>1 DEF FilesOK, Tunnels
  <2>3. Url(t) = t /\ t \in HostNames /\ t \in MaybeTunnel
    BY <2>2, TunnelsAre DEF HostNames, MaybeTunnel
  <2>4. PICK k \in Calls : /\ calls' = [calls EXCEPT ![c] = k] /\ k.at = "unique" /\ k.tunnel = t
                           /\ k.kind = calls[c].kind /\ k.bench = calls[c].bench /\ k.alone = calls[c].alone
    <3> DEFINE r == [[[calls[c] EXCEPT !.tunnel = t] EXCEPT !.host = t] EXCEPT !.at = "unique"]
    <3>1. r \in Calls
      <4>1. "unique" \in Points
        BY DEF Points
      <4> QED
        BY <1>0, <2>3, <4>1, Zenon DEF Calls
    <3>2. r.at = "unique" /\ r.tunnel = t /\ r.kind = calls[c].kind /\ r.bench = calls[c].bench /\ r.alone = calls[c].alone
      BY <1>0 DEF Calls
    <3>3. calls' = [calls EXCEPT ![c] = r]
      BY <1>0, <2>2, <2>3 DEF TunnelTypeOK, Calls
    <3> HIDE DEF r
    <3> QED
      BY <3>1, <3>2, <3>3
  <2>5. calls'[c] = k
    BY <1>0, <2>4 DEF TunnelTypeOK
  <2>6. OnlyAt(c)
    BY <1>0, <1>2, <1>4, <2>4 DEF OnlyAt, TunnelTypeOK, tunnelFiles
  <2>7. Unique'
    BY <1>2, <2>4, <2>5, <2>6, UniqueStays DEF tunnelFiles
  <2>8. CallKnows(k, calls[c].bench)
    BY <1>1, <2>4 DEF CallKnows
  <2>9. k.at \in PointsOf(k.kind)
    BY <1>1, <2>4 DEF PointsOf
  <2>10. k.kind # "start" /\ ~Owner(calls[c], calls[c].bench) /\ ~HostOwner(calls[c], calls[c].bench)
    BY <1>0, <1>1, <2>4 DEF HostOwner, Owner
  <2>11. UNCHANGED <<tunnelFiles, tkept, raced>> /\ calls[c].at # "idle"
    BY <1>0, <1>2, <1>4
  <2>12. k.tunnel \in Tunnels
    BY <2>2, <2>4
  <2> QED
    BY <2>4, <2>7, <2>8, <2>9, <2>10, <2>11, <2>12, JustGoing
<1> QED
  BY <1>3, <1>4 DEF TunnelEnable

\* The look for another bench with the tunnel; from here on the call owns its own.
LEMMA CheckUniqueInv ==
  ASSUME TunnelInv, None \notin Servers, NEW c \in Callers, CheckUnique(c)
  PROVE  TunnelInv'
<1>0. TunnelTypeOK /\ CallOK(c) /\ calls[c].at = "unique"
  BY DEF TunnelInv, CheckUnique
<1>1. calls[c].kind = "enable" /\ calls[c].bench \in Benches /\ calls[c].tunnel \in Tunnels
  BY <1>0, KindAt DEF CallOK
<1>2. UNCHANGED <<tunnelFiles, raced>>
  BY DEF CheckUnique
<1>3. CASE Refuses(c)
  BY <1>0, <1>1, <1>2, <1>3, Refusing DEF HostOwner, Owner
<1>4. CASE ~Taken(calls[c].bench, calls[c].tunnel) /\ Goes(c, "toml") /\ UNCHANGED tkept
  <2>1. "toml" \in Points
    BY DEF Points
  <2>2. PICK k \in Calls : /\ calls' = [calls EXCEPT ![c] = k] /\ k.at = "toml" /\ k.tunnel = calls[c].tunnel
                           /\ k.kind = calls[c].kind /\ k.bench = calls[c].bench /\ k.alone = calls[c].alone
    BY <1>0, <1>4, <2>1, GoesCall
  <2>3. calls'[c] = k
    BY <1>0, <2>2 DEF TunnelTypeOK
  <2>4. OnlyAt(c)
    BY <1>0, <1>2, <1>4, <2>2 DEF OnlyAt, TunnelTypeOK, tunnelFiles
  <2>5. Unique'
    BY <1>1, <1>2, <1>4, <2>2, <2>3, <2>4, UniqueStays, TunnelsAre DEF tunnelFiles
  <2>6. CallKnows(k, calls[c].bench) /\ k.at \in PointsOf(k.kind)
    BY <1>1, <2>2 DEF CallKnows, PointsOf
  <2>7. Owner(k, calls[c].bench)
    BY <1>1, <2>2 DEF Owner
  <2> QED
    BY <1>0, <1>1, <1>2, <1>4, <2>2, <2>5, <2>6, <2>7, JustGoing DEF HostOwner
<1> QED
  BY <1>3, <1>4 DEF CheckUnique

\* A call that owns its bench before and after a step that may change a file of
\* it but no tunnel of a record.
LEMMA OwnerGoes ==
  ASSUME TunnelInv, None \notin Servers, NEW c \in Callers, NEW b \in Benches, b = calls[c].bench,
         calls[c].at # "idle", Owner(calls[c], b),
         NEW k \in Calls, calls' = [calls EXCEPT ![c] = k], Owner(k, b), k.kind = calls[c].kind,
         k.tunnel = calls[c].tunnel, k.alone = calls[c].alone, k.at \in PointsOf(k.kind),
         k.at = "host" \/ calls[c].at # "host",
         k.alone => CallKnows(k, b)', tkept' = tkept, raced' = raced, FilesOK', OthersSame(b),
         \A g \in Benches : record'[g].tunnel \in {record[g].tunnel, Off}
  PROVE  TunnelInv'
<1>0. TunnelTypeOK /\ CallOK(c)
  BY DEF TunnelInv
<1>1. calls'[c] = k /\ OnlyAt(c)
  BY <1>0 DEF OnlyAt, TunnelTypeOK, OthersSame, Owner
<1>2. Unique'
  BY <1>1, UniqueStays DEF Owner
<1>3. k.kind = "enable" /\ k.at # "enable" => k.tunnel \in Tunnels
  BY <1>0 DEF CallOK, Owner
<1>4. k.bench = b
  BY DEF Owner
<1> QED
  BY <1>2, <1>3, <1>4, Going DEF HostOwner

\* frpc.toml names the tunnel, or the call fails.
LEMMA WriteFrpcTomlInv ==
  ASSUME TunnelInv, None \notin Servers, NEW c \in Callers, WriteFrpcToml(c)
  PROVE  TunnelInv'
<1>0. TunnelTypeOK /\ FilesOK /\ CallOK(c) /\ calls[c] \in Calls /\ calls[c].at = "toml"
  BY DEF TunnelInv, TunnelTypeOK, WriteFrpcToml
<1>1. calls[c].kind = "enable" /\ calls[c].tunnel \in Tunnels
  BY <1>0, KindAt DEF CallOK
<1>2. PICK b \in Benches : b = calls[c].bench
  BY <1>0 DEF CallOK
<1>3. UNCHANGED <<profiles, default, record, frpc, hostName, raced>>
  BY DEF WriteFrpcToml
<1>4. CASE frpcToml' = [frpcToml EXCEPT ![b] = calls[c].tunnel] /\ Goes(c, "exists") /\ UNCHANGED <<tkept, trouble>>
  <2>1. "exists" \in Points /\ calls[c].tunnel \in MaybeTunnel
    BY <1>1 DEF Points, MaybeTunnel
  <2>2. PICK k \in Calls : /\ calls' = [calls EXCEPT ![c] = k] /\ k.at = "exists" /\ k.tunnel = calls[c].tunnel
                           /\ k.kind = calls[c].kind /\ k.bench = calls[c].bench /\ k.alone = calls[c].alone
    BY <1>0, <1>4, <2>1, GoesCall
  <2>3. frpcToml'[b] = k.tunnel /\ FilesOK' /\ OthersSame(b)
    BY <1>0, <1>3, <1>4, <2>1, <2>2 DEF FilesOK, OthersSame
  <2>4. CallKnows(k, b)' /\ k.at \in PointsOf(k.kind)
    BY <1>1, <2>2, <2>3 DEF CallKnows, PointsOf
  <2>5. Owner(calls[c], b) /\ Owner(k, b)
    BY <1>0, <1>1, <1>2, <2>2 DEF Owner
  <2> QED
    BY <1>0, <1>2, <1>3, <1>4, <2>2, <2>3, <2>4, <2>5, OwnerGoes
<1>5. CASE Fails(c) /\ frpcToml' = [frpcToml EXCEPT ![b] = Off]
  <2>1. FilesOK' /\ OthersSame(b)
    BY <1>0, <1>3, <1>5 DEF FilesOK, OthersSame, MaybeTunnel
  <2> QED
    BY <1>0, <1>2, <1>3, <1>5, <2>1, Failing
<1> QED
  BY <1>2, <1>4, <1>5 DEF WriteFrpcToml

\* docker inspect: an existing container will be removed, a missing one or one
\* that was not seen brought up.
LEMMA ExistsInv ==
  ASSUME TunnelInv, None \notin Servers, NEW c \in Callers, FrpcExists(c)
  PROVE  TunnelInv'
<1>0. TunnelTypeOK /\ FilesOK /\ CallOK(c) /\ calls[c] \in Calls /\ calls[c].at = "exists"
  BY DEF TunnelInv, TunnelTypeOK, FrpcExists
<1>1. calls[c].kind = "enable"
  BY <1>0, KindAt
<1>2. PICK b \in Benches : b = calls[c].bench
  BY <1>0 DEF CallOK
<1>3. PICK pt \in {"rm", "up"} : pt = ExistsGoes(frpc[b].status)
  BY DEF ExistsGoes
<1>4. PICK k \in Calls : /\ calls' = [calls EXCEPT ![c] = k] /\ k.at \in {"rm", "up"}
                         /\ k.at = "up" /\ ~k.blind => frpc[b].status = ""
                         /\ k.tunnel = calls[c].tunnel
                         /\ k.kind = calls[c].kind /\ k.bench = calls[c].bench /\ k.alone = calls[c].alone
  <2>1. {"rm", "up"} \subseteq Points
    BY DEF Points
  <2>2. CASE Goes(c, pt)
    <3>1. pt = "up" => frpc[b].status = ""
      BY <1>3 DEF ExistsGoes
    <3>2. PICK k \in Calls : /\ calls' = [calls EXCEPT ![c] = k] /\ k.at = pt /\ k.tunnel = calls[c].tunnel
                             /\ k.kind = calls[c].kind /\ k.bench = calls[c].bench /\ k.alone = calls[c].alone
      BY <1>0, <2>1, <2>2, GoesCall
    <3> QED
      BY <3>1, <3>2
  <2>3. CASE GoesBlind(c, "up")
    <3>1. "up" \in Points
      BY <2>1
    <3>2. PICK k \in Calls : /\ calls' = [calls EXCEPT ![c] = k] /\ k.at = "up" /\ k.blind
                             /\ k.tunnel = calls[c].tunnel
                             /\ k.kind = calls[c].kind /\ k.bench = calls[c].bench /\ k.alone = calls[c].alone
      BY <1>0, <2>3, <3>1, GoesBlindCall
    <3> QED
      BY <3>2
  <2> QED
    BY <1>2, <1>3, <2>2, <2>3 DEF FrpcExists, ExistsGoes
<1>6. UNCHANGED <<tunnelFiles, tkept, raced>>
  BY DEF FrpcExists
<1>7. FilesOK' /\ OthersSame(b)
  BY <1>0, <1>6 DEF FilesOK, OthersSame, tunnelFiles
<1>8. k.alone => CallKnows(k, b)'
  <2>1. calls[c].alone => frpcToml[b] = calls[c].tunnel
    BY <1>0, <1>1, <1>2 DEF CallOK, CallKnows
  <2> QED
    BY <1>1, <1>4, <1>6, <2>1 DEF CallKnows, tunnelFiles
<1>9. k.at \in PointsOf(k.kind) /\ Owner(calls[c], b) /\ Owner(k, b)
  BY <1>0, <1>1, <1>2, <1>4 DEF PointsOf, Owner
<1> QED
  BY <1>0, <1>2, <1>4, <1>6, <1>7, <1>8, <1>9, OwnerGoes DEF tunnelFiles

\* docker rm -f: the container goes, or the call fails or, when it disables a
\* tunnel, warns; a container that was not seen stays.
LEMMA RemoveFrpcInv ==
  ASSUME TunnelInv, None \notin Servers, NEW c \in Callers, RemoveFrpc(c)
  PROVE  TunnelInv'
<1>0. TunnelTypeOK /\ FilesOK /\ CallOK(c) /\ calls[c] \in Calls /\ calls[c].at = "rm"
  BY DEF TunnelInv, TunnelTypeOK, RemoveFrpc
<1>1. calls[c].kind \in {"enable", "disable"}
  BY <1>0, KindAt
<1>2. PICK b \in Benches : b = calls[c].bench
  BY <1>0 DEF CallOK
<1>3. UNCHANGED <<profiles, default, record, frpcToml, hostName, raced>>
  BY DEF RemoveFrpc
<1>4. CASE /\ frpc' = [frpc EXCEPT ![b] = NoContainer]
           /\ Goes(c, AfterStop(c)) /\ UNCHANGED tkept
  <2>1. PICK pt \in {"run", "save"} : pt = AfterStop(c) /\ pt = IF calls[c].kind = "enable" THEN "run" ELSE "save"
    BY DEF AfterStop
  <2>2. pt \in Points /\ Goes(c, pt)
    BY <1>4, <2>1 DEF Points
  <2>3. PICK k \in Calls : /\ calls' = [calls EXCEPT ![c] = k] /\ k.at = pt /\ k.tunnel = calls[c].tunnel
                           /\ k.kind = calls[c].kind /\ k.bench = calls[c].bench /\ k.alone = calls[c].alone
    BY <1>0, <2>2, GoesCall
  <2>4. frpc'[b] = NoContainer /\ FilesOK' /\ OthersSame(b)
    BY <1>0, <1>3, <1>4, TunnelsAre DEF FilesOK, OthersSame
  <2>5. calls[c].alone /\ calls[c].kind = "enable" => frpcToml[b] = calls[c].tunnel
    BY <1>0, <1>2 DEF CallOK, CallKnows
  <2>6. k.alone => CallKnows(k, b)'
    BY <1>1, <1>3, <2>1, <2>3, <2>4, <2>5 DEF CallKnows
  <2>7. k.at \in PointsOf(k.kind) /\ Owner(calls[c], b) /\ Owner(k, b)
    BY <1>0, <1>1, <1>2, <2>1, <2>3 DEF PointsOf, Owner
  <2> QED
    BY <1>0, <1>2, <1>3, <1>4, <2>1, <2>3, <2>4, <2>6, <2>7, OwnerGoes
<1>5. CASE UNCHANGED frpc /\ Fails(c)
  <2>1. FilesOK' /\ OthersSame(b)
    BY <1>0, <1>3, <1>5 DEF FilesOK, OthersSame
  <2> QED
    BY <1>0, <1>2, <1>3, <1>5, <2>1, Failing
<1>6. CASE /\ calls[c].kind # "enable" /\ UNCHANGED <<frpc, tkept>>
           /\ calls' = [calls EXCEPT ![c].at = "save", ![c].warned = TRUE]
  <2>1. PICK k \in Calls : /\ calls' = [calls EXCEPT ![c] = k] /\ k.at = "save" /\ k.warned
                           /\ k.tunnel = calls[c].tunnel
                           /\ k.kind = calls[c].kind /\ k.bench = calls[c].bench /\ k.alone = calls[c].alone
    <3> DEFINE r == [[calls[c] EXCEPT !.at = "save"] EXCEPT !.warned = TRUE]
    <3>1. r \in Calls
      <4>1. "save" \in Points
        BY DEF Points
      <4> QED
        BY <1>0, <4>1, Zenon DEF Calls
    <3>2. /\ r.at = "save" /\ r.warned /\ r.tunnel = calls[c].tunnel /\ r.kind = calls[c].kind
          /\ r.bench = calls[c].bench /\ r.alone = calls[c].alone
      BY <1>0 DEF Calls
    <3>3. calls' = [calls EXCEPT ![c] = r]
      BY <1>0, <1>6 DEF TunnelTypeOK, Calls
    <3> HIDE DEF r
    <3> QED
      BY <3>1, <3>2, <3>3
  <2>2. FilesOK' /\ OthersSame(b)
    BY <1>0, <1>3, <1>6 DEF FilesOK, OthersSame
  <2>3. CallKnows(k, b)'
    BY <1>1, <1>6, <2>1 DEF CallKnows
  <2>4. k.at \in PointsOf(k.kind) /\ Owner(calls[c], b) /\ Owner(k, b)
    BY <1>0, <1>1, <1>2, <1>6, <2>1 DEF PointsOf, Owner
  <2> QED
    BY <1>0, <1>2, <1>3, <1>6, <2>1, <2>2, <2>3, <2>4, OwnerGoes
<1>7. CASE GoesBlind(c, AfterStop(c)) /\ UNCHANGED <<frpc, tkept>>
  <2>1. PICK pt \in {"run", "save"} : pt = AfterStop(c) /\ pt = IF calls[c].kind = "enable" THEN "run" ELSE "save"
    BY DEF AfterStop
  <2>2. pt \in Points /\ GoesBlind(c, pt)
    BY <1>7, <2>1 DEF Points
  <2>3. PICK k \in Calls : /\ calls' = [calls EXCEPT ![c] = k] /\ k.at = pt /\ k.blind /\ k.tunnel = calls[c].tunnel
                           /\ k.kind = calls[c].kind /\ k.bench = calls[c].bench /\ k.alone = calls[c].alone
    BY <1>0, <2>2, GoesBlindCall
  <2>4. FilesOK' /\ OthersSame(b)
    BY <1>0, <1>3, <1>7 DEF FilesOK, OthersSame
  <2>5. calls[c].alone /\ calls[c].kind = "enable" => frpcToml[b] = calls[c].tunnel
    BY <1>0, <1>2 DEF CallOK, CallKnows
  <2>6. k.alone => CallKnows(k, b)'
    BY <1>1, <1>3, <2>1, <2>3, <2>5 DEF CallKnows
  <2>7. k.at \in PointsOf(k.kind) /\ Owner(calls[c], b) /\ Owner(k, b)
    BY <1>0, <1>1, <1>2, <2>1, <2>3 DEF PointsOf, Owner
  <2> QED
    BY <1>0, <1>2, <1>3, <1>7, <2>3, <2>4, <2>6, <2>7, OwnerGoes
<1> QED
  BY <1>1, <1>2, <1>4, <1>5, <1>6, <1>7 DEF RemoveFrpc

\* docker run for a call: the container reads the file, or there is none.
LEMMA RunFrpcInv ==
  ASSUME TunnelInv, None \notin Servers, NEW c \in Callers, RunFrpc(c)
  PROVE  TunnelInv'
<1>0. TunnelTypeOK /\ FilesOK /\ CallOK(c) /\ calls[c] \in Calls /\ calls[c].at = "run"
  BY DEF TunnelInv, TunnelTypeOK, RunFrpc
<1>1. calls[c].kind \in {"enable", "start"}
  BY <1>0, KindAt
<1>2. PICK b \in Benches : b = calls[c].bench
  BY <1>0 DEF CallOK
<1>3. UNCHANGED <<profiles, default, record, frpcToml, hostName, raced>>
  BY DEF RunFrpc
<1>4. Loaded(b) \in Containers /\ NoContainer \in Containers
  BY <1>0, TunnelsAre DEF Loaded, Containers, FilesOK
<1>5. CASE frpc[b] = NoContainer /\ frpc' = [frpc EXCEPT ![b] = Loaded(b)] /\ AfterUp(c)
  <2>1. FilesOK' /\ OthersSame(b) /\ frpc'[b] = Loaded(b)
    BY <1>0, <1>3, <1>4, <1>5 DEF FilesOK, OthersSame
  <2>2. CASE calls[c].kind = "enable"
    <3>1. Goes(c, "save") /\ tkept' = tkept /\ "save" \in Points
      BY <1>5, <2>2 DEF AfterUp, Points
    <3>2. PICK k \in Calls : /\ calls' = [calls EXCEPT ![c] = k] /\ k.at = "save" /\ k.tunnel = calls[c].tunnel
                             /\ k.kind = calls[c].kind /\ k.bench = calls[c].bench /\ k.alone = calls[c].alone
      BY <1>0, <3>1, GoesCall
    <3>3. calls[c].alone => frpcToml[b] = calls[c].tunnel
      BY <1>0, <1>2, <2>2 DEF CallOK, CallKnows
    <3>4. k.alone => CallKnows(k, b)'
      BY <2>1, <2>2, <3>2, <3>3 DEF CallKnows, Loaded
    <3>5. k.at \in PointsOf(k.kind) /\ Owner(calls[c], b) /\ Owner(k, b)
      BY <1>0, <1>2, <2>2, <3>2 DEF PointsOf, Owner
    <3> QED
      BY <1>0, <1>2, <1>3, <2>1, <3>1, <3>2, <3>4, <3>5, OwnerGoes
  <2>3. CASE calls[c].kind = "start"
    <3>1. Ends(c, tkept[b].tunnel, tkept[b].host)
      BY <1>2, <1>5, <2>3 DEF AfterUp, Refuses
    <3>2. tkept[b].tunnel \in BOOLEAN /\ tkept[b].host \in BOOLEAN
      BY <1>0 DEF TunnelTypeOK, Promises
    <3>3. Starting(b, "run") /\ TunnelKept(b)
      BY <1>0, <1>2, <2>3 DEF Starting, TunnelInv
    <3>4. ~Owner(calls[c], b) /\ ~HostOwner(calls[c], b)
      BY <2>3 DEF Owner, HostOwner
    <3>5. tkept[b].tunnel => \E d \in Callers \ {c} : Owner(calls[d], b)
      <4>1. frpc[b] = NoContainer /\ NoContainer.status = ""
        BY <1>5, Zenon DEF NoContainer
      <4>2. frpc[b].status # "running"
        BY <4>1
      <4>3. record[b].tunnel # Off => ~AsRecorded(b)
        BY <4>2 DEF AsRecorded
      <4> QED
        BY <3>3, <3>4, <4>3 DEF TunnelKept, Owned
    <3> QED
      BY <1>0, <1>2, <1>3, <2>1, <3>1, <3>2, <3>4, <3>5, Ending
  <2> QED
    BY <1>1, <2>2, <2>3
<1>6. CASE UpFails(c) /\ frpc' = frpc
  <2>1. FilesOK' /\ OthersSame(b)
    BY <1>0, <1>3, <1>6 DEF FilesOK, OthersSame
  <2>2. CASE calls[c].kind = "enable"
    BY <1>0, <1>2, <1>3, <1>6, <2>1, <2>2, Failing DEF UpFails
  <2>3. CASE calls[c].kind = "start"
    <3>1. ~HostOwner(calls[c], calls[c].bench)
      BY <2>3 DEF Owner, HostOwner
    <3>2. Refuses(c) /\ UNCHANGED <<tunnelFiles, raced>>
      BY <1>3, <1>6, <2>3 DEF UpFails, tunnelFiles
    <3> QED
      BY <1>0, <3>1, <3>2, Refusing
  <2> QED
    BY <1>1, <2>2, <2>3
<1>7. CASE Fails(c) /\ frpc' \in {frpc, [frpc EXCEPT ![b].status = "created"]}
  <2>1. frpc' \in [Benches -> Containers] /\ \A g \in Benches \ {b} : frpc'[g] = frpc[g]
    BY <1>0, <1>7 DEF FilesOK, Containers
  <2>2. FilesOK' /\ OthersSame(b)
    BY <1>0, <1>3, <2>1 DEF FilesOK, OthersSame
  <2> QED
    BY <1>0, <1>2, <1>3, <1>7, <2>2, Failing
<1> QED
  BY <1>2, <1>5, <1>6, <1>7 DEF RunFrpc

\* docker start for a call: nothing for a container that runs, a new one where
\* there is none, or none was seen.  Whoever starts a bench finds a container that is neither only
\* where no promise was made.
LEMMA StartFrpcInv ==
  ASSUME TunnelInv, None \notin Servers, NEW c \in Callers, StartFrpc(c)
  PROVE  TunnelInv'
<1>0. TunnelTypeOK /\ FilesOK /\ CallOK(c) /\ calls[c] \in Calls /\ calls[c].at = "up"
  BY DEF TunnelInv, TunnelTypeOK, StartFrpc
<1>1. calls[c].kind \in {"enable", "start"}
  BY <1>0, KindAt
<1>2. PICK b \in Benches : b = calls[c].bench
  BY <1>0 DEF CallOK
<1>3. UNCHANGED <<profiles, default, record, frpcToml, hostName, raced>>
  BY DEF StartFrpc
<1>4. Loaded(b) \in Containers
  BY <1>0 DEF Loaded, Containers, FilesOK
<1>5. calls[c].kind = "enable" /\ calls[c].alone =>
        frpcToml[b] = calls[c].tunnel /\ (calls[c].blind \/ frpc[b].status = "")
  BY <1>0, <1>2 DEF CallOK, CallKnows
<1>6. ~(calls[c].kind = "start") \/ (~Owner(calls[c], b) /\ ~HostOwner(calls[c], b))
  BY DEF Owner, HostOwner
<1>7. calls[c].kind = "start" /\ frpc[b].status # "running" /\ tkept[b].tunnel =>
        \E d \in Callers \ {c} : Owner(calls[d], b)
  <2> SUFFICES ASSUME calls[c].kind = "start", frpc[b].status # "running", tkept[b].tunnel
               PROVE  \E d \in Callers \ {c} : Owner(calls[d], b)
    OBVIOUS
  <2>1. Starting(b, "up") /\ TunnelKept(b)
    BY <1>0, <1>2 DEF Starting, TunnelInv
  <2>2. Owned(b)
    BY <2>1 DEF TunnelKept, AsRecorded
  <2> QED
    BY <1>6, <2>2 DEF Owned
<1>8. ASSUME frpc[b].status # "", AfterUp(c), frpc' \in [Benches -> Containers],
             \A g \in Benches \ {b} : frpc'[g] = frpc[g], frpc[b].status # "running" \/ frpc' = frpc
      PROVE  TunnelInv'
  <2>1. FilesOK' /\ OthersSame(b)
    BY <1>0, <1>3, <1>8 DEF FilesOK, OthersSame
  <2>2. CASE calls[c].kind = "enable"
    <3>1. Goes(c, "save") /\ tkept' = tkept /\ "save" \in Points
      BY <1>8, <2>2 DEF AfterUp, Points
    <3>2. PICK k \in Calls : /\ calls' = [calls EXCEPT ![c] = k] /\ k.at = "save" /\ k.tunnel = calls[c].tunnel
                             /\ k.kind = calls[c].kind /\ k.bench = calls[c].bench /\ k.alone = calls[c].alone
                             /\ k.blind = calls[c].blind
      BY <1>0, <3>1, GoesCall
    <3>3. k.alone => CallKnows(k, b)'
      BY <1>5, <1>8, <2>2, <3>2 DEF CallKnows
    <3>5. k.at \in PointsOf(k.kind) /\ Owner(calls[c], b) /\ Owner(k, b)
      BY <1>0, <1>2, <2>2, <3>2 DEF PointsOf, Owner
    <3> QED
      BY <1>0, <1>2, <1>3, <2>1, <3>1, <3>2, <3>3, <3>5, OwnerGoes
  <2>3. CASE calls[c].kind = "start"
    <3>1. Ends(c, tkept[b].tunnel, tkept[b].host)
      BY <1>2, <1>8, <2>3 DEF AfterUp, Refuses
    <3>2. tkept[b].tunnel \in BOOLEAN /\ tkept[b].host \in BOOLEAN
      BY <1>0 DEF TunnelTypeOK, Promises
    <3>3. tkept[b].tunnel => frpc' = frpc \/ \E d \in Callers \ {c} : Owner(calls[d], b)
      BY <1>7, <1>8, <2>3
    <3>4. ~Owner(calls[c], b) /\ ~HostOwner(calls[c], b)
      BY <1>6, <2>3
    <3> QED
      BY <1>0, <1>2, <1>3, <2>1, <3>1, <3>2, <3>3, <3>4, Ending
  <2> QED
    BY <1>1, <2>2, <2>3
<1>9. CASE frpc[b].status = "running" /\ AfterUp(c) /\ frpc' = frpc
  BY <1>0, <1>8, <1>9 DEF FilesOK
<1>10. CASE frpc[b].status \notin {"", "running"} /\ frpc' = [frpc EXCEPT ![b] = Loaded(b)] /\ AfterUp(c)
  <2>1. frpc' \in [Benches -> Containers] /\ \A g \in Benches \ {b} : frpc'[g] = frpc[g]
    BY <1>0, <1>4, <1>10 DEF FilesOK
  <2> QED
    BY <1>8, <1>10, <2>1
<1>11. CASE Fails(c) /\ frpc' = frpc
  <2>1. FilesOK' /\ OthersSame(b)
    BY <1>0, <1>3, <1>11 DEF FilesOK, OthersSame
  <2> QED
    BY <1>0, <1>2, <1>3, <1>11, <2>1, Failing
<1>12. CASE Goes(c, "run") /\ UNCHANGED <<frpc, tkept>>
  <2>1. TunnelTypeOK /\ "run" \in Points /\ Goes(c, "run")
    BY <1>0, <1>12 DEF Points
  <2>2. PICK k \in Calls : /\ calls' = [calls EXCEPT ![c] = k] /\ k.at = "run" /\ k.tunnel = calls[c].tunnel
                           /\ k.kind = calls[c].kind /\ k.bench = calls[c].bench /\ k.alone = calls[c].alone
    BY <2>1, GoesCall
  <2>3. FilesOK' /\ OthersSame(b) /\ k.at \in PointsOf(k.kind)
    BY <1>0, <1>1, <1>3, <1>12, <2>2 DEF FilesOK, OthersSame, PointsOf
  <2>4. k.alone => CallKnows(k, b)'
    BY <1>1, <1>3, <1>5, <2>2 DEF CallKnows
  <2>5. CASE calls[c].kind = "enable"
    <3>1. Owner(calls[c], b) /\ Owner(k, b)
      BY <1>0, <1>2, <2>2, <2>5 DEF Owner
    <3> QED
      BY <1>0, <1>2, <1>3, <1>12, <2>2, <2>3, <2>4, <3>1, OwnerGoes
  <2>6. CASE calls[c].kind = "start"
    <3>1. calls'[c] = k /\ OnlyAt(c)
      BY <1>0, <1>2, <1>12, <2>2, <2>3 DEF TunnelTypeOK, OnlyAt, OthersSame
    <3>2. Starting(b, "up")
      BY <1>0, <1>2, <2>6 DEF Starting
    <3>3. TunnelKept(b)'
      BY <1>3, <1>6, <1>12, <2>6, <3>1, <3>2, TunnelStays
    <3>4. HostKept(b)'
      BY <1>3, <1>6, <1>12, <2>6, <3>1, HostStays
    <3>5. k.kind = "start" /\ calls'[c].kind = "start"
      BY <2>2, <2>6, <3>1
    <3>6. Unique'
      BY <1>3, <2>2, <3>1, <3>5, UniqueStays
    <3> QED
      BY <1>0, <1>2, <1>3, <1>12, <2>2, <2>3, <2>4, <3>3, <3>4, <3>5, <3>6, Going
  <2> QED
    BY <1>1, <2>5, <2>6
<1> QED
  BY <1>2, <1>9, <1>10, <1>11, <1>12 DEF StartFrpc

\* Starting a bench brings its recorded tunnel up, if it has one.
LEMMA StartBenchInv ==
  ASSUME TunnelInv, None \notin Servers, NEW c \in Callers, StartBench(c)
  PROVE  TunnelInv'
<1>0. TunnelTypeOK /\ CallOK(c) /\ calls[c].at = "start" /\ UNCHANGED <<tunnelFiles, raced>>
  BY DEF TunnelInv, StartBench
<1>1. calls[c].kind = "start"
  BY <1>0, KindAt
<1>2. ~Owner(calls[c], calls[c].bench) /\ ~HostOwner(calls[c], calls[c].bench)
  BY <1>1 DEF Owner, HostOwner
<1>3. CASE Refuses(c)
  BY <1>0, <1>2, <1>3, Refusing
<1>4. CASE record[calls[c].bench].tunnel # Off /\ Goes(c, "up") /\ UNCHANGED tkept
  <2>1. TunnelTypeOK /\ "up" \in Points /\ Goes(c, "up")
    BY <1>0, <1>4 DEF Points
  <2>2. PICK k \in Calls : /\ calls' = [calls EXCEPT ![c] = k] /\ k.at = "up" /\ k.tunnel = calls[c].tunnel
                           /\ k.kind = calls[c].kind /\ k.bench = calls[c].bench /\ k.alone = calls[c].alone
    BY <2>1, GoesCall
  <2>3. calls'[c] = k /\ OnlyAt(c)
    BY <1>0, <1>4, <2>2 DEF TunnelTypeOK, OnlyAt, tunnelFiles
  <2>4. Unique'
    BY <1>0, <1>1, <2>2, <2>3, UniqueStays DEF tunnelFiles
  <2>5. CallKnows(k, calls[c].bench) /\ k.at \in PointsOf(k.kind)
    BY <1>1, <2>2 DEF CallKnows, PointsOf
  <2> QED
    BY <1>0, <1>1, <1>2, <1>4, <2>2, <2>4, <2>5, JustGoing
<1> QED
  BY <1>3, <1>4 DEF StartBench

\* Disabling a tunnel that is recorded.
LEMMA TunnelDisableInv ==
  ASSUME TunnelInv, None \notin Servers, NEW c \in Callers, TunnelDisable(c)
  PROVE  TunnelInv'
<1>0. TunnelTypeOK /\ CallOK(c) /\ calls[c].at = "disable" /\ UNCHANGED <<tunnelFiles, raced>>
  BY DEF TunnelInv, TunnelDisable
<1>1. calls[c].kind = "disable"
  BY <1>0, KindAt
<1>2. CASE Refuses(c)
  <2>1. ~HostOwner(calls[c], calls[c].bench)
    BY <1>0, <1>1 DEF Owner, HostOwner
  <2> QED
    BY <1>0, <1>2, <2>1, Refusing
<1>3. CASE Goes(c, "rm") /\ UNCHANGED tkept
  <2>1. TunnelTypeOK /\ "rm" \in Points /\ Goes(c, "rm")
    BY <1>0, <1>3 DEF Points
  <2>2. PICK k \in Calls : /\ calls' = [calls EXCEPT ![c] = k] /\ k.at = "rm" /\ k.tunnel = calls[c].tunnel
                           /\ k.kind = calls[c].kind /\ k.bench = calls[c].bench /\ k.alone = calls[c].alone
    BY <2>1, GoesCall
  <2>3. calls'[c] = k /\ OnlyAt(c)
    BY <1>0, <1>3, <2>2 DEF TunnelTypeOK, OnlyAt, tunnelFiles
  <2>4. Unique'
    BY <1>0, <1>1, <2>2, <2>3, UniqueStays DEF tunnelFiles
  <2>5. CallKnows(k, calls[c].bench) /\ k.at \in PointsOf(k.kind) /\ Owner(k, calls[c].bench)
    BY <1>1, <2>2 DEF CallKnows, PointsOf, Owner
  <2> QED
    BY <1>0, <1>1, <1>3, <2>2, <2>4, <2>5, JustGoing DEF HostOwner
<1> QED
  BY <1>2, <1>3 DEF TunnelDisable

\* The record of a tunnel that is up, or of none.  Only one call at a time gets
\* here to record one, unless two raced, and no other bench has it.
LEMMA SaveInv ==
  ASSUME TunnelInv, None \notin Servers, NEW c \in Callers, Save(c)
  PROVE  TunnelInv'
<1>0. TunnelTypeOK /\ FilesOK /\ CallOK(c) /\ calls[c] \in Calls /\ calls[c].at = "save"
  BY DEF TunnelInv, TunnelTypeOK, Save
<1>1. calls[c].kind \in {"enable", "disable"}
  BY <1>0, KindAt
<1>2. PICK b \in Benches : b = calls[c].bench
  BY <1>0 DEF CallOK
<1>3. UNCHANGED <<profiles, default, frpcToml, frpc, hostName, raced>>
  BY DEF Save
<1>4. CASE Fails(c) /\ UNCHANGED record
  <2>1. FilesOK' /\ OthersSame(b)
    BY <1>0, <1>3, <1>4 DEF FilesOK, OthersSame
  <2> QED
    BY <1>0, <1>2, <1>3, <1>4, <2>1, Failing
<1>5. CASE record' = [record EXCEPT ![b] = Saved(calls[c])] /\ Goes(c, "host") /\ UNCHANGED tkept
  <2>1. TunnelTypeOK /\ "host" \in Points /\ Goes(c, "host")
    BY <1>0, <1>5 DEF Points
  <2>2. PICK k \in Calls : /\ calls' = [calls EXCEPT ![c] = k] /\ k.at = "host" /\ k.tunnel = calls[c].tunnel
                           /\ k.kind = calls[c].kind /\ k.bench = calls[c].bench /\ k.alone = calls[c].alone
                           /\ k.host = calls[c].host /\ k.warned = calls[c].warned /\ k.blind = calls[c].blind
    BY <2>1, GoesCall
  <2>3. calls'[c] = k
    BY <1>0, <2>2 DEF TunnelTypeOK
  <2>4. k.at \in PointsOf(k.kind) /\ Owner(calls[c], b) /\ Owner(k, b)
    BY <1>0, <1>1, <1>2, <2>2 DEF PointsOf, Owner
  <2>5. CASE calls[c].kind = "enable"
    <3>1. Saved(calls[c]) = [tunnel |-> k.tunnel, proxyHost |-> k.host]
      BY <2>2, <2>5 DEF Saved
    <3>2. [tunnel |-> k.tunnel, proxyHost |-> k.host] \in Records /\ k.tunnel \in Tunnels
      BY <1>0, <2>2, <2>5 DEF Calls, Records, CallOK
    <3>3. /\ record' \in [Benches -> Records] /\ record'[b] = [tunnel |-> k.tunnel, proxyHost |-> k.host]
          /\ \A g \in Benches \ {b} : record'[g] = record[g]
      BY <1>0, <1>5, <3>1, <3>2 DEF FilesOK
    <3>4. FilesOK' /\ OthersSame(b)
      BY <1>0, <1>3, <3>3 DEF FilesOK, OthersSame
    <3>5. calls[c].alone /\ ~calls[c].blind => frpc[b] = [status |-> "running", loaded |-> k.tunnel]
      BY <1>0, <1>2, <2>2, <2>5 DEF CallOK, CallKnows
    <3>6. k.alone => CallKnows(k, b)'
      BY <1>3, <2>2, <2>5, <3>3, <3>5 DEF CallKnows
    <3>7. Unique'
      <4> SUFFICES ASSUME ~raced
                   PROVE  Unique'
        BY <1>3 DEF Unique
      <4>1. /\ \A d, e \in Callers : calls[d].kind = "enable" /\ calls[e].kind = "enable" => d = e
            /\ \A g \in Benches \ {b} : record[g].tunnel # k.tunnel
            /\ \A g, h \in Benches : g # h => record[g].tunnel = Off \/ record[g].tunnel # record[h].tunnel
        BY <1>0, <1>2, <2>2, <2>5 DEF TunnelInv, Unique
      <4>2. \A d \in Callers : calls'[d].kind = "enable" => d = c
        BY <1>0, <2>2, <2>5, <4>1 DEF TunnelTypeOK
      <4>3. record'[b].tunnel = k.tunnel
        BY <3>3
      <4>4. \A g, h \in Benches : g # h => record'[g].tunnel = Off \/ record'[g].tunnel # record'[h].tunnel
        BY <3>3, <4>1, <4>3
      <4> QED
        BY <2>2, <2>3, <4>2, <4>4 DEF Unique
    <3> QED
      BY <1>0, <1>2, <1>3, <1>5, <2>2, <2>4, <3>2, <3>4, <3>6, <3>7, Going DEF HostOwner
  <2>6. CASE calls[c].kind = "disable"
    <3>1. Saved(calls[c]) = [tunnel |-> Off, proxyHost |-> Direct]
      BY <2>6 DEF Saved
    <3>2. [tunnel |-> Off, proxyHost |-> Direct] \in Records
      BY TunnelsAre DEF Records, MaybeTunnel
    <3>3. /\ record' \in [Benches -> Records] /\ record'[b] = [tunnel |-> Off, proxyHost |-> Direct]
          /\ \A g \in Benches \ {b} : record'[g] = record[g]
      BY <1>0, <1>5, <3>1, <3>2 DEF FilesOK
    <3>4. FilesOK' /\ OthersSame(b) /\ \A g \in Benches : record'[g].tunnel \in {record[g].tunnel, Off}
      BY <1>0, <1>3, <3>3 DEF FilesOK, OthersSame
    <3>5. calls[c].alone /\ ~calls[c].warned /\ ~calls[c].blind => frpc[b] = NoContainer
      BY <1>0, <1>2, <2>6 DEF CallOK, CallKnows
    <3>6. k.alone => CallKnows(k, b)'
      BY <1>3, <2>2, <2>6, <3>3, <3>5 DEF CallKnows
    <3> QED
      BY <1>0, <1>2, <1>3, <1>5, <2>2, <2>4, <3>4, <3>6, OwnerGoes
  <2> QED
    BY <1>1, <2>5, <2>6
<1> QED
  BY <1>2, <1>4, <1>5 DEF Save

\* set-proxy chooses its host.
LEMMA SetProxyInv ==
  ASSUME TunnelInv, None \notin Servers, NEW c \in Callers, SetProxy(c)
  PROVE  TunnelInv'
<1>0. TunnelTypeOK /\ CallOK(c) /\ calls[c] \in Calls /\ calls[c].at \in {"proxy", "reset"} /\ UNCHANGED <<tunnelFiles, tkept, raced>>
  BY DEF TunnelInv, TunnelTypeOK, SetProxy
<1>1. calls[c].kind \in {"proxy", "reset"}
  BY <1>0, KindAt
<1>2. PICK h \in HostNames : calls' = [calls EXCEPT ![c].host = h, ![c].at = "host"]
  BY DEF SetProxy, HostNames, Direct
<1>3. PICK k \in Calls : /\ calls' = [calls EXCEPT ![c] = k] /\ k.at = "host" /\ k.tunnel = calls[c].tunnel
                         /\ k.kind = calls[c].kind /\ k.bench = calls[c].bench /\ k.alone = calls[c].alone
  <2> DEFINE r == [[calls[c] EXCEPT !.host = h] EXCEPT !.at = "host"]
  <2>1. r \in Calls
    <3>1. "host" \in Points
      BY DEF Points
    <3> QED
      BY <1>0, <1>2, <3>1, Zenon DEF Calls
  <2>2. /\ r.at = "host" /\ r.tunnel = calls[c].tunnel /\ r.kind = calls[c].kind
        /\ r.bench = calls[c].bench /\ r.alone = calls[c].alone
    BY <1>0 DEF Calls
  <2>3. calls' = [calls EXCEPT ![c] = r]
    BY <1>0, <1>2 DEF TunnelTypeOK, Calls
  <2> HIDE DEF r
  <2> QED
    BY <2>1, <2>2, <2>3
<1>4. calls'[c] = k /\ OnlyAt(c)
  BY <1>0, <1>3 DEF TunnelTypeOK, OnlyAt, tunnelFiles
<1>5. Unique'
  BY <1>0, <1>1, <1>3, <1>4, UniqueStays DEF tunnelFiles
<1>6. /\ CallKnows(k, calls[c].bench) /\ k.at \in PointsOf(k.kind) /\ HostOwner(k, calls[c].bench)
      /\ ~Owner(calls[c], calls[c].bench)
  BY <1>1, <1>3 DEF CallKnows, PointsOf, Owner, HostOwner
<1> QED
  BY <1>0, <1>1, <1>3, <1>5, <1>6, JustGoing

\* The end of a call whose last command failed: of the host name nothing is
\* said, of the tunnel what was said before unless the call changed it.
LEMMA HostFails ==
  ASSUME TunnelInv, None \notin Servers, NEW c \in Callers, calls[c].at \in {"host", "note"},
         Ends(c, tkept[calls[c].bench].tunnel /\ ~Warns(c), FALSE), UNCHANGED <<tunnelFiles, raced>>
  PROVE  TunnelInv'
<1>0. TunnelTypeOK /\ FilesOK /\ CallOK(c)
  BY DEF TunnelInv, TunnelTypeOK
<1>1. PICK b \in Benches : b = calls[c].bench
  BY <1>0 DEF CallOK
<1>2. PICK t \in BOOLEAN : t = (tkept[b].tunnel /\ ~Warns(c))
  OBVIOUS
<1>3. Ends(c, t, FALSE)
  BY <1>1, <1>2
<1>4. t => tkept[b].tunnel /\ ~Owner(calls[c], b)
  BY <1>2 DEF Warns, Owner
<1>5. FilesOK' /\ OthersSame(b)
  BY <1>0 DEF FilesOK, OthersSame, tunnelFiles
<1> QED
  BY <1>1, <1>3, <1>4, <1>5, Ending DEF tunnelFiles

\* The site's host name: the last command of a call that enables a tunnel.
LEMMA SetHostNameInv ==
  ASSUME TunnelInv, None \notin Servers, NEW c \in Callers, SetHostName(c)
  PROVE  TunnelInv'
<1>0. TunnelTypeOK /\ FilesOK /\ CallOK(c) /\ calls[c] \in Calls /\ calls[c].at = "host"
  BY DEF TunnelInv, TunnelTypeOK, SetHostName
<1>1. calls[c].kind \in {"enable", "disable", "proxy", "reset"}
  BY <1>0, KindAt
<1>2. PICK b \in Benches : b = calls[c].bench
  BY <1>0 DEF CallOK
<1>3. UNCHANGED <<profiles, default, record, frpcToml, frpc, raced>>
  BY DEF SetHostName
<1>4. CASE UNCHANGED hostName /\ Ends(c, tkept[b].tunnel /\ ~Warns(c), FALSE)
  BY <1>0, <1>2, <1>3, <1>4, HostFails DEF tunnelFiles
<1>5. CASE /\ hostName' = IF NoHost(c) THEN hostName ELSE [hostName EXCEPT ![b] = calls[c].host]
           /\ IF calls[c].kind = "enable" THEN EndsWell(c) ELSE Goes(c, "note") /\ UNCHANGED tkept
  <2>1. /\ hostName' \in [Benches -> HostNames] /\ \A g \in Benches \ {b} : hostName'[g] = hostName[g]
        /\ ~NoHost(c) => hostName'[b] = calls[c].host
    BY <1>0, <1>5 DEF FilesOK, Calls
  <2>2. FilesOK' /\ OthersSame(b)
    BY <1>0, <1>3, <2>1 DEF FilesOK, OthersSame
  <2>3. CASE calls[c].kind = "enable"
    <3>1. PICK w \in BOOLEAN : w = (calls[c].alone /\ ~calls[c].warned)
      OBVIOUS
    <3>9. PICK t \in BOOLEAN : t = (w /\ ~calls[c].blind)
      OBVIOUS
    <3>2. Ends(c, t, w)
      BY <1>5, <2>3, <3>1, <3>9 DEF EndsWell
    <3>3. w => /\ t => frpc[b] = [status |-> "running", loaded |-> calls[c].tunnel]
               /\ record[b] = [tunnel |-> calls[c].tunnel, proxyHost |-> calls[c].host]
               /\ calls[c].tunnel \in Tunnels /\ calls[c].alone
      BY <1>0, <1>2, <2>3, <3>1, <3>9 DEF CallOK, CallKnows
    <3>4. t => calls[c].alone /\ AsRecorded(b)'
      <4> SUFFICES ASSUME t PROVE calls[c].alone /\ AsRecorded(b)'
        OBVIOUS
      <4>1. record'[b].tunnel = calls[c].tunnel /\ frpc'[b] = [status |-> "running", loaded |-> calls[c].tunnel]
        BY <1>3, <3>3, <3>9
      <4>2. calls[c].tunnel # Off
        BY <3>3, <3>9, TunnelsAre
      <4> QED
        BY <3>3, <3>9, <4>1, <4>2 DEF AsRecorded
    <3>5. w => hostName'[b] = record'[b].proxyHost
      BY <1>3, <2>1, <2>3, <3>3 DEF NoHost
    <3> QED
      BY <1>0, <1>2, <1>3, <2>2, <3>2, <3>3, <3>4, <3>5, Ending
  <2>4. CASE calls[c].kind # "enable"
    <3>1. TunnelTypeOK /\ "note" \in Points /\ Goes(c, "note")
      BY <1>0, <1>5, <2>4 DEF Points
    <3>2. PICK k \in Calls : /\ calls' = [calls EXCEPT ![c] = k] /\ k.at = "note" /\ k.tunnel = calls[c].tunnel
                             /\ k.kind = calls[c].kind /\ k.bench = calls[c].bench /\ k.alone = calls[c].alone
                             /\ k.host = calls[c].host /\ k.warned = calls[c].warned /\ k.blind = calls[c].blind
      BY <3>1, GoesCall
    <3>3. calls'[c] = k /\ OnlyAt(c) /\ tkept' = tkept
      BY <1>0, <1>2, <1>5, <2>2, <2>4, <3>2 DEF TunnelTypeOK, OnlyAt, OthersSame
    <3>4. k.at \in PointsOf(k.kind)
      BY <1>1, <2>4, <3>2 DEF PointsOf
    <3>5. ~(k.kind = "proxy" /\ k.host = Off) => hostName'[b] = k.host
      BY <2>1, <3>2 DEF NoHost
    <3>6. calls[c].alone /\ calls[c].kind = "disable" =>
             record[b].tunnel = Off /\ (~calls[c].warned /\ ~calls[c].blind => frpc[b] = NoContainer)
      BY <1>0, <1>2 DEF CallOK, CallKnows
    <3>7. k.alone => CallKnows(k, b)'
      BY <1>1, <1>3, <2>4, <3>2, <3>5, <3>6 DEF CallKnows
    <3>8. CASE calls[c].kind = "disable"
      <4>1. Owner(calls[c], b) /\ Owner(k, b)
        BY <1>0, <1>2, <3>2, <3>8 DEF Owner
      <4>2. Unique'
        BY <1>3, <3>2, <3>3, <3>8, UniqueStays
      <4> QED
        BY <1>0, <1>2, <1>3, <2>2, <3>2, <3>3, <3>4, <3>7, <3>8, <4>1, <4>2, Going DEF HostOwner
    <3>9. CASE calls[c].kind \in {"proxy", "reset"}
      <4>1. ~Owner(calls[c], b) /\ HostOwner(k, b)
        BY <1>2, <3>2, <3>9 DEF Owner, HostOwner
      <4>2. TunnelKept(b)'
        BY <1>3, <3>2, <3>3, <3>9, <4>1, TunnelStays
      <4>3. Unique'
        BY <1>3, <3>2, <3>3, <3>9, UniqueStays
      <4> QED
        BY <1>0, <1>2, <1>3, <2>2, <3>2, <3>3, <3>4, <3>7, <3>9, <4>1, <4>2, <4>3, Going
    <3> QED
      BY <1>1, <2>4, <3>8, <3>9
  <2> QED
    BY <2>3, <2>4
<1> QED
  BY <1>2, <1>4, <1>5 DEF SetHostName

\* The host name is recorded last, and the call says what it achieved.
LEMMA NoteProxyHostInv ==
  ASSUME TunnelInv, None \notin Servers, NEW c \in Callers, NoteProxyHost(c)
  PROVE  TunnelInv'
<1>0. TunnelTypeOK /\ FilesOK /\ CallOK(c) /\ calls[c] \in Calls /\ calls[c].at = "note"
  BY DEF TunnelInv, TunnelTypeOK, NoteProxyHost
<1>1. calls[c].kind \in {"disable", "proxy", "reset"}
  BY <1>0, KindAt
<1>2. PICK b \in Benches : b = calls[c].bench
  BY <1>0 DEF CallOK
<1>3. UNCHANGED <<profiles, default, frpcToml, frpc, hostName, raced>>
  BY DEF NoteProxyHost
<1>4. CASE UNCHANGED record /\ Ends(c, tkept[b].tunnel /\ ~Warns(c), FALSE)
  BY <1>0, <1>2, <1>3, <1>4, HostFails DEF tunnelFiles
<1>5. CASE /\ record' = [record EXCEPT ![b].proxyHost = calls[c].host]
           /\ IF calls[c].kind = "disable" THEN EndsWell(c)
              ELSE Ends(c, tkept[b].tunnel, calls[c].alone /\ ~NoHost(c))
  <2>1. /\ record' \in [Benches -> Records] /\ record'[b].proxyHost = calls[c].host
        /\ record'[b].tunnel = record[b].tunnel /\ \A g \in Benches \ {b} : record'[g] = record[g]
    <3>1. record \in [Benches -> Records] /\ calls[c].host \in HostNames
      BY <1>0 DEF FilesOK, Calls
    <3> QED
      BY <1>5, <3>1 DEF Records
  <2>2. FilesOK' /\ OthersSame(b) /\ \A g \in Benches : record'[g].tunnel = record[g].tunnel
    BY <1>0, <1>3, <2>1 DEF FilesOK, OthersSame
  <2>3. calls[c].alone => CallKnows(calls[c], b)
    BY <1>0, <1>2 DEF CallOK
  <2>4. CASE calls[c].kind = "disable"
    <3>1. PICK w \in BOOLEAN : w = (calls[c].alone /\ ~calls[c].warned)
      OBVIOUS
    <3>6. PICK t \in BOOLEAN : t = (w /\ ~calls[c].blind)
      OBVIOUS
    <3>2. Ends(c, t, w)
      BY <1>5, <2>4, <3>1, <3>6 DEF EndsWell
    <3>3. /\ t => calls[c].alone /\ frpc[b] = NoContainer /\ record[b].tunnel = Off
          /\ w => hostName[b] = calls[c].host
      BY <1>0, <2>3, <2>4, <3>1, <3>6 DEF CallKnows
    <3>4. t => calls[c].alone /\ AsRecorded(b)'
      BY <1>3, <2>1, <3>3 DEF AsRecorded
    <3>5. w => hostName'[b] = record'[b].proxyHost
      BY <1>3, <2>1, <3>3
    <3> QED
      BY <1>0, <1>2, <1>3, <2>2, <3>2, <3>3, <3>4, <3>5, Ending
  <2>5. CASE calls[c].kind \in {"proxy", "reset"}
    <3>1. PICK h \in BOOLEAN : h = (calls[c].alone /\ ~NoHost(c))
      OBVIOUS
    <3>2. Ends(c, tkept[b].tunnel, h) /\ tkept[b].tunnel \in BOOLEAN
      BY <1>0, <1>5, <2>5, <3>1 DEF TunnelTypeOK, Promises
    <3>3. ~Owner(calls[c], b)
      BY <2>5 DEF Owner
    <3>4. h => hostName'[b] = record'[b].proxyHost
      BY <1>0, <1>3, <2>1, <2>3, <2>5, <3>1 DEF CallKnows, NoHost
    <3> QED
      BY <1>0, <1>2, <1>3, <2>1, <2>2, <3>2, <3>3, <3>4, Ending
  <2> QED
    BY <1>1, <2>4, <2>5
<1> QED
  BY <1>2, <1>4, <1>5 DEF NoteProxyHost

\* A killed call promises nothing.
LEMMA KilledInv ==
  ASSUME TunnelInv, None \notin Servers, NEW c \in Callers, Killed(c)
  PROVE  TunnelInv'
<1>1. FilesOK' /\ OthersSame(calls[c].bench) /\ raced' = raced /\ record' = record
  BY DEF TunnelInv, TunnelTypeOK, FilesOK, Killed, tunnelFiles, OthersSame
<1> QED
  BY <1>1, Failing DEF Killed

\* Every step keeps the invariant.
LEMMA NextTunnel ==
  ASSUME TunnelInv, None \notin Servers, [TunnelNext]_tvars
  PROVE  TunnelInv'
<1>1. CASE UNCHANGED tvars
  <2>1. profiles' \in SUBSET Servers
    BY <1>1 DEF TunnelInv, TunnelTypeOK, FilesOK, tvars
  <2> QED
    BY <1>1, <2>1, SameState DEF tvars
<1>2. ASSUME NEW c \in Callers,
             \/ Begin(c) \/ TunnelEnable(c) \/ CheckUnique(c) \/ WriteFrpcToml(c) \/ FrpcExists(c) \/ RemoveFrpc(c)
             \/ RunFrpc(c) \/ StartFrpc(c) \/ StartBench(c) \/ TunnelDisable(c) \/ Save(c) \/ SetProxy(c)
             \/ SetHostName(c) \/ NoteProxyHost(c) \/ Killed(c)
      PROVE  TunnelInv'
  BY <1>2, BeginInv, TunnelEnableInv, CheckUniqueInv, WriteFrpcTomlInv, ExistsInv, RemoveFrpcInv, RunFrpcInv,
     StartFrpcInv, StartBenchInv, TunnelDisableInv, SaveInv, SetProxyInv, SetHostNameInv, NoteProxyHostInv,
     KilledInv
<1> QED
  BY <1>1, <1>2, EditProfilesInv, FrpcExitsInv DEF TunnelNext

-----------------------------------------------------------------------------
(* Tunnels: the theorems *)

\* What the calls rely on holds in every state: what a call that is alone has
\* achieved at each step, and that nothing is promised of a tunnel or a host name
\* while a call that changes it is under way (tunnel_ops.go, setproxy.go).
THEOREM CallsKnow == TunnelSpec => []TunnelInv
<1>1. TunnelInit => TunnelInv
  BY InitTunnel, TunnelAssumption
<1>2. TunnelInv /\ [TunnelNext]_tvars => TunnelInv'
  BY NextTunnel, TunnelAssumption
<1> QED
  BY <1>1, <1>2, PTL DEF TunnelSpec

\* For any callers, benches, servers and hosts: once the calls on a bench ended
\* well and alone and saw frpc when they looked, frpc publishes what its record
\* names, or nothing, the site has the recorded host name, and without a race of
\* enabling calls no two benches have one tunnel (TunnelEnable, TunnelDisable,
\* SetProxy).
THEOREM Published == TunnelSpec => []PublishedAsSaid
<1>1. TunnelInv => PublishedAsSaid
  <2> SUFFICES ASSUME TunnelInv PROVE PublishedAsSaid
    OBVIOUS
  <2>1. ASSUME NEW b \in Benches, Busy(b) = {}
        PROVE  /\ tkept[b].tunnel => AsRecorded(b)
               /\ tkept[b].host => hostName[b] = record[b].proxyHost
    <3>1. \A c \in Callers : calls[c].at = "idle" \/ calls[c].bench # b
      BY <2>1 DEF Busy
    <3>2. \A c \in Callers : calls[c].at = "idle" => calls[c].kind = "none"
      BY DEF TunnelInv, Rest
    <3>3. ~Owned(b) /\ ~HostOwned(b)
      BY <3>1, <3>2 DEF Owned, HostOwned, Owner, HostOwner
    <3> QED
      BY <3>3 DEF TunnelInv, TunnelKept, HostKept
  <2>2. ~raced => \A a, b \in Benches : a # b => record[a].tunnel = Off \/ record[a].tunnel # record[b].tunnel
    BY DEF TunnelInv, Unique
  <2> QED
    BY <2>1, <2>2 DEF PublishedAsSaid, AsRecorded
<1> QED
  BY <1>1, CallsKnow, PTL

-----------------------------------------------------------------------------
(* The update of ffm's own binary: the invariant *)

\* The signature is never of spoiled bytes, so what it vouches for is a build.
Signed == Builds \cup {Nothing}

Doings == [at : {"away", "command", "temp", "swap", "moved"} \cup Assets, runs : Signed, from : {"exe", "old"},
           got : [Assets -> Signed \cup {Spoiled}]]

\* What a process at step at has found right of what it downloaded.
Checked(at, got) ==
  /\ at \in {"archive", "temp", "swap", "moved"} => got.sums \in Builds
  /\ at \in {"temp", "swap", "moved"} => got.archive \in Builds

\* Between the renames of Windows p alone runs the swap, and what it moved out of
\* the way is still there.
Swapping(p) ==
  /\ system = "windows" /\ exe = Nothing /\ old \in Builds
  /\ proc[p].from = "old"
  /\ \A q \in Updaters : proc[q].at = "moved" => q = p

BinaryInv ==
  /\ made \in Builds /\ made.tag =< made.no
  /\ shelf \in [Assets -> Signed \cup {Spoiled}] /\ shelf["sig"] # Spoiled
  /\ exe \in Signed /\ old \in Signed /\ gap \in BOOLEAN
  /\ proc \in [Updaters -> Doings]
  /\ \A p \in Updaters : Checked(proc[p].at, proc[p].got) /\ proc[p].got["sig"] # Spoiled
  /\ \A p \in Updaters : proc[p].at = "moved" => Swapping(p)
  /\ BinaryWhole

-----------------------------------------------------------------------------
(* The update of ffm's own binary: the steps *)

\* The initial state has the build that was installed.
LEMMA InitBinary == UpdateInit => BinaryInv
<1> SUFFICES ASSUME UpdateInit PROVE BinaryInv
  OBVIOUS
<1> USE BuildAssumption DEF UpdateInit
<1>1. Build(0, 0) \in Builds /\ Build(1, 1) \in Builds
  BY DEF Builds
<1>2. Away \in Doings /\ Checked(Away.at, Away.got) /\ Away.got["sig"] # Spoiled
  BY DEF Away, Doings, Signed, Checked, Nothing, Spoiled, Assets
<1>3. made \in Builds /\ made.tag =< made.no /\ made # Spoiled
  BY <1>1 DEF Build, Spoiled
<1>4. shelf \in [Assets -> Signed \cup {Spoiled}] /\ shelf["sig"] # Spoiled
  BY <1>3 DEF Signed, Assets
<1>5. \A p \in Updaters : proc[p] = Away /\ proc[p].at # "moved"
  BY DEF Away
<1> QED
  BY <1>1, <1>2, <1>3, <1>4, <1>5 DEF BinaryInv, BinaryWhole, Signed

\* What the publisher makes is a build.
LEMMA PublishBinary ==
  ASSUME BinaryInv, Publish \/ UploadAsset
  PROVE  BinaryInv'
<1> USE DEF BinaryInv
<1>1. made \in Builds /\ made.tag \in 0..MaxBuild /\ made.no \in 0..MaxBuild /\ made # Spoiled /\ made # Nothing
  BY DEF Builds, Build, Spoiled, Nothing
<1>2. UNCHANGED <<system, exe, old, proc, gap>>
  BY DEF Publish, UploadAsset
<1>3. CASE Publish
  <2>1. PICK tag \in {made.tag, made.tag + 1} :
          /\ made.no < MaxBuild /\ made' = Build(tag, made.no + 1)
          /\ shelf' = IF tag = made.tag THEN shelf ELSE [a \in Assets |-> Nothing]
    BY <1>3 DEF Publish
  <2>2. made' \in Builds /\ made'.tag =< made'.no
    BY <1>1, <2>1, BuildAssumption DEF Builds, Build
  <2>3. shelf' \in [Assets -> Signed \cup {Spoiled}] /\ shelf'["sig"] # Spoiled
    BY <2>1 DEF Signed, Nothing, Spoiled, Assets
  <2> QED
    BY <1>2, <2>2, <2>3 DEF Checked, Swapping, BinaryWhole
<1>4. CASE UploadAsset
  <2>1. made' = made /\ shelf' \in [Assets -> Signed \cup {Spoiled}] /\ shelf'["sig"] # Spoiled
    BY <1>1, <1>4 DEF UploadAsset, Signed, Assets
  <2> QED
    BY <1>2, <2>1 DEF Checked, Swapping, BinaryWhole
<1> QED
  BY <1>3, <1>4

\* A process goes on to another step than the second rename, or ends, and leaves
\* the executable; the file moved out of the way stays while it is needed.
LEMMA GoesOn ==
  ASSUME BinaryInv, NEW p \in Updaters, NEW r \in Doings, Put(p, r),
         Checked(r.at, r.got), r.got["sig"] # Spoiled, r.at # "moved",
         UNCHANGED <<system, made, shelf, exe>>, gap' \in BOOLEAN, gap => gap',
         proc[p].at = "moved" => gap',
         old' \in Signed, (\E q \in Updaters : proc[q].at = "moved") => old' = old
  PROVE  BinaryInv'
<1>1. proc' \in [Updaters -> Doings] /\ proc'[p] = r /\ \A q \in Updaters \ {p} : proc'[q] = proc[q]
  BY DEF BinaryInv, Put
<1>2. \A q \in Updaters : Checked(proc'[q].at, proc'[q].got) /\ proc'[q].got["sig"] # Spoiled
  BY <1>1 DEF BinaryInv
<1>3. ASSUME NEW q \in Updaters, proc'[q].at = "moved" PROVE Swapping(q)'
  <2>1. q # p /\ proc'[q] = proc[q] /\ proc[q].at = "moved"
    BY <1>1, <1>3
  <2>2. Swapping(q) /\ old' = old
    BY <2>1 DEF BinaryInv
  <2> QED
    BY <1>1, <2>1, <2>2 DEF Swapping
<1>4. BinaryWhole'
  BY <1>1 DEF BinaryInv, BinaryWhole
<1> QED
  BY <1>1, <1>2, <1>3, <1>4 DEF BinaryInv

\* A process that has ended has nothing.
LEMMA AwayIs == Away \in Doings /\ Checked(Away.at, Away.got) /\ Away.got["sig"] # Spoiled /\ Away.at # "moved"
BY DEF Away, Doings, Signed, Checked, Nothing, Spoiled, Assets

\* While a swap is between its renames nobody can start, and what it moved out of
\* the way is in use.
LEMMA WhileMoved ==
  ASSUME BinaryInv, NEW q \in Updaters, proc[q].at = "moved"
  PROVE  exe = Nothing /\ InUse("old") /\ old \in Builds
BY DEF BinaryInv, Swapping, InUse

\* The steps that leave the executable alone.
LEMMA QuietBinary ==
  ASSUME BinaryInv, NEW p \in Updaters,
         Starts(p) \/ Finishes(p) \/ runUpdate(p) \/ replaceBinary(p) \/ UpdateKilled(p)
  PROVE  BinaryInv'
<1>1. exe \in Signed /\ old \in Signed /\ gap \in BOOLEAN /\ proc[p] \in Doings
      /\ Checked(proc[p].at, proc[p].got) /\ proc[p].got["sig"] # Spoiled
  BY DEF BinaryInv
<1>2. CASE Starts(p)
  <2> DEFINE r == [Away EXCEPT !.at = "command", !.runs = exe]
  <2>1. r \in Doings /\ Checked(r.at, r.got) /\ r.got["sig"] # Spoiled /\ r.at # "moved"
    BY <1>1, AwayIs DEF Away, Doings, Checked
  <2>2. Put(p, r) /\ exe # Nothing /\ old' \in Signed /\ proc[p].at = "away"
        /\ UNCHANGED <<system, made, shelf, exe, gap>>
    BY <1>1, <1>2 DEF Starts, removeStaleBinary, Signed
  <2> QED
    BY <1>1, <2>1, <2>2, GoesOn, WhileMoved
<1>3. CASE Finishes(p) \/ UpdateKilled(p) \/ (runUpdate(p) /\ Exits(p)) \/ (replaceBinary(p) /\ Exits(p))
  <2>1. Put(p, Away) /\ UNCHANGED <<system, made, shelf, exe, old>> /\ gap' \in BOOLEAN /\ (gap => gap')
        /\ (proc[p].at = "moved" => gap')
    BY <1>1, <1>3 DEF Finishes, UpdateKilled, runUpdate, replaceBinary, Exits
  <2> QED
    BY <1>1, <2>1, GoesOn, AwayIs
<1>4. ASSUME NEW at \in {"sums", "swap"}, Proceeds(p, at),
             (runUpdate(p) /\ at = "sums") \/ (replaceBinary(p) /\ at = "swap")
      PROVE  BinaryInv'
  <2> DEFINE r == [proc[p] EXCEPT !.at = at]
  <2>1. r \in Doings /\ r.at = at /\ r.got = proc[p].got
    BY <1>1 DEF Doings, Assets
  <2>2. Checked(r.at, r.got)
    <3>1. at = "swap" => proc[p].at = "temp"
      BY <1>4 DEF replaceBinary
    <3> QED
      BY <1>1, <2>1, <3>1 DEF Checked
  <2>3. UNCHANGED <<system, made, shelf, exe, old, gap>> /\ Put(p, r) /\ proc[p].at # "moved"
    BY <1>4 DEF runUpdate, replaceBinary, Proceeds
  <2> QED
    BY <1>1, <2>1, <2>2, <2>3, GoesOn
<1> QED
  BY <1>2, <1>3, <1>4 DEF runUpdate, replaceBinary

\* What is downloaded: the signature vouches for the checksums, and these for the
\* archive.
LEMMA DownloadBinary ==
  ASSUME BinaryInv, NEW p \in Updaters, Download(p)
  PROVE  BinaryInv'
<1>1. exe \in Signed /\ old \in Signed /\ gap \in BOOLEAN /\ proc[p] \in Doings
      /\ Checked(proc[p].at, proc[p].got) /\ proc[p].got["sig"] # Spoiled
  BY DEF BinaryInv
<1>2. proc[p].at \in Assets /\ UNCHANGED <<system, made, shelf, exe, old, gap>>
  BY DEF Download
<1>3. CASE Exits(p)
  BY <1>1, <1>2, <1>3, GoesOn, AwayIs DEF Exits, Assets
<1>4. CASE ~Exits(p)
  <2> DEFINE a == proc[p].at
             got == [proc[p].got EXCEPT ![a] = shelf[a]]
             r == [proc[p] EXCEPT !.at = Follows[a], !.got = got]
  <2>1. shelf[a] # Nothing /\ Accepted(a, got) /\ Put(p, r)
    BY <1>4 DEF Download
  <2>2. got \in [Assets -> Signed \cup {Spoiled}] /\ got[a] = shelf[a] /\ got["sig"] # Spoiled
    BY <1>1, <1>2 DEF BinaryInv, Doings, Assets
  <2>3. r \in Doings /\ r.at = Follows[a] /\ r.got = got
    <3>1. Follows[a] \in {"sig", "archive", "temp"}
      BY <1>2 DEF Assets, Follows
    <3> QED
      BY <1>1, <2>2, <3>1 DEF Doings, Assets
  <2>4. CASE a = "sums"
    <3>1. Follows[a] = "sig" /\ a # "moved"
      BY <2>4 DEF Follows
    <3>2. Checked(r.at, r.got)
      BY <2>3, <3>1 DEF Checked
    <3> QED
      BY <1>1, <1>2, <2>1, <2>2, <2>3, <3>1, <3>2, GoesOn
  <2>5. CASE a = "sig"
    <3>1. got["sums"] = got["sig"] /\ got["sig"] \in Builds
      BY <2>1, <2>2, <2>5 DEF Accepted, Signed, Assets
    <3>2. Follows[a] = "archive"
      BY <2>5 DEF Follows
    <3>3. Checked(r.at, r.got)
      BY <2>3, <3>1, <3>2 DEF Checked
    <3> QED
      BY <1>1, <1>2, <2>1, <2>2, <2>3, <2>5, <3>2, <3>3, GoesOn
  <2>6. CASE a = "archive"
    <3>1. got["sums"] = proc[p].got["sums"] /\ got["sums"] \in Builds
      BY <1>1, <2>6 DEF Doings, Assets, Checked
    <3>2. got["archive"] = got["sums"] /\ Follows[a] = "temp"
      BY <2>1, <2>6 DEF Accepted, Follows
    <3>3. Checked(r.at, r.got)
      BY <2>3, <3>1, <3>2 DEF Checked
    <3> QED
      BY <1>1, <1>2, <2>1, <2>2, <2>3, <2>6, <3>2, <3>3, GoesOn
  <2> QED
    BY <1>2, <2>4, <2>5, <2>6 DEF Assets
<1> QED
  BY <1>3, <1>4

\* The rename of Unix puts a build in place of one.
LEMMA SwapBinary ==
  ASSUME BinaryInv, NEW p \in Updaters, SwapUnix(p)
  PROVE  BinaryInv'
<1>1. UNCHANGED <<system, made, shelf, old, gap>> /\ Put(p, Away) /\ system # "windows"
      /\ exe' \in {exe, proc[p].got.archive} /\ proc[p].at = "swap"
  BY DEF SwapUnix, Exits
<1>2. exe' \in {exe} \cup Builds /\ proc' \in [Updaters -> Doings]
  BY <1>1, AwayIs DEF BinaryInv, Checked, Put
<1>3. \A q \in Updaters : proc'[q] \in {Away, proc[q]} /\ proc'[q].at # "moved"
  BY <1>1, AwayIs DEF BinaryInv, Swapping, Put
<1>4. \A q \in Updaters : Checked(proc'[q].at, proc'[q].got) /\ proc'[q].got["sig"] # Spoiled
  BY <1>3, AwayIs DEF BinaryInv
<1>5. BinaryWhole'
  BY <1>1, <1>2 DEF BinaryInv, BinaryWhole, Swapping
<1> QED
  BY <1>1, <1>2, <1>3, <1>4, <1>5 DEF BinaryInv, Signed

\* The running executable is moved out of the way, or the swap gives up.
LEMMA OutBinary ==
  ASSUME BinaryInv, NEW p \in Updaters, MoveOut(p)
  PROVE  BinaryInv'
<1>1. UNCHANGED <<system, made, shelf, gap>> /\ system = "windows" /\ proc[p].at = "swap"
  BY DEF MoveOut
<1>2. exe \in Signed /\ old \in Signed /\ gap \in BOOLEAN /\ proc \in [Updaters -> Doings]
  BY DEF BinaryInv
<1>3. CASE Exits(p) /\ exe' = exe /\ old' \in Signed /\ (InUse("old") => old' = old)
  BY <1>1, <1>2, <1>3, GoesOn, AwayIs, WhileMoved DEF Exits
<1>4. CASE /\ exe # Nothing /\ ~InUse("old") /\ old' = exe /\ exe' = Nothing
           /\ proc' = [q \in Updaters |->
                CASE q = p -> [proc[q] EXCEPT !.from = "old", !.at = "moved"]
                  [] q # p /\ proc[q].at # "away" -> [proc[q] EXCEPT !.from = "old"]
                  [] OTHER -> proc[q]]
  <2>1. \A q \in Updaters : proc[q].at # "moved"
    BY <1>4, WhileMoved
  <2>2. \A q \in Updaters : proc[q] \in Doings /\ Checked(proc[q].at, proc[q].got) /\ proc[q].got["sig"] # Spoiled
    BY DEF BinaryInv
  <2>3. /\ proc'[p] \in Doings /\ proc'[p].at = "moved" /\ proc'[p].got = proc[p].got /\ proc'[p].from = "old"
        /\ \A q \in Updaters \ {p} : proc'[q] \in Doings /\ proc'[q].at = proc[q].at /\ proc'[q].got = proc[q].got
    BY <1>4, <2>2 DEF Doings, Assets
  <2>4. proc' \in [Updaters -> Doings]
    BY <1>4, <2>3
  <2>5. \A q \in Updaters : Checked(proc'[q].at, proc'[q].got) /\ proc'[q].got["sig"] # Spoiled
    BY <1>1, <2>2, <2>3 DEF Checked
  <2>6. Swapping(p)' /\ exe \in Builds
    BY <1>1, <1>2, <1>4, <2>1, <2>3 DEF Swapping, Signed
  <2>7. BinaryWhole'
    BY <1>4, <2>3 DEF BinaryWhole
  <2>8. \A q \in Updaters : proc'[q].at = "moved" => Swapping(q)'
    <3>1. \A q \in Updaters : proc'[q].at = "moved" => q = p
      BY <2>1, <2>3
    <3> QED
      BY <2>6, <3>1
  <2>9. exe' \in Signed /\ old' \in Signed /\ gap' \in BOOLEAN
    BY <1>1, <1>2, <1>4 DEF Signed
  <2>10. /\ made' \in Builds /\ made'.tag =< made'.no
         /\ shelf' \in [Assets -> Signed \cup {Spoiled}] /\ shelf'["sig"] # Spoiled
    BY <1>1, <2>9 DEF BinaryInv, Builds, Signed
  <2> QED
    BY <2>4, <2>5, <2>7, <2>8, <2>9, <2>10, Zenon DEF BinaryInv
<1> QED
  BY <1>2, <1>3, <1>4 DEF MoveOut, Signed

\* The new build goes in, or the old one back.
LEMMA InBinary ==
  ASSUME BinaryInv, NEW p \in Updaters, MoveIn(p)
  PROVE  BinaryInv'
<1>1. UNCHANGED <<system, made, shelf>> /\ proc[p].at = "moved"
  BY DEF MoveIn
<1>2. Swapping(p) /\ \A q \in Updaters \ {p} : proc[q].at # "moved"
  BY <1>1 DEF BinaryInv, Swapping
<1>3. \A q \in Updaters : proc[q] \in Doings /\ Checked(proc[q].at, proc[q].got) /\ proc[q].got["sig"] # Spoiled
  BY DEF BinaryInv
<1>4. proc[p].got.archive \in Builds /\ old \in Builds
  BY <1>1, <1>2, <1>3 DEF Checked, Swapping
<1>5. CASE exe' \in Builds /\ old' \in Signed /\ gap' = gap
           /\ proc' \in {[proc EXCEPT ![p] = Away],
                         [q \in Updaters |-> IF q = p THEN Away ELSE [proc[q] EXCEPT !.from = "exe"]]}
  <2>1. \A q \in Updaters : /\ proc'[q] \in Doings /\ proc'[q].at # "moved"
                            /\ Checked(proc'[q].at, proc'[q].got) /\ proc'[q].got["sig"] # Spoiled
    <3> TAKE q \in Updaters
    <3>1. CASE q = p
      BY <1>5, <3>1, AwayIs DEF BinaryInv
    <3>2. CASE q # p
      <4>1. proc'[q] = proc[q] \/ proc'[q] = [proc[q] EXCEPT !.from = "exe"]
        BY <1>5, <3>2 DEF BinaryInv
      <4>2. proc'[q] \in Doings /\ proc'[q].at = proc[q].at /\ proc'[q].got = proc[q].got
        BY <1>3, <4>1 DEF Doings, Assets
      <4> QED
        BY <1>2, <1>3, <3>2, <4>2
    <3> QED
      BY <3>1, <3>2
  <2>2. proc' \in [Updaters -> Doings]
    BY <1>5, <2>1 DEF BinaryInv
  <2> QED
    BY <1>1, <1>5, <2>1, <2>2 DEF BinaryInv, BinaryWhole, Signed
<1>6. CASE Exits(p) /\ gap' = TRUE /\ UNCHANGED <<exe, old>>
  BY <1>1, <1>6, GoesOn, AwayIs DEF BinaryInv, Exits
<1> QED
  BY <1>4, <1>5, <1>6 DEF MoveIn, Exits, Put, Signed, BinaryInv

\* At every moment, in any number of updates by any number of processes, while
\* the publisher replaces files of the release: the file that ffm is started from
\* is a whole build that was signed (downloadAndInstall, swapExecutable).
THEOREM BinaryStaysWhole == UpdateSpec => []BinaryWhole
<1>1. BinaryInv /\ [UpdateNext]_uvars => BinaryInv'
  <2> SUFFICES ASSUME BinaryInv, [UpdateNext]_uvars PROVE BinaryInv'
    OBVIOUS
  <2>1. CASE UNCHANGED uvars
    BY <2>1 DEF uvars, BinaryInv, BinaryWhole, Swapping, Checked
  <2> QED
    BY <2>1, PublishBinary, QuietBinary, DownloadBinary, SwapBinary, OutBinary, InBinary DEF UpdateNext
<1>2. BinaryInv => BinaryWhole
  BY DEF BinaryInv
<1> QED
  BY <1>1, <1>2, InitBinary, PTL DEF UpdateSpec

-----------------------------------------------------------------------------
(* The shared proxy: the invariant *)

TraefikStates == [status : {"", "running", "exited", "created", "paused"}, image : Images, serving : BOOLEAN,
               https : BOOLEAN, email : Emails \cup {NoEmail}]

\* A container with HTTPS has its email.
Mailed(info) == info.https => info.email # NoEmail

\* The steps of a call.
ProxyWay(kind) ==
  CASE kind = "start" -> {"network", "look", "refuse", "recreate", "start", "after", "run"}
    [] kind = "stop" -> {"look", "refuse", "stop"}
    [] kind = "https" -> {"network", "look", "refuse", "supports", "stop", "rm", "run"}

\* The call k of a process.
ProxyCallOK(k) ==
  /\ k = [at |-> k.at, kind |-> k.kind, info |-> k.info, email |-> k.email]
  /\ k.info \in TraefikStates /\ Mailed(k.info)
  /\ k.email \in Emails \cup {NoEmail}
  /\ k.kind \in {"none", "start", "stop", "https"}
  /\ k.kind = "none" => k = NoCall
  /\ k.kind # "none" => k.at \in ProxyWay(k.kind) /\ k.email \in Emails

\* Types, and every container with HTTPS has its email.
ProxyTypes ==
  /\ container \in TraefikStates /\ Mailed(container)
  /\ network \in BOOLEAN
  /\ pcalls = [c \in ProxyCallers |-> pcalls[c]] /\ \A c \in ProxyCallers : ProxyCallOK(pcalls[c])
  /\ promised \in [https : BOOLEAN, serving : BOOLEAN]
  /\ disturbed \in BOOLEAN

\* What the only call k knows of the promises of earlier ones, while nothing
\* disturbed it: HTTPS is in the container, or in what it will make.
KeepsPromise(k) ==
  /\ promised.https =>
       /\ k.at # "run" => container.https
       /\ k.at = "recreate" => k.info.https
       /\ k.at \in {"start", "after"} => k.info.https
       /\ k.at = "run" => k.kind = "https" \/ k.info.https \/ container # Gone
  /\ promised.serving /\ k.at \in {"network", "look", "refuse"} => container.serving

\* Inductive: while nothing disturbed the proxy at most one call is under way, and
\* it keeps the promises.
ProxyInv ==
  /\ ProxyTypes
  /\ ~disturbed => \A c, d \in ProxyCallers : pcalls[c] # NoCall /\ pcalls[d] # NoCall => c = d
  /\ ~disturbed => \A c \in ProxyCallers : pcalls[c] # NoCall => KeepsPromise(pcalls[c])
  /\ ProxyAsPromised


-----------------------------------------------------------------------------
(* The shared proxy: how a call goes on, and how it ends *)

\* No container.
LEMMA GoneIs == Gone \in TraefikStates /\ Mailed(Gone) /\ Gone.https = FALSE /\ Gone.status = ""
  BY DEF TraefikStates, Gone, Images, Mailed

\* What kinds of calls there are.
LEMMA NoCallOK == ProxyCallOK(NoCall) /\ \A k : ProxyCallOK(k) => (k.kind = "none" <=> k = NoCall)
<1>1. Gone \in TraefikStates /\ Mailed(Gone)
  BY DEF TraefikStates, Gone, Images, Mailed
<1>2. NoCall.kind = "none"
  BY DEF NoCall
<1>3. NoCall = [at |-> NoCall.at, kind |-> NoCall.kind, info |-> NoCall.info, email |-> NoCall.email]
      /\ NoCall.info = Gone /\ NoCall.email = NoEmail
  BY DEF NoCall
<1>4. ProxyCallOK(NoCall)
  BY <1>1, <1>2, <1>3 DEF ProxyCallOK
<1> QED
  BY <1>2, <1>4 DEF ProxyCallOK

\* A call moves on.
LEMMA ProxyCallMoves ==
  ASSUME ProxyInv, NEW c \in ProxyCallers, NEW k, pcalls[c] # NoCall, pcalls' = [pcalls EXCEPT ![c] = k], ProxyCallOK(k), k # NoCall,
         container' \in TraefikStates, Mailed(container'), network' \in BOOLEAN, UNCHANGED <<promised, disturbed>>,
         ~disturbed => KeepsPromise(k)'
  PROVE  ProxyInv'
<1>1. pcalls'[c] = k /\ \A d \in ProxyCallers \ {c} : pcalls'[d] = pcalls[d]
  BY DEF ProxyInv, ProxyTypes
<1>2. pcalls' = [d \in ProxyCallers |-> pcalls'[d]] /\ \A d \in ProxyCallers : ProxyCallOK(pcalls'[d])
  BY <1>1 DEF ProxyInv, ProxyTypes
<1>3. ProxyTypes'
  <2>1. \A d \in ProxyCallers : ProxyCallOK(pcalls[d])'
    BY <1>2 DEF ProxyCallOK, NoCall, Mailed, TraefikStates, ProxyWay
  <2> QED
    BY <1>2, <2>1 DEF ProxyInv, ProxyTypes, Mailed, TraefikStates
<1>4. ~disturbed => \A d \in ProxyCallers \ {c} : pcalls[d] = NoCall
  BY DEF ProxyInv
<1>5. ~disturbed' => \A d, e \in ProxyCallers : pcalls'[d] # NoCall /\ pcalls'[e] # NoCall => d = e
  BY <1>1, <1>4
<1>6. ~disturbed' => \A d \in ProxyCallers : pcalls'[d] # NoCall => KeepsPromise(pcalls[d])'
  BY <1>1, <1>4 DEF KeepsPromise
<1>7. ProxyAsPromised'
  BY <1>1 DEF ProxyAsPromised, NoCall, Gone
<1> QED
  BY <1>3, <1>5, <1>6, <1>7 DEF ProxyInv, NoCall, Gone

\* A call is over, with everything else as it was or the proxy disturbed.
LEMMA ProxyCallsAfter ==
  ASSUME ProxyInv, NEW c \in ProxyCallers, pcalls' = [pcalls EXCEPT ![c] = NoCall],
         container' \in TraefikStates, Mailed(container'), network' \in BOOLEAN,
         promised' \in [https : BOOLEAN, serving : BOOLEAN], disturbed' \in BOOLEAN
  PROVE  /\ ProxyTypes' /\ pcalls'[c] = NoCall /\ \A d \in ProxyCallers \ {c} : pcalls'[d] = pcalls[d]
<1>1. pcalls'[c] = NoCall /\ \A d \in ProxyCallers \ {c} : pcalls'[d] = pcalls[d]
  BY DEF ProxyInv, ProxyTypes
<1>2. pcalls' = [d \in ProxyCallers |-> pcalls'[d]] /\ \A d \in ProxyCallers : ProxyCallOK(pcalls'[d])
  BY <1>1, NoCallOK DEF ProxyInv, ProxyTypes
<1>3. \A d \in ProxyCallers : ProxyCallOK(pcalls[d])'
  BY <1>2 DEF ProxyCallOK, NoCall, Mailed, TraefikStates, ProxyWay
<1> QED
  BY <1>1, <1>2, <1>3 DEF ProxyInv, ProxyTypes, Mailed, TraefikStates

\* A call fails: that voids the promises.
LEMMA ProxyCallFails ==
  ASSUME ProxyInv, NEW c \in ProxyCallers, ProxyFails(c),
         container' \in TraefikStates, Mailed(container'), network' \in BOOLEAN
  PROVE  ProxyInv'
<1>1. ProxyTypes' /\ disturbed'
  BY ProxyCallsAfter DEF ProxyFails, ProxyInv, ProxyTypes
<1> QED
  BY <1>1 DEF ProxyInv, ProxyAsPromised

\* A call returns nil, and promises what it leaves.
LEMMA ProxyCallSucceeds ==
  ASSUME ProxyInv, NEW c \in ProxyCallers, pcalls[c] # NoCall, Succeeds(c, container'),
         container' \in TraefikStates, Mailed(container'), network' \in BOOLEAN,
         pcalls[c].kind = "start" => container'.serving,
         ~disturbed /\ promised.https => container'.https
  PROVE  ProxyInv'
<1>1. /\ pcalls' = [pcalls EXCEPT ![c] = NoCall]
      /\ promised' = [https |-> container'.https \/ (~disturbed /\ promised.https),
                      serving |-> pcalls[c].kind = "start" \/ container'.serving]
      /\ disturbed' = (disturbed /\ ~Alone(c))
  BY DEF Succeeds
<1>2. promised.https \in BOOLEAN /\ disturbed \in BOOLEAN /\ container'.https \in BOOLEAN /\ container'.serving \in BOOLEAN
  BY DEF ProxyInv, ProxyTypes, TraefikStates
<1>3. promised' \in [https : BOOLEAN, serving : BOOLEAN] /\ disturbed' \in BOOLEAN
  BY <1>1, <1>2 DEF Alone
<1>4. ProxyTypes' /\ pcalls'[c] = NoCall /\ \A d \in ProxyCallers \ {c} : pcalls'[d] = pcalls[d]
  BY <1>1, <1>3, ProxyCallsAfter
<1>5. ~disturbed' => \A d \in ProxyCallers : pcalls'[d] = NoCall
  BY <1>1, <1>4 DEF Alone, ProxyInv
<1>6. ~disturbed' => (promised'.https => container'.https) /\ (promised'.serving => container'.serving)
  BY <1>1, <1>2
<1>7. ProxyAsPromised'
  BY <1>6 DEF ProxyAsPromised, Mailed
<1> QED
  BY <1>4, <1>5, <1>7 DEF ProxyInv, NoCall, Gone

\* A call refuses, with everything as it was.
LEMMA ProxyCallRefuses ==
  ASSUME ProxyInv, NEW c \in ProxyCallers, pcalls[c].at = "refuse", ProxyRefuses(c), UNCHANGED <<container, network>>
  PROVE  ProxyInv'
<1>1. pcalls' = [pcalls EXCEPT ![c] = NoCall] /\ UNCHANGED <<promised, disturbed, container, network>>
  BY DEF ProxyRefuses
<1>2. ProxyTypes' /\ pcalls'[c] = NoCall /\ \A d \in ProxyCallers \ {c} : pcalls'[d] = pcalls[d]
  BY <1>1, ProxyCallsAfter DEF ProxyInv, ProxyTypes
<1>3. pcalls[c] # NoCall
  BY DEF NoCall
<1>4. ~disturbed => \A d \in ProxyCallers : pcalls'[d] = NoCall
  BY <1>2, <1>3 DEF ProxyInv
<1>5. ~disturbed => (promised.https => container.https) /\ (promised.serving => container.serving)
  BY <1>3 DEF ProxyInv, KeepsPromise
<1>6. ProxyAsPromised'
  BY <1>1, <1>5 DEF ProxyAsPromised, ProxyInv, ProxyTypes, Mailed
<1> QED
  BY <1>1, <1>2, <1>4, <1>6 DEF ProxyInv, NoCall, Gone


\* The step of a call under way, with what its new place has to be.
LEMMA ProxyCallGoes ==
  ASSUME ProxyInv, NEW c \in ProxyCallers, NEW at, ProxyGoes(c, at), pcalls[c].kind # "none",
         at \in ProxyWay(pcalls[c].kind),
         container' \in TraefikStates, Mailed(container'), network' \in BOOLEAN, UNCHANGED <<promised, disturbed>>,
         ~disturbed /\ promised.https =>
           /\ at # "run" => container'.https
           /\ at = "recreate" => pcalls[c].info.https
           /\ at \in {"start", "after"} => pcalls[c].info.https
           /\ at = "run" => pcalls[c].kind = "https" \/ pcalls[c].info.https \/ container' # Gone,
         ~disturbed /\ promised.serving /\ at \in {"network", "look", "refuse"} => container'.serving
  PROVE  ProxyInv'
<1>0. PICK k : k = [pcalls[c] EXCEPT !.at = at]
  OBVIOUS
<1>1. ProxyCallOK(pcalls[c])
  BY DEF ProxyInv, ProxyTypes
<1>2. k = [at |-> at, kind |-> pcalls[c].kind, info |-> pcalls[c].info, email |-> pcalls[c].email]
  BY <1>0, <1>1 DEF ProxyCallOK
<1>3. pcalls' = [pcalls EXCEPT ![c] = k]
  BY <1>0 DEF ProxyGoes
<1>4. /\ k.at = at /\ k.kind = pcalls[c].kind /\ k.info = pcalls[c].info /\ k.email = pcalls[c].email
      /\ k = [at |-> k.at, kind |-> k.kind, info |-> k.info, email |-> k.email]
  BY <1>2
<1>5. ProxyCallOK(k)
  BY <1>1, <1>4 DEF ProxyCallOK
<1>6. k # NoCall /\ pcalls[c] # NoCall
  BY <1>4 DEF NoCall
<1>7. ~disturbed => KeepsPromise(k)'
  BY <1>4 DEF KeepsPromise, Gone
<1> QED
  BY <1>3, <1>5, <1>6, <1>7, ProxyCallMoves


-----------------------------------------------------------------------------
(* The shared proxy: the steps *)

\* A call begins with the promises kept, or the proxy disturbed.
LEMMA ProxyBeginStep == ASSUME ProxyInv, NEW c \in ProxyCallers, ProxyBegin(c) PROVE ProxyInv'
<1>1. PICK kind \in {"start", "stop", "https"}, e \in Emails :
        pcalls' = [pcalls EXCEPT ![c] = [NoCall EXCEPT !.kind = kind, !.email = e,
                   !.at = IF kind = "stop" THEN "look" ELSE "network"]]
  BY DEF ProxyBegin
<1> DEFINE place == IF kind = "stop" THEN "look" ELSE "network"
<1>a. PICK k : k = [NoCall EXCEPT !.kind = kind, !.email = e, !.at = place]
  OBVIOUS
<1>2. pcalls[c] = NoCall /\ disturbed' = (disturbed \/ \E d \in ProxyCallers : pcalls[d] # NoCall)
      /\ UNCHANGED <<container, network, promised>>
  BY DEF ProxyBegin
<1>3. pcalls' = [pcalls EXCEPT ![c] = k]
  BY <1>1, <1>a
<1>h. place \in {"network", "look"} /\ (kind = "stop" => place = "look")
  OBVIOUS
<1> HIDE DEF place
<1>b. k = [at |-> place, kind |-> kind, info |-> Gone, email |-> e]
  BY <1>a DEF NoCall
<1>c. k.at = place /\ k.kind = kind /\ k.info = Gone /\ k.email = e
  BY <1>b
<1>4. ProxyCallOK(k) /\ k # NoCall
  <2>1. k = [at |-> k.at, kind |-> k.kind, info |-> k.info, email |-> k.email]
    BY <1>b
  <2>2. kind \in {"start", "stop", "https"} /\ e \in Emails /\ place \in ProxyWay(kind)
    BY <1>1, <1>h DEF ProxyWay
  <2>3. k # NoCall
    BY <1>c, <2>2 DEF NoCall
  <2>4. k.info \in TraefikStates /\ Mailed(k.info)
    BY <1>c, GoneIs, Zenon
  <2>5. k.kind \in {"start", "stop", "https"} /\ k.at \in ProxyWay(k.kind) /\ k.email \in Emails
    BY <1>c, <2>2, Zenon
  <2> QED
    BY <2>1, <2>3, <2>4, <2>5 DEF ProxyCallOK
<1>5. pcalls'[c] = k /\ \A d \in ProxyCallers \ {c} : pcalls'[d] = pcalls[d]
  BY <1>3 DEF ProxyInv, ProxyTypes
<1>6. pcalls' = [d \in ProxyCallers |-> pcalls'[d]] /\ \A d \in ProxyCallers : ProxyCallOK(pcalls'[d])
  BY <1>3, <1>4, <1>5 DEF ProxyInv, ProxyTypes
<1>7. ProxyTypes'
  <2>1. \A d \in ProxyCallers : ProxyCallOK(pcalls[d])'
    BY <1>6 DEF ProxyCallOK, NoCall, Mailed, TraefikStates, ProxyWay
  <2>2. disturbed' \in BOOLEAN
    BY <1>2 DEF ProxyInv, ProxyTypes
  <2> QED
    BY <1>2, <1>6, <2>1, <2>2 DEF ProxyInv, ProxyTypes, Mailed, TraefikStates
<1>8. ~disturbed' => ~disturbed /\ \A d \in ProxyCallers : pcalls[d] = NoCall
  BY <1>2
<1>9. ~disturbed' => KeepsPromise(k)'
  BY <1>2, <1>8, <1>c, <1>h DEF ProxyInv, ProxyAsPromised, KeepsPromise
<1>10. ~disturbed' => \A d \in ProxyCallers : pcalls'[d] # NoCall => KeepsPromise(pcalls[d])'
  BY <1>5, <1>8, <1>9 DEF KeepsPromise
<1>11. ProxyAsPromised'
  BY <1>4, <1>5 DEF ProxyAsPromised, NoCall, Gone
<1> QED
  BY <1>5, <1>7, <1>8, <1>10, <1>11 DEF ProxyInv, NoCall, Gone

\* What the call of c is.
LEMMA ProxyCallIs ==
  ASSUME ProxyInv, NEW c \in ProxyCallers
  PROVE  /\ ProxyCallOK(pcalls[c])
         /\ pcalls[c].at # "idle" => pcalls[c] # NoCall /\ pcalls[c].kind # "none" /\ pcalls[c].at \in ProxyWay(pcalls[c].kind)
         /\ container \in TraefikStates /\ Mailed(container) /\ network \in BOOLEAN
         /\ ~disturbed /\ pcalls[c] # NoCall => KeepsPromise(pcalls[c])
BY NoCallOK DEF ProxyInv, ProxyTypes, ProxyCallOK, NoCall

\* The network of the proxy.
LEMMA ProxyNetworkStep == ASSUME ProxyInv, NEW c \in ProxyCallers, EnsureNetwork(c) PROVE ProxyInv'
<1>1. pcalls[c].at = "network" /\ UNCHANGED container /\ pcalls[c].kind \in {"start", "https"}
  BY ProxyCallIs DEF EnsureNetwork, ProxyWay, ProxyCallOK
<1>2. CASE network' = TRUE /\ ProxyGoes(c, "look") /\ UNCHANGED <<promised, disturbed>>
  <2>1. "look" \in ProxyWay(pcalls[c].kind)
    BY <1>1 DEF ProxyWay
  <2>2. ~disturbed => KeepsPromise(pcalls[c])
    BY <1>1, ProxyCallIs
  <2> QED
    BY <1>1, <1>2, <2>1, <2>2, ProxyCallIs, ProxyCallGoes DEF KeepsPromise
<1>3. CASE ProxyFails(c) /\ UNCHANGED network
  BY <1>1, <1>3, ProxyCallIs, ProxyCallFails
<1> QED
  BY <1>2, <1>3 DEF EnsureNetwork

\* Nothing to do, or nothing that can be done.
LEMMA ProxyRefuseStep == ASSUME ProxyInv, NEW c \in ProxyCallers, Refuse(c) PROVE ProxyInv'
BY ProxyCallRefuses DEF Refuse

\* Is 443 published already?
LEMMA ProxySupportsStep == ASSUME ProxyInv, NEW c \in ProxyCallers, SupportsHTTPS(c) PROVE ProxyInv'
<1>1. /\ pcalls[c].at = "supports" /\ UNCHANGED <<container, network>>
      /\ pcalls[c].kind = "https" /\ pcalls[c] # NoCall /\ (~disturbed => KeepsPromise(pcalls[c]))
      /\ container \in TraefikStates /\ Mailed(container) /\ network \in BOOLEAN
  BY ProxyCallIs DEF SupportsHTTPS, ProxyWay, ProxyCallOK
<1>2. CASE container.https /\ Succeeds(c, container)
  BY <1>1, <1>2, ProxyCallSucceeds
<1>3. CASE ProxyGoes(c, "stop") /\ UNCHANGED <<promised, disturbed>>
  BY <1>1, <1>3, ProxyCallGoes DEF KeepsPromise, ProxyWay
<1> QED
  BY <1>2, <1>3 DEF SupportsHTTPS

\* docker start keeps the settings of the container.
LEMMA ProxyRestartStep == ASSUME ProxyInv, NEW c \in ProxyCallers, Restart(c) PROVE ProxyInv'
<1>1. /\ pcalls[c].at = "start" /\ UNCHANGED network
      /\ pcalls[c].kind = "start" /\ pcalls[c] # NoCall /\ (~disturbed => KeepsPromise(pcalls[c]))
      /\ container \in TraefikStates /\ Mailed(container) /\ network \in BOOLEAN
  BY ProxyCallIs DEF Restart, ProxyWay, ProxyCallOK
<1>2. CASE /\ \E s \in BOOLEAN : container' = [container EXCEPT !.status = "running", !.serving = s]
           /\ ProxyGoes(c, "after") /\ UNCHANGED <<promised, disturbed>>
  <2>1. container' \in TraefikStates /\ container'.https = container.https /\ container'.email = container.email
    BY <1>1, <1>2 DEF TraefikStates
  <2> QED
    BY <1>1, <1>2, <2>1, ProxyCallGoes DEF KeepsPromise, ProxyWay, Mailed
<1>3. CASE ProxyGoes(c, "after") /\ UNCHANGED <<container, promised, disturbed>>
  BY <1>1, <1>3, ProxyCallGoes DEF KeepsPromise, ProxyWay
<1>4. CASE ProxyFails(c) /\ UNCHANGED container
  BY <1>1, <1>4, ProxyCallFails
<1> QED
  BY <1>2, <1>3, <1>4 DEF Restart

\* What was started is looked at again.
LEMMA ProxyAfterStep == ASSUME ProxyInv, NEW c \in ProxyCallers, After(c) PROVE ProxyInv'
<1>1. /\ pcalls[c].at = "after" /\ UNCHANGED <<container, network>>
      /\ pcalls[c].kind = "start" /\ pcalls[c] # NoCall /\ (~disturbed => KeepsPromise(pcalls[c]))
      /\ container \in TraefikStates /\ Mailed(container) /\ network \in BOOLEAN
  BY ProxyCallIs DEF After, ProxyWay, ProxyCallOK
<1>2. CASE Serving(container) /\ Succeeds(c, container)
  BY <1>1, <1>2, ProxyCallSucceeds DEF Serving, KeepsPromise
<1>3. CASE ProxyGoes(c, "recreate") /\ UNCHANGED <<promised, disturbed>>
  BY <1>1, <1>3, ProxyCallGoes DEF KeepsPromise, ProxyWay
<1> QED
  BY <1>2, <1>3 DEF After

\* recreate removes a container whose settings the call knows.
LEMMA ProxyRecreateStep == ASSUME ProxyInv, NEW c \in ProxyCallers, recreate(c) PROVE ProxyInv'
<1>1. /\ pcalls[c].at = "recreate" /\ UNCHANGED network
      /\ pcalls[c].kind = "start" /\ pcalls[c] # NoCall /\ (~disturbed => KeepsPromise(pcalls[c]))
      /\ container \in TraefikStates /\ Mailed(container) /\ network \in BOOLEAN
  BY ProxyCallIs DEF recreate, ProxyWay, ProxyCallOK
<1>2. CASE container' = Gone /\ ProxyGoes(c, "run") /\ UNCHANGED <<promised, disturbed>>
  <2>1. Gone \in TraefikStates /\ Mailed(Gone)
    BY DEF TraefikStates, Gone, Images, Mailed
  <2> QED
    BY <1>1, <1>2, <2>1, ProxyCallGoes DEF KeepsPromise, ProxyWay
<1>3. CASE ProxyFails(c) /\ UNCHANGED container
  BY <1>1, <1>3, ProxyCallFails
<1> QED
  BY <1>2, <1>3 DEF recreate

\* docker stop keeps the settings too.
LEMMA ProxyStopStep == ASSUME ProxyInv, NEW c \in ProxyCallers, StopContainer(c) PROVE ProxyInv'
<1>1. /\ pcalls[c].at = "stop" /\ UNCHANGED network
      /\ pcalls[c].kind \in {"stop", "https"} /\ pcalls[c] # NoCall /\ (~disturbed => KeepsPromise(pcalls[c]))
      /\ container \in TraefikStates /\ Mailed(container) /\ network \in BOOLEAN
  BY ProxyCallIs DEF StopContainer, ProxyWay, ProxyCallOK
<1>2. CASE /\ container' = [container EXCEPT !.status = "exited", !.serving = FALSE]
           /\ IF pcalls[c].kind = "stop" THEN Succeeds(c, container')
              ELSE ProxyGoes(c, "rm") /\ UNCHANGED <<promised, disturbed>>
  <2>1. container' \in TraefikStates /\ container'.https = container.https /\ container'.email = container.email
    BY <1>1, <1>2 DEF TraefikStates
  <2>2. CASE Succeeds(c, container') /\ pcalls[c].kind = "stop"
    BY <1>1, <2>1, <2>2, ProxyCallSucceeds DEF KeepsPromise, Mailed
  <2>3. CASE pcalls[c].kind = "https" /\ ProxyGoes(c, "rm") /\ UNCHANGED <<promised, disturbed>>
    BY <1>1, <2>1, <2>3, ProxyCallGoes DEF KeepsPromise, ProxyWay, Mailed
  <2> QED
    BY <1>1, <1>2, <2>2, <2>3
<1>3. CASE ProxyFails(c) /\ UNCHANGED container
  BY <1>1, <1>3, ProxyCallFails
<1> QED
  BY <1>2, <1>3 DEF StopContainer

\* EnsureHTTPS removes what it makes anew.
LEMMA ProxyRemoveStep == ASSUME ProxyInv, NEW c \in ProxyCallers, Remove(c) PROVE ProxyInv'
<1>1. /\ pcalls[c].at = "rm" /\ UNCHANGED network
      /\ pcalls[c].kind = "https" /\ pcalls[c] # NoCall /\ (~disturbed => KeepsPromise(pcalls[c]))
      /\ container \in TraefikStates /\ Mailed(container) /\ network \in BOOLEAN
  BY ProxyCallIs DEF Remove, ProxyWay, ProxyCallOK
<1>2. CASE container' = Gone /\ ProxyGoes(c, "run") /\ UNCHANGED <<promised, disturbed>>
  <2>1. Gone \in TraefikStates /\ Mailed(Gone)
    BY DEF TraefikStates, Gone, Images, Mailed
  <2> QED
    BY <1>1, <1>2, <2>1, ProxyCallGoes DEF KeepsPromise, ProxyWay
<1>3. CASE ProxyFails(c) /\ UNCHANGED container
  BY <1>1, <1>3, ProxyCallFails
<1> QED
  BY <1>2, <1>3 DEF Remove

\* docker run, with HTTPS if the removed container had it.
LEMMA ProxyRunStep == ASSUME ProxyInv, NEW c \in ProxyCallers, Run(c) PROVE ProxyInv'
<1>1. /\ pcalls[c].at = "run" /\ UNCHANGED network /\ ProxyCallOK(pcalls[c])
      /\ pcalls[c].kind \in {"start", "https"} /\ pcalls[c] # NoCall /\ (~disturbed => KeepsPromise(pcalls[c]))
      /\ container \in TraefikStates /\ Mailed(container) /\ network \in BOOLEAN
  BY ProxyCallIs DEF Run, ProxyWay, ProxyCallOK
<1>2. /\ Settings(pcalls[c]) \in TraefikStates /\ Mailed(Settings(pcalls[c]))
      /\ Settings(pcalls[c]).https = (pcalls[c].kind = "https" \/ pcalls[c].info.https)
      /\ Settings(pcalls[c]).serving
  BY <1>1, ProxyAssumption DEF Settings, Made, TraefikStates, Mailed, ProxyCallOK, Images
<1> DEFINE s == Settings(pcalls[c])
<1> HIDE DEF s
<1>3. s \in TraefikStates /\ Mailed(s) /\ s.https = (pcalls[c].kind = "https" \/ pcalls[c].info.https) /\ s.serving
  BY <1>2 DEF s
<1>4. CASE container = Gone /\ container' = s /\ Succeeds(c, container')
  BY <1>1, <1>3, <1>4, ProxyCallSucceeds DEF KeepsPromise
<1>5. CASE ProxyFails(c) /\ UNCHANGED container
  BY <1>1, <1>5, ProxyCallFails
<1>6. CASE ProxyFails(c) /\ container' \in {Gone, [s EXCEPT !.status = "created", !.serving = FALSE]}
  <2>1. [s EXCEPT !.status = "created", !.serving = FALSE] \in TraefikStates
        /\ Mailed([s EXCEPT !.status = "created", !.serving = FALSE])
    BY <1>3 DEF TraefikStates, Mailed
  <2>2. Gone \in TraefikStates /\ Mailed(Gone)
    BY DEF TraefikStates, Gone, Images, Mailed
  <2> QED
    BY <1>1, <1>6, <2>1, <2>2, ProxyCallFails
<1> QED
  BY <1>4, <1>5, <1>6 DEF Run, s

\* A killed call is one that failed.
LEMMA ProxyKilledStep == ASSUME ProxyInv, NEW c \in ProxyCallers, ProxyKilled(c) PROVE ProxyInv'
BY ProxyCallIs, ProxyCallFails DEF ProxyKilled

\* The daemon takes the ports away, or somebody pauses the proxy: no call
\* promised anything about that.
LEMMA ProxyShakenStep == ASSUME ProxyInv, Shaken PROVE ProxyInv'
<1>1. /\ container' \in TraefikStates /\ container'.https = container.https /\ container'.email = container.email
      /\ container # Gone /\ container' # Gone
  <2>1. container \in TraefikStates /\ container.status = "running" /\ Gone.status = ""
    BY DEF Shaken, ProxyInv, ProxyTypes, Gone
  <2>2. CASE container' = [container EXCEPT !.serving = FALSE]
    BY <2>1, <2>2 DEF TraefikStates
  <2>3. CASE container' = [container EXCEPT !.status = "paused"]
    BY <2>1, <2>3 DEF TraefikStates
  <2> QED
    BY <2>2, <2>3 DEF Shaken
<1>2. promised' = [promised EXCEPT !.serving = FALSE] /\ UNCHANGED <<network, pcalls, disturbed>>
  BY DEF Shaken
<1>3. promised' \in [https : BOOLEAN, serving : BOOLEAN] /\ ~promised'.serving /\ promised'.https = promised.https
  BY <1>2 DEF ProxyInv, ProxyTypes
<1>4. ProxyTypes'
  <2>1. \A d \in ProxyCallers : ProxyCallOK(pcalls[d])'
    BY <1>2 DEF ProxyInv, ProxyTypes, ProxyCallOK, NoCall, Mailed, TraefikStates, ProxyWay
  <2> QED
    BY <1>1, <1>2, <1>3, <2>1 DEF ProxyInv, ProxyTypes, Mailed, TraefikStates
<1>5. \A k : KeepsPromise(k) => KeepsPromise(k)'
  BY <1>1, <1>3 DEF KeepsPromise
<1>6. \A c \in ProxyCallers : KeepsPromise(pcalls[c]) => KeepsPromise(pcalls[c])'
  BY <1>1, <1>2, <1>3 DEF KeepsPromise
<1>7. ProxyAsPromised'
  BY <1>1, <1>2, <1>3 DEF ProxyInv, ProxyAsPromised, NoCall, Gone
<1> QED
  BY <1>2, <1>4, <1>6, <1>7 DEF ProxyInv, NoCall, Gone

\* The look of a call: at the container as it is, or at nothing when docker does
\* not answer.
LEMMA ProxyLookStep == ASSUME ProxyInv, NEW c \in ProxyCallers, Look(c) PROVE ProxyInv'
<1>1. /\ pcalls[c].at = "look" /\ UNCHANGED <<container, network, promised, disturbed>>
      /\ pcalls[c].kind \in {"start", "stop", "https"} /\ pcalls[c] # NoCall /\ (~disturbed => KeepsPromise(pcalls[c]))
      /\ ProxyCallOK(pcalls[c]) /\ container \in TraefikStates /\ Mailed(container) /\ network \in BOOLEAN
  BY ProxyCallIs DEF Look, ProxyCallOK
<1>2. PICK info \in {container, Gone} :
        pcalls' = [pcalls EXCEPT ![c].info = info, ![c].at = Then(pcalls[c].kind, info)]
  BY DEF Look
<1>3. info \in TraefikStates /\ Mailed(info)
  BY <1>1, <1>2, GoneIs
<1>4. PICK k : k = [pcalls[c] EXCEPT !.info = info, !.at = Then(pcalls[c].kind, info)]
  OBVIOUS
<1>5. pcalls' = [pcalls EXCEPT ![c] = k]
  BY <1>2, <1>4
<1>6. k = [at |-> Then(pcalls[c].kind, info), kind |-> pcalls[c].kind, info |-> info, email |-> pcalls[c].email]
  BY <1>1, <1>4 DEF ProxyCallOK
<1>7. Then(pcalls[c].kind, info) \in ProxyWay(pcalls[c].kind)
  BY <1>1, <1>3 DEF Then, ProxyWay, StartGoes, StopGoes, HttpsGoes, TraefikStates
<1>8. ProxyCallOK(k) /\ k # NoCall
  BY <1>1, <1>3, <1>6, <1>7 DEF ProxyCallOK, NoCall
<1>9. ~disturbed => KeepsPromise(k)'
  <2> SUFFICES ASSUME ~disturbed PROVE KeepsPromise(k)'
    OBVIOUS
  <2>1. /\ promised.https => container.https
        /\ promised.serving => container.serving
    BY <1>1 DEF KeepsPromise
  <2>2. k.at \in {"start", "after", "recreate"} => info = container
    <3>1. info = Gone => Then(pcalls[c].kind, info) \in {"run", "refuse"}
      BY <1>1, GoneIs DEF Then, StartGoes, StopGoes, HttpsGoes
    <3>2. k.at = Then(pcalls[c].kind, info)
      BY <1>6
    <3> QED
      BY <1>2, <3>1, <3>2
  <2>3. promised.https => container # Gone
    BY <2>1, GoneIs
  <2>4. k.info = info
    BY <1>6
  <2> QED
    BY <1>1, <2>1, <2>2, <2>3, <2>4 DEF KeepsPromise, Gone
<1> QED
  BY <1>1, <1>5, <1>8, <1>9, ProxyCallMoves

\* The proxy is there or not, and nothing is promised.
LEMMA ProxyBegins == ASSUME ProxyInit PROVE ProxyInv
<1>1. container \in TraefikStates /\ Mailed(container)
  <2>1. Gone \in TraefikStates /\ Mailed(Gone)
    BY DEF TraefikStates, Gone, Images, Mailed
  <2>2. \A i \in Images : LET m == [Made("running", FALSE, NoEmail) EXCEPT !.image = i] IN m \in TraefikStates /\ Mailed(m)
    BY DEF TraefikStates, Made, Images, Mailed
  <2> QED
    BY <2>1, <2>2 DEF ProxyInit
<1>2. network \in BOOLEAN
  BY DEF ProxyInit
<1>3. ProxyTypes
  BY <1>1, <1>2, NoCallOK DEF ProxyInit, ProxyTypes
<1>4. ~promised.https /\ ~promised.serving /\ \A c \in ProxyCallers : pcalls[c] = NoCall
  BY DEF ProxyInit
<1> QED
  BY <1>3, <1>4 DEF ProxyInv, ProxyAsPromised

\* As long as every call succeeded or refused and none overlapped another, the
\* proxy a call made HTTPS stays so with its email through every stop, start,
\* update and repair, and a start that succeeds leaves a proxy that serves, for any
\* callers and any number of calls and failures (Start, Stop, EnsureHTTPS).
THEOREM ProxyServes == ProxySpec => []ProxyAsPromised
<1>1. ProxyInit => ProxyInv
  BY ProxyBegins
<1>2. ProxyInv /\ [ProxyNext]_pvars => ProxyInv'
  <2> SUFFICES ASSUME ProxyInv, [ProxyNext]_pvars PROVE ProxyInv'
    OBVIOUS
  <2>1. CASE Shaken
    BY <2>1, ProxyShakenStep
  <2>2. ASSUME NEW c \in ProxyCallers,
               \/ ProxyBegin(c) \/ EnsureNetwork(c) \/ Look(c) \/ Refuse(c) \/ SupportsHTTPS(c) \/ Restart(c)
               \/ After(c) \/ recreate(c) \/ StopContainer(c) \/ Remove(c) \/ Run(c) \/ ProxyKilled(c)
        PROVE  ProxyInv'
    BY <2>2, ProxyBeginStep, ProxyNetworkStep, ProxyLookStep, ProxyRefuseStep, ProxySupportsStep, ProxyRestartStep, ProxyAfterStep, ProxyRecreateStep,
       ProxyStopStep, ProxyRemoveStep, ProxyRunStep, ProxyKilledStep
  <2>3. CASE UNCHANGED pvars
    <3>1. \A c \in ProxyCallers : ProxyCallOK(pcalls[c])'
      BY <2>3 DEF pvars, ProxyInv, ProxyTypes, ProxyCallOK, NoCall, Mailed, TraefikStates, ProxyWay
    <3>2. ProxyTypes'
      BY <2>3, <3>1 DEF pvars, ProxyInv, ProxyTypes, TraefikStates, Mailed
    <3> QED
      BY <2>3, <3>2 DEF pvars, ProxyInv, KeepsPromise, ProxyAsPromised, NoCall, Gone
  <2> QED
    BY <2>1, <2>2, <2>3 DEF ProxyNext
<1>3. ProxyInv => ProxyAsPromised
  BY DEF ProxyInv
<1> QED
  BY <1>1, <1>2, <1>3, PTL DEF ProxySpec
-----------------------------------------------------------------------------
(* MCP clients: the invariant *)

McpSteps == {"idle", "planned", "apply", "backup", "write", "shown", "run", "again", "done", "failed", "refused", "killed"}

Contents == [entry : {"missing", NoEntry, Old} \cup Installers, rest : Nat]
CmdLists == {<<>>, <<"remove">>, <<"add-json">>, <<"remove", "add-json">>}
McpJobs  == [pc : McpSteps, op : {"install", "remove"}, path : Paths, old : Contents, seen : Contents, cmds : CmdLists,
             retry : BOOLEAN, absentOK : BOOLEAN, removed : BOOLEAN, took : BOOLEAN, late : BOOLEAN, told : BOOLEAN]

McpTypes ==
  /\ files \in [Paths -> Contents]
  /\ claude \in {NoEntry, Old} \cup Installers
  /\ rewrites \in Nat
  /\ jobs \in [Installers -> McpJobs]

\* What an installer knows of the file it is to replace: the one it read last is
\* the one it planned for, and has a backup.
FileKnown(j) ==
  /\ j.pc = "idle" => j = Resting
  /\ j.pc \in {"planned", "apply", "backup", "write"} => ~j.took
  /\ j.pc \in {"backup", "write"} => j.seen = j.old
  /\ j.pc = "write" => j.old = Missing \/ j.old \in baks
  /\ j.pc \in {"run", "again"} => j.cmds # <<>>

\* And of the entry it took out of Claude Code's: what it is about to say.
EntryKnown(j) ==
  j.op = "install" =>
    /\ ~j.absentOK
    /\ j.pc \in {"shown", "run", "again"} => j.cmds \in {<<>>, <<"add-json">>, <<"remove", "add-json">>}
    /\ j.pc = "again" => j.cmds = <<"add-json">> /\ ~j.took
    /\ j.pc \in {"shown", "run"} /\ j.cmds = <<"remove", "add-json">> => ~j.took
    /\ j.pc \in {"shown", "refused", "done"} => ~j.took
    /\ j.pc = "run" /\ j.took => j.removed
    /\ j.pc = "failed" /\ j.took => j.told \/ j.late

McpInv == McpTypes /\ \A p \in Installers : FileKnown(jobs[p]) /\ EntryKnown(jobs[p])


\* An action of p changes its own state; a backup stays.
LEMMA JobMoves ==
  ASSUME McpInv, NEW p \in Installers, NEW j \in McpJobs, jobs' = [jobs EXCEPT ![p] = j], baks \subseteq baks',
         files' \in [Paths -> Contents], claude' \in {NoEntry, Old} \cup Installers, rewrites' \in Nat,
         FileKnown(j)', EntryKnown(j)
  PROVE  McpInv'
<1>1. McpTypes'
  BY DEF McpInv, McpTypes
<1>2. ASSUME NEW q \in Installers PROVE FileKnown(jobs[q])' /\ EntryKnown(jobs[q])'
  <2>1. CASE q = p
    <3>1. jobs'[q] = j
      BY <2>1 DEF McpInv, McpTypes
    <3>. QED
      BY <3>1 DEF FileKnown, EntryKnown
  <2>2. CASE q # p
    <3>1. jobs'[q] = jobs[q]
      BY <2>2 DEF McpInv, McpTypes
    <3>2. FileKnown(jobs[q]) /\ EntryKnown(jobs[q])
      BY DEF McpInv
    <3>. QED
      BY <3>1, <3>2 DEF FileKnown, EntryKnown
  <2>. QED
    BY <2>1, <2>2
<1>. QED
  BY <1>1, <1>2 DEF McpInv

LEMMA McpInvInit == McpInit => McpInv
<1>. SUFFICES ASSUME McpInit PROVE McpInv
  OBVIOUS
<1>1. Missing \in Contents /\ [entry : {NoEntry, Old}, rest : {0}] \subseteq Contents
  BY DEF Missing, Contents
<1>2. files \in [Paths -> Contents]
  BY <1>1 DEF McpInit, Paths
<1>3. Resting \in McpJobs /\ FileKnown(Resting) /\ EntryKnown(Resting)
  BY <1>1 DEF Resting, McpJobs, McpSteps, Paths, CmdLists, FileKnown, EntryKnown
<1>. QED
  BY <1>2, <1>3 DEF McpInit, McpInv, McpTypes

LEMMA CmdFacts ==
  /\ Head(<<"remove">>) = "remove" /\ Head(<<"add-json">>) = "add-json" /\ Head(<<"remove", "add-json">>) = "remove"
  /\ Tail(<<"remove">>) = <<>> /\ Tail(<<"add-json">>) = <<>> /\ Tail(<<"remove", "add-json">>) = <<"add-json">>
  /\ Len(<<"remove">>) = 1 /\ Len(<<"add-json">>) = 1 /\ Len(<<"remove", "add-json">>) = 2
  /\ <<"remove">> # <<>> /\ <<"add-json">> # <<>> /\ <<"remove", "add-json">> # <<>>
  /\ <<"remove">> # <<"add-json">> /\ <<"remove">> # <<"remove", "add-json">> /\ <<"add-json">> # <<"remove", "add-json">>
OBVIOUS

LEMMA McpInvKept == McpInv /\ [McpNext]_mvars => McpInv'
<1>. SUFFICES ASSUME McpInv, [McpNext]_mvars PROVE McpInv'
  OBVIOUS
<1>1. /\ files \in [Paths -> Contents] /\ claude \in {NoEntry, Old} \cup Installers /\ rewrites \in Nat
      /\ jobs \in [Installers -> McpJobs]
      /\ \A p \in Installers : jobs[p] \in McpJobs /\ FileKnown(jobs[p]) /\ EntryKnown(jobs[p])
  BY DEF McpInv, McpTypes
<1>2. CASE UNCHANGED mvars
  BY <1>2 DEF McpInv, McpTypes, FileKnown, EntryKnown, mvars
<1>3. ASSUME NEW p \in Installers, PlanFile(p) PROVE McpInv'
  <2>1. ConfigPath(files) \in Paths /\ files[ConfigPath(files)] \in Contents
    BY <1>1 DEF ConfigPath, Paths
  <2>2. PICK what \in {"install", "remove"}, path \in Paths, was \in Contents :
          jobs' = [jobs EXCEPT ![p] = [jobs[p] EXCEPT !.pc = "planned", !.op = what, !.path = path, !.old = was]]
    <3>1. PICK path \in Paths, was \in Contents : path = ConfigPath(files) /\ was = files[ConfigPath(files)]
      BY <2>1
    <3>2. PICK what \in {"install", "remove"} :
            jobs' = [jobs EXCEPT ![p].pc = "planned", ![p].op = what, ![p].path = path, ![p].old = was]
      BY <1>3, <3>1 DEF PlanFile
    <3>3. jobs' = [jobs EXCEPT ![p] = [jobs[p] EXCEPT !.pc = "planned", !.op = what, !.path = path, !.old = was]]
      BY <1>1, <3>2
    <3>. QED
      BY <3>3
  <2>3. PICK j : j = [jobs[p] EXCEPT !.pc = "planned", !.op = what, !.path = path, !.old = was]
    OBVIOUS
  <2>4. j \in McpJobs
    BY <1>1, <2>3 DEF McpJobs, McpSteps
  <2>5. j.pc = "planned" /\ ~j.took /\ ~j.absentOK
    BY <1>1, <1>3, <2>3 DEF PlanFile, FileKnown, Resting, McpJobs
  <2>6. FileKnown(j)' /\ EntryKnown(j)
    BY <2>5 DEF FileKnown, EntryKnown
  <2>. QED
    BY <1>1, <1>3, <2>2, <2>3, <2>4, <2>6, JobMoves DEF PlanFile
\* A step of p that changes where it is, and maybe what it has seen.
<1>4. ASSUME NEW p \in Installers, NEW step \in {"apply", "refused", "backup", "write", "failed", "done", "killed"},
             NEW seen \in Contents, jobs' = [jobs EXCEPT ![p] = [jobs[p] EXCEPT !.pc = step, !.seen = seen]],
             jobs[p].pc \in {"planned", "apply", "backup", "write"} \/ step = "killed" \/ (jobs[p].pc = "shown" /\ step = "refused"),
             step \in {"backup", "write"} => seen = jobs[p].old,
             step = "write" => jobs[p].old = Missing \/ jobs[p].old \in baks',
             baks \subseteq baks', files' \in [Paths -> Contents], UNCHANGED <<claude, rewrites>>
      PROVE  McpInv'
  <2>1. PICK j : j = [jobs[p] EXCEPT !.pc = step, !.seen = seen]
    OBVIOUS
  <2>2. j \in McpJobs
    BY <1>1, <1>4, <2>1 DEF McpJobs, McpSteps
  <2>3. /\ j.pc = step /\ j.seen = seen /\ j.old = jobs[p].old /\ j.op = jobs[p].op /\ j.took = jobs[p].took
        /\ j.absentOK = jobs[p].absentOK
    BY <1>1, <2>1 DEF McpJobs
  <2>4. FileKnown(j)'
    BY <1>1, <1>4, <2>3 DEF FileKnown
  <2>5. EntryKnown(j)
    BY <1>1, <1>4, <2>3 DEF EntryKnown, FileKnown
  <2>. QED
    BY <1>1, <1>4, <2>1, <2>2, <2>4, <2>5, JobMoves
<1>5. ASSUME NEW p \in Installers, NEW step, McpGoto(p, step)
      PROVE  jobs[p].seen \in Contents /\ jobs' = [jobs EXCEPT ![p] = [jobs[p] EXCEPT !.pc = step, !.seen = jobs[p].seen]]
  <2>1. PICK r : r = jobs[p]
    OBVIOUS
  <2>2. r \in McpJobs
    BY <1>1, <2>1
  <2>3. [r EXCEPT !.pc = step, !.seen = r.seen] = [r EXCEPT !.pc = step]
    BY <2>2 DEF McpJobs
  <2>. QED
    BY <1>5, <2>1, <2>2, <2>3 DEF McpGoto, McpJobs
<1>6. ASSUME NEW p \in Installers, NEW step \in {"apply", "refused", "failed", "done", "killed"}, McpGoto(p, step),
             jobs[p].pc \in {"planned", "apply", "backup", "write"} \/ step = "killed" \/ (jobs[p].pc = "shown" /\ step = "refused"),
             baks \subseteq baks', files' \in [Paths -> Contents], UNCHANGED <<claude, rewrites>>
      PROVE  McpInv'
  <2>1. PICK seen \in Contents : seen = jobs[p].seen
    BY <1>5, <1>6
  <2>2. jobs' = [jobs EXCEPT ![p] = [jobs[p] EXCEPT !.pc = step, !.seen = seen]]
    BY <1>5, <1>6, <2>1
  <2>. QED
    BY <1>4, <1>6, <2>2
<1>7. ASSUME NEW p \in Installers, Answer(p) PROVE McpInv'
  <2>1. \E step \in {"apply", "refused"} : McpGoto(p, step)
    BY <1>7 DEF Answer
  <2>. QED
    BY <1>1, <1>6, <1>7, <2>1 DEF Answer
<1>8. ASSUME NEW p \in Installers, Reread(p) PROVE McpInv'
  <2>1. files[jobs[p].path] \in Contents
    BY <1>1 DEF McpJobs
  <2>2. PICK seen \in Contents : seen = files[jobs[p].path]
    BY <2>1
  <2>3. PICK step \in {"failed", "write", "backup"} :
          /\ step = IF seen # jobs[p].old THEN "failed" ELSE IF seen = Missing THEN "write" ELSE "backup"
          /\ jobs' = [jobs EXCEPT ![p] = [jobs[p] EXCEPT !.pc = step, !.seen = seen]]
    <3>1. jobs' = [jobs EXCEPT ![p].seen = seen, ![p].pc = IF seen # jobs[p].old THEN "failed" ELSE IF seen = Missing THEN "write" ELSE "backup"]
      BY <1>8, <2>2 DEF Reread
    <3>2. PICK r : r = jobs[p]
      OBVIOUS
    <3>3. PICK step : step = IF seen # r.old THEN "failed" ELSE IF seen = Missing THEN "write" ELSE "backup"
      OBVIOUS
    <3>4. [r EXCEPT !.seen = seen, !.pc = step] = [r EXCEPT !.pc = step, !.seen = seen]
      BY <1>1, <3>2 DEF McpJobs
    <3>5. jobs' = [jobs EXCEPT ![p] = [r EXCEPT !.seen = seen, !.pc = step]]
      BY <1>1, <3>1, <3>2, <3>3
    <3>. QED
      BY <3>2, <3>3, <3>4, <3>5
  <2>. QED
    BY <1>1, <1>4, <1>8, <2>3 DEF Reread
<1>9. ASSUME NEW p \in Installers, WriteBackup(p) PROVE McpInv'
  <2>1. jobs[p].seen = jobs[p].old
    BY <1>1, <1>9 DEF WriteBackup, FileKnown
  <2>2. CASE McpGoto(p, "write") /\ baks' = baks \cup {jobs[p].old}
    BY <1>1, <1>4, <1>5, <1>9, <2>1, <2>2 DEF WriteBackup
  <2>3. CASE McpGoto(p, "failed") /\ UNCHANGED baks
    BY <1>1, <1>6, <1>9, <2>3 DEF WriteBackup
  <2>. QED
    BY <1>9, <2>2, <2>3 DEF WriteBackup
<1>10. ASSUME NEW p \in Installers, WriteFile(p) PROVE McpInv'
  <2>1. Edited(p) \in Contents
    BY <1>1 DEF Edited, Wanted, McpJobs, Contents
  <2>2. files' \in [Paths -> Contents]
    BY <1>1, <1>10, <2>1 DEF WriteFile
  <2>3. \E step \in {"done", "failed"} : McpGoto(p, step)
    BY <1>10 DEF WriteFile
  <2>. QED
    BY <1>1, <1>6, <1>10, <2>2, <2>3 DEF WriteFile
<1>11. ASSUME NEW p \in Installers, Kill(p) PROVE McpInv'
  BY <1>1, <1>6, <1>11 DEF Kill
<1>12. ASSUME Rewrite PROVE McpInv'
  <2>1. \A path \in Paths : [entry |-> IF files[path] = Missing THEN NoEntry ELSE files[path].entry, rest |-> rewrites + 1] \in Contents
    BY <1>1 DEF Contents
  <2>2. AppReads(files) \in Paths
    BY DEF AppReads, Paths
  <2>3. files' \in [Paths -> Contents]
    BY <1>1, <1>12, <2>1, <2>2 DEF Rewrite
  <2>. QED
    BY <1>1, <1>12, <2>3 DEF Rewrite, McpInv, McpTypes, FileKnown, EntryKnown
<1>13. ASSUME ByHand PROVE McpInv'
  BY <1>1, <1>13 DEF ByHand, McpInv, McpTypes, FileKnown, EntryKnown
<1>14. ASSUME NEW p \in Installers, PlanInstall(p) PROVE McpInv'
  <2>1. PICK retry \in BOOLEAN, cmds \in {<<>>, <<"remove", "add-json">>, <<"add-json">>} :
          jobs' = [jobs EXCEPT ![p].pc = "shown", ![p].op = "install", ![p].retry = retry, ![p].cmds = cmds]
    <3>1. PICK known \in BOOLEAN :
            jobs' = [jobs EXCEPT ![p].pc = "shown", ![p].op = "install", ![p].retry = ~known \/ claude = NoEntry,
                                 ![p].cmds = IF known /\ claude = p THEN <<>>
                                             ELSE IF known /\ claude # NoEntry THEN <<"remove", "add-json">> ELSE <<"add-json">>]
      BY <1>14 DEF PlanInstall
    <3>2. PICK retry \in BOOLEAN : retry = (~known \/ claude = NoEntry)
      OBVIOUS
    <3>3. PICK cmds \in {<<>>, <<"remove", "add-json">>, <<"add-json">>} :
            cmds = IF known /\ claude = p THEN <<>>
                   ELSE IF known /\ claude # NoEntry THEN <<"remove", "add-json">> ELSE <<"add-json">>
      OBVIOUS
    <3>. QED
      BY <3>1, <3>2, <3>3
  <2>2. PICK j : j = [jobs[p] EXCEPT !.pc = "shown", !.op = "install", !.retry = retry, !.cmds = cmds]
    OBVIOUS
  <2>3. jobs' = [jobs EXCEPT ![p] = j]
    BY <1>1, <2>1, <2>2
  <2>4. j \in McpJobs
    BY <1>1, <2>2 DEF McpJobs, McpSteps, CmdLists
  <2>5. j.pc = "shown" /\ ~j.took /\ ~j.absentOK /\ j.cmds = cmds
    BY <1>1, <1>14, <2>2 DEF PlanInstall, FileKnown, Resting, McpJobs
  <2>6. FileKnown(j)' /\ EntryKnown(j)
    BY <2>5 DEF FileKnown, EntryKnown
  <2>. QED
    BY <1>1, <1>14, <2>3, <2>4, <2>6, JobMoves DEF PlanInstall
<1>15. ASSUME NEW p \in Installers, PlanUninstall(p) PROVE McpInv'
  <2>1. PICK absent \in BOOLEAN, cmds \in {<<>>, <<"remove">>} :
          jobs' = [jobs EXCEPT ![p].pc = "shown", ![p].op = "remove", ![p].absentOK = absent, ![p].cmds = cmds]
    <3>1. PICK known \in BOOLEAN :
            jobs' = [jobs EXCEPT ![p].pc = "shown", ![p].op = "remove", ![p].absentOK = ~known,
                                 ![p].cmds = IF known /\ claude = NoEntry THEN <<>> ELSE <<"remove">>]
      BY <1>15 DEF PlanUninstall
    <3>2. PICK cmds \in {<<>>, <<"remove">>} : cmds = IF known /\ claude = NoEntry THEN <<>> ELSE <<"remove">>
      OBVIOUS
    <3>3. PICK absent \in BOOLEAN : absent = ~known
      OBVIOUS
    <3>. QED
      BY <3>1, <3>2, <3>3
  <2>2. PICK j : j = [jobs[p] EXCEPT !.pc = "shown", !.op = "remove", !.absentOK = absent, !.cmds = cmds]
    OBVIOUS
  <2>3. jobs' = [jobs EXCEPT ![p] = j]
    BY <1>1, <2>1, <2>2
  <2>4. j \in McpJobs
    BY <1>1, <2>1, <2>2 DEF McpJobs, McpSteps, CmdLists
  <2>5. j.pc = "shown" /\ j.op = "remove"
    BY <1>1, <2>2 DEF McpJobs
  <2>6. FileKnown(j)' /\ EntryKnown(j)
    BY <2>5 DEF FileKnown, EntryKnown
  <2>. QED
    BY <1>1, <1>15, <2>3, <2>4, <2>6, JobMoves DEF PlanUninstall
<1>16. ASSUME NEW p \in Installers, Confirm(p) PROVE McpInv'
  <2>1. CASE McpGoto(p, "refused")
    BY <1>1, <1>6, <1>16, <2>1 DEF Confirm
  <2>2. CASE McpGoto(p, "run") /\ jobs[p].cmds # <<>>
    <3>1. PICK j : j = [jobs[p] EXCEPT !.pc = "run"]
      OBVIOUS
    <3>2. j \in McpJobs
      BY <1>1, <3>1 DEF McpJobs, McpSteps
    <3>3. /\ j.pc = "run" /\ j.op = jobs[p].op /\ j.took = jobs[p].took /\ j.absentOK = jobs[p].absentOK /\ j.cmds = jobs[p].cmds
          /\ j.removed = jobs[p].removed
      BY <1>1, <3>1 DEF McpJobs
    <3>4. FileKnown(j)'
      BY <2>2, <3>3 DEF FileKnown
    <3>5. EntryKnown(j)
      BY <1>1, <1>16, <2>2, <3>3 DEF EntryKnown, Confirm
    <3>6. jobs' = [jobs EXCEPT ![p] = j]
      BY <2>2, <3>1 DEF McpGoto
    <3>. QED
      BY <1>1, <1>16, <3>2, <3>4, <3>5, <3>6, JobMoves DEF Confirm
  <2>. QED
    BY <1>16, <2>1, <2>2 DEF Confirm
<1>17. ASSUME NEW p \in Installers, NEW j \in McpJobs, jobs' = [jobs EXCEPT ![p] = j], EntryKnown(j),
              j.pc \in {"run", "again", "done", "failed"}, j.pc \in {"run", "again"} => j.cmds # <<>>,
              UNCHANGED <<files, baks, rewrites>>, claude' \in {NoEntry, Old} \cup Installers
       PROVE  McpInv'
  <2>1. FileKnown(j)'
    BY <1>17 DEF FileKnown
  <2>. QED
    BY <1>1, <1>17, <2>1, JobMoves
\* What a running installer knows, and what a command may leave of claude's entry.
<1>18. \A p \in Installers, cmd \in {"remove", "add-json"} : EntryAfter(p, cmd) \in {NoEntry, Old} \cup Installers
  BY DEF EntryAfter
<1>19. ASSUME NEW r \in McpJobs, r.pc = "run", FileKnown(r)
       PROVE  /\ Head(r.cmds) \in {"remove", "add-json"}
              /\ Tail(r.cmds) \in CmdLists
              /\ Len(r.cmds) # 1 => Tail(r.cmds) # <<>>
              /\ Head(r.cmds) = "add-json" => r.cmds = <<"add-json">>
  <2>1. r.cmds \in {<<"remove">>, <<"add-json">>, <<"remove", "add-json">>}
    BY <1>19 DEF McpJobs, CmdLists, FileKnown
  <2>2. CASE r.cmds = <<"remove">>
    BY <2>2, CmdFacts DEF CmdLists
  <2>3. CASE r.cmds = <<"add-json">>
    BY <2>3, CmdFacts DEF CmdLists
  <2>4. CASE r.cmds = <<"remove", "add-json">>
    BY <2>4, CmdFacts DEF CmdLists
  <2>. QED
    BY <2>1, <2>2, <2>3, <2>4
<1>20. ASSUME NEW p \in Installers, RunWorks(p) PROVE McpInv'
  <2>1. PICK r : r = jobs[p]
    OBVIOUS
  <2>2. r \in McpJobs /\ r.pc = "run" /\ FileKnown(r) /\ EntryKnown(r)
    BY <1>1, <1>20, <2>1 DEF RunWorks
  <2>3. PICK cmd : cmd = Head(r.cmds)
    OBVIOUS
  <2>4. PICK j : j = Proceed(Ran(p, cmd, r))
    OBVIOUS
  <2>5. jobs' = [jobs EXCEPT ![p] = j] /\ claude' = EntryAfter(p, cmd) /\ UNCHANGED <<files, baks, rewrites>>
    BY <1>1, <1>20, <2>1, <2>3, <2>4 DEF RunWorks
  <2>6. PICK took \in BOOLEAN : took = (cmd = "remove")
    OBVIOUS
  <2>7. PICK removed \in BOOLEAN : removed = (r.removed \/ cmd = "remove")
    OBVIOUS
  <2>8. /\ j \in McpJobs /\ j.cmds = Tail(r.cmds) /\ j.pc = (IF Len(r.cmds) = 1 THEN "done" ELSE "run")
        /\ j.removed = removed /\ j.took = took /\ j.op = r.op /\ j.absentOK = r.absentOK
    <3>1. PICK t : t = [r EXCEPT !.took = took]
      OBVIOUS
    <3>2. t \in McpJobs /\ t.cmds = r.cmds /\ t.removed = r.removed /\ t.took = took /\ t.op = r.op /\ t.absentOK = r.absentOK
      BY <2>2, <3>1 DEF McpJobs
    <3>3. PICK step \in {"done", "run"} : step = IF Len(r.cmds) = 1 THEN "done" ELSE "run"
      OBVIOUS
    <3>4. PICK cmds \in CmdLists : cmds = Tail(r.cmds)
      BY <1>19, <2>2
    <3>5. j = [t EXCEPT !.cmds = cmds, !.pc = step, !.removed = removed]
      BY <2>3, <2>4, <2>6, <2>7, <3>1, <3>2, <3>3, <3>4 DEF Proceed, Ran
    <3>. QED
      BY <3>2, <3>3, <3>4, <3>5 DEF McpJobs, McpSteps
  <2>9. EntryKnown(j)
    <3>1. SUFFICES ASSUME r.op = "install" PROVE EntryKnown(j)
      BY <2>8 DEF EntryKnown
    <3>2. r.cmds \in {<<"add-json">>, <<"remove", "add-json">>} /\ ~r.absentOK
      BY <2>2, <3>1 DEF EntryKnown, FileKnown
    <3>3. CASE r.cmds = <<"add-json">>
      BY <2>3, <2>6, <2>8, <3>2, <3>3, CmdFacts DEF EntryKnown
    <3>4. CASE r.cmds = <<"remove", "add-json">>
      BY <2>3, <2>7, <2>8, <3>2, <3>4, CmdFacts DEF EntryKnown
    <3>. QED
      BY <3>2, <3>3, <3>4
  <2>10. j.pc \in {"run", "done"} /\ (j.pc = "run" => j.cmds # <<>>)
    BY <1>19, <2>2, <2>8
  <2>11. claude' \in {NoEntry, Old} \cup Installers
    BY <1>18, <1>19, <2>2, <2>3, <2>5
  <2>. QED
    BY <1>17, <2>5, <2>8, <2>9, <2>10, <2>11
\* An installer that gives up tells what it removed.
<1>21. ASSUME NEW r \in McpJobs, EntryKnown(r), r.pc = "run"
       PROVE  GiveUp(r) \in McpJobs /\ EntryKnown(GiveUp(r)) /\ GiveUp(r).pc = "failed"
  <2>1. PICK told \in BOOLEAN : told = r.removed
    BY <1>21 DEF McpJobs
  <2>2. PICK j : j = [r EXCEPT !.pc = "failed", !.told = told]
    OBVIOUS
  <2>3. /\ j \in McpJobs /\ j.pc = "failed" /\ j.told = r.removed /\ j.took = r.took /\ j.op = r.op /\ j.absentOK = r.absentOK
    BY <1>21, <2>1, <2>2 DEF McpJobs, McpSteps
  <2>4. EntryKnown(j)
    BY <1>21, <2>3 DEF EntryKnown
  <2>. QED
    BY <2>1, <2>2, <2>3, <2>4 DEF GiveUp
<1>22. ASSUME NEW p \in Installers, RunRefused(p) PROVE McpInv'
  <2>1. PICK r : r = jobs[p]
    OBVIOUS
  <2>2. r \in McpJobs /\ r.pc = "run" /\ EntryKnown(r) /\ FileKnown(r) /\ UNCHANGED <<files, baks, installed, claude, rewrites>>
    BY <1>1, <1>22, <2>1 DEF RunRefused
  <2>3. CASE Head(r.cmds) = "remove" /\ r.absentOK
    <3>1. PICK j : j = [r EXCEPT !.pc = "done"]
      OBVIOUS
    <3>2. jobs' = [jobs EXCEPT ![p] = j]
      BY <1>22, <2>1, <2>3, <3>1 DEF RunRefused
    <3>3. j \in McpJobs /\ j.op = r.op /\ j.pc = "done"
      BY <2>2, <3>1 DEF McpJobs, McpSteps
    <3>4. EntryKnown(j)
      BY <2>2, <2>3, <3>3 DEF EntryKnown
    <3>. QED
      BY <1>1, <1>17, <2>2, <3>2, <3>3, <3>4
  <2>4. CASE Head(r.cmds) = "add-json" /\ r.retry /\ ~r.removed
    <3>1. PICK j : j = [r EXCEPT !.pc = "again"]
      OBVIOUS
    <3>2. jobs' = [jobs EXCEPT ![p] = j]
      BY <1>22, <2>1, <2>4, <3>1 DEF RunRefused
    <3>3. /\ j \in McpJobs /\ j.op = r.op /\ j.pc = "again" /\ j.cmds = r.cmds /\ j.took = r.took /\ j.removed = r.removed
          /\ j.absentOK = r.absentOK
      BY <2>2, <3>1 DEF McpJobs, McpSteps
    <3>4. r.cmds = <<"add-json">>
      BY <1>19, <2>2, <2>4
    <3>5. EntryKnown(j)
      BY <2>2, <2>4, <3>3, <3>4 DEF EntryKnown
    <3>6. j.cmds # <<>>
      BY <3>3, <3>4, CmdFacts
    <3>. QED
      BY <1>1, <1>17, <2>2, <3>2, <3>3, <3>5, <3>6
  <2>5. CASE jobs' = [jobs EXCEPT ![p] = GiveUp(r)]
    <3>1. PICK j : j = GiveUp(r)
      OBVIOUS
    <3>2. j \in McpJobs /\ EntryKnown(j) /\ j.pc = "failed"
      BY <1>21, <2>2, <3>1
    <3>. QED
      BY <1>1, <1>17, <2>2, <2>5, <3>1, <3>2
  <2>6. \/ Head(r.cmds) = "remove" /\ r.absentOK
        \/ Head(r.cmds) = "add-json" /\ r.retry /\ ~r.removed
        \/ jobs' = [jobs EXCEPT ![p] = GiveUp(r)]
    BY <1>22, <2>1 DEF RunRefused
  <2>. QED
    BY <2>3, <2>4, <2>5, <2>6
<1>23. ASSUME NEW p \in Installers, RunFails(p) PROVE McpInv'
  <2>1. PICK r : r = jobs[p]
    OBVIOUS
  <2>2. r \in McpJobs /\ r.pc = "run" /\ EntryKnown(r) /\ FileKnown(r) /\ UNCHANGED <<files, baks, installed, rewrites>>
    BY <1>1, <1>23, <2>1 DEF RunFails
  <2>3. CASE jobs' = [jobs EXCEPT ![p] = GiveUp(r)] /\ UNCHANGED claude
    <3>1. PICK j : j = GiveUp(r)
      OBVIOUS
    <3>2. j \in McpJobs /\ EntryKnown(j) /\ j.pc = "failed"
      BY <1>21, <2>2, <3>1
    <3>. QED
      BY <1>1, <1>17, <2>2, <2>3, <3>1, <3>2
  <2>4. CASE /\ claude' = EntryAfter(p, Head(r.cmds))
             /\ jobs' = [jobs EXCEPT ![p] = GiveUp([Ran(p, Head(r.cmds), r) EXCEPT !.late = TRUE])]
    <3>1. PICK j : j = GiveUp([Ran(p, Head(r.cmds), r) EXCEPT !.late = TRUE])
      OBVIOUS
    <3>2. j \in McpJobs /\ EntryKnown(j) /\ j.pc = "failed"
      <4>1. PICK took \in BOOLEAN : took = (Head(r.cmds) = "remove")
        OBVIOUS
      <4>2. PICK t : t = [r EXCEPT !.took = took, !.late = TRUE]
        OBVIOUS
      <4>3. t = [Ran(p, Head(r.cmds), r) EXCEPT !.late = TRUE]
        BY <2>2, <4>1, <4>2 DEF Ran, McpJobs
      <4>4. t \in McpJobs /\ t.late /\ t.op = r.op /\ t.absentOK = r.absentOK
        BY <2>2, <4>2 DEF McpJobs
      <4>5. PICK told \in BOOLEAN : told = t.removed
        BY <4>4 DEF McpJobs
      <4>6. j = [t EXCEPT !.pc = "failed", !.told = told]
        BY <3>1, <4>3, <4>5 DEF GiveUp
      <4>7. j \in McpJobs /\ j.pc = "failed" /\ j.late /\ j.op = r.op /\ j.absentOK = r.absentOK
        BY <4>4, <4>6 DEF McpJobs, McpSteps
      <4>8. EntryKnown(j)
        BY <2>2, <4>7 DEF EntryKnown
      <4>. QED
        BY <4>7, <4>8
    <3>3. claude' \in {NoEntry, Old} \cup Installers
      BY <1>18, <1>19, <2>2, <2>4
    <3>. QED
      BY <1>17, <2>2, <2>4, <3>1, <3>2, <3>3
  <2>. QED
    BY <1>23, <2>1, <2>3, <2>4 DEF RunFails
<1>24. ASSUME NEW p \in Installers, RemoveFirst(p) PROVE McpInv'
  <2>1. PICK r : r = jobs[p]
    OBVIOUS
  <2>2. /\ r \in McpJobs /\ r.pc = "again" /\ EntryKnown(r) /\ FileKnown(r) /\ UNCHANGED <<files, baks, installed, rewrites>>
        /\ claude' \in {NoEntry, Old} \cup Installers
    BY <1>1, <1>24, <2>1 DEF RemoveFirst
  <2>3. CASE jobs' = [jobs EXCEPT ![p].pc = "run", ![p].took = TRUE, ![p].removed = TRUE]
    <3>1. PICK j : j = [r EXCEPT !.pc = "run", !.took = TRUE, !.removed = TRUE]
      OBVIOUS
    <3>2. jobs' = [jobs EXCEPT ![p] = j]
      BY <1>1, <2>1, <2>3, <3>1
    <3>3. j \in McpJobs /\ j.op = r.op /\ j.pc = "run" /\ j.cmds = r.cmds /\ j.removed /\ j.absentOK = r.absentOK
      BY <2>2, <3>1 DEF McpJobs, McpSteps
    <3>4. r.op = "install" => r.cmds = <<"add-json">>
      BY <2>2 DEF EntryKnown
    <3>5. EntryKnown(j)
      BY <2>2, <3>3, <3>4, CmdFacts DEF EntryKnown
    <3>6. j.cmds # <<>>
      BY <2>2, <3>3 DEF FileKnown
    <3>. QED
      BY <1>17, <2>2, <3>2, <3>3, <3>5, <3>6
  <2>4. CASE jobs' = [jobs EXCEPT ![p].pc = "failed"]
    <3>1. PICK j : j = [r EXCEPT !.pc = "failed"]
      OBVIOUS
    <3>2. j \in McpJobs /\ j.op = r.op /\ j.pc = "failed" /\ j.took = r.took /\ j.absentOK = r.absentOK
      BY <2>2, <3>1 DEF McpJobs, McpSteps
    <3>3. EntryKnown(j)
      BY <2>2, <3>2 DEF EntryKnown
    <3>. QED
      BY <1>17, <2>1, <2>2, <2>4, <3>1, <3>2, <3>3
  <2>5. CASE jobs' = [jobs EXCEPT ![p].pc = "failed", ![p].took = TRUE, ![p].late = TRUE]
    <3>1. PICK j : j = [r EXCEPT !.pc = "failed", !.took = TRUE, !.late = TRUE]
      OBVIOUS
    <3>2. jobs' = [jobs EXCEPT ![p] = j]
      BY <1>1, <2>1, <2>5, <3>1
    <3>3. j \in McpJobs /\ j.op = r.op /\ j.pc = "failed" /\ j.late /\ j.absentOK = r.absentOK
      BY <2>2, <3>1 DEF McpJobs, McpSteps
    <3>4. EntryKnown(j)
      BY <2>2, <3>3 DEF EntryKnown
    <3>. QED
      BY <1>17, <2>2, <3>2, <3>3, <3>4
  <2>. QED
    BY <1>24, <2>3, <2>4, <2>5 DEF RemoveFirst
<1>. QED
  BY <1>2, <1>3, <1>7, <1>8, <1>9, <1>10, <1>11, <1>12, <1>13, <1>14, <1>15, <1>16, <1>20, <1>22, <1>23, <1>24 DEF McpNext

-----------------------------------------------------------------------------
(* MCP clients: theorems *)

\* McpInv always holds.
THEOREM McpInvAlways == McpSpec => []McpInv
BY McpInvInit, McpInvKept, PTL DEF McpSpec

\* An install that took the old entry out of Claude Code and then failed says
\* so, or a run of claude was killed late (applyClaudeCode).
THEOREM RemovalIsTold == McpSpec => []RemovalTold
<1>1. McpInv => RemovalTold
  <2>. SUFFICES ASSUME McpInv, NEW p \in Installers,
                       jobs[p].took /\ jobs[p].op = "install" /\ jobs[p].pc \in {"done", "failed"}
                PROVE  jobs[p].pc = "failed" /\ (jobs[p].told \/ jobs[p].late)
    BY DEF RemovalTold
  <2>. QED
    BY DEF McpInv, EntryKnown
<1>. QED
  BY <1>1, McpInvAlways, PTL

\* A client's file is replaced by one that differs in ffm's entry alone, and
\* its last version is in a backup (Apply).
THEOREM ReplacedIsKept == McpSpec => ReplacedKept
<1>1. McpInv /\ [McpNext]_mvars => [\A p \in Installers :
       jobs[p].pc = "write" /\ jobs'[p].pc = "done" /\ files[jobs[p].path] = jobs[p].seen =>
         LET path == jobs[p].path IN
         /\ There(files, path) => files[path] \in baks
         /\ files'[path].rest = files[path].rest]_mvars
  <2>. SUFFICES ASSUME McpInv, McpNext, NEW p \in Installers,
                       jobs[p].pc = "write", jobs'[p].pc = "done", files[jobs[p].path] = jobs[p].seen
                PROVE  LET path == jobs[p].path IN
                       /\ There(files, path) => files[path] \in baks
                       /\ files'[path].rest = files[path].rest
    OBVIOUS
  <2>1. files \in [Paths -> Contents] /\ jobs \in [Installers -> McpJobs] /\ jobs[p] \in McpJobs /\ FileKnown(jobs[p])
    BY DEF McpInv, McpTypes
  <2>2. PICK q \in Installers :
          \/ PlanFile(q) \/ Answer(q) \/ Reread(q) \/ WriteBackup(q) \/ WriteFile(q)
          \/ PlanInstall(q) \/ PlanUninstall(q) \/ Confirm(q)
          \/ RunWorks(q) \/ RunRefused(q) \/ RunFails(q) \/ RemoveFirst(q) \/ Kill(q)
    BY <2>1 DEF McpNext, Rewrite, ByHand
  \* Whatever q does, it changes its own state alone.
  <2>3. \E j : jobs' = [jobs EXCEPT ![q] = j]
    <3>1. \A step : McpGoto(q, step) => \E j : jobs' = [jobs EXCEPT ![q] = j]
      BY DEF McpGoto
    <3>2. CASE PlanFile(q)
      BY <3>1, <3>2 DEF PlanFile
    <3>3. CASE Answer(q)
      BY <3>1, <3>3 DEF Answer
    <3>4. CASE Reread(q)
      BY <3>1, <3>4 DEF Reread
    <3>5. CASE WriteBackup(q)
      BY <3>1, <3>5 DEF WriteBackup
    <3>6. CASE WriteFile(q)
      BY <3>1, <3>6 DEF WriteFile
    <3>7. CASE PlanInstall(q)
      <4>1. PICK known \in BOOLEAN :
              jobs' = [jobs EXCEPT ![q].pc = "shown", ![q].op = "install", ![q].retry = ~known \/ claude = NoEntry,
                                   ![q].cmds = IF known /\ claude = q THEN <<>>
                                               ELSE IF known /\ claude # NoEntry THEN <<"remove", "add-json">> ELSE <<"add-json">>]
        BY <3>7 DEF PlanInstall
      <4>2. PICK retry : retry = (~known \/ claude = NoEntry)
        OBVIOUS
      <4>3. PICK cmds : cmds = IF known /\ claude = q THEN <<>>
                               ELSE IF known /\ claude # NoEntry THEN <<"remove", "add-json">> ELSE <<"add-json">>
        OBVIOUS
      <4>4. jobs' = [jobs EXCEPT ![q] = [jobs[q] EXCEPT !.pc = "shown", !.op = "install", !.retry = retry, !.cmds = cmds]]
        BY <2>1, <4>1, <4>2, <4>3
      <4>. QED
        BY <4>4
    <3>8. CASE PlanUninstall(q)
      <4>1. PICK known \in BOOLEAN :
              jobs' = [jobs EXCEPT ![q].pc = "shown", ![q].op = "remove", ![q].absentOK = ~known,
                                   ![q].cmds = IF known /\ claude = NoEntry THEN <<>> ELSE <<"remove">>]
        BY <3>8 DEF PlanUninstall
      <4>2. PICK absent : absent = ~known
        OBVIOUS
      <4>3. PICK cmds : cmds = IF known /\ claude = NoEntry THEN <<>> ELSE <<"remove">>
        OBVIOUS
      <4>4. jobs' = [jobs EXCEPT ![q] = [jobs[q] EXCEPT !.pc = "shown", !.op = "remove", !.absentOK = absent, !.cmds = cmds]]
        BY <2>1, <4>1, <4>2, <4>3
      <4>. QED
        BY <4>4
    <3>9. CASE Confirm(q)
      BY <3>1, <3>9 DEF Confirm
    <3>10. CASE RunWorks(q)
      BY <3>1, <3>10 DEF RunWorks
    <3>11. CASE RunRefused(q)
      BY <3>1, <3>11 DEF RunRefused
    <3>12. CASE RunFails(q)
      BY <3>1, <3>12 DEF RunFails
    <3>13. CASE RemoveFirst(q)
      BY <3>1, <3>13 DEF RemoveFirst
    <3>14. CASE Kill(q)
      BY <3>1, <3>14 DEF Kill
    <3>. QED
      BY <2>2, <3>2, <3>3, <3>4, <3>5, <3>6, <3>7, <3>8, <3>9, <3>10, <3>11, <3>12, <3>13, <3>14
  <2>4. q = p
    BY <2>1, <2>3
  <2>5. WriteFile(p)
    <3>1. WriteFile(p) \/ Kill(p)
      BY <2>1, <2>2, <2>4 DEF PlanFile, Answer, Reread, WriteBackup, PlanInstall, PlanUninstall, Confirm, RunWorks, RunRefused,
           RunFails, RemoveFirst
    <3>2. ~Kill(p)
      BY <2>1 DEF Kill, McpGoto, McpJobs
    <3>. QED
      BY <3>1, <3>2
  <2>6. files' = [files EXCEPT ![jobs[p].path] = Edited(p)]
    <3>1. McpGoto(p, "failed") => jobs'[p].pc = "failed"
      BY <2>1 DEF McpGoto, McpJobs
    <3>. QED
      BY <2>1, <2>5, <3>1 DEF WriteFile
  <2>7. jobs[p].path \in Paths /\ files[jobs[p].path] = jobs[p].old /\ (jobs[p].old = Missing \/ jobs[p].old \in baks)
    BY <2>1 DEF FileKnown, McpJobs
  <2>. QED
    BY <2>1, <2>6, <2>7 DEF There, Edited
<1>. QED
  BY <1>1, McpInvInit, McpInvKept, PTL DEF McpSpec, ReplacedKept

-----------------------------------------------------------------------------
(* The hourly job *)

\* There is no lock: what holds, holds of commands that do not overlap.
OneAtATime == \A u, v \in Users : u = v

Versions == {1, 2}
Installing == {"install", "line", "load", "save"}
Removing   == {"remove", "unline", "unload", "delete"}
Commands == [pc : {"idle", "sync", "resolve", "end"} \cup Installing \cup Removing, op : {"none", "install", "uninstall"},
             flag : Backends \cup {"none"}, force : BOOLEAN, at : Backends \cup {"none"}, prev : Backends \cup {"none"},
             seen : {NoJob, Foreign} \cup Versions, told : BOOLEAN]

JobTypes ==
  /\ host.crontab \in BOOLEAN
  /\ version \in Versions
  /\ crontab \in {NoJob, Foreign} \cup Versions
  /\ stored \in [Files -> {NoJob} \cup Versions] /\ loaded \in [Files -> {NoJob} \cup Versions]
  /\ recorded \in Backends \cup {"none"}
  /\ work \in [Users -> Commands]
  /\ promise \in {"job", "none", "unsure"} /\ loose \in BOOLEAN
  /\ left \subseteq Backends \cup {"none"}

\* The backends that may run a job while a command does w: where the next one
\* would look for it, and the one it was moved to or from.
Home == IF recorded = "none" THEN {"cron"} ELSE {recorded}
MayRun(w) ==
  IF w.pc = "save" THEN {w.at, w.prev}
  ELSE IF w.pc \in Removing /\ w.op = "install" THEN {recorded, w.at}
  ELSE Home

\* What a backend runs, but for a job that was left behind.
Here(b) == IF b \in left THEN NoJob ELSE Runs(b)

RunsNow(b) == Runs(b) = version \/ (b = "launchd" /\ OldAgent)

\* What is loaded without its files was left behind.
FilesBehind(w) ==
  /\ \A b \in Files : loaded[b] # NoJob => stored[b] # NoJob \/ b \in left
  /\ crontab # NoJob => host.crontab

Places(w) == \A b \in Backends : Here(b) # NoJob => b \in MayRun(w)

\* Where a command is, and what it found.
CommandCourse(w) ==
  /\ w.pc = "idle" => w = NoCommand
  /\ w.pc = "sync" => w.flag = "none"
  /\ w.pc \notin {"idle", "sync"} => w.op \in {"install", "uninstall"}
  /\ w.pc = "resolve" /\ w.op = "uninstall" => w.flag = "none"
  /\ w.pc \in Installing =>
       /\ w.op = "install" /\ w.at \in Backends
       /\ w.prev \in Home \cup {"none"}
       /\ w.prev # "none" \/ recorded = "none"
       /\ w.prev = "none" => Here("cron") = NoJob \/ w.at = "cron"
  /\ w.pc \in {"install", "line"} /\ w.at = "cron" => host.crontab
  /\ w.pc = "line" => w.at = "cron"
  /\ w.pc = "load" => w.at \in Files
  /\ w.pc \in {"load", "save"} /\ w.at \in Files => stored[w.at] = version
  /\ w.pc \in Removing => w.at \in Backends
  /\ w.pc \in Removing /\ w.op = "install" => recorded \in Backends /\ recorded # w.at
  /\ w.pc = "unline" => w.at = "cron"
  /\ w.pc \in {"unload", "delete"} => w.at \in Files

\* What a command that was told nothing has achieved, and what the last one did.
Standing(w) ==
  /\ w.pc = "save" /\ ~w.told => RunsNow(w.at)
  /\ w.pc \in Removing \cup {"end"} /\ w.op = "install" /\ ~w.told => recorded \in Backends \ left /\ RunsNow(recorded)
  /\ w.pc \in Removing /\ w.op = "uninstall" /\ ~w.told => \A b \in Backends \ {w.at} : Here(b) = NoJob
  /\ w.pc = "end" /\ w.op = "uninstall" /\ ~w.told => \A b \in Backends : Here(b) = NoJob
  /\ w.pc # "idle" => promise = "unsure"
  /\ promise = "job" => recorded \in Backends \ left /\ RunsNow(recorded)
  /\ promise = "none" => \A b \in Backends : Here(b) = NoJob

JobKnown(w) == FilesBehind(w) /\ Places(w) /\ CommandCourse(w) /\ Standing(w)

JobInv ==
  /\ JobTypes
  /\ Users = {} => promise = "unsure"
  /\ ~loose => \A u \in Users : JobKnown(work[u])

----------------------------------------------------------------------------

\* A step of the only process: what it does to its own command is all there is.
LEMMA JobStep ==
  ASSUME OneAtATime, JobInv, NEW u \in Users, NEW w \in Commands,
         work' = [work EXCEPT ![u] = w], JobTypes',
         ~loose' => JobKnown(w)'
  PROVE  JobInv'
<1>1. work' \in [Users -> Commands] /\ work'[u] = w
  BY DEF JobInv, JobTypes
<1>2. \A v \in Users : work'[v] = w
  BY <1>1 DEF OneAtATime
<1>3. ASSUME ~loose', NEW v \in Users PROVE JobKnown(work[v])'
  <2>1. (work[v])' = w
    BY <1>2
  <2>2. JobKnown(w)'
    BY <1>3
  <2> QED
    BY <2>1, <2>2 DEF JobKnown, FilesBehind, Places, MayRun, Home, CommandCourse, Standing
<1> QED
  BY <1>3 DEF JobInv

\* What the backends run depends on the crontab, the files and what is loaded.
LEMMA SameRuns ==
  ASSUME UNCHANGED <<crontab, stored, loaded, left>>
  PROVE  /\ \A b \in Backends : Here(b)' = Here(b) /\ Runs(b)' = Runs(b)
         /\ OldAgent' = OldAgent
<1> QED
  BY DEF Here, Runs, OldAgent

\* A command that changes none of it: only where it is has to be looked at.
LEMMA StillRuns ==
  ASSUME NEW o \in Commands, NEW w \in Commands, JobKnown(o),
         UNCHANGED <<host, version, crontab, stored, loaded, recorded>>, left \subseteq left',
         MayRun(o) \cap Backends \subseteq MayRun(w),
         CommandCourse(w)', Standing(w)'
  PROVE  JobKnown(w)'
<1>1. \A b \in Backends : Here(b)' \in {NoJob, Here(b)}
  BY DEF Here, Runs
<1>2. FilesBehind(w)'
  BY DEF JobKnown, FilesBehind
<1>3. Places(w)'
  <2>1. MayRun(w)' = MayRun(w)
    BY DEF MayRun, Home
  <2> QED
    BY <1>1, <2>1 DEF JobKnown, Places
<1> QED
  BY <1>2, <1>3 DEF JobKnown

LEMMA JobInit == HourlyInit => JobInv
<1> SUFFICES ASSUME HourlyInit PROVE JobInv
  OBVIOUS
<1>1. NoCommand \in Commands
  BY DEF NoCommand, Commands, Backends, NoJob
<1>2. JobTypes
  BY <1>1 DEF HourlyInit, JobTypes, Linux, NotLinux, Versions, Backends, Files, NoJob, Foreign, Possible
<1>3. JobKnown(NoCommand)
  <2>1. \A b \in Backends \ {"cron"} : Here(b) = NoJob
    BY DEF HourlyInit, Here, Runs, Backends, Files, NoJob
  <2>2. FilesBehind(NoCommand)
    BY DEF HourlyInit, FilesBehind, NoJob, Files
  <2>3. Places(NoCommand)
    BY <2>1 DEF HourlyInit, Places, MayRun, Home, NoCommand, Removing
  <2>4. CommandCourse(NoCommand) /\ Standing(NoCommand)
    BY DEF HourlyInit, CommandCourse, Standing, NoCommand, Installing, Removing
  <2> QED
    BY <2>2, <2>3, <2>4 DEF JobKnown
<1> QED
  BY <1>2, <1>3 DEF JobInv, HourlyInit
\* A command that ends with an error, or before it changed anything.
LEMMA Stopped ==
  ASSUME NEW o \in Commands, JobKnown(o), JobTypes,
         UNCHANGED <<host, version, crontab, stored, loaded, recorded>>, left \subseteq left',
         MayRun(o) = Home, promise' = "unsure"
  PROVE  NoCommand \in Commands /\ JobKnown(NoCommand)'
<1>1. NoCommand \in Commands
  BY DEF NoCommand, Commands, Backends, NoJob
<1>2. CommandCourse(NoCommand)' /\ Standing(NoCommand)'
  BY DEF CommandCourse, Standing, NoCommand, Installing, Removing
<1>3. MayRun(NoCommand) = Home
  BY DEF MayRun, NoCommand, Removing
<1> QED
  BY <1>1, <1>2, <1>3, StillRuns

LEMMA SetScheduleKeeps == ASSUME OneAtATime, JobInv, NEW u \in Users, SetSchedule(u) PROVE JobInv'
<1>1. PICK o \in Commands : o = work[u]
  BY DEF JobInv, JobTypes
<1>2. PICK w \in Commands : w = [o EXCEPT !.pc = "sync"]
  BY DEF Commands
<1>3. work' = [work EXCEPT ![u] = w]
  BY <1>1, <1>2 DEF SetSchedule
<1>4. JobTypes'
  BY <1>3 DEF JobInv, JobTypes, SetSchedule
<1>5. ASSUME ~loose' PROVE JobKnown(w)'
  <2>1. JobKnown(o) /\ o = NoCommand
    BY <1>1, <1>5 DEF SetSchedule, JobInv, JobKnown, CommandCourse
  <2>2. CommandCourse(w)' /\ Standing(w)'
    BY <1>2, <2>1 DEF SetSchedule, CommandCourse, Standing, NoCommand, Installing, Removing, Commands
  <2>3. MayRun(w) = MayRun(o)
    BY <1>2, <2>1 DEF MayRun, NoCommand, Removing, Commands
  <2> QED
    BY <1>1, <1>2, <2>1, <2>2, <2>3, StillRuns DEF SetSchedule, NoCommand
<1> QED
  BY <1>3, <1>4, <1>5, JobStep

LEMMA SyncKeeps == ASSUME OneAtATime, JobInv, NEW u \in Users, Sync(u) PROVE JobInv'
<1>1. PICK o \in Commands : o = work[u]
  BY DEF JobInv, JobTypes
<1>2. PICK hand \in {"install", "uninstall"} : hand = IF policies = {} THEN "uninstall" ELSE "install"
  OBVIOUS
<1>3. PICK w \in Commands : w = [o EXCEPT !.pc = "resolve", !.op = hand]
  BY <1>2 DEF Commands
<1>4. work' = [work EXCEPT ![u] = w]
  BY <1>1, <1>2, <1>3 DEF Sync
<1>5. JobTypes'
  BY <1>4 DEF JobInv, JobTypes, Sync
<1>6. ASSUME ~loose' PROVE JobKnown(w)'
  <2>1. JobKnown(o)
    BY <1>1, <1>6 DEF Sync, JobInv
  <2>2. CommandCourse(w)' /\ Standing(w)'
    BY <1>1, <1>2, <1>3, <2>1 DEF Sync, JobKnown, CommandCourse, Standing, Installing, Removing, Commands
  <2>3. MayRun(w) = MayRun(o)
    BY <1>1, <1>3 DEF Sync, MayRun, Removing, Commands
  <2> QED
    BY <1>1, <1>3, <2>1, <2>2, <2>3, StillRuns DEF Sync
<1> QED
  BY <1>4, <1>5, <1>6, JobStep

LEMMA CommandKeeps == ASSUME OneAtATime, JobInv, NEW u \in Users, Command(u) PROVE JobInv'
<1>1. PICK o \in Commands : o = work[u]
  BY DEF JobInv, JobTypes
<1>2. PICK hand \in Hands, force \in BOOLEAN, flag \in Backends \cup {"none"} :
        /\ hand = "uninstall" => flag = "none"
        /\ work' = [work EXCEPT ![u].pc = "resolve", ![u].op = hand, ![u].force = force, ![u].flag = flag]
  BY DEF Command
<1>3. hand \in {"install", "uninstall"}
  BY HandsAssumption
<1>4. PICK w \in Commands : w = [o EXCEPT !.pc = "resolve", !.op = hand, !.force = force, !.flag = flag]
  BY <1>2, <1>3 DEF Commands
<1>5. work' = [work EXCEPT ![u] = w]
  BY <1>1, <1>2, <1>4 DEF JobInv, JobTypes
<1>6. JobTypes'
  BY <1>5 DEF JobInv, JobTypes, Command
<1>7. ASSUME ~loose' PROVE JobKnown(w)'
  <2>1. JobKnown(o) /\ o = NoCommand
    BY <1>1, <1>7 DEF Command, JobInv, JobKnown, CommandCourse
  <2>2. CommandCourse(w)' /\ Standing(w)'
    BY <1>2, <1>3, <1>4, <2>1 DEF Command, JobKnown, CommandCourse, Standing, NoCommand, Installing, Removing, Commands
  <2>3. MayRun(w) = MayRun(o)
    BY <1>4, <2>1 DEF MayRun, NoCommand, Removing, Commands
  <2> QED
    BY <1>4, <2>1, <2>2, <2>3, StillRuns DEF Command, NoCommand
<1> QED
  BY <1>5, <1>6, <1>7, JobStep

\* Where a command looks for the job: no job is anywhere else.
LEMMA WhereItIs ==
  ASSUME JobTypes, NEW o \in Commands, JobKnown(o), o.pc = "resolve"
  PROVE  /\ previousBackend \in Home \cup {"none"}
         /\ previousBackend # "none" \/ recorded = "none"
         /\ previousBackend = "none" => Here("cron") = NoJob
         /\ Resolve(o.flag) \in Backends \cup {"none"}
         /\ o.op = "uninstall" => \A b \in Backends \ {Resolve(o.flag)} : Here(b) = NoJob
         /\ o.op = "uninstall" => Resolve(o.flag) = previousBackend \/ previousBackend = "none"
<1>1. legacyCronJob <=> Runs("cron") # NoJob
  BY DEF legacyCronJob, Runs, JobTypes, JobKnown, FilesBehind, NoJob, Foreign, Versions
<1>2. Default \in Backends \cup {"none"}
  BY DEF Default, Backends, Files
<1>3. \A b \in Backends : Here(b) # NoJob => b \in Home
  BY DEF JobKnown, Places, MayRun, Removing
<1> QED
  BY <1>1, <1>2, <1>3 DEF Here, previousBackend, Resolve, Home, JobTypes, Backends, JobKnown, CommandCourse, Commands

\* A command that goes on with a backend is still one.
LEMMA GoneOn ==
  ASSUME NEW o \in Commands, NEW next \in {"install", "remove"},
         NEW b \in Backends \cup {"none"}, NEW prev \in Backends \cup {"none"}
  PROVE  [o EXCEPT !.pc = next, !.at = b, !.prev = prev] \in Commands
BY DEF Commands, Removing, Installing

\* A command that goes on, or not, where it should.
LEMMA GoOnKeeps ==
  ASSUME OneAtATime, JobInv, NEW u \in Users, work[u].pc = "resolve",
         NEW b \in Backends \cup {"none"}, NEW prev \in Backends \cup {"none"}, GoOn(u, b, prev),
         UNCHANGED <<host, version, crontab, stored, loaded, recorded, loose>>,
         left \subseteq left', left' \subseteq Backends \cup {"none"},
         ~loose => /\ prev \in Home \cup {"none"}
                   /\ prev # "none" \/ recorded = "none"
                   /\ prev = "none" => Here("cron")' = NoJob \/ b = "cron"
                   /\ work[u].op = "uninstall" => \A c \in Backends \ {b} : Here(c)' = NoJob
  PROVE  JobInv'
<1>1. PICK o \in Commands : o = work[u]
  BY DEF JobInv, JobTypes
<1>2. CASE work' = [work EXCEPT ![u] = NoCommand] /\ promise' = "unsure"
  <2>1. NoCommand \in Commands
    BY DEF NoCommand, Commands, Backends, NoJob
  <2>2. JobTypes'
    BY <1>2, <2>1 DEF JobInv, JobTypes
  <2>3. ASSUME ~loose' PROVE JobKnown(NoCommand)'
    <3>1. JobKnown(o) /\ MayRun(o) = Home
      BY <1>1, <2>3 DEF JobInv, MayRun, Removing
    <3> QED
      BY <1>2, <3>1, Stopped DEF JobInv
  <2> QED
    BY <1>2, <2>1, <2>2, <2>3, JobStep
<1>3. CASE ~(b = "none" \/ ~Available(b))
  <2>1. PICK next \in {"install", "remove"} : next = IF o.op = "install" THEN "install" ELSE "remove"
    OBVIOUS
  <2>2. b \in Backends /\ (b = "cron" => host.crontab)
    BY <1>3 DEF Available
  <2>3. PICK w \in Commands : w = [o EXCEPT !.pc = next, !.at = b, !.prev = prev]
    BY GoneOn
  <2>4. work' = [work EXCEPT ![u] = w] /\ UNCHANGED promise
    BY <1>1, <1>3, <2>1, <2>3 DEF GoOn
  <2>5. JobTypes'
    BY <2>4 DEF JobInv, JobTypes
  <2>6. ASSUME ~loose' PROVE JobKnown(w)'
    <3>1. JobKnown(o) /\ o.pc = "resolve"
      BY <1>1, <2>6 DEF JobInv
    <3>2. MayRun(w) = MayRun(o)
      BY <2>1, <2>3, <3>1 DEF MayRun, Removing, Commands
    <3>3. o.op \in {"install", "uninstall"} /\ promise = "unsure"
      BY <3>1 DEF JobKnown, CommandCourse, Standing
    <3>4. CommandCourse(w)'
      BY <2>1, <2>2, <2>3, <2>6, <3>3 DEF CommandCourse, Installing, Removing, Commands, Backends, Home
    <3>5. Standing(w)'
      BY <1>1, <2>1, <2>3, <2>4, <2>6, <3>3 DEF Standing, Installing, Removing, Commands
    <3> QED
      BY <3>1, <3>2, <3>4, <3>5, StillRuns
  <2> QED
    BY <2>3, <2>4, <2>5, <2>6, JobStep
<1> QED
  BY <1>2, <1>3 DEF GoOn

\* The backend is chosen,
LEMMA ChooseKeeps == ASSUME OneAtATime, JobInv, NEW u \in Users, Choose(u) PROVE JobInv'
<1>1. PICK o \in Commands : o = work[u]
  BY DEF JobInv, JobTypes
<1>2. /\ GoOn(u, Resolve(o.flag), previousBackend) /\ o.pc = "resolve"
      /\ UNCHANGED <<host, version, crontab, stored, loaded, recorded, loose, left>>
  BY <1>1 DEF Choose
<1>3. Resolve(o.flag) \in Backends \cup {"none"} /\ previousBackend \in Backends \cup {"none"}
  BY DEF Resolve, previousBackend, Default, JobInv, JobTypes, Commands, Backends, Files
<1>4. \A c \in Backends : Here(c)' = Here(c)
  BY <1>2, SameRuns
<1>5. ~loose => /\ previousBackend \in Home \cup {"none"}
                /\ previousBackend # "none" \/ recorded = "none"
                /\ previousBackend = "none" => Here("cron")' = NoJob
                /\ o.op = "uninstall" => \A c \in Backends \ {Resolve(o.flag)} : Here(c)' = NoJob
  <2>1. SUFFICES ASSUME ~loose PROVE /\ previousBackend \in Home \cup {"none"}
                                     /\ previousBackend # "none" \/ recorded = "none"
                                     /\ previousBackend = "none" => Here("cron") = NoJob
                                     /\ o.op = "uninstall" => \A c \in Backends \ {Resolve(o.flag)} : Here(c) = NoJob
    BY <1>4 DEF Backends
  <2>2. JobKnown(o) /\ JobTypes
    BY <1>1, <2>1 DEF JobInv
  <2> QED
    BY <1>2, <2>2, WhereItIs
<1>6. left \subseteq left' /\ left' \subseteq Backends \cup {"none"}
  BY <1>2 DEF JobInv, JobTypes
<1> QED
  BY <1>1, <1>2, <1>3, <1>5, <1>6, GoOnKeeps

\* or chosen by a look that failed.
LEMMA ChooseBlindKeeps == ASSUME OneAtATime, JobInv, NEW u \in Users, ChooseBlind(u) PROVE JobInv'
<1>1. PICK o \in Commands : o = work[u]
  BY DEF JobInv, JobTypes
<1>2. o.pc = "resolve" /\ UNCHANGED <<host, version, crontab, stored, loaded, recorded>>
  BY <1>1 DEF ChooseBlind
<1>3. ASSUME recorded = "none",
             NEW b, b = IF o.flag # "none" THEN o.flag ELSE Default, GoOn(u, b, "none"),
             left' = left \cup ({"cron"} \ {b}), UNCHANGED loose
      PROVE  JobInv'
  <2>1. b \in Backends \cup {"none"}
    BY <1>3 DEF Default, Commands, Backends, Files
  <2>2. left \subseteq left' /\ left' \subseteq Backends \cup {"none"}
    BY <1>3 DEF JobInv, JobTypes, Backends
  <2>3. "cron" \in left' \/ b = "cron"
    BY <1>3
  <2>4. \A c \in Backends : Here(c)' \in {NoJob, Here(c)}
    BY <1>2, <2>2 DEF Here, Runs
  <2>5. b = "cron" \/ Here("cron")' = NoJob
    BY <2>3 DEF Here
  <2>6. ~loose => \A c \in Backends \ {b} : Here(c)' = NoJob
    <3>1. SUFFICES ASSUME ~loose, NEW c \in Backends \ {b, "cron"} PROVE Here(c) = NoJob
      BY <2>4, <2>5
    <3>2. Places(o)
      BY <1>1, <3>1 DEF JobInv, JobKnown
    <3> QED
      BY <1>2, <1>3, <3>2 DEF Places, MayRun, Home, Removing
  <2> QED
    BY <1>1, <1>2, <1>3, <2>1, <2>2, <2>5, <2>6, GoOnKeeps DEF Home
<1>4. ASSUME o.op = "uninstall", Resolve(o.flag) = "systemd", Done(u, "none"), left' = left \cup {"systemd"}
      PROVE  JobInv'
  <2>1. work' = [work EXCEPT ![u] = NoCommand] /\ promise' \in {"unsure", "none"} /\ UNCHANGED loose
    BY <1>1, <1>4 DEF Done
  <2>2. NoCommand \in Commands
    BY DEF NoCommand, Commands, Backends, NoJob
  <2>3. JobTypes'
    BY <1>2, <1>4, <2>1, <2>2 DEF JobInv, JobTypes, Backends, Files
  <2>4. ASSUME ~loose' PROVE JobKnown(NoCommand)'
    <3>1. JobKnown(o) /\ MayRun(o) = MayRun(NoCommand)
      BY <1>1, <1>2, <2>1, <2>4 DEF JobInv, MayRun, NoCommand, Removing
    <3>2. \A c \in Backends \ {"systemd"} : Here(c) = NoJob
      BY <1>2, <1>4, <3>1, WhereItIs DEF JobInv
    <3>3. \A c \in Backends : Here(c)' = NoJob
      BY <1>2, <1>4, <3>2 DEF Here, Runs
    <3>4. CommandCourse(NoCommand)' /\ Standing(NoCommand)'
      BY <2>1, <3>3 DEF CommandCourse, Standing, NoCommand, Installing, Removing
    <3> QED
      BY <1>2, <1>4, <2>2, <3>1, <3>4, StillRuns
  <2> QED
    BY <2>1, <2>2, <2>3, <2>4, JobStep
<1> QED
  BY <1>1, <1>3, <1>4 DEF ChooseBlind

LEMMA ReadLineKeeps == ASSUME OneAtATime, JobInv, NEW u \in Users, ReadLine(u) PROVE JobInv'
<1>1. PICK o \in Commands : o = work[u]
  BY DEF JobInv, JobTypes
<1>2. UNCHANGED <<host, version, crontab, stored, loaded, recorded, loose, left>>
  BY DEF ReadLine
<1>3. CASE work' = [work EXCEPT ![u] = NoCommand] /\ promise' = "unsure"
  <2>1. NoCommand \in Commands
    BY DEF NoCommand, Commands, Backends, NoJob
  <2>2. JobTypes'
    BY <1>2, <1>3, <2>1 DEF JobInv, JobTypes
  <2>3. ASSUME ~loose' PROVE JobKnown(NoCommand)'
    <3>1. JobKnown(o) /\ MayRun(o) = Home
      BY <1>1, <1>2, <2>3 DEF ReadLine, JobInv, MayRun, Removing
    <3> QED
      BY <1>1, <1>2, <1>3, <3>1, Stopped DEF ReadLine, JobInv
  <2> QED
    BY <1>3, <2>1, <2>2, <2>3, JobStep
<1>4. CASE /\ work' = [work EXCEPT ![u].pc = IF crontab = version THEN "save" ELSE "line", ![u].seen = crontab]
           /\ UNCHANGED promise
  <2>1. PICK next \in {"save", "line"} : next = IF crontab = version THEN "save" ELSE "line"
    OBVIOUS
  <2>2. PICK w \in Commands : w = [o EXCEPT !.pc = next, !.seen = crontab]
    BY DEF Commands, Installing, JobInv, JobTypes
  <2>3. work' = [work EXCEPT ![u] = w]
    BY <1>1, <1>4, <2>1, <2>2 DEF JobInv, JobTypes
  <2>4. JobTypes'
    BY <1>2, <1>4, <2>3 DEF JobInv, JobTypes
  <2>5. ASSUME ~loose' PROVE JobKnown(w)'
    <3>1. JobKnown(o) /\ o.pc = "install" /\ o.at = "cron"
      BY <1>1, <1>2, <2>5 DEF ReadLine, JobInv
    <3>2. \A c \in Backends : Here(c)' = Here(c)
      BY <1>2, SameRuns
    <3>3. MayRun(o) \cap Backends \subseteq MayRun(w)
      BY <2>1, <2>2, <3>1 DEF MayRun, Removing, Commands, JobKnown, CommandCourse, Home, Installing, Backends
    <3>4. CommandCourse(w)'
      BY <1>2, <1>4, <2>1, <2>2, <3>1, <3>2 DEF JobKnown, CommandCourse, Installing, Removing, Commands, Home, Backends, Files
    <3>5. next = "save" => RunsNow("cron")'
      BY <1>2, <2>1 DEF RunsNow, Here, Runs, JobInv, JobTypes, Versions, Foreign
    <3>6. Standing(w)'
      BY <1>2, <1>4, <2>1, <2>2, <3>1, <3>5 DEF JobKnown, Standing, Installing, Removing, Commands
    <3> QED
      BY <1>2, <3>1, <3>3, <3>4, <3>6, StillRuns
  <2> QED
    BY <2>3, <2>4, <2>5, JobStep
<1> QED
  BY <1>3, <1>4 DEF ReadLine

LEMMA EndKeeps == ASSUME OneAtATime, JobInv, NEW u \in Users, End(u) PROVE JobInv'
<1>1. PICK o \in Commands : o = work[u]
  BY DEF JobInv, JobTypes
<1>2. PICK what \in {"job", "none"} : what = IF o.op = "install" THEN "job" ELSE "none"
  OBVIOUS
<1>3. /\ work' = [work EXCEPT ![u] = NoCommand]
      /\ promise' = IF o.told THEN "unsure" ELSE what
      /\ UNCHANGED <<host, version, crontab, stored, loaded, recorded, loose, left>>
  BY <1>1, <1>2 DEF End, Done
<1>4. NoCommand \in Commands
  BY DEF NoCommand, Commands, Backends, NoJob
<1>5. JobTypes'
  BY <1>3, <1>4 DEF JobInv, JobTypes
<1>6. ASSUME ~loose' PROVE JobKnown(NoCommand)'
  <2>1. JobKnown(o) /\ o.pc = "end"
    BY <1>1, <1>3, <1>6 DEF End, JobInv
  <2>2. \A c \in Backends : Here(c)' = Here(c)
    BY <1>3, SameRuns
  <2>3. recorded \in Backends => (RunsNow(recorded)' <=> RunsNow(recorded))
    BY <1>3, SameRuns DEF RunsNow
  <2>4. MayRun(NoCommand) = MayRun(o)
    BY <2>1 DEF MayRun, NoCommand, Removing
  <2>5. o.op \in {"install", "uninstall"}
    BY <2>1 DEF JobKnown, CommandCourse
  <2>6. CommandCourse(NoCommand)'
    BY DEF CommandCourse, NoCommand, Installing, Removing
  <2>7. Standing(NoCommand)'
    BY <1>2, <1>3, <2>1, <2>2, <2>3, <2>5 DEF JobKnown, Standing, NoCommand, Removing
  <2> QED
    BY <1>3, <1>4, <2>1, <2>4, <2>6, <2>7, StillRuns
<1> QED
  BY <1>3, <1>4, <1>5, <1>6, JobStep

LEMMA KillKeeps == ASSUME OneAtATime, JobInv, NEW u \in Users, KillCommand(u) PROVE JobInv'
<1>1. PICK o \in Commands : o = work[u]
  BY DEF JobInv, JobTypes
<1>2. /\ work' = [work EXCEPT ![u] = NoCommand] /\ promise' = "unsure"
      /\ loose' = (loose \/ o.pc \in {"load", "save", "remove", "unline", "unload", "delete"})
      /\ UNCHANGED <<host, version, crontab, stored, loaded, recorded, left>>
  BY <1>1 DEF KillCommand
<1>3. NoCommand \in Commands
  BY DEF NoCommand, Commands, Backends, NoJob
<1>4. JobTypes'
  BY <1>2, <1>3 DEF JobInv, JobTypes
<1>5. ASSUME ~loose' PROVE JobKnown(NoCommand)'
  <2>1. JobKnown(o) /\ MayRun(o) = Home
    BY <1>1, <1>2, <1>5 DEF JobInv, MayRun, Removing
  <2> QED
    BY <1>2, <2>1, Stopped DEF JobInv
<1> QED
  BY <1>2, <1>3, <1>4, <1>5, JobStep

LEMMA WriteLineKeeps == ASSUME OneAtATime, JobInv, NEW u \in Users, WriteLine(u) PROVE JobInv'
<1>1. PICK o \in Commands : o = work[u]
  BY DEF JobInv, JobTypes
<1>2. UNCHANGED <<host, version, stored, loaded, recorded, loose, left>>
  BY DEF WriteLine
<1>3. CASE crontab' = version /\ To(u, "save") /\ UNCHANGED promise
  <2>1. PICK w \in Commands : w = [o EXCEPT !.pc = "save"]
    BY DEF Commands, Installing
  <2>2. work' = [work EXCEPT ![u] = w]
    BY <1>1, <1>3, <2>1 DEF To
  <2>3. JobTypes'
    BY <1>2, <1>3, <2>2 DEF JobInv, JobTypes
  <2>4. ASSUME ~loose' PROVE JobKnown(w)'
    <3>1. JobKnown(o) /\ o.pc = "line" /\ o.at = "cron" /\ host.crontab
      BY <1>1, <1>2, <2>4 DEF WriteLine, JobInv, JobKnown, CommandCourse, Installing
    <3>2. \A c \in Backends \ {"cron"} : Here(c)' = Here(c)
      BY <1>2 DEF Here, Runs
    <3>3. Runs("cron")' = version /\ version # NoJob
      BY <1>3 DEF Here, Runs, JobInv, JobTypes, Versions, Foreign, NoJob
    <3>4. FilesBehind(w)'
      BY <1>2, <1>3, <2>1, <3>1 DEF JobKnown, FilesBehind, Commands
    <3>5. Places(w)'
      BY <1>2, <2>1, <3>1, <3>2 DEF JobKnown, Places, MayRun, CommandCourse, Home, Installing, Removing, Commands, Backends
    <3>6. CommandCourse(w)'
      BY <1>2, <2>1, <3>1 DEF JobKnown, CommandCourse, Installing, Removing, Commands, Home, Backends, Files
    <3>7. Standing(w)'
      BY <1>2, <1>3, <2>1, <3>1, <3>3 DEF JobKnown, Standing, CommandCourse, RunsNow, Installing, Removing, Commands
    <3> QED
      BY <3>4, <3>5, <3>6, <3>7 DEF JobKnown
  <2> QED
    BY <2>2, <2>3, <2>4, JobStep
<1>4. CASE CommandFails(u) /\ UNCHANGED crontab
  <2>1. work' = [work EXCEPT ![u] = NoCommand] /\ promise' = "unsure"
    BY <1>4 DEF CommandFails
  <2>2. NoCommand \in Commands
    BY DEF NoCommand, Commands, Backends, NoJob
  <2>3. JobTypes'
    BY <1>2, <1>4, <2>1, <2>2 DEF JobInv, JobTypes
  <2>4. ASSUME ~loose' PROVE JobKnown(NoCommand)'
    <3>1. JobKnown(o) /\ MayRun(o) = Home
      BY <1>1, <1>2, <2>4 DEF WriteLine, JobInv, MayRun, Removing
    <3> QED
      BY <1>2, <1>4, <2>1, <3>1, Stopped DEF JobInv
  <2> QED
    BY <2>1, <2>2, <2>3, <2>4, JobStep
<1> QED
  BY <1>3, <1>4 DEF WriteLine

\* The files of a backend that this command writes, before it loads them.
LEMMA WriteFilesKeeps == ASSUME OneAtATime, JobInv, NEW u \in Users, WriteFiles(u) PROVE JobInv'
<1>1. PICK o \in Commands : o = work[u]
  BY DEF JobInv, JobTypes
<1>2. UNCHANGED <<host, version, crontab, loaded, recorded, loose, left>>
  BY DEF WriteFiles
<1>3. PICK b \in Files : b = o.at
  BY <1>1 DEF WriteFiles
<1>4. CASE /\ stored' = [stored EXCEPT ![b] = version]
           /\ To(u, IF stored[b] # version \/ LoadAgain(b) THEN "load" ELSE "save")
           /\ UNCHANGED promise
  <2>1. PICK next \in {"load", "save"} : next = IF stored[b] # version \/ LoadAgain(b) THEN "load" ELSE "save"
    OBVIOUS
  <2>2. PICK w \in Commands : w = [o EXCEPT !.pc = next]
    BY <2>1 DEF Commands, Installing
  <2>3. work' = [work EXCEPT ![u] = w]
    BY <1>1, <1>4, <2>1, <2>2 DEF To
  <2>4. JobTypes'
    BY <1>2, <1>4, <2>3 DEF JobInv, JobTypes
  <2>5. ASSUME ~loose' PROVE JobKnown(w)'
    <3>1. JobKnown(o) /\ o.pc = "install"
      BY <1>1, <1>2, <2>5 DEF WriteFiles, JobInv
    <3>2. stored'[b] = version /\ \A c \in Files \ {b} : stored'[c] = stored[c]
      BY <1>4 DEF JobInv, JobTypes
    <3>3. version # NoJob /\ version \in Versions
      BY DEF JobInv, JobTypes, Versions, NoJob
    <3>4. \A c \in Backends : Here(c)' # NoJob => Here(c) # NoJob
      BY <1>2, <1>3, <3>1, <3>2 DEF Here, Runs, JobKnown, FilesBehind, Backends, Files
    <3>5. FilesBehind(w)'
      <4>1. CASE next = "save"
        <5>1. stored[b] = version
          BY <2>1, <4>1
        <5> QED
          BY <1>2, <3>1, <3>2, <3>3, <5>1 DEF JobKnown, FilesBehind, Files
      <4>2. CASE next = "load"
        BY <1>2, <1>3, <2>2, <3>1, <3>2, <3>3, <4>2 DEF JobKnown, FilesBehind, Files, Commands
      <4> QED
        BY <2>1, <4>1, <4>2
    <3>6. Places(w)'
      <4>1. MayRun(o) = Home /\ (MayRun(w)' = Home \/ MayRun(w)' = {b, o.prev})
        BY <1>2, <1>3, <2>1, <2>2, <3>1 DEF MayRun, Removing, Commands, Home
      <4>2. o.prev \in Home \/ (Home = {"cron"} /\ Here("cron") = NoJob)
        BY <1>3, <3>1 DEF JobKnown, CommandCourse, Installing, Home, Files
      <4> QED
        BY <3>1, <3>4, <4>1, <4>2 DEF JobKnown, Places, Home
    <3>7. CommandCourse(w)'
      <4>1. Here("cron")' = Here("cron")
        BY <1>2 DEF Here, Runs
      <4> QED
        BY <1>2, <1>3, <2>1, <2>2, <3>1, <3>2, <4>1 DEF JobKnown, CommandCourse, Installing, Removing, Commands, Home, Backends, Files
    <3>8. Standing(w)'
      <4>1. o.op = "install" /\ promise = "unsure"
        BY <3>1 DEF JobKnown, CommandCourse, Standing, Installing
      <4>2. next = "save" => RunsNow(b)'
        BY <1>2, <1>3, <2>1, <3>1, <3>2, <3>3 DEF RunsNow, Here, Runs, OldAgent, LoadAgain, JobKnown, FilesBehind, Files
      <4> QED
        BY <1>3, <1>4, <2>1, <2>2, <4>1, <4>2 DEF Standing, Removing, Commands
    <3> QED
      BY <3>5, <3>6, <3>7, <3>8 DEF JobKnown
  <2> QED
    BY <2>3, <2>4, <2>5, JobStep
<1>5. CASE CommandFails(u) /\ UNCHANGED stored
  <2>1. work' = [work EXCEPT ![u] = NoCommand] /\ promise' = "unsure"
    BY <1>5 DEF CommandFails
  <2>2. NoCommand \in Commands
    BY DEF NoCommand, Commands, Backends, NoJob
  <2>3. JobTypes'
    BY <1>2, <1>5, <2>1, <2>2 DEF JobInv, JobTypes
  <2>4. ASSUME ~loose' PROVE JobKnown(NoCommand)'
    <3>1. JobKnown(o) /\ MayRun(o) = Home
      BY <1>1, <1>2, <2>4 DEF WriteFiles, JobInv, MayRun, Removing
    <3> QED
      BY <1>2, <1>5, <2>1, <3>1, Stopped DEF JobInv
  <2> QED
    BY <2>1, <2>2, <2>3, <2>4, JobStep
<1> QED
  BY <1>1, <1>3, <1>4, <1>5 DEF WriteFiles

LEMMA LoadJobKeeps == ASSUME OneAtATime, JobInv, NEW u \in Users, LoadJob(u) PROVE JobInv'
<1>1. PICK o \in Commands : o = work[u]
  BY DEF JobInv, JobTypes
<1>2. UNCHANGED <<host, version, crontab, stored, recorded, loose, left>>
  BY DEF LoadJob
<1>3. ASSUME ~loose' PROVE JobKnown(o) /\ o.pc = "load" /\ o.at \in Files /\ stored[o.at] = version
  BY <1>1, <1>2, <1>3 DEF LoadJob, JobInv, JobKnown, CommandCourse
<1>4. version # NoJob /\ version \in Versions
  BY DEF JobInv, JobTypes, Versions, NoJob
<1>5. PICK b : b = o.at
  OBVIOUS
<1>6. CASE loaded' = [loaded EXCEPT ![b] = stored[b]] /\ To(u, "save") /\ UNCHANGED promise
  <2>1. PICK w \in Commands : w = [o EXCEPT !.pc = "save"]
    BY DEF Commands, Installing
  <2>2. work' = [work EXCEPT ![u] = w]
    BY <1>1, <1>6, <2>1 DEF To
  <2>3. loaded' \in [Files -> {NoJob} \cup Versions]
    <3>1. CASE b \in Files
      BY <1>6, <3>1 DEF JobInv, JobTypes
    <3>2. CASE b \notin Files
      BY <1>6, <3>2 DEF JobInv, JobTypes
    <3> QED
      BY <3>1, <3>2
  <2>4. JobTypes'
    BY <1>2, <1>6, <2>2, <2>3 DEF JobInv, JobTypes
  <2>5. ASSUME ~loose' PROVE JobKnown(w)'
    <3>1. JobKnown(o) /\ o.pc = "load" /\ b \in Files /\ stored[b] = version
      BY <1>3, <1>5, <2>5
    <3>2. loaded'[b] = version /\ \A c \in Files \ {b} : loaded'[c] = loaded[c]
      BY <1>6, <3>1 DEF JobInv, JobTypes
    <3>3. FilesBehind(w)'
      BY <1>2, <1>4, <1>5, <3>1, <3>2 DEF JobKnown, FilesBehind, Files
    <3>4. \A c \in Backends \ {b} : Here(c)' = Here(c)
      BY <1>2, <3>2 DEF Here, Runs, Backends, Files
    <3>5. Runs(b)' = version
      BY <1>2, <1>4, <3>1, <3>2 DEF Runs, Files
    <3>6. MayRun(w)' = {b, o.prev} /\ MayRun(o) = Home
      BY <1>5, <2>1, <3>1 DEF MayRun, Commands, Removing
    <3>7. Places(w)'
      <4>1. o.prev \in Home \/ (Home = {"cron"} /\ Here("cron") = NoJob)
        BY <1>5, <3>1 DEF JobKnown, CommandCourse, Installing, Home, Files
      <4> QED
        BY <3>1, <3>4, <3>6, <4>1 DEF JobKnown, Places, Home
    <3>8. CommandCourse(w)'
      BY <1>2, <1>5, <2>1, <3>1, <3>4 DEF JobKnown, CommandCourse, Installing, Removing, Commands, Home, Backends, Files
    <3>9. Standing(w)'
      BY <1>2, <1>5, <1>6, <2>1, <3>1, <3>5 DEF JobKnown, Standing, CommandCourse, RunsNow, Installing, Removing, Commands
    <3> QED
      BY <3>3, <3>7, <3>8, <3>9 DEF JobKnown
  <2> QED
    BY <2>2, <2>4, <2>5, JobStep
<1>7. CASE /\ loaded' \in {loaded} \cup (IF b = "launchd" THEN {[loaded EXCEPT ![b] = NoJob]} ELSE {})
           /\ CommandFails(u)
  <2>1. work' = [work EXCEPT ![u] = NoCommand] /\ promise' = "unsure"
    BY <1>7 DEF CommandFails
  <2>2. NoCommand \in Commands
    BY DEF NoCommand, Commands, Backends, NoJob
  <2>3. /\ loaded' \in [Files -> {NoJob} \cup Versions]
        /\ \A c \in Files : loaded'[c] \in {NoJob, loaded[c]} /\ (c # "launchd" => loaded'[c] = loaded[c])
    BY <1>7 DEF JobInv, JobTypes, Files
  <2>4. JobTypes'
    BY <1>2, <2>1, <2>2, <2>3 DEF JobInv, JobTypes
  <2>5. ASSUME ~loose' PROVE JobKnown(NoCommand)'
    <3>1. JobKnown(o) /\ o.pc = "load" /\ b \in Files
      BY <1>3, <1>5, <2>5
    <3>2. FilesBehind(NoCommand)'
      BY <1>2, <1>5, <2>3, <3>1 DEF JobKnown, FilesBehind, Files
    <3>3. \A c \in Backends : Here(c)' # NoJob => Here(c) # NoJob
      BY <1>2, <2>3 DEF Here, Runs, Backends, Files
    <3>4. MayRun(NoCommand)' = Home /\ MayRun(o) = Home
      BY <1>2, <3>1 DEF MayRun, NoCommand, Removing, Home
    <3>5. Places(NoCommand)'
      BY <3>1, <3>3, <3>4 DEF JobKnown, Places
    <3>6. CommandCourse(NoCommand)' /\ Standing(NoCommand)'
      BY <2>1 DEF CommandCourse, Standing, NoCommand, Installing, Removing
    <3> QED
      BY <3>2, <3>5, <3>6 DEF JobKnown
  <2> QED
    BY <2>1, <2>2, <2>4, <2>5, JobStep
<1> QED
  BY <1>1, <1>5, <1>6, <1>7 DEF LoadJob

LEMMA SaveStateKeeps == ASSUME OneAtATime, JobInv, NEW u \in Users, SaveState(u) PROVE JobInv'
<1>1. PICK o \in Commands : o = work[u]
  BY DEF JobInv, JobTypes
<1>2. UNCHANGED <<host, version, crontab, stored, loaded, promise>> /\ left' = left \ {o.at}
  BY <1>1 DEF SaveState
<1>3. PICK moved \in BOOLEAN : moved <=> o.prev \notin {"none", o.at}
  OBVIOUS
<1>4. PICK w \in Commands : w = [o EXCEPT !.pc = IF moved THEN "remove" ELSE "end", !.at = IF moved THEN o.prev ELSE @]
  BY DEF Commands, Removing
<1>5. CASE recorded' = o.at /\ work' = [work EXCEPT ![u] = w] /\ UNCHANGED loose
  <2>1. JobTypes'
    BY <1>2, <1>4, <1>5 DEF JobInv, JobTypes, Commands
  <2>2. ASSUME ~loose' PROVE JobKnown(w)'
    <3>1. JobKnown(o) /\ o.pc = "save" /\ o.op = "install" /\ o.at \in Backends
      BY <1>1, <1>5, <2>2 DEF SaveState, JobInv, JobKnown, CommandCourse, Installing
    <3>2. \A c \in Backends \ {o.at} : Here(c)' = Here(c)
      BY <1>2 DEF Here, Runs
    <3>3. RunsNow(o.at)' <=> RunsNow(o.at)
      BY <1>2 DEF RunsNow, Runs, OldAgent
    <3>4. FilesBehind(w)'
      <4>1. o.at \in Files => stored[o.at] = version /\ version # NoJob
        BY <3>1 DEF JobKnown, CommandCourse, JobInv, JobTypes, Versions, NoJob
      <4> QED
        BY <1>2, <3>1, <4>1 DEF JobKnown, FilesBehind
    <3>5. Places(w)'
      <4>1. MayRun(o) = {o.at, o.prev}
        BY <3>1 DEF MayRun
      <4>2. MayRun(o) \cap Backends \subseteq MayRun(w)'
        BY <1>3, <1>4, <1>5, <3>1, <4>1 DEF MayRun, Home, Removing, Commands, Backends, Files
      <4> QED
        BY <3>1, <3>2, <4>1, <4>2 DEF JobKnown, Places
    <3>6. CommandCourse(w)'
      BY <1>2, <1>3, <1>4, <1>5, <3>1 DEF JobKnown, CommandCourse, Installing, Removing, Commands, Backends
    <3>7. Standing(w)'
      BY <1>2, <1>3, <1>4, <1>5, <3>1, <3>3 DEF JobKnown, Standing, Removing, Commands
    <3> QED
      BY <3>4, <3>5, <3>6, <3>7 DEF JobKnown
  <2> QED
    BY <1>5, <2>1, <2>2, JobStep
<1>6. CASE work' = [work EXCEPT ![u] = [w EXCEPT !.told = TRUE]] /\ loose' = TRUE /\ UNCHANGED recorded
  <2>1. PICK v \in Commands : v = [w EXCEPT !.told = TRUE]
    BY DEF Commands
  <2>2. work' = [work EXCEPT ![u] = v]
    BY <1>6, <2>1
  <2>3. JobTypes'
    BY <1>2, <1>6, <2>2 DEF JobInv, JobTypes
  <2> QED
    BY <1>6, <2>2, <2>3, JobStep
<1> QED
  BY <1>1, <1>3, <1>4, <1>5, <1>6 DEF SaveState

\* A removal that failed: after an install it is only a warning.
LEMMA RemoveFailed ==
  ASSUME OneAtATime, JobInv, NEW u \in Users, work[u].pc \in Removing, RemoveFails(u),
         UNCHANGED <<host, version, crontab, stored, loaded, recorded, left>>
  PROVE  JobInv'
<1>1. PICK o \in Commands : o = work[u]
  BY DEF JobInv, JobTypes
<1>2. CASE o.op = "install"
  <2>1. PICK w \in Commands : w = [o EXCEPT !.pc = "end", !.told = TRUE]
    BY DEF Commands
  <2>2. work' = [work EXCEPT ![u] = w] /\ loose' = TRUE /\ UNCHANGED promise
    BY <1>1, <1>2, <2>1 DEF RemoveFails
  <2>3. JobTypes'
    BY <2>2 DEF JobInv, JobTypes
  <2> QED
    BY <2>2, <2>3, JobStep
<1>3. CASE o.op # "install"
  <2>1. work' = [work EXCEPT ![u] = NoCommand] /\ promise' = "unsure" /\ UNCHANGED loose
    BY <1>1, <1>3 DEF RemoveFails
  <2>2. NoCommand \in Commands
    BY DEF NoCommand, Commands, Backends, NoJob
  <2>3. JobTypes'
    BY <2>1, <2>2 DEF JobInv, JobTypes
  <2>4. ASSUME ~loose' PROVE JobKnown(NoCommand)'
    <3>1. JobKnown(o) /\ MayRun(o) = Home
      BY <1>1, <1>3, <2>1, <2>4 DEF JobInv, MayRun, Removing
    <3> QED
      BY <2>1, <3>1, Stopped DEF JobInv
  <2> QED
    BY <2>1, <2>2, <2>3, <2>4, JobStep
<1> QED
  BY <1>2, <1>3

\* A removal that is through: its backend runs nothing, the others what they ran.
LEMMA Removed ==
  ASSUME NEW o \in Commands, NEW w \in Commands, JobKnown(o), o.pc \in Removing,
         w.pc = "end", w.op = o.op, w.told = o.told,
         UNCHANGED <<host, version, recorded, promise>>,
         Here(o.at)' = NoJob, \A c \in Backends \ {o.at} : Runs(c)' = Runs(c),
         left' \ {o.at} = left \ {o.at},
         o.at # "launchd" => OldAgent' = OldAgent,
         FilesBehind(w)'
  PROVE  JobKnown(w)'
<1>0. \A c \in Backends \ {o.at} : Here(c)' = Here(c)
  BY DEF Here
<1>1. Places(w)'
  BY <1>0 DEF JobKnown, Places, CommandCourse, MayRun, Home, Removing, Backends, Files, Commands
<1>2. CommandCourse(w)'
  BY DEF JobKnown, CommandCourse, Installing, Removing
<1>3. o.at \in Backends /\ promise = "unsure"
  BY DEF JobKnown, CommandCourse, Standing, Removing
<1>4. w.op = "install" /\ ~w.told => recorded \in Backends \ left' /\ RunsNow(recorded)'
  <2>1. SUFFICES ASSUME w.op = "install", ~w.told PROVE recorded \in Backends \ left' /\ RunsNow(recorded)'
    OBVIOUS
  <2>2. recorded \in Backends \ left /\ recorded # o.at /\ RunsNow(recorded)
    BY <2>1 DEF JobKnown, CommandCourse, Standing, Removing
  <2> QED
    BY <2>2 DEF RunsNow
<1>5. w.op = "uninstall" /\ ~w.told => \A c \in Backends : Here(c)' = NoJob
  BY <1>0 DEF JobKnown, Standing
<1>6. Standing(w)'
  BY <1>3, <1>4, <1>5 DEF Standing, Removing
<1> QED
  BY <1>1, <1>2, <1>6 DEF JobKnown

\* A removal that goes on, with nothing changed but what its backend has loaded.
LEMMA RemovalGoesOn ==
  ASSUME NEW o \in Commands, NEW w \in Commands, JobKnown(o), o.pc \in Removing,
         w.pc \in Removing, w.op = o.op, w.told = o.told, w.at = o.at,
         UNCHANGED <<host, version, recorded, promise>>,
         Here(o.at)' \in {NoJob, Here(o.at)}, \A c \in Backends \ {o.at} : Runs(c)' = Runs(c),
         left' \ {o.at} = left \ {o.at},
         o.at # "launchd" => OldAgent' = OldAgent,
         FilesBehind(w)', CommandCourse(w)'
  PROVE  JobKnown(w)'
<1>0. \A c \in Backends \ {o.at} : Here(c)' = Here(c)
  BY DEF Here
<1>1. MayRun(w)' = MayRun(o)
  BY DEF MayRun, Home, Removing
<1>2. Places(w)'
  BY <1>0, <1>1 DEF JobKnown, Places
<1>3. promise = "unsure"
  BY DEF JobKnown, Standing, Removing
<1>4. w.op = "install" /\ ~w.told => recorded \in Backends \ left' /\ RunsNow(recorded)'
  <2>1. SUFFICES ASSUME w.op = "install", ~w.told PROVE recorded \in Backends \ left' /\ RunsNow(recorded)'
    OBVIOUS
  <2>2. recorded \in Backends \ left /\ recorded # o.at /\ RunsNow(recorded)
    BY <2>1 DEF JobKnown, CommandCourse, Standing, Removing
  <2> QED
    BY <2>2 DEF RunsNow
<1>5. w.op = "uninstall" /\ ~w.told => \A c \in Backends \ {w.at} : Here(c)' = NoJob
  BY <1>0 DEF JobKnown, Standing
<1>6. Standing(w)'
  BY <1>3, <1>4, <1>5 DEF Standing, Removing
<1> QED
  BY <1>2, <1>6 DEF JobKnown

LEMMA FindJobKeeps == ASSUME OneAtATime, JobInv, NEW u \in Users, FindJob(u) PROVE JobInv'
<1>1. PICK o \in Commands : o = work[u]
  BY DEF JobInv, JobTypes
<1>2. UNCHANGED <<host, version, crontab, stored, loaded, recorded, left>> /\ o.pc = "remove"
  BY <1>1 DEF FindJob
<1>3. PICK b : b = o.at
  OBVIOUS
<1>4. CASE /\ b = "cron"
           /\ work' = [work EXCEPT ![u].pc = IF crontab = NoJob THEN "end" ELSE "unline", ![u].seen = crontab]
           /\ UNCHANGED <<promise, loose>>
  <2>1. PICK next \in {"end", "unline"} : next = IF crontab = NoJob THEN "end" ELSE "unline"
    OBVIOUS
  <2>2. PICK w \in Commands : w = [o EXCEPT !.pc = next, !.seen = crontab]
    BY DEF Commands, Removing, JobInv, JobTypes
  <2>3. work' = [work EXCEPT ![u] = w]
    BY <1>1, <1>4, <2>1, <2>2 DEF JobInv, JobTypes
  <2>4. JobTypes'
    BY <1>2, <1>4, <2>3 DEF JobInv, JobTypes
  <2>5. ASSUME ~loose' PROVE JobKnown(w)'
    <3>1. JobKnown(o) /\ o.pc \in Removing /\ o.at = "cron"
      BY <1>1, <1>2, <1>3, <1>4, <2>5 DEF JobInv, Removing
    <3>2. (\A c \in Backends : Here(c)' = Here(c) /\ Runs(c)' = Runs(c)) /\ OldAgent' = OldAgent
      BY <1>2, SameRuns
    <3>3. FilesBehind(w)'
      BY <1>2, <3>1 DEF JobKnown, FilesBehind, Removing
    <3>4. CASE next = "end"
      <4>1. Here("cron")' = NoJob
        BY <1>2, <2>1, <3>4 DEF Here, Runs, NoJob, Foreign
      <4> QED
        BY <1>2, <1>4, <2>2, <3>1, <3>2, <3>3, <3>4, <4>1, Removed DEF Commands
    <3>5. CASE next = "unline"
      <4>1. CommandCourse(w)'
        BY <1>2, <2>2, <3>1, <3>5 DEF JobKnown, CommandCourse, Installing, Removing, Commands
      <4>2. "cron" \in Backends
        BY DEF Backends
      <4> QED
        BY <1>2, <1>4, <2>2, <3>1, <3>2, <3>3, <3>5, <4>1, <4>2, RemovalGoesOn DEF Commands, Removing
    <3> QED
      BY <3>4, <3>5
  <2> QED
    BY <2>3, <2>4, <2>5, JobStep
<1>5. CASE b \in Files /\ To(u, IF stored[b] = NoJob /\ (b = "schtasks" => loaded[b] = NoJob) THEN "end" ELSE "unload")
           /\ UNCHANGED <<promise, loose>>
  <2>1. PICK next \in {"end", "unload"} :
          next = IF stored[b] = NoJob /\ (b = "schtasks" => loaded[b] = NoJob) THEN "end" ELSE "unload"
    OBVIOUS
  <2>2. PICK w \in Commands : w = [o EXCEPT !.pc = next]
    BY DEF Commands, Removing
  <2>3. work' = [work EXCEPT ![u] = w]
    BY <1>1, <1>5, <2>1, <2>2 DEF To
  <2>4. JobTypes'
    BY <1>2, <1>5, <2>3 DEF JobInv, JobTypes
  <2>5. ASSUME ~loose' PROVE JobKnown(w)'
    <3>1. JobKnown(o) /\ o.pc \in Removing /\ o.at = b /\ b \in Files /\ b \in Backends
      BY <1>1, <1>2, <1>3, <1>5, <2>5 DEF JobInv, Removing, Backends
    <3>2. (\A c \in Backends : Here(c)' = Here(c) /\ Runs(c)' = Runs(c)) /\ OldAgent' = OldAgent
      BY <1>2, SameRuns
    <3>3. FilesBehind(w)'
      BY <1>2, <3>1 DEF JobKnown, FilesBehind, Removing
    <3>4. CASE next = "end"
      <4>1. Here(b)' = NoJob
        BY <1>2, <2>1, <3>1, <3>2, <3>4 DEF Here, Runs, JobKnown, FilesBehind, Files
      <4> QED
        BY <1>2, <1>5, <2>2, <3>1, <3>2, <3>3, <3>4, <4>1, Removed DEF Commands
    <3>5. CASE next = "unload"
      <4>1. CommandCourse(w)'
        BY <1>2, <2>2, <3>1, <3>5 DEF JobKnown, CommandCourse, Installing, Removing, Commands
      <4> QED
        BY <1>2, <1>5, <2>2, <3>1, <3>2, <3>3, <3>5, <4>1, RemovalGoesOn DEF Commands, Removing
    <3> QED
      BY <3>4, <3>5
  <2> QED
    BY <2>3, <2>4, <2>5, JobStep
<1>6. CASE RemoveFails(u)
  BY <1>1, <1>2, <1>6, RemoveFailed DEF Removing
<1> QED
  BY <1>1, <1>3, <1>4, <1>5, <1>6 DEF FindJob

LEMMA RemoveLineKeeps == ASSUME OneAtATime, JobInv, NEW u \in Users, RemoveLine(u) PROVE JobInv'
<1>1. PICK o \in Commands : o = work[u]
  BY DEF JobInv, JobTypes
<1>2. UNCHANGED <<host, version, stored, loaded, recorded>> /\ o.pc = "unline"
  BY <1>1 DEF RemoveLine
<1>3. CASE crontab' = NoJob /\ left' = left \ {"cron"} /\ To(u, "end") /\ UNCHANGED <<promise, loose>>
  <2>1. PICK w \in Commands : w = [o EXCEPT !.pc = "end"]
    BY DEF Commands
  <2>2. work' = [work EXCEPT ![u] = w]
    BY <1>1, <1>3, <2>1 DEF To
  <2>3. JobTypes'
    BY <1>2, <1>3, <2>2 DEF JobInv, JobTypes
  <2>4. ASSUME ~loose' PROVE JobKnown(w)'
    <3>1. JobKnown(o) /\ o.at = "cron" /\ o.pc \in Removing
      BY <1>1, <1>2, <1>3, <2>4 DEF JobInv, JobKnown, CommandCourse, Removing
    <3>2. Here("cron")' = NoJob /\ (\A c \in Backends \ {"cron"} : Runs(c)' = Runs(c)) /\ OldAgent' = OldAgent
      BY <1>2, <1>3 DEF Here, Runs, OldAgent, NoJob, Foreign
    <3>3. FilesBehind(w)'
      BY <1>2, <1>3, <3>1 DEF JobKnown, FilesBehind, Files
    <3> QED
      BY <1>2, <1>3, <2>1, <3>1, <3>2, <3>3, Removed DEF Commands
  <2> QED
    BY <2>2, <2>3, <2>4, JobStep
<1>4. CASE RemoveFails(u) /\ UNCHANGED <<crontab, left>>
  BY <1>1, <1>2, <1>4, RemoveFailed DEF Removing
<1> QED
  BY <1>3, <1>4 DEF RemoveLine

LEMMA UnloadKeeps == ASSUME OneAtATime, JobInv, NEW u \in Users, Unload(u) PROVE JobInv'
<1>1. PICK o \in Commands : o = work[u]
  BY DEF JobInv, JobTypes
<1>2. UNCHANGED <<host, version, crontab, stored, recorded>> /\ o.pc = "unload"
  BY <1>1 DEF Unload
<1>3. CASE /\ \/ loaded' = [loaded EXCEPT ![o.at] = NoJob] /\ left' = left \ {o.at}
              \/ UNCHANGED <<loaded, left>>
           /\ To(u, "delete") /\ UNCHANGED <<promise, loose>>
  <2>1. PICK w \in Commands : w = [o EXCEPT !.pc = "delete"]
    BY DEF Commands, Removing
  <2>2. work' = [work EXCEPT ![u] = w]
    BY <1>1, <1>3, <2>1 DEF To
  <2>3. /\ loaded' \in [Files -> {NoJob} \cup Versions]
        /\ \A c \in Files : loaded'[c] \in {NoJob, loaded[c]} /\ (c # o.at => loaded'[c] = loaded[c])
        /\ left' \ {o.at} = left \ {o.at} /\ left' \subseteq Backends \cup {"none"}
        /\ left' = left \/ (o.at \in Files => loaded'[o.at] = NoJob)
    BY <1>3 DEF JobInv, JobTypes
  <2>4. JobTypes'
    BY <1>2, <1>3, <2>2, <2>3 DEF JobInv, JobTypes
  <2>5. ASSUME ~loose' PROVE JobKnown(w)'
    <3>1. JobKnown(o) /\ o.at \in Files /\ o.pc \in Removing
      BY <1>1, <1>2, <1>3, <2>5 DEF JobInv, JobKnown, CommandCourse, Removing
    <3>2. /\ Here(o.at)' \in {NoJob, Here(o.at)}
          /\ \A c \in Backends \ {o.at} : Runs(c)' = Runs(c)
          /\ o.at # "launchd" => OldAgent' = OldAgent
      BY <1>2, <2>3, <3>1 DEF Here, Runs, OldAgent, Files, Backends
    <3>3. FilesBehind(w)'
      BY <1>2, <2>3, <3>1 DEF JobKnown, FilesBehind, Removing, Files
    <3>4. CommandCourse(w)'
      BY <1>2, <2>1, <2>3, <3>1 DEF JobKnown, CommandCourse, Installing, Removing, Commands, Backends
    <3> QED
      BY <1>2, <1>3, <2>1, <2>3, <3>1, <3>2, <3>3, <3>4, RemovalGoesOn DEF Commands, Removing
  <2> QED
    BY <2>2, <2>4, <2>5, JobStep
<1>4. CASE RemoveFails(u) /\ UNCHANGED <<loaded, left>>
  BY <1>1, <1>2, <1>4, RemoveFailed DEF Removing
<1> QED
  BY <1>1, <1>3, <1>4 DEF Unload

LEMMA DeleteFilesKeeps == ASSUME OneAtATime, JobInv, NEW u \in Users, DeleteFiles(u) PROVE JobInv'
<1>1. PICK o \in Commands : o = work[u]
  BY DEF JobInv, JobTypes
<1>2. UNCHANGED <<host, version, crontab, loaded, recorded>> /\ o.pc = "delete"
  BY <1>1 DEF DeleteFiles
<1>3. CASE /\ stored' = [stored EXCEPT ![o.at] = NoJob]
           /\ left' = IF loaded[o.at] = NoJob THEN left ELSE left \cup {o.at}
           /\ To(u, "end") /\ UNCHANGED <<promise, loose>>
  <2>1. PICK w \in Commands : w = [o EXCEPT !.pc = "end"]
    BY DEF Commands
  <2>2. work' = [work EXCEPT ![u] = w]
    BY <1>1, <1>3, <2>1 DEF To
  <2>3. /\ stored' \in [Files -> {NoJob} \cup Versions]
        /\ \A c \in Files : stored'[c] = IF c = o.at THEN NoJob ELSE stored[c]
    BY <1>3 DEF JobInv, JobTypes
  <2>4. JobTypes'
    <3>1. left' \subseteq Backends \cup {"none"}
      BY <1>3 DEF JobInv, JobTypes, Commands
    <3> QED
      BY <1>2, <1>3, <2>2, <2>3, <3>1 DEF JobInv, JobTypes
  <2>5. ASSUME ~loose' PROVE JobKnown(w)'
    <3>1. JobKnown(o) /\ o.at \in Files /\ o.pc \in Removing
      BY <1>1, <1>2, <1>3, <2>5 DEF JobInv, JobKnown, CommandCourse, Removing
    <3>2. /\ Here(o.at)' = NoJob
          /\ \A c \in Backends \ {o.at} : Runs(c)' = Runs(c)
          /\ left' \ {o.at} = left \ {o.at}
          /\ o.at # "launchd" => OldAgent' = OldAgent
      BY <1>2, <1>3, <2>3, <3>1 DEF Here, Runs, OldAgent, Files, Backends
    <3>3. FilesBehind(w)'
      BY <1>2, <1>3, <2>3, <3>1 DEF JobKnown, FilesBehind, Removing, Files
    <3> QED
      BY <1>2, <1>3, <2>1, <3>1, <3>2, <3>3, Removed DEF Commands
  <2> QED
    BY <2>2, <2>4, <2>5, JobStep
<1>4. CASE RemoveFails(u) /\ UNCHANGED <<stored, left>>
  BY <1>1, <1>2, <1>4, RemoveFailed DEF Removing
<1> QED
  BY <1>1, <1>3, <1>4 DEF DeleteFiles

\* A new version: the job is of the old one until it is installed again.
LEMMA MoveKeeps == ASSUME JobInv, Move PROVE JobInv'
<1>1. JobTypes'
  BY DEF JobInv, JobTypes, Move, Versions
<1>2. ASSUME ~loose', NEW u \in Users PROVE JobKnown(work[u])'
  <2>1. PICK o \in Commands : o = work[u]
    BY DEF JobInv, JobTypes
  <2>2. o.pc = "idle" /\ JobKnown(o) /\ (work[u])' = o
    BY <1>2, <2>1 DEF Move, Quiet, JobInv
  <2>3. \A c \in Backends : Here(c)' = Here(c)
    BY SameRuns DEF Move
  <2>4. FilesBehind(o)'
    BY <2>2 DEF JobKnown, FilesBehind, Move
  <2>5. Places(o)'
    BY <2>2, <2>3 DEF JobKnown, Places, MayRun, Home, Removing, Move
  <2>6. CommandCourse(o)' /\ Standing(o)'
    BY <2>2 DEF JobKnown, CommandCourse, Standing, Move, Installing, Removing
  <2>7. JobKnown(o)'
    BY <2>4, <2>5, <2>6 DEF JobKnown
  <2> QED
    BY <2>2, <2>7 DEF JobKnown, FilesBehind, Places, MayRun, Home, CommandCourse, Standing
<1> QED
  BY <1>1, <1>2 DEF JobInv, Move

\* The other configuration takes the line: nothing runs from it any more.
LEMMA OtherInstallsKeeps == ASSUME OneAtATime, JobInv, OtherInstalls PROVE JobInv'
<1>1. UNCHANGED <<host, version, stored, loaded, recorded, loose, left>> /\ crontab' = Foreign /\ promise' = "unsure"
  BY DEF OtherInstalls
<1>2. host.crontab
  BY DEF OtherInstalls
<1>3. ASSUME NEW u \in Users
      PROVE  \E o, w \in Commands : /\ o = work[u] /\ work'[u] = w
                                    /\ w = [o EXCEPT !.told = o.told \/ o.pc # "idle"]
  <2>1. PICK o \in Commands : o = work[u]
    BY DEF JobInv, JobTypes
  <2>2. PICK told \in BOOLEAN : told = (o.told \/ o.pc # "idle")
    BY DEF Commands
  <2>3. [o EXCEPT !.told = told] \in Commands
    BY DEF Commands
  <2>4. work'[u] = [o EXCEPT !.told = told]
    BY <2>1, <2>2 DEF OtherInstalls
  <2> QED
    BY <2>1, <2>2, <2>3, <2>4
<1>4. JobTypes'
  <2>1. work' \in [Users -> Commands]
    BY <1>3 DEF OtherInstalls
  <2> QED
    BY <1>1, <2>1 DEF JobInv, JobTypes
<1>5. ASSUME ~loose', NEW u \in Users PROVE JobKnown(work[u])'
  <2>1. PICK o, w \in Commands : /\ o = work[u] /\ work'[u] = w
                                 /\ w = [o EXCEPT !.told = o.told \/ o.pc # "idle"]
    BY <1>3
  <2>2. JobKnown(o)
    BY <1>1, <1>5, <2>1 DEF JobInv
  <2>3. Here("cron")' = NoJob /\ \A c \in Backends \ {"cron"} : Here(c)' = Here(c)
    BY <1>1 DEF Here, Runs
  <2>4. FilesBehind(w)'
    BY <1>1, <1>2, <2>1, <2>2 DEF JobKnown, FilesBehind, Commands
  <2>5. Places(w)'
    BY <1>1, <2>1, <2>2, <2>3 DEF JobKnown, Places, MayRun, Home, Commands
  <2>6. CommandCourse(w)'
    <3>1. CASE o.pc = "idle"
      <4>1. o = NoCommand /\ w = o
        BY <2>1, <2>2, <3>1 DEF JobKnown, CommandCourse, NoCommand, Commands
      <4> QED
        BY <4>1 DEF CommandCourse, NoCommand, Installing, Removing
    <3>2. CASE o.pc # "idle"
      BY <1>1, <1>2, <2>1, <2>2, <2>3, <3>2 DEF JobKnown, CommandCourse, Commands, Home
    <3> QED
      BY <3>1, <3>2
  <2>7. Standing(w)'
    BY <1>1, <2>1 DEF Standing, Commands, Removing
  <2>8. JobKnown(w)'
    BY <2>4, <2>5, <2>6, <2>7 DEF JobKnown
  <2> QED
    BY <2>1, <2>8 DEF JobKnown, FilesBehind, Places, MayRun, Home, CommandCourse, Standing
<1> QED
  BY <1>1, <1>4, <1>5 DEF JobInv

LEMMA JobInvImplies == JobInv => JobFollows
<1> SUFFICES ASSUME JobInv, Quiet, ~loose, ~OldAgent,
                    NEW running, running = {b \in Backends \ left : Runs(b) # NoJob}
             PROVE  /\ promise = "job"  => Cardinality(running) = 1 /\ \A b \in running : Runs(b) = version
                    /\ promise = "none" => running = {}
  BY DEF JobFollows
<1>1. CASE Users = {}
  BY <1>1 DEF JobInv
<1>2. CASE Users # {}
  <2>1. PICK u \in Users : TRUE
    BY <1>2
  <2>2. work[u].pc = "idle" /\ JobKnown(work[u])
    BY DEF Quiet, JobInv
  <2>3. \A b \in running : b \in Home
    BY <2>2 DEF JobKnown, Places, MayRun, Removing, Here
  <2>4. promise = "none" => running = {}
    BY <2>2 DEF JobKnown, Standing, Here
  <2>5. ASSUME promise = "job" PROVE Cardinality(running) = 1 /\ \A b \in running : Runs(b) = version
    <3>1. recorded \in Backends \ left /\ Runs(recorded) = version /\ version # NoJob
      BY <2>2, <2>5 DEF JobKnown, Standing, RunsNow, JobInv, JobTypes, Versions, NoJob
    <3>2. running = {recorded}
      BY <2>3, <3>1 DEF Home, Backends, Files
    <3> QED
      BY <3>1, <3>2, FS_Singleton
  <2> QED
    BY <2>4, <2>5
<1> QED
  BY <1>1, <1>2

LEMMA JobStutters == ASSUME JobInv, UNCHANGED hvars PROVE JobInv'
<1>1. JobTypes'
  BY DEF JobInv, JobTypes, hvars
<1>2. ASSUME ~loose', NEW u \in Users PROVE JobKnown(work[u])'
  <2>1. JobKnown(work[u])
    BY <1>2 DEF JobInv, hvars
  <2> QED
    BY <2>1 DEF hvars, JobKnown, FilesBehind, Places, MayRun, Home, CommandCourse, Standing, Here, Runs, RunsNow, OldAgent
<1> QED
  BY <1>1, <1>2 DEF JobInv, hvars

LEMMA JobNext == ASSUME OneAtATime, JobInv, [HourlyNext]_hvars PROVE JobInv'
<1>1. ASSUME NEW u \in Users,
             SetSchedule(u) \/ Sync(u) \/ Command(u) \/ Choose(u) \/ ChooseBlind(u) \/ ReadLine(u) \/ WriteLine(u)
             \/ WriteFiles(u) \/ LoadJob(u)
      PROVE  JobInv'
  BY <1>1, SetScheduleKeeps, SyncKeeps, CommandKeeps, ChooseKeeps, ChooseBlindKeeps, ReadLineKeeps, WriteLineKeeps,
     WriteFilesKeeps, LoadJobKeeps
<1>2. ASSUME NEW u \in Users,
             SaveState(u) \/ FindJob(u) \/ RemoveLine(u) \/ Unload(u) \/ DeleteFiles(u) \/ End(u) \/ KillCommand(u)
      PROVE  JobInv'
  BY <1>2, SaveStateKeeps, FindJobKeeps, RemoveLineKeeps, UnloadKeeps, DeleteFilesKeeps, EndKeeps, KillKeeps
<1> QED
  BY <1>1, <1>2, MoveKeeps, OtherInstallsKeeps, JobStutters DEF HourlyNext

\* Commands that do not overlap leave the job where and as they said: after any
\* number of schedules, moves between backends, failures and kills, one backend
\* runs the installed ffm, or none does after a removal, apart from the jobs
\* that a command left behind without a word (JobFollows;
\* internal/scheduler/backend.go, Install and Uninstall).  Nothing keeps two
\* commands apart in the code, so that they do not overlap is a hypothesis.
THEOREM TheJobFollows == ASSUME OneAtATime PROVE HourlySpec => []JobFollows
<1>1. HourlyInit => JobInv
  BY JobInit
<1>2. JobInv /\ [HourlyNext]_hvars => JobInv'
  BY JobNext
<1> QED
  BY <1>1, <1>2, JobInvImplies, PTL DEF HourlySpec
=============================================================================
