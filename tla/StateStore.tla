----------------------------- MODULE StateStore -----------------------------
(***************************************************************************)
(* internal/state/store.go over internal/lock: benches.json is read,       *)
(* changed and written back by processes that share nothing but the file   *)
(* system.  Add, Remove and Update hold the OS lock on benches.json.lock   *)
(* from before the read until after the rename; the save writes a synced   *)
(* temporary file and renames it, first over benches.json.bak when the     *)
(* contents change, then over benches.json.  Any system call may fail and  *)
(* any process may be killed between two of them; the operating system     *)
(* then drops its lock.                                                    *)
(***************************************************************************)
EXTENDS BenchRecords

CONSTANTS
  Procs,      \* the processes using the store
  Idle,       \* op[p] when p is in no call
  NoFile,     \* a path where there is no file
  Free,       \* holder when nobody has the lock
  MaxRecs     \* bound: Add is only called below this many records

ASSUME IdleAssumption   == Idle \notin Ops
ASSUME FreeAssumption   == Free \notin Procs
ASSUME BoundAssumption  == MaxRecs \in Nat

\* A file is whole once every byte of it is written and synced.
File == [whole : BOOLEAN, recs : Seq(Record)]

ASSUME NoFileAssumption == NoFile \notin File

VARIABLES
  file,       \* benches.json
  bak,        \* benches.json.bak
  tmp,        \* tmp[p]: the temporary file p is writing
  holder,     \* who has the OS lock on benches.json.lock
  pc,         \* pc[p]: the next step of p
  op,         \* op[p]: the call p is in
  buf,        \* buf[p]: the contents p is about to save
  kept,       \* kept[p]: the save of p kept, or needed no, previous version
  outcome,    \* outcome[p]: what the call of p will return, "pending" before
  answer      \* answer[p]: what the last call of p returned

vars == <<file, bak, tmp, holder, pc, op, buf, kept, outcome, answer>>

Saving    == {"keep", "bakWrite", "bakSync", "bakRename", "write", "sync", "rename"}
Critical  == Saving \cup {"load", "release"}
Steps     == Critical \cup {"idle", "acquire"}

TypeOK ==
  /\ file \in File \cup {NoFile}
  /\ bak \in File \cup {NoFile}
  /\ tmp \in [Procs -> File \cup {NoFile}]
  /\ holder \in Procs \cup {Free}
  /\ pc \in [Procs -> Steps]
  /\ op \in [Procs -> Ops \cup {Idle}]
  /\ buf \in [Procs -> Seq(Record)]
  /\ kept \in [Procs -> BOOLEAN]
  /\ outcome \in [Procs -> {"pending", "ok", "notfound", "error"}]
  /\ answer \in [Procs -> {"none", "ok", "notfound", "error"}]

Init ==
  /\ file = NoFile
  /\ bak = NoFile
  /\ tmp = [p \in Procs |-> NoFile]
  /\ holder = Free
  /\ pc = [p \in Procs |-> "idle"]
  /\ op = [p \in Procs |-> Idle]
  /\ buf = [p \in Procs |-> <<>>]
  /\ kept = [p \in Procs |-> FALSE]
  /\ outcome = [p \in Procs |-> "pending"]
  /\ answer = [p \in Procs |-> "none"]

\* Load: a missing file reads as no benches.
Load(f) == IF f = NoFile THEN <<>> ELSE f.recs

Goto(p, from, to) ==
  /\ pc[p] = from
  /\ pc' = [pc EXCEPT ![p] = to]

-----------------------------------------------------------------------------
(* The call and its lock *)

Call(p, o) ==
  /\ o.kind = "add" => Len(Load(file)) < MaxRecs
  /\ Goto(p, "idle", "acquire")
  /\ op' = [op EXCEPT ![p] = o]
  /\ answer' = [answer EXCEPT ![p] = "none"]
  /\ UNCHANGED <<file, bak, tmp, holder, buf, kept, outcome>>

\* The return of the call, whatever its outcome.
Return(p, a) ==
  /\ pc' = [pc EXCEPT ![p] = "idle"]
  /\ op' = [op EXCEPT ![p] = Idle]
  /\ buf' = [buf EXCEPT ![p] = <<>>]
  /\ kept' = [kept EXCEPT ![p] = FALSE]
  /\ outcome' = [outcome EXCEPT ![p] = "pending"]
  /\ answer' = [answer EXCEPT ![p] = a]

\* One TryAcquire of the retry loop that finds the lock free.
Acquire(p) ==
  /\ Goto(p, "acquire", "load")
  /\ holder = Free
  /\ holder' = p
  /\ UNCHANGED <<file, bak, tmp, op, buf, kept, outcome, answer>>

\* The deadline passed while another process still had the lock.
Timeout(p) ==
  /\ pc[p] = "acquire"
  /\ holder # Free
  /\ Return(p, "error")
  /\ UNCHANGED <<file, bak, tmp, holder>>

\* The lock file could not be opened: an error that is not ErrHeld ends the loop.
LockFails(p) ==
  /\ pc[p] = "acquire"
  /\ Return(p, "error")
  /\ UNCHANGED <<file, bak, tmp, holder>>

Release(p) ==
  /\ pc[p] = "release"
  /\ Return(p, outcome[p])
  /\ holder' = Free
  /\ UNCHANGED <<file, bak, tmp>>

-----------------------------------------------------------------------------
(* The read-modify-write *)

Modify(p) ==
  /\ Goto(p, "load", "keep")
  /\ Accepts(op[p], Load(file))
  /\ buf' = [buf EXCEPT ![p] = Apply(op[p], Load(file))]
  /\ UNCHANGED <<file, bak, tmp, holder, op, kept, outcome, answer>>

NotFound(p) ==
  /\ Goto(p, "load", "release")
  /\ ~Accepts(op[p], Load(file))
  /\ outcome' = [outcome EXCEPT ![p] = "notfound"]
  /\ UNCHANGED <<file, bak, tmp, holder, op, buf, kept, answer>>

\* Save reads the file once more to keep the version it is about to replace.
\* It keeps none when there is no file or the contents are equal, and goes on
\* without one when that read fails.
Changes(p) == file # NoFile /\ file.recs # buf[p]

\* Mutant: only the first version ever replaced is kept.
KeepPreviousOnce(p) ==
  /\ IF Changes(p) /\ bak = NoFile
     THEN Goto(p, "keep", "bakWrite") /\ UNCHANGED kept
     ELSE Goto(p, "keep", "write") /\ kept' = [kept EXCEPT ![p] = TRUE]
  /\ UNCHANGED <<file, bak, tmp, holder, op, buf, outcome, answer>>

KeepPrevious(p) ==
  /\ \/ Changes(p)  /\ Goto(p, "keep", "bakWrite") /\ UNCHANGED kept
     \/ ~Changes(p) /\ Goto(p, "keep", "write") /\ kept' = [kept EXCEPT ![p] = TRUE]
     \/ Changes(p)  /\ Goto(p, "keep", "write") /\ UNCHANGED kept
  /\ UNCHANGED <<file, bak, tmp, holder, op, buf, outcome, answer>>

\* writeFileAtomic, three steps: bytes into a new temporary file, fsync, rename.
WriteTemp(p, from, to, recs) ==
  /\ Goto(p, from, to)
  /\ tmp' = [tmp EXCEPT ![p] = [whole |-> FALSE, recs |-> recs]]
  /\ UNCHANGED <<file, bak, holder, op, buf, kept, outcome, answer>>

SyncTemp(p, from, to) ==
  /\ Goto(p, from, to)
  /\ tmp' = [tmp EXCEPT ![p].whole = TRUE]
  /\ UNCHANGED <<file, bak, holder, op, buf, kept, outcome, answer>>

WriteBak(p) == WriteTemp(p, "bakWrite", "bakSync", file.recs)
SyncBak(p)  == SyncTemp(p, "bakSync", "bakRename")
RenameBak(p) ==
  /\ Goto(p, "bakRename", "write")
  /\ bak' = tmp[p]
  /\ tmp' = [tmp EXCEPT ![p] = NoFile]
  /\ kept' = [kept EXCEPT ![p] = TRUE]
  /\ UNCHANGED <<file, holder, op, buf, outcome, answer>>

WriteNew(p) == WriteTemp(p, "write", "sync", buf[p])
SyncNew(p)  == SyncTemp(p, "sync", "rename")
RenameNew(p) ==
  /\ Goto(p, "rename", "release")
  /\ file' = tmp[p]
  /\ tmp' = [tmp EXCEPT ![p] = NoFile]
  /\ outcome' = [outcome EXCEPT ![p] = "ok"]
  /\ UNCHANGED <<bak, holder, op, buf, kept, answer>>

\* Mutant: the error of a save is dropped.
FailUnnoticed(p) ==
  /\ pc[p] \in (Saving \ {"keep"}) \cup {"load"}
  /\ pc' = [pc EXCEPT ![p] = "release"]
  /\ tmp' = [tmp EXCEPT ![p] = NoFile]
  /\ outcome' = [outcome EXCEPT ![p] = "ok"]
  /\ UNCHANGED <<file, bak, holder, op, buf, kept, answer>>

\* A read, a write, a sync or a rename fails: the temporary file is removed,
\* the error is returned through the deferred Release.
Fail(p) ==
  /\ pc[p] \in (Saving \ {"keep"}) \cup {"load"}
  /\ pc' = [pc EXCEPT ![p] = "release"]
  /\ tmp' = [tmp EXCEPT ![p] = NoFile]
  /\ outcome' = [outcome EXCEPT ![p] = "error"]
  /\ UNCHANGED <<file, bak, holder, op, buf, kept, answer>>

\* The process is killed.  Its lock is dropped by the operating system; its
\* temporary file keeps a random name nobody opens again.
Crash(p) ==
  /\ pc[p] # "idle"
  /\ Return(p, "none")
  /\ holder' = IF holder = p THEN Free ELSE holder
  /\ tmp' = [tmp EXCEPT ![p] = NoFile]
  /\ UNCHANGED <<file, bak>>

-----------------------------------------------------------------------------
Progress(p) ==
  \/ Acquire(p) \/ Timeout(p) \/ Release(p)
  \/ Modify(p) \/ NotFound(p) \/ KeepPrevious(p)
  \/ WriteBak(p) \/ SyncBak(p) \/ RenameBak(p)
  \/ WriteNew(p) \/ SyncNew(p) \/ RenameNew(p)

Fault(p) == LockFails(p) \/ Fail(p) \/ Crash(p)

Next == \E p \in Procs : \/ \E o \in Ops : Call(p, o)
                         \/ Progress(p)
                         \/ Fault(p)

Spec == Init /\ [][Next]_vars

-----------------------------------------------------------------------------
(* Properties *)

\* Two processes are never between the lock and its release at the same time,
\* so no read-modify-write of benches.json overlaps another (Store.locked).
OneWriter ==
  /\ \A p, q \in Procs : pc[p] \in Critical /\ pc[q] \in Critical => p = q
  /\ \A p \in Procs : pc[p] \in Critical <=> holder = p

\* What a process is about to save is its operation applied to the file as it
\* is now: nobody changed benches.json since it was read, however many system
\* calls ago that was.  This is what loses no update.
FreshBuffer ==
  \A p \in Procs : pc[p] \in Saving =>
     /\ op[p] # Idle
     /\ Accepts(op[p], Load(file))
     /\ buf[p] = Apply(op[p], Load(file))

\* A reader takes no lock, and yet never finds a half-written benches.json or
\* benches.json.bak: what a rename puts in place was synced before.
NeverTorn ==
  /\ file # NoFile => file.whole
  /\ bak # NoFile => bak.whole

\* When the contents of benches.json are replaced, benches.json.bak already
\* holds the replaced version, except when it could not be read back.
PreviousKept ==
  [][file # NoFile /\ Load(file)' # Load(file) =>
        bak = file \/ ~kept[holder]]_vars

\* benches.json only ever changes by one operation of one process applied to
\* its current contents, and a call answers "ok" exactly when its operation
\* did: the store implements the atomic Registry.
Abstract ==
  INSTANCE Registry WITH
    reg    <- Load(file),
    call   <- op,
    effect <- [p \in Procs |-> IF outcome[p] = "error" THEN "pending" ELSE outcome[p]],
    answer <- answer

ImplementsRegistry == Abstract!Spec

=============================================================================
