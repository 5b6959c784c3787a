------------------------ MODULE BackupScheduleProofs ------------------------
(***************************************************************************)
(* What holds of scheduled backups and their pruning, for any number of    *)
(* processes, any policies, any calendar and any length of time: a backup  *)
(* keeps the file that it is writing, a prune spares the newest archives   *)
(* and all that is not its own, nothing is pruned before the new archive   *)
(* is safe, and scheduled archives keep their distance.  Prune after prune *)
(* leaves the newest of the history that its tiers name, the loop that     *)
(* picks them does what its comment says, and attachments keep their own   *)
(* distance where the policies and the calendar allow it (CadencesKept).   *)
(*                                                                         *)
(* Then of one archive on its way, to any kind of target and whatever goes *)
(* wrong: a file is a prefix of the archive (Bodies), and TransitInv says  *)
(* when it is all of it.                                                   *)
(***************************************************************************)
EXTENDS BackupSchedule, Transit, TLAPS, FiniteSetTheorems, SequenceTheorems, WellFoundedInduction

-----------------------------------------------------------------------------
(* Finite sets of times and of archives *)

\* A finite set of numbers that is not empty has a largest one: otherwise each
\* has between one and n - 1 larger ones, two of the n as many.
LEMMA Largest ==
  ASSUME NEW S \in SUBSET Int, IsFiniteSet(S), S # {}
  PROVE  \E m \in S : \A s \in S : s =< m
<1> SUFFICES ASSUME \A m \in S : \E s \in S : m < s
             PROVE  FALSE
  OBVIOUS
<1> DEFINE above(m) == {s \in S : m < s}
           n == Cardinality(S)
           g == [m \in S |-> Cardinality(above(m))]
<1>1. n \in Nat
  BY FS_CardinalityType
<1>2. ASSUME NEW m \in S
      PROVE  IsFiniteSet(above(m)) /\ Cardinality(above(m)) \in 1..(n - 1)
  <2>1. above(m) \in SUBSET S /\ above(m) # S /\ above(m) # {}
    OBVIOUS
  <2>2. IsFiniteSet(above(m)) /\ Cardinality(above(m)) =< n /\ Cardinality(above(m)) # n
    BY <2>1, FS_Subset
  <2>3. Cardinality(above(m)) \in Nat /\ Cardinality(above(m)) # 0
    BY <2>1, <2>2, FS_CardinalityType, FS_EmptySet
  <2> QED
    BY <1>1, <2>2, <2>3
<1>3. g \in [S -> 1..(n - 1)]
  BY <1>2
<1>4. IsFiniteSet(1..(n - 1)) /\ Cardinality(1..(n - 1)) < n
  <2>1. n # 0
    BY FS_EmptySet
  <2>2. n - 1 \in Int /\ 1 =< n
    BY <1>1, <2>1
  <2>3. IsFiniteSet(1..(n - 1)) /\ Cardinality(1..(n - 1)) = IF 1 > n - 1 THEN 0 ELSE (n - 1) - 1 + 1
    BY <2>2, FS_Interval
  <2> QED
    BY <1>1, <2>2, <2>3
<1>5. PICK x, y \in S : x # y /\ g[x] = g[y]
  <2> DEFINE T == 1..(n - 1)
  <2>1. g \in [S -> T] /\ IsFiniteSet(T) /\ Cardinality(T) < Cardinality(S)
    BY <1>3, <1>4
  <2> HIDE DEF g, T
  <2> QED
    BY <2>1, FS_PigeonHole
<1>6. Cardinality(above(x)) = Cardinality(above(y))
  BY <1>5
<1>7. ASSUME NEW a \in S, NEW b \in S, a < b, Cardinality(above(a)) = Cardinality(above(b))
      PROVE  FALSE
  <2>1. \A s \in S : b < s => a < s
    BY <1>7
  <2>2. b \in above(a) /\ b \notin above(b)
    BY <1>7
  <2>3. above(b) \in SUBSET above(a)
    BY <2>1
  <2>4. IsFiniteSet(above(a))
    BY <1>2
  <2>5. above(a) = above(b)
    BY <1>7, <2>3, <2>4, FS_Subset
  <2> QED
    BY <2>2, <2>5
<1>8. x < y \/ y < x
  BY <1>5
<1> QED
  BY <1>6, <1>7, <1>8

\* The newest of some archives.
LEMMA NewestExists ==
  ASSUME NEW S \in SUBSET Archive, S # {}
  PROVE  \E a \in S : \A b \in S : b.at =< a.at
<1> DEFINE T == {a.at : a \in S}
<1>1. T \in SUBSET Times /\ T # {}
  BY DEF Archive
<1>2. T \in SUBSET Int
  BY <1>1 DEF Times
<1>3. IsFiniteSet(T)
  <2>1. IsFiniteSet(Times)
    BY RetentionAssumption, FS_Interval DEF Times
  <2> QED
    BY <1>1, <2>1, FS_Subset
<1>4. PICK m \in T : \A s \in T : s =< m
  BY <1>1, <1>2, <1>3, Largest
<1> QED
  BY <1>4

\* One that no other is before.
LEMMA LeastExists ==
  ASSUME NEW S \in SUBSET Archive, S # {}
  PROVE  \E a \in S : \A b \in S : b.at =< a.at /\ ~Before(b, a)
<1>1. PICK a \in S : \A b \in S : b.at =< a.at
  BY NewestExists
<1>2. CASE \E c \in S : c.at = a.at /\ c.form = "plain"
  <2>1. PICK c \in S : c.at = a.at /\ c.form = "plain"
    BY <1>2
  <2> QED
    BY <1>1, <2>1, RetentionAssumption DEF Archive, Times, Before
<1>3. CASE ~\E c \in S : c.at = a.at /\ c.form = "plain"
  BY <1>1, <1>3, RetentionAssumption DEF Archive, Times, Before
<1> QED
  BY <1>2, <1>3

\* The order in which a prune looks at archives is transitive.
LEMMA BeforeTransitive ==
  ASSUME NEW a \in Archive, NEW b \in Archive, NEW c \in Archive, Before(a, b), Before(b, c)
  PROVE  Before(a, c) /\ a.at >= c.at
BY RetentionAssumption DEF Archive, Times, Before

\* What is not on the floor has RetentionFloor archives of the floor before it.
LEMMA FloorBefore ==
  ASSUME NEW S \in SUBSET Archive, IsFiniteSet(S), NEW a \in S, a \notin Floor(S)
  PROVE  Cardinality({b \in Floor(S) : b.at >= a.at}) >= RetentionFloor
<1> DEFINE before(c) == {b \in S : Before(b, c)}
           newer == {b \in Floor(S) : b.at >= a.at}
           P == {c \in {a} \cup before(a) : c \notin Floor(S)}
<1>1. PICK c \in P : \A b \in P : ~Before(b, c)
  <2>1. P \in SUBSET Archive /\ P # {}
    OBVIOUS
  <2> QED
    BY <2>1, LeastExists
<1>2. before(c) \subseteq newer
  <2> SUFFICES ASSUME NEW b \in before(c) PROVE b \in newer
    OBVIOUS
  <2>1. b \in S /\ Before(b, c) /\ b \in Archive /\ c \in Archive /\ a \in Archive
    OBVIOUS
  <2>2. b \in before(a) /\ b.at >= a.at
    <3>1. CASE c = a
      BY <2>1, <3>1, RetentionAssumption DEF Archive, Times, Before
    <3>2. CASE c # a
      BY <2>1, <3>2, BeforeTransitive
    <3> QED
      BY <3>1, <3>2
  <2> QED
    BY <1>1, <2>1, <2>2
<1>3. IsFiniteSet(before(c)) /\ Cardinality(before(c)) \in Nat
  <2>1. before(c) \in SUBSET S
    OBVIOUS
  <2> QED
    BY <2>1, FS_Subset, FS_CardinalityType
<1>4. Cardinality(before(c)) >= RetentionFloor
  <2>1. c \in S /\ c \notin Floor(S)
    OBVIOUS
  <2> QED
    BY <1>3, <2>1, RetentionAssumption DEF Floor
<1>5. IsFiniteSet(newer) /\ Cardinality(newer) \in Nat
  <2>1. newer \in SUBSET S
    BY DEF Floor
  <2> QED
    BY <2>1, FS_Subset, FS_CardinalityType
<1>6. Cardinality(before(c)) =< Cardinality(newer)
  BY <1>2, <1>5, FS_Subset
<1> QED
  BY <1>3, <1>4, <1>5, <1>6, RetentionAssumption

\* The floor is kept, with the newest archive.
LEMMA FloorKept ==
  ASSUME NEW S, NEW pol
  PROVE  Floor(S) \subseteq selectRetained(S, pol)
BY DEF selectRetained

\* The first one is on the floor.
LEMMA NoneBefore ==
  ASSUME NEW S, NEW a \in S, \A b \in S : ~Before(b, a)
  PROVE  a \in Floor(S)
<1>1. {b \in S : Before(b, a)} = {}
  OBVIOUS
<1> QED
  BY <1>1, FS_EmptySet, RetentionAssumption, IntervalAssumption DEF Floor

-----------------------------------------------------------------------------
(* Types, and which step holds which lock *)

Holding    == {"other", "dump", "create", "close", "encrypt", "sidecar", "replace", "put",
               "putSidecar", "confirm", "prune", "pruneRemote"}
Packing    == {"dump", "create", "close", "encrypt", "sidecar", "replace", "put", "putSidecar",
               "confirm"}
Writing    == Packing \ {"dump"}
Encrypting == {"encrypt", "sidecar", "replace"}
Putting    == {"put", "putSidecar", "confirm"}

\* The archive that p makes carries its job's trigger and a time that is past.
MakingOK(p) ==
  making[p] # None =>
    /\ pc[p] \in Writing \cup {"prune", "pruneRemote"}
    /\ making[p] \in Archive
    /\ making[p].form = "plain"
    /\ making[p].at =< now
    /\ making[p].trigger = IF job[p].kind = "run" THEN "scheduled" ELSE "manual"

\* A process is at a step that its job comes to.
JobOK(p) ==
  /\ pc[p] # "idle" => job[p] \in Job /\ (job[p].upload => job[p].encrypt)
  /\ pc[p] \in {"load", "check", "pruneRemote"} => job[p].kind = "run"
  /\ pc[p] = "prune" => job[p].kind \in {"run", "prune"}
  /\ pc[p] \in Packing => job[p].kind \in {"run", "backup"}
  /\ pc[p] \in Encrypting \cup Putting => job[p].encrypt
  /\ pc[p] \in Putting \cup {"pruneRemote"} => job[p].upload
  /\ pc[p] \notin {"idle", "load"} /\ job[p].kind \in {"run", "prune"} => seen[p] \in Policies
  /\ pc[p] \in Writing \cup {"pruneRemote"} => making[p] # None
  /\ pc[p] = "prune" /\ job[p].kind = "run" => making[p] # None

\* It holds the bench lock, and the lock of run-due if it is a pass.
LocksOK(p) ==
  /\ pc[p] \in Holding => benchLock = p
  /\ pc[p] # "idle" /\ job[p].kind = "run" => runLock = p

TypeInv ==
  /\ TypeOK
  /\ IsFiniteSet(local) /\ IsFiniteSet(remote)
  /\ \A p \in Procs : JobOK(p) /\ MakingOK(p) /\ LocksOK(p)

\* What one process does to the variables of the others, and to their locks.
Alone(p) ==
  /\ now' = now
  /\ \A q \in Procs \ {p} :
       /\ pc'[q] = pc[q] /\ job'[q] = job[q] /\ seen'[q] = seen[q] /\ making'[q] = making[q]
       /\ (benchLock' = q <=> benchLock = q) /\ (runLock' = q <=> runLock = q)

\* Its steps.
Does(p) == StartRun(p) \/ StartUser(p) \/ Step(p) \/ Fail(p) \/ Crash(p)

\* Another process keeps what it has.
LEMMA OthersKeep ==
  ASSUME NEW p \in Procs, NEW q \in Procs \ {p}, Alone(p), JobOK(q), MakingOK(q), LocksOK(q)
  PROVE  JobOK(q)' /\ MakingOK(q)' /\ LocksOK(q)'
<1>1. /\ pc'[q] = pc[q] /\ job'[q] = job[q] /\ seen'[q] = seen[q] /\ making'[q] = making[q]
      /\ (benchLock' = q <=> benchLock = q) /\ (runLock' = q <=> runLock = q) /\ now' = now
  BY DEF Alone
<1>2. JobOK(q)'
  BY <1>1 DEF JobOK
<1>3. MakingOK(q)'
  BY <1>1 DEF MakingOK
<1>4. LocksOK(q)'
  BY <1>1 DEF LocksOK
<1> QED
  BY <1>2, <1>3, <1>4

\* The files of an archive.
LEMMA FilesType ==
  ASSUME NEW p, making[p] \in Archive
  PROVE  /\ Plain(p) \in Archive /\ Age(p) \in Archive /\ Headless(p) \in Archive
         /\ Plain(p).at = making[p].at /\ Age(p).at = making[p].at /\ Headless(p).at = making[p].at
         /\ Age(p).form = "age" /\ Headless(p).form = "headless"
         /\ Age(p).trigger = making[p].trigger /\ Headless(p).trigger = making[p].trigger
BY DEF Plain, Age, Headless, Archive

\* A return gives the locks back, and forgets the job.
LEMMA ReturnKeeps ==
  ASSUME NEW p \in Procs, TypeInv, Return(p), now' = now
  PROVE  /\ Alone(p)
         /\ pc' \in [Procs -> Steps] /\ job' \in [Procs -> Job \cup {None}]
         /\ seen' \in [Procs -> Policies \cup {None}] /\ making' \in [Procs -> Archive \cup {None}]
         /\ runLock' \in Procs \cup {Free} /\ benchLock' \in Procs \cup {Free}
         /\ JobOK(p)' /\ MakingOK(p)' /\ LocksOK(p)'
         /\ pc'[p] = "idle" /\ making'[p] = None
<1>1. pc'[p] = "idle" /\ making'[p] = None
  BY DEF Return, TypeInv, TypeOK
<1>2. Alone(p)
  BY ScheduleAssumption DEF Return, Alone, Released, TypeInv, TypeOK
<1>3. JobOK(p)' /\ MakingOK(p)' /\ LocksOK(p)'
  BY <1>1 DEF JobOK, MakingOK, LocksOK, Packing, Writing, Encrypting, Putting, Holding
<1>4. /\ pc' \in [Procs -> Steps] /\ job' \in [Procs -> Job \cup {None}]
      /\ seen' \in [Procs -> Policies \cup {None}] /\ making' \in [Procs -> Archive \cup {None}]
      /\ runLock' \in Procs \cup {Free} /\ benchLock' \in Procs \cup {Free}
  BY DEF Return, Released, TypeInv, TypeOK, Steps
<1> QED
  BY <1>1, <1>2, <1>3, <1>4

\* A step on, under the same locks.
LEMMA GoesKeeps ==
  ASSUME NEW p \in Procs, NEW step \in Steps, TypeInv, Goes(p, step), now' = now
  PROVE  /\ Alone(p)
         /\ pc' \in [Procs -> Steps] /\ job' \in [Procs -> Job \cup {None}]
         /\ seen' \in [Procs -> Policies \cup {None}] /\ making' \in [Procs -> Archive \cup {None}]
         /\ runLock' \in Procs \cup {Free} /\ benchLock' \in Procs \cup {Free}
         /\ pc'[p] = step /\ job' = job /\ seen' = seen /\ making' = making
         /\ benchLock' = benchLock /\ runLock' = runLock
BY DEF Goes, Goto, Alone, TypeInv, TypeOK

\* What a step leaves in the variables of processes.
Typed ==
  /\ pc' \in [Procs -> Steps] /\ job' \in [Procs -> Job \cup {None}]
  /\ seen' \in [Procs -> Policies \cup {None}] /\ making' \in [Procs -> Archive \cup {None}]
  /\ runLock' \in Procs \cup {Free} /\ benchLock' \in Procs \cup {Free}

\* What a step leaves of its own process.
Kept(p) == Alone(p) /\ Typed /\ JobOK(p)' /\ MakingOK(p)' /\ LocksOK(p)'

\* A return, in the form that the steps below use.
LEMMA Returns ==
  ASSUME NEW p \in Procs, TypeInv, Return(p), now' = now
  PROVE  Kept(p)
BY ReturnKeeps DEF Kept, Typed

\* The step after the archive is stored.
LEMMA StoredKept ==
  ASSUME NEW p \in Procs, TypeInv, pc[p] \in {"close", "replace", "confirm"}, Stored(p), now' = now
  PROVE  Kept(p)
<1>1. JobOK(p) /\ MakingOK(p) /\ LocksOK(p)
  BY DEF TypeInv
<1>2. CASE job[p].kind = "run"
  <2>1. Goes(p, "prune") /\ "prune" \in Steps
    BY <1>2 DEF Stored, Steps
  <2> HIDE DEF TypeInv
  <2>2. /\ Alone(p) /\ Typed
        /\ pc'[p] = "prune" /\ job' = job /\ seen' = seen /\ making' = making
        /\ benchLock' = benchLock /\ runLock' = runLock
    BY <2>1, GoesKeeps DEF Typed
  <2>3. JobOK(p)'
    BY <1>1, <1>2, <2>2 DEF JobOK, Packing, Writing, Encrypting, Putting
  <2>4. MakingOK(p)' /\ LocksOK(p)'
    BY <1>1, <1>2, <2>2 DEF MakingOK, LocksOK, Holding, Packing, Writing
  <2> QED
    BY <2>2, <2>3, <2>4 DEF Kept
<1>3. CASE job[p].kind # "run"
  BY <1>3, Returns DEF Stored
<1> QED
  BY <1>2, <1>3

\* A step of the backup to the next one.
Follows == {<<"create", "close">>, <<"close", "encrypt">>, <<"encrypt", "sidecar">>,
            <<"sidecar", "replace">>, <<"replace", "put">>, <<"put", "putSidecar">>,
            <<"putSidecar", "confirm">>}

\* The step goes on under the lock of the bench with the same archive.
LEMMA PackKept ==
  ASSUME NEW p \in Procs, NEW to, TypeInv, <<pc[p], to>> \in Follows, Goes(p, to), now' = now,
         to = "encrypt" => job[p].encrypt, to = "put" => job[p].upload
  PROVE  Kept(p)
<1>1. JobOK(p) /\ MakingOK(p) /\ LocksOK(p)
  BY DEF TypeInv
<1>2. to \in Steps /\ pc[p] \in Packing /\ to \in Packing \cap Writing /\ to # "idle"
  BY DEF Follows, Steps, Packing, Writing
<1>3. /\ Alone(p) /\ Typed
      /\ pc'[p] = to /\ job' = job /\ seen' = seen /\ making' = making
      /\ benchLock' = benchLock /\ runLock' = runLock
  BY <1>2, GoesKeeps DEF Typed
<1>4. pc[p] \notin {"idle", "load", "check", "prune", "pruneRemote"} /\ job[p] \in Job
  BY <1>1, <1>2 DEF Packing, JobOK
<1>5. pc[p] # "dump"
  BY DEF Follows
<1>6. JobOK(p)'
  <2>1. to \in Encrypting \cup Putting => job[p].encrypt
    BY <1>1 DEF Follows, JobOK, Encrypting, Putting
  <2>2. to \in Putting => job[p].upload
    BY <1>1 DEF Follows, JobOK, Putting
  <2>3. to \notin {"load", "check", "pruneRemote", "prune"}
    BY DEF Follows
  <2> QED
    BY <1>1, <1>2, <1>3, <1>4, <1>5, <2>1, <2>2, <2>3 DEF JobOK, Writing
<1>7. MakingOK(p)'
  BY <1>1, <1>2, <1>3 DEF MakingOK
<1>8. LocksOK(p)'
  BY <1>1, <1>2, <1>3, <1>4 DEF LocksOK, Holding, Packing
<1> QED
  BY <1>3, <1>6, <1>7, <1>8 DEF Kept

\* A new job is a job of its kind, and an upload is encrypted.
LEMMA JobType ==
  ASSUME NEW k \in {"run", "backup", "prune", "other"}, NEW e \in BOOLEAN, NEW u \in BOOLEAN
  PROVE  /\ NewJob(k, e, u) \in Job
         /\ NewJob(k, e, u).kind = k
         /\ NewJob(k, e, u).upload => NewJob(k, e, u).encrypt
BY RetentionAssumption DEF NewJob, Job, Times

\* A pass takes the lock of run-due before its first step.
LEMMA StartRunKept ==
  ASSUME NEW p \in Procs, TypeInv, StartRun(p)
  PROVE  Kept(p)
<1>1. JobOK(p) /\ MakingOK(p) /\ TypeOK
  BY DEF TypeInv
<1>2. NewJob("run", FALSE, FALSE) \in Job /\ NewJob("run", FALSE, FALSE).kind = "run"
      /\ (NewJob("run", FALSE, FALSE).upload => NewJob("run", FALSE, FALSE).encrypt)
  BY JobType
<1> DEFINE j == NewJob("run", FALSE, FALSE)
<1> HIDE DEF j
<1>3. /\ pc' = [pc EXCEPT ![p] = "load"] /\ job' = [job EXCEPT ![p] = j]
      /\ runLock = Free /\ runLock' = p /\ pc[p] = "idle"
      /\ UNCHANGED <<now, benchLock, seen, making>>
  BY DEF StartRun, Calls, At, Goto, j
<1>4. Alone(p) /\ Typed
  BY <1>1, <1>2, <1>3, ScheduleAssumption DEF Alone, Typed, TypeOK, Steps, j
<1>5. pc'[p] = "load" /\ job'[p] = j /\ making'[p] = making[p]
  BY <1>1, <1>3 DEF TypeOK
<1>6. making[p] = None
  BY <1>1, <1>3 DEF MakingOK, Writing, Packing
<1>7. JobOK(p)' /\ MakingOK(p)' /\ LocksOK(p)'
  BY <1>2, <1>3, <1>5, <1>6
     DEF JobOK, MakingOK, LocksOK, Holding, Packing, Writing, Encrypting, Putting, j
<1> QED
  BY <1>4, <1>7 DEF Kept

\* A user's call starts without a lock; a prune has read its policy.
LEMMA StartUserKept ==
  ASSUME NEW p \in Procs, TypeInv, StartUser(p)
  PROVE  Kept(p)
<1>1. JobOK(p) /\ MakingOK(p) /\ TypeOK
  BY DEF TypeInv
<1>2. /\ pc' = [pc EXCEPT ![p] = "lock"] /\ pc[p] = "idle"
      /\ UNCHANGED <<now, benchLock, runLock, making>>
  BY DEF StartUser, Calls, At, Goto
<1>3. PICK j \in Job : /\ job' = [job EXCEPT ![p] = j]
                       /\ j.kind # "run" /\ (j.upload => j.encrypt)
                       /\ j.kind # "prune" => seen' = seen
                       /\ j.kind = "prune" => policy # None /\ seen' = [seen EXCEPT ![p] = policy]
  <2>1. CASE \E encrypt, upload \in BOOLEAN :
                job' = [job EXCEPT ![p] = NewJob("backup", encrypt, upload)] /\ UNCHANGED seen
    <3>1. PICK e, u \in BOOLEAN : job' = [job EXCEPT ![p] = NewJob("backup", e, u)] /\ UNCHANGED seen
      BY <2>1
    <3>2. /\ NewJob("backup", e, u) \in Job /\ NewJob("backup", e, u).kind = "backup"
          /\ NewJob("backup", e, u).upload => NewJob("backup", e, u).encrypt
      BY JobType
    <3> QED
      BY <3>1, <3>2
  <2>2. CASE policy # None /\ job' = [job EXCEPT ![p] = NewJob("prune", FALSE, FALSE)]
             /\ seen' = [seen EXCEPT ![p] = policy]
    <3>1. /\ NewJob("prune", FALSE, FALSE) \in Job /\ NewJob("prune", FALSE, FALSE).kind = "prune"
          /\ NewJob("prune", FALSE, FALSE).upload => NewJob("prune", FALSE, FALSE).encrypt
      BY JobType
    <3> QED
      BY <2>2, <3>1
  <2>3. CASE job' = [job EXCEPT ![p] = NewJob("other", FALSE, FALSE)] /\ UNCHANGED seen
    <3>1. /\ NewJob("other", FALSE, FALSE) \in Job /\ NewJob("other", FALSE, FALSE).kind = "other"
          /\ NewJob("other", FALSE, FALSE).upload => NewJob("other", FALSE, FALSE).encrypt
      BY JobType
    <3> QED
      BY <2>3, <3>1
  <2> QED
    BY <2>1, <2>2, <2>3 DEF StartUser
<1>4. pc'[p] = "lock" /\ job'[p] = j /\ making'[p] = making[p] /\ making[p] = None
  BY <1>1, <1>2, <1>3 DEF TypeOK, MakingOK, Writing, Packing
<1>5. j.kind = "prune" => policy \in Policies /\ seen'[p] \in Policies
  BY <1>1, <1>3 DEF TypeOK
<1>6. Alone(p) /\ Typed
  <2>1. Typed
    BY <1>1, <1>2, <1>3, <1>5 DEF Typed, TypeOK, Steps
  <2>2. Alone(p)
    BY <1>1, <1>2, <1>3 DEF Alone, TypeOK
  <2> QED
    BY <2>1, <2>2
<1>7. JobOK(p)'
  BY <1>3, <1>4, <1>5 DEF JobOK, Packing, Writing, Encrypting, Putting
<1>8. MakingOK(p)' /\ LocksOK(p)'
  BY <1>3, <1>4 DEF MakingOK, LocksOK, Holding
<1> QED
  BY <1>6, <1>7, <1>8 DEF Kept

\* LoadBenches reads a policy that some user has set.
LEMMA LoadKept ==
  ASSUME NEW p \in Procs, TypeInv, LoadBenches(p)
  PROVE  Kept(p)
<1>1. JobOK(p) /\ MakingOK(p) /\ LocksOK(p) /\ TypeOK /\ pc[p] = "load" /\ now' = now
  BY DEF TypeInv, LoadBenches, At
<1>2. CASE Return(p)
  BY <1>1, <1>2, Returns
<1>3. CASE ~Return(p)
  <2>1. /\ policy \in Policies /\ pc' = [pc EXCEPT ![p] = "check"] /\ seen' = [seen EXCEPT ![p] = policy]
        /\ UNCHANGED <<job, making, runLock, benchLock>>
    BY <1>1, <1>3 DEF LoadBenches, Goto, TypeOK
  <2>2. pc'[p] = "check" /\ seen'[p] = policy /\ job'[p] = job[p] /\ making'[p] = making[p]
        /\ making[p] = None
    BY <1>1, <2>1 DEF TypeOK, MakingOK, Writing, Packing
  <2>3. Alone(p) /\ Typed
    BY <1>1, <2>1 DEF Alone, Typed, TypeOK, Steps
  <2>4. JobOK(p)' /\ MakingOK(p)' /\ LocksOK(p)'
    BY <1>1, <2>1, <2>2
       DEF JobOK, MakingOK, LocksOK, Holding, Packing, Writing, Encrypting, Putting
  <2> QED
    BY <2>3, <2>4 DEF Kept
<1> QED
  BY <1>2, <1>3

\* The job that a due pass sets itself.
Due(p) == [NewJob("run", seen[p].encrypt, seen[p].upload) EXCEPT !.files = includeFiles(p), !.attempt = now]

\* It is a job that asks for an encryption whenever it asks for an upload.
LEMMA DueType ==
  ASSUME NEW p \in Procs, TypeInv, seen[p] \in Policies
  PROVE  /\ Due(p) \in Job /\ Due(p).kind = "run" /\ Due(p).attempt = now
         /\ Due(p).files = includeFiles(p)
         /\ Due(p).upload => Due(p).encrypt
<1>1. seen[p] \in Policy /\ now \in Times
  BY ScheduleAssumption DEF TypeInv, TypeOK
<1>2. includeFiles(p) \in BOOLEAN
  <2> DEFINE b == WithFiles = {} \/ now - Newest(WithFiles) >= Cadence(seen[p]) - Slack
  <2>1. b \in BOOLEAN
    OBVIOUS
  <2> HIDE DEF b
  <2>2. includeFiles(p) = CASE seen[p].files = "never"     -> FALSE
                            [] seen[p].files = "every-run" -> TRUE
                            [] OTHER -> b
    BY DEF includeFiles, b
  <2> QED
    BY <2>1, <2>2
<1>3. seen[p].encrypt \in BOOLEAN /\ seen[p].upload \in BOOLEAN
  BY <1>1 DEF Policy
<1> DEFINE j == NewJob("run", seen[p].encrypt, seen[p].upload)
<1>4. j \in Job /\ j.kind = "run" /\ (j.upload => j.encrypt)
  BY <1>3, JobType
<1> HIDE DEF j
<1>5. Due(p) = [j EXCEPT !.files = includeFiles(p), !.attempt = now]
  BY DEF Due, j
<1> QED
  BY <1>1, <1>2, <1>4, <1>5 DEF Job

\* A due pass goes for the lock of the bench, another one returns.
LEMMA CheckKept ==
  ASSUME NEW p \in Procs, TypeInv, CheckDue(p)
  PROVE  Kept(p)
<1>1. JobOK(p) /\ MakingOK(p) /\ LocksOK(p) /\ TypeOK /\ pc[p] = "check" /\ now' = now
  BY DEF TypeInv, CheckDue, At
<1>2. CASE ~due(p)
  BY <1>1, <1>2, Returns DEF CheckDue
<1>3. CASE due(p)
  <2>1. seen[p] \in Policies /\ making[p] = None
    BY <1>1 DEF JobOK, MakingOK, Writing, Packing
  <2>2. /\ Due(p) \in Job /\ Due(p).kind = "run" /\ (Due(p).upload => Due(p).encrypt)
    BY <2>1, DueType
  <2>3. /\ pc' = [pc EXCEPT ![p] = "lock"] /\ job' = [job EXCEPT ![p] = Due(p)]
        /\ UNCHANGED <<seen, making, runLock, benchLock>>
    BY <1>3 DEF CheckDue, Goto, Due
  <2>4. pc'[p] = "lock" /\ job'[p] = Due(p) /\ seen'[p] = seen[p] /\ making'[p] = None
    BY <1>1, <2>1, <2>3 DEF TypeOK
  <2>5. Alone(p) /\ Typed
    BY <1>1, <2>2, <2>3 DEF Alone, Typed, TypeOK, Steps
  <2>6. JobOK(p)' /\ MakingOK(p)' /\ LocksOK(p)'
    BY <1>1, <2>1, <2>2, <2>3, <2>4
       DEF JobOK, MakingOK, LocksOK, Holding, Packing, Writing, Encrypting, Putting
  <2> QED
    BY <2>5, <2>6 DEF Kept
<1> QED
  BY <1>2, <1>3

\* Whoever gets the lock of the bench goes where its kind of job goes.
LEMMA LockKept ==
  ASSUME NEW p \in Procs, TypeInv, LockBench(p)
  PROVE  Kept(p)
<1>1. JobOK(p) /\ MakingOK(p) /\ LocksOK(p) /\ TypeOK /\ pc[p] = "lock" /\ now' = now
  BY DEF TypeInv, LockBench, At
<1>2. CASE benchLock # Free
  BY <1>1, <1>2, Returns DEF LockBench
<1>3. CASE benchLock = Free
  <2>1. job[p] \in Job /\ making[p] = None
    BY <1>1 DEF JobOK, MakingOK, Writing, Packing
  <2> DEFINE to == AfterLock(job[p].kind)
  <2>2. /\ to \in {"dump", "prune", "other"}
        /\ job[p].kind \in {"run", "backup"} => to = "dump"
        /\ job[p].kind = "prune" => to = "prune"
        /\ job[p].kind = "other" => to = "other"
        /\ job[p].kind \in {"run", "backup", "prune", "other"}
    BY <2>1 DEF AfterLock, Job
  <2> HIDE DEF to
  <2>3. /\ pc' = [pc EXCEPT ![p] = to] /\ benchLock' = p
        /\ UNCHANGED <<job, seen, making, runLock>>
    BY <1>3 DEF LockBench, Goto, to
  <2>4. pc'[p] = to /\ job'[p] = job[p] /\ seen'[p] = seen[p] /\ making'[p] = None
    BY <1>1, <2>1, <2>3 DEF TypeOK
  <2>5. Alone(p) /\ Typed
    BY <1>1, <1>3, <2>2, <2>3, ScheduleAssumption DEF Alone, Typed, TypeOK, Steps
  <2>6. JobOK(p)'
    BY <1>1, <2>1, <2>2, <2>4 DEF JobOK, Packing, Writing, Encrypting, Putting
  <2>7. MakingOK(p)' /\ LocksOK(p)'
    BY <1>1, <2>2, <2>3, <2>4 DEF MakingOK, LocksOK
  <2> QED
    BY <2>5, <2>6, <2>7 DEF Kept
<1> QED
  BY <1>2, <1>3

\* The dump gives the new archive its time and its trigger.
LEMMA DumpKept ==
  ASSUME NEW p \in Procs, TypeInv, Dump(p)
  PROVE  Kept(p)
<1>1. JobOK(p) /\ MakingOK(p) /\ LocksOK(p) /\ TypeOK /\ pc[p] = "dump"
      /\ UNCHANGED <<now, runLock, benchLock, job, seen>>
  BY DEF TypeInv, Dump, At
<1> DEFINE a == [at |-> now, files |-> job[p].files, form |-> "plain",
                 trigger |-> IF job[p].kind = "run" THEN "scheduled" ELSE "manual"]
<1>2. /\ a \in Archive /\ a.form = "plain" /\ a.at =< now
      /\ a.trigger = IF job[p].kind = "run" THEN "scheduled" ELSE "manual"
  BY <1>1, RetentionAssumption DEF JobOK, Job, Archive, TypeOK, Times
<1>3. making' = [making EXCEPT ![p] = a] /\ pc' = [pc EXCEPT ![p] = "create"]
  BY DEF Dump, Goto
<1> HIDE DEF a
<1>4. making'[p] = a /\ pc'[p] = "create" /\ a # None
  BY <1>1, <1>2, <1>3, ScheduleAssumption DEF TypeOK
<1>5. Alone(p) /\ Typed
  BY <1>1, <1>2, <1>3 DEF Alone, Typed, TypeOK, Steps
<1>6. JobOK(p)'
  BY <1>1, <1>4 DEF JobOK, Packing, Writing, Encrypting, Putting
<1>7. MakingOK(p)' /\ LocksOK(p)'
  BY <1>1, <1>2, <1>4 DEF MakingOK, LocksOK, Holding, Writing, Packing
<1> QED
  BY <1>5, <1>6, <1>7 DEF Kept

\* A prune returns, or goes on to the target as a pass that uploads.
LEMMA PruneKept ==
  ASSUME NEW p \in Procs, TypeInv, Prune(p)
  PROVE  Kept(p)
<1>1. JobOK(p) /\ MakingOK(p) /\ LocksOK(p) /\ TypeOK /\ pc[p] = "prune" /\ now' = now
  BY DEF TypeInv, Prune, At
<1>2. CASE job[p].kind = "run" /\ job[p].upload
  <2>1. Goes(p, "pruneRemote") /\ "pruneRemote" \in Steps
    BY <1>2 DEF Prune, Pruned, Steps
  <2>2. /\ Alone(p) /\ Typed
        /\ pc'[p] = "pruneRemote" /\ job' = job /\ seen' = seen /\ making' = making
        /\ benchLock' = benchLock /\ runLock' = runLock
    BY <1>1, <2>1, GoesKeeps DEF Typed
  <2>3. JobOK(p)'
    BY <1>1, <1>2, <2>2 DEF JobOK, Packing, Writing, Encrypting, Putting
  <2>4. MakingOK(p)' /\ LocksOK(p)'
    BY <1>1, <1>2, <2>2 DEF MakingOK, LocksOK, Holding
  <2> QED
    BY <2>2, <2>3, <2>4 DEF Kept
<1>3. CASE ~(job[p].kind = "run" /\ job[p].upload)
  BY <1>1, <1>3, Returns DEF Prune, Pruned
<1> QED
  BY <1>2, <1>3

\* Every step of a process.
LEMMA DoesKeep ==
  ASSUME NEW p \in Procs, TypeInv, Does(p)
  PROVE  Kept(p)
<1>1. CASE StartRun(p) \/ StartUser(p)
  BY <1>1, StartRunKept, StartUserKept
<1>2. CASE LoadBenches(p) \/ CheckDue(p) \/ LockBench(p) \/ Dump(p) \/ Prune(p)
  BY <1>2, LoadKept, CheckKept, LockKept, DumpKept, PruneKept
<1>3. CASE Other(p) \/ SkipStopped(p) \/ PruneRemote(p) \/ Fail(p) \/ Crash(p)
  BY <1>3, Returns DEF Other, SkipStopped, PruneRemote, Fail, Crash
<1>4. CASE CreateArchive(p)
  BY <1>4, PackKept DEF CreateArchive, At, Follows
<1>5. CASE CloseArchive(p)
  BY <1>5, PackKept, StoredKept DEF CloseArchive, At, Follows
<1>6. CASE Encrypt(p) \/ Sidecar(p)
  BY <1>6, PackKept DEF Encrypt, Sidecar, At, Follows
<1>7. CASE Replace(p)
  BY <1>7, PackKept, StoredKept DEF Replace, At, Follows
<1>8. CASE Put(p) \/ PutSidecar(p)
  BY <1>8, PackKept DEF Put, PutSidecar, At, Follows
<1>9. CASE Confirm(p)
  BY <1>9, StoredKept DEF Confirm, At
<1> QED
  BY <1>1, <1>2, <1>3, <1>4, <1>5, <1>6, <1>7, <1>8, <1>9 DEF Does, Step

-----------------------------------------------------------------------------
(* What a step does to the archives, here and on the target *)

Files(p) == IF making[p] = None THEN {} ELSE {Plain(p), Age(p), Headless(p)}

\* They are archives, and at most three.
LEMMA FilesFinite ==
  ASSUME NEW p \in Procs, TypeInv
  PROVE  Files(p) \subseteq Archive /\ IsFiniteSet(Files(p))
<1>1. IsFiniteSet({Plain(p), Age(p), Headless(p)})
  <2>1. IsFiniteSet({Plain(p)})
    BY FS_Singleton
  <2>2. IsFiniteSet({Plain(p)} \cup {Age(p)})
    BY <2>1, FS_AddElement
  <2>3. IsFiniteSet(({Plain(p)} \cup {Age(p)}) \cup {Headless(p)})
    BY <2>2, FS_AddElement
  <2>4. ({Plain(p)} \cup {Age(p)}) \cup {Headless(p)} = {Plain(p), Age(p), Headless(p)}
    OBVIOUS
  <2> QED
    BY <2>3, <2>4
<1>2. making[p] # None => making[p] \in Archive
  BY DEF TypeInv, MakingOK
<1> QED
  BY <1>1, <1>2, FilesType, FS_EmptySet DEF Files

\* What a prune may have removed of some archives when it returns or is killed.
Shed(p, was, is) ==
  /\ is \subseteq was
  /\ was \ is \subseteq Dropped(p, was)

\* A prune that does nothing, a whole one and an interrupted one.
LEMMA ShedAll ==
  ASSUME NEW p, NEW was
  PROVE  /\ Shed(p, was, was)
         /\ Shed(p, was, was \ Dropped(p, was))
         /\ \A gone \in Interrupted(Dropped(p, was)) : Shed(p, was, was \ gone)
<1>1. \A gone \in Interrupted(Dropped(p, was)) : gone \subseteq Dropped(p, was)
  BY DEF Interrupted
<1> QED
  BY <1>1 DEF Shed

\* A step adds files of the archive that it makes, and removes such files, or it
\* is a prune.
Tends(p, was, is, step) ==
  \/ is \subseteq was \cup Files(p) /\ was \ is \subseteq Files(p)
  \/ pc[p] = step /\ Shed(p, was, is)

\* The archives here.
LEMMA TendsLocal ==
  ASSUME NEW p \in Procs, TypeInv, Does(p)
  PROVE  Tends(p, local, local', "prune")
<1>1. JobOK(p)
  BY DEF TypeInv
<1>2. pc[p] \in Writing => Files(p) = {Plain(p), Age(p), Headless(p)}
  BY <1>1 DEF JobOK, Files
<1>3. CASE local' = local
  BY <1>3 DEF Tends
<1>4. CASE CloseArchive(p) \/ Encrypt(p) \/ Sidecar(p) \/ Replace(p)
  BY <1>2, <1>4 DEF CloseArchive, Encrypt, Sidecar, Replace, At, Writing, Packing, Tends
<1>5. CASE Prune(p)
  <2>1. /\ Shed(p, local, local \ Dropped(p, local))
        /\ \A gone \in Interrupted(Dropped(p, local)) : Shed(p, local, local \ gone)
    BY ShedAll
  <2>2. \/ local' = local \ Dropped(p, local)
        \/ \E gone \in Interrupted(Dropped(p, local)) : local' = local \ gone
    BY <1>5 DEF Prune
  <2>3. pc[p] = "prune" /\ Shed(p, local, local')
    BY <1>5, <2>1, <2>2 DEF Prune, At
  <2> QED
    BY <2>3 DEF Tends
<1>6. CASE Fail(p)
  BY <1>2, <1>6 DEF Fail, At, Writing, Packing, Tends
<1>7. CASE Crash(p)
  <2>1. \A gone \in Interrupted(Dropped(p, local)) : Shed(p, local, local \ gone)
    BY ShedAll
  <2>2. \/ local' = local
        \/ /\ pc[p] = "prune"
           /\ \E gone \in Interrupted(Dropped(p, local)) : local' = local \ gone
    BY <1>7 DEF Crash, At
  <2> QED
    BY <2>1, <2>2 DEF Tends
<1>8. CASE \/ StartRun(p) \/ StartUser(p) \/ LoadBenches(p) \/ CheckDue(p) \/ LockBench(p)
           \/ Other(p) \/ SkipStopped(p) \/ Dump(p) \/ CreateArchive(p) \/ Put(p)
           \/ PutSidecar(p) \/ Confirm(p) \/ PruneRemote(p)
  BY <1>3, <1>8 DEF StartRun, StartUser, LoadBenches, CheckDue, LockBench, Other, SkipStopped,
     Dump, CreateArchive, Put, PutSidecar, Confirm, PruneRemote, disk
<1> QED
  BY <1>4, <1>5, <1>6, <1>7, <1>8 DEF Does, Step

\* The archives on the target.
LEMMA TendsRemote ==
  ASSUME NEW p \in Procs, TypeInv, Does(p)
  PROVE  Tends(p, remote, remote', "pruneRemote")
<1>1. JobOK(p)
  BY DEF TypeInv
<1>2. pc[p] \in Writing => Files(p) = {Plain(p), Age(p), Headless(p)}
  BY <1>1 DEF JobOK, Files
<1>3. CASE remote' = remote
  BY <1>3 DEF Tends
<1>4. CASE Put(p) \/ PutSidecar(p)
  BY <1>2, <1>4 DEF Put, PutSidecar, At, Writing, Packing, Tends
<1>5. CASE PruneRemote(p)
  <2>1. /\ Shed(p, remote, remote \ Dropped(p, remote))
        /\ \A gone \in Interrupted(Dropped(p, remote)) : Shed(p, remote, remote \ gone)
    BY ShedAll
  <2>2. \/ remote' = remote \ Dropped(p, remote)
        \/ \E gone \in Interrupted(Dropped(p, remote)) : remote' = remote \ gone
    BY <1>5 DEF PruneRemote
  <2>3. pc[p] = "pruneRemote" /\ Shed(p, remote, remote')
    BY <1>5, <2>1, <2>2 DEF PruneRemote, At
  <2> QED
    BY <2>3 DEF Tends
<1>6. CASE Fail(p)
  BY <1>2, <1>6 DEF Fail, At, Writing, Packing, Tends
<1>7. CASE Crash(p)
  <2>1. \A gone \in Interrupted(Dropped(p, remote)) : Shed(p, remote, remote \ gone)
    BY ShedAll
  <2>2. \/ remote' = remote
        \/ /\ pc[p] = "pruneRemote"
           /\ \E gone \in Interrupted(Dropped(p, remote)) : remote' = remote \ gone
    BY <1>7 DEF Crash, At
  <2> QED
    BY <2>1, <2>2 DEF Tends
<1>8. CASE \/ StartRun(p) \/ StartUser(p) \/ LoadBenches(p) \/ CheckDue(p) \/ LockBench(p)
           \/ Other(p) \/ SkipStopped(p) \/ Dump(p) \/ CreateArchive(p) \/ CloseArchive(p)
           \/ Encrypt(p) \/ Sidecar(p) \/ Replace(p) \/ Confirm(p) \/ Prune(p)
  BY <1>3, <1>8 DEF StartRun, StartUser, LoadBenches, CheckDue, LockBench, Other, SkipStopped,
     Dump, CreateArchive, CloseArchive, Encrypt, Sidecar, Replace, Confirm, Prune, disk
<1> QED
  BY <1>4, <1>5, <1>6, <1>7, <1>8 DEF Does, Step

\* Either way they stay a finite set of archives.
LEMMA TendsType ==
  ASSUME NEW p \in Procs, TypeInv, NEW was, NEW is, NEW step, Tends(p, was, is, step),
         was \subseteq Archive, IsFiniteSet(was)
  PROVE  is \subseteq Archive /\ IsFiniteSet(is)
<1>1. is \subseteq was \cup Files(p)
  BY DEF Tends, Shed
<1>2. IsFiniteSet(was \cup Files(p))
  BY FilesFinite, FS_Union
<1> QED
  BY <1>1, <1>2, FilesFinite, FS_Subset

\* The other variables of the disk and the counters.
Rest ==
  /\ now' \in Times /\ policy' \in Policies \cup {None}
  /\ partials' \subseteq [of : Times, since : Times]
  /\ run' \in [result : {"none", "ok", "failed", "skipped-stopped", "skipped-busy"}, attempt : Times]
  /\ faults' \in 0..MaxFaults /\ calls' \in 0..MaxCalls
  /\ taken' \in [archives : SUBSET Archive, under : SUBSET Policies]

\* writeRunState writes a result that it knows.
LEMMA RecordsType ==
  ASSUME NEW p \in Procs, TypeInv, pc[p] # "idle",
         NEW result \in {"ok", "failed", "skipped-stopped", "skipped-busy"},
         Records(p, result) \/ UNCHANGED run
  PROVE  run' \in [result : {"none", "ok", "failed", "skipped-stopped", "skipped-busy"}, attempt : Times]
<1>1. job[p] \in Job
  BY DEF TypeInv, JobOK
<1>2. job[p].attempt \in Times
  BY <1>1 DEF Job
<1> QED
  BY <1>2 DEF Records, TypeInv, TypeOK

\* A step leaves the types of the other variables.
LEMMA RestType ==
  ASSUME NEW p \in Procs, TypeInv, Does(p)
  PROVE  Rest
<1>1. JobOK(p) /\ MakingOK(p) /\ TypeOK
  BY DEF TypeInv
<1>2. making[p] # None => making[p] \in Archive
  BY <1>1 DEF MakingOK
<1>3. now' = now /\ policy' = policy
  BY DEF Does, Step, StartRun, StartUser, LoadBenches, CheckDue, LockBench, Other, SkipStopped, Dump,
     CreateArchive, CloseArchive, Encrypt, Sidecar, Replace, Put, PutSidecar, Confirm, Prune,
     PruneRemote, Fail, Crash
<1>4. faults' \in 0..MaxFaults
  <2>1. faults' = faults \/ (faults < MaxFaults /\ faults' = faults + 1)
    BY DEF Does, Step, StartRun, StartUser, LoadBenches, CheckDue, LockBench, Other, SkipStopped, Dump,
       CreateArchive, CloseArchive, Encrypt, Sidecar, Replace, Put, PutSidecar, Confirm, Prune,
       PruneRemote, Fail, Crash
  <2> QED
    BY <1>1, <2>1, ScheduleAssumption DEF TypeOK
<1>5. calls' \in 0..MaxCalls
  <2>1. calls' = calls \/ (calls < MaxCalls /\ calls' = calls + 1)
    BY DEF Does, Step, StartRun, StartUser, LoadBenches, CheckDue, LockBench, Other, SkipStopped, Dump,
       CreateArchive, CloseArchive, Encrypt, Sidecar, Replace, Put, PutSidecar, Confirm, Prune,
       PruneRemote, Fail, Crash, Calls
  <2> QED
    BY <1>1, <2>1, ScheduleAssumption DEF TypeOK
<1>6. taken' \in [archives : SUBSET Archive, under : SUBSET Policies]
  <2>1. \/ taken' = taken
        \/ Looks(p) /\ pc[p] = "prune"
        \/ taken' = [taken EXCEPT !.under = @ \cup {seen[p]}] /\ pc[p] = "dump" /\ job[p].kind = "run"
    BY DEF Does, Step, StartRun, StartUser, LoadBenches, CheckDue, LockBench, Other, SkipStopped, Dump,
       CreateArchive, CloseArchive, Encrypt, Sidecar, Replace, Put, PutSidecar, Confirm, Prune,
       PruneRemote, Fail, Crash, At
  <2>2. /\ taken.archives \subseteq Archive /\ taken.under \subseteq Policies
        /\ Candidates(local) \subseteq Archive
    BY <1>1 DEF TypeOK, Candidates
  <2>3. CASE Looks(p) /\ pc[p] = "prune"
    <3>1. seen[p] \in Policies
      BY <1>1, <2>3 DEF JobOK
    <3> QED
      BY <2>2, <2>3, <3>1 DEF Looks
  <2>4. CASE taken' = [taken EXCEPT !.under = @ \cup {seen[p]}] /\ pc[p] = "dump" /\ job[p].kind = "run"
    <3>1. seen[p] \in Policies
      BY <1>1, <2>4 DEF JobOK
    <3> QED
      BY <1>1, <2>2, <2>4, <3>1 DEF TypeOK
  <2> QED
    BY <1>1, <2>1, <2>3, <2>4 DEF TypeOK
<1>7. partials' \subseteq [of : Times, since : Times]
  <2>1. CASE partials' \subseteq partials
    BY <1>1, <2>1 DEF TypeOK
  <2>2. CASE /\ pc[p] \in Writing
             /\ partials' \subseteq partials \cup {[of |-> making[p].at, since |-> now]}
    <3>1. making[p].at \in Times /\ now \in Times
      BY <1>1, <1>2, <2>2 DEF JobOK, TypeOK, Archive
    <3> QED
      BY <1>1, <2>2, <3>1 DEF TypeOK
  <2>3. \/ partials' \subseteq partials
        \/ /\ pc[p] \in Writing
           /\ partials' \subseteq partials \cup {[of |-> making[p].at, since |-> now]}
    BY DEF Does, Step, StartRun, StartUser, LoadBenches, CheckDue, LockBench, Other, SkipStopped, Dump,
       CreateArchive, CloseArchive, Encrypt, Sidecar, Replace, Put, PutSidecar, Confirm, Prune,
       PruneRemote, Fail, Crash, At, Writing, Packing, disk
  <2> QED
    BY <2>1, <2>2, <2>3
<1>8. run' \in [result : {"none", "ok", "failed", "skipped-stopped", "skipped-busy"}, attempt : Times]
  <2>1. CASE UNCHANGED run
    BY <1>1, <2>1 DEF TypeOK
  <2>2. CASE pc[p] # "idle" /\ \E result \in {"ok", "failed", "skipped-stopped", "skipped-busy"} :
                Records(p, result)
    BY <2>2, RecordsType
  <2>3. CASE StartRun(p) \/ StartUser(p) \/ Crash(p)
    BY <2>1, <2>3 DEF StartRun, StartUser, Crash
  <2>4. CASE Step(p)
    BY <2>1, <2>2, <2>4 DEF Step, LoadBenches, CheckDue, LockBench, Other, SkipStopped, Dump,
       CreateArchive, CloseArchive, Encrypt, Sidecar, Replace, Put, PutSidecar, Confirm, Prune,
       PruneRemote, Pruned, At
  <2>5. CASE Fail(p)
    BY <2>1, <2>2, <2>5 DEF Fail, At
  <2> QED
    BY <2>3, <2>4, <2>5 DEF Does
<1> QED
  BY <1>1, <1>3, <1>4, <1>5, <1>6, <1>7, <1>8 DEF Rest, TypeOK

\* All of it together, for a step of one process.
LEMMA DoesType ==
  ASSUME NEW p \in Procs, TypeInv, Does(p)
  PROVE  TypeInv'
<1>1. Kept(p) /\ Rest
  BY DoesKeep, RestType
<1>2. local' \subseteq Archive /\ IsFiniteSet(local')
  BY TendsLocal, TendsType DEF TypeInv, TypeOK
<1>3. remote' \subseteq Archive /\ IsFiniteSet(remote')
  BY TendsRemote, TendsType DEF TypeInv, TypeOK
<1>4. TypeOK'
  BY <1>1, <1>2, <1>3 DEF TypeOK, Kept, Typed, Rest
<1>5. ASSUME NEW q \in Procs PROVE JobOK(q)' /\ MakingOK(q)' /\ LocksOK(q)'
  <2>1. CASE q = p
    BY <1>1, <2>1 DEF Kept
  <2>2. CASE q # p
    BY <1>1, <2>2, OthersKeep DEF Kept, TypeInv
  <2> QED
    BY <2>1, <2>2
<1> QED
  BY <1>2, <1>3, <1>4, <1>5 DEF TypeInv

\* The clock and the users who set the policy.
LEMMA AroundType ==
  ASSUME TypeInv, Tick \/ SetBackupSchedule \/ UNCHANGED vars
  PROVE  TypeInv'
<1>1. TypeOK
  BY DEF TypeInv
<1>2. UNCHANGED <<disk, runLock, benchLock, process, run, faults, calls, taken>>
  BY DEF Tick, SetBackupSchedule, vars
<1>3. now' \in Times /\ now =< now' /\ now \in Int /\ now' \in Int /\ policy' \in Policies \cup {None}
  BY <1>1, RetentionAssumption DEF Tick, SetBackupSchedule, vars, TypeOK, Times
<1>4. TypeOK'
  BY <1>1, <1>2, <1>3 DEF TypeOK, disk, process
<1>5. ASSUME NEW q \in Procs PROVE JobOK(q)' /\ MakingOK(q)' /\ LocksOK(q)'
  <2>1. JobOK(q) /\ MakingOK(q) /\ LocksOK(q)
    BY DEF TypeInv
  <2>2. JobOK(q)' /\ LocksOK(q)'
    BY <1>2, <2>1 DEF JobOK, LocksOK, disk, process
  <2>3. making[q] # None => making[q].at \in Int
    BY <2>1, RetentionAssumption DEF MakingOK, Archive, Times
  <2>4. MakingOK(q)'
    BY <1>2, <1>3, <2>1, <2>3 DEF MakingOK, process
  <2> QED
    BY <2>2, <2>4
<1>6. IsFiniteSet(local') /\ IsFiniteSet(remote')
  BY <1>2 DEF TypeInv, disk
<1> QED
  BY <1>4, <1>5, <1>6 DEF TypeInv

\* The steps, as the lemmas take them.
LEMMA NextIs ==
  ASSUME [Next]_vars
  PROVE  (\E p \in Procs : Does(p)) \/ Tick \/ SetBackupSchedule \/ UNCHANGED vars
BY DEF Next, Does

\* TypeInv is inductive.
LEMMA NextType ==
  ASSUME TypeInv, [Next]_vars
  PROVE  TypeInv'
BY NextIs, DoesType, AroundType

\* It holds at the start.
LEMMA InitType == Init => TypeInv
<1> SUFFICES ASSUME Init PROVE TypeInv
  OBVIOUS
<1>1. TypeOK
  BY RetentionAssumption, ScheduleAssumption DEF Init, TypeOK, Times, Steps
<1>2. IsFiniteSet(local) /\ IsFiniteSet(remote)
  BY FS_EmptySet DEF Init
<1>3. \A p \in Procs : JobOK(p) /\ MakingOK(p) /\ LocksOK(p)
  BY DEF Init, JobOK, MakingOK, LocksOK, Holding, Writing, Packing, Encrypting, Putting
<1> QED
  BY <1>1, <1>2, <1>3 DEF TypeInv

\* The variables of a bench's backups have their types, and a process that is at
\* a step of a backup or a prune holds the lock of the bench.
THEOREM TypeCorrect == Spec => []TypeInv
<1>1. TypeInv /\ [Next]_vars => TypeInv'
  BY NextType
<1> QED
  BY <1>1, InitType, PTL DEF Spec

-----------------------------------------------------------------------------
(* Prunes spare what they must *)

\* Whoever is at a step of a backup or a prune is alone there.
LEMMA OneHolder ==
  ASSUME NEW p \in Procs, NEW q \in Procs, TypeInv, pc[p] \in Holding, pc[q] \in Holding
  PROVE  p = q
BY DEF TypeInv, LocksOK

\* What a prune, even an interrupted one, removes.
LEMMA ShedSpares ==
  ASSUME NEW p \in Procs, NEW was \in SUBSET Archive, NEW is, IsFiniteSet(was), Shed(p, was, is)
  PROVE  \A a \in was \ is :
            Identified(a) /\ Cardinality({b \in is : Identified(b) /\ b.at >= a.at}) >= RetentionFloor
<1> DEFINE S == Candidates(was)
<1>1. S \in SUBSET Archive /\ IsFiniteSet(S) /\ S \subseteq was
  BY FS_Subset DEF Candidates
<1>2. TAKE a \in was \ is
<1>3. a \in S /\ a \notin selectRetained(S, seen[p])
  BY <1>2 DEF Shed, Dropped
<1>4. Identified(a)
  BY <1>3 DEF Candidates, prunable, Identified
<1> DEFINE floor == {b \in Floor(S) : b.at >= a.at}
           newer == {b \in is : Identified(b) /\ b.at >= a.at}
<1>5. Cardinality(floor) >= RetentionFloor
  BY <1>1, <1>3, FloorKept, FloorBefore
<1>6. floor \subseteq newer
  <2> SUFFICES ASSUME NEW b \in floor PROVE b \in newer
    OBVIOUS
  <2>1. b \in S /\ b \in selectRetained(S, seen[p]) /\ b.at >= a.at
    BY FloorKept DEF Floor
  <2>2. b \in was /\ Identified(b)
    BY <2>1 DEF Candidates, prunable, Identified
  <2>3. b \in is
    BY <2>1, <2>2 DEF Shed, Dropped
  <2> QED
    BY <2>1, <2>2, <2>3
<1>7. IsFiniteSet(newer)
  <2>1. newer \in SUBSET was
    BY DEF Shed
  <2> QED
    BY <2>1, FS_Subset
<1>8. Cardinality(floor) =< Cardinality(newer) /\ Cardinality(newer) \in Nat
      /\ Cardinality(floor) \in Nat
  BY <1>6, <1>7, FS_Subset, FS_CardinalityType
<1> HIDE DEF floor, newer
<1>9. Cardinality(newer) >= RetentionFloor
  BY <1>5, <1>8, RetentionAssumption
<1> QED
  BY <1>4, <1>9 DEF newer

\* A step removes what a prune may, or what it is making.
LEMMA TendsSpares ==
  ASSUME NEW p \in Procs, TypeInv, NEW was \in SUBSET Archive, NEW is, NEW step, IsFiniteSet(was),
         Tends(p, was, is, step)
  PROVE  Spares(was, is)
<1>1. CASE was \ is \subseteq Files(p)
  <2>1. ASSUME NEW a \in was \ is PROVE making[p] # None /\ making[p].at = a.at
    <3>1. making[p] # None /\ a \in {Plain(p), Age(p), Headless(p)}
      BY <1>1, <2>1 DEF Files
    <3>2. making[p] \in Archive
      BY <3>1 DEF TypeInv, MakingOK
    <3> QED
      BY <3>1, <3>2, FilesType
  <2> QED
    BY <2>1 DEF Spares
<1>2. CASE Shed(p, was, is)
  BY <1>2, ShedSpares DEF Spares
<1> QED
  BY <1>1, <1>2 DEF Tends

\* Nothing is removed where nothing changes.
LEMMA SameSpares ==
  ASSUME NEW S
  PROVE  Spares(S, S)
BY DEF Spares

\* Every step spares, here and on the target.
LEMMA NextSpares ==
  ASSUME TypeInv, [Next]_vars
  PROVE  Spares(local, local') /\ Spares(remote, remote')
<1>1. local \in SUBSET Archive /\ remote \in SUBSET Archive /\ IsFiniteSet(local) /\ IsFiniteSet(remote)
  BY DEF TypeInv, TypeOK
<1>2. CASE \E p \in Procs : Does(p)
  <2>1. PICK p \in Procs : Does(p)
    BY <1>2
  <2>2. Tends(p, local, local', "prune") /\ Tends(p, remote, remote', "pruneRemote")
    BY <2>1, TendsLocal, TendsRemote
  <2> QED
    BY <1>1, <2>2, TendsSpares
<1>3. CASE Tick \/ SetBackupSchedule \/ UNCHANGED vars
  <2>1. local' = local /\ remote' = remote
    BY <1>3 DEF Tick, SetBackupSchedule, vars, disk
  <2> QED
    BY <2>1, SameSpares
<1> QED
  BY <1>2, <1>3, NextIs

\* Whatever the policy, the calendar, the faults and the processes: an archive
\* that a step removes is of the backup that makes it, or it is an identified
\* one of a scheduled run and RetentionFloor newer ones stay.
THEOREM ManualSpared == Spec => PruneSpares
<1>1. TypeInv /\ [Next]_vars => [Spares(local, local') /\ Spares(remote, remote')]_vars
  BY NextSpares
<1> QED
  BY <1>1, TypeCorrect, PTL DEF Spec, PruneSpares

-----------------------------------------------------------------------------
(* The file being written stays *)

\* The file goes only by its own process, or by a prune that the lock keeps
\* away.
LEMMA NextWriting ==
  ASSUME TypeInv, WritingKept, [Next]_vars
  PROVE  WritingKept'
<1> SUFFICES ASSUME NEW p \in Procs, pc'[p] = "close"
             PROVE  \E f \in partials' : f.of = making'[p].at
  BY DEF WritingKept, At, MyPartials
<1>1. CASE Tick \/ SetBackupSchedule \/ UNCHANGED vars
  BY <1>1 DEF WritingKept, At, MyPartials, Tick, SetBackupSchedule, vars, disk, process
<1>2. ASSUME NEW q \in Procs, Does(q), q # p
      PROVE  \E f \in partials' : f.of = making'[p].at
  <2>1. pc[p] = "close" /\ making'[p] = making[p]
    BY <1>2, DoesKeep DEF Kept, Alone
  <2>2. PICK f \in partials : f.of = making[p].at
    BY <2>1 DEF WritingKept, At, MyPartials
  <2>3. pc[q] \notin Holding
    BY <1>2, <2>1, OneHolder DEF Holding
  <2>4. partials \subseteq partials'
    BY <1>2, <2>3 DEF Does, Step, StartRun, StartUser, LoadBenches, CheckDue, LockBench, Other,
       SkipStopped, Dump, CreateArchive, CloseArchive, Encrypt, Sidecar, Replace, Put, PutSidecar,
       Confirm, Prune, PruneRemote, Fail, Crash, At, Holding, disk
  <2> QED
    BY <2>1, <2>2, <2>4
<1>3. ASSUME Does(p)
      PROVE  \E f \in partials' : f.of = making'[p].at
  <2>1. TypeOK
    BY DEF TypeInv
  <2>2. CASE CreateArchive(p)
    <3>1. [of |-> making[p].at, since |-> now] \in partials' /\ making' = making
      BY <2>2 DEF CreateArchive, Goes
    <3> QED
      BY <3>1
  <2>3. CASE ~CreateArchive(p)
    <3>1. \/ StartRun(p) \/ StartUser(p) \/ LoadBenches(p) \/ CheckDue(p) \/ Dump(p) \/ LockBench(p)
          \/ Other(p) \/ SkipStopped(p) \/ PruneRemote(p) \/ Fail(p) \/ Crash(p)
          \/ CloseArchive(p) \/ Encrypt(p) \/ Sidecar(p) \/ Replace(p) \/ Put(p) \/ PutSidecar(p)
          \/ Confirm(p) \/ Prune(p)
      BY <1>3, <2>3 DEF Does, Step
    <3>2. CASE Return(p)
      BY <2>1, <3>2 DEF Return, TypeOK
    <3>3. CASE \E step \in Steps \ {"close"} : pc' = [pc EXCEPT ![p] = step]
      BY <2>1, <3>3 DEF TypeOK
    <3>4. CASE StartRun(p) \/ StartUser(p) \/ LoadBenches(p) \/ CheckDue(p) \/ Dump(p)
      BY <3>2, <3>3, <3>4 DEF StartRun, StartUser, LoadBenches, CheckDue, Dump, Goto, Steps
    <3>5. CASE LockBench(p)
      <4>1. AfterLock(job[p].kind) \in Steps \ {"close"} \/ ~(job[p].kind \in {"run", "backup", "prune", "other"})
        BY DEF AfterLock, Steps
      <4>2. job[p] \in Job
        BY <3>5 DEF TypeInv, JobOK, LockBench, At
      <4>3. job[p].kind \in {"run", "backup", "prune", "other"}
        BY <4>2 DEF Job
      <4> QED
        BY <3>2, <3>3, <3>5, <4>1, <4>3 DEF LockBench, Goto
    <3>6. CASE Other(p) \/ SkipStopped(p) \/ PruneRemote(p) \/ Fail(p) \/ Crash(p)
      BY <3>2, <3>6 DEF Other, SkipStopped, PruneRemote, Fail, Crash
    <3>7. CASE CloseArchive(p) \/ Encrypt(p) \/ Sidecar(p) \/ Replace(p)
      BY <3>2, <3>3, <3>7
         DEF CloseArchive, Encrypt, Sidecar, Replace, Stored, Goes, Goto, Steps
    <3>8. CASE Put(p) \/ PutSidecar(p) \/ Confirm(p) \/ Prune(p)
      BY <3>2, <3>3, <3>8
         DEF Put, PutSidecar, Confirm, Prune, Stored, Pruned, Goes, Goto, Steps
    <3> QED
      BY <3>1, <3>4, <3>5, <3>6, <3>7, <3>8
  <2> QED
    BY <2>2, <2>3
<1> QED
  BY <1>1, <1>2, <1>3, NextIs

\* A prune never removes the partial file of a backup that is still writing it:
\* the lock of the bench keeps it away, however old the file is.
THEOREM WritingStays == Spec => []WritingKept
<1>1. Init => WritingKept
  BY DEF Init, WritingKept, At
<1>2. TypeInv /\ WritingKept /\ [Next]_vars => WritingKept'
  BY NextWriting
<1> QED
  BY <1>1, <1>2, TypeCorrect, PTL DEF Spec

-----------------------------------------------------------------------------
(* A pass: what it has written, and how long ago the last archive was taken *)

OnRun(p) == pc[p] # "idle" /\ job[p].kind = "run"

\* At each step a pass has on disk what the steps before it wrote.
StageOK(p) ==
  /\ pc[p] = "encrypt" => Plain(p) \in local
  /\ pc[p] = "sidecar" => Plain(p) \in local
  /\ pc[p] = "replace" => Age(p) \in local
  /\ pc[p] \in Putting => Age(p) \in local /\ Plain(p) \notin local
  /\ pc[p] = "confirm" => Age(p) \in remote
  /\ pc[p] \in {"prune", "pruneRemote"} => Safe(p)

\* The scheduled archives of its own that a pass may have on disk.
Mine(p) ==
  CASE pc[p] \in {"lock", "dump", "create", "close"} -> {}
    [] pc[p] = "encrypt" -> {Plain(p)}
    [] pc[p] = "sidecar" -> {Plain(p), Headless(p)}
    [] OTHER -> {Plain(p), Age(p), Headless(p)}

\* Every other scheduled archive is an interval older than its attempt.
IntervalOK(p) ==
  pc[p] \notin {"load", "check"} =>
    /\ job[p].attempt =< now
    /\ making[p] # None => job[p].attempt =< making[p].at
    /\ \A a \in Scheduled : a \in Mine(p) \/ a.at + seen[p].every - Slack =< job[p].attempt

\* The archive may yet be given up, because it could not be encrypted.
Unfinished(a) ==
  \E p \in Procs : OnRun(p) /\ pc[p] \in {"encrypt", "sidecar"} /\ making[p].at = a.at

\* A run is due by the archives that can be identified: of the finished ones,
\* one of them is as new as any other.
Covered ==
  \A a \in Scheduled :
     Unfinished(a) \/ \E c \in Candidates(local) : c.at >= a.at /\ ~Unfinished(c)

PassInv ==
  /\ TypeInv
  /\ \A p \in Procs : OnRun(p) => StageOK(p) /\ IntervalOK(p)
  /\ Covered
  /\ Spaced

\* There is one pass at a time.
LEMMA OnePass ==
  ASSUME NEW p \in Procs, NEW q \in Procs, TypeInv, OnRun(p), OnRun(q)
  PROVE  p = q
BY DEF TypeInv, LocksOK, OnRun

\* Without the lock of the bench nothing on disk is touched.
LEMMA UnlockedLeaves ==
  ASSUME NEW p \in Procs, Does(p), pc[p] \notin Holding
  PROVE  local' = local /\ remote' = remote
BY DEF Does, Step, StartRun, StartUser, LoadBenches, CheckDue, LockBench, Other, SkipStopped, Dump,
   CreateArchive, CloseArchive, Encrypt, Sidecar, Replace, Put, PutSidecar, Confirm, Prune,
   PruneRemote, Fail, Crash, At, Holding, disk

\* The numbers of a pass.
LEMMA PassTypes ==
  ASSUME NEW p \in Procs, TypeInv, OnRun(p)
  PROVE  /\ job[p].attempt \in Nat /\ now \in Nat /\ Slack \in Nat
         /\ pc[p] # "load" => seen[p].every \in Nat /\ seen[p].every > Slack
         /\ making[p] # None => making[p] \in Archive /\ making[p].at \in Nat
                                /\ making[p].trigger = "scheduled" /\ making[p].form = "plain"
         /\ \A a \in local : a \in Archive /\ a.at \in Nat
<1>1. JobOK(p) /\ MakingOK(p) /\ TypeOK
  BY DEF TypeInv
<1>2. job[p].attempt \in Times /\ now \in Times /\ Times \subseteq Nat /\ Slack \in Nat
  BY <1>1, RetentionAssumption, ScheduleAssumption DEF JobOK, OnRun, Job, TypeOK, Times
<1>3. ASSUME pc[p] # "load" PROVE seen[p].every \in Nat /\ seen[p].every > Slack
  <2>1. seen[p] \in Policies
    BY <1>1, <1>3 DEF JobOK, OnRun
  <2>2. seen[p] \in Policy
    BY <2>1, ScheduleAssumption
  <2> QED
    BY <2>1, <2>2, IntervalAssumption DEF Policy
<1>4. \A a \in Archive : a.at \in Times
  BY DEF Archive
<1>5. \A a \in local : a \in Archive
  BY <1>1 DEF TypeOK
<1> QED
  BY <1>1, <1>2, <1>3, <1>4, <1>5 DEF MakingOK, OnRun

\* Once it has the lock, a pass is newer than every other scheduled archive.
LEMMA Newer ==
  ASSUME NEW p \in Procs, TypeInv, OnRun(p), IntervalOK(p), making[p] # None
  PROVE  /\ \A a \in Scheduled : a \in Mine(p) \/ a.at < making[p].at
         /\ \A a \in Mine(p) : a.at = making[p].at
         /\ \A a \in Scheduled : a.at =< making[p].at
<1>1. JobOK(p) /\ MakingOK(p)
  BY DEF TypeInv
<1>2. pc[p] \notin {"load", "check", "lock", "dump", "idle"} /\ making[p] \in Archive
  BY <1>1 DEF MakingOK, Writing, Packing
<1>3. \A a \in Mine(p) : a.at = making[p].at
  BY <1>2, FilesType DEF Mine
<1>4. ASSUME NEW a \in Scheduled, a \notin Mine(p) PROVE a.at < making[p].at
  <2>1. a.at + seen[p].every - Slack =< job[p].attempt /\ job[p].attempt =< making[p].at
    BY <1>2, <1>4 DEF IntervalOK
  <2>2. /\ a.at \in Nat /\ job[p].attempt \in Nat /\ making[p].at \in Nat /\ Slack \in Nat
        /\ seen[p].every \in Nat /\ seen[p].every > Slack
    BY <1>2, PassTypes DEF Scheduled
  <2> QED
    BY <2>1, <2>2
<1>5. making[p].at \in Nat /\ \A a \in Scheduled : a.at \in Nat
  BY PassTypes DEF Scheduled
<1> QED
  BY <1>3, <1>4, <1>5

\* The archive that a pass has just made survives its own prune.
LEMMA OwnKept ==
  ASSUME NEW p \in Procs, TypeInv, OnRun(p), StageOK(p), IntervalOK(p), pc[p] = "prune",
         Shed(p, local, local')
  PROVE  (IF job[p].encrypt THEN Age(p) ELSE Plain(p)) \in local'
<1> DEFINE m == IF job[p].encrypt THEN Age(p) ELSE Plain(p)
           S == Candidates(local)
<1>1. making[p] # None /\ Safe(p)
  BY DEF TypeInv, JobOK, OnRun, StageOK
<1>2. making[p] \in Archive /\ making[p].trigger = "scheduled" /\ making[p].form = "plain"
  BY <1>1, PassTypes
<1>3. Age(p).form = "age" /\ Age(p).trigger = "scheduled" /\ Age(p).at = making[p].at
      /\ Plain(p) = making[p] /\ Headless(p).form = "headless"
  BY <1>2, FilesType DEF Plain
<1>4. m \in S /\ m \in local
  BY <1>1, <1>2, <1>3 DEF Safe, Candidates, prunable
<1>5. ASSUME NEW b \in S PROVE ~Before(b, m)
  <2>1. b \in Scheduled /\ b \in local
    BY <1>5 DEF Candidates, prunable, Scheduled
  <2>2. b.at =< making[p].at /\ (b \in Mine(p) \/ b.at < making[p].at)
    BY <1>1, <2>1, Newer
  <2>3. b.at \in Nat /\ making[p].at \in Nat
    BY <1>1, <2>1, PassTypes
  <2>4. CASE b.at < making[p].at
    BY <1>3, <2>3, <2>4 DEF Before
  <2>5. CASE b \in Mine(p)
    <3>1. b \in {Plain(p), Age(p), Headless(p)}
      BY <2>5 DEF Mine
    <3>2. b.form = "plain" => b = Plain(p)
      BY <1>3, <3>1
    <3>3. b.form = "plain" => ~job[p].encrypt
      BY <1>1, <2>1, <3>2 DEF Safe
    <3> QED
      BY <1>2, <1>3, <2>2, <2>3, <3>3 DEF Before
  <2> QED
    BY <2>2, <2>4, <2>5
<1>6. m \in selectRetained(S, seen[p])
  BY <1>4, <1>5, NoneBefore, FloorKept
<1> QED
  BY <1>4, <1>6 DEF Shed, Dropped

\* The stages of the pass that moves.
LEMMA StageNext ==
  ASSUME NEW p \in Procs, TypeInv, OnRun(p) => StageOK(p) /\ IntervalOK(p), Does(p), OnRun(p)'
  PROVE  StageOK(p)'
<1>1. TypeOK /\ JobOK(p) /\ MakingOK(p)
  BY DEF TypeInv
<1>2. CASE Return(p)
  BY <1>1, <1>2 DEF Return, OnRun, TypeOK
<1>3. CASE pc'[p] \notin Encrypting \cup Putting \cup {"prune", "pruneRemote"}
  BY <1>3 DEF StageOK, Encrypting, Putting
<1>4. CASE StartRun(p) \/ StartUser(p) \/ LoadBenches(p) \/ CheckDue(p) \/ Dump(p)
  <2>1. Return(p) \/ pc'[p] \in {"load", "lock", "check", "create"}
    BY <1>1, <1>4 DEF StartRun, StartUser, LoadBenches, CheckDue, Dump, Goto, TypeOK
  <2> QED
    BY <1>2, <1>3, <2>1 DEF Encrypting, Putting
<1>5. CASE Other(p) \/ SkipStopped(p) \/ PruneRemote(p) \/ Fail(p) \/ Crash(p)
  BY <1>2, <1>5 DEF Other, SkipStopped, PruneRemote, Fail, Crash
<1>6. CASE LockBench(p)
  <2>1. CASE benchLock # Free
    BY <1>2, <1>6, <2>1 DEF LockBench
  <2>2. CASE benchLock = Free
    <3>1. pc'[p] = AfterLock(job[p].kind) /\ job' = job
      BY <1>1, <1>6, <2>2 DEF LockBench, Goto, TypeOK
    <3>2. job[p].kind = "run"
      BY <3>1 DEF OnRun
    <3> QED
      BY <1>3, <3>1, <3>2 DEF AfterLock, Encrypting, Putting
  <2> QED
    BY <2>1, <2>2
<1> DEFINE Onward(from, to) ==
             /\ pc[p] = from /\ pc'[p] = to /\ job'[p] = job[p] /\ making'[p] = making[p] /\ OnRun(p)
             /\ Plain(p)' = Plain(p) /\ Age(p)' = Age(p) /\ Headless(p)' = Headless(p)
<1>7. ASSUME NEW to, Goes(p, to), pc[p] # "idle" PROVE Onward(pc[p], to)
  BY <1>1, <1>7 DEF Goes, Goto, OnRun, TypeOK, Plain, Age, Headless
<1>8. making[p] # None => Age(p) # Plain(p) /\ Headless(p) # Age(p) /\ Headless(p) # Plain(p)
  <2>1. making[p] # None => making[p] \in Archive /\ making[p].form = "plain"
    BY <1>1 DEF MakingOK
  <2> QED
    BY <2>1, FilesType DEF Plain
<1>9. CASE CreateArchive(p)
  BY <1>3, <1>7, <1>9 DEF CreateArchive, At, Encrypting, Putting
<1>10. ASSUME Stored(p), pc[p] \in {"close", "replace", "confirm"},
              /\ (IF job[p].encrypt THEN Age(p) ELSE Plain(p)) \in local'
              /\ job[p].encrypt => Plain(p) \notin local'
              /\ job[p].upload => Age(p) \in remote'
       PROVE  StageOK(p)'
  <2>1. CASE job[p].kind = "run"
    <3>1. Onward(pc[p], "prune")
      BY <1>7, <1>10, <2>1 DEF Stored
    <3> QED
      BY <1>10, <3>1 DEF StageOK, Safe, Putting
  <2> QED
    BY <1>2, <1>10, <2>1 DEF Stored
<1>11. CASE CloseArchive(p)
  <2>1. pc[p] = "close" /\ local' = local \cup {Plain(p)} /\ remote' = remote
    BY <1>11 DEF CloseArchive, At
  <2>2. CASE job[p].encrypt
    <3>1. Onward("close", "encrypt")
      BY <1>7, <1>11, <2>1, <2>2 DEF CloseArchive
    <3> QED
      BY <2>1, <3>1 DEF StageOK, Putting
  <2>3. CASE ~job[p].encrypt
    <3>1. ~job[p].upload
      BY <1>1, <2>1, <2>3 DEF JobOK
    <3> QED
      BY <1>10, <1>11, <2>1, <2>3, <3>1 DEF CloseArchive
  <2> QED
    BY <2>2, <2>3
<1>12. CASE Encrypt(p)
  <2>1. Onward("encrypt", "sidecar") /\ local' = local \cup {Headless(p)}
    BY <1>7, <1>12 DEF Encrypt, At
  <2>2. Plain(p) \in local
    BY <2>1 DEF StageOK
  <2> QED
    BY <2>1, <2>2 DEF StageOK, Putting
<1>13. CASE Sidecar(p)
  <2>1. Onward("sidecar", "replace") /\ local' = (local \ {Headless(p)}) \cup {Age(p)}
    BY <1>7, <1>13 DEF Sidecar, At
  <2> QED
    BY <2>1 DEF StageOK, Putting
<1>14. CASE Replace(p)
  <2>1. pc[p] = "replace" /\ local' = local \ {Plain(p)} /\ remote' = remote
    BY <1>14 DEF Replace, At
  <2>2. making[p] # None /\ job[p].encrypt
    BY <1>1, <2>1 DEF JobOK, Writing, Packing, Encrypting
  <2>3. CASE job[p].upload
    <3>1. Onward("replace", "put")
      BY <1>7, <1>14, <2>1, <2>3 DEF Replace
    <3>2. Age(p) \in local' /\ Plain(p) \notin local'
      BY <1>8, <2>1, <2>2, <3>1 DEF StageOK
    <3> QED
      BY <3>1, <3>2 DEF StageOK
  <2>4. CASE ~job[p].upload
    <3>1. CASE OnRun(p)
      BY <1>8, <1>10, <1>14, <2>1, <2>2, <2>4, <3>1 DEF Replace, StageOK
    <3>2. CASE ~OnRun(p)
      BY <1>2, <1>14, <2>1, <2>4, <3>2 DEF Replace, Stored, OnRun
    <3> QED
      BY <3>1, <3>2
  <2> QED
    BY <2>3, <2>4
<1>15. CASE Put(p)
  <2>1. Onward("put", "putSidecar") /\ local' = local
    BY <1>7, <1>15 DEF Put, At
  <2> QED
    BY <2>1 DEF StageOK, Putting
<1>16. CASE PutSidecar(p)
  <2>1. Onward("putSidecar", "confirm") /\ local' = local /\ Age(p) \in remote'
    BY <1>7, <1>16 DEF PutSidecar, At
  <2> QED
    BY <2>1 DEF StageOK, Putting
<1>17. CASE Confirm(p)
  <2>1. pc[p] = "confirm" /\ local' = local /\ remote' = remote /\ Stored(p)
    BY <1>17 DEF Confirm, At, disk
  <2>2. job[p].encrypt
    BY <1>1, <2>1 DEF JobOK, Putting
  <2>3. CASE OnRun(p)
    BY <1>10, <2>1, <2>2, <2>3 DEF StageOK, Putting
  <2>4. CASE ~OnRun(p)
    BY <1>2, <2>1, <2>4 DEF Stored, OnRun
  <2> QED
    BY <2>3, <2>4
<1>18. CASE Prune(p)
  <2>1. pc[p] = "prune" /\ remote' = remote
    BY <1>18 DEF Prune, At
  <2>2. Return(p) \/ Goes(p, "pruneRemote")
    BY <1>18 DEF Prune, Pruned
  <2>3. CASE Goes(p, "pruneRemote")
    <3>1. Onward("prune", "pruneRemote")
      BY <1>7, <2>1, <2>3
    <3>2. Shed(p, local, local')
      <4>1. /\ Shed(p, local, local \ Dropped(p, local))
            /\ \A gone \in Interrupted(Dropped(p, local)) : Shed(p, local, local \ gone)
        BY ShedAll
      <4>2. \/ local' = local \ Dropped(p, local)
            \/ \E gone \in Interrupted(Dropped(p, local)) : local' = local \ gone
        BY <1>18 DEF Prune
      <4> QED
        BY <4>1, <4>2
    <3>3. (IF job[p].encrypt THEN Age(p) ELSE Plain(p)) \in local'
      BY <2>1, <3>1, <3>2, OwnKept
    <3>4. Safe(p) /\ local' \subseteq local
      BY <3>1, <3>2 DEF StageOK, Shed
    <3> QED
      BY <2>1, <3>1, <3>3, <3>4 DEF StageOK, Safe, Putting
  <2> QED
    BY <1>2, <2>2, <2>3
<1> QED
  BY <1>4, <1>5, <1>6, <1>9, <1>11, <1>12, <1>13, <1>14, <1>15, <1>16, <1>17, <1>18 DEF Does, Step

\* Newest is the time of an archive, and no archive is newer.
LEMMA NewestIs ==
  ASSUME NEW S \in SUBSET Archive, NEW c \in S
  PROVE  Newest(S) \in Times /\ c.at =< Newest(S)
<1>1. PICK a \in S : \A b \in S : b.at =< a.at
  BY NewestExists
<1>2. a.at \in {b.at : b \in S} /\ \A b \in S : b.at =< a.at
  BY <1>1
<1>3. Newest(S) \in {b.at : b \in S} /\ \A b \in S : b.at =< Newest(S)
  BY <1>2 DEF Newest
<1> QED
  BY <1>3 DEF Archive

\* A due pass begins an interval after every scheduled archive.
LEMMA DueAfter ==
  ASSUME NEW p \in Procs, TypeInv, Covered, OnRun(p), pc[p] = "check", due(p), NEW a \in Scheduled
  PROVE  a.at + seen[p].every - Slack =< now
<1>1. ~Unfinished(a)
  BY OnePass DEF Unfinished
<1>2. PICK c \in Candidates(local) : c.at >= a.at
  BY <1>1 DEF Covered
<1>3. Candidates(local) \in SUBSET Archive
  BY DEF TypeInv, TypeOK, Candidates
<1>4. now >= Newest(Candidates(local)) + seen[p].every - Slack
  BY <1>2 DEF due
<1>5. Newest(Candidates(local)) \in Nat /\ c.at =< Newest(Candidates(local))
  BY <1>2, <1>3, NewestIs, RetentionAssumption DEF Times
<1>6. a.at \in Nat /\ c.at \in Nat /\ seen[p].every \in Nat /\ Slack \in Nat /\ now \in Nat
  BY <1>2, PassTypes DEF Scheduled, Candidates
<1> HIDE DEF Scheduled
<1> QED
  BY <1>2, <1>4, <1>5, <1>6

\* The distances that the pass that moves relies on.
LEMMA IntervalNext ==
  ASSUME NEW p \in Procs, TypeInv, Covered, OnRun(p) => StageOK(p) /\ IntervalOK(p), Does(p), OnRun(p)'
  PROVE  IntervalOK(p)'
<1>1. TypeOK /\ JobOK(p) /\ MakingOK(p)
  BY DEF TypeInv
<1>2. CASE Return(p)
  BY <1>1, <1>2 DEF Return, OnRun, TypeOK
<1>3. CASE pc'[p] \in {"load", "check"}
  BY <1>3 DEF IntervalOK
<1>4. CASE StartRun(p) \/ LoadBenches(p)
  <2>1. Return(p) \/ pc'[p] \in {"load", "check"}
    BY <1>1, <1>4 DEF StartRun, LoadBenches, Goto, TypeOK
  <2> QED
    BY <1>2, <1>3, <2>1
<1>5. CASE StartUser(p)
  <2>1. job'[p].kind # "run"
    BY <1>1, <1>5 DEF StartUser, NewJob, TypeOK
  <2> QED
    BY <2>1 DEF OnRun
<1>6. CASE Other(p) \/ SkipStopped(p) \/ PruneRemote(p) \/ Fail(p) \/ Crash(p)
  BY <1>2, <1>6 DEF Other, SkipStopped, PruneRemote, Fail, Crash
<1>7. CASE CheckDue(p)
  <2>1. CASE ~due(p)
    BY <1>2, <1>7, <2>1 DEF CheckDue
  <2>2. CASE due(p)
    <3>1. pc[p] = "check" /\ OnRun(p) /\ seen[p] \in Policies /\ making[p] = None
      BY <1>1, <1>7 DEF CheckDue, At, JobOK, OnRun, MakingOK, Writing, Packing
    <3>2. /\ job'[p].attempt = now /\ now' = now /\ making'[p] = None /\ seen'[p] = seen[p]
          /\ local' = local
      <4>1. job' = [job EXCEPT ![p] = Due(p)] /\ making' = making /\ seen' = seen /\ now' = now
            /\ local' = local
        BY <1>7, <2>2 DEF CheckDue, Due, disk
      <4> QED
        BY <1>1, <3>1, <4>1, DueType DEF TypeOK
    <3>3. \A a \in Scheduled : a.at + seen[p].every - Slack =< now
      BY <2>2, <3>1, DueAfter
    <3>4. Scheduled' = Scheduled /\ now =< now
      BY <3>1, <3>2, PassTypes DEF Scheduled
    <3> QED
      BY <3>2, <3>3, <3>4 DEF IntervalOK
  <2> QED
    BY <2>1, <2>2
\* From here on the pass goes on with its job.
<1>8. ASSUME pc[p] \notin {"idle", "load", "check"}, OnRun(p), pc'[p] # "idle",
             job'[p] = job[p], seen'[p] = seen[p], now' = now,
             \/ making'[p] = making[p]
             \/ making'[p] # None /\ making'[p].at = now,
             \A a \in Scheduled' : a \in Mine(p)' \/ (a \in Scheduled /\ a \notin Mine(p))
      PROVE  IntervalOK(p)'
  BY <1>8 DEF IntervalOK
<1> DEFINE Onward(from, to) ==
             /\ pc[p] = from /\ pc'[p] = to /\ job'[p] = job[p] /\ making'[p] = making[p]
             /\ seen'[p] = seen[p] /\ now' = now /\ OnRun(p)
             /\ Plain(p)' = Plain(p) /\ Age(p)' = Age(p) /\ Headless(p)' = Headless(p)
<1>9. ASSUME NEW to, Goes(p, to), pc[p] # "idle", now' = now PROVE Onward(pc[p], to)
  BY <1>1, <1>9 DEF Goes, Goto, OnRun, TypeOK, Plain, Age, Headless
<1>10. CASE LockBench(p)
  <2>1. CASE benchLock # Free
    BY <1>2, <1>10, <2>1 DEF LockBench
  <2>2. CASE benchLock = Free
    <3>1. /\ pc'[p] = AfterLock(job[p].kind) /\ job' = job /\ seen' = seen /\ making' = making
          /\ now' = now /\ local' = local /\ pc[p] = "lock"
      BY <1>1, <1>10, <2>2 DEF LockBench, Goto, TypeOK, At, disk
    <3>2. job[p].kind = "run" /\ OnRun(p)
      BY <3>1 DEF OnRun
    <3>3. pc'[p] = "dump"
      BY <3>1, <3>2 DEF AfterLock
    <3> QED
      BY <1>8, <3>1, <3>2, <3>3 DEF Mine, Scheduled
  <2> QED
    BY <2>1, <2>2
<1>11. CASE Dump(p)
  <2>1. /\ pc[p] = "dump" /\ pc'[p] = "create" /\ job' = job /\ seen' = seen /\ now' = now /\ local' = local
        /\ making'[p].at = now
    BY <1>1, <1>11 DEF Dump, Goto, TypeOK, At, disk
  <2>2. making'[p] # None
    BY <1>11, <2>1, DoesKeep DEF Kept, JobOK, Writing, Packing
  <2>3. OnRun(p)
    BY <2>1 DEF OnRun
  <2> QED
    BY <1>8, <2>1, <2>2, <2>3 DEF Mine, Scheduled
<1>12. CASE CreateArchive(p)
  <2>1. Onward("create", "close") /\ local' = local
    BY <1>9, <1>12 DEF CreateArchive, At
  <2> QED
    BY <1>8, <2>1 DEF Mine, Scheduled
<1>13. ASSUME NEW from, NEW to \in Putting \cup {"replace", "prune", "pruneRemote"}, Onward(from, to),
              from \in Writing \cup {"prune"}
       PROVE  IntervalOK(p)'
  <2>1. Mine(p)' = {Plain(p), Age(p), Headless(p)}
    BY <1>13 DEF Mine, Putting
  <2>2. Mine(p) \subseteq {Plain(p), Age(p), Headless(p)}
    BY DEF Mine
  <2>3. local' \subseteq local \cup {Plain(p), Age(p), Headless(p)}
    BY TendsLocal DEF Tends, Shed, Files
  <2>4. \A a \in Scheduled' : a \in Mine(p)' \/ (a \in Scheduled /\ a \notin Mine(p))
    BY <2>1, <2>2, <2>3 DEF Scheduled
  <2>5. pc[p] \notin {"idle", "load", "check"} /\ pc'[p] # "idle"
    BY <1>13 DEF Writing, Packing, Putting
  <2> QED
    BY <1>8, <1>13, <2>4, <2>5
<1>14. ASSUME Stored(p), pc[p] \in {"close", "replace", "confirm"}, now' = now
       PROVE  IntervalOK(p)'
  <2>1. CASE job[p].kind = "run"
    <3>1. Onward(pc[p], "prune")
      BY <1>9, <1>14, <2>1 DEF Stored
    <3> QED
      BY <1>13, <1>14, <3>1 DEF Writing, Packing
  <2> QED
    BY <1>2, <1>14, <2>1 DEF Stored
<1>15. CASE CloseArchive(p)
  <2>1. pc[p] = "close" /\ local' = local \cup {Plain(p)} /\ now' = now
    BY <1>15 DEF CloseArchive, At
  <2>2. CASE job[p].encrypt
    <3>1. Onward("close", "encrypt")
      BY <1>9, <1>15, <2>1, <2>2 DEF CloseArchive
    <3>2. Mine(p) = {} /\ Mine(p)' = {Plain(p)}
      BY <3>1 DEF Mine
    <3> QED
      BY <1>8, <2>1, <3>1, <3>2 DEF Scheduled
  <2> QED
    BY <1>14, <1>15, <2>1, <2>2 DEF CloseArchive
<1>16. CASE Encrypt(p)
  <2>1. Onward("encrypt", "sidecar") /\ local' = local \cup {Headless(p)}
    BY <1>9, <1>16 DEF Encrypt, At
  <2>2. Mine(p) = {Plain(p)} /\ Mine(p)' = {Plain(p), Headless(p)}
    BY <2>1 DEF Mine
  <2> QED
    BY <1>8, <2>1, <2>2 DEF Scheduled
<1>17. CASE Sidecar(p) \/ Put(p) \/ PutSidecar(p)
  <2>1. \E to \in Putting \cup {"replace"} : Onward(pc[p], to) /\ pc[p] \in Writing
    BY <1>9, <1>17 DEF Sidecar, Put, PutSidecar, At, Putting, Writing, Packing
  <2> QED
    BY <1>13, <2>1
<1>18. CASE Replace(p)
  <2>1. pc[p] = "replace" /\ now' = now
    BY <1>18 DEF Replace, At
  <2>2. CASE job[p].upload
    <3>1. Onward("replace", "put")
      BY <1>9, <1>18, <2>1, <2>2 DEF Replace
    <3> QED
      BY <1>13, <3>1 DEF Writing, Packing, Putting
  <2> QED
    BY <1>14, <1>18, <2>1, <2>2 DEF Replace
<1>19. CASE Confirm(p)
  BY <1>14, <1>19 DEF Confirm, At
<1>20. CASE Prune(p)
  <2>1. pc[p] = "prune" /\ now' = now
    BY <1>20 DEF Prune, At
  <2>2. Return(p) \/ Goes(p, "pruneRemote")
    BY <1>20 DEF Prune, Pruned
  <2>3. CASE Goes(p, "pruneRemote")
    BY <1>9, <1>13, <2>1, <2>3
  <2> QED
    BY <1>2, <2>2, <2>3
<1> QED
  BY <1>4, <1>5, <1>6, <1>7, <1>10, <1>11, <1>12, <1>15, <1>16, <1>17, <1>18, <1>19, <1>20 DEF Does, Step

\* The distances, when the pass that moves adds an archive of its own.
LEMMA SpacedNext ==
  ASSUME NEW p \in Procs, TypeInv, Spaced, OnRun(p) => IntervalOK(p), Does(p)
  PROVE  Spaced'
<1>1. CASE Scheduled' \subseteq Scheduled
  BY <1>1 DEF Spaced
<1>2. CASE ~(Scheduled' \subseteq Scheduled)
  <2>1. PICK x \in Scheduled' : x \notin Scheduled
    BY <1>2
  <2>2. Tends(p, local, local', "prune")
    BY TendsLocal
  <2>3. x \in Files(p) /\ local' \subseteq local \cup Files(p) /\ x.trigger = "scheduled"
    BY <2>1, <2>2 DEF Tends, Shed, Scheduled
  <2>4. making[p] # None /\ making[p] \in Archive
    BY <2>3 DEF Files, TypeInv, MakingOK
  <2>5. Files(p) = {Plain(p), Age(p), Headless(p)}
    BY <2>4 DEF Files
  <2>6. making[p].trigger = "scheduled"
    BY <2>3, <2>4, <2>5, FilesType DEF Plain
  <2>7. OnRun(p)
    BY <2>4, <2>6 DEF TypeInv, MakingOK, OnRun, Writing, Packing
  <2>8. pc[p] \notin {"load", "check", "idle"}
    BY <2>4 DEF TypeInv, MakingOK, Writing, Packing
  <2>9. \A a \in Files(p) : a.at = making[p].at
    BY <2>4, <2>5, FilesType
  <2>10. \A a \in Mine(p) : a.at = making[p].at
    BY <2>4, <2>7, Newer
  <2>11. /\ seen[p] \in Policies /\ making[p].at \in Nat /\ job[p].attempt \in Nat /\ Slack \in Nat
         /\ seen[p].every \in Nat /\ \A a \in Scheduled : a.at \in Nat
    BY <2>4, <2>7, <2>8, PassTypes DEF TypeInv, JobOK, OnRun, Scheduled
  <2>12. ASSUME NEW a \in Scheduled, a.at # making[p].at
         PROVE  making[p].at - a.at >= seen[p].every - Slack /\ a.at < making[p].at
    <3>1. a.at + seen[p].every - Slack =< job[p].attempt /\ job[p].attempt =< making[p].at
      BY <2>4, <2>7, <2>8, <2>10, <2>12 DEF IntervalOK
    <3>2. a.at \in Nat /\ seen[p].every > Slack
      BY <2>7, <2>8, <2>11, PassTypes
    <3> QED
      BY <2>11, <3>1, <3>2
  <2>13. \A a \in Scheduled' : a \in Scheduled \/ a.at = making[p].at
    BY <2>3, <2>9 DEF Scheduled
  <2>14. ASSUME NEW a \in Scheduled', NEW b \in Scheduled', a.at # b.at
         PROVE  \E pol \in Policies : Apart(a, b) >= pol.every - Slack
    <3>1. CASE a \in Scheduled /\ b \in Scheduled
      BY <2>14, <3>1 DEF Spaced
    <3>2. CASE a \in Scheduled /\ b.at = making[p].at
      <4>1. making[p].at - a.at >= seen[p].every - Slack /\ a.at < making[p].at /\ a.at \in Nat
        BY <2>11, <2>12, <2>14, <3>2
      <4>2. Apart(a, b) = making[p].at - a.at
        BY <2>11, <3>2, <4>1 DEF Apart
      <4> QED
        BY <2>11, <4>1, <4>2
    <3>3. CASE b \in Scheduled /\ a.at = making[p].at
      <4>1. making[p].at - b.at >= seen[p].every - Slack /\ b.at < making[p].at /\ b.at \in Nat
        BY <2>11, <2>12, <2>14, <3>3
      <4>2. Apart(a, b) = making[p].at - b.at
        BY <2>11, <3>3, <4>1 DEF Apart
      <4> QED
        BY <2>11, <4>1, <4>2
    <3> QED
      BY <2>13, <2>14, <3>1, <3>2, <3>3
  <2> QED
    BY <2>14 DEF Spaced
<1> QED
  BY <1>1, <1>2

\* A prune keeps one that is as new as any.
LEMMA ShedCovers ==
  ASSUME NEW p \in Procs, TypeInv, Shed(p, local, local'), NEW c \in Candidates(local)
  PROVE  \E m \in Candidates(local') : m.at >= c.at
<1> DEFINE S == Candidates(local)
<1>1. S \in SUBSET Archive /\ S # {}
  BY DEF TypeInv, TypeOK, Candidates
<1>2. PICK m \in S : \A b \in S : b.at =< m.at /\ ~Before(b, m)
  BY <1>1, LeastExists
<1>3. m \in selectRetained(S, seen[p])
  BY <1>2, NoneBefore, FloorKept
<1>4. m \in Candidates(local')
  BY <1>2, <1>3 DEF Shed, Dropped, Candidates
<1>5. c.at =< m.at /\ c.at \in Nat /\ m.at \in Nat
  BY <1>1, <1>2, RetentionAssumption DEF Archive, Times
<1> QED
  BY <1>4, <1>5

\* Archives that stay, with nothing newly unfinished.
LEMMA CoveredSame ==
  ASSUME Covered, local' = local, \A a \in Scheduled : Unfinished(a)' <=> Unfinished(a)
  PROVE  Covered'
<1>1. Candidates(local)' = Candidates(local) /\ Scheduled' = Scheduled
  BY DEF Candidates, Scheduled
<1>2. \A c \in Candidates(local) : c \in Scheduled
  BY DEF Candidates, prunable, Scheduled
<1> QED
  BY <1>1, <1>2 DEF Covered

\* A prune leaves a newest archive where nobody leaves one unfinished.
LEMMA CoveredPrune ==
  ASSUME NEW p \in Procs, TypeInv, Covered, pc[p] \in Holding \ {"encrypt", "sidecar"},
         Shed(p, local, local'), \A a : ~Unfinished(a)'
  PROVE  Covered'
<1> SUFFICES ASSUME NEW a \in Scheduled' PROVE \E m \in Candidates(local') : m.at >= a.at
  BY DEF Covered
<1>1. ~Unfinished(a)
  BY OneHolder DEF Unfinished, Holding
<1>2. a \in Scheduled
  BY DEF Shed, Scheduled
<1>3. PICK c \in Candidates(local) : c.at >= a.at
  BY <1>1, <1>2 DEF Covered
<1>4. PICK m \in Candidates(local') : m.at >= c.at
  BY <1>3, ShedCovers
<1>5. a.at \in Nat /\ c.at \in Nat /\ m.at \in Nat
  <2>1. \A b \in local : b.at \in Nat
    BY RetentionAssumption DEF TypeInv, TypeOK, Archive, Times
  <2>2. c \in local /\ m \in local /\ a \in local
    BY <1>2, <1>3, <1>4 DEF Candidates, Shed, Scheduled
  <2> QED
    BY <2>1, <2>2
<1> QED
  BY <1>3, <1>4, <1>5

\* The pass that moves is the only one that may leave an archive unfinished.
LEMMA UnfinishedIs ==
  ASSUME NEW p \in Procs, TypeInv, Does(p), OnRun(p) \/ ~\E q \in Procs : OnRun(q)
  PROVE  \A a : Unfinished(a)' <=> /\ OnRun(p)' /\ pc'[p] \in {"encrypt", "sidecar"}
                                   /\ making'[p].at = a.at
<1>1. \A q \in Procs \ {p} : ~OnRun(q)
  BY OnePass
<1>2. \A q \in Procs \ {p} : ~OnRun(q)'
  BY <1>1, DoesKeep DEF Kept, Alone, OnRun
<1> QED
  BY <1>2 DEF Unfinished

\* The steps of a pass leave every archive unfinished or covered.
LEMMA CoveredNext ==
  ASSUME NEW p \in Procs, TypeInv, Covered, OnRun(p), StageOK(p), IntervalOK(p), Does(p)
  PROVE  Covered'
<1>1. TypeOK /\ JobOK(p) /\ MakingOK(p) /\ TypeInv'
  BY DoesType DEF TypeInv
<1> DEFINE left == OnRun(p)' /\ pc'[p] \in {"encrypt", "sidecar"}
<1>2. \A a : Unfinished(a) <=> pc[p] \in {"encrypt", "sidecar"} /\ making[p].at = a.at
  BY OnePass DEF Unfinished
<1>3. \A a : Unfinished(a)' <=> left /\ making'[p].at = a.at
  BY UnfinishedIs
<1>5. Return(p) => ~left
  BY <1>1 DEF Return, OnRun, TypeOK
<1> HIDE DEF left
\* Nothing is removed or added, and nothing is or becomes unfinished.
<1>6. ASSUME local' = local, pc[p] \notin {"encrypt", "sidecar"}, ~left
      PROVE  Covered'
  BY <1>2, <1>3, <1>6, CoveredSame
\* The new archive is finished.
<1>7. ASSUME NEW m \in Candidates(local'), making[p] # None, m.at = making[p].at, ~left
      PROVE  Covered'
  <2>1. local' \subseteq local \cup Files(p)
    BY TendsLocal DEF Tends, Shed
  <2>2. making[p] \in Archive
    BY <1>1, <1>7 DEF MakingOK
  <2>3. \A b \in Files(p) : b.at = making[p].at
    BY <1>7, <2>2, FilesType DEF Files
  <2>4. making[p].at \in Nat /\ \A b \in Scheduled : b.at =< making[p].at
    BY <1>7, PassTypes, Newer
  <2>5. ASSUME NEW a \in Scheduled' PROVE m.at >= a.at
    <3>1. a \in Scheduled \/ a.at = making[p].at
      BY <2>1, <2>3 DEF Scheduled
    <3>2. a \in Scheduled => a.at \in Nat
      BY PassTypes DEF Scheduled
    <3> QED
      BY <1>7, <2>4, <3>1, <3>2
  <2> QED
    BY <1>3, <1>7, <2>5 DEF Covered
\* The new archive is unfinished, and no other has changed.
<1>8. ASSUME making[p] # None, left, making'[p] = making[p],
             \A a \in Scheduled' : a.at = making[p].at \/ a \in Scheduled,
             local \subseteq local',
             \A a \in Scheduled : ~Unfinished(a) => a.at # making[p].at
      PROVE  Covered'
  <2> SUFFICES ASSUME NEW a \in Scheduled', ~Unfinished(a)'
               PROVE  \E c \in Candidates(local') : c.at >= a.at /\ ~Unfinished(c)'
    BY DEF Covered
  <2>1. a.at # making[p].at /\ a \in Scheduled /\ ~Unfinished(a)
    BY <1>2, <1>3, <1>8
  <2>2. PICK c \in Candidates(local) : c.at >= a.at /\ ~Unfinished(c)
    BY <2>1 DEF Covered
  <2>3. c \in Scheduled
    BY <2>2 DEF Candidates, prunable, Scheduled
  <2>4. c.at # making[p].at
    BY <1>8, <2>2, <2>3
  <2>5. c \in Candidates(local') /\ ~Unfinished(c)'
    BY <1>3, <1>8, <2>2, <2>4 DEF Candidates
  <2> QED
    BY <2>2, <2>5
\* The unfinished archive is given up.
<1>9. ASSUME pc[p] \in {"encrypt", "sidecar"}, ~left,
             local' = local \ Mine(p)
      PROVE  Covered'
  <2> SUFFICES ASSUME NEW a \in Scheduled'
               PROVE  \E c \in Candidates(local') : c.at >= a.at
    BY <1>3, <1>9 DEF Covered
  <2>1. making[p] # None
    BY <1>1, <1>9 DEF JobOK, Writing, Packing
  <2>2. a \in Scheduled /\ a \notin Mine(p)
    BY <1>9 DEF Scheduled
  <2>3. a.at < making[p].at /\ making[p].at \in Nat /\ a.at \in Nat
    BY <2>1, <2>2, Newer, PassTypes DEF Scheduled
  <2>4. ~Unfinished(a)
    BY <1>2, <2>3
  <2>5. PICK c \in Candidates(local) : c.at >= a.at /\ ~Unfinished(c)
    BY <2>2, <2>4 DEF Covered
  <2>6. c \notin Mine(p)
    BY <1>2, <1>9, <2>1, <2>5, Newer
  <2> QED
    BY <1>9, <2>5, <2>6 DEF Candidates
<1>10. CASE \/ StartRun(p) \/ StartUser(p) \/ LoadBenches(p) \/ CheckDue(p) \/ LockBench(p) \/ Dump(p)
            \/ SkipStopped(p) \/ Other(p) \/ CreateArchive(p) \/ Put(p) \/ PutSidecar(p) \/ Confirm(p)
            \/ PruneRemote(p)
  <2>1. local' = local /\ pc[p] \notin {"encrypt", "sidecar"}
    BY <1>10 DEF StartRun, StartUser, LoadBenches, CheckDue, LockBench, Dump, SkipStopped, Other,
       CreateArchive, Put, PutSidecar, Confirm, PruneRemote, disk, At, Calls
  <2>2. Return(p) \/ \E step \in Steps \ {"encrypt", "sidecar"} : pc' = [pc EXCEPT ![p] = step]
    <3>1. AfterLock(job[p].kind) = "dump" \/ job[p].kind # "run"
      BY DEF AfterLock
    <3>2. job[p].kind = "run"
      BY DEF OnRun
    <3> QED
      BY <1>10, <3>1, <3>2 DEF StartRun, StartUser, LoadBenches, CheckDue, LockBench, Dump, SkipStopped,
         Other, CreateArchive, Put, PutSidecar, Confirm, PruneRemote, Stored, Goes, Goto, Steps
  <2>3. ~left
    BY <1>1, <1>5, <2>2 DEF left, TypeOK
  <2> QED
    BY <1>6, <2>1, <2>3
<1>11. CASE CloseArchive(p)
  <2>1. pc[p] = "close" /\ local' = local \cup {Plain(p)}
    BY <1>11 DEF CloseArchive, At
  <2>2. making[p] # None /\ job[p].kind = "run"
    BY <1>1, <2>1 DEF JobOK, Writing, Packing, OnRun
  <2>3. making[p] \in Archive /\ making[p].trigger = "scheduled" /\ making[p].form = "plain"
    BY <2>2, PassTypes
  <2>4. CASE job[p].encrypt
    <3>1. pc'[p] = "encrypt" /\ making' = making /\ job' = job
      BY <1>1, <1>11, <2>4 DEF CloseArchive, Goes, Goto, TypeOK
    <3>2. left
      BY <2>2, <3>1 DEF left, OnRun
    <3>3. \A a \in Scheduled' : a.at = making[p].at \/ a \in Scheduled
      BY <2>1 DEF Scheduled, Plain
    <3>4. \A a \in Scheduled : a.at # making[p].at
      <4>1. Mine(p) = {}
        BY <2>1 DEF Mine
      <4>2. making[p].at \in Nat /\ \A a \in Scheduled : a.at \in Nat
        BY <2>2, PassTypes DEF Scheduled
      <4> QED
        BY <2>2, <4>1, <4>2, Newer
    <3> QED
      BY <1>8, <2>1, <2>2, <3>1, <3>2, <3>3, <3>4
  <2>5. CASE ~job[p].encrypt
    <3>1. Plain(p) \in Candidates(local') /\ Plain(p).at = making[p].at
      BY <2>1, <2>3 DEF Candidates, prunable, Plain
    <3>2. ~left
      BY <1>1, <1>11, <2>2, <2>5 DEF CloseArchive, Stored, Goes, Goto, TypeOK, left
    <3> QED
      BY <1>7, <2>2, <3>1, <3>2
  <2> QED
    BY <2>4, <2>5
<1>12. CASE Encrypt(p)
  <2>1. /\ pc[p] = "encrypt" /\ local' = local \cup {Headless(p)} /\ pc'[p] = "sidecar"
        /\ making' = making /\ job' = job
    BY <1>1, <1>12 DEF Encrypt, At, Goes, Goto, TypeOK
  <2>2. making[p] # None /\ left
    BY <1>1, <2>1 DEF JobOK, Writing, Packing, OnRun, left
  <2>3. making[p] \in Archive
    BY <2>2, PassTypes
  <2>4. \A a \in Scheduled' : a.at = making[p].at \/ a \in Scheduled
    BY <2>1, <2>3, FilesType DEF Scheduled
  <2>5. \A a \in Scheduled : ~Unfinished(a) => a.at # making[p].at
    BY <1>2, <2>1
  <2> QED
    BY <1>8, <2>1, <2>2, <2>4, <2>5
<1>13. ASSUME making[p] # None, Age(p) \in local', ~left
       PROVE  Covered'
  <2>1. making[p] \in Archive /\ making[p].trigger = "scheduled"
    BY <1>13, PassTypes
  <2>2. Age(p) \in Candidates(local') /\ Age(p).at = making[p].at
    BY <1>13, <2>1, FilesType DEF Candidates, prunable
  <2> QED
    BY <1>7, <1>13, <2>2
<1>14. CASE Sidecar(p)
  <2>1. pc[p] = "sidecar" /\ Age(p) \in local' /\ pc'[p] = "replace"
    BY <1>1, <1>14 DEF Sidecar, At, Goes, Goto, TypeOK
  <2>2. making[p] # None /\ ~left
    BY <1>1, <2>1 DEF JobOK, Writing, Packing, left
  <2> QED
    BY <1>13, <2>1, <2>2
<1>15. Age(p) # Plain(p) \/ making[p] = None
  <2>1. making[p] # None => making[p] \in Archive /\ making[p].form = "plain"
    BY PassTypes
  <2> QED
    BY <2>1, FilesType DEF Plain
<1>16. CASE Replace(p)
  <2>1. pc[p] = "replace" /\ local' = local \ {Plain(p)}
    BY <1>16 DEF Replace, At
  <2>2. ~left
    BY <1>1, <1>5, <1>16 DEF Replace, Stored, Goes, Goto, TypeOK, left
  <2>3. making[p] # None /\ Age(p) \in local
    BY <1>1, <2>1 DEF JobOK, Writing, Packing, StageOK
  <2> QED
    BY <1>13, <1>15, <2>1, <2>2, <2>3
<1>17. CASE Prune(p) \/ Crash(p)
  <2>1. ~left
    BY <1>1, <1>5, <1>17 DEF Prune, Pruned, Crash, Goes, Goto, TypeOK, left
  <2>2. local' = local \/ (pc[p] = "prune" /\ Shed(p, local, local'))
    <3>1. /\ Shed(p, local, local \ Dropped(p, local))
          /\ \A gone \in Interrupted(Dropped(p, local)) : Shed(p, local, local \ gone)
      BY ShedAll
    <3>2. \/ local' = local
          \/ pc[p] = "prune" /\ local' = local \ Dropped(p, local)
          \/ pc[p] = "prune" /\ \E gone \in Interrupted(Dropped(p, local)) : local' = local \ gone
      BY <1>17 DEF Prune, Crash, At
    <3> QED
      BY <3>1, <3>2
  <2>3. CASE local' = local
    <3>1. CASE pc[p] \in {"encrypt", "sidecar"}
      <4>1. making[p] # None /\ Plain(p) \in local'
        BY <1>1, <2>3, <3>1 DEF JobOK, Writing, Packing, StageOK
      <4>2. making[p].trigger = "scheduled" /\ making[p].form = "plain"
        BY <4>1, PassTypes
      <4>3. Plain(p) \in Candidates(local') /\ Plain(p).at = making[p].at
        BY <4>1, <4>2 DEF Candidates, prunable, Plain
      <4> QED
        BY <1>7, <2>1, <4>1, <4>3
    <3>2. CASE pc[p] \notin {"encrypt", "sidecar"}
      BY <1>6, <2>1, <2>3, <3>2
    <3> QED
      BY <3>1, <3>2
  <2>4. CASE pc[p] = "prune" /\ Shed(p, local, local')
    BY <1>3, <2>1, <2>4, CoveredPrune DEF Holding
  <2> QED
    BY <2>2, <2>3, <2>4
<1>18. CASE Fail(p)
  <2>1. ~left
    BY <1>5, <1>18 DEF Fail
  <2>2. CASE pc[p] = "encrypt"
    <3>1. local' = local \ Mine(p)
      BY <1>18, <2>2 DEF Fail, At, Mine
    <3> QED
      BY <1>9, <2>1, <2>2, <3>1
  <2>3. CASE pc[p] = "sidecar"
    <3>1. local' = local \ Mine(p)
      BY <1>18, <2>3 DEF Fail, At, Mine
    <3> QED
      BY <1>9, <2>1, <2>3, <3>1
  <2>4. CASE pc[p] = "replace"
    <3>1. local' = local \/ local' = local \ {Plain(p)}
      BY <1>18, <2>4 DEF Fail, At
    <3>2. making[p] # None /\ Age(p) \in local
      BY <1>1, <2>4 DEF JobOK, Writing, Packing, StageOK
    <3> QED
      BY <1>13, <1>15, <2>1, <3>1, <3>2
  <2>5. CASE pc[p] \notin {"encrypt", "sidecar", "replace"}
    <3>1. local' = local
      BY <1>18, <2>5 DEF Fail, At
    <3> QED
      BY <1>6, <2>1, <2>5, <3>1
  <2> QED
    BY <2>2, <2>3, <2>4, <2>5
<1> QED
  BY <1>10, <1>11, <1>12, <1>14, <1>16, <1>17, <1>18 DEF Does, Step

\* A process that is not a pass touches scheduled archives only by a prune.
LEMMA ManualStep ==
  ASSUME NEW p \in Procs, TypeInv, Does(p), ~OnRun(p)
  PROVE  /\ Scheduled' \subseteq Scheduled
         /\ \/ Scheduled' = Scheduled /\ Candidates(local') = Candidates(local)
            \/ pc[p] = "prune" /\ Shed(p, local, local')
<1>1. \A a \in Files(p) : a.trigger = "manual"
  <2>1. making[p] # None => making[p] \in Archive /\ making[p].trigger = "manual"
    BY DEF TypeInv, MakingOK, OnRun, Writing, Packing
  <2> QED
    BY <2>1, FilesType DEF Files, Plain
<1>2. Tends(p, local, local', "prune")
  BY TendsLocal
<1>3. CASE local' \subseteq local \cup Files(p) /\ local \ local' \subseteq Files(p)
  <2>1. \A a : a.trigger = "scheduled" => (a \in local' <=> a \in local)
    BY <1>1, <1>3
  <2> QED
    BY <2>1 DEF Scheduled, Candidates, prunable
<1>4. CASE pc[p] = "prune" /\ Shed(p, local, local')
  BY <1>4 DEF Shed, Scheduled
<1> QED
  BY <1>2, <1>3, <1>4 DEF Tends

\* A pass keeps what it relies on while another process moves.
LEMMA OthersPass ==
  ASSUME NEW p \in Procs, NEW q \in Procs \ {p}, TypeInv, Does(p), OnRun(q), StageOK(q), IntervalOK(q)
  PROVE  StageOK(q)' /\ IntervalOK(q)'
<1>1. /\ pc'[q] = pc[q] /\ job'[q] = job[q] /\ seen'[q] = seen[q] /\ making'[q] = making[q] /\ now' = now
  BY DoesKeep DEF Kept, Alone
<1>2. /\ Plain(q)' = Plain(q) /\ Age(q)' = Age(q) /\ Headless(q)' = Headless(q)
      /\ Mine(q)' = Mine(q)
  BY <1>1 DEF Plain, Age, Headless, Mine
<1>3. CASE pc[q] \in Holding
  <2>1. local' = local /\ remote' = remote
    BY <1>3, OneHolder, UnlockedLeaves
  <2>2. StageOK(q)'
    BY <1>1, <1>2, <2>1 DEF StageOK, Safe
  <2>3. Scheduled' = Scheduled
    BY <2>1 DEF Scheduled
  <2>4. IntervalOK(q)'
    BY <1>1, <1>2, <2>3 DEF IntervalOK
  <2> QED
    BY <2>2, <2>4
<1>4. CASE pc[q] \notin Holding
  <2>1. StageOK(q)'
    BY <1>1, <1>4 DEF StageOK, Holding, Putting
  <2>2. Scheduled' \subseteq Scheduled
    BY OnePass, ManualStep
  <2>3. IntervalOK(q)'
    BY <1>1, <1>2, <2>2 DEF IntervalOK
  <2> QED
    BY <2>1, <2>3
<1> QED
  BY <1>3, <1>4

\* So do the steps of the others.
LEMMA CoveredOthers ==
  ASSUME NEW p \in Procs, TypeInv, Covered, Does(p), ~OnRun(p)
  PROVE  Covered'
<1>1. TypeOK /\ JobOK(p)
  BY DEF TypeInv
<1>2. \A q \in Procs \ {p} : OnRun(q)' <=> OnRun(q)
  BY DoesKeep DEF Kept, Alone, OnRun
<1>3. \A q \in Procs \ {p} : pc'[q] = pc[q] /\ making'[q] = making[q]
  BY DoesKeep DEF Kept, Alone
<1>4. ~(OnRun(p)' /\ pc'[p] \in {"encrypt", "sidecar"})
  <2>1. CASE Return(p)
    BY <1>1, <2>1 DEF Return, TypeOK
  <2>2. CASE StartRun(p) \/ StartUser(p) \/ CheckDue(p)
    <3>1. Return(p) \/ pc'[p] \in {"load", "lock"}
      BY <1>1, <2>2 DEF StartRun, StartUser, CheckDue, Goto, TypeOK
    <3> QED
      BY <2>1, <3>1
  <2>3. CASE job' = job /\ pc[p] # "idle"
    BY <2>3 DEF OnRun
  <2>4. Return(p) \/ StartRun(p) \/ StartUser(p) \/ CheckDue(p) \/ (job' = job /\ pc[p] # "idle")
    BY DEF Does, Step, LoadBenches, LockBench, Other, SkipStopped, Dump, CreateArchive, CloseArchive,
       Encrypt, Sidecar, Replace, Put, PutSidecar, Confirm, Prune, PruneRemote, Fail, Crash, At,
       Stored, Pruned, Goes
  <2> QED
    BY <2>1, <2>2, <2>3, <2>4
<1>5. \A a : Unfinished(a)' <=> Unfinished(a)
  BY <1>2, <1>3, <1>4 DEF Unfinished
<1>6. CASE \E a : Unfinished(a)
  <2>1. PICK q \in Procs : OnRun(q) /\ pc[q] \in {"encrypt", "sidecar"}
    BY <1>6 DEF Unfinished
  <2>2. local' = local
    BY <2>1, OneHolder, UnlockedLeaves DEF Holding
  <2> QED
    BY <1>5, <2>2, CoveredSame
<1>7. CASE ~\E a : Unfinished(a)
  <2>1. CASE Scheduled' = Scheduled /\ Candidates(local') = Candidates(local)
    BY <1>5, <1>7, <2>1 DEF Covered
  <2>2. CASE pc[p] = "prune" /\ Shed(p, local, local')
    BY <1>5, <1>7, <2>2, CoveredPrune DEF Holding
  <2> QED
    BY <2>1, <2>2, ManualStep
<1> QED
  BY <1>6, <1>7

\* PassInv is kept by every step of a process.
LEMMA DoesPass ==
  ASSUME NEW p \in Procs, PassInv, Does(p)
  PROVE  PassInv'
<1>1. TypeInv /\ Covered /\ Spaced /\ \A q \in Procs : OnRun(q) => StageOK(q) /\ IntervalOK(q)
  BY DEF PassInv
<1>2. TypeInv'
  BY <1>1, DoesType
<1>3. Spaced'
  BY <1>1, SpacedNext
<1>4. Covered'
  BY <1>1, CoveredNext, CoveredOthers
<1>5. ASSUME NEW q \in Procs, OnRun(q)' PROVE StageOK(q)' /\ IntervalOK(q)'
  <2>1. CASE q = p
    BY <1>1, <1>5, <2>1, StageNext, IntervalNext
  <2>2. CASE q # p
    <3>1. OnRun(q)
      BY <1>1, <1>5, <2>2, DoesKeep DEF Kept, Alone, OnRun
    <3> QED
      BY <1>1, <2>2, <3>1, OthersPass
  <2> QED
    BY <2>1, <2>2
<1> QED
  BY <1>2, <1>3, <1>4, <1>5 DEF PassInv

\* The clock, and a policy that changes, leave a pass what it relies on.
LEMMA AroundPass ==
  ASSUME PassInv, Tick \/ SetBackupSchedule \/ UNCHANGED vars
  PROVE  PassInv'
<1>1. TypeInv /\ TypeInv'
  BY AroundType DEF PassInv
<1>2. UNCHANGED <<local, remote, pc, job, seen, making>>
  BY DEF Tick, SetBackupSchedule, vars, disk, process
<1>3. now' >= now /\ now \in Nat /\ now' \in Nat
  <2>1. now' = now \/ now' = now + 1
    BY DEF Tick, SetBackupSchedule, vars
  <2>2. now \in Times
    BY <1>1 DEF TypeInv, TypeOK
  <2> QED
    BY <2>1, <2>2, RetentionAssumption DEF Times
<1>4. Scheduled' = Scheduled /\ Candidates(local') = Candidates(local) /\ \A a : Unfinished(a)' <=> Unfinished(a)
  BY <1>2 DEF Scheduled, Candidates, Unfinished, OnRun
<1>5. Covered'
  BY <1>2, <1>4, CoveredSame DEF PassInv
<1>6. Spaced'
  BY <1>4 DEF Spaced, PassInv
<1>7. ASSUME NEW q \in Procs, OnRun(q)' PROVE StageOK(q)' /\ IntervalOK(q)'
  <2>1. OnRun(q)
    BY <1>2, <1>7 DEF OnRun
  <2>2. StageOK(q) /\ IntervalOK(q) /\ job[q].attempt \in Nat
    BY <1>1, <2>1, PassTypes DEF PassInv
  <2>3. /\ Plain(q)' = Plain(q) /\ Age(q)' = Age(q) /\ Headless(q)' = Headless(q)
        /\ Mine(q)' = Mine(q)
    BY <1>2 DEF Plain, Age, Headless, Mine
  <2>4. StageOK(q)'
    BY <1>2, <2>2, <2>3 DEF StageOK, Safe
  <2>5. IntervalOK(q)'
    BY <1>2, <1>3, <1>4, <2>2, <2>3 DEF IntervalOK
  <2> QED
    BY <2>4, <2>5
<1> QED
  BY <1>1, <1>5, <1>6, <1>7 DEF PassInv

\* PassInv is inductive.
LEMMA NextPass ==
  ASSUME PassInv, [Next]_vars
  PROVE  PassInv'
BY NextIs, DoesPass, AroundPass

\* It holds at the start.
LEMMA InitPass == Init => PassInv
<1> SUFFICES ASSUME Init PROVE PassInv
  OBVIOUS
<1>1. Scheduled = {} /\ \A p \in Procs : ~OnRun(p)
  BY DEF Init, Scheduled, OnRun
<1> QED
  BY <1>1, InitType DEF PassInv, Covered, Spaced

\* What the steps of a pass rely on holds in every state: what is on disk at
\* each stage, and that whatever was taken before is an interval old.
THEOREM AlwaysPass == Spec => []PassInv
<1>1. PassInv /\ [Next]_vars => PassInv'
  BY NextPass
<1> QED
  BY <1>1, InitPass, PTL DEF Spec

\* Scheduled archives are never closer than an interval less the slack: there is
\* one pass at a time, it starts an interval after the newest finished archive,
\* and no prune of anybody removes that one.
THEOREM RunsSpaced == Spec => []Spaced
<1>1. PassInv => Spaced
  BY DEF PassInv
<1> QED
  BY <1>1, AlwaysPass, PTL

\* The condition of OnlyAfterSuccess.
RemovesOthers(p) ==
  /\ job[p] # None /\ job[p].kind = "run"
  /\ \/ \E a \in local \ local' : making[p] # None /\ a.at # making[p].at
     \/ \E a \in remote \ remote' : making[p] # None /\ a.at # making[p].at
  /\ benchLock = p

\* Whoever holds the lock and removes another archive is at a prune, and Safe.
LEMMA NextAfterSuccess ==
  ASSUME PassInv, [Next]_vars, NEW p \in Procs, RemovesOthers(p)
  PROVE  Safe(p)
<1>1. TypeInv
  BY DEF PassInv
<1>2. making[p] # None /\ making[p] \in Archive
  BY <1>1 DEF RemovesOthers, TypeInv, MakingOK
<1>3. CASE Tick \/ SetBackupSchedule \/ UNCHANGED vars
  BY <1>3 DEF Tick, SetBackupSchedule, vars, disk, RemovesOthers
<1>4. ASSUME NEW q \in Procs, Does(q) PROVE Safe(p)
  <2>1. pc[q] \in Holding
    BY <1>4, UnlockedLeaves DEF RemovesOthers
  <2>2. q = p
    BY <1>1, <2>1 DEF TypeInv, LocksOK, RemovesOthers
  <2>3. \A a \in Files(p) : a.at = making[p].at
    BY <1>2, FilesType DEF Files
  <2>4. Tends(p, local, local', "prune") /\ Tends(p, remote, remote', "pruneRemote")
    BY <1>1, <1>4, <2>2, TendsLocal, TendsRemote
  <2>5. pc[p] \in {"prune", "pruneRemote"}
    BY <2>3, <2>4 DEF Tends, RemovesOthers
  <2>6. OnRun(p)
    BY <2>5 DEF OnRun, RemovesOthers
  <2> QED
    BY <2>5, <2>6 DEF PassInv, StageOK
<1> QED
  BY <1>3, <1>4, NextIs

\* A pass removes older archives only when its own new one is complete here, and
\* on the target if there is one.
THEOREM PrunesAfterSuccess == Spec => OnlyAfterSuccess
<1>1. PassInv /\ [Next]_vars => [\A p \in Procs : RemovesOthers(p) => Safe(p)]_vars
  BY NextAfterSuccess
<1>2. [\A p \in Procs : RemovesOthers(p) => Safe(p)]_vars =>
      [\A p \in Procs :
         /\ job[p] # None /\ job[p].kind = "run"
         /\ \/ \E a \in local \ local' : making[p] # None /\ a.at # making[p].at
            \/ \E a \in remote \ remote' : making[p] # None /\ a.at # making[p].at
         /\ benchLock = p
         => Safe(p)]_vars
  BY DEF RemovesOthers
<1> QED
  BY <1>1, <1>2, AlwaysPass, PTL DEF Spec, OnlyAfterSuccess
-----------------------------------------------------------------------------
(* Prune after prune keeps the newest hours, days and weeks *)

\* Scheduled archives that can be identified and differ, if they are of one
\* time, as the plain and the encrypted file of one archive.
Told(S) ==
  /\ S \subseteq Archive
  /\ \A a \in S : prunable(a)
  /\ \A a, b \in S : a.at = b.at => a.files = b.files

\* Archives that are Told are listed in one order.
LEMMA OneBefore ==
  ASSUME NEW S, Told(S), NEW a \in S, NEW b \in S
  PROVE  /\ a # b => Before(a, b) \/ Before(b, a)
         /\ ~(Before(a, b) /\ Before(b, a))
<1>1. a \in Archive /\ b \in Archive /\ a.at \in Nat /\ b.at \in Nat
  BY RetentionAssumption DEF Told, Archive, Times
<1>2. ASSUME a # b, a.at = b.at PROVE Before(a, b) \/ Before(b, a)
  <2>1. /\ a.trigger = "scheduled" /\ b.trigger = "scheduled" /\ a.files = b.files
        /\ a.form \in {"plain", "age"} /\ b.form \in {"plain", "age"}
    BY <1>1, <1>2 DEF Told, prunable, Archive
  <2>2. a.form # b.form
    BY <1>1, <1>2, <2>1 DEF Archive
  <2> QED
    BY <1>2, <2>1, <2>2 DEF Before
<1>3. ASSUME a.at # b.at PROVE Before(a, b) \/ Before(b, a)
  BY <1>1, <1>3 DEF Before
<1>4. ~(Before(a, b) /\ Before(b, a))
  BY <1>1 DEF Before
<1> QED
  BY <1>2, <1>3, <1>4

\* The first one is the one that is before all others.
LEMMA FirstIs ==
  ASSUME NEW X, Told(X), NEW x \in X, \A b \in X \ {x} : Before(x, b)
  PROVE  First(X) = x
<1>1. ASSUME NEW y \in X, \A b \in X \ {y} : Before(y, b) PROVE y = x
  BY <1>1, OneBefore
<1> QED
  BY <1>1 DEF First

\* It is one of them.
LEMMA FirstLeads ==
  ASSUME NEW X, Told(X), X # {}
  PROVE  First(X) \in X /\ \A b \in X \ {First(X)} : Before(First(X), b)
<1>1. X \in SUBSET Archive
  BY DEF Told
<1>2. PICK a \in X : \A b \in X : b.at =< a.at /\ ~Before(b, a)
  BY <1>1, LeastExists
<1>3. \A b \in X \ {a} : Before(a, b)
  BY <1>2, OneBefore
<1> QED
  BY <1>3, FirstIs

\* The archive that stands for a bucket is one of the bucket, with the
\* attachments if they are wanted and there are any.
LEMMA FavouriteIn ==
  ASSUME NEW X, Told(X), X # {}, NEW preferFiles \in BOOLEAN
  PROVE  /\ Favourite(X, preferFiles) \in X
         /\ preferFiles /\ (\E a \in X : a.files) => Favourite(X, preferFiles).files
<1> DEFINE withFiles == {a \in X : a.files}
<1>1. Told(withFiles)
  BY DEF Told
<1>2. CASE preferFiles /\ withFiles # {}
  <2>1. Favourite(X, preferFiles) = First(withFiles)
    BY <1>2 DEF Favourite
  <2>2. First(withFiles) \in withFiles
    BY <1>1, <1>2, FirstLeads
  <2> QED
    BY <2>1, <2>2
<1>3. CASE ~(preferFiles /\ withFiles # {})
  <2>1. Favourite(X, preferFiles) = First(X)
    BY <1>3 DEF Favourite
  <2>2. First(X) \in X
    BY FirstLeads
  <2> QED
    BY <1>3, <2>1, <2>2
<1> QED
  BY <1>2, <1>3

\* The buckets of some archives that are newer than k.
NewerUsed(S, bucket, k) == {j \in {bucket[b.at] : b \in S} : j > k}

\* They are finitely many, and the more archives, the more buckets.
LEMMA MoreUsed ==
  ASSUME NEW S \in SUBSET Archive, NEW T \in SUBSET S, NEW bucket, Calendar(bucket), NEW k
  PROVE  /\ Cardinality(NewerUsed(T, bucket, k)) \in Nat
         /\ Cardinality(NewerUsed(S, bucket, k)) \in Nat
         /\ Cardinality(NewerUsed(T, bucket, k)) =< Cardinality(NewerUsed(S, bucket, k))
<1>1. MaxTime \in Times /\ \A t \in Times : t =< MaxTime
  BY RetentionAssumption DEF Times
<1>2. /\ bucket[MaxTime] \in Nat
      /\ \A t \in Times : bucket[t] \in Nat /\ bucket[t] =< bucket[MaxTime]
  BY <1>1 DEF Calendar
<1>3. \A b \in S : b.at \in Times
  BY DEF Archive
<1>4. NewerUsed(S, bucket, k) \in SUBSET (0..bucket[MaxTime])
  BY <1>2, <1>3 DEF NewerUsed
<1>5. IsFiniteSet(0..bucket[MaxTime])
  <2>1. 0 \in Int /\ bucket[MaxTime] \in Int
    BY <1>2
  <2> QED
    BY <2>1, FS_Interval
<1>6. IsFiniteSet(NewerUsed(S, bucket, k))
  BY <1>4, <1>5, FS_Subset
<1>7. NewerUsed(T, bucket, k) \in SUBSET NewerUsed(S, bucket, k)
  BY DEF NewerUsed
<1> QED
  BY <1>6, <1>7, FS_Subset, FS_CardinalityType

\* Each of the newest buckets of T has an archive of K, with the attachments if
\* they are wanted and any of T has them.
Represented(T, K, limit, preferFiles, bucket) ==
  \A a \in T : Cardinality(NewerUsed(T, bucket, bucket[a.at])) < limit =>
     \E b \in K : bucket[b.at] = bucket[a.at] /\ (preferFiles /\ a.files => b.files)

\* A tier of the archives S keeps that of all that were ever looked at, if it was
\* so of those looked at before, T, and S.
LEMMA TierKeeps ==
  ASSUME NEW S, Told(S), NEW T \in SUBSET Archive, NEW limit \in Nat, NEW preferFiles \in BOOLEAN,
         NEW bucket, Calendar(bucket), NEW K,
         Represented(T, T \cap S, limit, preferFiles, bucket),
         Tier(S, limit, preferFiles, bucket) \subseteq K
  PROVE  Represented(T \cup S, (T \cup S) \cap K, limit, preferFiles, bucket)
<1> DEFINE of(k) == {a \in S : bucket[a.at] = k}
           used  == {bucket[a.at] : a \in S}
<1>0. S \in SUBSET Archive /\ T \cup S \in SUBSET Archive
  BY DEF Told
<1>1. ASSUME NEW b \in S, Cardinality(NewerUsed(T \cup S, bucket, bucket[b.at])) < limit
      PROVE  /\ Favourite(of(bucket[b.at]), preferFiles) \in K
             /\ Favourite(of(bucket[b.at]), preferFiles) \in of(bucket[b.at])
             /\ preferFiles /\ b.files => Favourite(of(bucket[b.at]), preferFiles).files
  <2> DEFINE k == bucket[b.at]
  <2>1. /\ Cardinality(NewerUsed(S, bucket, k)) \in Nat
        /\ Cardinality(NewerUsed(T \cup S, bucket, k)) \in Nat
        /\ Cardinality(NewerUsed(S, bucket, k)) =< Cardinality(NewerUsed(T \cup S, bucket, k))
    BY <1>0, MoreUsed
  <2>2. Cardinality({j \in used : j > k}) < limit
    BY <1>1, <2>1 DEF NewerUsed
  <2>3. k \in {i \in used : Cardinality({j \in used : j > i}) < limit}
    BY <2>2
  <2>4. Favourite(of(k), preferFiles) \in Tier(S, limit, preferFiles, bucket)
    BY <2>3 DEF Tier
  <2>5. Told(of(k)) /\ b \in of(k) /\ of(k) # {}
    BY DEF Told
  <2>6. /\ Favourite(of(k), preferFiles) \in of(k)
        /\ preferFiles /\ (\E a \in of(k) : a.files) => Favourite(of(k), preferFiles).files
    BY <2>5, FavouriteIn
  <2> QED
    BY <2>4, <2>5, <2>6
<1> SUFFICES ASSUME NEW a \in T \cup S,
                    Cardinality(NewerUsed(T \cup S, bucket, bucket[a.at])) < limit
             PROVE  \E c \in (T \cup S) \cap K :
                       bucket[c.at] = bucket[a.at] /\ (preferFiles /\ a.files => c.files)
  BY DEF Represented
<1>2. \E b \in S : bucket[b.at] = bucket[a.at] /\ (preferFiles /\ a.files => b.files)
  <2>1. CASE a \in S
    BY <2>1
  <2>2. CASE a \in T
    <3>1. /\ Cardinality(NewerUsed(T, bucket, bucket[a.at])) \in Nat
          /\ Cardinality(NewerUsed(T \cup S, bucket, bucket[a.at])) \in Nat
          /\ Cardinality(NewerUsed(T, bucket, bucket[a.at]))
               =< Cardinality(NewerUsed(T \cup S, bucket, bucket[a.at]))
      BY <1>0, MoreUsed
    <3>2. Cardinality(NewerUsed(T, bucket, bucket[a.at])) < limit
      BY <3>1
    <3> QED
      BY <2>2, <3>2 DEF Represented
  <2> QED
    BY <2>1, <2>2
<1>3. PICK b \in S : bucket[b.at] = bucket[a.at] /\ (preferFiles /\ a.files => b.files)
  BY <1>2
<1> DEFINE c == Favourite(of(bucket[b.at]), preferFiles)
<1>4. c \in K /\ c \in of(bucket[b.at]) /\ (preferFiles /\ b.files => c.files)
  BY <1>1, <1>3
<1>5. c \in S /\ bucket[c.at] = bucket[b.at]
  BY <1>4
<1> QED
  BY <1>3, <1>4, <1>5

\* Of what prunes looked at, what is still there.
Stays == taken.archives \cap Candidates(local)

\* The newest hours, days and weeks of all that prunes looked at are there.
Represents(pol) ==
  /\ Represented(taken.archives, Stays, pol.hourly, FALSE, HourOf)
  /\ Represented(taken.archives, Stays, pol.daily, TRUE, DayOf)
  /\ Represented(taken.archives, Stays, pol.weekly, TRUE, WeekOf)

\* The files of one archive carry the attachments or all do not.
OneEach == \A a, b \in Scheduled : a.at = b.at => a.files = b.files

\* What prunes looked at is older than the archive that a pass writes, so that
\* nothing of it goes when that one cannot be encrypted.
Older(p) ==
  OnRun(p) /\ pc[p] \in Writing => \A a \in taken.archives : a.at < making[p].at

HistoryInv ==
  /\ PassInv
  /\ OneEach
  /\ \A a \in taken.archives : \E b \in Stays : b.at >= a.at
  /\ \A p \in Procs : Older(p)
  /\ \A pol \in Policies : taken.under \subseteq {pol} => Represents(pol)

\* A prune, a killed one too, has looked at the archives and shed some of them.
LEMMA PruneSheds ==
  ASSUME NEW p \in Procs, TypeInv, Does(p), pc[p] = "prune"
  PROVE  /\ Shed(p, local, local') /\ Looks(p)
         /\ pc'[p] \in {"idle", "pruneRemote"}
<1>1. Prune(p) \/ Crash(p)
  BY DEF Does, Step, StartRun, StartUser, Calls, LoadBenches, CheckDue, LockBench, Other, SkipStopped, Dump,
     CreateArchive, CloseArchive, Encrypt, Sidecar, Replace, Put, PutSidecar, Confirm,
     PruneRemote, Fail, At
<1>2. /\ Shed(p, local, local)
      /\ Shed(p, local, local \ Dropped(p, local))
      /\ \A gone \in Interrupted(Dropped(p, local)) : Shed(p, local, local \ gone)
  BY ShedAll
<1>3. \/ local' = local \/ local' = local \ Dropped(p, local)
      \/ \E gone \in Interrupted(Dropped(p, local)) : local' = local \ gone
  BY <1>1 DEF Prune, Crash
<1>4. Shed(p, local, local')
  BY <1>2, <1>3
<1>5. Looks(p)
  BY <1>1 DEF Prune, Crash, At
<1>6. Return(p) \/ Goes(p, "pruneRemote")
  BY <1>1 DEF Prune, Crash, Pruned
<1>7. pc'[p] \in {"idle", "pruneRemote"}
  BY <1>6 DEF Return, Goes, Goto, TypeInv, TypeOK
<1> QED
  BY <1>4, <1>5, <1>7

\* No other step is a prune's, and only those that write touch the archives.
LEMMA NoPrune ==
  ASSUME NEW p \in Procs, TypeInv, Does(p), pc[p] # "prune"
  PROVE  /\ taken'.archives = taken.archives /\ taken.under \subseteq taken'.under
         /\ pc[p] \notin Writing => local' = local
<1>1. taken' = taken \/ taken' = [taken EXCEPT !.under = @ \cup {seen[p]}]
  BY DEF Does, Step, StartRun, StartUser, LoadBenches, CheckDue, LockBench, Other, SkipStopped, Dump,
     CreateArchive, CloseArchive, Encrypt, Sidecar, Replace, Put, PutSidecar, Confirm, Prune,
     PruneRemote, Fail, Crash, At
<1>2. taken'.archives = taken.archives /\ taken.under \subseteq taken'.under
  BY <1>1 DEF TypeInv, TypeOK
<1>3. ASSUME pc[p] \notin Writing PROVE local' = local
  BY <1>3 DEF Does, Step, StartRun, StartUser, LoadBenches, CheckDue, LockBench, Other, SkipStopped,
     Dump, CreateArchive, CloseArchive, Encrypt, Sidecar, Replace, Put, PutSidecar, Confirm, Prune,
     PruneRemote, Fail, Crash, At, disk, Writing, Packing
<1> QED
  BY <1>2, <1>3

\* A pass that writes began with its dump, and writes that archive.
LEMMA WritesOn ==
  ASSUME NEW p \in Procs, TypeInv, Does(p), OnRun(p)', pc'[p] \in Writing
  PROVE  /\ OnRun(p)
         /\ \/ pc[p] \in Writing /\ making'[p] = making[p]
            \/ pc[p] = "dump" /\ making'[p].at = now
<1> USE DEF TypeInv, TypeOK
<1>1. ~Return(p)
  BY DEF Return, Writing, Packing
<1>2. \A step : Goto(p, step) => pc'[p] = step
  BY DEF Goto
<1>3. CASE Dump(p)
  <2>1. making'[p].at = now /\ job' = job
    BY <1>3 DEF Dump
  <2> QED
    BY <1>3, <2>1 DEF Dump, At, OnRun
<1>4. CASE \/ CreateArchive(p) \/ CloseArchive(p) \/ Encrypt(p) \/ Sidecar(p) \/ Replace(p)
           \/ Put(p) \/ PutSidecar(p) \/ Confirm(p)
  <2>1. making' = making /\ job' = job
    BY <1>1, <1>4 DEF CreateArchive, CloseArchive, Encrypt, Sidecar, Replace, Put, PutSidecar, Confirm,
       Goes, Stored
  <2>2. pc[p] \in Writing
    BY <1>4 DEF CreateArchive, CloseArchive, Encrypt, Sidecar, Replace, Put, PutSidecar, Confirm, At,
       Writing, Packing
  <2> QED
    BY <2>1, <2>2 DEF OnRun, Writing, Packing
<1>5. CASE StartRun(p) \/ StartUser(p) \/ LoadBenches(p) \/ CheckDue(p) \/ Prune(p)
  <2>1. Return(p) \/ \E step \in {"load", "lock", "check", "pruneRemote"} : Goto(p, step)
    BY <1>5 DEF StartRun, StartUser, LoadBenches, CheckDue, Prune, Pruned, Goes
  <2> QED
    BY <1>1, <1>2, <2>1 DEF Writing, Packing
<1>6. CASE LockBench(p)
  <2>1. pc'[p] = AfterLock(job[p].kind) \/ Return(p)
    BY <1>2, <1>6 DEF LockBench
  <2>2. job[p].kind \in {"run", "backup", "prune", "other"}
    BY <1>6 DEF LockBench, At, JobOK, Job
  <2> QED
    BY <1>1, <2>1, <2>2 DEF AfterLock, Writing, Packing
<1>7. CASE Other(p) \/ SkipStopped(p) \/ PruneRemote(p) \/ Fail(p) \/ Crash(p)
  BY <1>1, <1>7 DEF Other, SkipStopped, PruneRemote, Fail, Crash
<1> QED
  BY <1>3, <1>4, <1>5, <1>6, <1>7 DEF Does, Step

\* The archives have times, and those on disk and in a pass's hands have types.
LEMMA HistoryTypes ==
  ASSUME TypeInv
  PROVE  /\ local \in SUBSET Archive /\ taken.archives \in SUBSET Archive
         /\ \A a \in Archive : a.at \in Nat
         /\ Stays \subseteq Candidates(local) /\ Stays \subseteq taken.archives
         /\ Candidates(local) \subseteq Scheduled /\ Scheduled \subseteq local
BY RetentionAssumption DEF TypeInv, TypeOK, Archive, Times, Stays, Candidates, prunable, Scheduled

\* A pass at its dump is newer than all that prunes looked at.
LEMMA DumpsNewer ==
  ASSUME NEW p \in Procs, HistoryInv, OnRun(p), pc[p] = "dump"
  PROVE  \A a \in taken.archives : a.at < now
<1>1. TypeInv /\ IntervalOK(p)
  BY DEF HistoryInv, PassInv
<1>2. TAKE a \in taken.archives
<1>3. PICK b \in Stays : b.at >= a.at
  BY DEF HistoryInv
<1>4. b \in Scheduled /\ a.at \in Nat /\ b.at \in Nat
  BY <1>1, <1>3, HistoryTypes
<1>5. b.at + seen[p].every - Slack =< job[p].attempt /\ job[p].attempt =< now
  BY <1>1, <1>4 DEF IntervalOK, Mine
<1>6. /\ job[p].attempt \in Nat /\ now \in Nat /\ Slack \in Nat
      /\ seen[p].every \in Nat /\ seen[p].every > Slack
  BY <1>1, PassTypes
<1> QED
  BY <1>3, <1>4, <1>5, <1>6

\* The pass that goes on keeps Older, and the others do.
LEMMA OlderNext ==
  ASSUME NEW p \in Procs, HistoryInv, Does(p), pc[p] # "prune"
  PROVE  \A q \in Procs : Older(q)'
<1>1. TypeInv
  BY DEF HistoryInv, PassInv
<1>2. taken'.archives = taken.archives
  BY <1>1, NoPrune
<1>3. TAKE q \in Procs
<1>4. CASE q = p
  <2>1. SUFFICES ASSUME OnRun(p)', pc'[p] \in Writing
                 PROVE  \A a \in taken.archives : a.at < making'[p].at
    BY <1>2, <1>4 DEF Older
  <2>2. CASE OnRun(p) /\ pc[p] \in Writing /\ making'[p] = making[p]
    BY <2>2 DEF HistoryInv, Older
  <2>3. CASE OnRun(p) /\ pc[p] = "dump" /\ making'[p].at = now
    BY <2>3, DumpsNewer
  <2> QED
    BY <1>1, <2>1, <2>2, <2>3, WritesOn
<1>5. CASE q # p
  <2>1. pc'[q] = pc[q] /\ job'[q] = job[q] /\ making'[q] = making[q]
    BY <1>1, <1>5, DoesKeep DEF Kept, Alone
  <2> QED
    BY <1>2, <2>1 DEF HistoryInv, Older, OnRun
<1> QED
  BY <1>4, <1>5

\* What a pass writes, and takes away again, is newer than all others and than
\* what prunes looked at.
LEMMA WritesNewer ==
  ASSUME NEW p \in Procs, HistoryInv, Does(p), OnRun(p), pc[p] \in Writing
  PROVE  OneEach' /\ Stays \subseteq Stays'
<1>1. TypeInv /\ IntervalOK(p) /\ Older(p) /\ OneEach
  BY DEF HistoryInv, PassInv
<1>2. making[p] # None /\ making[p] \in Archive
  BY <1>1 DEF TypeInv, JobOK, MakingOK
<1>3. Files(p) = {Plain(p), Age(p), Headless(p)}
  BY <1>2 DEF Files
<1>4. /\ \A a \in Files(p) : a.at = making[p].at
      /\ making[p].at \in Nat
  BY <1>2, <1>3, FilesType, RetentionAssumption DEF Archive, Times
<1>5. \A a \in Files(p) : a.files = making[p].files
  BY <1>2, <1>3 DEF Plain, Age, Headless, Archive
<1>6. local' \subseteq local \cup Files(p) /\ local \ local' \subseteq Files(p)
  BY <1>1, TendsLocal DEF Tends, Writing, Packing
<1>7. \A a \in Scheduled : a \in Files(p) \/ a.at < making[p].at
  <2>1. Mine(p) \subseteq Files(p)
    BY <1>3 DEF Mine
  <2> QED
    BY <1>1, <1>2, <2>1, Newer
<1>8. OneEach'
  <2> SUFFICES ASSUME NEW a \in Scheduled', NEW b \in Scheduled', a.at = b.at
               PROVE  a.files = b.files
    BY DEF OneEach
  <2>1. (a \in Scheduled \/ a \in Files(p)) /\ (b \in Scheduled \/ b \in Files(p))
    BY <1>6 DEF Scheduled
  <2>2. CASE a \in Scheduled /\ b \in Scheduled
    BY <1>1, <2>2 DEF OneEach
  <2>3. CASE a \in Files(p) \/ b \in Files(p)
    <3>1. a.at = making[p].at /\ b.at = making[p].at
      BY <1>4, <2>3
    <3>2. a \in Files(p) /\ b \in Files(p)
      BY <1>4, <1>7, <2>1, <3>1
    <3> QED
      BY <1>5, <3>2
  <2> QED
    BY <2>1, <2>2, <2>3
<1>9. Stays \subseteq Stays'
  <2> SUFFICES ASSUME NEW a \in Stays PROVE a \in Stays'
    OBVIOUS
  <2>1. a \in taken.archives /\ a \in Candidates(local) /\ a.at \in Nat
    BY <1>1, HistoryTypes
  <2>2. a.at < making[p].at
    BY <1>1, <2>1 DEF Older
  <2>3. a \notin Files(p)
    BY <1>4, <2>1, <2>2
  <2>4. a \in Candidates(local')
    BY <1>6, <2>1, <2>3 DEF Candidates
  <2>5. taken'.archives = taken.archives
    BY <1>1, NoPrune DEF Writing, Packing
  <2> QED
    BY <2>1, <2>4, <2>5 DEF Stays
<1> QED
  BY <1>8, <1>9

\* Every step but a prune's leaves what prunes looked at, and what stays of it.
LEMMA StaysNext ==
  ASSUME NEW p \in Procs, HistoryInv, Does(p), pc[p] # "prune"
  PROVE  /\ OneEach' /\ Stays \subseteq Stays'
         /\ taken'.archives = taken.archives /\ taken.under \subseteq taken'.under
<1>1. TypeInv /\ OneEach
  BY DEF HistoryInv, PassInv
<1>2. taken'.archives = taken.archives /\ taken.under \subseteq taken'.under
  BY <1>1, NoPrune
<1>3. CASE OnRun(p) /\ pc[p] \in Writing
  BY <1>2, <1>3, WritesNewer
<1>4. CASE ~(OnRun(p) /\ pc[p] \in Writing)
  <2>1. Scheduled' = Scheduled /\ Candidates(local') = Candidates(local)
    <3>1. CASE pc[p] \notin Writing
      <4>1. local' = local
        BY <1>1, <3>1, NoPrune
      <4> QED
        BY <4>1 DEF Scheduled
    <3>2. CASE ~OnRun(p)
      BY <1>1, <3>2, ManualStep
    <3> QED
      BY <1>4, <3>1, <3>2
  <2>2. Candidates(local)' = Candidates(local)
    BY <2>1 DEF Candidates
  <2> QED
    BY <1>1, <1>2, <2>1, <2>2 DEF OneEach, Stays
<1> QED
  BY <1>3, <1>4

\* The more stays, the more is represented.
LEMMA MoreRepresents ==
  ASSUME HistoryInv, Stays \subseteq Stays',
         taken'.archives = taken.archives, taken.under \subseteq taken'.under
  PROVE  /\ \A a \in taken'.archives : \E b \in Stays' : b.at >= a.at
         /\ \A pol \in Policies : taken'.under \subseteq {pol} => Represents(pol)'
<1>1. \A a \in taken'.archives : \E b \in Stays' : b.at >= a.at
  BY DEF HistoryInv
<1>2. ASSUME NEW pol \in Policies, taken'.under \subseteq {pol} PROVE Represents(pol)'
  <2>1. Represents(pol)
    BY <1>2 DEF HistoryInv
  <2>2. /\ Represented(taken'.archives, Stays', pol.hourly, FALSE, HourOf)
        /\ Represented(taken'.archives, Stays', pol.daily, TRUE, DayOf)
        /\ Represented(taken'.archives, Stays', pol.weekly, TRUE, WeekOf)
    BY <2>1 DEF Represents, Represented
  <2> QED
    BY <2>2 DEF Represents
<1> QED
  BY <1>1, <1>2

\* The archives that a prune looks at are Told.
LEMMA LooksTold ==
  ASSUME HistoryInv
  PROVE  Told(Candidates(local))
<1>1. TypeInv /\ OneEach
  BY DEF HistoryInv, PassInv
<1>2. Candidates(local) \subseteq Scheduled /\ Candidates(local) \in SUBSET Archive
  BY <1>1, HistoryTypes
<1> QED
  BY <1>1, <1>2 DEF Told, OneEach, Candidates

\* What a tier keeps is one of the archives.
LEMMA TierIn ==
  ASSUME NEW S, Told(S), NEW limit, NEW preferFiles \in BOOLEAN, NEW bucket
  PROVE  Tier(S, limit, preferFiles, bucket) \subseteq S
<1> SUFFICES ASSUME NEW f \in Tier(S, limit, preferFiles, bucket) PROVE f \in S
  OBVIOUS
<1> DEFINE of(k) == {a \in S : bucket[a.at] = k}
<1>1. PICK b \in S : f = Favourite(of(bucket[b.at]), preferFiles)
  BY DEF Tier
<1>2. Told(of(bucket[b.at])) /\ b \in of(bucket[b.at])
  BY DEF Told
<1>3. f \in of(bucket[b.at])
  BY <1>1, <1>2, FavouriteIn
<1> QED
  BY <1>3

\* What a prune keeps under the policy that all prunes followed represents all
\* that they looked at.
LEMMA PruneRepresents ==
  ASSUME NEW p \in Procs, HistoryInv, Does(p), pc[p] = "prune",
         NEW pol \in Policies, taken'.under \subseteq {pol}
  PROVE  Represents(pol)'
<1> DEFINE S == Candidates(local)
           T == taken.archives
           K == Candidates(local')
<1>1. TypeInv /\ Told(S)
  BY LooksTold DEF HistoryInv, PassInv
<1>2. Shed(p, local, local') /\ Looks(p)
  BY <1>1, PruneSheds
<1>3. taken'.archives = T \cup S /\ taken'.under = taken.under \cup {seen[p]}
  BY <1>2 DEF Looks
<1>4. seen[p] = pol /\ taken.under \subseteq {pol}
  BY <1>3
<1>5. Represents(pol)
  BY <1>4 DEF HistoryInv
<1>6. /\ T \in SUBSET Archive
      /\ pol.hourly \in Nat /\ pol.daily \in Nat /\ pol.weekly \in Nat
      /\ Calendar(HourOf) /\ Calendar(DayOf) /\ Calendar(WeekOf)
  BY <1>1, HistoryTypes, ScheduleAssumption, RetentionAssumption DEF Policy
<1>7. selectRetained(S, pol) \cap S \subseteq K
  BY <1>2, <1>4 DEF Shed, Dropped, Candidates
<1>8. /\ Tier(S, pol.hourly, FALSE, HourOf) \subseteq K
      /\ Tier(S, pol.daily, TRUE, DayOf) \subseteq K
      /\ Tier(S, pol.weekly, TRUE, WeekOf) \subseteq K
  <2>1. /\ Tier(S, pol.hourly, FALSE, HourOf) \subseteq S
        /\ Tier(S, pol.daily, TRUE, DayOf) \subseteq S
        /\ Tier(S, pol.weekly, TRUE, WeekOf) \subseteq S
    BY <1>1, TierIn
  <2> QED
    BY <1>7, <2>1 DEF selectRetained
<1>9. /\ Represented(T, T \cap S, pol.hourly, FALSE, HourOf)
      /\ Represented(T, T \cap S, pol.daily, TRUE, DayOf)
      /\ Represented(T, T \cap S, pol.weekly, TRUE, WeekOf)
  BY <1>5 DEF Represents, Stays
<1> HIDE DEF S, T, K
<1>10. /\ Represented(T \cup S, (T \cup S) \cap K, pol.hourly, FALSE, HourOf)
       /\ Represented(T \cup S, (T \cup S) \cap K, pol.daily, TRUE, DayOf)
       /\ Represented(T \cup S, (T \cup S) \cap K, pol.weekly, TRUE, WeekOf)
  BY <1>1, <1>6, <1>8, <1>9, TierKeeps
<1>11. Stays' = (T \cup S) \cap K
  BY <1>3 DEF Stays, K, Candidates
<1> QED
  BY <1>3, <1>10, <1>11 DEF Represents

\* A prune keeps HistoryInv.
LEMMA PruneHistory ==
  ASSUME NEW p \in Procs, HistoryInv, Does(p), pc[p] = "prune"
  PROVE  HistoryInv'
<1>1. TypeInv /\ PassInv'
  BY DoesPass DEF HistoryInv, PassInv
<1>2. Shed(p, local, local') /\ Looks(p) /\ pc'[p] \in {"idle", "pruneRemote"}
  BY <1>1, PruneSheds
<1>3. OneEach'
  BY <1>2 DEF HistoryInv, OneEach, Shed, Scheduled
<1>4. taken'.archives = taken.archives \cup Candidates(local)
  BY <1>2 DEF Looks
<1>5. ASSUME NEW a \in taken'.archives PROVE \E m \in Stays' : m.at >= a.at
  <2>1. \E b \in Candidates(local) : b.at >= a.at
    <3>1. CASE a \in taken.archives
      <4>1. \E b \in Stays : b.at >= a.at
        BY <3>1 DEF HistoryInv
      <4> QED
        BY <4>1 DEF Stays
    <3>2. CASE a \in Candidates(local)
      <4>1. a.at \in Nat
        BY <1>1, <3>2, HistoryTypes
      <4> QED
        BY <3>2, <4>1
    <3> QED
      BY <1>4, <3>1, <3>2
  <2>2. PICK b \in Candidates(local) : b.at >= a.at
    BY <2>1
  <2>3. PICK m \in Candidates(local') : m.at >= b.at
    BY <1>1, <1>2, ShedCovers
  <2>4. m \in Candidates(local)
    BY <1>2, <2>3 DEF Shed, Candidates
  <2>5. m \in Stays'
    BY <1>4, <2>3, <2>4 DEF Stays, Candidates
  <2>6. a \in Archive /\ b \in Archive /\ m \in Archive
    BY <1>1, <1>4, <2>2, <2>4, HistoryTypes
  <2>7. a.at \in Nat /\ b.at \in Nat /\ m.at \in Nat
    BY <1>1, <2>6, HistoryTypes
  <2> QED
    BY <2>2, <2>3, <2>5, <2>7
<1>6. ASSUME NEW q \in Procs PROVE Older(q)'
  <2>1. pc'[q] \notin Writing
    <3>1. CASE q = p
      BY <1>2, <3>1 DEF Writing, Packing
    <3>2. CASE q # p
      <4>1. pc'[q] = pc[q]
        BY <1>1, <3>2, DoesKeep DEF Kept, Alone
      <4>2. pc[q] \notin Holding
        BY <1>1, <3>2, OneHolder DEF Holding
      <4> QED
        BY <4>1, <4>2 DEF Writing, Packing, Holding
    <3> QED
      BY <3>1, <3>2
  <2> QED
    BY <2>1 DEF Older
<1> QED
  BY <1>1, <1>3, <1>5, <1>6, PruneRepresents DEF HistoryInv

\* HistoryInv is inductive.
LEMMA NextHistory ==
  ASSUME HistoryInv, [Next]_vars
  PROVE  HistoryInv'
<1>1. PassInv'
  BY NextPass DEF HistoryInv
<1>2. ASSUME NEW p \in Procs, Does(p), pc[p] # "prune" PROVE HistoryInv'
  <2>1. /\ OneEach' /\ Stays \subseteq Stays'
        /\ taken'.archives = taken.archives /\ taken.under \subseteq taken'.under
    BY <1>2, StaysNext
  <2>2. \A q \in Procs : Older(q)'
    BY <1>2, OlderNext
  <2> QED
    BY <1>1, <2>1, <2>2, MoreRepresents DEF HistoryInv
<1>3. CASE Tick \/ SetBackupSchedule \/ UNCHANGED vars
  <2>1. local' = local /\ taken' = taken /\ pc' = pc /\ job' = job /\ making' = making
    BY <1>3 DEF Tick, SetBackupSchedule, vars, disk, process
  <2>2. Scheduled' = Scheduled /\ Stays' = Stays
    BY <2>1 DEF Scheduled, Stays, Candidates
  <2>3. OneEach' /\ \A q \in Procs : Older(q)'
    BY <2>1, <2>2 DEF HistoryInv, OneEach, Older, OnRun
  <2> QED
    BY <1>1, <2>1, <2>2, <2>3, MoreRepresents DEF HistoryInv
<1> QED
  BY <1>2, <1>3, NextIs, PruneHistory

\* It holds at the start.
LEMMA InitHistory == Init => HistoryInv
<1> SUFFICES ASSUME Init PROVE HistoryInv
  OBVIOUS
<1>1. Scheduled = {} /\ taken.archives = {} /\ \A p \in Procs : ~OnRun(p)
  BY DEF Init, Scheduled, OnRun
<1>2. OneEach /\ \A p \in Procs : Older(p)
  BY <1>1 DEF OneEach, Older
<1>3. \A pol \in Policies : Represents(pol)
  BY <1>1 DEF Represents, Represented
<1> QED
  BY <1>1, <1>2, <1>3, InitPass DEF HistoryInv

\* What represents a tier keeps it.
LEMMA HistoryKeeps == HistoryInv => HistoryKept
<1> SUFFICES ASSUME HistoryInv, NEW pol \in Policies, taken.under \subseteq {pol}
             PROVE  /\ KeepsTier(pol.hourly, FALSE, HourOf)
                    /\ KeepsTier(pol.daily, TRUE, DayOf)
                    /\ KeepsTier(pol.weekly, TRUE, WeekOf)
  BY DEF HistoryKept
<1>1. Represents(pol)
  BY DEF HistoryInv
<1>2. ASSUME NEW limit, NEW preferFiles, NEW bucket,
             Represented(taken.archives, Stays, limit, preferFiles, bucket)
      PROVE  KeepsTier(limit, preferFiles, bucket)
  BY <1>2 DEF Represented, KeepsTier, NewerUsed, Stays
<1> QED
  BY <1>1, <1>2 DEF Represents

\* As long as all passes and prunes followed one policy, whatever its limits, and
\* however many prunes there were, completed, failed half-way or killed: each of
\* the newest hours, days and weeks with a scheduled archive still has one, with
\* the attachments if any archive of that day or week had them.
THEOREM NewestStay == Spec => []HistoryKept
<1>1. HistoryInv /\ [Next]_vars => HistoryInv'
  BY NextHistory
<1> QED
  BY <1>1, InitHistory, HistoryKeeps, PTL DEF Spec

-----------------------------------------------------------------------------
(* The loop of selectRetained chooses what its comment says *)

\* Every non-empty set of natural numbers has a least element.
LEMMA LeastNumber ==
  ASSUME NEW T \in SUBSET Nat, T # {}
  PROVE  \E x \in T : \A y \in T : x <= y
<1>1. IsWellFoundedOn(OpToRel(<, Nat), Nat)
  BY NatLessThanWellFounded
<1>2. PICK x \in T : \A y \in T : ~(<<y, x>> \in OpToRel(<, Nat))
  BY <1>1, WFMin, Zenon
<1>3. \A y \in T : ~(y < x)
  BY <1>2 DEF OpToRel
<1> QED
  BY <1>3

\* What is listed before a.
Ahead(S, a) == {b \in S : Before(b, a)}

\* The n first of the list.
Leading(S, n) == {a \in S : Cardinality(Ahead(S, a)) < n}

\* More is ahead of one that is listed later.
LEMMA AheadGrows ==
  ASSUME NEW S, Told(S), IsFiniteSet(S), NEW a \in S, NEW b \in S, Before(a, b)
  PROVE  /\ Cardinality(Ahead(S, a)) \in Nat /\ Cardinality(Ahead(S, b)) \in Nat
         /\ Cardinality(Ahead(S, a)) < Cardinality(Ahead(S, b))
<1>1. IsFiniteSet(Ahead(S, a)) /\ IsFiniteSet(Ahead(S, b))
  <2>1. Ahead(S, a) \in SUBSET S /\ Ahead(S, b) \in SUBSET S
    BY DEF Ahead
  <2> QED
    BY <2>1, FS_Subset
<1>2. Cardinality(Ahead(S, a)) \in Nat /\ Cardinality(Ahead(S, b)) \in Nat
  BY <1>1, FS_CardinalityType
<1>3. a \notin Ahead(S, a)
  BY OneBefore DEF Ahead
<1>4. Cardinality(Ahead(S, a) \cup {a}) = Cardinality(Ahead(S, a)) + 1
  BY <1>1, <1>3, FS_AddElement
<1>5. Ahead(S, a) \cup {a} \in SUBSET Ahead(S, b)
  <2>1. \A c \in Archive : Before(c, a) => Before(c, b)
    BY BeforeTransitive DEF Told
  <2> QED
    BY <2>1 DEF Ahead, Told
<1>6. Cardinality(Ahead(S, a) \cup {a}) =< Cardinality(Ahead(S, b))
  BY <1>1, <1>5, FS_Subset
<1> QED
  BY <1>2, <1>4, <1>6

\* The next of the list is behind all before it.
LEMMA NthNext ==
  ASSUME NEW S, Told(S), IsFiniteSet(S), NEW n \in Nat, n < Cardinality(S),
         Cardinality(Leading(S, n)) = n
  PROVE  /\ Nth(S, n + 1) \in S \ Leading(S, n)
         /\ Leading(S, n + 1) = Leading(S, n) \cup {Nth(S, n + 1)}
         /\ Cardinality(Leading(S, n + 1)) = n + 1
         /\ \A b \in Leading(S, n) : Before(b, Nth(S, n + 1))
<1> DEFINE V == Leading(S, n)
           rest == S \ V
<1>0. V \in SUBSET S /\ IsFiniteSet(V) /\ Cardinality(S) \in Nat
  <2>1. V \in SUBSET S
    BY DEF Leading
  <2> QED
    BY <2>1, FS_Subset, FS_CardinalityType
<1>1. rest # {} /\ Told(rest)
  BY <1>0 DEF Told
<1> DEFINE a == First(rest)
<1>2. a \in rest /\ \A b \in rest \ {a} : Before(a, b)
  BY <1>1, FirstLeads
<1>3. \A b \in S : Cardinality(Ahead(S, b)) \in Nat
  <2> SUFFICES ASSUME NEW b \in S PROVE Cardinality(Ahead(S, b)) \in Nat
    OBVIOUS
  <2>1. Ahead(S, b) \in SUBSET S
    BY DEF Ahead
  <2> QED
    BY <2>1, FS_Subset, FS_CardinalityType
<1> HIDE DEF a
<1>4. \A b \in V : Before(b, a)
  <2> SUFFICES ASSUME NEW b \in V, ~Before(b, a) PROVE FALSE
    OBVIOUS
  <2>1. Before(a, b)
    BY <1>0, <1>2, OneBefore
  <2>2. Cardinality(Ahead(S, a)) < Cardinality(Ahead(S, b)) /\ Cardinality(Ahead(S, b)) < n
    BY <1>0, <1>2, <2>1, AheadGrows DEF Leading
  <2> QED
    BY <1>2, <1>3, <2>2 DEF Leading
<1>5. Ahead(S, a) = V
  <2>1. ASSUME NEW b \in S, Before(b, a) PROVE b \in V
    BY <1>2, <2>1, OneBefore
  <2> QED
    BY <1>0, <1>4, <2>1 DEF Ahead
<1>6. Cardinality(Ahead(S, a)) = n
  BY <1>5
<1>7. ASSUME NEW c \in S, c # a, c \notin V PROVE Cardinality(Ahead(S, c)) > n
  <2>1. Before(a, c)
    BY <1>2, <1>7
  <2> QED
    BY <1>2, <1>6, <2>1, AheadGrows
<1>8. Nth(S, n + 1) = a
  <2>1. \A c \in S : Cardinality(Ahead(S, c)) = n => c = a
    BY <1>7 DEF Leading
  <2>2. Nth(S, n + 1) = CHOOSE c \in S : Cardinality(Ahead(S, c)) = n
    BY DEF Nth, Ahead
  <2> QED
    BY <1>2, <1>6, <2>1, <2>2
<1>9. Leading(S, n + 1) = V \cup {a}
  <2>1. \A c \in S : Cardinality(Ahead(S, c)) < n + 1 <=> c \in V \/ c = a
    BY <1>2, <1>3, <1>6, <1>7 DEF Leading
  <2> QED
    BY <1>0, <1>2, <2>1 DEF Leading
<1>10. Cardinality(V \cup {a}) = n + 1
  BY <1>0, <1>2, FS_AddElement
<1> QED
  BY <1>2, <1>4, <1>8, <1>9, <1>10

\* One more archive at the end of the list takes a bucket only by its
\* attachments.
LEMMA FavouriteLast ==
  ASSUME NEW X, NEW a, Told(X \cup {a}), X # {}, \A b \in X : Before(b, a), NEW preferFiles \in BOOLEAN
  PROVE  Favourite(X \cup {a}, preferFiles) =
           IF preferFiles /\ a.files /\ ~Favourite(X, preferFiles).files THEN a ELSE Favourite(X, preferFiles)
<1> DEFINE withFiles(Y) == {b \in Y : b.files}
<1>0. a \notin X /\ Told(X) /\ a.files \in BOOLEAN
  <2>1. a \notin X
    BY OneBefore
  <2> QED
    BY <2>1 DEF Told, Archive
<1>1. ASSUME NEW Y \in SUBSET X, Y # {} PROVE First(Y \cup {a}) = First(Y) /\ First(Y) \in Y
  <2>1. Told(Y) /\ Told(Y \cup {a})
    BY <1>1 DEF Told
  <2>2. First(Y) \in Y /\ \A b \in Y \ {First(Y)} : Before(First(Y), b)
    BY <1>1, <2>1, FirstLeads
  <2>3. \A b \in (Y \cup {a}) \ {First(Y)} : Before(First(Y), b)
    BY <1>1, <2>2
  <2> QED
    BY <2>1, <2>2, <2>3, FirstIs
<1>2. First({a}) = a
  <2>1. Told({a})
    BY DEF Told
  <2> QED
    BY <2>1, FirstLeads
<1>3. CASE ~preferFiles
  BY <1>1, <1>3 DEF Favourite
<1>4. CASE preferFiles /\ a.files /\ withFiles(X) = {}
  <2>1. withFiles(X \cup {a}) = {a}
    BY <1>4
  <2>2. Favourite(X \cup {a}, preferFiles) = a
    BY <1>2, <1>4, <2>1 DEF Favourite
  <2>3. ~Favourite(X, preferFiles).files
    BY <1>0, <1>4, FavouriteIn
  <2> QED
    BY <1>4, <2>2, <2>3
<1>5. CASE preferFiles /\ a.files /\ withFiles(X) # {}
  <2>1. withFiles(X \cup {a}) = withFiles(X) \cup {a}
    BY <1>5
  <2>2. Favourite(X \cup {a}, preferFiles) = First(withFiles(X) \cup {a})
    BY <1>5, <2>1 DEF Favourite
  <2>3. Favourite(X, preferFiles) = First(withFiles(X))
    BY <1>5 DEF Favourite
  <2>4. /\ First(withFiles(X) \cup {a}) = First(withFiles(X))
        /\ First(withFiles(X)) \in withFiles(X)
    BY <1>1, <1>5
  <2> QED
    BY <2>2, <2>3, <2>4
<1>6. CASE preferFiles /\ ~a.files
  <2>1. withFiles(X \cup {a}) = withFiles(X)
    BY <1>6
  <2>2. CASE withFiles(X) # {}
    BY <1>6, <2>1, <2>2 DEF Favourite
  <2>3. CASE withFiles(X) = {}
    <3>1. Favourite(X \cup {a}, preferFiles) = First(X \cup {a}) /\ Favourite(X, preferFiles) = First(X)
      BY <2>1, <2>3 DEF Favourite
    <3> QED
      BY <1>1, <1>6, <3>1
  <2> QED
    BY <2>2, <2>3
<1> QED
  BY <1>0, <1>3, <1>4, <1>5, <1>6

\* The buckets of some archives, those of a bucket, and the buckets that a tier
\* keeps.
Used(V, bucket)        == {bucket[b.at] : b \in V}
Of(V, bucket, k)       == {b \in V : bucket[b.at] = k}
KeptBuckets(V, limit, bucket) == {k \in Used(V, bucket) : Cardinality(NewerUsed(V, bucket, k)) < limit}

LEMMA TierIs ==
  ASSUME NEW V, NEW limit, NEW preferFiles, NEW bucket
  PROVE  Tier(V, limit, preferFiles, bucket) =
           {Favourite(Of(V, bucket, k), preferFiles) : k \in KeptBuckets(V, limit, bucket)}
BY DEF Tier, Used, Of, KeptBuckets, NewerUsed

\* They are finitely many, and one of them has fewer newer ones.
LEMMA UsedFinite ==
  ASSUME NEW V \in SUBSET Archive, NEW bucket, Calendar(bucket)
  PROVE  /\ IsFiniteSet(Used(V, bucket)) /\ Cardinality(Used(V, bucket)) \in Nat
         /\ Used(V, bucket) \subseteq Nat
         /\ \A k \in Used(V, bucket) : /\ Cardinality(NewerUsed(V, bucket, k)) \in Nat
                                       /\ Cardinality(NewerUsed(V, bucket, k)) < Cardinality(Used(V, bucket))
<1>1. MaxTime \in Times /\ \A t \in Times : t =< MaxTime
  BY RetentionAssumption DEF Times
<1>2. /\ bucket[MaxTime] \in Nat
      /\ \A t \in Times : bucket[t] \in Nat /\ bucket[t] =< bucket[MaxTime]
  BY <1>1 DEF Calendar
<1>3. \A b \in V : b.at \in Times
  BY DEF Archive
<1>4. Used(V, bucket) \in SUBSET (0..bucket[MaxTime])
  BY <1>2, <1>3 DEF Used
<1>5. IsFiniteSet(0..bucket[MaxTime])
  <2>1. 0 \in Int /\ bucket[MaxTime] \in Int
    BY <1>2
  <2> QED
    BY <2>1, FS_Interval
<1>6. IsFiniteSet(Used(V, bucket)) /\ Cardinality(Used(V, bucket)) \in Nat
  BY <1>4, <1>5, FS_Subset, FS_CardinalityType
<1>7. Used(V, bucket) \subseteq Nat
  BY <1>2, <1>4
<1>8. ASSUME NEW k \in Used(V, bucket)
      PROVE  /\ Cardinality(NewerUsed(V, bucket, k)) \in Nat
             /\ Cardinality(NewerUsed(V, bucket, k)) < Cardinality(Used(V, bucket))
  <2>1. NewerUsed(V, bucket, k) \in SUBSET (Used(V, bucket) \ {k})
    BY <1>7 DEF NewerUsed, Used
  <2>2. /\ IsFiniteSet(Used(V, bucket) \ {k})
        /\ Cardinality(Used(V, bucket) \ {k}) = Cardinality(Used(V, bucket)) - 1
    BY <1>6, FS_RemoveElement
  <2>3. /\ Cardinality(NewerUsed(V, bucket, k)) =< Cardinality(Used(V, bucket) \ {k})
        /\ Cardinality(NewerUsed(V, bucket, k)) \in Nat
    BY <2>1, <2>2, FS_Subset, FS_CardinalityType
  <2> QED
    BY <1>6, <2>2, <2>3
<1> QED
  BY <1>6, <1>7, <1>8

\* What the loop has chosen of the archives V: what the tier keeps of them.  It
\* is done as soon as they are of more buckets than the tier keeps.
ChosenOf(pass, V, limit, preferFiles, bucket) ==
  /\ pass \in [chosen : SUBSET V, done : BOOLEAN]
  /\ pass.chosen = Tier(V, limit, preferFiles, bucket)
  /\ pass.done <=> Cardinality(Used(V, bucket)) > limit
  /\ ~pass.done => Cardinality(pass.chosen) = Cardinality(Used(V, bucket))

\* The next archive of the list.
LEMMA VisitChosen ==
  ASSUME NEW V, NEW a, Told(V \cup {a}), IsFiniteSet(V), \A b \in V : Before(b, a),
         NEW limit \in Nat, NEW preferFiles \in BOOLEAN, NEW bucket, Calendar(bucket),
         NEW pass, ChosenOf(pass, V, limit, preferFiles, bucket)
  PROVE  ChosenOf(Visit(limit, preferFiles, bucket, pass, a), V \cup {a}, limit, preferFiles, bucket)
<1> DEFINE W     == V \cup {a}
           k     == bucket[a.at]
           next  == Visit(limit, preferFiles, bucket, pass, a)
           same  == {c \in pass.chosen : bucket[c.at] = k}
           U     == Used(V, bucket)
           fav(j) == Favourite(Of(V, bucket, j), preferFiles)
<1>1. /\ V \in SUBSET Archive /\ W \in SUBSET Archive /\ a \in Archive /\ Told(V) /\ a \notin V
  <2>1. a \notin V
    BY OneBefore
  <2> QED
    BY <2>1 DEF Told
<1>2. /\ IsFiniteSet(U) /\ Cardinality(U) \in Nat /\ U \subseteq Nat
      /\ Used(W, bucket) = U \cup {k} /\ Used(W, bucket) \subseteq Nat
      /\ IsFiniteSet(Used(W, bucket)) /\ Cardinality(Used(W, bucket)) \in Nat /\ k \in Nat
  <2>1. Used(W, bucket) = U \cup {k}
    BY DEF Used
  <2> QED
    BY <1>1, <2>1, UsedFinite
<1>3. \A j \in U : k =< j
  <2> SUFFICES ASSUME NEW b \in V PROVE k =< bucket[b.at]
    BY DEF Used
  <2>1. a.at \in Times /\ b.at \in Times /\ a.at =< b.at
    BY <1>1, RetentionAssumption DEF Before, Archive, Times
  <2> QED
    BY <2>1 DEF Calendar
<1>4. ASSUME NEW j \in U PROVE NewerUsed(W, bucket, j) = NewerUsed(V, bucket, j)
  <2>1. NewerUsed(W, bucket, j) = {i \in U \cup {k} : i > j} /\ NewerUsed(V, bucket, j) = {i \in U : i > j}
    BY <1>2 DEF NewerUsed, Used
  <2>2. k =< j /\ k \in Nat /\ j \in Nat
    BY <1>2, <1>3
  <2> HIDE DEF U, k, W
  <2>3. ~(k > j)
    BY <2>2
  <2>4. {i \in U \cup {k} : i > j} = {i \in U : i > j}
    BY <2>3
  <2> QED
    BY <2>1, <2>4
<1>5. \A j \in U \ {k} : Of(W, bucket, j) = Of(V, bucket, j)
  BY DEF Of
<1>6. ASSUME NEW j \in U PROVE /\ fav(j) \in V /\ bucket[fav(j).at] = j
                               /\ fav(j) \in Of(V, bucket, j)
  <2>1. Of(V, bucket, j) # {} /\ Told(Of(V, bucket, j))
    BY <1>1 DEF Of, Used, Told
  <2>2. fav(j) \in Of(V, bucket, j)
    BY <2>1, FavouriteIn
  <2> QED
    BY <2>2 DEF Of
<1>7. /\ pass.chosen = {fav(j) : j \in KeptBuckets(V, limit, bucket)}
      /\ KeptBuckets(V, limit, bucket) \subseteq U
      /\ pass \in [chosen : SUBSET V, done : BOOLEAN]
      /\ pass.done <=> Cardinality(U) > limit
      /\ ~pass.done => Cardinality(pass.chosen) = Cardinality(U)
      /\ pass.chosen \in SUBSET V /\ IsFiniteSet(pass.chosen)
  <2>1. pass.chosen = {fav(j) : j \in KeptBuckets(V, limit, bucket)}
    BY TierIs DEF ChosenOf
  <2>2. KeptBuckets(V, limit, bucket) \subseteq U
    BY DEF KeptBuckets
  <2>3. pass.chosen \in SUBSET V /\ IsFiniteSet(pass.chosen)
    BY FS_Subset DEF ChosenOf
  <2> QED
    BY <2>1, <2>2, <2>3 DEF ChosenOf
<1>8. Tier(W, limit, preferFiles, bucket) =
        {Favourite(Of(W, bucket, j), preferFiles) : j \in KeptBuckets(W, limit, bucket)}
  BY TierIs
<1>9. KeptBuckets(W, limit, bucket) \ {k} = KeptBuckets(V, limit, bucket) \ {k}
  BY <1>2, <1>4 DEF KeptBuckets
<1>10. next \in [chosen : SUBSET W, done : BOOLEAN]
  <2>1. same \in SUBSET V
    BY <1>7
  <2> QED
    BY <1>7, <2>1 DEF Visit
<1> HIDE DEF U, W, k, fav, next
\* The bucket is one too many.
<1>11. CASE k \notin KeptBuckets(W, limit, bucket) /\ k \notin KeptBuckets(V, limit, bucket)
            /\ next.done /\ next.chosen = pass.chosen /\ Cardinality(Used(W, bucket)) > limit
  <2>1. KeptBuckets(W, limit, bucket) = KeptBuckets(V, limit, bucket)
    BY <1>9, <1>11
  <2>2. \A j \in KeptBuckets(V, limit, bucket) : Favourite(Of(W, bucket, j), preferFiles) = fav(j)
    BY <1>5, <1>7, <1>11 DEF fav
  <2>3. Tier(W, limit, preferFiles, bucket) = pass.chosen
    BY <1>7, <1>8, <2>1, <2>2
  <2> QED
    BY <1>10, <1>11, <2>3 DEF ChosenOf, next, W
<1>12. CASE k \notin U
  <2>1. NewerUsed(W, bucket, k) = U
    <3>1. NewerUsed(W, bucket, k) = {i \in U \cup {k} : i > k}
      BY <1>2 DEF NewerUsed, Used
    <3>2. \A i \in U : i > k
      BY <1>2, <1>3, <1>12
    <3>3. ~(k > k)
      BY <1>2
    <3>4. {i \in U \cup {k} : i > k} = U
      BY <3>2, <3>3
    <3> QED
      BY <3>1, <3>4
  <2>2. Cardinality(Used(W, bucket)) = Cardinality(U) + 1
    BY <1>2, <1>12, FS_AddElement
  <2>3. k \notin KeptBuckets(V, limit, bucket) /\ same = {}
    BY <1>6, <1>7, <1>12
  <2>4. CASE Cardinality(U) >= limit
    <3>1. k \notin KeptBuckets(W, limit, bucket)
      BY <1>2, <2>1, <2>4 DEF KeptBuckets
    <3>2. next = [pass EXCEPT !.done = TRUE]
      BY <1>2, <1>7, <2>3, <2>4 DEF next, Visit, k
    <3>3. next.done /\ next.chosen = pass.chosen
      BY <1>7, <3>2
    <3>4. Cardinality(Used(W, bucket)) > limit
      BY <1>2, <2>2, <2>4
    <3> QED
      BY <1>11, <2>3, <3>1, <3>3, <3>4
  <2>5. CASE Cardinality(U) < limit
    <3>1. KeptBuckets(W, limit, bucket) = KeptBuckets(V, limit, bucket) \cup {k}
      <4>1. k \in KeptBuckets(W, limit, bucket)
        BY <1>2, <2>1, <2>5 DEF KeptBuckets
      <4> QED
        BY <1>9, <2>3, <4>1
    <3>2. Favourite(Of(W, bucket, k), preferFiles) = a
      <4>1. Of(W, bucket, k) = {a}
        BY <1>12 DEF Of, Used, U, W, k
      <4>2. Told({a})
        BY DEF Told
      <4> QED
        BY <4>1, <4>2, FavouriteIn
    <3>3. \A j \in KeptBuckets(V, limit, bucket) : Favourite(Of(W, bucket, j), preferFiles) = fav(j)
      BY <1>5, <1>7, <2>3 DEF fav
    <3>4. Tier(W, limit, preferFiles, bucket) = pass.chosen \cup {a}
      BY <1>7, <1>8, <3>1, <3>2, <3>3
    <3>5. ~pass.done /\ Cardinality(pass.chosen) < limit
      BY <1>2, <1>7, <2>5
    <3>6. next = [pass EXCEPT !.chosen = @ \cup {a}]
      BY <1>2, <1>7, <2>3, <2>5, <3>5 DEF next, Visit, k
    <3>7. next.done = pass.done /\ next.chosen = pass.chosen \cup {a}
      BY <1>7, <3>6
    <3>8. Cardinality(pass.chosen \cup {a}) = Cardinality(pass.chosen) + 1
      BY <1>1, <1>7, FS_AddElement
    <3>9. ~(Cardinality(Used(W, bucket)) > limit) /\ Cardinality(next.chosen) = Cardinality(Used(W, bucket))
      BY <1>2, <1>7, <2>2, <2>5, <3>5, <3>7, <3>8
    <3> QED
      BY <1>10, <3>4, <3>5, <3>7, <3>9 DEF ChosenOf, next, W
  <2> QED
    BY <1>2, <2>4, <2>5
\* The bucket has archives already.
<1>13. CASE k \in U
  <2>1. Used(W, bucket) = U
    BY <1>2, <1>13
  <2>2. CASE Cardinality(U) > limit
    <3>1. NewerUsed(V, bucket, k) = U \ {k}
      <4>1. NewerUsed(V, bucket, k) = {i \in U : i > k}
        BY DEF NewerUsed, Used, U
      <4> QED
        BY <1>2, <1>3, <4>1
    <3>2. Cardinality(U \ {k}) = Cardinality(U) - 1
      BY <1>2, <1>13, FS_RemoveElement
    <3>3. ~(Cardinality(NewerUsed(V, bucket, k)) < limit) /\ ~(Cardinality(NewerUsed(W, bucket, k)) < limit)
      BY <1>2, <1>4, <1>13, <2>2, <3>1, <3>2
    <3>4. next = [pass EXCEPT !.done = TRUE]
      BY <1>7, <2>2 DEF next, Visit
    <3>5. next.done /\ next.chosen = pass.chosen
      BY <1>7, <3>4
    <3> QED
      BY <1>11, <2>1, <2>2, <3>3, <3>5 DEF KeptBuckets
  <2>3. CASE ~(Cardinality(U) > limit)
    <3>1. KeptBuckets(V, limit, bucket) = U /\ KeptBuckets(W, limit, bucket) = U
      <4>1. \A j \in U : Cardinality(NewerUsed(V, bucket, j)) < limit
        <5> SUFFICES ASSUME NEW j \in U PROVE Cardinality(NewerUsed(V, bucket, j)) < limit
          OBVIOUS
        <5>1. Cardinality(NewerUsed(V, bucket, j)) \in Nat /\ Cardinality(NewerUsed(V, bucket, j)) < Cardinality(U)
          BY <1>1, UsedFinite DEF U
        <5> QED
          BY <1>2, <2>3, <5>1
      <4> QED
        BY <1>4, <2>1, <4>1 DEF KeptBuckets, U
    <3> DEFINE f == fav(k)
               g == IF preferFiles /\ a.files /\ ~f.files THEN a ELSE f
    <3>2. Favourite(Of(W, bucket, k), preferFiles) = g
      <4>1. Of(W, bucket, k) = Of(V, bucket, k) \cup {a}
        BY DEF Of, W, k
      <4>2. Of(V, bucket, k) # {} /\ Told(Of(V, bucket, k) \cup {a}) /\ \A b \in Of(V, bucket, k) : Before(b, a)
        BY <1>6, <1>13 DEF Of, Told
      <4> QED
        BY <4>1, <4>2, FavouriteLast DEF fav
    <3>3. f \in pass.chosen /\ f \in V /\ bucket[f.at] = k /\ same = {f}
      BY <1>6, <1>7, <1>13, <3>1
    <3>4. Tier(W, limit, preferFiles, bucket) = (pass.chosen \ {f}) \cup {g}
      <4>1. \A j \in U \ {k} : Favourite(Of(W, bucket, j), preferFiles) = fav(j) /\ fav(j) # f
        BY <1>5, <1>6, <3>3 DEF fav
      <4>2. pass.chosen \ {f} = {fav(j) : j \in U \ {k}}
        BY <1>7, <3>1, <4>1
      <4> QED
        BY <1>8, <1>13, <3>1, <3>2, <4>1, <4>2
    <3>5. ~pass.done
      BY <1>7, <2>3
    <3>6. next.done = pass.done /\ next.chosen = (pass.chosen \ {f}) \cup {g}
      <4>1. CASE preferFiles /\ a.files /\ ~f.files
        <5>1. next = [pass EXCEPT !.chosen = (@ \ same) \cup {a}]
          BY <3>3, <3>5, <4>1 DEF next, Visit, k
        <5> QED
          BY <1>7, <3>3, <4>1, <5>1
      <4>2. CASE ~(preferFiles /\ a.files /\ ~f.files)
        <5>1. next = pass
          BY <3>3, <3>5, <4>2 DEF next, Visit, k
        <5> QED
          BY <3>3, <4>2, <5>1
      <4> QED
        BY <4>1, <4>2
    <3>7. Cardinality((pass.chosen \ {f}) \cup {g}) = Cardinality(pass.chosen)
      <4>1. /\ IsFiniteSet(pass.chosen \ {f})
            /\ Cardinality(pass.chosen \ {f}) = Cardinality(pass.chosen) - 1
        BY <1>7, <3>3, FS_RemoveElement
      <4>2. g \notin pass.chosen \ {f}
        BY <1>1, <1>7
      <4>3. Cardinality((pass.chosen \ {f}) \cup {g}) = Cardinality(pass.chosen \ {f}) + 1
        BY <4>1, <4>2, FS_AddElement
      <4>4. Cardinality(pass.chosen) \in Nat
        BY <1>7, FS_CardinalityType
      <4> QED
        BY <4>1, <4>3, <4>4
    <3> QED
      BY <1>7, <1>10, <2>1, <2>3, <3>4, <3>5, <3>6, <3>7 DEF ChosenOf, next, W
  <2> QED
    BY <2>2, <2>3
<1> QED
  BY <1>12, <1>13

\* f is the course of the loop over the first m archives of the list.
LoopCourse(f, S, limit, preferFiles, bucket, m) ==
  f = [n \in 0..m |-> IF n = 0 THEN [chosen |-> {}, done |-> FALSE]
                      ELSE Visit(limit, preferFiles, bucket, f[n - 1], Nth(S, n))]

\* The loop can run over any number of them.
LEMMA LoopRuns ==
  ASSUME NEW S, NEW limit, NEW preferFiles, NEW bucket, NEW len \in Nat
  PROVE  \E f : LoopCourse(f, S, limit, preferFiles, bucket, len)
<1> DEFINE start == [chosen |-> {}, done |-> FALSE]
           visit(pass, n) == Visit(limit, preferFiles, bucket, pass, Nth(S, n))
           course(f, m) == f = [n \in 0..m |-> IF n = 0 THEN start ELSE visit(f[n - 1], n)]
           Stuck == {m \in Nat : ~ \E f : course(f, m)}
<1>1. \A f, m : course(f, m) <=> LoopCourse(f, S, limit, preferFiles, bucket, m)
  BY DEF LoopCourse
<1> HIDE DEF start, visit, course
<1> SUFFICES ASSUME Stuck # {} PROVE FALSE
  BY <1>1
<1>2. PICK m \in Stuck : \A i \in Stuck : m <= i
  BY LeastNumber
<1>3. CASE m = 0
  <2> DEFINE f == [n \in 0..0 |-> start]
  <2>1. f = [n \in 0..0 |-> IF n = 0 THEN start ELSE visit(f[n - 1], n)]
    OBVIOUS
  <2>2. course(f, m)
    BY <1>3, <2>1 DEF course
  <2> QED
    BY <1>2, <2>2
<1>4. CASE m # 0
  <2>1. m \in Nat /\ m - 1 \in Nat /\ m - 1 \notin Stuck
    BY <1>2, <1>4
  <2>2. PICK g : course(g, m - 1)
    BY <2>1
  <2> DEFINE f == [n \in 0..m |-> IF n < m THEN g[n] ELSE visit(g[m - 1], m)]
  <2>3. ASSUME NEW n \in 0..m PROVE f[n] = IF n = 0 THEN start ELSE visit(f[n - 1], n)
    <3> HIDE DEF Stuck
    <3>1. CASE n = m
      BY <1>4, <2>1, <3>1
    <3>2. CASE n < m
      <4>1. n \in 0..(m - 1) /\ f[n] = g[n] /\ (n # 0 => n - 1 \in 0..m /\ f[n - 1] = g[n - 1])
        BY <2>1, <3>2
      <4>2. g[n] = IF n = 0 THEN start ELSE visit(g[n - 1], n)
        BY <2>2, <4>1, Zenon DEF course
      <4> QED
        BY <4>1, <4>2
    <3> QED
      BY <2>1, <3>1, <3>2
  <2>4. f = [n \in 0..m |-> IF n = 0 THEN start ELSE visit(f[n - 1], n)]
    BY <2>3, Zenon
  <2>5. course(f, m)
    BY <2>4, Zenon DEF course
  <2> QED
    BY <1>2, <2>5
<1> QED
  BY <1>3, <1>4

\* What the loop chooses is what the tier keeps.
LEMMA PassIs ==
  ASSUME NEW S, Told(S), IsFiniteSet(S), NEW limit \in Nat, NEW preferFiles \in BOOLEAN,
         NEW bucket, Calendar(bucket)
  PROVE  Pass(S, limit, preferFiles, bucket) = Tier(S, limit, preferFiles, bucket)
<1> DEFINE N == Cardinality(S)
           f == CHOOSE f : LoopCourse(f, S, limit, preferFiles, bucket, N)
           chosen(n) == ChosenOf(f[n], Leading(S, n), limit, preferFiles, bucket)
<1>1. N \in Nat
  BY FS_CardinalityType
<1>2. LoopCourse(f, S, limit, preferFiles, bucket, N)
  BY <1>1, LoopRuns, Zenon
<1>3. Pass(S, limit, preferFiles, bucket) = f[N].chosen
  BY DEF Pass, LoopCourse
<1> HIDE DEF f
<1>4. f[0] = [chosen |-> {}, done |-> FALSE]
  BY <1>1, <1>2 DEF LoopCourse
<1>5. ASSUME NEW n \in 1..N PROVE f[n] = Visit(limit, preferFiles, bucket, f[n - 1], Nth(S, n))
  <2>1. n \in 0..N /\ n # 0
    BY <1>1
  <2>2. f[n] = IF n = 0 THEN [chosen |-> {}, done |-> FALSE]
               ELSE Visit(limit, preferFiles, bucket, f[n - 1], Nth(S, n))
    BY <1>2, <2>1, Zenon DEF LoopCourse
  <2> QED
    BY <2>1, <2>2
<1>6. Cardinality(Leading(S, 0)) = 0 /\ chosen(0)
  <2>1. \A a \in S : Cardinality(Ahead(S, a)) \in Nat
    <3> SUFFICES ASSUME NEW a \in S PROVE Cardinality(Ahead(S, a)) \in Nat
      OBVIOUS
    <3>1. Ahead(S, a) \in SUBSET S
      BY DEF Ahead
    <3> QED
      BY <3>1, FS_Subset, FS_CardinalityType
  <2>2. Leading(S, 0) = {}
    BY <2>1 DEF Leading
  <2>3. Used({}, bucket) = {} /\ Tier({}, limit, preferFiles, bucket) = {}
    BY DEF Used, Tier
  <2> QED
    BY <1>4, <2>2, <2>3, FS_EmptySet DEF ChosenOf
<1> DEFINE Wrong == {n \in Nat : n =< N /\ ~(Cardinality(Leading(S, n)) = n /\ chosen(n))}
<1>7. ASSUME NEW n \in Nat, n < N, Cardinality(Leading(S, n)) = n, chosen(n)
      PROVE  Cardinality(Leading(S, n + 1)) = n + 1 /\ chosen(n + 1)
  <2>1. /\ Nth(S, n + 1) \in S \ Leading(S, n)
        /\ Leading(S, n + 1) = Leading(S, n) \cup {Nth(S, n + 1)}
        /\ Cardinality(Leading(S, n + 1)) = n + 1
        /\ \A b \in Leading(S, n) : Before(b, Nth(S, n + 1))
    BY <1>7, NthNext
  <2>2. Leading(S, n) \in SUBSET S /\ Leading(S, n + 1) \in SUBSET S
    BY DEF Leading
  <2>3. Told(Leading(S, n) \cup {Nth(S, n + 1)})
    BY <2>1, <2>2 DEF Told
  <2>4. IsFiniteSet(Leading(S, n))
    BY <2>2, FS_Subset
  <2>5. f[n + 1] = Visit(limit, preferFiles, bucket, f[n], Nth(S, n + 1))
    <3>1. n + 1 \in 1..N /\ (n + 1) - 1 = n
      BY <1>1, <1>7
    <3> QED
      BY <1>5, <3>1
  <2>6. ChosenOf(Visit(limit, preferFiles, bucket, f[n], Nth(S, n + 1)),
                 Leading(S, n) \cup {Nth(S, n + 1)}, limit, preferFiles, bucket)
    BY <1>7, <2>1, <2>3, <2>4, VisitChosen
  <2> QED
    BY <2>1, <2>5, <2>6
<1> HIDE DEF chosen
<1>8. Wrong = {}
  <2> SUFFICES ASSUME Wrong # {} PROVE FALSE
    OBVIOUS
  <2>1. PICK n \in Wrong : \A i \in Wrong : n <= i
    BY LeastNumber
  <2>2. n \in Nat /\ n =< N /\ n # 0
    BY <1>6, <2>1
  <2>3. n - 1 \in Nat /\ n - 1 < N /\ n - 1 \notin Wrong
    BY <1>1, <2>1, <2>2
  <2>4. Cardinality(Leading(S, n - 1)) = n - 1 /\ chosen(n - 1)
    BY <1>1, <2>3
  <2>5. (n - 1) + 1 = n
    BY <2>2
  <2>6. Cardinality(Leading(S, n)) = n /\ chosen(n)
    BY <1>7, <2>3, <2>4, <2>5
  <2> QED
    BY <2>1, <2>6
<1>9. Cardinality(Leading(S, N)) = N /\ chosen(N)
  BY <1>1, <1>8
<1>10. Leading(S, N) = S
  <2>1. Leading(S, N) \in SUBSET S
    BY DEF Leading
  <2> QED
    BY <1>9, <2>1, FS_Subset
<1> QED
  BY <1>3, <1>9, <1>10 DEF chosen, ChosenOf

\* Whatever archives have piled up, however the calendar falls and whatever the
\* limits of the policies: the loop of selectRetained, which stops early and
\* swaps its choice on the way, chooses what its comment says.
THEOREM LoopAsSaid == Spec => []SelectionAgrees
<1>1. HistoryInv => SelectionAgrees
  <2> SUFFICES ASSUME HistoryInv, NEW pol \in Policies PROVE PassesAgree(Candidates(local), pol)
    BY DEF SelectionAgrees
  <2>1. TypeInv
    BY DEF HistoryInv, PassInv
  <2>2. IsFiniteSet(Candidates(local)) /\ Told(Candidates(local))
    <3>1. Candidates(local) \in SUBSET local /\ IsFiniteSet(local)
      BY <2>1 DEF Candidates, TypeInv
    <3> QED
      BY <3>1, FS_Subset, LooksTold
  <2>3. /\ pol.hourly \in Nat /\ pol.daily \in Nat /\ pol.weekly \in Nat
        /\ Calendar(HourOf) /\ Calendar(DayOf) /\ Calendar(WeekOf)
    BY ScheduleAssumption, RetentionAssumption DEF Policy
  <2> QED
    BY <2>2, <2>3, PassIs DEF PassesAgree
<1>2. HistoryInv /\ [Next]_vars => HistoryInv'
  BY NextHistory
<1> QED
  BY <1>1, <1>2, InitHistory, PTL DEF Spec

-----------------------------------------------------------------------------
(* Attachments are archived no more often than their cadence *)

\* d is the cadence of one of these policies, less the slack, or more.
Spacious(under, d) == \E pol \in under : d >= Cadence(pol) - Slack

\* The scheduled archives that are there, and those that prunes have looked at.
Ever == taken.archives \cup Candidates(local)

\* Attachments that were archived are still there, or in newer archives, or they
\* are due again.
Held(a) ==
  \/ \E c \in Stays : c.files /\ c.at >= a.at
  \/ Spacious(taken.under, now - a.at)

\* A pass that is to archive them began a cadence after all the others.
FilesDue(p) ==
  OnRun(p) /\ pc[p] \notin {"load", "check"} =>
    /\ job[p].files =>
         \A a \in Ever : a.files =>
            \/ making[p] # None /\ a.at = making[p].at
            \/ Spacious(taken.under \cup {seen[p]}, job[p].attempt - a.at)
    /\ making[p] # None => making[p].files = job[p].files /\ seen[p] \in taken.under

\* No archive is of the future.
Past == \A a \in taken.archives \cup Scheduled : a.at =< now

\* Any two with attachments are a cadence apart.
EverSpaced ==
  \A a, b \in Ever : a.files /\ b.files /\ a.at < b.at => Spacious(taken.under, b.at - a.at)

FilesInv ==
  /\ HistoryInv
  /\ Past
  /\ EverSpaced
  /\ \A a \in taken.archives : a.files => Held(a)
  /\ \A p \in Procs : FilesDue(p)

\* A cadence is a number.
LEMMA CadenceType ==
  ASSUME NEW pol \in Policies
  PROVE  Cadence(pol) \in Nat /\ Slack \in Nat
BY ScheduleAssumption DEF Cadence

\* What is far enough stays so, the more policies and the farther.
LEMMA SpaciousGrows ==
  ASSUME NEW under \in SUBSET Policies, NEW more \in SUBSET Policies, under \subseteq more,
         NEW d \in Int, NEW e \in Int, d =< e, Spacious(under, d)
  PROVE  Spacious(more, e)
<1>1. PICK pol \in under : d >= Cadence(pol) - Slack
  BY DEF Spacious
<1>2. Cadence(pol) \in Nat /\ Slack \in Nat
  BY CadenceType
<1>3. pol \in more /\ e >= Cadence(pol) - Slack
  BY <1>1, <1>2
<1> QED
  BY <1>3 DEF Spacious

\* The types that the steps below use.
LEMMA EverTypes ==
  ASSUME TypeInv
  PROVE  /\ Ever \subseteq Archive /\ \A a \in Ever : a.at \in Nat
         /\ taken.under \in SUBSET Policies /\ now \in Nat
         /\ \A p \in Procs : OnRun(p) => job[p].attempt \in Nat
         /\ \A p \in Procs : OnRun(p) /\ pc[p] # "load" => seen[p] \in Policies
<1>1. Ever \subseteq Archive /\ \A a \in Ever : a.at \in Nat
  BY HistoryTypes DEF Ever, Candidates
<1>2. taken.under \in SUBSET Policies /\ now \in Nat
  BY RetentionAssumption DEF TypeInv, TypeOK, Times
<1>3. \A p \in Procs : OnRun(p) => job[p].attempt \in Nat
  BY PassTypes
<1>4. \A p \in Procs : OnRun(p) /\ pc[p] # "load" => seen[p] \in Policies
  BY DEF TypeInv, JobOK, OnRun
<1> QED
  BY <1>1, <1>2, <1>3, <1>4

\* A step adds the archive that a pass writes; a prune adds none.
LEMMA EverNext ==
  ASSUME NEW p \in Procs, HistoryInv, Does(p), NEW a \in Ever'
  PROVE  \/ a \in Ever
         \/ /\ OnRun(p) /\ pc[p] \in Writing
            /\ a.at = making[p].at /\ a.files = making[p].files
<1>1. TypeInv
  BY DEF HistoryInv, PassInv
<1>2. CASE pc[p] = "prune"
  <2>1. Shed(p, local, local') /\ Looks(p)
    BY <1>1, <1>2, PruneSheds
  <2> QED
    BY <2>1 DEF Ever, Looks, Shed, Candidates
<1>3. CASE pc[p] # "prune"
  <2>1. taken'.archives = taken.archives
    BY <1>1, <1>3, NoPrune
  <2>2. CASE ~OnRun(p)
    <3>1. Candidates(local') = Candidates(local)
      BY <1>1, <1>3, <2>2, ManualStep
    <3> QED
      BY <2>1, <3>1 DEF Ever, Candidates
  <2>3. CASE pc[p] \notin Writing
    <3>1. local' = local
      BY <1>1, <1>3, <2>3, NoPrune
    <3> QED
      BY <2>1, <3>1 DEF Ever, Candidates
  <2>4. CASE OnRun(p) /\ pc[p] \in Writing
    <3>1. making[p] # None /\ making[p] \in Archive
      BY <1>1, <2>4 DEF TypeInv, JobOK, MakingOK
    <3>2. local' \subseteq local \cup {Plain(p), Age(p), Headless(p)}
      BY <1>1, <1>3, <3>1, TendsLocal DEF Tends, Files
    <3>3. \A f \in {Plain(p), Age(p), Headless(p)} : f.at = making[p].at /\ f.files = making[p].files
      BY <3>1 DEF Plain, Age, Headless, Archive
    <3> QED
      BY <2>1, <2>4, <3>2, <3>3 DEF Ever, Candidates
  <2> QED
    BY <2>2, <2>3, <2>4
<1> QED
  BY <1>2, <1>3

\* The archive that a pass writes is newer than all others.
LEMMA WritesNewest ==
  ASSUME NEW p \in Procs, HistoryInv, OnRun(p), pc[p] \in Writing, NEW a \in Ever
  PROVE  a.at =< making[p].at
<1>1. TypeInv /\ IntervalOK(p) /\ Older(p)
  BY DEF HistoryInv, PassInv
<1>2. making[p] # None
  BY <1>1 DEF TypeInv, JobOK
<1>3. making[p].at \in Nat /\ a.at \in Nat
  BY <1>1, <1>2, PassTypes, EverTypes
<1>4. CASE a \in taken.archives
  <2>1. a.at < making[p].at
    BY <1>1, <1>4 DEF Older
  <2> QED
    BY <1>3, <2>1
<1>5. CASE a \in Candidates(local)
  BY <1>1, <1>2, <1>5, Newer, HistoryTypes
<1> QED
  BY <1>4, <1>5 DEF Ever

\* A pass comes to its job at the check of what is due, and keeps it from there
\* on; at the dump it begins its archive.
LEMMA GoesOn ==
  ASSUME NEW p \in Procs, TypeInv, Does(p), OnRun(p)', pc'[p] \notin {"load", "check"}
  PROVE  /\ OnRun(p) /\ pc[p] # "load" /\ seen'[p] = seen[p]
         /\ \/ /\ pc[p] = "check" /\ due(p) /\ making'[p] = None
               /\ job'[p].files = includeFiles(p) /\ job'[p].attempt = now
            \/ /\ pc[p] # "check" /\ job'[p] = job[p]
               /\ \/ making'[p] = making[p]
                  \/ /\ making[p] = None /\ making'[p].files = job[p].files
                     /\ taken'.under = taken.under \cup {seen[p]}
<1>1. TypeOK /\ JobOK(p) /\ MakingOK(p)
  BY DEF TypeInv
<1>2. ~Return(p)
  BY <1>1 DEF Return, OnRun, TypeOK
<1>3. ~(StartRun(p) \/ LoadBenches(p))
  <2>1. StartRun(p) \/ LoadBenches(p) => Return(p) \/ pc'[p] \in {"load", "check"}
    BY <1>1 DEF StartRun, LoadBenches, Goto, TypeOK
  <2> QED
    BY <1>2, <2>1
<1>4. ~StartUser(p)
  <2>1. StartUser(p) => job'[p].kind # "run"
    BY <1>1 DEF StartUser, NewJob, TypeOK
  <2> QED
    BY <2>1 DEF OnRun
<1>5. ~(Other(p) \/ SkipStopped(p) \/ PruneRemote(p) \/ Fail(p) \/ Crash(p))
  BY <1>2 DEF Other, SkipStopped, PruneRemote, Fail, Crash
<1>6. CASE CheckDue(p)
  <2>1. /\ due(p) /\ pc[p] = "check" /\ job' = [job EXCEPT ![p] = Due(p)]
        /\ seen' = seen /\ making' = making
    BY <1>2, <1>6 DEF CheckDue, Due, At
  <2>2. OnRun(p) /\ making[p] = None /\ seen[p] \in Policies
    BY <1>1, <2>1 DEF JobOK, OnRun, MakingOK, Writing, Packing
  <2>3. job'[p] = Due(p) /\ Due(p).files = includeFiles(p) /\ Due(p).attempt = now
    BY <1>1, <2>1, <2>2, DueType DEF TypeOK
  <2> QED
    BY <2>1, <2>2, <2>3
<1>7. CASE Dump(p)
  <2>1. /\ pc[p] = "dump" /\ job' = job /\ seen' = seen
        /\ making'[p].files = job[p].files
        /\ job[p].kind = "run" => taken' = [taken EXCEPT !.under = @ \cup {seen[p]}]
    BY <1>1, <1>7 DEF Dump, At, TypeOK
  <2>2. OnRun(p) /\ making[p] = None
    BY <1>1, <2>1 DEF OnRun, MakingOK, Writing, Packing
  <2>3. taken'.under = taken.under \cup {seen[p]}
    BY <1>1, <2>1, <2>2 DEF OnRun, TypeOK
  <2> QED
    BY <2>1, <2>2, <2>3
<1>8. CASE \/ LockBench(p) \/ CreateArchive(p) \/ CloseArchive(p) \/ Encrypt(p) \/ Sidecar(p) \/ Replace(p)
           \/ Put(p) \/ PutSidecar(p) \/ Confirm(p) \/ Prune(p)
  <2>1. making' = making /\ job' = job /\ seen' = seen
    BY <1>2, <1>8 DEF LockBench, CreateArchive, CloseArchive, Encrypt, Sidecar, Replace, Put, PutSidecar,
       Confirm, Prune, Pruned, Goes, Stored
  <2>2. pc[p] \notin {"idle", "load", "check"}
    BY <1>8 DEF LockBench, CreateArchive, CloseArchive, Encrypt, Sidecar, Replace, Put, PutSidecar,
       Confirm, Prune, At
  <2> QED
    BY <2>1, <2>2 DEF OnRun
<1> QED
  BY <1>3, <1>4, <1>5, <1>6, <1>7, <1>8 DEF Does, Step

\* Attachments are due a cadence after all that were archived.
LEMMA FilesWhenDue ==
  ASSUME NEW p \in Procs, FilesInv, OnRun(p), pc[p] = "check", includeFiles(p), NEW a \in Ever, a.files
  PROVE  Spacious(taken.under \cup {seen[p]}, now - a.at)
<1>1. TypeInv
  BY DEF FilesInv, HistoryInv, PassInv
<1>2. /\ a.at \in Nat /\ now \in Nat /\ seen[p] \in Policies /\ taken.under \in SUBSET Policies
      /\ Cadence(seen[p]) \in Nat /\ Slack \in Nat
  BY <1>1, EverTypes, CadenceType
<1>3. a.at =< now
  BY <1>1, HistoryTypes DEF FilesInv, Past, Ever
<1>4. CASE Spacious(taken.under, now - a.at)
  BY <1>2, <1>4, SpaciousGrows
<1>5. CASE ~Spacious(taken.under, now - a.at)
  <2>1. PICK c \in WithFiles : c.at >= a.at
    <3>1. CASE a \in Candidates(local)
      BY <1>2, <3>1 DEF WithFiles
    <3>2. CASE a \in taken.archives
      <4>1. PICK c \in Stays : c.files /\ c.at >= a.at
        BY <1>5, <3>2 DEF FilesInv, Held
      <4> QED
        BY <4>1 DEF Stays, WithFiles
    <3> QED
      BY <3>1, <3>2 DEF Ever
  <2>2. now - a.at >= Cadence(seen[p]) - Slack
    <3>1. CASE seen[p].files = "every-run"
      <4>1. Cadence(seen[p]) = 0
        BY <3>1 DEF Cadence
      <4> QED
        BY <1>2, <1>3, <4>1
    <3>2. CASE seen[p].files # "every-run"
      <4>1. seen[p].files # "never"
        BY DEF includeFiles
      <4>2. WithFiles = {} \/ now - Newest(WithFiles) >= Cadence(seen[p]) - Slack
        BY <3>2, <4>1 DEF includeFiles
      <4>3. WithFiles \in SUBSET Archive /\ \A b \in Archive : b.at \in Nat
        BY <1>1, HistoryTypes DEF WithFiles, Candidates
      <4>4. Newest(WithFiles) \in Nat /\ c.at =< Newest(WithFiles)
        BY <2>1, <4>3, NewestIs, RetentionAssumption DEF Times
      <4> QED
        BY <1>2, <2>1, <4>2, <4>3, <4>4
    <3> QED
      BY <3>1, <3>2
  <2> QED
    BY <2>2 DEF Spacious
<1> QED
  BY <1>4, <1>5

\* Of a tier of two buckets or more: what is not represented by an archive with
\* attachments as new as it is a bucket's length old.
LEMMA TierHolds ==
  ASSUME NEW S, Told(S), NEW limit \in Nat, limit >= 2, NEW bucket, Calendar(bucket), NEW length \in Nat,
         FullLength(bucket, length), NEW c \in S, c.files
  PROVE  \/ \E f \in Tier(S, limit, TRUE, bucket) : f \in S /\ f.files /\ f.at >= c.at
         \/ \E b \in S : b.at - c.at >= length - Slack
<1> DEFINE k == bucket[c.at]
           same == {a \in S : bucket[a.at] = k}
           withFiles == {a \in same : a.files}
           newer == NewerUsed(S, bucket, k)
<1>1. S \in SUBSET Archive /\ \A a \in S : a.at \in Times /\ a.at \in Nat /\ bucket[a.at] \in Nat
  BY RetentionAssumption DEF Told, Archive, Times, Calendar
<1>2. Cardinality(newer) \in Nat
  BY <1>1, MoreUsed
<1>3. CASE Cardinality(newer) < limit
  <2>1. Favourite(same, TRUE) \in Tier(S, limit, TRUE, bucket)
    BY <1>3 DEF Tier, NewerUsed
  <2>2. Told(withFiles) /\ c \in withFiles
    BY DEF Told
  <2>3. Favourite(same, TRUE) = First(withFiles)
    BY <2>2 DEF Favourite
  <2>4. First(withFiles) \in withFiles /\ (c # First(withFiles) => Before(First(withFiles), c))
    BY <2>2, FirstLeads
  <2>5. First(withFiles).at >= c.at
    BY <1>1, <2>4 DEF Before
  <2> QED
    BY <2>1, <2>3, <2>4, <2>5
<1>4. CASE ~(Cardinality(newer) < limit)
  <2>1. \E i, j \in newer : i # j
    <3> SUFFICES ASSUME \A i, j \in newer : i = j PROVE FALSE
      OBVIOUS
    <3>1. newer = {} \/ \E i : newer = {i}
      OBVIOUS
    <3>2. Cardinality(newer) = 0 \/ Cardinality(newer) = 1
      <4> HIDE DEF newer
      <4> QED
        BY <3>1, FS_EmptySet, FS_Singleton
    <3> QED
      BY <1>2, <1>4, <3>2
  <2>2. PICK i, j \in newer : i # j
    BY <2>1
  <2>3. i \in Nat /\ j \in Nat /\ k \in Nat /\ i > k /\ j > k
    BY <1>1 DEF NewerUsed
  <2>4. \E h \in newer : h >= k + 2
    BY <2>2, <2>3
  <2>5. PICK b \in S : bucket[b.at] >= k + 2
    BY <2>4 DEF NewerUsed
  <2>6. b.at - c.at >= length - Slack
    BY <1>1, <2>5 DEF FullLength
  <2> QED
    BY <2>6
<1> QED
  BY <1>3, <1>4

\* A prune leaves attachments as new as these, or they are due again.
LEMMA PruneHolds ==
  ASSUME CadencesKept, NEW p \in Procs, FilesInv, Does(p), pc[p] = "prune",
         NEW a \in taken'.archives, a.files
  PROVE  Held(a)'
<1> DEFINE S == Candidates(local)
           pol == seen[p]
<1>1. TypeInv /\ Told(S)
  BY LooksTold DEF FilesInv, HistoryInv, PassInv
<1>2. Shed(p, local, local') /\ Looks(p) /\ now' = now
  BY <1>1, PruneSheds, DoesKeep DEF Kept, Alone
<1>3. taken'.archives = taken.archives \cup S /\ taken'.under = taken.under \cup {pol}
  BY <1>2 DEF Looks
<1>4. /\ pol \in Policies /\ taken.under \in SUBSET Policies /\ taken'.under \in SUBSET Policies
      /\ pol \in Policy /\ Cadence(pol) \in Nat /\ Slack \in Nat /\ Day \in Nat /\ Week \in Nat
  <2>1. pol \in Policies
    BY <1>1 DEF TypeInv, JobOK
  <2> QED
    BY <1>1, <1>3, <2>1, EverTypes, CadenceType, ScheduleAssumption
<1>5. /\ a \in Ever /\ a.at \in Nat /\ now \in Nat /\ a.at =< now
      /\ \A b \in S : b.at \in Nat /\ b.at =< now
  <2>1. a \in Ever /\ S \subseteq Ever /\ S \subseteq Scheduled
    BY <1>1, <1>3, HistoryTypes DEF Ever
  <2> QED
    BY <1>1, <1>3, <2>1, EverTypes DEF FilesInv, Past
<1>6. CASE Spacious(taken.under, now - a.at)
  <2>1. Spacious(taken'.under, now - a.at)
    BY <1>3, <1>4, <1>5, <1>6, SpaciousGrows
  <2> QED
    BY <1>2, <2>1 DEF Held
<1>7. CASE ~Spacious(taken.under, now - a.at)
  <2>1. PICK c \in S : c.files /\ c.at >= a.at
    <3>1. CASE a \in S
      BY <1>5, <3>1
    <3>2. CASE a \in taken.archives
      BY <1>7, <3>2 DEF FilesInv, Held, Stays
    <3> QED
      BY <1>3, <3>1, <3>2
  <2>2. ASSUME NEW length \in Nat, length >= Cadence(pol), NEW b \in S, b.at - c.at >= length - Slack
        PROVE  Held(a)'
    <3>1. c.at \in Nat /\ b.at \in Nat /\ b.at =< now
      BY <1>5
    <3>2. now - a.at >= Cadence(pol) - Slack
      BY <1>4, <1>5, <2>1, <2>2, <3>1
    <3>3. Spacious(taken'.under, now' - a.at)
      BY <1>2, <1>3, <3>2 DEF Spacious
    <3> QED
      BY <3>3 DEF Held
  <2>3. ASSUME NEW f \in S, f.files, f.at >= c.at, f \in selectRetained(S, pol)
        PROVE  Held(a)'
    <3>1. f.at >= a.at
      BY <1>5, <2>1, <2>3
    <3>2. f \in Candidates(local')
      BY <1>2, <2>3 DEF Shed, Dropped, Candidates
    <3>3. f \in Stays'
      BY <1>3, <2>3, <3>2 DEF Stays, Candidates
    <3> QED
      BY <2>3, <3>1, <3>3 DEF Held
  <2>4. ASSUME NEW limit \in Nat, limit >= 2, NEW bucket, Calendar(bucket), NEW length \in Nat,
               FullLength(bucket, length), length >= Cadence(pol),
               Tier(S, limit, TRUE, bucket) \subseteq selectRetained(S, pol)
        PROVE  Held(a)'
    <3>1. \/ \E f \in Tier(S, limit, TRUE, bucket) : f \in S /\ f.files /\ f.at >= c.at
          \/ \E b \in S : b.at - c.at >= length - Slack
      BY <1>1, <2>1, <2>4, TierHolds
    <3> QED
      BY <2>2, <2>3, <2>4, <3>1
  <2>5. /\ Backed(pol) /\ FullLength(DayOf, Day) /\ FullLength(WeekOf, Week) /\ Day =< Week
        /\ Calendar(DayOf) /\ Calendar(WeekOf)
    BY <1>4, RetentionAssumption DEF CadencesKept
  <2>6. /\ pol.daily \in Nat /\ pol.weekly \in Nat
        /\ pol.files \in {"every-run", "daily", "weekly", "never"}
    BY <1>4 DEF Policy
  <2>7. CASE pol.files \in {"every-run", "never"}
    <3>1. Cadence(pol) = 0
      BY <2>7 DEF Cadence
    <3>2. Spacious(taken'.under, now' - a.at)
      BY <1>2, <1>3, <1>4, <1>5, <3>1 DEF Spacious
    <3> QED
      BY <3>2 DEF Held
  <2>8. CASE pol.files = "daily" /\ pol.daily >= 2
    <3>1. Cadence(pol) = Day
      BY <2>8 DEF Cadence
    <3>2. Day >= Cadence(pol)
      BY <1>4, <3>1
    <3>3. Tier(S, pol.daily, TRUE, DayOf) \subseteq selectRetained(S, pol)
      BY DEF selectRetained
    <3> QED
      BY <1>4, <2>4, <2>5, <2>6, <2>8, <3>2, <3>3, Zenon
  <2>9. CASE pol.files \in {"daily", "weekly"} /\ pol.weekly >= 2
    <3>1. Cadence(pol) \in {Day, Week}
      BY <2>9 DEF Cadence
    <3>2. Week >= Cadence(pol)
      BY <1>4, <2>5, <3>1
    <3>3. Tier(S, pol.weekly, TRUE, WeekOf) \subseteq selectRetained(S, pol)
      BY DEF selectRetained
    <3> QED
      BY <1>4, <2>4, <2>5, <2>6, <2>9, <3>2, <3>3, Zenon
  <2> QED
    BY <2>5, <2>6, <2>7, <2>8, <2>9 DEF Backed
<1> QED
  BY <1>6, <1>7

\* The archive that a pass writes is a cadence after the others.
LEMMA EverSpacedNext ==
  ASSUME NEW p \in Procs, FilesInv, Does(p), taken.under \subseteq taken'.under, taken'.under \in SUBSET Policies
  PROVE  EverSpaced'
<1>1. OnRun(p) => IntervalOK(p)
  BY DEF FilesInv, HistoryInv, PassInv
<1>2. HistoryInv /\ TypeInv
  BY DEF FilesInv, HistoryInv, PassInv
<1> SUFFICES ASSUME NEW a \in Ever', NEW b \in Ever', a.files, b.files, a.at < b.at
             PROVE  Spacious(taken'.under, b.at - a.at)
  BY DEF EverSpaced
<1> DEFINE New(c) == /\ OnRun(p) /\ pc[p] \in Writing
                     /\ c.at = making[p].at /\ c.files = making[p].files
<1>3. (a \in Ever \/ New(a)) /\ (b \in Ever \/ New(b))
  BY <1>2, EverNext
<1>4. taken.under \in SUBSET Policies /\ \A c \in Ever : c.at \in Nat
  BY <1>2, EverTypes
<1>5. New(a) \/ New(b) => making[p] # None /\ making[p].at \in Nat
  <2>1. pc[p] \in Writing => making[p] # None
    BY <1>2 DEF TypeInv, JobOK
  <2> QED
    BY <1>2, <2>1, PassTypes
<1>6. CASE a \in Ever /\ b \in Ever
  <2>1. Spacious(taken.under, b.at - a.at)
    BY <1>6 DEF FilesInv, EverSpaced
  <2>2. b.at - a.at \in Int
    BY <1>4, <1>6
  <2> QED
    BY <1>4, <2>1, <2>2, SpaciousGrows
<1>7. CASE a \in Ever /\ New(b)
  <2>1. OnRun(p) /\ pc[p] \in Writing /\ making[p] # None
    BY <1>5, <1>7
  <2>2. pc[p] \notin {"load", "check"}
    BY <2>1 DEF Writing, Packing
  <2>3. job[p].files /\ taken.under \cup {seen[p]} = taken.under
    BY <1>7, <2>1, <2>2 DEF FilesInv, FilesDue
  <2>4. a.at # making[p].at
    BY <1>4, <1>5, <1>7
  <2>5. Spacious(taken.under, job[p].attempt - a.at)
    BY <1>7, <2>1, <2>2, <2>3, <2>4 DEF FilesInv, FilesDue
  <2>6. IntervalOK(p)
    BY <1>1, <2>1
  <2>7. job[p].attempt =< making[p].at
    BY <2>1, <2>2, <2>6 DEF IntervalOK
  <2>8. job[p].attempt \in Nat /\ a.at \in Nat /\ making[p].at \in Nat /\ b.at = making[p].at
    BY <1>2, <1>4, <1>5, <1>7, <2>1, EverTypes
  <2>9. job[p].attempt - a.at \in Int /\ b.at - a.at \in Int /\ job[p].attempt - a.at =< b.at - a.at
    BY <2>7, <2>8
  <2> QED
    BY <1>4, <2>5, <2>9, SpaciousGrows
<1>8. CASE New(a) /\ b \in Ever
  <2>1. b.at =< making[p].at
    BY <1>2, <1>8, WritesNewest
  <2>2. a.at = making[p].at /\ making[p].at \in Nat /\ b.at \in Nat
    BY <1>4, <1>5, <1>8
  <2>3. ~(a.at < b.at)
    BY <2>1, <2>2
  <2> QED
    BY <2>3
<1>9. CASE New(a) /\ New(b)
  <2>1. a.at = making[p].at /\ b.at = making[p].at /\ making[p].at \in Nat
    BY <1>5, <1>9
  <2>2. ~(a.at < b.at)
    BY <2>1
  <2> QED
    BY <2>2
<1> QED
  BY <1>3, <1>6, <1>7, <1>8, <1>9

\* No archive is of the future.
LEMMA PastNext ==
  ASSUME NEW p \in Procs, FilesInv, Does(p)
  PROVE  Past'
<1>1. HistoryInv /\ TypeInv
  BY DEF FilesInv, HistoryInv, PassInv
<1>2. now' = now
  BY <1>1, DoesKeep DEF Kept, Alone
<1>3. taken'.archives \subseteq taken.archives \cup Scheduled
  <2>1. CASE pc[p] = "prune"
    BY <1>1, <2>1, PruneSheds, HistoryTypes DEF Looks
  <2>2. CASE pc[p] # "prune"
    BY <1>1, <2>2, NoPrune
  <2> QED
    BY <2>1, <2>2
<1>4. ASSUME NEW a \in Scheduled' PROVE a \in Scheduled \/ a.at =< now
  <2>1. CASE ~OnRun(p)
    BY <1>1, <2>1, ManualStep
  <2>2. CASE pc[p] = "prune"
    BY <1>1, <2>2, PruneSheds DEF Shed, Scheduled
  <2>3. CASE pc[p] # "prune"
    <3>1. local' \subseteq local \cup Files(p)
      BY <1>1, <2>3, TendsLocal DEF Tends
    <3>2. \A f \in Files(p) : f.at =< now
      BY <1>1, FilesType DEF Files, TypeInv, MakingOK
    <3> QED
      BY <3>1, <3>2 DEF Scheduled
  <2> QED
    BY <2>1, <2>2, <2>3
<1>5. \A a \in taken.archives \cup Scheduled : a.at =< now
  BY DEF FilesInv, Past
<1> QED
  BY <1>2, <1>3, <1>4, <1>5 DEF Past

\* A pass that goes on keeps FilesDue, or comes to it when it is due.
LEMMA FilesDueNext ==
  ASSUME NEW p \in Procs, FilesInv, Does(p), taken.under \subseteq taken'.under, taken'.under \in SUBSET Policies,
         NEW q \in Procs
  PROVE  FilesDue(q)'
<1>1. HistoryInv /\ TypeInv
  BY DEF FilesInv, HistoryInv, PassInv
<1> SUFFICES ASSUME OnRun(q)', pc'[q] \notin {"load", "check"}
             PROVE  /\ job'[q].files =>
                         \A a \in Ever' : a.files =>
                            \/ making'[q] # None /\ a.at = making'[q].at
                            \/ Spacious(taken'.under \cup {seen'[q]}, job'[q].attempt - a.at)
                    /\ making'[q] # None => making'[q].files = job'[q].files /\ seen'[q] \in taken'.under
  BY DEF FilesDue
<1>2. /\ taken.under \in SUBSET Policies /\ \A a \in Ever : a.at \in Nat
      /\ \A r \in Procs : OnRun(r) => job[r].attempt \in Nat
      /\ \A r \in Procs : OnRun(r) /\ pc[r] # "load" => seen[r] \in Policies
  BY <1>1, EverTypes
\* The pass had its job before.
<1>3. ASSUME OnRun(q), pc[q] \notin {"load", "check"}, job'[q] = job[q], seen'[q] = seen[q],
             making[q] # None => making'[q] = making[q],
             making'[q] # None => making'[q].files = job[q].files /\ seen[q] \in taken'.under,
             \A a \in Ever' : a \in Ever \/ (making[q] # None /\ a.at = making[q].at)
      PROVE  /\ job'[q].files =>
                  \A a \in Ever' : a.files =>
                     \/ making'[q] # None /\ a.at = making'[q].at
                     \/ Spacious(taken'.under \cup {seen'[q]}, job'[q].attempt - a.at)
             /\ making'[q] # None => making'[q].files = job'[q].files /\ seen'[q] \in taken'.under
  <2>1. ASSUME job[q].files, NEW a \in Ever', a.files
        PROVE  \/ making'[q] # None /\ a.at = making'[q].at
               \/ Spacious(taken'.under \cup {seen[q]}, job[q].attempt - a.at)
    <3>1. CASE making[q] # None /\ a.at = making[q].at
      BY <1>3, <3>1
    <3>2. CASE ~(making[q] # None /\ a.at = making[q].at)
      <4>1. a \in Ever
        BY <1>3, <3>2
      <4>2. Spacious(taken.under \cup {seen[q]}, job[q].attempt - a.at)
        BY <1>3, <2>1, <3>2, <4>1 DEF FilesInv, FilesDue
      <4>3. seen[q] \in Policies /\ job[q].attempt - a.at \in Int
        BY <1>2, <1>3, <4>1
      <4>4. /\ taken.under \cup {seen[q]} \in SUBSET Policies /\ taken'.under \cup {seen[q]} \in SUBSET Policies
            /\ taken.under \cup {seen[q]} \subseteq taken'.under \cup {seen[q]}
        BY <1>2, <4>3
      <4> QED
        BY <4>2, <4>3, <4>4, SpaciousGrows
    <3> QED
      BY <3>1, <3>2
  <2> QED
    BY <1>3, <2>1
<1>4. \A a \in Ever' : \/ a \in Ever
                       \/ OnRun(p) /\ making[p] # None /\ a.at = making[p].at
  <2>1. pc[p] \in Writing => making[p] # None
    BY <1>1 DEF TypeInv, JobOK
  <2> QED
    BY <1>1, <2>1, EverNext
<1>5. CASE q # p
  <2>1. pc'[q] = pc[q] /\ job'[q] = job[q] /\ seen'[q] = seen[q] /\ making'[q] = making[q]
    BY <1>1, <1>5, DoesKeep DEF Kept, Alone
  <2>2. OnRun(q) /\ pc[q] \notin {"load", "check"}
    BY <2>1 DEF OnRun
  <2>3. ~OnRun(p)
    BY <1>1, <1>5, <2>2, OnePass
  <2>4. making[q] # None => making[q].files = job[q].files /\ seen[q] \in taken.under
    BY <2>2 DEF FilesInv, FilesDue
  <2> QED
    BY <1>3, <1>4, <2>1, <2>2, <2>3, <2>4
<1>6. CASE q = p
  <2>1. /\ OnRun(q) /\ pc[q] # "load" /\ seen'[q] = seen[q]
        /\ \/ /\ pc[q] = "check" /\ due(q) /\ making'[q] = None
              /\ job'[q].files = includeFiles(q) /\ job'[q].attempt = now
           \/ /\ pc[q] # "check" /\ job'[q] = job[q]
              /\ \/ making'[q] = making[q]
                 \/ /\ making[q] = None /\ making'[q].files = job[q].files
                    /\ taken'.under = taken.under \cup {seen[q]}
    BY <1>1, <1>6, GoesOn
  <2>2. CASE pc[q] = "check"
    <3>1. making'[q] = None /\ job'[q].files = includeFiles(q) /\ job'[q].attempt = now
      BY <2>1, <2>2
    <3>2. ASSUME includeFiles(q), NEW a \in Ever', a.files
          PROVE  Spacious(taken'.under \cup {seen[q]}, now - a.at)
      <4>1. making[q] = None
        BY <1>1, <2>2 DEF TypeInv, MakingOK, Writing, Packing
      <4>2. a \in Ever
        BY <1>4, <1>6, <4>1
      <4>3. Spacious(taken.under \cup {seen[q]}, now - a.at)
        BY <2>1, <2>2, <3>2, <4>2, FilesWhenDue
      <4>4. seen[q] \in Policies /\ now - a.at \in Int
        BY <1>1, <1>2, <2>1, <4>2, EverTypes
      <4>5. /\ taken.under \cup {seen[q]} \in SUBSET Policies /\ taken'.under \cup {seen[q]} \in SUBSET Policies
            /\ taken.under \cup {seen[q]} \subseteq taken'.under \cup {seen[q]}
        BY <1>2, <4>4
      <4> QED
        BY <4>3, <4>4, <4>5, SpaciousGrows
    <3> QED
      BY <2>1, <3>1, <3>2
  <2>3. CASE pc[q] # "check"
    <3>1. job'[q] = job[q] /\ pc[q] \notin {"load", "check"}
      BY <2>1, <2>3
    <3>2. making[q] # None => making[q].files = job[q].files /\ seen[q] \in taken.under
      BY <2>1, <3>1 DEF FilesInv, FilesDue
    <3>3. \A a \in Ever' : a \in Ever \/ (making[q] # None /\ a.at = making[q].at)
      BY <1>4, <1>6
    <3>4. CASE making'[q] = making[q]
      BY <1>3, <2>1, <3>1, <3>2, <3>3, <3>4
    <3>5. CASE /\ making[q] = None /\ making'[q].files = job[q].files
               /\ taken'.under = taken.under \cup {seen[q]}
      BY <1>3, <2>1, <3>1, <3>3, <3>5
    <3> QED
      BY <2>1, <2>3, <3>4, <3>5
  <2> QED
    BY <2>2, <2>3
<1> QED
  BY <1>5, <1>6

\* The attachments that prunes have looked at are still there, or newer ones are.
LEMMA HeldNext ==
  ASSUME CadencesKept, NEW p \in Procs, FilesInv, Does(p),
         taken.under \subseteq taken'.under, taken'.under \in SUBSET Policies,
         NEW a \in taken'.archives, a.files
  PROVE  Held(a)'
<1>1. HistoryInv /\ TypeInv
  BY DEF FilesInv, HistoryInv, PassInv
<1>2. CASE pc[p] # "prune"
  <2>1. Stays \subseteq Stays' /\ a \in taken.archives /\ now' = now
    BY <1>1, <1>2, StaysNext, DoesKeep DEF Kept, Alone
  <2>2. Held(a)
    BY <2>1 DEF FilesInv
  <2>3. now - a.at \in Int /\ taken.under \in SUBSET Policies
    BY <1>1, <2>1, EverTypes DEF Ever
  <2>4. Spacious(taken.under, now - a.at) => Spacious(taken'.under, now - a.at)
    BY <2>3, SpaciousGrows
  <2> QED
    BY <2>1, <2>2, <2>4 DEF Held
<1> QED
  BY <1>2, PruneHolds

\* FilesInv is inductive where the policies and the calendar leave prunes the
\* archives that it needs.
LEMMA NextFiles ==
  ASSUME CadencesKept, FilesInv, [Next]_vars
  PROVE  FilesInv'
<1>1. HistoryInv /\ TypeInv /\ HistoryInv'
  BY NextHistory DEF FilesInv, HistoryInv, PassInv
<1>2. ASSUME NEW p \in Procs, Does(p) PROVE FilesInv'
  <2>1. taken.under \subseteq taken'.under
    <3>1. CASE pc[p] = "prune"
      BY <1>1, <1>2, <3>1, PruneSheds DEF Looks
    <3>2. CASE pc[p] # "prune"
      BY <1>1, <1>2, <3>2, NoPrune
    <3> QED
      BY <3>1, <3>2
  <2>2. taken'.under \in SUBSET Policies
    BY <1>1 DEF HistoryInv, PassInv, TypeInv, TypeOK
  <2>3. EverSpaced' /\ Past' /\ \A q \in Procs : FilesDue(q)'
    BY <1>2, <2>1, <2>2, EverSpacedNext, PastNext, FilesDueNext
  <2>4. \A a \in taken'.archives : a.files => Held(a)'
    BY <1>2, <2>1, <2>2, HeldNext
  <2> QED
    BY <1>1, <2>3, <2>4 DEF FilesInv
<1>3. CASE Tick \/ SetBackupSchedule \/ UNCHANGED vars
  <2>1. /\ local' = local /\ taken' = taken /\ pc' = pc /\ job' = job /\ making' = making /\ seen' = seen
        /\ now' = now \/ now' = now + 1
    BY <1>3 DEF Tick, SetBackupSchedule, vars, disk, process
  <2>2. Scheduled' = Scheduled /\ Stays' = Stays /\ Ever' = Ever
    BY <2>1 DEF Scheduled, Stays, Ever, Candidates
  <2>3. /\ now \in Nat /\ \A a \in taken.archives \cup Scheduled : a.at \in Nat
        /\ taken.under \in SUBSET Policies
    BY <1>1, EverTypes, HistoryTypes
  <2>4. Past'
    <3>1. \A a \in taken.archives \cup Scheduled : a.at =< now
      BY DEF FilesInv, Past
    <3>2. \A a \in taken.archives \cup Scheduled : a.at =< now'
      BY <2>1, <2>3, <3>1
    <3> QED
      BY <2>1, <2>2, <3>2 DEF Past
  <2>5. EverSpaced' /\ \A p \in Procs : FilesDue(p)'
    BY <2>1, <2>2 DEF FilesInv, EverSpaced, FilesDue, OnRun
  <2>6. ASSUME NEW a \in taken.archives, a.files PROVE Held(a)'
    <3>1. Held(a)
      BY <2>6 DEF FilesInv
    <3>2. now - a.at \in Int /\ now' - a.at \in Int /\ now - a.at =< now' - a.at
      BY <2>1, <2>3
    <3>3. Spacious(taken.under, now - a.at) => Spacious(taken.under, now' - a.at)
      BY <2>3, <3>2, SpaciousGrows
    <3> QED
      BY <2>1, <2>2, <3>1, <3>3 DEF Held
  <2> QED
    BY <1>1, <2>1, <2>4, <2>5, <2>6 DEF FilesInv
<1> QED
  BY <1>2, <1>3, NextIs

\* It holds at the start.
LEMMA InitFiles == Init => FilesInv
<1> SUFFICES ASSUME Init PROVE FilesInv
  OBVIOUS
<1>1. Scheduled = {} /\ taken.archives = {} /\ Candidates(local) = {} /\ \A p \in Procs : ~OnRun(p)
  BY DEF Init, Scheduled, OnRun, Candidates
<1> QED
  BY <1>1, InitHistory DEF FilesInv, Past, EverSpaced, Ever, FilesDue

\* What prunes have looked at is a part of what is ever spaced.
LEMMA FilesAreSpaced == FilesInv => FilesSpaced
<1> SUFFICES ASSUME FilesInv, NEW a \in taken.archives, NEW b \in taken.archives,
                    a.files, b.files, a.at # b.at
             PROVE  \E pol \in taken.under : Apart(a, b) >= Cadence(pol) - Slack
  BY DEF FilesSpaced
<1>1. TypeInv
  BY DEF FilesInv, HistoryInv, PassInv
<1>2. a \in Ever /\ b \in Ever /\ a.at \in Nat /\ b.at \in Nat
  BY <1>1, EverTypes DEF Ever
<1>3. Spacious(taken.under, Apart(a, b))
  <2>1. CASE a.at < b.at
    <3>1. Spacious(taken.under, b.at - a.at)
      BY <1>2, <2>1 DEF FilesInv, EverSpaced
    <3>2. Apart(a, b) = b.at - a.at
      BY <1>2, <2>1 DEF Apart
    <3> QED
      BY <3>1, <3>2
  <2>2. CASE b.at < a.at
    <3>1. Spacious(taken.under, a.at - b.at)
      BY <1>2, <2>2 DEF FilesInv, EverSpaced
    <3>2. Apart(a, b) = a.at - b.at
      BY <1>2, <2>2 DEF Apart
    <3> QED
      BY <3>1, <3>2
  <2> QED
    BY <1>2, <2>1, <2>2
<1> QED
  BY <1>3 DEF Spacious

\* Whatever was pruned, by whom and how far: of all the archives that prunes have
\* ever looked at, gone or not, two with attachments are a cadence apart of one
\* of the policies that passes and prunes followed, if each policy keeps two of
\* the days or weeks that its cadence counts and none of these is cut short.
THEOREM AttachmentsSpaced == ASSUME CadencesKept PROVE Spec => []FilesSpaced
<1>1. FilesInv /\ [Next]_vars => FilesInv'
  BY NextFiles
<1> QED
  BY <1>1, InitFiles, FilesAreSpaced, PTL DEF Spec

\* Under the same conditions a prune keeps what it is said to keep, and
\* attachments are archived no more often than it is said.
THEOREM PrunesAsSaid == ASSUME CadencesKept PROVE Spec => []PruningAsSaid
<1>1. SelectionAgrees /\ FilesSpaced => PruningAsSaid
  BY DEF PruningAsSaid
<1> QED
  BY <1>1, LoopAsSaid, AttachmentsSpaced, PTL

-----------------------------------------------------------------------------
(* Archives on their way: the invariant *)

MemberSet == {"header", "db", "files", "manifest"}
\* What an archive holds is how far it was written.
Bodies == {b \in Seq(MemberSet) : Len(b) =< 4 /\ \A i \in 1..Len(b) : b[i] = Members[i]}
FileSet == [there : BOOLEAN, body : Bodies, torn : BOOLEAN, spoilt : SUBSET MemberSet, sealed : BOOLEAN]

SenderSteps == {"create", "add", "encrypt", "rename", "header", "replace", "put", "put header", "confirm", "done", "failed"}
FetchSteps  == {"idle", "pull", "pull header", "size", "decrypt", "peek", "extract", "members", "accepted", "refused"}
Early == {"create", "add", "encrypt", "rename", "header", "replace", "put"}

\* What is still to be written is the rest.
Rests(b) == {t \in Seq(MemberSet) : Len(t) = 4 - Len(b) /\ \A i \in 1..Len(t) : t[i] = Members[Len(b) + i]}

TransitTypes ==
  /\ host \in [FileNames -> FileSet] /\ far \in [FileNames -> FileSet] /\ near \in [FileNames -> FileSet]
  /\ kind \in TargetKinds
  /\ sender \in [at : SenderSteps, todo : Seq(MemberSet)]
  /\ fetch \in [at : FetchSteps, from : {"none", "newest", "named", "https", "local"}, size : Nat]
  /\ harm \in Nat

\* What the sender has by now: an archive under its name is whole, and sealed if it says so.
SenderKnows ==
  /\ \A n \in {"plain", "age"} : host[n].there => Whole(host[n])
  /\ ~host["plain"].sealed
  /\ sender.at = "create" => sender.todo \in Rests(<<>>)
  /\ sender.at = "add" =>
       /\ host["plain.partial"].there /\ ~host["plain.partial"].torn /\ ~host["plain.partial"].sealed
       /\ sender.todo \in Rests(host["plain.partial"].body)
  /\ sender.at \in {"encrypt", "rename"} => host["plain"].there
  /\ sender.at = "rename" => host["age.partial"].there /\ Whole(host["age.partial"])
  /\ sender.at \in {"header", "replace", "put", "put header", "confirm"} => host["age"].there
  /\ sender.at \in {"put", "put header", "confirm"} => kind # "web"

\* What is far: a cut archive never gets a header.
FarKnows ==
  /\ ~far["plain"].sealed
  /\ kind # "web" /\ sender.at \in Early => ~far["header"].there
  /\ far["age"].there /\ ~Whole(far["age"]) => sender.at = "failed" /\ ~far["header"].there

\* What is near.
NearKnows ==
  /\ fetch.at = "idle" => fetch.from = "none" /\ \A n \in FileNames : near[n] = Nothing
  /\ fetch.from = "newest" =>
       /\ sender.at \notin Early
       /\ far["age"].there => Whole(far["age"])
       /\ near["age"].there => Whole(near["age"])
       /\ fetch.at = "pull" /\ near["age.partial"].there => Whole(near["age.partial"])
  /\ near["plain"].sealed => near["plain"].spoilt = {}
  /\ fetch.at \in {"members", "accepted"} => Whole(near["plain"])
  /\ fetch.at = "accepted" => near["plain"].spoilt \subseteq {"manifest"}

TransitInv == TransitTypes /\ SenderKnows /\ FarKnows /\ NearKnows

\* Every name of a file, and what is beside it.
LEMMA NameFacts ==
  /\ \A n \in Names : n \in FileNames /\ Partial(n) \in FileNames /\ Partial(n) \notin Names
  /\ Partial("plain") = "plain.partial" /\ Partial("age") = "age.partial" /\ Partial("header") = "header.partial"
BY DEF Names, FileNames, Partial

LEMMA BodyFacts ==
  /\ Members \in Seq(MemberSet) /\ Len(Members) = 4 /\ Members[4] = "manifest" /\ Members[1] = "header"
  /\ \A i \in 1..4 : Members[i] = "manifest" => i = 4
  /\ <<>> \in Bodies /\ <<"header">> \in Bodies /\ Members \in Rests(<<>>)
BY DEF Members, MemberSet, Bodies, Rests

LEMMA PrefixFacts ==
  ASSUME NEW b \in Bodies
  PROVE  b \in Seq(MemberSet) /\ Len(b) \in 0..4 /\ \A i \in 1..Len(b) : b[i] = Members[i]
<1>1. b \in Seq(MemberSet) /\ Len(b) =< 4 /\ \A i \in 1..Len(b) : b[i] = Members[i]
  BY Zenon DEF Bodies
<1>2. Len(b) \in Nat
  BY <1>1, LenProperties
<1>3. Len(b) \in 0..4
  <2>1. \A n \in Nat : n =< 4 => n \in 0..4
    OBVIOUS
  <2>. QED
    BY <1>1, <1>2, <2>1, Zenon
<1>. QED
  BY <1>1, <1>3

LEMMA WholeFacts ==
  ASSUME NEW b \in Bodies
  PROVE  /\ Len(b) \in 0..4
         /\ b = Members <=> Len(b) = 4
         /\ b # <<>> /\ b[Len(b)] = "manifest" => b = Members
<1>1. b \in Seq(MemberSet) /\ Len(b) \in 0..4 /\ \A i \in 1..Len(b) : b[i] = Members[i]
  BY PrefixFacts
<1>2. Len(b) = 4 => b = Members
  BY <1>1, BodyFacts, SeqEqual
<1>3. b # <<>> => Len(b) \in 1..4
  BY <1>1, EmptySeq
<1>. QED
  BY <1>1, <1>2, <1>3, BodyFacts

LEMMA PartFacts ==
  ASSUME NEW b \in Bodies, NEW k \in 0..(Len(b) - 1)
  PROVE  SubSeq(b, 1, k) \in Bodies /\ Len(SubSeq(b, 1, k)) = k
<1>1. b \in Seq(MemberSet) /\ Len(b) \in 0..4 /\ \A i \in 1..Len(b) : b[i] = Members[i]
  BY PrefixFacts
<1>2. k \in Int /\ 1 \in Int /\ k < 4 /\ \A i \in 1..k : b[i] \in MemberSet /\ b[i] = Members[i]
  BY <1>1
<1>3. PICK c : c = SubSeq(b, 1, k)
  OBVIOUS
<1>4. c \in Seq(MemberSet)
  BY <1>2, <1>3, SubSeqProperties
<1>5. Len(c) = k
  BY <1>1, <1>2, <1>3
<1>6. \A i \in 1..k : c[i] = b[i]
  BY <1>1, <1>2, <1>3
<1>7. Len(c) =< 4 /\ \A i \in 1..Len(c) : c[i] = Members[i]
  BY <1>2, <1>5, <1>6
<1>8. c \in Bodies
  BY <1>4, <1>7, Zenon DEF Bodies
<1>. QED
  BY <1>3, <1>5, <1>8

\* A copy that stops early is a file, and not a whole one.
LEMMA CutFacts ==
  ASSUME NEW f \in FileSet, NEW g \in Cuts(f)
  PROVE  g \in FileSet /\ ~Whole(g) /\ g.there = f.there /\ g.sealed = f.sealed /\ g.spoilt = f.spoilt
<1>1. PICK k \in 0..(Len(f.body) - 1), t \in BOOLEAN : g = [f EXCEPT !.body = SubSeq(f.body, 1, k), !.torn = t]
  <2>1. PICK k \in 0..(Len(f.body) - 1), t \in BOOLEAN : g = Cut(f, k, t)
    BY DEF Cuts
  <2>. QED
    BY <2>1 DEF Cut
<1>2. f.body \in Bodies
  BY DEF FileSet
<1>3. PICK b : b = SubSeq(f.body, 1, k)
  OBVIOUS
<1>4. b \in Bodies /\ Len(b) = k
  BY <1>2, <1>3, PartFacts
<1>5. k # 4
  BY <1>2, WholeFacts
<1>6. b # Members
  BY <1>4, <1>5, WholeFacts
<1>7. g = [f EXCEPT !.body = b, !.torn = t]
  BY <1>1, <1>3
<1>. QED
  BY <1>4, <1>6, <1>7 DEF FileSet, Whole

LEMMA SplitFacts ==
  ASSUME NEW b \in Bodies, NEW t \in Rests(b)
  PROVE  /\ t = <<>> => b = Members
         /\ t # <<>> => Append(b, Head(t)) \in Bodies /\ Tail(t) \in Rests(Append(b, Head(t)))
<1>1. b \in Seq(MemberSet) /\ Len(b) \in 0..4 /\ \A i \in 1..Len(b) : b[i] = Members[i]
  BY PrefixFacts
<1>2. t \in Seq(MemberSet) /\ Len(t) = 4 - Len(b) /\ \A i \in 1..Len(t) : t[i] = Members[Len(b) + i]
  BY DEF Rests
<1>3. CASE t = <<>>
  BY <1>1, <1>2, <1>3, WholeFacts
<1>4. CASE t # <<>>
  <2>1. Len(t) \in 1..4 /\ Head(t) = t[1] /\ Head(t) \in MemberSet /\ Len(Tail(t)) = Len(t) - 1 /\ Tail(t) \in Seq(MemberSet)
    BY <1>1, <1>2, <1>4
  <2>2. \A i \in 1..Len(Tail(t)) : Tail(t)[i] = t[i + 1]
    BY <1>2, <1>4, <2>1, HeadTailProperties
  <2>3. PICK a : a = Append(b, Head(t))
    OBVIOUS
  <2>4. a \in Seq(MemberSet) /\ Len(a) = Len(b) + 1 /\ (\A i \in 1..Len(b) : a[i] = b[i]) /\ a[Len(b) + 1] = Head(t)
    BY <1>1, <2>1, <2>3
  <2>5. a \in Bodies
    BY <1>1, <1>2, <2>1, <2>4 DEF Bodies
  <2>6. Tail(t) \in Rests(a)
    <3>1. Len(Tail(t)) = 4 - Len(a)
      BY <1>1, <1>2, <2>1, <2>4
    <3>2. ASSUME NEW i \in 1..Len(Tail(t)) PROVE Tail(t)[i] = Members[Len(a) + i]
      <4>1. i + 1 \in 1..Len(t) /\ Len(b) + (i + 1) = Len(a) + i
        BY <1>1, <2>1, <2>4
      <4>. QED
        BY <1>2, <2>2, <4>1
    <3>. QED
      BY <2>1, <3>1, <3>2, Zenon DEF Rests
  <2>. QED
    BY <1>4, <2>3, <2>5, <2>6
<1>. QED
  BY <1>3, <1>4

LEMMA FileFacts ==
  /\ Nothing \in FileSet /\ ~Nothing.there /\ ~Nothing.sealed /\ Nothing.spoilt = {}
  /\ Empty \in FileSet /\ Empty.there /\ ~Empty.sealed /\ ~Empty.torn /\ Empty.body = <<>>
  /\ HeaderFile \in FileSet /\ HeaderFile.there
<1>1. Nothing \in FileSet /\ Empty \in FileSet
  BY BodyFacts DEF Nothing, Empty, FileSet
<1>2. HeaderFile = [Empty EXCEPT !.body = <<"header">>] /\ <<"header">> \in Bodies
  BY BodyFacts DEF HeaderFile
<1>3. HeaderFile \in FileSet /\ HeaderFile.there
  BY <1>1, <1>2 DEF FileSet, Empty, Nothing
<1>. QED
  BY <1>1, <1>3 DEF Nothing, Empty

LEMMA SpoilFacts ==
  ASSUME NEW f \in FileSet, NEW m \in MemberSet
  PROVE  /\ [f EXCEPT !.spoilt = @ \cup {m}] \in FileSet
         /\ [f EXCEPT !.spoilt = @ \cup {m}].there = f.there
         /\ [f EXCEPT !.spoilt = @ \cup {m}].sealed = f.sealed
         /\ Whole([f EXCEPT !.spoilt = @ \cup {m}]) = Whole(f)
<1>1. PICK s \in SUBSET MemberSet : s = f.spoilt \cup {m}
  BY DEF FileSet
<1>2. [f EXCEPT !.spoilt = @ \cup {m}] = [f EXCEPT !.spoilt = s]
  BY <1>1
<1>. QED
  BY <1>2 DEF FileSet, Whole

\* A step of the backup on its host.
LEMMA HostStep ==
  ASSUME TransitInv, host' \in [FileNames -> FileSet], sender' \in [at : SenderSteps, todo : Seq(MemberSet)], harm' \in Nat,
         UNCHANGED <<far, near, kind, fetch>>, sender.at # "failed", sender'.at \in Early => sender.at \in Early,
         SenderKnows'
  PROVE  TransitInv'
<1>1. TransitTypes'
  BY DEF TransitInv, TransitTypes
<1>2. FarKnows' /\ NearKnows'
  BY DEF TransitInv, FarKnows, NearKnows, Whole
<1>. QED
  BY <1>1, <1>2 DEF TransitInv

\* A step of the restore.
LEMMA FetchStep ==
  ASSUME TransitInv, near' \in [FileNames -> FileSet], harm' \in Nat, UNCHANGED <<host, far, kind, sender>>,
         fetch' \in [at : FetchSteps, from : {"none", "newest", "named", "https", "local"}, size : Nat], NearKnows'
  PROVE  TransitInv'
<1>1. TransitTypes'
  BY DEF TransitInv, TransitTypes
<1>2. SenderKnows' /\ FarKnows'
  BY DEF TransitInv, SenderKnows, FarKnows, Whole
<1>. QED
  BY <1>1, <1>2 DEF TransitInv

LEMMA TransitInvInit == TransitInit => TransitInv
<1>. SUFFICES ASSUME TransitInit PROVE TransitInv
  OBVIOUS
<1>1. \A n \in FileNames : host[n] = Nothing /\ far[n] = Nothing /\ near[n] = Nothing
  BY DEF TransitInit
<1>2. TransitTypes
  <2>1. /\ sender \in [at : SenderSteps, todo : Seq(MemberSet)]
        /\ fetch \in [at : FetchSteps, from : {"none", "newest", "named", "https", "local"}, size : Nat]
    BY BodyFacts DEF TransitInit, SenderSteps, FetchSteps
  <2>2. host \in [FileNames -> FileSet]
    BY FileFacts DEF TransitInit
  <2>. QED
    BY <2>1, <2>2 DEF TransitInit, TransitTypes
<1>3. {"plain", "age", "header", "plain.partial", "age.partial", "header.partial"} \subseteq FileNames
  BY DEF FileNames, Names
<1>4. sender.at = "create" /\ fetch.at = "idle" /\ fetch.from = "none"
  BY DEF TransitInit
<1>5. sender.todo \in Rests(<<>>)
  BY BodyFacts DEF TransitInit
<1>. QED
  BY <1>1, <1>2, <1>3, <1>4, <1>5, FileFacts DEF TransitInv, SenderKnows, FarKnows, NearKnows

\* A step that changes what is far, and maybe where the sender is.
LEMMA FarStep ==
  ASSUME TransitInv, far' \in [FileNames -> FileSet], sender' \in [at : SenderSteps, todo : Seq(MemberSet)], harm' \in Nat,
         UNCHANGED <<host, near, kind, fetch>>, sender'.at \in Early => sender.at \in Early, SenderKnows', FarKnows',
         sender.at \notin Early /\ (far["age"].there => Whole(far["age"])) => (far'["age"].there => Whole(far'["age"]))
  PROVE  TransitInv'
<1>1. TransitTypes'
  BY DEF TransitInv, TransitTypes
<1>2. PICK w \in BOOLEAN : w = (far'["age"].there => Whole(far'["age"]))
  OBVIOUS
<1>3. NearKnows'
  BY <1>2 DEF TransitInv, NearKnows, Whole
<1>. QED
  BY <1>1, <1>3 DEF TransitInv

LEMMA SendingKept == ASSUME TransitInv, Backup PROVE TransitInv'
<1>1. /\ host \in [FileNames -> FileSet] /\ far \in [FileNames -> FileSet] /\ near \in [FileNames -> FileSet]
      /\ sender \in [at : SenderSteps, todo : Seq(MemberSet)] /\ harm \in Nat
      /\ \A n \in FileNames : host[n] \in FileSet /\ far[n] \in FileSet
      /\ SenderKnows /\ FarKnows /\ NearKnows
  BY DEF TransitInv, TransitTypes
<1>2. {"plain", "age", "header", "plain.partial", "age.partial", "header.partial"} \subseteq FileNames
  BY DEF FileNames, Names
<1>3. ASSUME NEW step \in SenderSteps, Sends(step)
      PROVE  sender' \in [at : SenderSteps, todo : Seq(MemberSet)] /\ sender'.at = step /\ sender'.todo = sender.todo
  BY <1>1, <1>3 DEF Sends
<1>4. Harmed \/ Unharmed => harm' \in Nat
  BY <1>1 DEF Harmed, Unharmed
<1>5. ASSUME BeginArchive PROVE TransitInv'
  <2>1. sender' \in [at : SenderSteps, todo : Seq(MemberSet)] /\ sender'.at = "add" /\ sender'.todo \in Rests(<<>>)
    BY <1>1, <1>3, <1>5 DEF BeginArchive, Is, SenderKnows, SenderSteps
  <2>2. host' \in [FileNames -> FileSet] /\ host'["plain.partial"] = Empty /\ host'["plain"] = host["plain"] /\ host'["age"] = host["age"]
    BY <1>1, <1>2, <1>5, FileFacts DEF BeginArchive
  <2>3. SenderKnows'
    BY <1>1, <2>1, <2>2, FileFacts DEF SenderKnows, Whole
  <2>. QED
    BY <1>4, <1>5, <2>1, <2>2, <2>3, HostStep DEF BeginArchive, Is, OnHost, Early
<1>6. ASSUME AddStream PROVE TransitInv'
  <2>1. PICK f : f = host["plain.partial"]
    OBVIOUS
  <2>2. f \in FileSet /\ f.body \in Bodies /\ f.there /\ ~f.torn /\ ~f.sealed /\ sender.todo \in Rests(f.body) /\ sender.todo # <<>>
    BY <1>1, <1>2, <1>6, <2>1 DEF AddStream, Is, SenderKnows, FileSet
  <2>3. PICK b : b = Append(f.body, Head(sender.todo))
    OBVIOUS
  <2>4. b \in Bodies /\ Tail(sender.todo) \in Rests(b)
    BY <2>2, <2>3, SplitFacts
  <2>5. PICK rest \in Rests(b) : rest = Tail(sender.todo)
    BY <2>4
  <2>6. rest \in Seq(MemberSet)
    BY <2>5 DEF Rests
  <2>7. sender' \in [at : SenderSteps, todo : Seq(MemberSet)] /\ sender'.at = "add" /\ sender'.todo = rest
    BY <1>1, <1>6, <2>5, <2>6 DEF AddStream, Is, SenderSteps
  <2>8. PICK g : g = [f EXCEPT !.body = b]
    OBVIOUS
  <2>9. g \in FileSet /\ g.there /\ ~g.torn /\ ~g.sealed /\ g.body = b
    BY <2>2, <2>4, <2>8 DEF FileSet
  <2>10. host' = [host EXCEPT !["plain.partial"] = g]
    BY <1>1, <1>2, <1>6, <2>1, <2>3, <2>8 DEF AddStream
  <2>11. host' \in [FileNames -> FileSet] /\ host'["plain.partial"] = g /\ host'["plain"] = host["plain"] /\ host'["age"] = host["age"]
    BY <1>1, <1>2, <2>9, <2>10
  <2>12. SenderKnows'
    BY <1>1, <2>5, <2>7, <2>9, <2>11 DEF SenderKnows, Whole
  <2>. QED
    BY <1>4, <1>6, <2>7, <2>11, <2>12, HostStep DEF AddStream, Is, OnHost, Early
<1>7. ASSUME FinishArchive PROVE TransitInv'
  <2>1. PICK f : f = host["plain.partial"]
    OBVIOUS
  <2>2. f \in FileSet /\ f.body \in Bodies /\ f.there /\ ~f.torn /\ ~f.sealed /\ sender.todo \in Rests(f.body) /\ sender.todo = <<>>
    BY <1>1, <1>2, <1>7, <2>1 DEF FinishArchive, Is, SenderKnows, FileSet
  <2>3. Whole(f)
    BY <2>2, SplitFacts DEF Whole
  <2>4. PICK step \in {"encrypt", "done"} : Sends(step)
    BY <1>7 DEF FinishArchive
  <2>5. sender' \in [at : SenderSteps, todo : Seq(MemberSet)] /\ sender'.at = step
    BY <1>3, <2>4 DEF SenderSteps
  <2>6. host' \in [FileNames -> FileSet] /\ host'["plain"] = f /\ host'["age"] = host["age"]
    BY <1>1, <1>2, <1>7, <2>1, FileFacts DEF FinishArchive
  <2>7. SenderKnows'
    BY <1>1, <2>2, <2>3, <2>4, <2>5, <2>6 DEF SenderKnows, Whole
  <2>. QED
    BY <1>4, <1>7, <2>5, <2>6, <2>7, HostStep DEF FinishArchive, Is, OnHost, Early
<1>8. ASSUME WriteFails PROVE TransitInv'
  <2>1. sender' \in [at : SenderSteps, todo : Seq(MemberSet)] /\ sender'.at = "failed"
    BY <1>3, <1>8 DEF WriteFails, SenderSteps
  <2>2. host' \in [FileNames -> FileSet] /\ host'["plain"] = host["plain"] /\ host'["age"] = host["age"]
    BY <1>1, <1>2, <1>8, FileFacts DEF WriteFails
  <2>3. SenderKnows'
    BY <1>1, <2>1, <2>2 DEF SenderKnows, Whole
  <2>. QED
    BY <1>4, <1>8, <2>1, <2>2, <2>3, HostStep DEF WriteFails, Is, OnHost, Early
<1>9. ASSUME EncryptFile PROVE TransitInv'
  <2>1. PICK f : f = host["plain"]
    OBVIOUS
  <2>2. f \in FileSet /\ f.there /\ Whole(f) /\ ~f.sealed
    BY <1>1, <1>2, <1>9, <2>1 DEF EncryptFile, Is, SenderKnows
  <2>3. PICK g : g = [f EXCEPT !.sealed = TRUE]
    OBVIOUS
  <2>4. g \in FileSet /\ g.there /\ Whole(g)
    BY <2>2, <2>3 DEF FileSet, Whole
  <2>5. sender' \in [at : SenderSteps, todo : Seq(MemberSet)] /\ sender'.at = "rename"
    BY <1>3, <1>9 DEF EncryptFile, SenderSteps
  <2>6. host' \in [FileNames -> FileSet] /\ host'["age.partial"] = g /\ host'["plain"] = f /\ host'["age"] = host["age"]
    BY <1>1, <1>2, <1>9, <2>1, <2>3, <2>4 DEF EncryptFile
  <2>7. SenderKnows'
    BY <1>1, <2>2, <2>4, <2>5, <2>6 DEF SenderKnows, Whole
  <2>. QED
    BY <1>4, <1>9, <2>5, <2>6, <2>7, HostStep DEF EncryptFile, Is, OnHost, Early
<1>10. ASSUME RenameEncrypted PROVE TransitInv'
  <2>1. PICK g : g = host["age.partial"]
    OBVIOUS
  <2>2. g \in FileSet /\ g.there /\ Whole(g)
    BY <1>1, <1>2, <1>10, <2>1 DEF RenameEncrypted, Is, SenderKnows
  <2>3. sender' \in [at : SenderSteps, todo : Seq(MemberSet)] /\ sender'.at = "header"
    BY <1>3, <1>10 DEF RenameEncrypted, SenderSteps
  <2>4. host' \in [FileNames -> FileSet] /\ host'["age"] = g /\ host'["plain"] = host["plain"]
    BY <1>1, <1>2, <1>10, <2>1, FileFacts DEF RenameEncrypted
  <2>5. SenderKnows'
    BY <1>1, <2>2, <2>3, <2>4 DEF SenderKnows, Whole
  <2>. QED
    BY <1>4, <1>10, <2>3, <2>4, <2>5, HostStep DEF RenameEncrypted, Is, OnHost, Early
<1>11. ASSUME WriteHeader PROVE TransitInv'
  <2>1. sender' \in [at : SenderSteps, todo : Seq(MemberSet)] /\ sender'.at = "replace"
    BY <1>3, <1>11 DEF WriteHeader, SenderSteps
  <2>2. host' \in [FileNames -> FileSet] /\ host'["age"] = host["age"] /\ host'["plain"] = host["plain"]
    BY <1>1, <1>2, <1>11, FileFacts DEF WriteHeader
  <2>3. SenderKnows'
    BY <1>1, <1>11, <2>1, <2>2 DEF WriteHeader, Is, SenderKnows, Whole
  <2>. QED
    BY <1>4, <1>11, <2>1, <2>2, <2>3, HostStep DEF WriteHeader, Is, OnHost, Early
<1>12. ASSUME RemovePlain PROVE TransitInv'
  <2>1. PICK step \in {"done", "put"} : Sends(step) /\ (step = "put" => kind # "web")
    BY <1>12 DEF RemovePlain
  <2>2. sender' \in [at : SenderSteps, todo : Seq(MemberSet)] /\ sender'.at = step
    BY <1>3, <2>1 DEF SenderSteps
  <2>3. host' \in [FileNames -> FileSet] /\ host'["age"] = host["age"] /\ host'["plain"] = Nothing /\ kind' = kind
    BY <1>1, <1>2, <1>12, FileFacts DEF RemovePlain, OnHost
  <2>4. SenderKnows'
    BY <1>1, <1>12, <2>1, <2>2, <2>3, FileFacts DEF RemovePlain, Is, SenderKnows, Whole
  <2>. QED
    BY <1>4, <1>12, <2>2, <2>3, <2>4, HostStep DEF RemovePlain, Is, OnHost, Early
\* A sender that ends leaves the archives under their names whole.
<1>13. ASSUME host' \in [FileNames -> FileSet], \A n \in {"plain", "age"} : host'[n] \in {host[n], Nothing},
              sender' \in [at : SenderSteps, todo : Seq(MemberSet)], sender'.at = "failed"
       PROVE  SenderKnows'
  <2>1. \A n \in {"plain", "age"} : host'[n].there => host'[n] = host[n]
    BY <1>13, FileFacts
  <2>2. ~host'["plain"].sealed
    BY <1>1, <1>13, FileFacts DEF SenderKnows
  <2>. QED
    BY <1>1, <1>13, <2>1, <2>2 DEF SenderKnows, Whole
<1>14. ASSUME EncryptFails PROVE TransitInv'
  <2>1. sender' \in [at : SenderSteps, todo : Seq(MemberSet)] /\ sender'.at = "failed"
    BY <1>3, <1>14 DEF EncryptFails, SenderSteps
  <2>2. \A h \in {Nothing} \cup Cuts(HeaderFile) : h \in FileSet
    BY FileFacts, CutFacts
  <2>3. host' \in [FileNames -> FileSet] /\ \A n \in {"plain", "age"} : host'[n] \in {host[n], Nothing}
    <3>1. CASE host' = [host EXCEPT !["plain"] = Nothing]
      BY <1>1, <1>2, <3>1, FileFacts
    <3>2. CASE host' = host
      BY <1>1, <3>2
    <3>3. CASE \E h \in {Nothing} \cup Cuts(HeaderFile) : host' = [host EXCEPT !["plain"] = Nothing, !["age"] = Nothing, !["header"] = h]
      <4>1. PICK h \in FileSet : host' = [host EXCEPT !["plain"] = Nothing, !["age"] = Nothing, !["header"] = h]
        BY <2>2, <3>3
      <4>. QED
        BY <1>1, <1>2, <4>1, FileFacts
    <3>. QED
      BY <1>14, <3>1, <3>2, <3>3 DEF EncryptFails, Is
  <2>. QED
    BY <1>4, <1>13, <1>14, <2>1, <2>3, HostStep DEF EncryptFails, OnHost, Early
<1>15. ASSUME Upload PROVE TransitInv'
  <2>1. PICK n \in {"age", "header"} :
       /\ sender.at = IF n = "age" THEN "put" ELSE "put header"
       /\ \/ FillPartial(n) /\ UNCHANGED sender
          \/ PutObject(n) /\ Sends(IF n = "age" THEN "put header" ELSE "confirm")
    <3>1. PutOrder[1] = "age" /\ PutOrder[2] = "header"
      BY DEF PutOrder
    <3>2. CASE sender.at = "put"
      BY <1>15, <3>1, <3>2 DEF Upload, Is
    <3>3. CASE sender.at = "put header"
      BY <1>15, <3>1, <3>3 DEF Upload, Is
    <3>. QED
      BY <1>15, <3>2, <3>3 DEF Upload
  <2>2. UNCHANGED <<host, near, kind, fetch>> /\ harm' \in Nat
    BY <1>4, <1>15 DEF Upload
  <2>3. n \in Names /\ n \in FileNames /\ Partial(n) \in FileNames /\ Partial(n) \notin {"plain", "age", "header"}
    BY NameFacts DEF Names
  <2>4. kind # "web" /\ host["age"].there /\ Whole(host["age"])
    BY <1>1, <2>1 DEF SenderKnows
  <2>5. CASE FillPartial(n) /\ UNCHANGED sender
    <3>1. far' \in [FileNames -> FileSet] /\ far'["plain"] = far["plain"] /\ far'["age"] = far["age"] /\ far'["header"] = far["header"]
      BY <1>1, <1>2, <2>3, <2>5 DEF FillPartial
    <3>2. SenderKnows' /\ FarKnows'
      BY <1>1, <2>2, <2>5, <3>1 DEF SenderKnows, FarKnows, Whole
    <3>. QED
      BY <1>1, <2>2, <2>5, <3>1, <3>2, FarStep DEF Whole
  <2>6. CASE PutObject(n) /\ Sends(IF n = "age" THEN "put header" ELSE "confirm")
    <3>1. PICK step \in {"put header", "confirm"} : Sends(step)
      BY <2>6
    <3>2. sender' \in [at : SenderSteps, todo : Seq(MemberSet)] /\ sender'.at = step
      BY <1>3, <3>1 DEF SenderSteps
    <3>3. far' \in [FileNames -> FileSet] /\ far'[n] = host[n] /\ \A m \in {"plain", "age", "header"} \ {n} : far'[m] = far[m]
      BY <1>1, <1>2, <2>3, <2>6, FileFacts DEF PutObject
    <3>4. SenderKnows'
      BY <1>1, <2>1, <2>2, <2>4, <3>2 DEF SenderKnows, Whole
    <3>5. far'["age"].there => Whole(far'["age"])
      <4>1. CASE n = "age"
        BY <2>4, <3>3, <4>1
      <4>2. CASE n = "header"
        BY <1>1, <2>1, <3>3, <4>2 DEF FarKnows
      <4>. QED
        BY <4>1, <4>2
    <3>6. FarKnows'
      <4>1. ~far'["plain"].sealed
        BY <1>1, <3>3 DEF FarKnows
      <4>. QED
        BY <3>2, <3>5, <4>1 DEF FarKnows, Early, Whole
    <3>. QED
      BY <2>2, <3>2, <3>3, <3>4, <3>5, <3>6, FarStep DEF Early
  <2>. QED
    BY <2>1, <2>5, <2>6
\* A put that is cut short.
<1>16. ASSUME NEW n \in {"age", "header"}, NEW g \in Cuts(host[n]), far' = [far EXCEPT ![n] = g], kind # "web",
              sender.at = IF n = "age" THEN "put" ELSE "put header", Sends("failed"), harm' \in Nat,
              UNCHANGED <<host, near, kind, fetch>>
       PROVE  TransitInv'
  <2>1. sender' \in [at : SenderSteps, todo : Seq(MemberSet)] /\ sender'.at = "failed"
    BY <1>3, <1>16 DEF SenderSteps
  <2>2. g \in FileSet
    BY <1>1, <1>2, <1>16, CutFacts
  <2>3. far' \in [FileNames -> FileSet] /\ far'[n] = g /\ \A m \in {"plain", "age", "header"} \ {n} : far'[m] = far[m]
    BY <1>1, <1>2, <1>16, <2>2
  <2>4. SenderKnows'
    BY <1>1, <1>13, <1>16, <2>1
  <2>5. CASE n = "age"
    <3>1. ~far'["header"].there /\ ~far'["plain"].sealed
      BY <1>1, <1>16, <2>3, <2>5 DEF FarKnows, Early
    <3>2. FarKnows'
      BY <2>1, <3>1 DEF FarKnows, Early
    <3>. QED
      BY <1>16, <2>1, <2>3, <2>4, <2>5, <3>2, FarStep DEF Early
  <2>6. CASE n = "header"
    <3>1. far'["age"] = far["age"] /\ ~far'["plain"].sealed /\ (far["age"].there => Whole(far["age"]))
      BY <1>1, <1>16, <2>3, <2>6 DEF FarKnows
    <3>2. FarKnows'
      BY <2>1, <3>1 DEF FarKnows, Early, Whole
    <3>. QED
      BY <1>16, <2>1, <2>3, <2>4, <2>6, <3>1, <3>2, FarStep DEF Early, Whole
  <2>. QED
    BY <2>5, <2>6
\* One that leaves the objects alone.
<1>17. ASSUME far' \in [FileNames -> FileSet], \A m \in {"plain", "age", "header"} : far'[m] = far[m], Sends("failed"),
              harm' \in Nat, UNCHANGED <<host, near, kind, fetch>>, sender.at # "failed"
       PROVE  TransitInv'
  <2>1. sender' \in [at : SenderSteps, todo : Seq(MemberSet)] /\ sender'.at = "failed"
    BY <1>3, <1>17 DEF SenderSteps
  <2>2. SenderKnows'
    BY <1>1, <1>13, <1>17, <2>1
  <2>3. FarKnows'
    BY <1>1, <1>17, <2>1 DEF FarKnows, Early, Whole
  <2>. QED
    BY <1>17, <2>1, <2>2, <2>3, FarStep DEF Early, Whole
<1>18. ASSUME sender.at \in {"put", "put header"}
       PROVE  \E n \in {"age", "header"} : /\ PutOrder[IF Is(sender, "put") THEN 1 ELSE 2] = n
                                           /\ sender.at = IF n = "age" THEN "put" ELSE "put header"
  <2>1. PutOrder[1] = "age" /\ PutOrder[2] = "header"
    BY DEF PutOrder
  <2>2. CASE sender.at = "put"
    BY <2>1, <2>2 DEF Is
  <2>3. CASE sender.at = "put header"
    BY <2>1, <2>3 DEF Is
  <2>. QED
    BY <1>18, <2>2, <2>3
<1>19. ASSUME UploadFails PROVE TransitInv'
  <2>1. UNCHANGED <<host, near, kind, fetch>> /\ harm' \in Nat /\ sender.at \in {"put", "put header"} /\ Sends("failed") /\ kind # "web"
    BY <1>1, <1>4, <1>19 DEF UploadFails, SenderKnows
  <2>2. PICK n \in {"age", "header"} : PutOrder[IF Is(sender, "put") THEN 1 ELSE 2] = n /\ sender.at = IF n = "age" THEN "put" ELSE "put header"
    BY <1>18, <2>1
  <2>3. \/ far' = [far EXCEPT ![Partial(n)] = Nothing]
        \/ \E g \in Cuts(host[n]) : far' = [far EXCEPT ![n] = g]
    BY <1>19, <2>2 DEF UploadFails
  <2>4. CASE far' = [far EXCEPT ![Partial(n)] = Nothing]
    <3>1. Partial(n) \in {"age.partial", "header.partial"}
      BY NameFacts
    <3>2. far' \in [FileNames -> FileSet] /\ \A m \in {"plain", "age", "header"} : far'[m] = far[m]
      BY <1>1, <1>2, <2>4, <3>1, FileFacts
    <3>. QED
      BY <1>17, <2>1, <3>2
  <2>5. CASE \E g \in Cuts(host[n]) : far' = [far EXCEPT ![n] = g]
    BY <1>16, <2>1, <2>2, <2>5
  <2>. QED
    BY <2>3, <2>4, <2>5
<1>20. ASSUME ConfirmUpload PROVE TransitInv'
  <2>1. PICK step \in {"done", "failed"} : Sends(step)
    BY <1>20 DEF ConfirmUpload
  <2>2. sender' \in [at : SenderSteps, todo : Seq(MemberSet)] /\ sender'.at = step
    BY <1>3, <2>1 DEF SenderSteps
  <2>3. SenderKnows'
    BY <1>1, <1>20, <2>2 DEF ConfirmUpload, SenderKnows, Whole
  <2>. QED
    BY <1>1, <1>4, <1>20, <2>2, <2>3, HostStep DEF ConfirmUpload, Is, Early
<1>21. ASSUME Killed PROVE TransitInv'
  <2>1. UNCHANGED <<near, kind, fetch>> /\ harm' \in Nat /\ sender.at \notin {"done", "failed"} /\ Sends("failed")
    BY <1>4, <1>21 DEF Killed
  <2>2. sender' \in [at : SenderSteps, todo : Seq(MemberSet)] /\ sender'.at = "failed"
    BY <1>3, <2>1 DEF SenderSteps
  <2>3. CASE (\E n \in {"plain", "age"} : host' \in {[host EXCEPT ![Partial(n)] = f] : f \in Cuts(host[Partial(n)])}) /\ UNCHANGED far
    <3>0. PICK n \in {"plain", "age"} : host' \in {[host EXCEPT ![Partial(n)] = f] : f \in Cuts(host[Partial(n)])}
      BY <2>3
    <3>1. PICK f \in Cuts(host[Partial(n)]) : host' = [host EXCEPT ![Partial(n)] = f]
      BY <3>0
    <3>2. Partial(n) \in {"plain.partial", "age.partial"}
      BY NameFacts
    <3>3. f \in FileSet
      BY <1>1, <1>2, <3>1, <3>2, CutFacts
    <3>4. host' \in [FileNames -> FileSet] /\ \A m \in {"plain", "age"} : host'[m] = host[m]
      BY <1>1, <1>2, <3>1, <3>2, <3>3
    <3>. QED
      BY <1>13, <2>1, <2>2, <2>3, <3>4, HostStep DEF Early
  <2>4. CASE (\E n \in {"age", "header"} : far' \in {[far EXCEPT ![Partial(n)] = f] : f \in Cuts(far[Partial(n)])}) /\ UNCHANGED host
    <3>0. PICK n \in {"age", "header"} : far' \in {[far EXCEPT ![Partial(n)] = f] : f \in Cuts(far[Partial(n)])}
      BY <2>4
    <3>1. PICK f \in Cuts(far[Partial(n)]) : far' = [far EXCEPT ![Partial(n)] = f]
      BY <3>0
    <3>2. Partial(n) \in {"age.partial", "header.partial"}
      BY NameFacts
    <3>3. f \in FileSet
      BY <1>1, <1>2, <3>1, <3>2, CutFacts
    <3>4. far' \in [FileNames -> FileSet] /\ \A m \in {"plain", "age", "header"} : far'[m] = far[m]
      BY <1>1, <1>2, <3>1, <3>2, <3>3
    <3>. QED
      BY <1>17, <2>1, <2>4, <3>4
  <2>5. CASE host' \in {[host EXCEPT !["header"] = Empty], host} /\ UNCHANGED far
    <3>1. host' \in [FileNames -> FileSet] /\ \A m \in {"plain", "age"} : host'[m] = host[m]
      BY <1>1, <1>2, <2>5, FileFacts
    <3>. QED
      BY <1>13, <2>1, <2>2, <2>5, <3>1, HostStep DEF Early
  <2>6. CASE /\ kind = "rclone" /\ sender.at \in {"put", "put header"} /\ UNCHANGED host
             /\ LET n == PutOrder[IF Is(sender, "put") THEN 1 ELSE 2] IN far' \in {[far EXCEPT ![n] = f] : f \in Cuts(host[n])}
    <3>1. PICK n \in {"age", "header"} : PutOrder[IF Is(sender, "put") THEN 1 ELSE 2] = n /\ sender.at = IF n = "age" THEN "put" ELSE "put header"
      BY <1>18, <2>6
    <3>2. \E g \in Cuts(host[n]) : far' = [far EXCEPT ![n] = g]
      BY <2>6, <3>1
    <3>. QED
      BY <1>16, <2>1, <2>6, <3>1, <3>2
  <2>. QED
    BY <1>21, <2>3, <2>4, <2>5, <2>6 DEF Killed
<1>. QED
  BY <1>5, <1>6, <1>7, <1>8, <1>9, <1>10, <1>11, <1>12, <1>14, <1>15, <1>19, <1>20, <1>21 DEF Backup

LEMMA PlacedKept == ASSUME TransitInv, Publish \/ Spoil \/ PruneObject PROVE TransitInv'
<1>1. /\ host \in [FileNames -> FileSet] /\ far \in [FileNames -> FileSet]
      /\ sender \in [at : SenderSteps, todo : Seq(MemberSet)] /\ harm \in Nat
      /\ \A n \in FileNames : host[n] \in FileSet /\ far[n] \in FileSet
      /\ SenderKnows /\ FarKnows /\ NearKnows
  BY DEF TransitInv, TransitTypes
<1>2. {"plain", "age", "header", "plain.partial", "age.partial", "header.partial"} \subseteq FileNames
  BY DEF FileNames, Names
<1>3. UNCHANGED <<host, near, kind, sender, fetch>> /\ harm' \in Nat
  BY <1>1 DEF Publish, Spoil, PruneObject, Harmed, Unharmed
<1>4. SenderKnows'
  BY <1>1, <1>3 DEF SenderKnows, Whole
<1>5. CASE Publish
  <2>1. PICK n \in {"plain", "age"} :
          host[n].there /\ ~far[n].there /\ far' = [far EXCEPT ![n] = host[n], !["header"] = IF n = "age" THEN host["header"] ELSE @]
    BY <1>5 DEF Publish
  <2>2. PICK h : h = IF n = "age" THEN host["header"] ELSE far["header"]
    OBVIOUS
  <2>3. far' = [far EXCEPT ![n] = host[n], !["header"] = h] /\ h \in FileSet
    BY <1>1, <1>2, <2>1, <2>2
  <2>4. far' \in [FileNames -> FileSet] /\ far'[n] = host[n] /\ \A m \in {"plain", "age"} \ {n} : far'[m] = far[m]
    BY <1>1, <1>2, <2>1, <2>3
  <2>5. Whole(host[n])
    BY <1>1, <2>1 DEF SenderKnows
  <2>6. kind' = "web" /\ ~far'["plain"].sealed
    BY <1>1, <1>3, <1>5, <2>1, <2>4 DEF Publish, SenderKnows, FarKnows
  <2>7. CASE n = "age"
    <3>1. FarKnows'
      BY <2>4, <2>5, <2>6, <2>7 DEF FarKnows, Whole
    <3>. QED
      BY <1>1, <1>3, <1>4, <2>4, <2>5, <2>7, <3>1, FarStep
  <2>8. CASE n = "plain"
    <3>1. far'["age"] = far["age"] /\ far'["header"] = far["header"]
      BY <1>1, <1>2, <2>1, <2>8
    <3>2. FarKnows'
      BY <1>1, <1>3, <2>6, <3>1 DEF FarKnows, Whole
    <3>. QED
      BY <1>1, <1>3, <1>4, <2>4, <3>1, <3>2, FarStep DEF Whole
  <2>. QED
    BY <2>7, <2>8
<1>6. CASE Spoil
  <2>1. PICK n \in {"plain", "age"}, m \in MemberSet : far' = [far EXCEPT ![n].spoilt = @ \cup {m}]
    <3>1. \A i \in 1..4 : Members[i] \in MemberSet
      BY DEF Members, MemberSet
    <3>2. PICK written : written = {Members[i] : i \in 1..4}
      OBVIOUS
    <3>3. written \subseteq MemberSet
      BY <3>1, <3>2
    <3>4. \E n \in {"plain", "age"}, m \in written : far' = [far EXCEPT ![n].spoilt = @ \cup {m}]
      BY <1>6, <3>2 DEF Spoil
    <3>. QED
      BY <3>3, <3>4, Zenon
  <2>2. PICK g : g = [far[n] EXCEPT !.spoilt = @ \cup {m}]
    OBVIOUS
  <2>3. g \in FileSet /\ g.there = far[n].there /\ g.sealed = far[n].sealed /\ Whole(g) = Whole(far[n])
    BY <1>1, <1>2, <2>2, SpoilFacts
  <2>4. far' = [far EXCEPT ![n] = g]
    BY <1>1, <1>2, <2>1, <2>2
  <2>5. far' \in [FileNames -> FileSet] /\ far'[n] = g /\ \A k \in {"plain", "age", "header"} \ {n} : far'[k] = far[k]
    BY <1>1, <1>2, <2>3, <2>4
  <2>6. /\ far'["age"].there = far["age"].there /\ Whole(far'["age"]) = Whole(far["age"])
        /\ far'["header"] = far["header"] /\ far'["plain"].sealed = far["plain"].sealed
    BY <2>3, <2>5
  <2>7. FarKnows'
    BY <1>1, <1>3, <2>6 DEF FarKnows, Whole
  <2>. QED
    BY <1>1, <1>3, <1>4, <2>5, <2>6, <2>7, FarStep
<1>7. CASE PruneObject
  <2>1. PICK n \in {"age", "header"} : far' = [far EXCEPT ![n] = Nothing]
    BY <1>7 DEF PruneObject
  <2>2. /\ far' \in [FileNames -> FileSet] /\ far'["plain"] = far["plain"]
        /\ \A m \in {"age", "header"} : far'[m] \in {far[m], Nothing}
    BY <1>1, <1>2, <2>1, FileFacts
  <2>3. (far'["age"].there => far'["age"] = far["age"]) /\ (far'["header"].there => far["header"].there)
    BY <2>2, FileFacts
  <2>4. FarKnows'
    BY <1>1, <1>3, <2>2, <2>3 DEF FarKnows, Whole
  <2>. QED
    BY <1>1, <1>3, <1>4, <2>2, <2>3, <2>4, FarStep DEF Whole
<1>. QED
  BY <1>5, <1>6, <1>7

LEMMA FetchingKept == ASSUME TransitInv, Fetch PROVE TransitInv'
<1> DEFINE Fetches == [at : FetchSteps, from : {"none", "newest", "named", "https", "local"}, size : Nat]
<1>1. /\ host \in [FileNames -> FileSet] /\ far \in [FileNames -> FileSet] /\ near \in [FileNames -> FileSet]
      /\ fetch \in Fetches /\ harm \in Nat
      /\ \A n \in FileNames : host[n] \in FileSet /\ far[n] \in FileSet /\ near[n] \in FileSet
      /\ SenderKnows /\ FarKnows /\ NearKnows
  BY DEF TransitInv, TransitTypes
<1>2. {"plain", "age", "header", "plain.partial", "age.partial", "header.partial"} \subseteq FileNames
  BY DEF FileNames, Names
<1>3. ASSUME NEW step \in FetchSteps, FetchGoes(step)
      PROVE  fetch' \in Fetches /\ fetch'.at = step /\ fetch'.from = fetch.from
  BY <1>1, <1>3 DEF FetchGoes
<1>4. Harmed \/ Unharmed => harm' \in Nat
  BY <1>1 DEF Harmed, Unharmed
<1>5. \A n \in FileNames : Size(far[n]) \in Nat
  <2>1. ASSUME NEW n \in FileNames PROVE Size(far[n]) \in Nat
    <3>1. far[n].body \in Bodies
      BY <1>1 DEF FileSet
    <3>2. Len(far[n].body) \in Nat
      BY <3>1, PrefixFacts
    <3>3. PICK length \in Nat, half \in {0, 1} : length = Len(far[n].body) /\ half = IF far[n].torn THEN 1 ELSE 0
      BY <3>2
    <3>4. Size(far[n]) = 2 * length + half
      BY <3>3 DEF Size
    <3>. QED
      BY <3>4
  <2>. QED
    BY <2>1
\* A fetch that goes on or ends with the archives it has.
<1>6. ASSUME near' \in [FileNames -> FileSet], Here, harm' \in Nat, NEW step \in FetchSteps \ {"idle", "members", "accepted"},
             FetchGoes(step), fetch.at # "idle", near'["plain"] = near["plain"], near'["age"] \in {near["age"], Nothing},
             step = "pull" => near'["age.partial"] = near["age.partial"] /\ fetch.at = "pull"
      PROVE  TransitInv'
  <2>1. fetch' \in Fetches /\ fetch'.at = step /\ fetch'.from = fetch.from
    BY <1>3, <1>6
  <2>2. near'["age"].there => near'["age"] = near["age"]
    BY <1>6, FileFacts
  <2>3. NearKnows'
    BY <1>1, <1>6, <2>1, <2>2 DEF NearKnows, Here, Whole
  <2>. QED
    BY <1>6, <2>1, <2>3, FetchStep DEF Here
<1>7. ASSUME PickRemote PROVE TransitInv'
  <2>1. PICK from \in {"newest", "named"}, size \in Nat :
          fetch' = [at |-> "pull", from |-> from, size |-> size] /\ (from = "newest" => Readable(far["header"]))
    <3>1. PICK size \in Nat : size = Size(far["age"])
      BY <1>2, <1>5
    <3>. QED
      BY <1>7, <3>1 DEF PickRemote
  <2>2. fetch' \in Fetches /\ fetch'.at = "pull" /\ fetch'.from = from
    BY <2>1 DEF FetchSteps
  <2>3. near' = near /\ UNCHANGED <<host, far, kind, sender>> /\ harm' \in Nat /\ kind # "web" /\ \A n \in FileNames : near[n] = Nothing
    BY <1>1, <1>4, <1>7 DEF PickRemote, Here, NearKnows, Is
  <2>4. from = "newest" => far["header"].there
    BY <2>1 DEF Readable
  <2>5. from = "newest" => sender.at \notin Early /\ (far["age"].there => Whole(far["age"]))
    BY <1>1, <2>3, <2>4 DEF FarKnows
  <2>6. NearKnows'
    BY <1>2, <2>2, <2>3, <2>5, FileFacts DEF NearKnows, Whole
  <2>. QED
    BY <1>1, <2>2, <2>3, <2>6, FetchStep
<1>8. ASSUME Download PROVE TransitInv'
  <2>1. PICK n \in {"age", "header"} :
          /\ fetch.at = IF n = "age" THEN "pull" ELSE "pull header"
          /\ \/ Unharmed /\ UNCHANGED fetch /\ near' = [near EXCEPT ![Partial(n)] = far[n]] /\ far[n].there
             \/ /\ Unharmed /\ FetchGoes(IF n = "age" THEN "pull header" ELSE "size") /\ near[Partial(n)].there
                /\ near' = [near EXCEPT ![n] = near[Partial(n)], ![Partial(n)] = Nothing]
             \/ /\ near' = [near EXCEPT ![Partial(n)] = Nothing, !["age"] = Nothing] /\ FetchGoes("refused")
                /\ Harmed \/ Unharmed
    <3>1. CASE fetch.at = "pull"
      BY <1>8, <3>1 DEF Download, Is
    <3>2. CASE fetch.at = "pull header"
      BY <1>8, <3>2 DEF Download, Is
    <3>. QED
      BY <1>8, <3>1, <3>2 DEF Download
  <2>2. Here /\ harm' \in Nat /\ n \in FileNames /\ Partial(n) = (IF n = "age" THEN "age.partial" ELSE "header.partial") /\ fetch.at # "idle"
    BY <1>2, <1>4, <1>8, <2>1, NameFacts DEF Download
  <2>3. CASE Unharmed /\ UNCHANGED fetch /\ near' = [near EXCEPT ![Partial(n)] = far[n]] /\ far[n].there
    <3>1. /\ near' \in [FileNames -> FileSet] /\ near'["plain"] = near["plain"] /\ near'["age"] = near["age"]
          /\ n = "age" => near'["age.partial"] = far["age"]
          /\ n = "header" => near'["age.partial"] = near["age.partial"]
      BY <1>1, <1>2, <2>2, <2>3
    <3>2. NearKnows'
      <4>1. CASE n = "age"
        BY <1>1, <2>1, <2>2, <2>3, <3>1, <4>1 DEF NearKnows, Here, Whole
      <4>2. CASE n = "header"
        BY <1>1, <2>1, <2>2, <2>3, <3>1, <4>2 DEF NearKnows, Here, Whole
      <4>. QED
        BY <4>1, <4>2
    <3>. QED
      BY <1>1, <2>2, <2>3, <3>1, <3>2, FetchStep DEF Here
  <2>4. CASE /\ Unharmed /\ FetchGoes(IF n = "age" THEN "pull header" ELSE "size") /\ near[Partial(n)].there
             /\ near' = [near EXCEPT ![n] = near[Partial(n)], ![Partial(n)] = Nothing]
    <3>1. CASE n = "age"
      <4>1. near' \in [FileNames -> FileSet] /\ near'["plain"] = near["plain"] /\ near'["age"] = near["age.partial"]
        BY <1>1, <1>2, <2>2, <2>4, <3>1, FileFacts
      <4>2. fetch' \in Fetches /\ fetch'.at = "pull header" /\ fetch'.from = fetch.from
        BY <1>3, <2>4, <3>1 DEF FetchSteps
      <4>3. NearKnows'
        BY <1>1, <2>1, <2>2, <3>1, <4>1, <4>2 DEF NearKnows, Here, Whole
      <4>. QED
        BY <2>2, <4>1, <4>2, <4>3, FetchStep DEF Here
    <3>2. CASE n = "header"
      <4>1. near' \in [FileNames -> FileSet] /\ near'["plain"] = near["plain"] /\ near'["age"] = near["age"]
        BY <1>1, <1>2, <2>2, <2>4, <3>2, FileFacts
      <4>2. FetchGoes("size")
        BY <2>4, <3>2
      <4>. QED
        BY <1>6, <2>2, <4>1, <4>2 DEF FetchSteps
    <3>. QED
      BY <3>1, <3>2
  <2>5. CASE near' = [near EXCEPT ![Partial(n)] = Nothing, !["age"] = Nothing] /\ FetchGoes("refused")
    <3>1. near' \in [FileNames -> FileSet] /\ near'["plain"] = near["plain"] /\ near'["age"] = Nothing
      BY <1>1, <1>2, <2>2, <2>5, FileFacts
    <3>. QED
      BY <1>6, <2>2, <2>5, <3>1 DEF FetchSteps
  <2>. QED
    BY <2>1, <2>3, <2>4, <2>5
<1>9. ASSUME CheckSize PROVE TransitInv'
  <2>1. Here /\ harm' \in Nat /\ fetch.at # "idle"
    BY <1>4, <1>9 DEF CheckSize, Is
  <2>2. CASE UNCHANGED near /\ FetchGoes("decrypt")
    BY <1>1, <1>6, <2>1, <2>2 DEF FetchSteps
  <2>3. CASE near' = [near EXCEPT !["age"] = Nothing, !["header"] = Nothing] /\ FetchGoes("refused")
    <3>1. near' \in [FileNames -> FileSet] /\ near'["plain"] = near["plain"] /\ near'["age"] = Nothing
      BY <1>1, <1>2, <2>3, FileFacts
    <3>. QED
      BY <1>6, <2>1, <2>3, <3>1 DEF FetchSteps
  <2>. QED
    BY <1>9, <2>2, <2>3 DEF CheckSize
\* What comes from a web server or the host itself.
<1>10. ASSUME NEW n \in {"plain", "age"}, NEW g \in FileSet, n = "plain" => ~g.sealed, near' = [near EXCEPT ![n] = g], Here,
              harm' \in Nat, fetch.at = "idle", NEW from \in {"https", "local"}, NEW step \in {"decrypt", "peek"},
              fetch' = [at |-> step, from |-> from, size |-> 0]
       PROVE  TransitInv'
  <2>1. fetch' \in Fetches /\ fetch'.at = step /\ fetch'.from = from
    BY <1>10 DEF FetchSteps
  <2>2. near' \in [FileNames -> FileSet] /\ (n = "age" => near'["plain"] = Nothing) /\ (n = "plain" => near'["plain"] = g)
    BY <1>1, <1>2, <1>10 DEF NearKnows
  <2>3. ~near'["plain"].sealed
    BY <1>10, <2>2, FileFacts
  <2>4. NearKnows'
    BY <1>10, <2>1, <2>3 DEF NearKnows
  <2>. QED
    BY <1>10, <2>1, <2>2, <2>4, FetchStep DEF Here
<1>11. ASSUME HttpGet PROVE TransitInv'
  <2>1. Here /\ harm' \in Nat /\ fetch.at = "idle"
    BY <1>4, <1>11 DEF HttpGet, Is
  <2>2. PICK n \in {"plain", "age"} :
          \/ \E g \in {far[n]} \cup Cuts(far[n]) :
               /\ near' = [near EXCEPT ![n] = g]
               /\ fetch' = [at |-> IF n = "age" THEN "decrypt" ELSE "peek", from |-> "https", size |-> 0]
          \/ UNCHANGED near /\ fetch' = [at |-> "refused", from |-> "https", size |-> 0]
    BY <1>11 DEF HttpGet
  <2>3. CASE \E g \in {far[n]} \cup Cuts(far[n]) :
               /\ near' = [near EXCEPT ![n] = g]
               /\ fetch' = [at |-> IF n = "age" THEN "decrypt" ELSE "peek", from |-> "https", size |-> 0]
    <3>1. PICK g \in {far[n]} \cup Cuts(far[n]), step \in {"decrypt", "peek"} :
            near' = [near EXCEPT ![n] = g] /\ fetch' = [at |-> step, from |-> "https", size |-> 0]
      BY <2>3
    <3>2. g \in FileSet /\ g.sealed = far[n].sealed
      BY <1>1, <1>2, <3>1, CutFacts
    <3>3. n = "plain" => ~g.sealed
      BY <1>1, <3>2 DEF FarKnows
    <3>. QED
      BY <1>10, <2>1, <3>1, <3>2, <3>3
  <2>4. CASE UNCHANGED near /\ fetch' = [at |-> "refused", from |-> "https", size |-> 0]
    <3>1. fetch' \in Fetches /\ fetch'.at = "refused" /\ fetch'.from = "https"
      BY <2>4 DEF FetchSteps
    <3>2. NearKnows'
      BY <1>1, <2>4, <3>1 DEF NearKnows
    <3>. QED
      BY <1>1, <2>1, <2>4, <3>1, <3>2, FetchStep DEF Here
  <2>. QED
    BY <2>2, <2>3, <2>4
<1>12. ASSUME ReadLocal PROVE TransitInv'
  <2>1. Here /\ harm' \in Nat /\ fetch.at = "idle"
    BY <1>4, <1>12 DEF ReadLocal, Is
  <2>2. PICK n \in {"plain", "age"}, step \in {"decrypt", "peek"} :
          near' = [near EXCEPT ![n] = host[n]] /\ fetch' = [at |-> step, from |-> "local", size |-> 0]
    BY <1>12 DEF ReadLocal
  <2>3. host[n] \in FileSet /\ (n = "plain" => ~host[n].sealed)
    BY <1>1, <1>2 DEF SenderKnows
  <2>. QED
    BY <1>10, <2>1, <2>2, <2>3
<1>13. ASSUME Decrypt PROVE TransitInv'
  <2>1. Here /\ harm' \in Nat /\ fetch.at = "decrypt"
    BY <1>4, <1>13 DEF Decrypt, Is
  <2>2. CASE near["age"].spoilt = {} /\ near' = [near EXCEPT !["plain"] = near["age"]] /\ FetchGoes("peek")
    <3>1. near' \in [FileNames -> FileSet] /\ near'["plain"] = near["age"] /\ near'["age"] = near["age"]
      BY <1>1, <1>2, <2>2
    <3>2. fetch' \in Fetches /\ fetch'.at = "peek" /\ fetch'.from = fetch.from
      BY <1>3, <2>2 DEF FetchSteps
    <3>3. NearKnows'
      BY <1>1, <2>1, <2>2, <3>1, <3>2 DEF NearKnows, Here, Whole
    <3>. QED
      BY <2>1, <3>1, <3>2, <3>3, FetchStep DEF Here
  <2>3. CASE UNCHANGED near /\ FetchGoes("refused")
    BY <1>1, <1>6, <2>1, <2>3 DEF FetchSteps
  <2>. QED
    BY <1>13, <2>2, <2>3 DEF Decrypt
<1>14. ASSUME PeekHeader PROVE TransitInv'
  <2>1. PICK step \in {"extract", "refused"} : FetchGoes(step)
    BY <1>14 DEF PeekHeader
  <2>2. Here /\ harm' \in Nat /\ fetch.at # "idle" /\ near' = near
    BY <1>4, <1>14 DEF PeekHeader, Is
  <2>. QED
    BY <1>1, <1>6, <2>1, <2>2 DEF FetchSteps
<1>15. ASSUME Extract PROVE TransitInv'
  <2>1. Here /\ harm' \in Nat /\ fetch.at # "idle" /\ near' = near
    BY <1>4, <1>15 DEF Extract, Is
  <2>2. CASE Extracts(near["plain"]) /\ FetchGoes("members")
    <3>1. fetch' \in Fetches /\ fetch'.at = "members" /\ fetch'.from = fetch.from
      BY <1>3, <2>2 DEF FetchSteps
    <3>2. near["plain"].body \in Bodies
      BY <1>1, <1>2 DEF FileSet
    <3>3. Whole(near["plain"])
      BY <2>2, <3>2, WholeFacts DEF Extracts, Whole
    <3>4. NearKnows'
      BY <1>1, <2>1, <3>1, <3>3 DEF NearKnows, Here, Whole
    <3>. QED
      BY <1>1, <2>1, <3>1, <3>4, FetchStep DEF Here
  <2>3. CASE FetchGoes("refused")
    BY <1>1, <1>6, <2>1, <2>3 DEF FetchSteps
  <2>. QED
    BY <1>15, <2>2, <2>3 DEF Extract
<1>16. ASSUME VerifyMembers PROVE TransitInv'
  <2>1. Here /\ harm' \in Nat /\ fetch.at = "members" /\ near' = near
    BY <1>4, <1>16 DEF VerifyMembers, Is
  <2>2. CASE Verified(near["plain"]) /\ FetchGoes("accepted")
    <3>1. fetch' \in Fetches /\ fetch'.at = "accepted" /\ fetch'.from = fetch.from
      BY <1>3, <2>2 DEF FetchSteps
    <3>2. near["plain"].spoilt \subseteq MemberSet
      BY <1>1, <1>2 DEF FileSet
    <3>3. "header" \notin near["plain"].spoilt /\ "db" \notin near["plain"].spoilt /\ "files" \notin near["plain"].spoilt
      <4>1. Members[1] = "header" /\ Members[2] = "db" /\ Members[3] = "files"
        BY DEF Members
      <4>2. Members[1] \notin near["plain"].spoilt /\ Members[2] \notin near["plain"].spoilt /\ Members[3] \notin near["plain"].spoilt
        BY <2>2 DEF Verified
      <4>. QED
        BY <4>1, <4>2
    <3>4. near["plain"].spoilt \subseteq {"manifest"}
      BY <3>2, <3>3 DEF MemberSet
    <3>5. NearKnows'
      BY <1>1, <2>1, <3>1, <3>4 DEF NearKnows, Here, Whole
    <3>. QED
      BY <1>1, <2>1, <3>1, <3>5, FetchStep DEF Here
  <2>3. CASE FetchGoes("refused")
    BY <1>1, <1>6, <2>1, <2>3 DEF FetchSteps
  <2>. QED
    BY <1>16, <2>2, <2>3 DEF VerifyMembers
<1>17. ASSUME FetchKilled PROVE TransitInv'
  <2>1. Here /\ harm' \in Nat /\ fetch.at # "idle" /\ FetchGoes("refused")
    BY <1>4, <1>17 DEF FetchKilled
  <2>2. near' = near \/ \E n \in {"age", "header"} : \E f \in Cuts(near[Partial(n)]) : near' = [near EXCEPT ![Partial(n)] = f]
    BY <1>17 DEF FetchKilled
  <2>3. CASE near' = near
    BY <1>1, <1>6, <2>1, <2>3 DEF FetchSteps
  <2>4. CASE \E n \in {"age", "header"} : \E f \in Cuts(near[Partial(n)]) : near' = [near EXCEPT ![Partial(n)] = f]
    <3>1. PICK n \in {"age", "header"} : \E f \in Cuts(near[Partial(n)]) : near' = [near EXCEPT ![Partial(n)] = f]
      BY <2>4
    <3>2. PICK f \in Cuts(near[Partial(n)]) : near' = [near EXCEPT ![Partial(n)] = f]
      BY <3>1
    <3>3. Partial(n) \in {"age.partial", "header.partial"}
      BY NameFacts
    <3>4. f \in FileSet
      BY <1>1, <1>2, <3>2, <3>3, CutFacts
    <3>5. near' \in [FileNames -> FileSet] /\ near'["plain"] = near["plain"] /\ near'["age"] = near["age"]
      BY <1>1, <1>2, <3>2, <3>3, <3>4
    <3>. QED
      BY <1>6, <2>1, <3>5 DEF FetchSteps
  <2>. QED
    BY <2>2, <2>3, <2>4
<1>. QED
  BY <1>7, <1>8, <1>9, <1>11, <1>12, <1>13, <1>14, <1>15, <1>16, <1>17 DEF Fetch

LEMMA TransitInvKept == TransitInv /\ [TransitNext]_tvars => TransitInv'
<1>. SUFFICES ASSUME TransitInv, [TransitNext]_tvars PROVE TransitInv'
  OBVIOUS
<1>1. CASE UNCHANGED tvars
  <2>1. TransitTypes'
    BY <1>1 DEF TransitInv, TransitTypes, tvars
  <2>2. SenderKnows'
    BY <1>1 DEF TransitInv, SenderKnows, Whole, tvars
  <2>3. FarKnows' /\ NearKnows'
    BY <1>1 DEF TransitInv, FarKnows, NearKnows, Whole, tvars
  <2>. QED
    BY <2>1, <2>2, <2>3 DEF TransitInv
<1>. QED
  BY <1>1, SendingKept, PlacedKept, FetchingKept DEF TransitNext

-----------------------------------------------------------------------------
(* Archives on their way: theorems *)

\* TransitInv always holds.
THEOREM TransitAlways == TransitSpec => []TransitInv
BY TransitInvInit, TransitInvKept, PTL DEF TransitSpec

\* What a restore or a verification accepts is what the backup wrote, and a file
\* with the name of an archive is a whole one: on the host, where it was put and
\* where it was pulled to (archive.go, Extract; backup.go, uploadArchive).
THEOREM ArchivesAreWhole == TransitSpec => []ArchivesWhole
<1>1. TransitInv => ArchivesWhole
  <2>. SUFFICES ASSUME TransitInv PROVE ArchivesWhole
    OBVIOUS
  <2>1. SenderKnows /\ FarKnows /\ NearKnows
    BY DEF TransitInv
  <2>2. AcceptedWhole
    BY <2>1 DEF AcceptedWhole, NearKnows, Is
  <2>3. LandedWhole
    BY <2>1 DEF LandedWhole, SenderKnows, FarKnows, NearKnows, Readable
  <2>. QED
    BY <2>2, <2>3 DEF ArchivesWhole
<1>. QED
  BY <1>1, TransitAlways, PTL
=============================================================================
