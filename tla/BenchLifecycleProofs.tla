------------------------ MODULE BenchLifecycleProofs ------------------------
(***************************************************************************)
(* Proofs about BenchLifecycle, for any processes, names, aliases, ports,  *)
(* operations and number of faults.  TypeInv is inductive: it adds to      *)
(* TypeOK what each step knows of its call (StepOK) and which steps hold   *)
(* the lock of their bench (LockOK).  SafeInv, CompleteInv and TidyInv     *)
(* build on it, each on the one before: what the steps of a call rely on   *)
(* about records and sites, what is there of a tracked bench, and what is  *)
(* left of an untracked one.                                               *)
(***************************************************************************)
EXTENDS BenchLifecycle, BenchRecordsProofs

Making    == {"exists", "alloc"} \cup Building \cup Undoing
Makers    == {"create", "recreate"}
Removers  == {"delete", "recreate"}

\* What is known at step s of call c, with the record v read and port pair k.
StepOK(s, c, v, k) ==
  /\ s # "idle" => c \in Calls
  /\ s = "read" => c.kind # "create"
  /\ s = "check" => c.kind \in {"create", "recreate", "domainAdd"}
  /\ s = "lock" => c.kind \in Makers \cup Removers
  /\ s \in Making => c.kind \in Makers
  /\ s \in Saving \cup Tearing => c.kind \in Removers
  /\ s = "reread" => c.kind = "delete"
  /\ s \in {"update", "render", "apply"} => c.kind \in {"domainAdd", "domainRemove"}
  /\ s \notin {"idle", "read"} /\ c.kind # "create" => v \in Values
  /\ s \in Building => k \in Ports

\* The steps that a process does under the lock of its bench.
Holds(s, c) == s \in Making \cup Tearing \cup Saving \/ (s = "check" /\ c.kind = "recreate")

LocalOK ==
  /\ pc \in [Procs -> Steps]
  /\ call \in [Procs -> Calls \cup {Idle}]
  /\ seen \in [Procs -> Values \cup {Idle}]
  /\ port \in [Procs -> 0..MaxPort]
  /\ \A p \in Procs : StepOK(pc[p], call[p], seen[p], port[p])

LockOK ==
  /\ lock \in [Names -> Procs \cup {Free}]
  /\ \A p \in Procs : Holds(pc[p], call[p]) => lock[call[p].name] = p

BenchOK ==
  /\ dir \in [Names -> Values \cup {NoDir, Bare}]
  /\ cont \in [Names -> [state : {"none", "stopped", "up"}, port : 0..MaxPort]]
  /\ data \in [Names -> {"none", "unfinished", "site"}]

HistoryOK ==
  /\ faults \in 0..MaxFaults
  /\ expendable \subseteq Names /\ leftover \subseteq Names
  /\ promised \in [Names -> SUBSET Hosts]

TypeInv == reg \in Seq(Record) /\ LocalOK /\ LockOK /\ BenchOK /\ HistoryOK

\* The invariant says at least what TypeOK says.
LEMMA TypeInvImpliesTypeOK == TypeInv => TypeOK
  BY DEF TypeInv, LocalOK, LockOK, BenchOK, HistoryOK, TypeOK

-----------------------------------------------------------------------------
(* How a step moves a process *)

\* Step s may come next for p.
Follows(p, s) ==
  /\ s \in Steps
  /\ StepOK(s, call[p], seen[p], port[p])
  /\ Holds(s, call[p]) => lock[call[p].name] = p

\* A process goes to a step that may come next.
LEMMA GotoKeeps ==
  ASSUME TypeInv, NEW p \in Procs, NEW s, Follows(p, s), Goto(p, s), lock' = lock
  PROVE  LocalOK' /\ LockOK'
<1> USE DEF TypeInv, Follows, Goto
<1>1. LocalOK'
  BY DEF LocalOK
<1>2. LockOK'
  BY DEF LockOK, LocalOK
<1> QED
  BY <1>1, <1>2

\* The same, with the record it just read.
LEMMA GotoWithKeeps ==
  ASSUME TypeInv, NEW p \in Procs, NEW s, NEW v \in Values, GotoWith(p, s, v), lock' = lock,
         s \in Steps, StepOK(s, call[p], v, port[p]),
         Holds(s, call[p]) => lock[call[p].name] = p
  PROVE  LocalOK' /\ LockOK'
<1> USE DEF TypeInv, GotoWith
<1>1. LocalOK'
  BY DEF LocalOK
<1>2. LockOK'
  BY DEF LockOK, LocalOK
<1> QED
  BY <1>1, <1>2

\* A process returns and gives back only its own locks.
LEMMA ReturnKeeps ==
  ASSUME TypeInv, NEW p \in Procs, Return(p)
  PROVE  LocalOK' /\ LockOK'
<1> USE DEF TypeInv, Return
<1>1. LocalOK'
  <2>1. StepOK("idle", Idle, Idle, 0)
    BY DEF StepOK, Making, Building, Undoing, Saving, Tearing
  <2>2. 0 \in 0..MaxPort /\ "idle" \in Steps
    BY LifecycleAssumption DEF Steps
  <2> QED
    BY <2>1, <2>2 DEF LocalOK
<1>2. LockOK'
  <2>1. lock' \in [Names -> Procs \cup {Free}]
    BY DEF LockOK, Released
  <2>2. ~Holds("idle", Idle)
    BY DEF Holds, Making, Building, Undoing, Saving, Tearing
  <2>3. ASSUME NEW q \in Procs, Holds(pc'[q], call'[q])
        PROVE  lock'[call'[q].name] = q
    <3>1. q # p /\ pc'[q] = pc[q] /\ call'[q] = call[q]
      BY <2>2, <2>3 DEF LocalOK
    <3>2. pc[q] # "idle"
      BY <2>3, <3>1 DEF Holds, Making, Building, Undoing, Saving, Tearing
    <3>3. call[q] \in Calls /\ lock[call[q].name] = q
      BY <2>3, <3>1, <3>2 DEF LocalOK, LockOK, StepOK
    <3>4. call[q].name \in Names
      BY <3>3 DEF Calls
    <3> QED
      BY <3>1, <3>3, <3>4 DEF Released
  <2> QED
    BY <2>1, <2>3 DEF LockOK
<1> QED
  BY <1>1, <1>2

\* A call begins.
LEMMA BeginKeeps ==
  ASSUME TypeInv, NEW p \in Procs, NEW c \in Calls, Begin(p, c)
  PROVE  LocalOK' /\ LockOK'
<1> DEFINE s == IF c.kind # "create" THEN "read" ELSE IF c.hosts # {} THEN "check" ELSE "lock"
<1>1. /\ pc' = [pc EXCEPT ![p] = s] /\ call' = [call EXCEPT ![p] = c]
      /\ UNCHANGED <<seen, port, lock>>
  BY Zenon DEF Begin, shared
<1>2. s \in {"read", "check", "lock"} /\ (s = "read" <=> c.kind # "create")
  OBVIOUS
<1> HIDE DEF s
<1>3. s \in Steps /\ StepOK(s, c, seen[p], port[p]) /\ ~Holds(s, c)
  BY <1>2 DEF Steps, StepOK, Holds, Making, Makers, Removers, Building, Undoing, Saving, Tearing
<1>4. LocalOK'
  BY <1>1, <1>3 DEF TypeInv, LocalOK
<1>5. LockOK'
  BY <1>1, <1>3 DEF TypeInv, LocalOK, LockOK
<1> QED
  BY <1>4, <1>5

\* What a process in a call knows of it.
LEMMA InCall ==
  ASSUME TypeInv, NEW p \in Procs, pc[p] # "idle"
  PROVE  /\ StepOK(pc[p], call[p], seen[p], port[p])
         /\ call[p] \in Calls /\ name(p) \in Names /\ call[p].hosts \in SUBSET Hosts
         /\ kind(p) \in Kinds /\ call[p].backup \in BOOLEAN
  BY DEF TypeInv, LocalOK, StepOK, Calls, name, kind

\* The record an operation on a bench has read.
LEMMA SeenType ==
  ASSUME TypeInv, NEW p \in Procs, seen[p] \in Values
  PROVE  seen[p].port \in Ports /\ seen[p].hosts \in SUBSET Hosts
  BY ValuesAssumption

\* A bench is built with a port pair and aliases.
LEMMA PlannedType ==
  ASSUME TypeInv, NEW p \in Procs, pc[p] \in Building
  PROVE  Planned(p) \in Values
<1>1. StepOK(pc[p], call[p], seen[p], port[p]) /\ call[p].hosts \in SUBSET Hosts
  BY InCall DEF Building
<1>2. port[p] \in Ports
  BY <1>1 DEF StepOK
<1>3. kind(p) = "recreate" => seen[p] \in Values
  BY <1>1 DEF StepOK, Building, kind
<1>4. Wanted(p) \in SUBSET Hosts
  BY <1>1, <1>3, SeenType DEF Wanted
<1> QED
  BY <1>2, <1>4, ValuesAssumption DEF Planned

\* docker compose up keeps the types of the bench.
LEMMA UpType ==
  ASSUME TypeInv, NEW n \in Names, Up(n), dir' = dir
  PROVE  BenchOK'
<1>1. dir[n] \in Values
  BY DEF Up, CanUp
<1>2. dir[n].port \in 0..MaxPort
  BY <1>1, ValuesAssumption DEF Ports
<1>3. cont' \in [Names -> [state : {"none", "stopped", "up"}, port : 0..MaxPort]]
  BY <1>2 DEF Up, TypeInv, BenchOK
<1>4. data' \in [Names -> {"none", "unfinished", "site"}]
  BY DEF Up, WithVolumes, TypeInv, BenchOK
<1> QED
  BY <1>3, <1>4 DEF TypeInv, BenchOK

\* docker compose down keeps the types of the bench.
LEMMA DownType ==
  ASSUME TypeInv, NEW n \in Names, dir' = dir,
         cont' = [cont EXCEPT ![n] = NoContainers] \/ cont' = cont,
         data' = [data EXCEPT ![n] = "none"] \/ data' = data
  PROVE  BenchOK'
<1>1. 0 \in 0..MaxPort
  BY LifecycleAssumption
<1>2. NoContainers \in [state : {"none", "stopped", "up"}, port : 0..MaxPort]
  BY <1>1 DEF NoContainers
<1> QED
  BY <1>2 DEF TypeInv, BenchOK

\* docker compose stop keeps the type of the containers.
LEMMA StoppedType ==
  ASSUME TypeInv, NEW n \in Names
  PROVE  Stopped(n) \in [Names -> [state : {"none", "stopped", "up"}, port : 0..MaxPort]]
<1>1. cont[n] \in [state : {"none", "stopped", "up"}, port : 0..MaxPort]
  BY DEF TypeInv, BenchOK
<1> QED
  BY <1>1 DEF TypeInv, BenchOK, Stopped

\* The lowest free port is one of the ports.
LEMMA LowestPort ==
  ASSUME FreePorts # {}
  PROVE  (CHOOSE k \in FreePorts : \A j \in FreePorts : k <= j) \in Ports
<1>1. FreePorts \in SUBSET Nat /\ FreePorts \subseteq Ports
  BY DEF FreePorts, Ports
<1>2. \E k \in FreePorts : \A j \in FreePorts : k <= j
  BY <1>1, LeastNumber
<1> QED
  BY <1>1, <1>2

-----------------------------------------------------------------------------
(* Every step keeps what processes know, and their locks *)

\* The record that Get finds.
LEMMA GetType ==
  ASSUME TypeInv, NEW n \in Names, Exists(reg, n)
  PROVE  Get(reg, n).val \in Values
<1>1. reg \in Seq(Record)
  BY DEF TypeInv
<1>2. FirstNamed(reg, n) \in DOMAIN reg
  BY <1>1, FirstNamedType
<1> HIDE DEF FirstNamed
<1>3. reg[FirstNamed(reg, n)] \in Record
  BY <1>1, <1>2
<1> QED
  BY <1>3 DEF Get, Record

\* GetBench goes where the kind of the call goes with a record.
LEMMA ReadKeeps ==
  ASSUME TypeInv, NEW p \in Procs, Read(p)
  PROVE  LocalOK' /\ LockOK'
<1> DEFINE b == Get(reg, name(p)).val
           s == AfterRead(call[p], b)
<1>1. CASE Return(p)
  BY <1>1, ReturnKeeps
<1>2. CASE Exists(reg, name(p)) /\ s # "idle" /\ GotoWith(p, s, b) /\ lock' = lock
  <2>1. pc[p] = "read" /\ name(p) \in Names /\ call[p] \in Calls /\ kind(p) \in Kinds
    BY InCall DEF Read, At
  <2>2. kind(p) # "create" /\ kind(p) = call[p].kind
    BY <2>1, InCall DEF StepOK, kind
  <2>3. b \in Values
    BY <2>1, <1>2, GetType
  <2> HIDE DEF b
  <2>4. /\ s \in {"lock", "home", "stop", "check", "update"}
        /\ s = "lock" => kind(p) \in Removers
        /\ s = "check" => kind(p) = "domainAdd"
        /\ s = "update" => kind(p) \in {"domainAdd", "domainRemove"}
    BY <1>2, <2>1, <2>2, KindsAssumption DEF AfterRead, Removers
  <2> HIDE DEF s
  <2>5. s \in Steps /\ StepOK(s, call[p], b, port[p]) /\ ~Holds(s, call[p])
    BY <2>1, <2>2, <2>3, <2>4
       DEF Steps, StepOK, Holds, Making, Makers, Removers, Building, Undoing, Saving, Tearing, Unlocked
  <2> QED
    BY <1>2, <2>3, <2>5, GotoWithKeeps
<1> QED
  BY <1>1, <1>2, Zenon DEF Read

\* The check of the aliases goes on or returns.
LEMMA CheckKeeps ==
  ASSUME TypeInv, NEW p \in Procs, Check(p)
  PROVE  LocalOK' /\ LockOK'
<1> DEFINE s == CASE kind(p) = "create"   -> "lock"
                  [] kind(p) = "recreate" -> "exists"
                  [] OTHER                -> "update"
<1>1. CASE Return(p)
  BY <1>1, ReturnKeeps
<1>2. CASE Goto(p, s) /\ lock' = lock
  <2>1. pc[p] = "check" /\ StepOK(pc[p], call[p], seen[p], port[p]) /\ kind(p) = call[p].kind
    BY InCall DEF Check, At, kind
  <2>2. \/ kind(p) = "create" /\ s = "lock"
        \/ kind(p) = "recreate" /\ s = "exists"
        \/ kind(p) = "domainAdd" /\ s = "update"
    BY <2>1 DEF StepOK
  <2> HIDE DEF s
  <2>3. Follows(p, s)
    BY <2>1, <2>2
       DEF Follows, Steps, StepOK, Holds, Making, Makers, Removers, Building, Undoing, Saving,
           Tearing, Unlocked, TypeInv, LockOK
  <2> QED
    BY <1>2, <2>3, GotoKeeps
<1> QED
  BY <1>1, <1>2, Zenon DEF Check

\* The lock goes to one process.
LEMMA TryLockKeeps ==
  ASSUME TypeInv, NEW p \in Procs, TryLock(p)
  PROVE  LocalOK' /\ LockOK'
<1> DEFINE s == IF kind(p) = "create" THEN "exists" ELSE "backup"
<1>1. CASE Return(p)
  BY <1>1, ReturnKeeps
<1>2. CASE lock[name(p)] = Free /\ lock' = [lock EXCEPT ![name(p)] = p] /\ Goto(p, s)
  <2>1. pc[p] = "lock" /\ StepOK(pc[p], call[p], seen[p], port[p]) /\ name(p) \in Names
        /\ kind(p) = call[p].kind /\ name(p) = call[p].name
    BY InCall DEF TryLock, At, kind, name
  <2>2. s \in Steps /\ StepOK(s, call[p], seen[p], port[p])
    BY <2>1 DEF Steps, StepOK, Making, Makers, Removers, Building, Undoing, Saving, Tearing
  <2> HIDE DEF s
  <2>3. LocalOK'
    BY <1>2, <2>2 DEF Goto, TypeInv, LocalOK
  <2>4. lock' \in [Names -> Procs \cup {Free}]
    BY <1>2, <2>1 DEF TypeInv, LockOK
  <2>5. ASSUME NEW q \in Procs, Holds(pc'[q], call'[q])
        PROVE  lock'[call'[q].name] = q
    <3>1. CASE q = p
      BY <1>2, <2>1, <3>1 DEF Goto, TypeInv, LockOK
    <3>2. CASE q # p
      <4>1. Holds(pc[q], call[q]) /\ call'[q] = call[q]
        BY <1>2, <2>5, <3>2 DEF Goto, TypeInv, LocalOK
      <4>2. lock[call[q].name] = q /\ q # Free
        BY <4>1, LifecycleAssumption DEF TypeInv, LockOK
      <4> QED
        BY <1>2, <4>1, <4>2 DEF TypeInv, LockOK
    <3> QED
      BY <3>1, <3>2
  <2> QED
    BY <2>3, <2>4, <2>5 DEF LockOK
<1> QED
  BY <1>1, <1>2, Zenon DEF TryLock

\* The pair that a build gets is one of the ports.
LEMMA AllocPortsKeeps ==
  ASSUME TypeInv, NEW p \in Procs, AllocPorts(p)
  PROVE  LocalOK' /\ LockOK'
<1>1. CASE Return(p)
  BY <1>1, ReturnKeeps
<1>2. ASSUME NEW k \in Ports, Build(p, k)
      PROVE  LocalOK' /\ LockOK'
  <2>1. pc[p] = "alloc" /\ StepOK(pc[p], call[p], seen[p], port[p])
    BY InCall DEF AllocPorts, At
  <2>2. "mkdir" \in Steps /\ StepOK("mkdir", call[p], seen[p], k) /\ k \in 0..MaxPort
    BY <2>1 DEF Steps, StepOK, Making, Makers, Removers, Building, Undoing, Saving, Tearing, Ports
  <2>3. Holds(pc[p], call[p])
    BY <2>1 DEF Holds, Making
  <2>4. LocalOK'
    BY <1>2, <2>2 DEF Build, TypeInv, LocalOK
  <2>5. LockOK'
    BY <1>2, <2>3 DEF Build, TypeInv, LocalOK, LockOK
  <2> QED
    BY <2>4, <2>5
<1>3. CASE FreePorts # {} /\ Build(p, CHOOSE k \in FreePorts : \A j \in FreePorts : k <= j)
  BY <1>2, <1>3, LowestPort, Zenon
<1>4. CASE kind(p) = "recreate" /\ Build(p, seen[p].port)
  <2>1. seen[p] \in Values
    BY <1>4, InCall DEF AllocPorts, At, StepOK, kind
  <2> QED
    BY <1>2, <1>4, <2>1, SeenType, Zenon
<1> QED
  BY <1>1, <1>3, <1>4, Zenon DEF AllocPorts

\* The alias list that an update is about to set.
LEMMA AliasesType ==
  ASSUME TypeInv, NEW p \in Procs, pc[p] = "update"
  PROVE  /\ Aliases(p) \in SUBSET Hosts
         /\ [seen[p] EXCEPT !.hosts = Aliases(p)] \in Values
<1>1. StepOK(pc[p], call[p], seen[p], port[p]) /\ call[p].hosts \in SUBSET Hosts
  BY InCall
<1>2. seen[p] \in Values
  BY <1>1 DEF StepOK
<1>3. Aliases(p) \in SUBSET Hosts
  BY <1>1, <1>2, SeenType DEF Aliases
<1> QED
  BY <1>2, <1>3, ValuesAssumption

\* Which step may come after which, for the steps that have one successor.
LEMMA Here ==
  ASSUME TypeInv, NEW p \in Procs
  PROVE  /\ pc[p] = "exists"   => Follows(p, "alloc")
         /\ pc[p] = "mkdir"    => Follows(p, "compose")
         /\ pc[p] = "compose"  => Follows(p, "image")
         /\ pc[p] = "image"    => Follows(p, "up")
         /\ pc[p] = "up"       => Follows(p, "site")
         /\ pc[p] = "site"     => Follows(p, "save")
         /\ pc[p] \in Building => Follows(p, "undoDown")
         /\ pc[p] = "undoDown" => Follows(p, "undoDir")
         /\ pc[p] = "backup"   => Follows(p, "dump") /\ Follows(p, "dumpStarted")
         /\ pc[p] \in {"backup", "dump", "dumpStarted"} => Follows(p, AfterBackup(p))
         /\ pc[p] = "down"     => Follows(p, "rmdir")
         /\ pc[p] = "rmdir"    => Follows(p, "remove")
         /\ pc[p] = "remove" /\ kind(p) = "recreate" => Follows(p, "exists") /\ Follows(p, "check")
         /\ pc[p] = "home"     => Follows(p, "startUp")
         /\ pc[p] = "render"   => Follows(p, "apply")
<1>1. pc[p] # "idle" => StepOK(pc[p], call[p], seen[p], port[p]) /\ kind(p) = call[p].kind
  BY InCall DEF kind
<1>2. Holds(pc[p], call[p]) => lock[call[p].name] = p
  BY DEF TypeInv, LockOK
<1> USE DEF Follows, Steps, StepOK, Holds, Making, Makers, Removers, Building, Undoing, Saving,
            Tearing, Unlocked
<1>3. /\ pc[p] = "exists"   => Follows(p, "alloc")
      /\ pc[p] = "mkdir"    => Follows(p, "compose")
      /\ pc[p] = "compose"  => Follows(p, "image")
      /\ pc[p] = "image"    => Follows(p, "up")
      /\ pc[p] = "up"       => Follows(p, "site")
      /\ pc[p] = "site"     => Follows(p, "save")
  BY <1>1, <1>2
<1>4. /\ pc[p] \in Building => Follows(p, "undoDown")
      /\ pc[p] = "undoDown" => Follows(p, "undoDir")
  BY <1>1, <1>2
<1>5. pc[p] = "backup"   => Follows(p, "dump") /\ Follows(p, "dumpStarted")
  BY <1>1, <1>2
<1>6. pc[p] \in {"backup", "dump", "dumpStarted"} => Follows(p, AfterBackup(p))
  BY <1>1, <1>2 DEF AfterBackup
<1>7. /\ pc[p] = "down"     => Follows(p, "rmdir")
      /\ pc[p] = "rmdir"    => Follows(p, "remove")
      /\ pc[p] = "remove" /\ kind(p) = "recreate" => Follows(p, "exists") /\ Follows(p, "check")
  BY <1>1, <1>2
<1>8. /\ pc[p] = "home"     => Follows(p, "startUp")
      /\ pc[p] = "render"   => Follows(p, "apply")
  BY <1>1, <1>2
<1> QED
  BY <1>3, <1>4, <1>5, <1>6, <1>7, <1>8

\* Every step of the work keeps what the processes know and their locks.
LEMMA WorkKeeps ==
  ASSUME TypeInv, NEW q \in Procs, Work(q)
  PROVE  LocalOK' /\ LockOK'
<1>1. ASSUME NEW p \in Procs, CheckExists(p)
      PROVE  LocalOK' /\ LockOK'
  <2>1. Return(p) \/ (Goto(p, "alloc") /\ lock' = lock)
    BY <1>1 DEF CheckExists
  <2>2. pc[p] = "exists"
    BY <1>1 DEF CheckExists, At
  <2>3. Follows(p, "alloc")
    BY <2>2, Here
  <2> QED
    BY <2>1, <2>3, ReturnKeeps, GotoKeeps
<1>2. ASSUME NEW p \in Procs, MakeDir(p)
      PROVE  LocalOK' /\ LockOK'
  <2>1. Goto(p, "compose") /\ lock' = lock /\ pc[p] = "mkdir"
    BY <1>2 DEF MakeDir, At
  <2>2. Follows(p, "compose")
    BY <2>1, Here
  <2> QED
    BY <2>1, <2>2, GotoKeeps
<1>3. ASSUME NEW p \in Procs, WriteCompose(p)
      PROVE  LocalOK' /\ LockOK'
  <2>1. Goto(p, "image") /\ lock' = lock /\ pc[p] = "compose"
    BY <1>3 DEF WriteCompose, At
  <2>2. Follows(p, "image")
    BY <2>1, Here
  <2> QED
    BY <2>1, <2>2, GotoKeeps
<1>4. ASSUME NEW p \in Procs, BuildImage(p)
      PROVE  LocalOK' /\ LockOK'
  <2>1. Goto(p, "up") /\ lock' = lock /\ pc[p] = "image"
    BY <1>4 DEF BuildImage, At, Goto
  <2>2. Follows(p, "up")
    BY <2>1, Here
  <2> QED
    BY <2>1, <2>2, GotoKeeps
<1>5. ASSUME NEW p \in Procs, BringUp(p)
      PROVE  LocalOK' /\ LockOK'
  <2>1. Goto(p, "site") /\ lock' = lock /\ pc[p] = "up"
    BY <1>5 DEF BringUp, At, Goto
  <2>2. Follows(p, "site")
    BY <2>1, Here
  <2> QED
    BY <2>1, <2>2, GotoKeeps
<1>6. ASSUME NEW p \in Procs, MakeSite(p)
      PROVE  LocalOK' /\ LockOK'
  <2>1. Goto(p, "save") /\ lock' = lock /\ pc[p] = "site"
    BY <1>6 DEF MakeSite, At, shared
  <2>2. Follows(p, "save")
    BY <2>1, Here
  <2> QED
    BY <2>1, <2>2, GotoKeeps
<1>7. ASSUME NEW p \in Procs, UndoDown(p)
      PROVE  LocalOK' /\ LockOK'
  <2>1. Goto(p, "undoDir") /\ lock' = lock /\ pc[p] = "undoDown"
    BY <1>7 DEF UndoDown, At
  <2>2. Follows(p, "undoDir")
    BY <2>1, Here
  <2> QED
    BY <2>1, <2>2, GotoKeeps
<1>8. ASSUME NEW p \in Procs, RemoveDir(p)
      PROVE  LocalOK' /\ LockOK'
  <2>1. Goto(p, "remove") /\ lock' = lock /\ pc[p] = "rmdir"
    BY <1>8 DEF RemoveDir, At
  <2>2. Follows(p, "remove")
    BY <2>1, Here
  <2> QED
    BY <2>1, <2>2, GotoKeeps
<1>9. ASSUME NEW p \in Procs, MakeHome(p)
      PROVE  LocalOK' /\ LockOK'
  <2>1. Goto(p, "startUp") /\ lock' = lock /\ pc[p] = "home"
    BY <1>9 DEF MakeHome, At
  <2>2. Follows(p, "startUp")
    BY <2>1, Here
  <2> QED
    BY <2>1, <2>2, GotoKeeps
<1>10. ASSUME NEW p \in Procs, Render(p)
      PROVE  LocalOK' /\ LockOK'
  <2>1. Goto(p, "apply") /\ lock' = lock /\ pc[p] = "render"
    BY <1>10 DEF Render, At
  <2>2. Follows(p, "apply")
    BY <2>1, Here
  <2> QED
    BY <2>1, <2>2, GotoKeeps
<1>11. ASSUME NEW p \in Procs, TearDown(p)
      PROVE  LocalOK' /\ LockOK'
  <2>1. Goto(p, "rmdir") /\ lock' = lock /\ pc[p] = "down"
    BY <1>11 DEF TearDown, At
  <2>2. Follows(p, "rmdir")
    BY <2>1, Here
  <2> QED
    BY <2>1, <2>2, GotoKeeps
<1>12. ASSUME NEW p \in Procs, Misread(p)
      PROVE  LocalOK' /\ LockOK'
  <2>1. Goto(p, "alloc") /\ lock' = lock /\ pc[p] = "exists"
    BY <1>12 DEF Misread, At, shared
  <2>2. Follows(p, "alloc")
    BY <2>1, Here
  <2> QED
    BY <2>1, <2>2, GotoKeeps
<1>13. ASSUME NEW p \in Procs, SaveBench(p)
      PROVE  LocalOK' /\ LockOK'
  BY <1>13, ReturnKeeps DEF SaveBench
<1>14. ASSUME NEW p \in Procs, UndoDir(p)
      PROVE  LocalOK' /\ LockOK'
  BY <1>14, ReturnKeeps DEF UndoDir
<1>15. ASSUME NEW p \in Procs, KeepOnFailure(p)
      PROVE  LocalOK' /\ LockOK'
  BY <1>15, ReturnKeeps DEF KeepOnFailure
<1>16. ASSUME NEW p \in Procs, StartUp(p)
      PROVE  LocalOK' /\ LockOK'
  BY <1>16, ReturnKeeps DEF StartUp
<1>17. ASSUME NEW p \in Procs, Stop(p)
      PROVE  LocalOK' /\ LockOK'
  BY <1>17, ReturnKeeps DEF Stop
<1>18. ASSUME NEW p \in Procs, ApplyChange(p)
      PROVE  LocalOK' /\ LockOK'
  BY <1>18, ReturnKeeps DEF ApplyChange
<1>19. ASSUME NEW p \in Procs, StartBackup(p)
      PROVE  LocalOK' /\ LockOK'
  <2>1. pc[p] = "backup"
    BY <1>19 DEF StartBackup, At
  <2>2. \/ Return(p)
        \/ Goto(p, AfterBackup(p)) /\ lock' = lock
        \/ Goto(p, "dump") /\ lock' = lock
        \/ Goto(p, "dumpStarted") /\ lock' = lock
    BY <1>19, Zenon DEF StartBackup
  <2>3. Follows(p, AfterBackup(p)) /\ Follows(p, "dump") /\ Follows(p, "dumpStarted")
    BY <2>1, Here
  <2> QED
    BY <2>2, <2>3, ReturnKeeps, GotoKeeps
<1>20. ASSUME NEW p \in Procs, Dump(p)
      PROVE  LocalOK' /\ LockOK'
  <2>1. Goto(p, AfterBackup(p)) /\ lock' = lock /\ pc[p] \in {"dump", "dumpStarted"}
    BY <1>20 DEF Dump
  <2>2. Follows(p, AfterBackup(p))
    BY <2>1, Here
  <2> QED
    BY <2>1, <2>2, GotoKeeps
<1>21. ASSUME NEW p \in Procs, RemoveBench(p)
      PROVE  LocalOK' /\ LockOK'
  <2>1. \/ Return(p)
        \/ kind(p) # "delete" /\ lock' = lock /\ (Goto(p, "exists") \/ Goto(p, "check"))
    BY <1>21, Zenon DEF RemoveBench
  <2>2. CASE Return(p)
    BY <2>2, ReturnKeeps
  <2>3. CASE kind(p) # "delete" /\ lock' = lock /\ (Goto(p, "exists") \/ Goto(p, "check"))
    <3>1. pc[p] = "remove" /\ kind(p) = "recreate"
      BY <1>21, <2>3, InCall DEF RemoveBench, At, StepOK, Removers, Tearing, kind
    <3>2. Follows(p, "exists") /\ Follows(p, "check")
      BY <3>1, Here
    <3> QED
      BY <2>3, <3>2, GotoKeeps
  <2> QED
    BY <2>1, <2>2, <2>3
<1>22. ASSUME NEW p \in Procs, Reread(p)
      PROVE  LocalOK' /\ LockOK'
  <2> DEFINE v == Get(reg, name(p)).val
  <2>1. CASE Return(p)
    BY <2>1, ReturnKeeps
  <2>2. CASE Exists(reg, name(p)) /\ GotoWith(p, "down", v) /\ lock' = lock
    <3>1. pc[p] = "reread" /\ name(p) \in Names /\ StepOK(pc[p], call[p], seen[p], port[p])
      BY <1>22, InCall DEF Reread, At
    <3>2. v \in Values
      BY <3>1, <2>2, GetType
    <3> HIDE DEF v
    <3>3. "down" \in Steps /\ StepOK("down", call[p], v, port[p])
      BY <3>1, <3>2 DEF Steps, StepOK, Making, Makers, Removers, Building, Undoing, Saving, Tearing
    <3>4. lock[call[p].name] = p
      BY <3>1 DEF TypeInv, LockOK, Holds, Saving
    <3> QED
      BY <2>2, <3>2, <3>3, <3>4, GotoWithKeeps
  <2> QED
    BY <1>22, <2>1, <2>2, Zenon DEF Reread
<1>23. ASSUME NEW p \in Procs, SetAliases(p)
      PROVE  LocalOK' /\ LockOK'
  <2> DEFINE v == [seen[p] EXCEPT !.hosts = Aliases(p)]
  <2>1. CASE Return(p)
    BY <2>1, ReturnKeeps
  <2>2. CASE GotoWith(p, "render", v) /\ lock' = lock
    <3>1. pc[p] = "update" /\ StepOK(pc[p], call[p], seen[p], port[p])
      BY <1>23, InCall DEF SetAliases, At
    <3>2. v \in Values
      BY <1>23, AliasesType DEF SetAliases, At
    <3> HIDE DEF v
    <3>3. "render" \in Steps /\ StepOK("render", call[p], v, port[p]) /\ ~Holds("render", call[p])
      BY <3>1, <3>2 DEF Steps, StepOK, Holds, Making, Makers, Removers, Building, Undoing, Saving,
                        Tearing, Unlocked
    <3> QED
      BY <2>2, <3>2, <3>3, GotoWithKeeps
  <2> QED
    BY <1>23, <2>1, <2>2, Zenon DEF SetAliases
<1>24. ASSUME NEW p \in Procs, Fail(p)
      PROVE  LocalOK' /\ LockOK'
  <2>1. Return(p) \/ (pc[p] \in Building /\ Goto(p, "undoDown") /\ lock' = lock)
    BY <1>24, Zenon DEF Fail
  <2>2. pc[p] \in Building => Follows(p, "undoDown")
    BY Here
  <2> QED
    BY <2>1, <2>2, ReturnKeeps, GotoKeeps
<1>25. ASSUME NEW p \in Procs, Warn(p)
      PROVE  LocalOK' /\ LockOK'
  <2>1. \/ Return(p)
        \/ pc[p] = "down" /\ Goto(p, "rmdir") /\ lock' = lock
        \/ pc[p] = "rmdir" /\ Goto(p, "remove") /\ lock' = lock
        \/ pc[p] = "undoDown" /\ Goto(p, "undoDir") /\ lock' = lock
    BY <1>25 DEF Warn, Warned, At
  <2>2. /\ pc[p] = "down"     => Follows(p, "rmdir")
        /\ pc[p] = "rmdir"    => Follows(p, "remove")
        /\ pc[p] = "undoDown" => Follows(p, "undoDir")
    BY Here
  <2> QED
    BY <2>1, <2>2, ReturnKeeps, GotoKeeps
<1> QED
  BY <1>1, <1>2, <1>3, <1>4, <1>5, <1>6, <1>7, <1>8, <1>9, <1>10, <1>11, <1>12, <1>13, <1>14, <1>15, <1>16, <1>17, <1>18, <1>19, <1>20, <1>21, <1>22, <1>23, <1>24, <1>25,
     ReadKeeps, CheckKeeps, TryLockKeeps, AllocPortsKeeps, Zenon DEF Work

-----------------------------------------------------------------------------
(* Every step keeps the types of records, benches and history *)

SharedOK == reg \in Seq(Record) /\ BenchOK /\ HistoryOK

\* A step that touches neither records nor benches nor history.
LEMMA Untouched ==
  ASSUME TypeInv, UNCHANGED <<reg, dir, cont, data>>, UNCHANGED history
  PROVE  SharedOK'
  BY DEF TypeInv, SharedOK, BenchOK, HistoryOK, history

\* Every step of the work keeps these types.
LEMMA WorkTypes ==
  ASSUME TypeInv, NEW q \in Procs, Work(q)
  PROVE  SharedOK'
<1>1. ASSUME NEW p \in Procs,
             Read(p) \/ Check(p) \/ TryLock(p) \/ CheckExists(p) \/ AllocPorts(p) \/ MakeSite(p)
             \/ Reread(p)
      PROVE  SharedOK'
  <2>1. UNCHANGED <<reg, dir, cont, data>> /\ UNCHANGED history
    BY <1>1 DEF Read, Check, TryLock, CheckExists, AllocPorts, MakeSite, Reread, shared
  <2> QED
    BY <2>1, Untouched
<1>2. ASSUME NEW p \in Procs, MakeDir(p)
      PROVE  SharedOK'
  <2>1. name(p) \in Names
    BY <1>2, InCall DEF MakeDir, At
  <2> QED
    BY <1>2, <2>1 DEF MakeDir, TypeInv, SharedOK, BenchOK, HistoryOK, history
<1>3. ASSUME NEW p \in Procs, WriteCompose(p)
      PROVE  SharedOK'
  <2>1. name(p) \in Names /\ Planned(p) \in Values
    BY <1>3, InCall, PlannedType DEF WriteCompose, At, Building
  <2> QED
    BY <1>3, <2>1 DEF WriteCompose, TypeInv, SharedOK, BenchOK, HistoryOK, history
<1>4. ASSUME NEW p \in Procs, BuildImage(p)
      PROVE  SharedOK'
  <2>1. name(p) \in Names
    BY <1>4, InCall DEF BuildImage, At
  <2> QED
    BY <1>4, <2>1 DEF BuildImage, TypeInv, SharedOK, BenchOK, HistoryOK, history, WithVolumes
<1>5. ASSUME NEW p \in Procs, BringUp(p)
      PROVE  SharedOK'
  <2>1. name(p) \in Names
    BY <1>5, InCall DEF BringUp, At
  <2>2. BenchOK'
    BY <1>5, <2>1, UpType DEF BringUp
  <2> QED
    BY <1>5, <2>2 DEF BringUp, TypeInv, SharedOK, HistoryOK, history
<1>6. ASSUME NEW p \in Procs, StartUp(p)
      PROVE  SharedOK'
  <2>1. name(p) \in Names
    BY <1>6, InCall DEF StartUp, At
  <2>2. BenchOK'
    BY <1>6, <2>1, UpType DEF StartUp
  <2> QED
    BY <1>6, <2>2 DEF StartUp, TypeInv, SharedOK, HistoryOK, history
<1>7. ASSUME NEW p \in Procs, SaveBench(p)
      PROVE  SharedOK'
  <2>1. name(p) \in Names /\ Planned(p) \in Values /\ Wanted(p) \in SUBSET Hosts
    BY <1>7, InCall, PlannedType, ValuesAssumption DEF SaveBench, At, Building, Planned
  <2> DEFINE b == [name |-> name(p), val |-> Planned(p)]
  <2>2. b \in Record
    BY <2>1 DEF Record
  <2>3. reg' \in Seq(Record)
    <3> HIDE DEF b
    <3>1. reg' = Append(reg, b)
      BY <1>7 DEF SaveBench, add, b
    <3> QED
      BY <3>1, <2>2 DEF TypeInv
  <2>4. BenchOK'
    BY <1>7, <2>1 DEF SaveBench, TypeInv, BenchOK
  <2>5. HistoryOK'
    <3>1. promised' = [promised EXCEPT ![name(p)] = IF kind(p) = "create" THEN Wanted(p) ELSE @]
      BY <1>7, Zenon DEF SaveBench
    <3>2. promised' \in [Names -> SUBSET Hosts]
      BY <3>1, <2>1 DEF TypeInv, HistoryOK
    <3> QED
      BY <1>7, <3>2 DEF SaveBench, TypeInv, HistoryOK
  <2> QED
    BY <2>3, <2>4, <2>5 DEF SharedOK
<1>8. ASSUME NEW p \in Procs, UndoDown(p)
      PROVE  SharedOK'
  <2>1. name(p) \in Names
    BY <1>8, InCall DEF UndoDown, At
  <2>2. /\ cont' = [cont EXCEPT ![name(p)] = NoContainers] \/ cont' = cont
        /\ data' = [data EXCEPT ![name(p)] = "none"] \/ data' = data
        /\ UNCHANGED <<reg, dir>> /\ UNCHANGED history
    BY <1>8 DEF UndoDown
  <2> QED
    BY <2>1, <2>2, DownType DEF TypeInv, SharedOK, HistoryOK, history
<1>9. ASSUME NEW p \in Procs, UndoDir(p)
      PROVE  SharedOK'
  <2>1. name(p) \in Names
    BY <1>9, InCall DEF UndoDir, At
  <2> QED
    BY <1>9, <2>1 DEF UndoDir, TypeInv, SharedOK, BenchOK, HistoryOK, history
<1>10. ASSUME NEW p \in Procs, KeepOnFailure(p)
      PROVE  SharedOK'
  <2>1. name(p) \in Names
    BY <1>10, InCall DEF KeepOnFailure, At
  <2> QED
    BY <1>10, <2>1 DEF KeepOnFailure, TypeInv, SharedOK, BenchOK, HistoryOK
<1>11. ASSUME NEW p \in Procs, StartBackup(p)
      PROVE  SharedOK'
  <2>1. name(p) \in Names
    BY <1>11, InCall DEF StartBackup, At
  <2>2. Up(name(p)) \/ UNCHANGED <<cont, data>>
    BY <1>11, Zenon DEF StartBackup
  <2>3. dir' = dir /\ reg' = reg /\ UNCHANGED history
    BY <1>11 DEF StartBackup
  <2>4. BenchOK'
    BY <2>1, <2>2, <2>3, UpType DEF TypeInv, BenchOK
  <2> QED
    BY <2>3, <2>4 DEF TypeInv, SharedOK, HistoryOK, history
<1>12. ASSUME NEW p \in Procs, Dump(p)
      PROVE  SharedOK'
  <2>1. name(p) \in Names
    BY <1>12, InCall DEF Dump
  <2>2. cont' = Stopped(name(p)) \/ cont' = cont
    BY <1>12, Zenon DEF Dump
  <2>3. cont' \in [Names -> [state : {"none", "stopped", "up"}, port : 0..MaxPort]]
    BY <2>1, <2>2, StoppedType DEF TypeInv, BenchOK
  <2> QED
    BY <1>12, <2>1, <2>3 DEF Dump, TypeInv, SharedOK, BenchOK, HistoryOK
<1>13. ASSUME NEW p \in Procs, TearDown(p)
      PROVE  SharedOK'
  <2>1. name(p) \in Names
    BY <1>13, InCall DEF TearDown, At
  <2>2. /\ cont' = [cont EXCEPT ![name(p)] = NoContainers] \/ cont' = cont
        /\ data' = [data EXCEPT ![name(p)] = "none"] \/ data' = data
        /\ UNCHANGED <<reg, dir, faults, promised>>
    BY <1>13, Zenon DEF TearDown
  <2>3. expendable' \subseteq Names /\ leftover' \subseteq Names
    BY <1>13, <2>1 DEF TearDown, GivenUp, TypeInv, HistoryOK
  <2> QED
    BY <2>1, <2>2, <2>3, DownType DEF TypeInv, SharedOK, HistoryOK
<1>14. ASSUME NEW p \in Procs, RemoveDir(p)
      PROVE  SharedOK'
  <2>1. name(p) \in Names
    BY <1>14, InCall DEF RemoveDir, At
  <2> QED
    BY <1>14, <2>1 DEF RemoveDir, TypeInv, SharedOK, BenchOK, HistoryOK, history
<1>15. ASSUME NEW p \in Procs, RemoveBench(p)
      PROVE  SharedOK'
  <2>1. name(p) \in Names
    BY <1>15, InCall DEF RemoveBench, At
  <2>2. reg' \in Seq(Record)
    <3>1. reg' \in Seq(Others(name(p)))
      BY <1>15, RemoveClears DEF RemoveBench, TypeInv
    <3>2. Others(name(p)) \subseteq Record
      BY DEF Others
    <3> QED
      BY <3>1, <3>2
  <2>3. promised' = [promised EXCEPT ![name(p)] = {}] \/ promised' = promised
    BY <1>15 DEF RemoveBench
  <2>4. promised' \in [Names -> SUBSET Hosts]
    BY <2>1, <2>3 DEF TypeInv, HistoryOK
  <2>5. UNCHANGED <<dir, cont, data, faults, expendable, leftover>>
    BY <1>15 DEF RemoveBench
  <2> QED
    BY <2>2, <2>4, <2>5 DEF TypeInv, SharedOK, BenchOK, HistoryOK
<1>16. ASSUME NEW p \in Procs, MakeHome(p)
      PROVE  SharedOK'
  <2>1. name(p) \in Names
    BY <1>16, InCall DEF MakeHome, At
  <2> QED
    BY <1>16, <2>1 DEF MakeHome, TypeInv, SharedOK, BenchOK, HistoryOK, history
<1>17. ASSUME NEW p \in Procs, Stop(p)
      PROVE  SharedOK'
  <2>1. name(p) \in Names
    BY <1>17, InCall DEF Stop, At
  <2>2. cont' \in [Names -> [state : {"none", "stopped", "up"}, port : 0..MaxPort]]
    BY <1>17, <2>1, StoppedType DEF Stop
  <2> QED
    BY <1>17, <2>2 DEF Stop, TypeInv, SharedOK, BenchOK, HistoryOK, history
<1>18. ASSUME NEW p \in Procs, SetAliases(p)
      PROVE  SharedOK'
  <2>1. name(p) \in Names /\ call[p].hosts \in SUBSET Hosts /\ Aliases(p) \in SUBSET Hosts
    BY <1>18, InCall, AliasesType DEF SetAliases, At
  <2>2. UNCHANGED <<dir, cont, data, faults, expendable, leftover>>
    BY <1>18 DEF SetAliases
  <2>3. CASE UNCHANGED <<reg, promised>>
    BY <2>2, <2>3 DEF TypeInv, SharedOK, BenchOK, HistoryOK
  <2> DEFINE v == [Get(reg, name(p)).val EXCEPT !.hosts = Aliases(p)]
  <2>4. CASE /\ Exists(reg, name(p))
             /\ reg' = update(reg, name(p), v)
             /\ promised' = [promised EXCEPT ![name(p)] =
                               IF kind(p) = "domainAdd" THEN @ \cup call[p].hosts
                                                        ELSE @ \ call[p].hosts]
    <3>1. v \in Values
      BY <2>1, <2>4, GetType, ValuesAssumption
    <3> HIDE DEF v
    <3>2. reg' \in Seq(Record)
      BY <2>1, <2>4, <3>1, UpdateType DEF TypeInv
    <3>3. promised' \in [Names -> SUBSET Hosts]
      BY <2>1, <2>4 DEF TypeInv, HistoryOK
    <3> QED
      BY <2>2, <3>2, <3>3 DEF TypeInv, SharedOK, BenchOK, HistoryOK
  <2> QED
    BY <1>18, <2>3, <2>4, Zenon DEF SetAliases
<1>19. ASSUME NEW p \in Procs, Render(p)
      PROVE  SharedOK'
  <2>1. name(p) \in Names /\ StepOK(pc[p], call[p], seen[p], port[p]) /\ pc[p] = "render"
    BY <1>19, InCall DEF Render, At
  <2>2. seen[p] \in Values
    BY <2>1 DEF StepOK
  <2> QED
    BY <1>19, <2>1, <2>2 DEF Render, TypeInv, SharedOK, BenchOK, HistoryOK, history
<1>20. ASSUME NEW p \in Procs, ApplyChange(p)
      PROVE  SharedOK'
  <2>1. name(p) \in Names
    BY <1>20, InCall DEF ApplyChange, At
  <2>2. Up(name(p)) \/ UNCHANGED <<cont, data>>
    BY <1>20, Zenon DEF ApplyChange
  <2>3. dir' = dir /\ reg' = reg /\ UNCHANGED history
    BY <1>20 DEF ApplyChange
  <2>4. BenchOK'
    BY <2>1, <2>2, <2>3, UpType DEF TypeInv, BenchOK
  <2> QED
    BY <2>3, <2>4 DEF TypeInv, SharedOK, HistoryOK, history
<1>21. ASSUME NEW p \in Procs, Fail(p)
      PROVE  SharedOK'
  <2>1. name(p) \in Names
    BY <1>21, InCall DEF Fail, CanFail
  <2>2. cont' = Stopped(name(p)) \/ cont' = cont
    BY <1>21, Zenon DEF Fail
  <2>3. cont' \in [Names -> [state : {"none", "stopped", "up"}, port : 0..MaxPort]]
    BY <2>1, <2>2, StoppedType DEF TypeInv, BenchOK
  <2>4. faults' \in 0..MaxFaults
    BY <1>21, LifecycleAssumption DEF Fail, TypeInv, HistoryOK
  <2>5. leftover' \subseteq Names
    BY <1>21, <2>1 DEF Fail, TypeInv, HistoryOK
  <2> QED
    BY <1>21, <2>3, <2>4, <2>5 DEF Fail, TypeInv, SharedOK, BenchOK, HistoryOK
<1>22. ASSUME NEW p \in Procs, Misread(p)
      PROVE  SharedOK'
  BY <1>22, LifecycleAssumption DEF Misread, shared, TypeInv, SharedOK, BenchOK, HistoryOK
<1>23. ASSUME NEW p \in Procs, Warn(p)
      PROVE  SharedOK'
  <2>1. name(p) \in Names
    BY <1>23, InCall DEF Warn, Warned
  <2>2. data' = data \/ data' = [data EXCEPT ![name(p)] = "none"]
    BY <1>23, Zenon DEF Warn
  <2>3. data' \in [Names -> {"none", "unfinished", "site"}]
    BY <2>1, <2>2 DEF TypeInv, BenchOK
  <2>4. faults' \in 0..MaxFaults
    BY <1>23, LifecycleAssumption DEF Warn, TypeInv, HistoryOK
  <2>5. leftover' \subseteq Names /\ expendable' \subseteq Names
    BY <1>23, <2>1 DEF Warn, GivenUp, TypeInv, HistoryOK
  <2>6. UNCHANGED <<reg, dir, cont, promised>>
    BY <1>23, Zenon DEF Warn
  <2> QED
    BY <2>3, <2>4, <2>5, <2>6 DEF TypeInv, SharedOK, BenchOK, HistoryOK
<1> QED
  BY <1>1, <1>2, <1>3, <1>4, <1>5, <1>6, <1>7, <1>8, <1>9, <1>10, <1>11, <1>12, <1>13, <1>14,
     <1>15, <1>16, <1>17, <1>18, <1>19, <1>20, <1>21, <1>22, <1>23, Zenon DEF Work

\* A killed process changes no type either.
LEMMA CrashKeeps ==
  ASSUME TypeInv, NEW p \in Procs, Crash(p)
  PROVE  TypeInv'
<1>1. LocalOK' /\ LockOK'
  BY ReturnKeeps DEF Crash
<1>2. name(p) \in Names
  BY InCall DEF Crash, At
<1>3. faults' \in 0..MaxFaults
  BY LifecycleAssumption DEF Crash, TypeInv, HistoryOK
<1>4. leftover' \subseteq Names
  BY <1>2 DEF Crash, TypeInv, HistoryOK
<1> QED
  BY <1>1, <1>3, <1>4 DEF Crash, TypeInv, BenchOK, HistoryOK

\* TypeInv holds at the start.
LEMMA InitTypeInv == Init => TypeInv
<1> SUFFICES ASSUME Init
             PROVE  TypeInv
  OBVIOUS
<1>1. 0 \in 0..MaxPort /\ 0 \in 0..MaxFaults
  BY LifecycleAssumption
<1>2. StepOK("idle", Idle, Idle, 0) /\ ~Holds("idle", Idle) /\ "idle" \in Steps
  BY DEF StepOK, Holds, Making, Building, Undoing, Saving, Tearing, Steps
<1>3. LocalOK
  BY <1>1, <1>2 DEF Init, LocalOK
<1>4. LockOK
  BY <1>2 DEF Init, LockOK
<1>5. BenchOK
  BY <1>1 DEF Init, BenchOK, NoContainers
<1>6. HistoryOK
  BY <1>1 DEF Init, HistoryOK
<1> QED
  BY <1>3, <1>4, <1>5, <1>6 DEF Init, TypeInv

\* TypeInv is inductive.
LEMMA NextTypeInv == TypeInv /\ [Next]_vars => TypeInv'
<1> SUFFICES ASSUME TypeInv, [Next]_vars
             PROVE  TypeInv'
  OBVIOUS
<1>1. ASSUME NEW p \in Procs, NEW c \in Calls, Begin(p, c)
      PROVE  TypeInv'
  <2>1. LocalOK' /\ LockOK'
    BY <1>1, BeginKeeps
  <2> QED
    BY <1>1, <2>1 DEF Begin, shared, history, TypeInv, BenchOK, HistoryOK
<1>2. ASSUME NEW p \in Procs, Work(p)
      PROVE  TypeInv'
  BY <1>2, WorkKeeps, WorkTypes DEF TypeInv, SharedOK
<1>3. ASSUME NEW p \in Procs, Crash(p)
      PROVE  TypeInv'
  BY <1>3, CrashKeeps
<1>4. CASE UNCHANGED vars
  BY <1>4 DEF vars, shared, local, history, TypeInv, LocalOK, LockOK, BenchOK, HistoryOK
<1> QED
  BY <1>1, <1>2, <1>3, <1>4, Zenon DEF Next

\* Every variable keeps its type, and every step that needs the lock of a bench
\* has it (lockBench in create, recreate and delete), whatever fails.
THEOREM TypeCorrect == Spec => []TypeOK
<1>1. Spec => []TypeInv
  BY InitTypeInv, NextTypeInv, PTL DEF Spec
<1> QED
  BY <1>1, TypeInvImpliesTypeOK, PTL

-----------------------------------------------------------------------------
(* Names, rollbacks and sites, when the existence check can read the store *)

Unmade == {"alloc"} \cup Building \cup Undoing
Placed == {"compose", "image", "up", "site", "save"}

\* A site of n may be destroyed: it is in an archive or was given up.
Given(n) == data[n] = "site" => n \in expendable

\* What the steps that can end a site, or make one, rely on.
StepSafe(s, c) ==
  /\ s \in Unmade => ~Exists(reg, c.name)
  /\ s \in {"reread", "down"} /\ c.backup => Given(c.name)
  /\ s \in {"rmdir", "remove"} => Given(c.name)
  /\ s \in Placed => dir[c.name] # NoDir

\* A site without a record or without a directory may be destroyed: a delete of
\* it takes no backup.
SitesOK == \A n \in Names : ~Exists(reg, n) \/ dir[n] = NoDir => Given(n)

SafeInv ==
  TypeInv /\ UniqueNames /\ SitesOK /\ \A p \in Procs : StepSafe(pc[p], call[p])

\* Only p moves.
Alone(p) == \A q \in Procs \ {p} : pc'[q] = pc[q] /\ call'[q] = call[q]

\* A process that moves moves alone, and goes where its step says.
LEMMA MovesAlone ==
  ASSUME TypeInv, NEW p \in Procs
  PROVE  /\ \A s : Goto(p, s) => Alone(p) /\ pc'[p] = s /\ call'[p] = call[p]
         /\ \A s, v : GotoWith(p, s, v) => Alone(p) /\ pc'[p] = s /\ call'[p] = call[p]
         /\ \A k : Build(p, k) => Alone(p) /\ pc'[p] = "mkdir" /\ call'[p] = call[p]
         /\ Return(p) => Alone(p) /\ pc'[p] = "idle"
  BY DEF Goto, GotoWith, Build, Return, Alone, TypeInv, LocalOK

\* Two processes never work under the lock of one bench.
LEMMA OneHolder ==
  ASSUME TypeInv, NEW p \in Procs, NEW q \in Procs,
         Holds(pc[p], call[p]), Holds(pc[q], call[q]), call[p].name = call[q].name
  PROVE  p = q
  BY DEF TypeInv, LockOK

\* Nothing about names, rollbacks and sites changes for those who do not move
\* when every name is still tracked or not, no site comes up and no directory
\* goes.
LEMMA QuietNames ==
  ASSUME SafeInv, TypeInv', NEW p \in Procs, Alone(p), UniqueNames',
         \A n : Exists(reg, n)' <=> Exists(reg, n),
         expendable \subseteq expendable',
         \A n \in Names : data'[n] = "site" => data[n] = "site",
         \A n \in Names : dir'[n] = NoDir => dir[n] = NoDir,
         StepSafe(pc[p], call[p])'
  PROVE  SafeInv'
<1>1. \A n \in Names : Given(n) => Given(n)'
  BY DEF Given
<1>2. SitesOK'
  BY <1>1 DEF SafeInv, SitesOK
<1>3. ASSUME NEW q \in Procs
      PROVE  StepSafe(pc[q], call[q])'
  <2>1. CASE q = p
    BY <2>1
  <2>2. CASE q # p
    <3>1. pc'[q] = pc[q] /\ call'[q] = call[q] /\ StepSafe(pc[q], call[q])
      BY <2>2 DEF Alone, SafeInv
    <3>2. pc[q] # "idle" => call[q].name \in Names
      BY InCall DEF SafeInv, name
    <3> QED
      BY <3>1, <3>2, <1>1 DEF StepSafe, Unmade, Building, Undoing, Placed
  <2> QED
    BY <2>1, <2>2
<1> QED
  BY <1>2, <1>3 DEF SafeInv

\* A step that leaves records, locks and sites alone keeps what is said of
\* them.
LEMMA Quiet ==
  ASSUME SafeInv, TypeInv', NEW p \in Procs, Alone(p), reg' = reg,
         expendable \subseteq expendable',
         \A n \in Names : data'[n] = "site" => data[n] = "site",
         \A n \in Names : dir'[n] = NoDir => dir[n] = NoDir,
         StepSafe(pc[p], call[p])'
  PROVE  SafeInv'
<1>1. UniqueNames'
  BY DEF SafeInv, UniqueNames
<1>2. \A n : Exists(reg, n)' <=> Exists(reg, n)
  BY DEF Exists, Named
<1> QED
  BY <1>1, <1>2, QuietNames

\* Who holds the lock of a bench may change everything about that bench: nobody
\* else is at a step that relies on it.
LEMMA HolderSafe ==
  ASSUME SafeInv, TypeInv', NEW p \in Procs, NEW n \in Names, Alone(p), UniqueNames',
         Holds(pc[p], call[p]), call[p].name = n,
         \A m \in Names \ {n} : Exists(reg, m)' <=> Exists(reg, m),
         \A m \in Names \ {n} : data'[m] = data[m] /\ dir'[m] = dir[m],
         \A m \in Names \ {n} : m \in expendable => m \in expendable',
         (~Exists(reg, n) \/ dir[n] = NoDir => Given(n))',
         StepSafe(pc[p], call[p])'
  PROVE  SafeInv'
<1>1. \A m \in Names \ {n} : Given(m) => Given(m)'
  BY DEF Given
<1>2. SitesOK'
  BY <1>1 DEF SafeInv, SitesOK
<1>3. ASSUME NEW q \in Procs
      PROVE  StepSafe(pc[q], call[q])'
  <2>1. CASE q = p
    BY <2>1
  <2>2. CASE q # p /\ ~Holds(pc[q], call[q])
    <3>1. pc'[q] = pc[q] /\ call'[q] = call[q]
      BY <2>2 DEF Alone
    <3> QED
      BY <2>2, <3>1 DEF StepSafe, Holds, Making, Tearing, Saving, Unmade, Building, Undoing, Placed
  <2>3. CASE q # p /\ Holds(pc[q], call[q])
    <3>1. pc'[q] = pc[q] /\ call'[q] = call[q] /\ StepSafe(pc[q], call[q])
      BY <2>3 DEF Alone, SafeInv
    <3>2. call[q].name \in Names
      BY <2>3, InCall DEF SafeInv, name, Holds, Making, Tearing, Saving, Building, Undoing
    <3>3. call[q].name # n
      BY <2>3, OneHolder DEF SafeInv
    <3> QED
      BY <3>1, <3>2, <3>3, <1>1 DEF StepSafe, Unmade, Building, Undoing, Placed
  <2> QED
    BY <2>1, <2>2, <2>3
<1> QED
  BY <1>2, <1>3 DEF SafeInv

\* A return is always safe.
LEMMA QuietReturn ==
  ASSUME SafeInv, TypeInv', NEW p \in Procs, Return(p), reg' = reg,
         expendable \subseteq expendable',
         \A n \in Names : data'[n] = "site" => data[n] = "site",
         \A n \in Names : dir'[n] = NoDir => dir[n] = NoDir
  PROVE  SafeInv'
<1>1. Alone(p) /\ pc'[p] = "idle"
  BY MovesAlone DEF SafeInv
<1>2. StepSafe(pc[p], call[p])'
  BY <1>1 DEF StepSafe, Unmade, Building, Undoing, Placed
<1> QED
  BY <1>1, <1>2, Quiet

\* docker compose up and run bring up no site that was not there.
LEMMA UpMakesNoSite ==
  ASSUME TypeInv, NEW n \in Names, Up(n) \/ data' = WithVolumes(n)
  PROVE  \A m \in Names : data'[m] = "site" => data[m] = "site"
  BY DEF Up, WithVolumes, TypeInv, BenchOK

\* Where a call goes once it has read the record.
LEMMA ReadGoes ==
  ASSUME TypeInv, NEW p \in Procs, pc[p] = "read", NEW b, AfterRead(call[p], b) # "idle"
  PROVE  AfterRead(call[p], b) \in {"lock", "home", "stop", "check", "update"}
<1>1. kind(p) \in Kinds /\ kind(p) # "create" /\ kind(p) = call[p].kind
  BY InCall DEF StepOK, kind
<1> QED
  BY <1>1, KindsAssumption DEF AfterRead

\* Steps that nothing about records, directories and sites depends on.
LEMMA QuietGoto ==
  ASSUME SafeInv, TypeInv', NEW p \in Procs, NEW s, Goto(p, s) \/ \E v : GotoWith(p, s, v),
         UNCHANGED <<reg, dir, cont, data>>, UNCHANGED history,
         s \notin Unmade, s \notin Tearing, s # "reread"
  PROVE  SafeInv'
<1>1. Alone(p) /\ pc'[p] = s
  BY MovesAlone DEF SafeInv
<1>2. StepSafe(pc[p], call[p])'
  BY <1>1 DEF StepSafe, Unmade, Building, Placed, Tearing
<1> QED
  BY <1>1, <1>2, Quiet DEF history

\* Every step of the work keeps names unique, rollbacks away from tracked
\* benches, and sites until they may go.
LEMMA WorkSafe ==
  ASSUME ~ReadsFail, SafeInv, TypeInv', NEW q \in Procs, Work(q)
  PROVE  SafeInv'
<1> TypeInv
  BY DEF SafeInv
<1>1. ASSUME NEW p \in Procs, Read(p)
      PROVE  SafeInv'
  <2> DEFINE b == Get(reg, name(p)).val
             t == AfterRead(call[p], b)
  <2>1. UNCHANGED <<reg, dir, cont, data>> /\ UNCHANGED history /\ pc[p] = "read"
    BY <1>1 DEF Read, At
  <2>2. CASE Return(p)
    BY <2>1, <2>2, QuietReturn DEF history
  <2>3. CASE t # "idle" /\ GotoWith(p, t, b)
    <3>1. t \in {"lock", "home", "stop", "check", "update"}
      BY <2>1, <2>3, ReadGoes
    <3> HIDE DEF t, b
    <3>2. t \notin Unmade /\ t \notin Tearing /\ t # "reread"
      BY <3>1 DEF Unmade, Building, Undoing, Tearing
    <3> QED
      BY <2>1, <2>3, <3>2, QuietGoto
  <2> QED
    BY <1>1, <2>2, <2>3, Zenon DEF Read
<1>2. ASSUME NEW p \in Procs, Check(p)
      PROVE  SafeInv'
  <2> DEFINE t == CASE kind(p) = "create"   -> "lock"
                    [] kind(p) = "recreate" -> "exists"
                    [] OTHER                -> "update"
  <2>1. UNCHANGED <<reg, dir, cont, data>> /\ UNCHANGED history
    BY <1>2 DEF Check
  <2>2. CASE Return(p)
    BY <2>1, <2>2, QuietReturn DEF history
  <2>3. CASE Goto(p, t)
    <3>1. t \in {"lock", "exists", "update"}
      OBVIOUS
    <3> HIDE DEF t
    <3>2. t \notin Unmade /\ t \notin Tearing /\ t # "reread"
      BY <3>1 DEF Unmade, Building, Undoing, Tearing
    <3> QED
      BY <2>1, <2>3, <3>2, QuietGoto
  <2> QED
    BY <1>2, <2>2, <2>3, Zenon DEF Check
<1>3. ASSUME NEW p \in Procs, TryLock(p)
      PROVE  SafeInv'
  <2> DEFINE t == IF kind(p) = "create" THEN "exists" ELSE "backup"
  <2>1. UNCHANGED <<reg, dir, cont, data>> /\ UNCHANGED history
    BY <1>3 DEF TryLock
  <2>2. CASE Return(p)
    BY <2>1, <2>2, QuietReturn DEF history
  <2>3. CASE Goto(p, t)
    <3>1. t \in {"exists", "backup"}
      OBVIOUS
    <3> HIDE DEF t
    <3>2. t \notin Unmade /\ t \notin Tearing /\ t # "reread"
      BY <3>1 DEF Unmade, Building, Undoing, Tearing
    <3> QED
      BY <2>1, <2>3, <3>2, QuietGoto
  <2> QED
    BY <1>3, <2>2, <2>3, Zenon DEF TryLock
<1>4. ASSUME NEW p \in Procs, CheckExists(p)
      PROVE  SafeInv'
  <2>1. UNCHANGED <<reg, dir, cont, data>> /\ UNCHANGED history
    BY <1>4 DEF CheckExists
  <2>2. CASE Return(p)
    BY <2>1, <2>2, QuietReturn DEF history
  <2>3. CASE ~Exists(reg, name(p)) /\ Goto(p, "alloc")
    <3>1. Alone(p) /\ pc'[p] = "alloc" /\ call'[p] = call[p]
      BY <2>3, MovesAlone
    <3>2. StepSafe(pc[p], call[p])'
      BY <2>1, <2>3, <3>1 DEF StepSafe, Placed, name
    <3> QED
      BY <2>1, <3>1, <3>2, Quiet DEF history
  <2> QED
    BY <1>4, <2>2, <2>3, Zenon DEF CheckExists
<1>5. ASSUME NEW p \in Procs, AllocPorts(p)
      PROVE  SafeInv'
  <2>1. UNCHANGED <<reg, dir, cont, data>> /\ UNCHANGED history
    BY <1>5 DEF AllocPorts
  <2>2. CASE Return(p)
    BY <2>1, <2>2, QuietReturn DEF history
  <2>3. CASE \E k : Build(p, k)
    <3>1. Alone(p) /\ pc'[p] = "mkdir" /\ call'[p] = call[p]
      BY <2>3, MovesAlone
    <3>2. ~Exists(reg, call[p].name)
      BY <1>5 DEF AllocPorts, At, SafeInv, StepSafe, Unmade
    <3>3. StepSafe(pc[p], call[p])'
      BY <2>1, <3>1, <3>2 DEF StepSafe, Placed
    <3> QED
      BY <2>1, <3>1, <3>3, Quiet DEF history
  <2> QED
    BY <1>5, <2>2, <2>3, Zenon DEF AllocPorts
<1>6. ASSUME NEW p \in Procs, MakeDir(p)
      PROVE  SafeInv'
  <2>1. Alone(p) /\ pc'[p] = "compose" /\ call'[p] = call[p] /\ pc[p] = "mkdir"
    BY <1>6, MovesAlone DEF MakeDir, At
  <2>2. name(p) \in Names /\ dir' = [dir EXCEPT ![name(p)] = IF @ = NoDir THEN Bare ELSE @] /\ data' = data
        /\ reg' = reg /\ UNCHANGED history
    BY <1>6, <2>1, InCall DEF MakeDir
  <2>3. \A m \in Names : data'[m] = "site" => data[m] = "site"
    BY <2>2
  <2>4. dir'[call[p].name] # NoDir /\ \A m \in Names : dir'[m] = NoDir => dir[m] = NoDir
    BY <2>2, LifecycleAssumption DEF TypeInv, BenchOK, name
  <2>5. ~Exists(reg, call[p].name)
    BY <2>1 DEF SafeInv, StepSafe, Unmade, Building
  <2>6. StepSafe(pc[p], call[p])'
    BY <2>1, <2>2, <2>4, <2>5 DEF StepSafe
  <2> QED
    BY <2>1, <2>2, <2>3, <2>4, <2>6, Quiet DEF history
<1>7. ASSUME NEW p \in Procs, WriteCompose(p)
      PROVE  SafeInv'
  <2>1. Alone(p) /\ pc'[p] = "image" /\ call'[p] = call[p] /\ pc[p] = "compose"
    BY <1>7, MovesAlone DEF WriteCompose, At
  <2>2. name(p) \in Names /\ dir' = [dir EXCEPT ![name(p)] = Planned(p)] /\ data' = data
        /\ reg' = reg /\ UNCHANGED history
    BY <1>7, <2>1, InCall DEF WriteCompose
  <2>3. \A m \in Names : data'[m] = "site" => data[m] = "site"
    BY <2>2
  <2>4. dir'[call[p].name] # NoDir /\ \A m \in Names : dir'[m] = NoDir => dir[m] = NoDir
    <3>1. Planned(p) \in Values
      BY <2>1, PlannedType DEF Building
    <3> QED
      BY <2>2, <3>1, LifecycleAssumption DEF TypeInv, BenchOK, name
  <2>5. ~Exists(reg, call[p].name)
    BY <2>1 DEF SafeInv, StepSafe, Unmade, Building
  <2>6. StepSafe(pc[p], call[p])'
    BY <2>1, <2>2, <2>4, <2>5 DEF StepSafe
  <2> QED
    BY <2>1, <2>2, <2>3, <2>4, <2>6, Quiet DEF history
<1>8. ASSUME NEW p \in Procs, BuildImage(p)
      PROVE  SafeInv'
  <2>1. Alone(p) /\ pc'[p] = "up" /\ call'[p] = call[p] /\ pc[p] = "image"
    BY <1>8, MovesAlone DEF BuildImage, At
  <2>2. name(p) \in Names /\ dir' = dir /\ data' = WithVolumes(name(p))
        /\ reg' = reg /\ UNCHANGED history
    BY <1>8, <2>1, InCall DEF BuildImage
  <2>3. \A m \in Names : data'[m] = "site" => data[m] = "site"
    BY <2>2, UpMakesNoSite
  <2>4. dir'[call[p].name] # NoDir /\ \A m \in Names : dir'[m] = NoDir => dir[m] = NoDir
    BY <2>1, <2>2 DEF SafeInv, StepSafe, Placed
  <2>5. ~Exists(reg, call[p].name)
    BY <2>1 DEF SafeInv, StepSafe, Unmade, Building
  <2>6. StepSafe(pc[p], call[p])'
    BY <2>1, <2>2, <2>4, <2>5 DEF StepSafe
  <2> QED
    BY <2>1, <2>2, <2>3, <2>4, <2>6, Quiet DEF history
<1>9. ASSUME NEW p \in Procs, BringUp(p)
      PROVE  SafeInv'
  <2>1. Alone(p) /\ pc'[p] = "site" /\ call'[p] = call[p] /\ pc[p] = "up"
    BY <1>9, MovesAlone DEF BringUp, At
  <2>2. name(p) \in Names /\ dir' = dir /\ Up(name(p))
        /\ reg' = reg /\ UNCHANGED history
    BY <1>9, <2>1, InCall DEF BringUp
  <2>3. \A m \in Names : data'[m] = "site" => data[m] = "site"
    BY <2>2, UpMakesNoSite
  <2>4. dir'[call[p].name] # NoDir /\ \A m \in Names : dir'[m] = NoDir => dir[m] = NoDir
    BY <2>1, <2>2 DEF SafeInv, StepSafe, Placed
  <2>5. ~Exists(reg, call[p].name)
    BY <2>1 DEF SafeInv, StepSafe, Unmade, Building
  <2>6. StepSafe(pc[p], call[p])'
    BY <2>1, <2>2, <2>4, <2>5 DEF StepSafe
  <2> QED
    BY <2>1, <2>2, <2>3, <2>4, <2>6, Quiet DEF history
<1>10. ASSUME NEW p \in Procs, MakeSite(p)
      PROVE  SafeInv'
  <2>1. Alone(p) /\ pc'[p] = "save" /\ call'[p] = call[p] /\ pc[p] = "site"
    BY <1>10, MovesAlone DEF MakeSite, At
  <2>2. name(p) \in Names /\ dir' = dir /\ data' = data
        /\ reg' = reg /\ UNCHANGED history
    BY <1>10, <2>1, InCall DEF MakeSite, shared
  <2>3. \A m \in Names : data'[m] = "site" => data[m] = "site"
    BY <2>2
  <2>4. dir'[call[p].name] # NoDir /\ \A m \in Names : dir'[m] = NoDir => dir[m] = NoDir
    BY <2>1, <2>2 DEF SafeInv, StepSafe, Placed
  <2>5. ~Exists(reg, call[p].name)
    BY <2>1 DEF SafeInv, StepSafe, Unmade, Building
  <2>6. StepSafe(pc[p], call[p])'
    BY <2>1, <2>2, <2>4, <2>5 DEF StepSafe
  <2> QED
    BY <2>1, <2>2, <2>3, <2>4, <2>6, Quiet DEF history
<1>11. ASSUME NEW p \in Procs, UndoDown(p)
      PROVE  SafeInv'
  <2>1. Alone(p) /\ pc'[p] = "undoDir" /\ call'[p] = call[p] /\ pc[p] = "undoDown"
    BY <1>11, MovesAlone DEF UndoDown, At
  <2>2. name(p) \in Names /\ UNCHANGED <<reg, dir>> /\ UNCHANGED history
    BY <1>11, <2>1, InCall DEF UndoDown
  <2>3. \A m \in Names : data'[m] = "site" => data[m] = "site"
    BY <1>11, <2>2 DEF UndoDown, TypeInv, BenchOK
  <2>4. ~Exists(reg, call[p].name)
    BY <2>1 DEF SafeInv, StepSafe, Unmade, Undoing
  <2>5. StepSafe(pc[p], call[p])'
    BY <2>1, <2>2, <2>4 DEF StepSafe, Placed
  <2> QED
    BY <2>1, <2>2, <2>3, <2>5, Quiet DEF history
<1>12. ASSUME NEW p \in Procs, KeepOnFailure(p)
      PROVE  SafeInv'
  BY <1>12, QuietReturn DEF KeepOnFailure, history
<1>13. ASSUME NEW p \in Procs, Stop(p)
      PROVE  SafeInv'
  BY <1>13, QuietReturn DEF Stop, history
<1>14. ASSUME NEW p \in Procs, StartUp(p)
      PROVE  SafeInv'
  <2>1. name(p) \in Names
    BY <1>14, InCall DEF StartUp, At
  <2>2. \A m \in Names : data'[m] = "site" => data[m] = "site"
    BY <1>14, <2>1, UpMakesNoSite DEF StartUp
  <2> QED
    BY <1>14, <2>2, QuietReturn DEF StartUp, history
<1>15. ASSUME NEW p \in Procs, ApplyChange(p)
      PROVE  SafeInv'
  <2>1. name(p) \in Names
    BY <1>15, InCall DEF ApplyChange, At
  <2>2. Up(name(p)) \/ data' = data
    BY <1>15, Zenon DEF ApplyChange
  <2>3. \A m \in Names : data'[m] = "site" => data[m] = "site"
    BY <2>1, <2>2, UpMakesNoSite
  <2> QED
    BY <1>15, <2>3, QuietReturn DEF ApplyChange, history
<1>16. ASSUME NEW p \in Procs, MakeHome(p)
      PROVE  SafeInv'
  <2>1. Alone(p) /\ pc'[p] = "startUp"
    BY <1>16, MovesAlone DEF MakeHome
  <2>2. \A m \in Names : dir'[m] = NoDir => dir[m] = NoDir
    BY <1>16, LifecycleAssumption DEF MakeHome, TypeInv, BenchOK
  <2>3. StepSafe(pc[p], call[p])'
    BY <2>1 DEF StepSafe, Unmade, Building, Undoing, Placed
  <2> QED
    BY <1>16, <2>1, <2>2, <2>3, Quiet DEF MakeHome, history
<1>17. ASSUME NEW p \in Procs, Render(p)
      PROVE  SafeInv'
  <2>1. Alone(p) /\ pc'[p] = "apply" /\ pc[p] = "render"
    BY <1>17, MovesAlone DEF Render, At
  <2>2. seen[p] \in Values
    BY <2>1, InCall DEF StepOK
  <2>3. \A m \in Names : dir'[m] = NoDir => dir[m] = NoDir
    BY <1>17, <2>2, LifecycleAssumption DEF Render, TypeInv, BenchOK
  <2>4. StepSafe(pc[p], call[p])'
    BY <2>1 DEF StepSafe, Unmade, Building, Undoing, Placed
  <2> QED
    BY <1>17, <2>1, <2>3, <2>4, Quiet DEF Render, history
<1>18. ASSUME NEW p \in Procs, SaveBench(p)
      PROVE  SafeInv'
  <2>0. PICK n \in Names : n = name(p)
    BY <1>18, InCall DEF SaveBench, At
  <2> DEFINE b == [name |-> n, val |-> Planned(p)]
  <2>1. Alone(p) /\ pc'[p] = "idle" /\ pc[p] = "save"
    BY <1>18, MovesAlone DEF SaveBench, At
  <2>2. n \in Names /\ n = call[p].name /\ ~Exists(reg, n) /\ dir[n] # NoDir
    BY <2>0, <2>1, InCall DEF SafeInv, StepSafe, Unmade, Building, Placed, name
  <2>3. Holds(pc[p], call[p])
    BY <2>1 DEF Holds, Making, Building
  <2>4. reg' = Append(reg, b) /\ dir' = dir /\ data' = [data EXCEPT ![n] = "site"]
        /\ expendable' = expendable \ {n}
    BY <2>0, <1>18 DEF SaveBench, add
  <2>5. reg \in Seq(Record) /\ b.name = n
    BY DEF TypeInv
  <2> HIDE DEF b
  <2>6. DOMAIN reg' = DOMAIN reg \cup {Len(reg) + 1}
    BY <2>4, <2>5
  <2>7. reg'[Len(reg) + 1] = b /\ \A i \in DOMAIN reg : reg'[i] = reg[i] /\ i # Len(reg) + 1
    BY <2>4, <2>5
  <2>8. \A i \in DOMAIN reg : reg[i].name # n
    BY <2>2 DEF Exists, Named
  <2>9. UniqueNames'
    BY <2>5, <2>6, <2>7, <2>8 DEF SafeInv, UniqueNames
  <2>10. \A m \in Names \ {n} : Exists(reg, m)' <=> Exists(reg, m)
    BY <2>5, <2>6, <2>7 DEF Exists, Named
  <2>11. Exists(reg, n)' /\ dir'[n] # NoDir
    BY <2>2, <2>4, <2>5, <2>6, <2>7 DEF Exists, Named
  <2>12. \A m \in Names \ {n} : data'[m] = data[m] /\ dir'[m] = dir[m]
    BY <2>4 DEF TypeInv, BenchOK
  <2>13. StepSafe(pc[p], call[p])'
    BY <2>1 DEF StepSafe, Unmade, Building, Undoing, Placed
  <2>14. \A m \in Names \ {n} : m \in expendable => m \in expendable'
    BY <2>4
  <2> QED
    BY <2>1, <2>2, <2>3, <2>9, <2>10, <2>11, <2>12, <2>13, <2>14, HolderSafe
<1>19. ASSUME NEW p \in Procs, UndoDir(p)
      PROVE  SafeInv'
  <2>0. PICK n \in Names : n = name(p)
    BY <1>19, InCall DEF UndoDir, At
  <2>1. Alone(p) /\ pc'[p] = "idle" /\ pc[p] = "undoDir"
    BY <1>19, MovesAlone DEF UndoDir, At
  <2>2. n \in Names /\ n = call[p].name /\ ~Exists(reg, n)
    BY <2>0, <2>1, InCall DEF SafeInv, StepSafe, Unmade, Undoing, name
  <2>3. Holds(pc[p], call[p])
    BY <2>1 DEF Holds, Making, Undoing
  <2>4. reg' = reg /\ dir' = [dir EXCEPT ![n] = NoDir] /\ data' = data /\ expendable' = expendable
    BY <2>0, <1>19 DEF UndoDir, history
  <2>5. UniqueNames' /\ \A m \in Names \ {n} : Exists(reg, m)' <=> Exists(reg, m)
    BY <2>4 DEF SafeInv, UniqueNames, Exists, Named
  <2>6. Given(n)'
    BY <2>2, <2>4 DEF SafeInv, SitesOK, Given
  <2>7. \A m \in Names \ {n} : data'[m] = data[m] /\ dir'[m] = dir[m]
    BY <2>4 DEF TypeInv, BenchOK
  <2>8. StepSafe(pc[p], call[p])'
    BY <2>1 DEF StepSafe, Unmade, Building, Undoing, Placed
  <2> QED
    BY <2>1, <2>2, <2>3, <2>4, <2>5, <2>6, <2>7, <2>8, HolderSafe
<1>20. ASSUME NEW p \in Procs, StartBackup(p)
      PROVE  SafeInv'
  <2>1. pc[p] = "backup" /\ reg' = reg /\ dir' = dir /\ expendable' = expendable
    BY <1>20 DEF StartBackup, At, history
  <2>2. name(p) \in Names /\ name(p) = call[p].name
    BY <2>1, InCall DEF name
  <2>3. CASE SkipsBackup(p) /\ Goto(p, AfterBackup(p)) /\ data' = data
    <3>1. Alone(p) /\ pc'[p] = AfterBackup(p) /\ call'[p] = call[p]
      BY <2>3, MovesAlone
    <3>2. AfterBackup(p) \in {"reread", "down"}
      BY DEF AfterBackup
    <3>3. call[p].backup => Given(call[p].name)
      BY <2>2, <2>3 DEF SkipsBackup, SafeInv, SitesOK
    <3>4. Given(call[p].name)' <=> Given(call[p].name)
      BY <2>1, <2>3, <3>1 DEF Given
    <3>5. StepSafe(pc[p], call[p])'
      BY <3>1, <3>2, <3>3, <3>4 DEF StepSafe, Unmade, Building, Undoing, Placed
    <3> QED
      BY <2>1, <2>3, <3>1, <3>5, Quiet
  <2>4. CASE Return(p) /\ data' = data
    BY <2>1, <2>4, QuietReturn
  <2>5. CASE Goto(p, "dump") /\ data' = data
    <3>1. Alone(p) /\ pc'[p] = "dump"
      BY <2>5, MovesAlone
    <3>2. StepSafe(pc[p], call[p])'
      BY <3>1 DEF StepSafe, Unmade, Building, Undoing, Placed
    <3> QED
      BY <2>1, <2>5, <3>1, <3>2, Quiet
  <2>6. CASE Up(name(p)) /\ Goto(p, "dumpStarted")
    <3>1. Alone(p) /\ pc'[p] = "dumpStarted"
      BY <2>6, MovesAlone
    <3>2. StepSafe(pc[p], call[p])'
      BY <3>1 DEF StepSafe, Unmade, Building, Undoing, Placed
    <3>3. \A m \in Names : data'[m] = "site" => data[m] = "site"
      BY <2>2, <2>6, UpMakesNoSite
    <3> QED
      BY <2>1, <3>1, <3>2, <3>3, Quiet
  <2> QED
    BY <1>20, <2>3, <2>4, <2>5, <2>6, Zenon DEF StartBackup
<1>21. ASSUME NEW p \in Procs, Dump(p)
      PROVE  SafeInv'
  <2>1. Alone(p) /\ pc'[p] = AfterBackup(p) /\ call'[p] = call[p]
    BY <1>21, MovesAlone DEF Dump
  <2>2. reg' = reg /\ dir' = dir /\ data' = data /\ expendable' = expendable \cup {name(p)}
    BY <1>21 DEF Dump
  <2>3. AfterBackup(p) \in {"reread", "down"}
    BY DEF AfterBackup
  <2>4. Given(call[p].name)'
    BY <2>1, <2>2 DEF Given, name
  <2>5. StepSafe(pc[p], call[p])'
    BY <2>1, <2>3, <2>4 DEF StepSafe, Unmade, Building, Undoing, Placed
  <2> QED
    BY <2>1, <2>2, <2>5, Quiet
<1>22. ASSUME NEW p \in Procs, Reread(p)
      PROVE  SafeInv'
  <2>1. UNCHANGED <<reg, dir, cont, data>> /\ UNCHANGED history /\ pc[p] = "reread"
    BY <1>22 DEF Reread, At
  <2>2. CASE Return(p)
    BY <2>1, <2>2, QuietReturn DEF history
  <2>3. CASE GotoWith(p, "down", Get(reg, name(p)).val)
    <3>1. Alone(p) /\ pc'[p] = "down" /\ call'[p] = call[p]
      BY <2>3, MovesAlone
    <3>2. call[p].backup => Given(call[p].name)
      BY <2>1 DEF SafeInv, StepSafe
    <3>3. StepSafe(pc[p], call[p])'
      BY <2>1, <3>1, <3>2 DEF StepSafe, Unmade, Building, Undoing, Placed, Given, history
    <3> QED
      BY <2>1, <3>1, <3>3, Quiet DEF history
  <2> QED
    BY <1>22, <2>2, <2>3, Zenon DEF Reread
<1>23. ASSUME NEW p \in Procs, TearDown(p)
      PROVE  SafeInv'
  <2>1. Alone(p) /\ pc'[p] = "rmdir" /\ call'[p] = call[p] /\ pc[p] = "down"
    BY <1>23, MovesAlone DEF TearDown, At
  <2>2. name(p) \in Names /\ name(p) = call[p].name
    BY <2>1, InCall DEF name
  <2>3. reg' = reg /\ dir' = dir /\ expendable' = GivenUp(p)
    BY <1>23 DEF TearDown
  <2>4. data' = data \/ data' = [data EXCEPT ![name(p)] = "none"]
    BY <1>23, Zenon DEF TearDown
  <2>5. \A m \in Names : data'[m] = "site" => data[m] = "site"
    BY <2>2, <2>4 DEF TypeInv, BenchOK
  <2>6. Given(call[p].name)'
    BY <2>1, <2>2, <2>3, <2>5 DEF SafeInv, StepSafe, Given, GivenUp
  <2>7. StepSafe(pc[p], call[p])'
    BY <2>1, <2>6 DEF StepSafe, Unmade, Building, Undoing, Placed
  <2> QED
    BY <2>1, <2>3, <2>5, <2>7, Quiet DEF GivenUp
<1>24. ASSUME NEW p \in Procs, RemoveDir(p)
      PROVE  SafeInv'
  <2>0. PICK n \in Names : n = name(p)
    BY <1>24, InCall DEF RemoveDir, At
  <2>1. Alone(p) /\ pc'[p] = "remove" /\ call'[p] = call[p] /\ pc[p] = "rmdir"
    BY <1>24, MovesAlone DEF RemoveDir, At
  <2>2. n \in Names /\ n = call[p].name
    BY <2>0, <2>1, InCall DEF name
  <2>3. Holds(pc[p], call[p])
    BY <2>1 DEF Holds, Tearing
  <2>4. reg' = reg /\ dir' = [dir EXCEPT ![n] = NoDir] /\ data' = data /\ expendable' = expendable
    BY <2>0, <1>24 DEF RemoveDir, history
  <2>5. UniqueNames' /\ \A m \in Names \ {n} : Exists(reg, m)' <=> Exists(reg, m)
    BY <2>4 DEF SafeInv, UniqueNames, Exists, Named
  <2>6. Given(n)'
    BY <2>1, <2>2, <2>4 DEF SafeInv, StepSafe, Given
  <2>7. \A m \in Names \ {n} : data'[m] = data[m] /\ dir'[m] = dir[m]
    BY <2>4 DEF TypeInv, BenchOK
  <2>8. StepSafe(pc[p], call[p])'
    BY <2>1, <2>2, <2>6 DEF StepSafe, Unmade, Building, Undoing, Placed
  <2> QED
    BY <2>1, <2>2, <2>3, <2>4, <2>5, <2>6, <2>7, <2>8, HolderSafe
<1>25. ASSUME NEW p \in Procs, RemoveBench(p)
      PROVE  SafeInv'
  <2>0. PICK n \in Names : n = name(p)
    BY <1>25, InCall DEF RemoveBench, At
  <2> DEFINE t == IF seen[p].hosts = {} THEN "exists" ELSE "check"
  <2>1. pc[p] = "remove" /\ (Return(p) \/ Goto(p, t))
    BY <1>25, Zenon DEF RemoveBench, At
  <2>2. Alone(p) /\ pc'[p] \in {"idle", "exists", "check"}
    BY <2>1, MovesAlone
  <2>3. n \in Names /\ n = call[p].name
    BY <2>0, <2>1, InCall DEF name
  <2>4. Holds(pc[p], call[p])
    BY <2>1 DEF Holds, Tearing
  <2>5. reg' = remove(reg, n) /\ dir' = dir /\ data' = data /\ expendable' = expendable
    BY <2>0, <1>25 DEF RemoveBench
  <2> HIDE DEF t
  <2>6. reg \in Seq(Record) /\ Distinct(reg)
    BY DEF TypeInv, SafeInv, UniqueNames, Distinct
  <2>7. UniqueNames'
    BY <2>5, <2>6, RemoveKeeps DEF UniqueNames, Distinct
  <2>8. ASSUME NEW m \in Names \ {n}
        PROVE  Exists(reg, m)' <=> Exists(reg, m)
    <3>1. Exists(reg, m) => Exists(reg, m)'
      BY <2>5, <2>6, RemoveSpares
    <3>2. \A i \in DOMAIN reg' : \E j \in DOMAIN reg : reg'[i] = reg[j]
      BY <2>5, <2>6, RemoveKeeps
    <3>3. Exists(reg, m)' => Exists(reg, m)
      BY <3>2 DEF Exists, Named
    <3> QED
      BY <3>1, <3>3
  <2>9. Given(n)'
    BY <2>1, <2>3, <2>5 DEF SafeInv, StepSafe, Given
  <2>10. StepSafe(pc[p], call[p])'
    BY <2>2 DEF StepSafe, Unmade, Building, Undoing, Placed
  <2> QED
    BY <2>2, <2>3, <2>4, <2>5, <2>7, <2>8, <2>9, <2>10, HolderSafe
<1>26. ASSUME NEW p \in Procs, SetAliases(p)
      PROVE  SafeInv'
  <2>1. dir' = dir /\ data' = data /\ expendable' = expendable /\ pc[p] = "update"
    BY <1>26 DEF SetAliases, At
  <2>2. CASE Return(p) /\ reg' = reg
    BY <2>1, <2>2, QuietReturn
  <2> DEFINE v == [Get(reg, name(p)).val EXCEPT !.hosts = Aliases(p)]
  <2>3. CASE Exists(reg, name(p)) /\ reg' = update(reg, name(p), v)
             /\ GotoWith(p, "render", [seen[p] EXCEPT !.hosts = Aliases(p)])
    <3>1. Alone(p) /\ pc'[p] = "render"
      BY <2>3, MovesAlone
    <3>2. reg \in Seq(Record)
      BY DEF TypeInv
    <3>3. Get(reg, name(p)).val \in Values
      BY <2>1, <2>3, InCall, GetType
    <3>4. v \in Values
      BY <2>1, <3>3, AliasesType, ValuesAssumption
    <3> HIDE DEF v
    <3>5. DOMAIN reg' = DOMAIN reg /\ \A i \in DOMAIN reg : reg'[i].name = reg[i].name
      BY <2>3, <3>2, <3>4, UpdateType
    <3>6. UniqueNames'
      BY <3>5 DEF SafeInv, UniqueNames
    <3>7. \A n : Exists(reg, n)' <=> Exists(reg, n)
      BY <3>5 DEF Exists, Named
    <3>8. StepSafe(pc[p], call[p])'
      BY <3>1 DEF StepSafe, Unmade, Building, Undoing, Placed
    <3> QED
      BY <2>1, <3>1, <3>6, <3>7, <3>8, QuietNames
  <2> QED
    BY <1>26, <2>2, <2>3, Zenon DEF SetAliases
<1>27. ASSUME NEW p \in Procs, Fail(p)
      PROVE  SafeInv'
  <2>1. reg' = reg /\ dir' = dir /\ data' = data /\ expendable' = expendable
    BY <1>27 DEF Fail
  <2>2. CASE Return(p)
    BY <2>1, <2>2, QuietReturn
  <2>3. CASE pc[p] \in Building /\ Goto(p, "undoDown")
    <3>1. Alone(p) /\ pc'[p] = "undoDown" /\ call'[p] = call[p]
      BY <2>3, MovesAlone
    <3>2. ~Exists(reg, call[p].name)
      BY <2>3 DEF SafeInv, StepSafe, Unmade
    <3>3. StepSafe(pc[p], call[p])'
      BY <2>1, <3>1, <3>2 DEF StepSafe, Placed
    <3> QED
      BY <2>1, <3>1, <3>3, Quiet
  <2> QED
    BY <1>27, <2>2, <2>3, Zenon DEF Fail
<1>28. ASSUME NEW p \in Procs, Misread(p)
      PROVE  SafeInv'
  BY <1>28 DEF Misread
<1>29. ASSUME NEW p \in Procs, Warn(p)
      PROVE  SafeInv'
  <2>1. reg' = reg /\ dir' = dir /\ pc[p] \in Warned
    BY <1>29 DEF Warn
  <2>2. name(p) \in Names /\ name(p) = call[p].name
    BY <2>1, InCall DEF name, Warned
  <2>3. data' = data \/ data' = [data EXCEPT ![name(p)] = "none"]
    BY <1>29, Zenon DEF Warn
  <2>4. \A m \in Names : data'[m] = "site" => data[m] = "site"
    BY <2>2, <2>3 DEF TypeInv, BenchOK
  <2>5. expendable' = IF At(p, "down") THEN GivenUp(p) ELSE expendable
    BY <1>29 DEF Warn
  <2>6. expendable \subseteq expendable'
    BY <2>5 DEF GivenUp
  <2>7. CASE Return(p)
    BY <2>1, <2>4, <2>6, <2>7, QuietReturn
  <2>8. CASE At(p, "down") /\ Goto(p, "rmdir")
    <3>1. Alone(p) /\ pc'[p] = "rmdir" /\ call'[p] = call[p]
      BY <2>8, MovesAlone
    <3>2. Given(call[p].name)'
      BY <2>2, <2>4, <2>5, <2>8, <3>1 DEF SafeInv, StepSafe, Given, GivenUp, At
    <3>3. StepSafe(pc[p], call[p])'
      BY <3>1, <3>2 DEF StepSafe, Unmade, Building, Undoing, Placed
    <3> QED
      BY <2>1, <2>4, <2>6, <3>1, <3>3, Quiet
  <2>9. CASE At(p, "rmdir") /\ Goto(p, "remove")
    <3>1. Alone(p) /\ pc'[p] = "remove" /\ call'[p] = call[p]
      BY <2>9, MovesAlone
    <3>2. Given(call[p].name)'
      BY <2>2, <2>4, <2>6, <2>9, <3>1 DEF SafeInv, StepSafe, Given, At
    <3>3. StepSafe(pc[p], call[p])'
      BY <3>1, <3>2 DEF StepSafe, Unmade, Building, Undoing, Placed
    <3> QED
      BY <2>1, <2>4, <2>6, <3>1, <3>3, Quiet
  <2>10. CASE At(p, "undoDown") /\ Goto(p, "undoDir")
    <3>1. Alone(p) /\ pc'[p] = "undoDir" /\ call'[p] = call[p]
      BY <2>10, MovesAlone
    <3>2. ~Exists(reg, call[p].name)
      BY <2>10 DEF SafeInv, StepSafe, Unmade, Undoing, At
    <3>3. StepSafe(pc[p], call[p])'
      BY <2>1, <3>1, <3>2 DEF StepSafe, Placed
    <3> QED
      BY <2>1, <2>4, <2>6, <3>1, <3>3, Quiet
  <2>11. At(p, "down") \/ At(p, "rmdir") \/ At(p, "undoDown") \/ At(p, "undoDir")
    BY <2>1 DEF Warned, At
  <2> QED
    BY <1>29, <2>7, <2>8, <2>9, <2>10, <2>11 DEF Warn, At
<1> QED
  BY <1>1, <1>2, <1>3, <1>4, <1>5, <1>6, <1>7, <1>8, <1>9, <1>10, <1>11, <1>12, <1>13, <1>14, <1>15, <1>16, <1>17, <1>18, <1>19, <1>20, <1>21, <1>22, <1>23, <1>24, <1>25, <1>26, <1>27, <1>28, <1>29, Zenon DEF Work

\* Nor does anything else that happens put them at risk.
LEMMA NextSafeInv == ~ReadsFail /\ SafeInv /\ [Next]_vars => SafeInv'
<1> SUFFICES ASSUME ~ReadsFail, SafeInv, [Next]_vars
             PROVE  SafeInv'
  OBVIOUS
<1>1. TypeInv /\ TypeInv'
  BY NextTypeInv DEF SafeInv
<1>2. ASSUME NEW p \in Procs, NEW c \in Calls, Begin(p, c)
      PROVE  SafeInv'
  <2>1. reg' = reg /\ dir' = dir /\ data' = data /\ expendable' = expendable
    BY <1>2 DEF Begin, shared, history
  <2>2. Alone(p) /\ pc'[p] \in {"read", "check", "lock"}
    BY <1>1, <1>2 DEF Begin, Alone, TypeInv, LocalOK
  <2>3. StepSafe(pc[p], call[p])'
    BY <2>2 DEF StepSafe, Unmade, Building, Undoing, Placed
  <2> QED
    BY <1>1, <2>1, <2>2, <2>3, Quiet
<1>3. ASSUME NEW p \in Procs, Work(p)
      PROVE  SafeInv'
  BY <1>1, <1>3, WorkSafe
<1>4. ASSUME NEW p \in Procs, Crash(p)
      PROVE  SafeInv'
  BY <1>1, <1>4, QuietReturn DEF Crash
<1>5. CASE UNCHANGED vars
  <2>1. UniqueNames' /\ SitesOK'
    BY <1>5 DEF vars, shared, history, SafeInv, UniqueNames, SitesOK, Given, Exists, Named
  <2>2. \A p \in Procs : StepSafe(pc[p], call[p])'
    BY <1>5 DEF vars, shared, local, history, SafeInv, StepSafe, Given, Exists, Named
  <2> QED
    BY <1>1, <2>1, <2>2 DEF SafeInv
<1> QED
  BY <1>2, <1>3, <1>4, <1>5, Zenon DEF Next

\* SafeInv holds at the start.
LEMMA InitSafeInv == Init => SafeInv
<1> SUFFICES ASSUME Init
             PROVE  SafeInv
  OBVIOUS
<1>1. TypeInv
  BY InitTypeInv
<1>2. UniqueNames /\ SitesOK
  BY DEF Init, UniqueNames, SitesOK, Given
<1>3. \A p \in Procs : StepSafe(pc[p], call[p])
  BY DEF Init, StepSafe, Unmade, Building, Undoing, Placed
<1> QED
  BY <1>1, <1>2, <1>3 DEF SafeInv

\* SafeInv holds in every state.
LEMMA AlwaysSafe == ASSUME ~ReadsFail PROVE Spec => []SafeInv
  BY InitSafeInv, NextSafeInv, PTL DEF Spec

\* benches.json never gets two records of one name, however many creates,
\* recreates and deletes of it run at once (create.go, recreate.go), as long as
\* the existence check can read the file.
THEOREM NamesUnique == ASSUME ~ReadsFail PROVE Spec => []UniqueNames
<1>1. SafeInv => UniqueNames
  BY DEF SafeInv
<1> QED
  BY <1>1, AlwaysSafe, PTL

\* The rollback of a failed create never works on a tracked bench (the deferred
\* rollback of create.go).
THEOREM RollbackSpares == ASSUME ~ReadsFail PROVE Spec => []RollbackSparesTracked
<1>1. SafeInv => RollbackSparesTracked
  BY InCall DEF SafeInv, StepSafe, Unmade, RollbackSparesTracked, name
<1> QED
  BY <1>1, AlwaysSafe, PTL

\* Only three steps end a site, each when it may go.
LEMMA SiteEnds ==
  ASSUME SafeInv, [Next]_vars, NEW n \in Names, data[n] = "site", data'[n] # "site"
  PROVE  n \in expendable'
<1> DEFINE Kept == data'[n] = data[n]
<1> TypeInv
  BY DEF SafeInv
<1>1. ASSUME NEW p \in Procs, NEW m \in Names, Up(m) \/ data' = WithVolumes(m)
      PROVE  Kept
  BY <1>1 DEF Up, WithVolumes, TypeInv, BenchOK
<1>2. PICK p \in Procs : (\E c \in Calls : Begin(p, c)) \/ Work(p) \/ Crash(p)
  BY Zenon DEF Next, vars, shared
<1>3. pc[p] # "idle" => name(p) \in Names /\ name(p) = call[p].name
  BY InCall DEF name
<1>4. CASE UndoDown(p)
  <2>1. pc[p] = "undoDown" /\ expendable' = expendable
    BY <1>4 DEF UndoDown, At, history
  <2>2. n = name(p)
    BY <1>3, <1>4, <2>1 DEF UndoDown, TypeInv, BenchOK
  <2>3. ~Exists(reg, n)
    BY <1>3, <2>1, <2>2 DEF SafeInv, StepSafe, Unmade, Undoing
  <2> QED
    BY <2>1, <2>3 DEF SafeInv, SitesOK, Given
<1>5. CASE pc[p] = "down" /\ expendable' = GivenUp(p)
           /\ (data' = data \/ data' = [data EXCEPT ![name(p)] = "none"])
  <2>1. n = name(p)
    BY <1>3, <1>5 DEF TypeInv, BenchOK
  <2> QED
    BY <1>3, <1>5, <2>1 DEF SafeInv, StepSafe, Given, GivenUp
<1>6. CASE TearDown(p)
  <2>1. data' = data \/ data' = [data EXCEPT ![name(p)] = "none"]
    BY <1>6, Zenon DEF TearDown
  <2> QED
    BY <1>5, <1>6, <2>1 DEF TearDown, At
<1>7. CASE Warn(p)
  BY <1>5, <1>7 DEF Warn, At
<1>8. CASE \E c \in Calls : Begin(p, c)
  BY <1>8 DEF Begin, shared
<1>9. CASE Crash(p)
  BY <1>9 DEF Crash
<1>10. CASE BringUp(p) \/ StartUp(p) \/ ApplyChange(p) \/ BuildImage(p) \/ StartBackup(p)
  <2>1. name(p) \in Names
    BY <1>3, <1>10 DEF BringUp, StartUp, ApplyChange, BuildImage, StartBackup, At
  <2>2. Up(name(p)) \/ data' = WithVolumes(name(p)) \/ data' = data
    BY <1>10, Zenon DEF BringUp, StartUp, ApplyChange, BuildImage, StartBackup
  <2> QED
    BY <1>1, <2>1, <2>2
<1>11. CASE SaveBench(p)
  BY <1>11 DEF SaveBench, TypeInv, BenchOK
<1>12. CASE Read(p) \/ Check(p) \/ TryLock(p) \/ CheckExists(p) \/ AllocPorts(p) \/ MakeDir(p)
            \/ WriteCompose(p) \/ MakeSite(p)
  BY <1>12 DEF Read, Check, TryLock, CheckExists, AllocPorts, MakeDir, WriteCompose, MakeSite, shared
<1>13. CASE UndoDir(p) \/ KeepOnFailure(p) \/ Dump(p) \/ Reread(p) \/ RemoveDir(p) \/ RemoveBench(p)
  BY <1>13 DEF UndoDir, KeepOnFailure, Dump, Reread, RemoveDir, RemoveBench
<1>14. CASE MakeHome(p) \/ Stop(p) \/ SetAliases(p) \/ Render(p) \/ Fail(p) \/ Misread(p)
  BY <1>14 DEF MakeHome, Stop, SetAliases, Render, Fail, Misread, shared
<1> QED
  BY <1>2, <1>4, <1>6, <1>7, <1>8, <1>9, <1>10, <1>11, <1>12, <1>13, <1>14, Zenon DEF Work

\* A site is destroyed only once it is in an archive or was given up with
\* --no-backup (backupBeforeDestroy), whatever runs at the same time.
THEOREM SiteArchived == ASSUME ~ReadsFail PROVE Spec => SiteArchivedFirst
<1>1. SafeInv /\ [Next]_vars =>
        [\A n \in Names : data[n] = "site" /\ data'[n] # "site" => n \in expendable']_vars
  BY SiteEnds
<1> QED
  BY <1>1, AlwaysSafe, PTL DEF Spec, SiteArchivedFirst

-----------------------------------------------------------------------------
(* What is left of a bench: a tracked one is whole, an untracked one is gone *)

\* The bench n does not change.
SameBench(n) ==
  /\ Exists(reg, n)' <=> Exists(reg, n)
  /\ dir'[n] = dir[n] /\ cont'[n] = cont[n] /\ data'[n] = data[n]
  /\ n \in leftover' <=> n \in leftover

\* No other bench than n changes.
Elsewhere(n) == \A m \in Names \ {n} : SameBench(m)

\* A step that changes directory, containers and volumes of one bench at most,
\* and no record.
LEMMA OneBench ==
  ASSUME TypeInv, NEW n \in Names, reg' = reg,
         dir' = dir \/ \E v : dir' = [dir EXCEPT ![n] = v],
         cont' = cont \/ \E v : cont' = [cont EXCEPT ![n] = v],
         data' = data \/ \E v : data' = [data EXCEPT ![n] = v],
         leftover' = leftover \/ leftover' = leftover \cup {n}
  PROVE  Elsewhere(n)
<1>1. \A m : Exists(reg, m)' <=> Exists(reg, m)
  BY DEF Exists, Named
<1>2. \A m \in Names \ {n} : dir'[m] = dir[m]
  BY DEF TypeInv, BenchOK
<1>3. \A m \in Names \ {n} : cont'[m] = cont[m]
  BY DEF TypeInv, BenchOK
<1>4. \A m \in Names \ {n} : data'[m] = data[m]
  BY DEF TypeInv, BenchOK
<1> QED
  BY <1>1, <1>2, <1>3, <1>4 DEF Elsewhere, SameBench

\* The step of a call changes no other bench than that of the call.
LEMMA OnlyItsBench ==
  ASSUME SafeInv, NEW p \in Procs, NEW n \in Names, n = name(p), Work(p) \/ Crash(p)
  PROVE  Elsewhere(n)
<1> TypeInv
  BY DEF SafeInv
<1>1. CASE \/ Read(p) \/ Check(p) \/ TryLock(p) \/ CheckExists(p) \/ AllocPorts(p) \/ MakeSite(p)
           \/ Reread(p) \/ Misread(p)
  <2>1. UNCHANGED <<reg, dir, cont, data, leftover>>
    BY <1>1 DEF Read, Check, TryLock, CheckExists, AllocPorts, MakeSite, Reread, Misread, shared, history
  <2> QED
    BY <2>1, OneBench
<1>2. CASE MakeDir(p) \/ WriteCompose(p) \/ UndoDir(p) \/ RemoveDir(p) \/ MakeHome(p) \/ Render(p)
  <2>1. UNCHANGED <<reg, cont, data, leftover>>
    BY <1>2 DEF MakeDir, WriteCompose, UndoDir, RemoveDir, MakeHome, Render, history
  <2>2. \E v : dir' = [dir EXCEPT ![n] = v]
    BY <1>2 DEF MakeDir, WriteCompose, UndoDir, RemoveDir, MakeHome, Render
  <2> QED
    BY <2>1, <2>2, OneBench
<1>3. CASE BuildImage(p) \/ BringUp(p) \/ StartUp(p) \/ ApplyChange(p) \/ StartBackup(p)
  <2>1. UNCHANGED <<reg, dir, leftover>>
    BY <1>3 DEF BuildImage, BringUp, StartUp, ApplyChange, StartBackup, history
  <2>2. \/ Up(n)
        \/ cont' = cont /\ data' = WithVolumes(n)
        \/ cont' = cont /\ data' = data
    BY <1>3, Zenon DEF BuildImage, BringUp, StartUp, ApplyChange, StartBackup
  <2>3. (cont' = cont \/ \E v : cont' = [cont EXCEPT ![n] = v])
        /\ (data' = data \/ \E v : data' = [data EXCEPT ![n] = v])
    BY <2>2 DEF Up, WithVolumes
  <2> QED
    BY <2>1, <2>3, OneBench
<1>4. CASE UndoDown(p) \/ KeepOnFailure(p) \/ Dump(p) \/ TearDown(p) \/ Stop(p) \/ Fail(p) \/ Warn(p)
           \/ Crash(p)
  <2>1. reg' = reg
    BY <1>4 DEF UndoDown, KeepOnFailure, Dump, TearDown, Stop, Fail, Warn, Crash
  <2>2. dir' = dir
    BY <1>4 DEF UndoDown, KeepOnFailure, Dump, TearDown, Stop, Fail, Warn, Crash
  <2>3. cont' = cont \/ \E v : cont' = [cont EXCEPT ![n] = v]
    <3>1. cont' = cont \/ cont' = [cont EXCEPT ![n] = NoContainers] \/ cont' = Stopped(n)
      BY <1>4, Zenon DEF UndoDown, KeepOnFailure, Dump, TearDown, Stop, Fail, Warn, Crash
    <3>2. \E v : Stopped(n) = [cont EXCEPT ![n] = v]
      BY DEF Stopped
    <3> QED
      BY <3>1, <3>2
  <2>4. data' = data \/ \E v : data' = [data EXCEPT ![n] = v]
    <3>1. data' = data \/ data' = [data EXCEPT ![n] = "none"]
      BY <1>4, Zenon DEF UndoDown, KeepOnFailure, Dump, TearDown, Stop, Fail, Warn, Crash
    <3> QED
      BY <3>1
  <2>5. leftover' = leftover \/ leftover' = leftover \cup {n}
    BY <1>4, Zenon DEF UndoDown, KeepOnFailure, Dump, TearDown, Stop, Fail, Warn, Crash, history
  <2> QED
    BY <2>1, <2>2, <2>3, <2>4, <2>5, OneBench
<1>5. reg \in Seq(Record) /\ Distinct(reg)
  BY DEF TypeInv, SafeInv, UniqueNames, Distinct
<1>6. CASE SaveBench(p)
  <2> DEFINE b == [name |-> n, val |-> Planned(p)]
  <2>1. reg' = Append(reg, b) /\ b.name = n
    BY <1>6 DEF SaveBench, add
  <2>2. UNCHANGED <<dir, cont>> /\ data' = [data EXCEPT ![n] = "site"] /\ leftover' = leftover \ {n}
    BY <1>6 DEF SaveBench
  <2> HIDE DEF b
  <2>3. DOMAIN reg' = DOMAIN reg \cup {Len(reg) + 1}
    BY <1>5, <2>1
  <2>4. reg'[Len(reg) + 1] = b /\ \A i \in DOMAIN reg : reg'[i] = reg[i] /\ i # Len(reg) + 1
    BY <1>5, <2>1
  <2>5. \A m \in Names \ {n} : Exists(reg, m)' <=> Exists(reg, m)
    BY <2>1, <2>3, <2>4 DEF Exists, Named
  <2>6. \A m \in Names \ {n} : data'[m] = data[m]
    BY <2>2 DEF TypeInv, BenchOK
  <2> QED
    BY <2>2, <2>5, <2>6 DEF Elsewhere, SameBench
<1>7. CASE RemoveBench(p)
  <2>1. reg' = remove(reg, n) /\ UNCHANGED <<dir, cont, data, leftover>>
    BY <1>7 DEF RemoveBench
  <2>2. ASSUME NEW m \in Names \ {n}
        PROVE  Exists(reg, m)' <=> Exists(reg, m)
    <3>1. Exists(reg, m) => Exists(reg, m)'
      BY <1>5, <2>1, RemoveSpares
    <3>2. \A i \in DOMAIN reg' : \E j \in DOMAIN reg : reg'[i] = reg[j]
      BY <1>5, <2>1, RemoveKeeps
    <3>3. Exists(reg, m)' => Exists(reg, m)
      BY <3>2 DEF Exists, Named
    <3> QED
      BY <3>1, <3>3
  <2> QED
    BY <2>1, <2>2 DEF Elsewhere, SameBench
<1>8. CASE SetAliases(p)
  <2>1. UNCHANGED <<dir, cont, data, leftover>> /\ pc[p] = "update"
    BY <1>8 DEF SetAliases, At
  <2> DEFINE v == [Get(reg, n).val EXCEPT !.hosts = Aliases(p)]
  <2>2. reg' = reg \/ (Exists(reg, n) /\ reg' = update(reg, n, v))
    BY <1>8, Zenon DEF SetAliases
  <2>3. CASE reg' = reg
    BY <2>1, <2>3, OneBench
  <2>4. CASE Exists(reg, n) /\ reg' = update(reg, n, v)
    <3>1. v \in Values
      BY <2>1, <2>4, GetType, AliasesType, ValuesAssumption
    <3> HIDE DEF v
    <3>2. DOMAIN reg' = DOMAIN reg /\ \A i \in DOMAIN reg : reg'[i].name = reg[i].name
      BY <2>4, <1>5, <3>1, UpdateType
    <3>3. \A m : Exists(reg, m)' <=> Exists(reg, m)
      BY <3>2 DEF Exists, Named
    <3> QED
      BY <2>1, <3>3 DEF Elsewhere, SameBench
  <2> QED
    BY <2>2, <2>3, <2>4
<1> QED
  BY <1>1, <1>2, <1>3, <1>4, <1>6, <1>7, <1>8, Zenon DEF Work

\* A step of a call moves one process, which stays in its call or returns.
LEMMA WorkMoves ==
  ASSUME TypeInv, NEW p \in Procs, Work(p) \/ Crash(p)
  PROVE  /\ Alone(p) /\ pc[p] # "idle" /\ name(p) \in Names /\ name(p) = call[p].name
         /\ pc'[p] = "idle" \/ call'[p] = call[p]
<1> DEFINE Moved == Alone(p) /\ (pc'[p] = "idle" \/ call'[p] = call[p])
<1>1. pc[p] # "idle"
  BY DEF Work, Crash, At, Read, Check, TryLock, CheckExists, AllocPorts, MakeDir, WriteCompose, BuildImage,
         BringUp, MakeSite, SaveBench, UndoDown, UndoDir, KeepOnFailure, StartBackup, Dump, Reread,
         TearDown, RemoveDir, RemoveBench, MakeHome, StartUp, Stop, SetAliases, Render, ApplyChange,
         Fail, Misread, Warn, Warned, CanFail
<1> SUFFICES Moved
  BY <1>1, InCall DEF name
<1>2. ASSUME NEW s, Goto(p, s)
      PROVE  Moved
  BY <1>2, MovesAlone
<1>3. ASSUME NEW s, NEW v, GotoWith(p, s, v)
      PROVE  Moved
  BY <1>3, MovesAlone
<1>4. ASSUME NEW k, Build(p, k)
      PROVE  Moved
  BY <1>4, MovesAlone
<1>5. CASE Return(p)
  BY <1>5, MovesAlone
<1> HIDE DEF Moved
<1>6. CASE \/ Read(p) \/ Check(p) \/ TryLock(p) \/ CheckExists(p) \/ AllocPorts(p) \/ MakeDir(p)
           \/ WriteCompose(p) \/ BuildImage(p) \/ BringUp(p) \/ MakeSite(p) \/ SaveBench(p)
  BY <1>2, <1>3, <1>4, <1>5, <1>6, Zenon
     DEF Read, Check, TryLock, CheckExists, AllocPorts, MakeDir, WriteCompose, BuildImage, BringUp,
         MakeSite, SaveBench
<1>7. CASE \/ UndoDown(p) \/ UndoDir(p) \/ KeepOnFailure(p) \/ StartBackup(p) \/ Dump(p) \/ Reread(p)
           \/ TearDown(p) \/ RemoveDir(p) \/ RemoveBench(p)
  BY <1>2, <1>3, <1>5, <1>7, Zenon
     DEF UndoDown, UndoDir, KeepOnFailure, StartBackup, Dump, Reread, TearDown, RemoveDir, RemoveBench
<1>8. CASE \/ MakeHome(p) \/ StartUp(p) \/ Stop(p) \/ SetAliases(p) \/ Render(p) \/ ApplyChange(p)
           \/ Fail(p) \/ Misread(p) \/ Crash(p)
  BY <1>2, <1>3, <1>5, <1>8, Zenon
     DEF MakeHome, StartUp, Stop, SetAliases, Render, ApplyChange, Fail, Misread, Crash
<1>9. CASE Warn(p)
  <2>1. Return(p) \/ \E s : Goto(p, s)
    BY <1>9 DEF Warn, Warned, At
  <2> QED
    BY <1>2, <1>5, <2>1
<1> QED
  BY <1>6, <1>7, <1>8, <1>9, Zenon DEF Work

Composed == {"image", "up", "site", "save"}

\* Its site and its compose file are there.
Whole(n) == data[n] = "site" /\ dir[n] \in Values

Torn(n) == \E p \in Procs : pc[p] \in Tearing /\ call[p].name = n

Complete(n) == Exists(reg, n) => Whole(n) \/ n \in leftover \/ Torn(n)

\* What TrackedComplete needs: a build has its compose file from WriteCompose
\* on.
CompleteInv ==
  /\ SafeInv
  /\ \A n \in Names : Complete(n)
  /\ \A p \in Procs : pc[p] \in Composed => dir[call[p].name] \in Values

\* It is enough to look at the bench that the step is about.
LEMMA CompleteThere ==
  ASSUME CompleteInv, SafeInv', NEW p \in Procs, NEW n \in Names, n = call[p].name, Alone(p),
         pc'[p] = "idle" \/ call'[p] = call[p], pc[p] # "idle", Elsewhere(n),
         Complete(n)',
         pc'[p] \in Composed => dir'[n] \in Values,
         Holds(pc[p], call[p]) \/ (dir[n] \in Values => dir'[n] \in Values)
  PROVE  CompleteInv'
<1> TypeInv
  BY DEF CompleteInv, SafeInv
<1>1. ASSUME NEW m \in Names
      PROVE  Complete(m)'
  <2>1. CASE m # n
    <3>1. Torn(m) => Torn(m)'
      <4>1. SUFFICES ASSUME NEW q \in Procs, pc[q] \in Tearing, call[q].name = m
                     PROVE  Torn(m)'
        BY DEF Torn
      <4>2. pc'[q] = pc[q] /\ call'[q] = call[q]
        BY <2>1, <4>1 DEF Alone
      <4> QED
        BY <4>1, <4>2 DEF Torn
    <3>2. Complete(m)
      BY DEF CompleteInv
    <3> QED
      BY <2>1, <3>1, <3>2 DEF Elsewhere, SameBench, Complete, Whole
  <2> QED
    BY <2>1
<1>2. ASSUME NEW q \in Procs, pc'[q] \in Composed
      PROVE  dir'[call'[q].name] \in Values
  <2>1. CASE q = p
    BY <1>2, <2>1 DEF Composed
  <2>2. CASE q # p
    <3>1. pc'[q] = pc[q] /\ call'[q] = call[q]
      BY <2>2 DEF Alone
    <3>2. dir[call[q].name] \in Values /\ Holds(pc[q], call[q]) /\ call[q].name \in Names
      BY <1>2, <3>1, InCall DEF CompleteInv, Composed, Holds, Making, Building, name
    <3>3. CASE call[q].name = n
      BY <2>2, <3>1, <3>2, <3>3, OneHolder
    <3>4. CASE call[q].name # n
      BY <3>1, <3>2, <3>4 DEF Elsewhere, SameBench
    <3> QED
      BY <3>3, <3>4
  <2> QED
    BY <2>1, <2>2
<1> QED
  BY <1>1, <1>2 DEF CompleteInv

\* A bench stays whole while its site and its compose file stay.
LEMMA StaysWhole ==
  ASSUME CompleteInv, NEW p \in Procs, NEW n \in Names, n = call[p].name, Alone(p),
         pc'[p] = "idle" \/ call'[p] = call[p],
         Exists(reg, n)' => Exists(reg, n),
         Whole(n) => Whole(n)',
         n \in leftover => n \in leftover',
         pc[p] \in Tearing => pc'[p] \in Tearing \/ n \in leftover'
  PROVE  Complete(n)'
<1>1. ASSUME Exists(reg, n)', Torn(n)
      PROVE  Torn(n)' \/ n \in leftover'
  <2>1. PICK q \in Procs : pc[q] \in Tearing /\ call[q].name = n
    BY <1>1 DEF Torn
  <2>2. CASE q = p
    BY <2>1, <2>2 DEF Torn, Tearing
  <2>3. CASE q # p
    BY <2>1, <2>3 DEF Torn, Alone
  <2> QED
    BY <2>2, <2>3
<1> QED
  BY <1>1 DEF CompleteInv, Complete

\* So does one that the step is tearing down.
LEMMA BeingTorn ==
  ASSUME NEW p \in Procs, NEW n, pc'[p] \in Tearing, call'[p].name = n
  PROVE  Complete(n)'
  BY DEF Complete, Torn

\* Step t may come after step s of a call.
Leads(s, t) ==
  \/ t = "idle"
  \/ s = "read" /\ t \in {"lock", "home", "stop", "check", "update"}
  \/ s = "check" /\ t \in {"lock", "exists", "update"}
  \/ s = "lock" /\ t \in {"exists", "backup"}
  \/ s = "exists" /\ t = "alloc"
  \/ s = "alloc" /\ t = "mkdir"
  \/ s = "mkdir" /\ t = "compose"
  \/ s = "compose" /\ t = "image"
  \/ s = "image" /\ t = "up"
  \/ s = "up" /\ t = "site"
  \/ s = "site" /\ t = "save"
  \/ s \in Building /\ t = "undoDown"
  \/ s = "undoDown" /\ t = "undoDir"
  \/ s = "backup" /\ t \in {"dump", "dumpStarted"}
  \/ s \in {"backup", "dump", "dumpStarted"} /\ t \in {"reread", "down"}
  \/ s = "reread" /\ t = "down"
  \/ s = "down" /\ t = "rmdir"
  \/ s = "rmdir" /\ t = "remove"
  \/ s = "remove" /\ t \in {"exists", "check"}
  \/ s = "home" /\ t = "startUp"
  \/ s = "update" /\ t = "render"
  \/ s = "render" /\ t = "apply"

\* The steps of a call come in this order.
LEMMA WorkLeads ==
  ASSUME TypeInv, NEW p \in Procs, Work(p) \/ Crash(p)
  PROVE  Leads(pc[p], pc'[p])
<1>1. ASSUME NEW s, Goto(p, s)
      PROVE  pc'[p] = s
  BY <1>1, MovesAlone
<1>2. ASSUME NEW s, NEW v, GotoWith(p, s, v)
      PROVE  pc'[p] = s
  BY <1>2, MovesAlone
<1>3. ASSUME NEW k, Build(p, k)
      PROVE  pc'[p] = "mkdir"
  BY <1>3, MovesAlone
<1>4. CASE Return(p)
  BY <1>4, MovesAlone DEF Leads
<1>5. CASE Read(p)
  <2> DEFINE b == Get(reg, name(p)).val
             t == AfterRead(call[p], b)
  <2>1. CASE t # "idle" /\ GotoWith(p, t, b)
    <3>1. pc[p] = "read"
      BY <1>5 DEF Read, At
    <3>2. t \in {"lock", "home", "stop", "check", "update"}
      BY <2>1, <3>1, ReadGoes
    <3> HIDE DEF t, b
    <3> QED
      BY <1>2, <2>1, <3>1, <3>2 DEF Leads
  <2> QED
    BY <1>4, <1>5, <2>1, Zenon DEF Read
<1>6. CASE Check(p)
  <2> DEFINE t == CASE kind(p) = "create"   -> "lock"
                    [] kind(p) = "recreate" -> "exists"
                    [] OTHER                -> "update"
  <2>1. CASE Goto(p, t)
    <3>1. t \in {"lock", "exists", "update"}
      OBVIOUS
    <3> HIDE DEF t
    <3> QED
      BY <1>1, <1>6, <2>1, <3>1 DEF Check, At, Leads
  <2> QED
    BY <1>4, <1>6, <2>1, Zenon DEF Check
<1>7. CASE TryLock(p)
  BY <1>1, <1>4, <1>7 DEF TryLock, At, Leads
<1>8. CASE CheckExists(p) \/ Misread(p)
  BY <1>1, <1>4, <1>8 DEF CheckExists, Misread, At, Leads
<1>9. CASE AllocPorts(p)
  BY <1>3, <1>4, <1>9 DEF AllocPorts, At, Leads
<1>10. CASE MakeDir(p) \/ WriteCompose(p) \/ BuildImage(p) \/ BringUp(p) \/ MakeSite(p)
  <2>1. \/ pc[p] = "mkdir" /\ Goto(p, "compose")
        \/ pc[p] = "compose" /\ Goto(p, "image")
        \/ pc[p] = "image" /\ Goto(p, "up")
        \/ pc[p] = "up" /\ Goto(p, "site")
        \/ pc[p] = "site" /\ Goto(p, "save")
    BY <1>10, Zenon DEF MakeDir, WriteCompose, BuildImage, BringUp, MakeSite, At
  <2> QED
    BY <1>1, <2>1 DEF Leads
<1>11. CASE SaveBench(p) \/ UndoDir(p) \/ KeepOnFailure(p) \/ StartUp(p) \/ Stop(p) \/ ApplyChange(p)
            \/ Crash(p)
  BY <1>4, <1>11, Zenon DEF SaveBench, UndoDir, KeepOnFailure, StartUp, Stop, ApplyChange, Crash
<1>12. CASE UndoDown(p) \/ TearDown(p) \/ RemoveDir(p) \/ MakeHome(p) \/ Render(p)
  <2>1. \/ pc[p] = "undoDown" /\ Goto(p, "undoDir")
        \/ pc[p] = "down" /\ Goto(p, "rmdir")
        \/ pc[p] = "rmdir" /\ Goto(p, "remove")
        \/ pc[p] = "home" /\ Goto(p, "startUp")
        \/ pc[p] = "render" /\ Goto(p, "apply")
    BY <1>12, Zenon DEF UndoDown, TearDown, RemoveDir, MakeHome, Render, At
  <2> QED
    BY <1>1, <2>1 DEF Leads
<1>13. AfterBackup(p) \in {"reread", "down"}
  BY DEF AfterBackup
<1>14. CASE StartBackup(p)
  <2>1. /\ pc[p] = "backup"
        /\ Return(p) \/ Goto(p, AfterBackup(p)) \/ Goto(p, "dump") \/ Goto(p, "dumpStarted")
    BY <1>14, Zenon DEF StartBackup, At
  <2> QED
    BY <1>1, <1>4, <1>13, <2>1 DEF Leads
<1>15. CASE Dump(p)
  BY <1>1, <1>13, <1>15 DEF Dump, Leads
<1>16. CASE Reread(p)
  BY <1>2, <1>4, <1>16 DEF Reread, At, Leads
<1>17. CASE RemoveBench(p)
  <2>1. pc[p] = "remove" /\ (Return(p) \/ Goto(p, "exists") \/ Goto(p, "check"))
    BY <1>17, Zenon DEF RemoveBench, At
  <2> QED
    BY <1>1, <1>4, <2>1 DEF Leads
<1>18. CASE SetAliases(p)
  <2>1. pc[p] = "update" /\ (Return(p) \/ \E v : GotoWith(p, "render", v))
    BY <1>18, Zenon DEF SetAliases, At
  <2> QED
    BY <1>2, <1>4, <2>1 DEF Leads
<1>19. CASE Fail(p)
  <2>1. Return(p) \/ (pc[p] \in Building /\ Goto(p, "undoDown"))
    BY <1>19, Zenon DEF Fail
  <2> QED
    BY <1>1, <1>4, <2>1 DEF Leads
<1>20. CASE Warn(p)
  <2>1. \/ Return(p)
        \/ pc[p] = "down" /\ Goto(p, "rmdir")
        \/ pc[p] = "rmdir" /\ Goto(p, "remove")
        \/ pc[p] = "undoDown" /\ Goto(p, "undoDir")
    BY <1>20 DEF Warn, Warned, At
  <2> QED
    BY <1>1, <1>4, <2>1 DEF Leads
<1> QED
  BY <1>5, <1>6, <1>7, <1>8, <1>9, <1>10, <1>11, <1>12, <1>14, <1>15, <1>16, <1>17, <1>18, <1>19,
     <1>20, Zenon DEF Work

\* The step of a call leaves every tracked bench complete.
LEMMA WorkComplete ==
  ASSUME ~ReadsFail, CompleteInv, SafeInv', NEW p \in Procs, Work(p) \/ Crash(p)
  PROVE  CompleteInv'
<1> SafeInv /\ TypeInv
  BY DEF CompleteInv, SafeInv
<1>1. PICK n \in Names : n = name(p)
  BY WorkMoves
<1>2. /\ Alone(p) /\ pc[p] # "idle" /\ n = call[p].name /\ Elsewhere(n)
      /\ pc'[p] = "idle" \/ call'[p] = call[p]
      /\ Leads(pc[p], pc'[p])
  BY <1>1, WorkMoves, WorkLeads, OnlyItsBench
<1>3. dir[n] \in Values \cup {NoDir, Bare} /\ data[n] \in {"none", "unfinished", "site"}
  BY DEF TypeInv, BenchOK
\* A build goes on from the compose file.
<1>4. ASSUME pc[p] = "compose" \/ dir'[n] = dir[n], pc'[p] \in Composed,
             pc[p] = "compose" => dir'[n] \in Values
      PROVE  dir'[n] \in Values
  BY <1>2, <1>4 DEF Leads, Composed, Building, CompleteInv
<1> DEFINE Fine == /\ Complete(n)'
                   /\ pc'[p] \in Composed => dir'[n] \in Values
                   /\ Holds(pc[p], call[p]) \/ (dir[n] \in Values => dir'[n] \in Values)
<1> SUFFICES Fine
  BY <1>2, CompleteThere
<1>5. ASSUME Exists(reg, n)' => Exists(reg, n), Whole(n) => Whole(n)',
             n \in leftover => n \in leftover',
             pc[p] \in Tearing => pc'[p] \in Tearing \/ n \in leftover'
      PROVE  Complete(n)'
  BY <1>2, <1>5, StaysWhole
<1>6. reg' = reg => (Exists(reg, n)' <=> Exists(reg, n))
  BY DEF Exists, Named
<1>7. pc[p] \in Unmade => ~Exists(reg, n)
  BY <1>2 DEF SafeInv, StepSafe
<1>8. CASE \/ Read(p) \/ Check(p) \/ TryLock(p) \/ CheckExists(p) \/ AllocPorts(p) \/ Reread(p)
           \/ MakeSite(p)
  <2>1. UNCHANGED <<reg, dir, cont, data, leftover>>
    BY <1>8 DEF Read, Check, TryLock, CheckExists, AllocPorts, Reread, MakeSite, shared, history
  <2>2. pc[p] \notin Tearing /\ pc[p] # "compose"
    BY <1>8 DEF Read, Check, TryLock, CheckExists, AllocPorts, Reread, MakeSite, At, Tearing
  <2> QED
    BY <1>4, <1>5, <1>6, <2>1, <2>2 DEF Whole
<1>9. CASE Misread(p)
  BY <1>9 DEF Misread
<1>10. CASE MakeDir(p) \/ WriteCompose(p)
  <2>1. reg' = reg /\ pc[p] \in Building /\ pc[p] \in {"mkdir", "compose"}
    BY <1>10 DEF MakeDir, WriteCompose, At, Building
  <2>2. pc[p] = "compose" => dir'[n] \in Values
    BY <1>1, <1>10, <2>1, PlannedType DEF MakeDir, WriteCompose, At, TypeInv, BenchOK
  <2>3. pc'[p] \in Composed => pc[p] = "compose"
    BY <1>2, <2>1 DEF Leads, Composed
  <2> QED
    BY <1>6, <1>7, <2>1, <2>2, <2>3 DEF Complete, Unmade, Holds, Making
<1>11. CASE BuildImage(p) \/ BringUp(p) \/ StartUp(p) \/ ApplyChange(p) \/ StartBackup(p)
  <2>1. UNCHANGED <<reg, dir, leftover>>
    BY <1>11 DEF BuildImage, BringUp, StartUp, ApplyChange, StartBackup, history
  <2>2. Up(n) \/ data' = WithVolumes(n) \/ data' = data
    BY <1>1, <1>11, Zenon DEF BuildImage, BringUp, StartUp, ApplyChange, StartBackup
  <2>3. data[n] = "site" => data'[n] = "site"
    BY <2>2 DEF Up, WithVolumes, TypeInv, BenchOK
  <2>4. pc[p] \notin Tearing /\ pc[p] # "compose"
    BY <1>11 DEF BuildImage, BringUp, StartUp, ApplyChange, StartBackup, At, Tearing
  <2> QED
    BY <1>4, <1>5, <1>6, <2>1, <2>3, <2>4 DEF Whole
<1>12. CASE SaveBench(p)
  <2>1. pc[p] = "save" /\ data' = [data EXCEPT ![n] = "site"] /\ dir' = dir
    BY <1>1, <1>12 DEF SaveBench, At
  <2>2. dir[n] \in Values
    BY <1>2, <2>1 DEF CompleteInv, Composed
  <2>3. pc'[p] \notin Composed
    BY <1>12, MovesAlone DEF SaveBench, Composed
  <2> QED
    BY <2>1, <2>2, <2>3 DEF Complete, Whole, TypeInv, BenchOK
<1>13. CASE UndoDown(p) \/ UndoDir(p) \/ KeepOnFailure(p)
  <2>1. reg' = reg /\ pc[p] \in Undoing
    BY <1>13 DEF UndoDown, UndoDir, KeepOnFailure, At, Undoing
  <2>2. pc'[p] \notin Composed
    BY <1>2, <2>1 DEF Leads, Composed, Undoing, Building
  <2> QED
    BY <1>6, <1>7, <2>1, <2>2 DEF Complete, Unmade, Holds, Making
<1>14. CASE Dump(p) \/ Stop(p)
  <2>1. UNCHANGED <<reg, dir, data, leftover>>
    BY <1>14 DEF Dump, Stop, history
  <2>2. pc[p] \notin Tearing /\ pc[p] # "compose"
    BY <1>14 DEF Dump, Stop, At, Tearing
  <2> QED
    BY <1>4, <1>5, <1>6, <2>1, <2>2 DEF Whole
<1>15. CASE TearDown(p) \/ RemoveDir(p)
  <2>1. pc[p] \in {"down", "rmdir"} /\ pc'[p] \in Tearing /\ call'[p] = call[p]
    BY <1>15, MovesAlone DEF TearDown, RemoveDir, At, Tearing
  <2>2. Complete(n)'
    BY <1>2, <2>1, BeingTorn
  <2> QED
    BY <2>1, <2>2 DEF Holds, Tearing, Composed
<1>16. CASE RemoveBench(p)
  <2>1. pc[p] = "remove" /\ reg' = remove(reg, n)
    BY <1>1, <1>16 DEF RemoveBench, At
  <2>2. reg' \in Seq(Others(n))
    BY <2>1, RemoveClears DEF TypeInv
  <2>3. ~Exists(reg, n)'
    BY <2>2 DEF Exists, Named, Others
  <2>4. pc'[p] \notin Composed
    BY <1>2, <2>1 DEF Leads, Composed, Building
  <2> QED
    BY <2>1, <2>3, <2>4 DEF Complete, Holds, Tearing
<1>17. CASE MakeHome(p) \/ Render(p)
  <2>1. UNCHANGED <<reg, data, leftover>> /\ pc[p] \in {"home", "render"}
    BY <1>17 DEF MakeHome, Render, At, history
  <2>2. dir[n] \in Values => dir'[n] \in Values
    <3>1. pc[p] = "render" => seen[p] \in Values
      BY InCall DEF StepOK
    <3> QED
      BY <1>1, <1>17, <3>1, LifecycleAssumption DEF MakeHome, Render, At, TypeInv, BenchOK
  <2>3. pc'[p] \notin Composed /\ pc[p] \notin Tearing
    BY <1>2, <2>1 DEF Leads, Composed, Building, Tearing
  <2> QED
    BY <1>5, <1>6, <2>1, <2>2, <2>3 DEF Whole
<1>18. CASE SetAliases(p)
  <2>1. UNCHANGED <<dir, data, leftover>> /\ pc[p] = "update"
    BY <1>18 DEF SetAliases, At
  <2>2. Exists(reg, n)' => Exists(reg, n)
    BY <1>1, <1>6, <1>18 DEF SetAliases
  <2>3. pc'[p] \notin Composed /\ pc[p] \notin Tearing
    BY <1>2, <2>1 DEF Leads, Composed, Building, Tearing
  <2> QED
    BY <1>5, <2>1, <2>2, <2>3 DEF Whole
<1>19. CASE Fail(p) \/ Crash(p)
  <2>1. UNCHANGED <<reg, dir, data>> /\ leftover \subseteq leftover'
    BY <1>19 DEF Fail, Crash
  <2>2. pc[p] \in Tearing => n \in leftover'
    BY <1>1, <1>19 DEF Fail, Crash, CanFail, Warned, Tearing, At
  <2>3. pc'[p] \notin Composed
    <3>1. Return(p) \/ Goto(p, "undoDown")
      BY <1>19, Zenon DEF Fail, Crash
    <3> QED
      BY <3>1, MovesAlone DEF Composed
  <2> QED
    BY <1>5, <1>6, <2>1, <2>2, <2>3 DEF Whole
<1>20. CASE Warn(p)
  <2>1. UNCHANGED <<reg, dir>> /\ pc[p] \in Warned /\ n \in leftover'
    BY <1>1, <1>20, Zenon DEF Warn
  <2>2. pc'[p] \notin Composed
    BY <1>2, <2>1 DEF Leads, Composed, Building, Warned
  <2> QED
    BY <2>1, <2>2 DEF Complete
<1> QED
  BY <1>8, <1>9, <1>10, <1>11, <1>12, <1>13, <1>14, <1>15, <1>16, <1>17, <1>18, <1>19, <1>20, Zenon
     DEF Work

\* A call that begins touches no bench, and a pause changes nothing.
LEMMA BeginSame ==
  ASSUME TypeInv, NEW p \in Procs, NEW c \in Calls, Begin(p, c)
  PROVE  /\ UNCHANGED <<reg, dir, cont, data, leftover>> /\ Alone(p)
         /\ pc[p] = "idle" /\ pc'[p] \in {"read", "check", "lock"} /\ call'[p] = c
  BY DEF Begin, At, Alone, TypeInv, LocalOK, shared, history

\* CompleteInv is inductive.
LEMMA NextCompleteInv == ~ReadsFail /\ CompleteInv /\ [Next]_vars => CompleteInv'
<1> SUFFICES ASSUME ~ReadsFail, CompleteInv, [Next]_vars
             PROVE  CompleteInv'
  OBVIOUS
<1> SafeInv /\ TypeInv
  BY DEF CompleteInv, SafeInv
<1>1. SafeInv'
  BY NextSafeInv
<1>2. ASSUME UNCHANGED <<reg, dir, data, leftover>>,
             \A p \in Procs : pc[p] \in Tearing \cup Composed => pc'[p] = pc[p] /\ call'[p] = call[p],
             \A p \in Procs : pc'[p] \in Composed => pc'[p] = pc[p]
      PROVE  CompleteInv'
  <2>1. ASSUME NEW n \in Names
        PROVE  Complete(n)'
    <3>1. Exists(reg, n)' <=> Exists(reg, n)
      BY <1>2 DEF Exists, Named
    <3>2. Torn(n) => Torn(n)'
      BY <1>2 DEF Torn
    <3> QED
      BY <1>2, <3>1, <3>2 DEF CompleteInv, Complete, Whole
  <2>2. \A p \in Procs : pc'[p] \in Composed => dir'[call'[p].name] \in Values
    BY <1>2 DEF CompleteInv
  <2> QED
    BY <1>1, <2>1, <2>2 DEF CompleteInv
<1>3. ASSUME NEW p \in Procs, NEW c \in Calls, Begin(p, c)
      PROVE  CompleteInv'
  BY <1>2, <1>3, BeginSame DEF Alone, Tearing, Composed
<1>4. ASSUME NEW p \in Procs, Work(p) \/ Crash(p)
      PROVE  CompleteInv'
  BY <1>1, <1>4, WorkComplete
<1>5. CASE UNCHANGED vars
  BY <1>2, <1>5 DEF vars, shared, local, history
<1> QED
  BY <1>3, <1>4, <1>5, Zenon DEF Next

\* CompleteInv holds in every state.
LEMMA AlwaysComplete == ASSUME ~ReadsFail PROVE Spec => []CompleteInv
<1>1. Init => CompleteInv
  BY InitSafeInv DEF Init, CompleteInv, Complete, Exists, Named, Composed
<1> QED
  BY <1>1, NextCompleteInv, PTL DEF Spec

\* A tracked bench has its site and its compose file, unless a teardown of it
\* runs or was cut short, however many creates, recreates, deletes, starts and
\* domain changes of it run at once (create.go, recreate.go, lifecycle.go,
\* domains.go), as long as the existence check can read benches.json.
THEOREM TrackedAreComplete == ASSUME ~ReadsFail PROVE Spec => []TrackedComplete
<1>1. CompleteInv => TrackedComplete
  <2> SUFFICES ASSUME CompleteInv, NEW i \in DOMAIN reg
               PROVE  LET n == reg[i].name IN
                        \/ data[n] = "site" /\ dir[n] \in Values
                        \/ n \in leftover
                        \/ \E p \in Procs : lock[n] = p /\ pc[p] \in Tearing
    BY DEF TrackedComplete
  <2> DEFINE n == reg[i].name
  <2>1. TypeInv
    BY DEF CompleteInv, SafeInv
  <2>2. n \in Names /\ Exists(reg, n)
    <3>1. reg \in Seq(Record)
      BY <2>1 DEF TypeInv
    <3>2. reg[i] \in Record
      BY <3>1
    <3> QED
      BY <3>2 DEF Record, Exists, Named
  <2>3. Torn(n) => \E p \in Procs : lock[n] = p /\ pc[p] \in Tearing
    BY <2>1 DEF Torn, TypeInv, LockOK, Holds
  <2> QED
    BY <2>2, <2>3 DEF CompleteInv, Complete, Whole
<1> QED
  BY <1>1, AlwaysComplete, PTL

-----------------------------------------------------------------------------
(* What is left of an untracked bench, when benches are only created, recreated
   and deleted *)

\* Its containers and volumes are gone.
Gone(n) == cont[n] = NoContainers /\ data[n] = "none"

Touching == Building \cup Undoing \cup Tearing

Touched(n) == \E p \in Procs : pc[p] \in Touching /\ call[p].name = n

\* Of an untracked bench that nothing went wrong with, what docker has goes no
\* further than its compose file, and outside a build or teardown there is
\* not even a directory.
Tidy(n) ==
  ~Exists(reg, n) /\ n \notin leftover =>
    /\ dir[n] \notin Values => Gone(n)
    /\ Touched(n) \/ dir[n] = NoDir

\* What the steps that clear a bench have achieved, and what a backup relies on.
StepTidy(s, c) ==
  /\ s \notin Unlocked
  /\ s \in {"dump", "dumpStarted"} => Exists(reg, c.name)
  /\ s \in {"undoDir", "rmdir"} => c.name \in leftover \/ Gone(c.name)
  /\ s = "remove" => c.name \in leftover \/ (dir[c.name] = NoDir /\ Gone(c.name))

\* What NothingLeft needs.
TidyInv ==
  /\ CompleteInv
  /\ \A n \in Names : Tidy(n)
  /\ \A p \in Procs : StepTidy(pc[p], call[p])

\* It is enough to look at the bench that the step is about, and at the step.
LEMMA TidyThere ==
  ASSUME TidyInv, CompleteInv', NEW p \in Procs, NEW n \in Names, n = call[p].name, Alone(p),
         pc'[p] = "idle" \/ call'[p] = call[p], pc[p] # "idle", Elsewhere(n),
         Holds(pc[p], call[p]) \/ SameBench(n),
         Tidy(n)', StepTidy(pc[p], call[p])'
  PROVE  TidyInv'
<1> TypeInv
  BY DEF TidyInv, CompleteInv, SafeInv
<1>1. ASSUME NEW m \in Names
      PROVE  Tidy(m)'
  <2>1. CASE m # n
    <3>1. Touched(m) => Touched(m)'
      <4>1. SUFFICES ASSUME NEW q \in Procs, pc[q] \in Touching, call[q].name = m
                     PROVE  Touched(m)'
        BY DEF Touched
      <4>2. pc'[q] = pc[q] /\ call'[q] = call[q]
        BY <2>1, <4>1 DEF Alone
      <4> QED
        BY <4>1, <4>2 DEF Touched
    <3>2. Tidy(m)
      BY DEF TidyInv
    <3> QED
      BY <2>1, <3>1, <3>2 DEF Elsewhere, SameBench, Tidy, Gone
  <2> QED
    BY <2>1
<1>2. ASSUME NEW q \in Procs
      PROVE  StepTidy(pc[q], call[q])'
  <2>1. CASE q = p
    BY <2>1
  <2>2. CASE q # p
    <3>1. pc'[q] = pc[q] /\ call'[q] = call[q] /\ StepTidy(pc[q], call[q])
      BY <2>2 DEF Alone, TidyInv
    <3>2. CASE pc[q] \notin {"dump", "dumpStarted", "undoDir", "rmdir", "remove"}
      BY <3>1, <3>2 DEF StepTidy
    <3>3. CASE pc[q] \in {"dump", "dumpStarted", "undoDir", "rmdir", "remove"}
      <4>1. Holds(pc[q], call[q]) /\ call[q].name \in Names
        BY <3>3, InCall DEF Holds, Making, Undoing, Tearing, Saving, name
      <4>2. SameBench(call[q].name)
        <5>1. CASE call[q].name = n
          BY <2>2, <4>1, <5>1, OneHolder
        <5>2. CASE call[q].name # n
          BY <4>1, <5>2 DEF Elsewhere
        <5> QED
          BY <5>1, <5>2
      <4> QED
        BY <3>1, <4>2 DEF StepTidy, SameBench, Gone
    <3> QED
      BY <3>2, <3>3
  <2> QED
    BY <2>1, <2>2
<1> QED
  BY <1>1, <1>2 DEF TidyInv

\* A bench that does not change stays tidy while the step goes on touching it.
LEMMA StaysTidy ==
  ASSUME TidyInv, NEW p \in Procs, NEW n \in Names, n = call[p].name, Alone(p),
         pc'[p] = "idle" \/ call'[p] = call[p], SameBench(n),
         pc[p] \in Touching => pc'[p] \in Touching
  PROVE  Tidy(n)'
<1>1. Touched(n) => Touched(n)'
  <2>1. SUFFICES ASSUME NEW q \in Procs, pc[q] \in Touching, call[q].name = n
                 PROVE  Touched(n)'
    BY DEF Touched
  <2>2. CASE q = p
    BY <2>1, <2>2 DEF Touched, Touching, Building, Undoing, Tearing
  <2>3. CASE q # p
    BY <2>1, <2>3 DEF Touched, Alone
  <2> QED
    BY <2>2, <2>3
<1> QED
  BY <1>1 DEF TidyInv, Tidy, SameBench, Gone

\* The step of a call leaves no untracked bench behind.
LEMMA WorkTidy ==
  ASSUME ~ReadsFail, Kinds \subseteq Makers \cup Removers, TidyInv, CompleteInv',
         NEW p \in Procs, Work(p) \/ Crash(p)
  PROVE  TidyInv'
<1> CompleteInv /\ SafeInv /\ TypeInv
  BY DEF TidyInv, CompleteInv, SafeInv
<1>1. PICK n \in Names : n = name(p)
  BY WorkMoves
<1>2. /\ Alone(p) /\ pc[p] # "idle" /\ n = call[p].name /\ Elsewhere(n)
      /\ pc'[p] = "idle" \/ call'[p] = call[p]
      /\ Leads(pc[p], pc'[p])
  BY <1>1, WorkMoves, WorkLeads, OnlyItsBench
<1>3. Tidy(n) /\ StepTidy(pc[p], call[p])
  BY DEF TidyInv
<1>4. dir[n] \in Values \cup {NoDir, Bare} /\ NoDir \notin Values /\ Bare \notin Values
  BY LifecycleAssumption DEF TypeInv, BenchOK
<1>5. pc[p] \in Unmade => ~Exists(reg, n)
  BY <1>2 DEF SafeInv, StepSafe
<1> DEFINE Fine == (Holds(pc[p], call[p]) \/ SameBench(n)) /\ Tidy(n)' /\ StepTidy(pc[p], call[p])'
<1> SUFFICES Fine
  BY <1>2, TidyThere
<1>6. ASSUME SameBench(n), pc[p] \in Touching => pc'[p] \in Touching
      PROVE  Tidy(n)'
  BY <1>2, <1>6, StaysTidy
<1>7. UNCHANGED <<reg, dir, cont, data, leftover>> => SameBench(n)
  BY DEF SameBench, Exists, Named
<1>8. reg' = reg => (Exists(reg, n)' <=> Exists(reg, n))
  BY DEF Exists, Named
\* Most steps begin nothing that clears a bench.
<1>9. ASSUME pc'[p] \notin Unlocked \cup {"dump", "dumpStarted", "undoDir", "rmdir", "remove"}
      PROVE  StepTidy(pc[p], call[p])'
  BY <1>9 DEF StepTidy
<1>10. pc'[p] \in Touching => Touched(n)'
  BY <1>2 DEF Touched, Touching, Building, Undoing, Tearing
<1>11. CASE Read(p)
  <2>1. UNCHANGED <<reg, dir, cont, data, leftover>> /\ pc[p] = "read"
    BY <1>11 DEF Read, At, history
  <2>2. kind(p) \in {"delete", "recreate"} /\ kind(p) = call[p].kind
    BY <2>1, InCall DEF StepOK, kind, Makers, Removers
  <2>3. Return(p) \/ \E v : GotoWith(p, "lock", v)
    BY <1>11, <2>2 DEF Read, AfterRead
  <2>4. pc'[p] \in {"idle", "lock"}
    BY <2>3, MovesAlone
  <2> QED
    BY <1>6, <1>7, <1>9, <2>1, <2>4 DEF Touching, Building, Undoing, Tearing, Unlocked
<1>12. CASE Check(p)
  <2>1. UNCHANGED <<reg, dir, cont, data, leftover>> /\ pc[p] = "check"
    BY <1>12 DEF Check, At, history
  <2>2. kind(p) \in {"create", "recreate"}
    BY <2>1, InCall DEF StepOK, kind, Makers, Removers
  <2>3. Return(p) \/ Goto(p, "lock") \/ Goto(p, "exists")
    BY <1>12, <2>2 DEF Check
  <2>4. pc'[p] \in {"idle", "lock", "exists"}
    BY <2>3, MovesAlone
  <2> QED
    BY <1>6, <1>7, <1>9, <2>1, <2>4 DEF Touching, Building, Undoing, Tearing, Unlocked
<1>13. CASE TryLock(p) \/ CheckExists(p) \/ AllocPorts(p) \/ Reread(p) \/ MakeSite(p)
  <2>1. /\ UNCHANGED <<reg, dir, cont, data, leftover>>
        /\ pc[p] \in {"lock", "exists", "alloc", "reread", "site"}
        /\ pc[p] = "site" => MakeSite(p)
    BY <1>13 DEF TryLock, CheckExists, AllocPorts, Reread, MakeSite, At, shared, history
  <2>2. MakeSite(p) => pc'[p] = "save"
    BY MovesAlone DEF MakeSite
  <2>3. pc'[p] \in {"idle", "exists", "backup", "alloc", "mkdir", "down", "save", "undoDown"}
    BY <1>2, <2>1 DEF Leads, Building
  <2> QED
    BY <1>6, <1>7, <1>9, <2>1, <2>2, <2>3 DEF Touching, Building, Undoing, Tearing, Unlocked
<1>14. CASE Misread(p)
  BY <1>14 DEF Misread
<1>15. CASE MakeDir(p) \/ WriteCompose(p) \/ BuildImage(p) \/ BringUp(p)
  <2>1. reg' = reg /\ leftover' = leftover
    BY <1>15 DEF MakeDir, WriteCompose, BuildImage, BringUp, history
  <2>2. pc[p] \in Building /\ pc'[p] \in Building
    <3>1. \/ pc[p] = "mkdir" /\ Goto(p, "compose")
          \/ pc[p] = "compose" /\ Goto(p, "image")
          \/ pc[p] = "image" /\ Goto(p, "up")
          \/ pc[p] = "up" /\ Goto(p, "site")
      BY <1>15, Zenon DEF MakeDir, WriteCompose, BuildImage, BringUp, At
    <3> QED
      BY <3>1, MovesAlone DEF Building
  <2>3. dir'[n] \notin Values => dir[n] \notin Values /\ cont'[n] = cont[n] /\ data'[n] = data[n]
    <3>1. CASE MakeDir(p)
      BY <1>1, <1>4, <3>1 DEF MakeDir, TypeInv, BenchOK
    <3>2. CASE WriteCompose(p)
      BY <1>1, <3>2, PlannedType DEF WriteCompose, At, Building, TypeInv, BenchOK
    <3>3. CASE BuildImage(p) \/ BringUp(p)
      BY <1>2, <3>3 DEF BuildImage, BringUp, At, CompleteInv, Composed
    <3> QED
      BY <1>15, <3>1, <3>2, <3>3
  <2>4. Tidy(n)'
    BY <1>3, <1>8, <1>10, <2>1, <2>2, <2>3 DEF Tidy, Gone, Touching
  <2> QED
    BY <1>9, <2>2, <2>4 DEF Holds, Making, Building, Unlocked
<1>16. CASE SaveBench(p)
  <2> DEFINE b == [name |-> n, val |-> Planned(p)]
  <2>1. reg' = Append(reg, b) /\ b.name = n /\ reg \in Seq(Record) /\ pc[p] = "save"
    BY <1>1, <1>16 DEF SaveBench, add, At, TypeInv
  <2> HIDE DEF b
  <2>2. Len(reg) + 1 \in DOMAIN reg' /\ reg'[Len(reg) + 1] = b
    BY <2>1
  <2>3. Exists(reg, n)'
    BY <2>1, <2>2 DEF Exists, Named
  <2>4. pc'[p] = "idle"
    BY <1>16, MovesAlone DEF SaveBench
  <2> QED
    BY <1>9, <2>1, <2>3, <2>4 DEF Tidy, Holds, Making, Building, Unlocked
<1>17. CASE UndoDown(p)
  <2>1. UNCHANGED <<reg, dir, leftover>> /\ pc[p] = "undoDown" /\ pc'[p] = "undoDir" /\ call'[p] = call[p]
    BY <1>17, MovesAlone DEF UndoDown, At, history
  <2>2. ~Exists(reg, n)
    BY <1>5, <2>1 DEF Unmade, Undoing
  <2>3. n \in leftover' \/ Gone(n)'
    BY <1>1, <1>3, <1>17, <2>1, <2>2 DEF UndoDown, Tidy, Gone, TypeInv, BenchOK
  <2> QED
    BY <1>2, <1>10, <2>1, <2>3 DEF Tidy, StepTidy, Holds, Making, Undoing, Touching, Unlocked
<1>18. CASE UndoDir(p)
  <2>1. UNCHANGED <<reg, cont, data, leftover>> /\ pc[p] = "undoDir" /\ dir'[n] = NoDir
    BY <1>1, <1>18 DEF UndoDir, At, history, TypeInv, BenchOK
  <2>2. pc'[p] = "idle"
    BY <1>18, MovesAlone DEF UndoDir
  <2>3. n \in leftover' \/ Gone(n)'
    BY <1>2, <1>3, <2>1 DEF StepTidy, Gone
  <2> QED
    BY <1>9, <2>1, <2>2, <2>3 DEF Tidy, Holds, Making, Undoing, Unlocked
<1>19. CASE KeepOnFailure(p)
  <2>1. n \in leftover' /\ pc[p] = "undoDown"
    BY <1>1, <1>19 DEF KeepOnFailure, At
  <2>2. pc'[p] = "idle"
    BY <1>19, MovesAlone DEF KeepOnFailure
  <2> QED
    BY <1>9, <2>1, <2>2 DEF Tidy, Holds, Making, Undoing, Unlocked
<1>20. CASE StartBackup(p)
  <2>1. UNCHANGED <<reg, dir, leftover>> /\ pc[p] = "backup"
    BY <1>20 DEF StartBackup, At, history
  <2>2. Holds(pc[p], call[p]) /\ pc[p] \notin Touching
    BY <2>1 DEF Holds, Saving, Touching, Building, Undoing, Tearing
  <2>3. \/ (Goto(p, AfterBackup(p)) \/ Return(p)) /\ UNCHANGED <<cont, data>>
        \/ Exists(reg, n) /\ (Goto(p, "dump") \/ Goto(p, "dumpStarted"))
    BY <1>1, <1>20, Zenon DEF StartBackup
  <2>4. CASE (Goto(p, AfterBackup(p)) \/ Return(p)) /\ UNCHANGED <<cont, data>>
    <3>1. pc'[p] \in {"reread", "down", "idle"}
      BY <2>4, MovesAlone DEF AfterBackup
    <3> QED
      BY <1>6, <1>7, <1>9, <2>1, <2>2, <2>4, <3>1 DEF Unlocked
  <2>5. CASE Exists(reg, n) /\ (Goto(p, "dump") \/ Goto(p, "dumpStarted"))
    <3>1. pc'[p] \in {"dump", "dumpStarted"} /\ call'[p] = call[p]
      BY <2>5, MovesAlone
    <3>2. Exists(reg, n)'
      BY <1>8, <2>1, <2>5
    <3> QED
      BY <1>2, <2>2, <3>1, <3>2 DEF Tidy, StepTidy, Unlocked
  <2> QED
    BY <2>3, <2>4, <2>5
<1>21. CASE Dump(p)
  <2>1. reg' = reg /\ pc[p] \in {"dump", "dumpStarted"} /\ pc'[p] \in {"reread", "down"}
    BY <1>21, MovesAlone DEF Dump, AfterBackup
  <2>2. Exists(reg, n)'
    BY <1>2, <1>3, <1>8, <2>1 DEF StepTidy
  <2> QED
    BY <1>9, <2>1, <2>2 DEF Tidy, Holds, Saving, Unlocked
<1>22. CASE TearDown(p)
  <2>1. UNCHANGED <<reg, dir>> /\ pc[p] = "down" /\ pc'[p] = "rmdir" /\ call'[p] = call[p]
    BY <1>22, MovesAlone DEF TearDown, At
  <2>2. n \in leftover' \/ Gone(n)'
    BY <1>1, <1>22 DEF TearDown, Gone, TypeInv, BenchOK
  <2> QED
    BY <1>2, <1>10, <2>1, <2>2 DEF Tidy, StepTidy, Holds, Tearing, Touching, Unlocked
<1>23. CASE RemoveDir(p)
  <2>1. UNCHANGED <<reg, cont, data, leftover>> /\ pc[p] = "rmdir" /\ dir'[n] = NoDir
    BY <1>1, <1>23 DEF RemoveDir, At, history, TypeInv, BenchOK
  <2>2. pc'[p] = "remove" /\ call'[p] = call[p]
    BY <1>23, MovesAlone DEF RemoveDir
  <2>3. n \in leftover' \/ Gone(n)'
    BY <1>2, <1>3, <2>1 DEF StepTidy, Gone
  <2> QED
    BY <1>2, <2>1, <2>2, <2>3 DEF Tidy, StepTidy, Holds, Tearing, Unlocked
<1>24. CASE RemoveBench(p)
  <2>1. UNCHANGED <<dir, cont, data, leftover>> /\ pc[p] = "remove"
    BY <1>24 DEF RemoveBench, At
  <2>2. pc'[p] \in {"idle", "exists", "check"}
    BY <1>2, <2>1 DEF Leads, Building
  <2>3. n \in leftover' \/ (dir'[n] = NoDir /\ Gone(n)')
    BY <1>2, <1>3, <2>1 DEF StepTidy, Gone
  <2> QED
    BY <1>9, <2>1, <2>2, <2>3 DEF Tidy, Holds, Tearing, Unlocked
<1>25. CASE MakeHome(p) \/ StartUp(p) \/ Stop(p) \/ SetAliases(p) \/ Render(p) \/ ApplyChange(p)
  BY <1>3, <1>25 DEF MakeHome, StartUp, Stop, SetAliases, Render, ApplyChange, At, StepTidy, Unlocked
<1>26. CASE Fail(p)
  <2>1. UNCHANGED <<reg, dir, data>> /\ pc[p] \in CanFail
    BY <1>26 DEF Fail
  <2>2. pc'[p] \in {"idle", "undoDown"} /\ (pc[p] \in Building => pc'[p] = "undoDown")
    <3>1. IF pc[p] \in Building THEN Goto(p, "undoDown") ELSE Return(p)
      BY <1>26 DEF Fail
    <3> QED
      BY <3>1, MovesAlone
  <2>3. CASE pc[p] = "remove"
    <3>1. n \in leftover'
      BY <1>1, <1>26, <2>3 DEF Fail, At
    <3> QED
      BY <1>9, <2>2, <2>3, <3>1 DEF Tidy, Holds, Tearing, Unlocked
  <2>4. CASE pc[p] = "dumpStarted"
    <3>1. Exists(reg, n)'
      BY <1>2, <1>3, <1>8, <2>1, <2>4 DEF StepTidy
    <3> QED
      BY <1>9, <2>2, <2>4, <3>1 DEF Tidy, Holds, Saving, Unlocked
  <2>5. CASE pc[p] \notin {"remove", "dumpStarted"}
    <3>1. UNCHANGED <<cont, leftover>>
      BY <1>26, <2>5 DEF Fail, At
    <3>2. pc[p] \in Touching => pc[p] \in Building
      BY <2>1, <2>5 DEF CanFail, Warned, Touching, Undoing, Tearing
    <3> QED
      BY <1>6, <1>7, <1>9, <2>1, <2>2, <3>1, <3>2 DEF Touching, Undoing, Unlocked
  <2> QED
    BY <2>3, <2>4, <2>5
<1>27. CASE Warn(p)
  <2>1. n \in leftover' /\ pc[p] \in Warned
    BY <1>1, <1>27, Zenon DEF Warn
  <2>2. pc'[p] \in {"idle", "rmdir", "remove", "undoDir"}
    BY <1>2, <2>1 DEF Leads, Warned, Building
  <2> QED
    BY <1>2, <2>1, <2>2 DEF Tidy, StepTidy, Holds, Making, Undoing, Tearing, Warned, Unlocked
<1>28. CASE Crash(p)
  <2>1. UNCHANGED <<reg, dir, cont, data>>
    BY <1>28 DEF Crash
  <2>2. pc'[p] = "idle"
    BY <1>28, MovesAlone DEF Crash
  <2>3. CASE pc[p] \in Touching
    <3>1. n \in leftover'
      BY <1>1, <1>28, <2>3 DEF Crash, Touching
    <3> QED
      BY <1>9, <2>2, <2>3, <3>1 DEF Tidy, Holds, Making, Touching, Unlocked
  <2>4. CASE pc[p] \notin Touching
    <3>1. leftover' = leftover
      BY <1>28, <2>4 DEF Crash, Touching
    <3> QED
      BY <1>6, <1>7, <1>9, <2>1, <2>2, <2>4, <3>1 DEF Unlocked
  <2> QED
    BY <2>3, <2>4
<1> QED
  BY <1>11, <1>12, <1>13, <1>14, <1>15, <1>16, <1>17, <1>18, <1>19, <1>20, <1>21, <1>22, <1>23, <1>24,
     <1>25, <1>26, <1>27, <1>28, Zenon DEF Work

\* TidyInv is inductive.
LEMMA NextTidyInv ==
  ASSUME ~ReadsFail, Kinds \subseteq Makers \cup Removers
  PROVE  TidyInv /\ [Next]_vars => TidyInv'
<1> SUFFICES ASSUME TidyInv, [Next]_vars
             PROVE  TidyInv'
  OBVIOUS
<1> CompleteInv /\ SafeInv /\ TypeInv
  BY DEF TidyInv, CompleteInv, SafeInv
<1>1. CompleteInv'
  BY NextCompleteInv
<1>2. ASSUME UNCHANGED <<reg, dir, cont, data, leftover>>,
             \A p \in Procs : pc[p] # "idle" => pc'[p] = pc[p] /\ call'[p] = call[p],
             \A p \in Procs : pc'[p] # pc[p] => pc'[p] \in {"read", "check", "lock"}
      PROVE  TidyInv'
  <2>1. ASSUME NEW n \in Names
        PROVE  Tidy(n)'
    <3>1. Exists(reg, n)' <=> Exists(reg, n)
      BY <1>2 DEF Exists, Named
    <3>2. Touched(n) => Touched(n)'
      BY <1>2 DEF Touched, Touching, Building, Undoing, Tearing
    <3> QED
      BY <1>2, <3>1, <3>2 DEF TidyInv, Tidy, Gone
  <2>2. ASSUME NEW p \in Procs
        PROVE  StepTidy(pc[p], call[p])'
    <3>1. CASE pc[p] = "idle"
      BY <1>2, <3>1 DEF StepTidy, Unlocked
    <3>2. CASE pc[p] # "idle"
      <4>1. pc'[p] = pc[p] /\ call'[p] = call[p] /\ StepTidy(pc[p], call[p])
        BY <1>2, <3>2 DEF TidyInv
      <4>2. Exists(reg, call[p].name)' <=> Exists(reg, call[p].name)
        BY <1>2, <4>1 DEF Exists, Named
      <4> QED
        BY <1>2, <4>1, <4>2 DEF StepTidy, Gone
    <3> QED
      BY <3>1, <3>2
  <2> QED
    BY <1>1, <2>1, <2>2 DEF TidyInv
<1>3. ASSUME NEW p \in Procs, NEW c \in Calls, Begin(p, c)
      PROVE  TidyInv'
  BY <1>2, <1>3, BeginSame DEF Alone
<1>4. ASSUME NEW p \in Procs, Work(p) \/ Crash(p)
      PROVE  TidyInv'
  BY <1>1, <1>4, WorkTidy
<1>5. CASE UNCHANGED vars
  BY <1>2, <1>5 DEF vars, shared, local, history
<1> QED
  BY <1>3, <1>4, <1>5, Zenon DEF Next

\* Once nobody works on an untracked bench nothing of it is left, unless a
\* command failed, a process was killed or --keep-on-failure was given: creates
\* roll back and deletes and recreates clear all they made (create.go,
\* recreate.go, lifecycle.go).  A start or a domain change at the same time can
\* bring something back, so no other operation runs.
THEOREM NothingIsLeft ==
  ASSUME ~ReadsFail, Kinds \subseteq Makers \cup Removers
  PROVE  Spec => []NothingLeft
<1>1. Init => TidyInv
  <2> SUFFICES ASSUME Init
               PROVE  TidyInv
    OBVIOUS
  <2>1. CompleteInv
    BY InitSafeInv DEF Init, CompleteInv, Complete, Exists, Named, Composed
  <2>2. \A n \in Names : Tidy(n)
    BY DEF Init, Tidy, Gone
  <2>3. \A p \in Procs : StepTidy(pc[p], call[p])
    BY DEF Init, StepTidy, Unlocked
  <2> QED
    BY <2>1, <2>2, <2>3 DEF TidyInv
<1>2. TidyInv => NothingLeft
  <2> SUFFICES ASSUME TidyInv, NEW n \in Names, ~Exists(reg, n), n \notin leftover,
                      \A p \in Procs : ~At(p, "idle") => name(p) # n
               PROVE  dir[n] = NoDir /\ cont[n] = NoContainers /\ data[n] = "none"
    BY DEF NothingLeft
  <2>1. ~Touched(n)
    BY DEF Touched, Touching, Building, Undoing, Tearing, At, name
  <2> QED
    BY <2>1, LifecycleAssumption DEF TidyInv, Tidy, Gone
<1> QED
  BY <1>1, <1>2, NextTidyInv, PTL DEF Spec
=============================================================================
