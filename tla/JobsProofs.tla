----------------------------- MODULE JobsProofs -----------------------------
(***************************************************************************)
(* Proofs about Jobs, for any keys, caps and bounds: a key has at most one *)
(* unfinished job, the record of a running job is never dropped, an        *)
(* outcome told to a page stays, and the page shows the lines truly.       *)
(* About BenchStatus, the dashboard's other page: it shows no status that  *)
(* is long over.  About Throttle, in front of every page: guessing a       *)
(* password stays slow, for any limits and any number of requests at once. *)
(***************************************************************************)
EXTENDS Jobs, BenchStatus, Throttle, FiniteSetTheorems, SequenceTheorems,
  WellFoundedInduction, TLAPS

\* The kept lines of a job are numbered from LinesDropped on.
Numbered(j) == \A k \in DOMAIN j.lines : j.lines[k] = j.dropped + k - 1

\* Job records, in memory or in the file.
Records(js) ==
  /\ DOMAIN js \subseteq Ids
  /\ \A i \in DOMAIN js : js[i] \in Job /\ Numbered(js[i]) /\ i <= started

\* The store and its goroutines agree: byBench lists exactly the unfinished
\* jobs, under their keys, each has its goroutine and has printed the lines it
\* counts; nothing outlives the process.
Agree ==
  /\ \A i \in Ids : gor[i] # "none" <=> i \in DOMAIN jobs /\ ~IsFinished(jobs, i)
  /\ \A i \in Ids : gor[i] # "none" =>
       printed[i] = jobs[i].dropped + Len(jobs[i].lines)
  /\ \A i \in DOMAIN jobs : ~IsFinished(jobs, i) =>
       jobs[i].key \in DOMAIN byBench /\ byBench[jobs[i].key] = i
  /\ \A k \in DOMAIN byBench :
       /\ byBench[k] \in DOMAIN jobs
       /\ ~IsFinished(jobs, byBench[k])
       /\ jobs[byBench[k]].key = k
  /\ ~up => DOMAIN jobs = {} /\ DOMAIN byBench = {}

Typed ==
  /\ gor \in [Ids -> {"none", "spawned", "running"}]
  /\ started \in Nat
  /\ printed \in [Ids -> Nat]
  /\ \A i \in Ids : i > started => printed[i] = 0

IInv == Records(jobs) /\ Records(disk) /\ Typed /\ Agree

-----------------------------------------------------------------------------
(* Saving *)

\* Saving never drops an unfinished job and changes no record.
LEMMA KeptUnfinished ==
  ASSUME NEW js
  PROVE  /\ DOMAIN Kept(js) \subseteq DOMAIN js
         /\ \A i \in DOMAIN Kept(js) : Kept(js)[i] = js[i]
         /\ \A i \in DOMAIN js : ~IsFinished(js, i) => i \in DOMAIN Kept(js)
  BY DEF Kept, Only

\* What storing js leaves in the store, and that the file stays readable.
Stored(js) ==
  /\ DOMAIN jobs' \subseteq DOMAIN js
  /\ \A i \in DOMAIN jobs' : jobs'[i] = js[i]
  /\ \A i \in DOMAIN js : ~IsFinished(js, i) => i \in DOMAIN jobs'
  /\ disk' = jobs' \/ disk' = disk \/ DOMAIN disk' = {}

\* A change that is written leaves a store and a file that say the same.
LEMMA PersistStores ==
  ASSUME NEW js, Persist(js)
  PROVE  Stored(js)
  BY KeptUnfinished DEF Persist, Empty, Stored

\* A change of memory alone leaves the file behind.
LEMMA MemoryStores ==
  ASSUME NEW js, jobs' = js, disk' = disk
  PROVE  Stored(js)
  BY DEF Stored

\* Storing well-formed records leaves well-formed records.
LEMMA StoredRecords ==
  ASSUME NEW js, Stored(js), Records(disk), started \in Nat, started' \in Nat,
         started <= started', DOMAIN js \subseteq Ids,
         \A i \in DOMAIN js : js[i] \in Job /\ Numbered(js[i]) /\ i <= started'
  PROVE  Records(jobs)' /\ Records(disk)'
<1>1. Records(jobs)'
  BY DEF Records, Numbered, Stored
<1>2. CASE disk' = jobs'
  BY <1>1, <1>2 DEF Records, Numbered
<1>3. CASE disk' = disk
  <2>1. \A i \in DOMAIN disk : i <= started'
    BY JobsAssumption DEF Records, Ids
  <2> QED
    BY <1>1, <1>3, <2>1 DEF Records, Numbered
<1>4. CASE DOMAIN disk' = {}
  BY <1>1, <1>4 DEF Records, Numbered
<1> QED
  BY <1>1, <1>2, <1>3, <1>4 DEF Stored

\* After the store, an id is finished if and only if it was in what was stored.
LEMMA StoredFinished ==
  ASSUME NEW js, Stored(js)
  PROVE  \A i \in DOMAIN jobs' : IsFinished(jobs', i) <=> IsFinished(js, i)
  BY DEF Stored, IsFinished

-----------------------------------------------------------------------------
(* One lemma per kind of step *)

\* A job starts only where no other of its key is unfinished.
LEMMA StartKeeps ==
  ASSUME IInv, NEW key \in Keys, StartJob(key)
  PROVE  IInv'
<1> DEFINE id == started + 1
           new == [key |-> key, status |-> "pending", lines |-> <<>>, dropped |-> 0]
           js  == [i \in DOMAIN jobs \cup {id} |-> IF i = id THEN new ELSE jobs[i]]
<1> USE DEF IInv
<1>1. /\ id \in Ids /\ up /\ up' = up /\ started' = id /\ printed' = printed
      /\ gor' = [gor EXCEPT ![id] = "spawned"]
      /\ key \notin DOMAIN byBench
  BY DEF StartJob
<1>2. id \notin DOMAIN jobs
  BY DEF Records, Typed
<1>3. Stored(js)
  BY PersistStores DEF StartJob
<1>4. /\ DOMAIN js = DOMAIN jobs \cup {id} /\ js[id] = new
      /\ \A i \in DOMAIN jobs : js[i] = jobs[i]
  BY <1>2
<1>5. new \in Job /\ Numbered(new) /\ new.status \notin Finished
  BY DEF Job, Status, Numbered, Finished
<1> HIDE DEF js, new
<1>6. ~IsFinished(js, id) /\ \A i \in DOMAIN jobs : IsFinished(js, i) <=> IsFinished(jobs, i)
  BY <1>4, <1>5 DEF IsFinished
<1>7. Typed'
  BY <1>1, JobsAssumption DEF Typed, Ids
<1>8. Records(jobs)' /\ Records(disk)'
  <2>1. DOMAIN js \subseteq Ids
    BY <1>1, <1>4 DEF Records
  <2>2. \A i \in DOMAIN js : js[i] \in Job /\ Numbered(js[i]) /\ i <= started'
    BY <1>1, <1>4, <1>5, JobsAssumption DEF Records, Typed, Ids
  <2>3. started \in Nat /\ started' \in Nat /\ started <= started'
    BY <1>1 DEF Typed
  <2> QED
    BY <1>3, <2>1, <2>2, <2>3, StoredRecords
<1>9. /\ DOMAIN byBench' = DOMAIN byBench \cup {key}
      /\ byBench'[key] = id
      /\ \A k \in DOMAIN byBench : k # key /\ byBench'[k] = byBench[k]
  BY DEF StartJob
<1>10. id \in DOMAIN jobs' /\ \A i \in DOMAIN jobs : ~IsFinished(jobs, i) => i \in DOMAIN jobs'
  BY <1>3, <1>4, <1>6 DEF Stored
<1>11. \A i \in DOMAIN jobs' : i \in DOMAIN js
  BY <1>3 DEF Stored
<1>12. \A i \in DOMAIN jobs' : jobs'[i] = js[i]
  BY <1>3 DEF Stored
<1>13. \A i \in DOMAIN jobs' : IsFinished(jobs', i) <=> IsFinished(js, i)
  BY <1>3, StoredFinished
<1> HIDE DEF id
<1>14. \A i \in Ids : gor'[i] # "none" <=> i \in DOMAIN jobs' /\ ~IsFinished(jobs', i)
  <2> SUFFICES ASSUME NEW i \in Ids
               PROVE  gor'[i] # "none" <=> i \in DOMAIN jobs' /\ ~IsFinished(jobs', i)
    OBVIOUS
  <2>1. CASE i = id
    BY <2>1, <1>1, <1>6, <1>10, <1>13 DEF Typed
  <2>2. CASE i # id
    <3>1. gor'[i] = gor[i]
      BY <2>2, <1>1 DEF Typed
    <3>2. i \in DOMAIN jobs' => i \in DOMAIN jobs
      BY <2>2, <1>4, <1>11
    <3>3. gor[i] # "none" <=> i \in DOMAIN jobs /\ ~IsFinished(jobs, i)
      BY DEF Agree
    <3> QED
      BY <3>1, <3>2, <3>3, <1>6, <1>10, <1>13
  <2> QED
    BY <2>1, <2>2
<1>15. \A i \in Ids : gor'[i] # "none" =>
         printed'[i] = jobs'[i].dropped + Len(jobs'[i].lines)
  <2> SUFFICES ASSUME NEW i \in Ids, gor'[i] # "none"
               PROVE  printed'[i] = jobs'[i].dropped + Len(jobs'[i].lines)
    OBVIOUS
  <2>0. jobs'[i] = js[i] /\ i \in DOMAIN js
    BY <1>11, <1>12, <1>14
  <2>1. CASE i = id
    <3>1. printed[id] = 0
      BY <1>1 DEF Typed, id
    <3>2. new.dropped = 0 /\ Len(new.lines) = 0
      BY DEF new
    <3> QED
      BY <2>0, <2>1, <3>1, <3>2, <1>1, <1>4
  <2>2. CASE i # id
    <3>1. gor[i] # "none" /\ i \in DOMAIN jobs
      BY <2>0, <2>2, <1>1, <1>4 DEF Typed
    <3> QED
      BY <2>0, <2>2, <3>1, <1>1, <1>4 DEF Agree
  <2> QED
    BY <2>1, <2>2
<1>16. \A i \in DOMAIN jobs' : ~IsFinished(jobs', i) =>
         jobs'[i].key \in DOMAIN byBench' /\ byBench'[jobs'[i].key] = i
  <2> SUFFICES ASSUME NEW i \in DOMAIN jobs', ~IsFinished(jobs', i)
               PROVE  jobs'[i].key \in DOMAIN byBench' /\ byBench'[jobs'[i].key] = i
    OBVIOUS
  <2>0. jobs'[i] = js[i] /\ i \in DOMAIN js /\ ~IsFinished(js, i)
    BY <1>11, <1>12, <1>13
  <2>1. CASE i = id
    <3>1. js[i].key = key
      BY <2>1, <1>4 DEF new
    <3> QED
      BY <2>0, <2>1, <3>1, <1>9
  <2>2. CASE i # id
    <3>1. i \in DOMAIN jobs /\ ~IsFinished(jobs, i) /\ js[i] = jobs[i]
      BY <2>0, <2>2, <1>4, <1>6
    <3> QED
      BY <2>0, <3>1, <1>9 DEF Agree
  <2> QED
    BY <2>1, <2>2
<1>17. \A k \in DOMAIN byBench' :
         byBench'[k] \in DOMAIN jobs' /\ ~IsFinished(jobs', byBench'[k]) /\ jobs'[byBench'[k]].key = k
  <2> SUFFICES ASSUME NEW k \in DOMAIN byBench'
               PROVE  byBench'[k] \in DOMAIN jobs' /\ ~IsFinished(jobs', byBench'[k])
                      /\ jobs'[byBench'[k]].key = k
    OBVIOUS
  <2>1. CASE k = key
    <3>1. js[id].key = key
      BY <1>4 DEF new
    <3> QED
      BY <2>1, <3>1, <1>6, <1>9, <1>10, <1>12, <1>13
  <2>2. CASE k # key
    <3>1. byBench'[k] = byBench[k] /\ k \in DOMAIN byBench
      BY <2>2, <1>9
    <3>2. byBench[k] \in DOMAIN jobs /\ ~IsFinished(jobs, byBench[k]) /\ jobs[byBench[k]].key = k
      BY <3>1 DEF Agree
    <3> QED
      BY <3>1, <3>2, <1>4, <1>6, <1>10, <1>12, <1>13
  <2> QED
    BY <2>1, <2>2
<1>18. up'
  BY <1>1
<1> HIDE DEF IInv
<1>19. Agree'
  BY <1>14, <1>15, <1>16, <1>17, <1>18 DEF Agree, IsFinished
<1> QED
  BY <1>7, <1>8, <1>19 DEF IInv

\* A sequence without its first m elements.
LEMMA CutSeq ==
  ASSUME NEW s \in Seq(Nat), NEW m \in 0..Len(s)
  PROVE  /\ SubSeq(s, m + 1, Len(s)) \in Seq(Nat)
         /\ Len(SubSeq(s, m + 1, Len(s))) = Len(s) - m
         /\ \A k \in 1..(Len(s) - m) : SubSeq(s, m + 1, Len(s))[k] = s[m + k]
<1> DEFINE l == Len(s)
           c == SubSeq(s, m + 1, l)
<1>1. l \in Nat /\ m \in Nat /\ m <= l
  OBVIOUS
<1>2. Len(c) = l - m
  BY <1>1
<1>3. \A k \in 1..(l - m) : c[k] = s[m + k]
  BY <1>1
<1>4. c \in Seq(Nat)
  <2>1. \A k \in 1..(l - m) : m + k \in 1..l
    BY <1>1
  <2>2. \A k \in 1..l : s[k] \in Nat
    OBVIOUS
  <2>3. \A k \in (m + 1)..l : s[k] \in Nat
    BY <1>1, <2>2
  <2> QED
    BY <1>1, <2>3
<1> QED
  BY <1>2, <1>3, <1>4

\* A new line takes the number after the last one, and cutting the oldest
\* lines moves dropped by as many as go.
LEMMA WithLineNumbers ==
  ASSUME NEW j \in Job, Numbered(j), NEW n \in Nat, n = j.dropped + Len(j.lines)
  PROVE  /\ WithLine(j, n) \in Job
         /\ Numbered(WithLine(j, n))
         /\ WithLine(j, n).key = j.key
         /\ WithLine(j, n).status = j.status
         /\ WithLine(j, n).dropped + Len(WithLine(j, n).lines) = n + 1
<1> DEFINE all  == Append(j.lines, n)
           over == Len(all) - MaxLines
           w    == WithLine(j, n)
<1>1. /\ j.lines \in Seq(Nat) /\ j.dropped \in Nat /\ j.key \in Keys /\ j.status \in Status
      /\ j = [key |-> j.key, status |-> j.status, lines |-> j.lines, dropped |-> j.dropped]
  BY DEF Job
<1>2. /\ all \in Seq(Nat) /\ Len(all) = Len(j.lines) + 1 /\ Len(all) \in Nat
      /\ \A k \in 1..Len(all) : all[k] = j.dropped + k - 1
  BY <1>1 DEF Numbered
<1>3. MaxLines \in Nat /\ over \in Int /\ over <= Len(all)
  BY <1>2, JobsAssumption
<1>4. CASE over > 0
  <2>1. w = [j EXCEPT !.lines = SubSeq(all, over + 1, Len(all)), !.dropped = @ + over]
    BY <1>4 DEF WithLine
  <2> DEFINE cut == SubSeq(all, over + 1, Len(all))
  <2>2. w = [key |-> j.key, status |-> j.status, lines |-> cut, dropped |-> j.dropped + over]
    BY <2>1, <1>1, Zenon DEF Job
  <2> HIDE DEF all, over, w
  <2>3. /\ cut \in Seq(Nat) /\ Len(cut) = Len(all) - over
        /\ \A k \in 1..(Len(all) - over) : cut[k] = all[over + k]
    <3>1. over \in 0..Len(all)
      BY <1>2, <1>3, <1>4
    <3> QED
      BY <1>2, <3>1, CutSeq, Zenon
  <2> HIDE DEF cut
  <2>4. w \in Job
    BY <2>2, <2>3, <1>1, <1>3, <1>4 DEF Job
  <2>5. \A k \in 1..Len(cut) : over + k \in 1..Len(all) /\ cut[k] = j.dropped + over + k - 1
    <3> TAKE k \in 1..Len(cut)
    <3>1. k \in Int /\ over + k \in 1..Len(all) /\ k \in 1..(Len(all) - over)
      BY <1>2, <1>3, <1>4, <2>3
    <3>2. all[over + k] = j.dropped + (over + k) - 1
      BY <1>2, <3>1
    <3>3. cut[k] = all[over + k]
      BY <2>3, <3>1, Zenon
    <3>4. j.dropped + (over + k) - 1 = j.dropped + over + k - 1
      BY <1>1, <1>3, <3>1
    <3> QED
      BY <3>1, <3>2, <3>3, <3>4
  <2>6. Numbered(w)
    BY <2>2, <2>3, <2>5 DEF Numbered
  <2>7. w.dropped + Len(w.lines) = n + 1
    BY <2>2, <2>3, <1>1, <1>2, <1>3
  <2> QED
    BY <2>2, <2>4, <2>6, <2>7 DEF w
<1>5. CASE ~(over > 0)
  <2>1. w = [j EXCEPT !.lines = all]
    BY <1>5 DEF WithLine
  <2>2. w = [key |-> j.key, status |-> j.status, lines |-> all, dropped |-> j.dropped]
    BY <2>1, <1>1, Zenon DEF Job
  <2> HIDE DEF all, over, w
  <2>3. w \in Job /\ Numbered(w)
    BY <2>2, <1>1, <1>2 DEF Job, Numbered
  <2>4. w.dropped + Len(w.lines) = n + 1
    BY <2>2, <1>1, <1>2
  <2> QED
    BY <2>2, <2>3, <2>4 DEF w
<1> QED
  BY <1>4, <1>5

\* What storing a changed record leaves of it and of the others.
LEMMA StoredChange ==
  ASSUME IInv, started' = started, NEW id \in DOMAIN jobs,
         NEW j \in Job, Numbered(j), Stored([jobs EXCEPT ![id] = j])
  PROVE  /\ Records(jobs)' /\ Records(disk)'
         /\ DOMAIN jobs' \subseteq DOMAIN jobs
         /\ id \in DOMAIN jobs' => jobs'[id] = j
         /\ j.status \notin Finished => id \in DOMAIN jobs'
         /\ \A i \in DOMAIN jobs' : i # id => jobs'[i] = jobs[i]
         /\ \A i \in DOMAIN jobs : i # id /\ ~IsFinished(jobs, i) => i \in DOMAIN jobs'
<1> DEFINE js == [jobs EXCEPT ![id] = j]
<1>1. /\ DOMAIN js = DOMAIN jobs /\ js[id] = j
      /\ \A i \in DOMAIN jobs : i # id => js[i] = jobs[i]
  OBVIOUS
<1> HIDE DEF js
<1>2. Stored(js)
  BY DEF js
<1>3. /\ DOMAIN js \subseteq Ids
      /\ \A i \in DOMAIN js : js[i] \in Job /\ Numbered(js[i]) /\ i <= started'
  BY <1>1 DEF IInv, Records
<1>4. started \in Nat /\ started' \in Nat /\ started <= started' /\ Records(disk)
  BY DEF IInv, Typed
<1>5. Records(jobs)' /\ Records(disk)'
  BY <1>2, <1>3, <1>4, StoredRecords
<1> QED
  BY <1>1, <1>2, <1>5 DEF Stored, IsFinished

\* A step of a goroutine that leaves its job unfinished.
LEMMA UnfinishedKeeps ==
  ASSUME IInv, NEW id \in Ids, gor[id] # "none",
         NEW j \in Job, Numbered(j), j.key = jobs[id].key, j.status \notin Finished,
         Stored([jobs EXCEPT ![id] = j]),
         up' = up, started' = started, byBench' = byBench,
         gor' \in [Ids -> {"none", "spawned", "running"}],
         \A i \in Ids : gor'[i] = "none" <=> gor[i] = "none",
         printed' \in [Ids -> Nat],
         \A i \in Ids : i # id => printed'[i] = printed[i],
         printed'[id] = j.dropped + Len(j.lines)
  PROVE  IInv'
<1>1. id \in DOMAIN jobs /\ ~IsFinished(jobs, id) /\ id <= started
  BY DEF IInv, Agree, Records
<1>2. /\ Records(jobs)' /\ Records(disk)'
      /\ DOMAIN jobs' \subseteq DOMAIN jobs
      /\ id \in DOMAIN jobs' /\ jobs'[id] = j
      /\ \A i \in DOMAIN jobs' : i # id => jobs'[i] = jobs[i]
      /\ \A i \in DOMAIN jobs : i # id /\ ~IsFinished(jobs, i) => i \in DOMAIN jobs'
  BY <1>1, StoredChange
<1>3. Typed'
  <2>1. \A i \in Ids : i > started => i # id
    BY <1>1, JobsAssumption DEF IInv, Typed, Ids
  <2> QED
    BY <2>1 DEF IInv, Typed
<1>4. \A i \in DOMAIN jobs' : i \in DOMAIN jobs /\ (IsFinished(jobs', i) <=> IsFinished(jobs, i))
  BY <1>1, <1>2 DEF IsFinished
<1>5. \A i \in DOMAIN jobs : ~IsFinished(jobs, i) => i \in DOMAIN jobs'
  BY <1>2
<1>6. \A i \in DOMAIN jobs' : jobs'[i].key = jobs[i].key
  BY <1>2
<1>7. \A i \in Ids : gor'[i] # "none" <=> i \in DOMAIN jobs' /\ ~IsFinished(jobs', i)
  BY <1>4, <1>5 DEF IInv, Agree
<1>8. \A i \in Ids : gor'[i] # "none" =>
         printed'[i] = jobs'[i].dropped + Len(jobs'[i].lines)
  BY <1>2, <1>7 DEF IInv, Agree
<1>9. Agree'
  <2>1. \A i \in DOMAIN jobs' : ~IsFinished(jobs', i) =>
          jobs'[i].key \in DOMAIN byBench' /\ byBench'[jobs'[i].key] = i
    BY <1>4, <1>6 DEF IInv, Agree
  <2>2. \A k \in DOMAIN byBench' :
          byBench'[k] \in DOMAIN jobs' /\ ~IsFinished(jobs', byBench'[k]) /\ jobs'[byBench'[k]].key = k
    BY <1>4, <1>5, <1>6 DEF IInv, Agree
  <2>3. up'
    BY <1>1 DEF IInv, Agree
  <2> QED
    BY <1>7, <1>8, <2>1, <2>2, <2>3 DEF Agree, IsFinished
<1> QED
  BY <1>2, <1>3, <1>9 DEF IInv

\* Run takes a queued job.
LEMMA RunKeeps ==
  ASSUME IInv, NEW id \in Ids, RunJob(id)
  PROVE  IInv'
<1> DEFINE j == [jobs[id] EXCEPT !.status = "running"]
<1>1. /\ gor[id] = "spawned" /\ gor' = [gor EXCEPT ![id] = "running"]
      /\ up' = up /\ started' = started /\ byBench' = byBench /\ printed' = printed
      /\ Persist([jobs EXCEPT ![id].status = "running"])
  BY DEF RunJob
<1>2. [jobs EXCEPT ![id].status = "running"] = [jobs EXCEPT ![id] = j]
  BY Zenon
<1>3. Stored([jobs EXCEPT ![id] = j])
  BY <1>1, <1>2, PersistStores
<1>4. jobs[id] \in Job /\ Numbered(jobs[id]) /\ printed[id] = jobs[id].dropped + Len(jobs[id].lines)
  BY <1>1 DEF IInv, Agree, Records
<1>5. /\ j \in Job /\ j.key = jobs[id].key /\ j.status = "running"
      /\ j.lines = jobs[id].lines /\ j.dropped = jobs[id].dropped
  BY <1>4 DEF Job, Status
<1> HIDE DEF j
<1>6. Numbered(j) /\ j.status \notin Finished /\ printed'[id] = j.dropped + Len(j.lines)
  BY <1>1, <1>4, <1>5 DEF Numbered, Finished
<1>7. /\ gor' \in [Ids -> {"none", "spawned", "running"}]
      /\ \A i \in Ids : gor'[i] = "none" <=> gor[i] = "none"
      /\ printed' \in [Ids -> Nat]
  BY <1>1 DEF IInv, Typed
<1> QED
  BY <1>1, <1>3, <1>5, <1>6, <1>7, UnfinishedKeeps

\* A line of output changes no status.
LEMMA OutputKeeps ==
  ASSUME IInv, NEW id \in Ids, NEW step \in BOOLEAN, Output(id, step)
  PROVE  IInv'
<1> DEFINE n == printed[id]
           j == WithLine(jobs[id], n)
           js == [jobs EXCEPT ![id] = WithLine(@, printed[id])]
<1>1. /\ gor[id] = "running" /\ gor' = gor /\ printed' = [printed EXCEPT ![id] = @ + 1]
      /\ up' = up /\ started' = started /\ byBench' = byBench
      /\ IF step THEN Persist(js) ELSE jobs' = js /\ disk' = disk
  BY DEF Output
<1>2. jobs[id] \in Job /\ Numbered(jobs[id]) /\ n = jobs[id].dropped + Len(jobs[id].lines)
      /\ id \in DOMAIN jobs
  BY <1>1 DEF IInv, Agree, Records
<1>3. js = [jobs EXCEPT ![id] = j]
  OBVIOUS
<1> HIDE DEF js
<1>4. Stored(js)
  BY <1>1, PersistStores, MemoryStores
<1>5. n \in Nat /\ gor \in [Ids -> {"none", "spawned", "running"}] /\ printed \in [Ids -> Nat]
  BY DEF IInv, Typed
<1> HIDE DEF n
<1>6. j \in Job /\ Numbered(j) /\ j.key = jobs[id].key /\ j.status = jobs[id].status
      /\ j.dropped + Len(j.lines) = n + 1
  BY <1>2, <1>5, WithLineNumbers
<1>7. jobs[id].status \notin Finished
  BY <1>1 DEF IInv, Agree, IsFinished
<1>8. Stored([jobs EXCEPT ![id] = j])
  BY <1>3, <1>4
<1> HIDE DEF j
<1>9. /\ printed' \in [Ids -> Nat] /\ printed'[id] = n + 1
      /\ \A i \in Ids : i # id => printed'[i] = printed[i]
  BY <1>1, <1>5 DEF n
<1>10. /\ gor[id] # "none" /\ j.status \notin Finished /\ printed'[id] = j.dropped + Len(j.lines)
       /\ gor' \in [Ids -> {"none", "spawned", "running"}]
       /\ \A i \in Ids : gor'[i] = "none" <=> gor[i] = "none"
  BY <1>1, <1>5, <1>6, <1>7, <1>9
<1> QED
  BY <1>1, <1>6, <1>8, <1>9, <1>10, UnfinishedKeeps

\* The end of a job is recorded once.
LEMMA EndKeeps ==
  ASSUME IInv, NEW id \in Ids, NEW result \in {"succeeded", "failed"}, EndJob(id, result)
  PROVE  IInv'
<1> DEFINE j == [jobs[id] EXCEPT !.status = result]
<1>1. /\ gor[id] = "running" /\ gor' = [gor EXCEPT ![id] = "none"]
      /\ up' = up /\ started' = started /\ printed' = printed
      /\ byBench' = Only(byBench, DOMAIN byBench \ {jobs[id].key})
      /\ Persist([jobs EXCEPT ![id].status = result])
  BY DEF EndJob
<1>2. [jobs EXCEPT ![id].status = result] = [jobs EXCEPT ![id] = j]
  BY Zenon
<1>3. Stored([jobs EXCEPT ![id] = j])
  BY <1>1, <1>2, PersistStores
<1>4. /\ jobs[id] \in Job /\ Numbered(jobs[id]) /\ id \in DOMAIN jobs
      /\ ~IsFinished(jobs, id) /\ up
      /\ jobs[id].key \in DOMAIN byBench /\ byBench[jobs[id].key] = id
  BY <1>1 DEF IInv, Agree, Records
<1>5. j \in Job /\ j.status = result /\ j.lines = jobs[id].lines /\ j.dropped = jobs[id].dropped
  BY <1>4 DEF Job, Status, Finished
<1> HIDE DEF j
<1>6. Numbered(j) /\ j.status \in Finished
  BY <1>4, <1>5 DEF Numbered, Finished
<1>7. /\ Records(jobs)' /\ Records(disk)'
      /\ DOMAIN jobs' \subseteq DOMAIN jobs
      /\ id \in DOMAIN jobs' => jobs'[id] = j
      /\ \A i \in DOMAIN jobs' : i # id => jobs'[i] = jobs[i]
      /\ \A i \in DOMAIN jobs : i # id /\ ~IsFinished(jobs, i) => i \in DOMAIN jobs'
  BY <1>1, <1>3, <1>4, <1>5, <1>6, StoredChange
<1>8. id \in DOMAIN jobs' => IsFinished(jobs', id)
  BY <1>6, <1>7 DEF IsFinished
<1>9. \A i \in DOMAIN jobs' : i # id => (IsFinished(jobs', i) <=> IsFinished(jobs, i))
  BY <1>7 DEF IsFinished
<1>10. Typed'
  BY <1>1 DEF IInv, Typed
<1>11. /\ DOMAIN byBench' = DOMAIN byBench \ {jobs[id].key}
       /\ \A k \in DOMAIN byBench' : byBench'[k] = byBench[k]
  BY <1>1 DEF Only
<1>12. \A i \in Ids : i # id => gor'[i] = gor[i]
  BY <1>1 DEF IInv, Typed
<1>13. gor'[id] = "none"
  BY <1>1 DEF IInv, Typed
<1>14. \A i \in Ids : gor'[i] # "none" <=> i \in DOMAIN jobs' /\ ~IsFinished(jobs', i)
  BY <1>7, <1>8, <1>9, <1>12, <1>13 DEF IInv, Agree
<1>15. \A i \in Ids : gor'[i] # "none" =>
         printed'[i] = jobs'[i].dropped + Len(jobs'[i].lines)
  BY <1>1, <1>7, <1>12, <1>13, <1>14 DEF IInv, Agree
<1>16. \A i \in DOMAIN jobs' : ~IsFinished(jobs', i) =>
         jobs'[i].key \in DOMAIN byBench' /\ byBench'[jobs'[i].key] = i
  <2> SUFFICES ASSUME NEW i \in DOMAIN jobs', ~IsFinished(jobs', i)
               PROVE  jobs'[i].key \in DOMAIN byBench' /\ byBench'[jobs'[i].key] = i
    OBVIOUS
  <2>1. i # id /\ i \in DOMAIN jobs /\ ~IsFinished(jobs, i) /\ jobs'[i] = jobs[i]
    BY <1>7, <1>8, <1>9
  <2>2. jobs[i].key \in DOMAIN byBench /\ byBench[jobs[i].key] = i
    BY <2>1 DEF IInv, Agree
  <2> QED
    BY <2>1, <2>2, <1>4, <1>11
<1>17. \A k \in DOMAIN byBench' :
         byBench'[k] \in DOMAIN jobs' /\ ~IsFinished(jobs', byBench'[k]) /\ jobs'[byBench'[k]].key = k
  <2> SUFFICES ASSUME NEW k \in DOMAIN byBench'
               PROVE  byBench'[k] \in DOMAIN jobs' /\ ~IsFinished(jobs', byBench'[k])
                      /\ jobs'[byBench'[k]].key = k
    OBVIOUS
  <2>1. k \in DOMAIN byBench /\ byBench'[k] = byBench[k] /\ k # jobs[id].key
    BY <1>11
  <2>2. byBench[k] \in DOMAIN jobs /\ ~IsFinished(jobs, byBench[k]) /\ jobs[byBench[k]].key = k
    BY <2>1 DEF IInv, Agree
  <2> QED
    BY <2>1, <2>2, <1>7, <1>9
<1>18. up'
  BY <1>1, <1>4
<1> HIDE DEF IInv
<1>19. Agree'
  BY <1>14, <1>15, <1>16, <1>17, <1>18 DEF Agree, IsFinished
<1> QED
  BY <1>7, <1>10, <1>19 DEF IInv

\* A crash keeps what the file has.
LEMMA CrashKeeps ==
  ASSUME IInv, Crash
  PROVE  IInv'
<1>1. /\ jobs' = Empty /\ byBench' = Empty /\ gor' = [i \in Ids |-> "none"]
      /\ disk' = disk /\ started' = started /\ printed' = printed
  BY DEF Crash
<1>2. DOMAIN jobs' = {} /\ DOMAIN byBench' = {}
  BY <1>1 DEF Empty
<1>3. Records(jobs)' /\ Records(disk)'
  BY <1>1, <1>2 DEF IInv, Records
<1>4. Typed'
  BY <1>1 DEF IInv, Typed
<1>5. Agree'
  BY <1>1, <1>2 DEF Agree
<1> QED
  BY <1>3, <1>4, <1>5 DEF IInv

\* A boot marks what was interrupted.
LEMMA BootKeeps ==
  ASSUME IInv, Boot
  PROVE  IInv'
<1> DEFINE js == Interrupted(disk)
<1>1. /\ ~up /\ up' /\ byBench' = byBench /\ gor' = gor /\ started' = started /\ printed' = printed
      /\ IF js # disk THEN Persist(js) ELSE jobs' = disk /\ disk' = disk
  BY DEF Boot
<1>2. /\ DOMAIN js = DOMAIN disk
      /\ \A i \in DOMAIN js : js[i] = IF IsFinished(disk, i) THEN disk[i]
                                       ELSE [disk[i] EXCEPT !.status = "interrupted"]
  BY DEF Interrupted
<1> HIDE DEF js
<1>3. Stored(js)
  BY <1>1, PersistStores, MemoryStores
<1>4. \A i \in DOMAIN js : js[i] \in Job /\ Numbered(js[i]) /\ i <= started /\ js[i].status \in Finished
  <2> TAKE i \in DOMAIN js
  <2>1. disk[i] \in Job /\ Numbered(disk[i]) /\ i <= started
    BY <1>2 DEF IInv, Records
  <2>2. CASE IsFinished(disk, i)
    BY <2>1, <2>2, <1>2 DEF IsFinished
  <2>3. CASE ~IsFinished(disk, i)
    BY <2>1, <2>3, <1>2 DEF Job, Status, Finished, Numbered
  <2> QED
    BY <2>2, <2>3
<1>5. Records(jobs)' /\ Records(disk)'
  <2>1. DOMAIN js \subseteq Ids /\ Records(disk)
    BY <1>2 DEF IInv, Records
  <2>2. started \in Nat /\ started' \in Nat /\ started <= started'
    BY <1>1 DEF IInv, Typed
  <2>3. \A i \in DOMAIN js : js[i] \in Job /\ Numbered(js[i]) /\ i <= started'
    BY <1>1, <1>4
  <2> QED
    BY <1>3, <2>1, <2>2, <2>3, StoredRecords
<1>6. \A i \in DOMAIN jobs' : IsFinished(jobs', i)
  BY <1>3, <1>4 DEF Stored, IsFinished
<1>7. DOMAIN byBench = {} /\ \A i \in Ids : gor[i] = "none"
  BY <1>1 DEF IInv, Agree
<1>8. Typed'
  BY <1>1 DEF IInv, Typed
<1> HIDE DEF IInv
<1>9. Agree'
  BY <1>1, <1>6, <1>7 DEF Agree, IsFinished
<1> QED
  BY <1>5, <1>8, <1>9 DEF IInv

-----------------------------------------------------------------------------
(* The invariant and what it gives *)

\* The invariant holds at the start.
LEMMA InitHolds == Init => IInv
<1> SUFFICES ASSUME Init PROVE IInv
  OBVIOUS
<1>1. DOMAIN jobs = {} /\ DOMAIN disk = {} /\ DOMAIN byBench = {}
  BY DEF Init, Empty
<1> QED
  BY <1>1 DEF Init, IInv, Records, Typed, Agree

\* It is inductive.
LEMMA StepKeeps == IInv /\ [Next]_vars => IInv'
<1> SUFFICES ASSUME IInv, [Next]_vars PROVE IInv'
  OBVIOUS
<1>1. ASSUME NEW key \in Keys, StartJob(key) PROVE IInv'
  BY <1>1, StartKeeps
<1>2. ASSUME NEW id \in Ids, RunJob(id) PROVE IInv'
  BY <1>2, RunKeeps
<1>3. ASSUME NEW id \in Ids, NEW result \in {"succeeded", "failed"}, EndJob(id, result) PROVE IInv'
  BY <1>3, EndKeeps
<1>4. ASSUME NEW id \in Ids, NEW step \in BOOLEAN, Output(id, step) PROVE IInv'
  BY <1>4, OutputKeeps
<1>5. CASE Crash
  BY <1>5, CrashKeeps
<1>6. CASE Boot
  BY <1>6, BootKeeps
<1>7. ASSUME UNCHANGED storeVars PROVE IInv'
  BY <1>7 DEF storeVars, IInv, Records, Typed, Agree, IsFinished
<1>8. ASSUME NEW id \in Ids, Open(id) PROVE IInv'
  BY <1>7, <1>8 DEF Open
<1>9. CASE Connect \/ Disconnect \/ Event \/ Close
  BY <1>7, <1>9 DEF Connect, Disconnect, Event, Close
<1>10. CASE UNCHANGED vars
  BY <1>7, <1>10 DEF vars
<1> QED
  BY <1>1, <1>2, <1>3, <1>4, <1>5, <1>6, <1>8, <1>9, <1>10 DEF Next, Work

\* The store, its file and its goroutines stay consistent, whatever writes
\* fail and whenever the dashboard is killed.
THEOREM Inductive == Spec => []IInv
  BY InitHolds, StepKeeps, PTL DEF Spec

\* A bench never has two unfinished jobs, and its key is taken exactly while it
\* has one that a goroutine will finish (StartCreate, StartAction, load).
THEOREM OneJob == Spec => []OneJobPerKey
<1>1. IInv => OneJobPerKey
  <2> SUFFICES ASSUME IInv PROVE OneJobPerKey
    OBVIOUS
  <2>1. DOMAIN jobs \subseteq Ids
    BY DEF IInv, Records
  <2> QED
    BY <2>1 DEF IInv, Agree, OneJobPerKey
<1> QED
  BY <1>1, Inductive, PTL

\* The cap on finished jobs never drops the record a goroutine works on
\* (persistLocked).
THEOREM RunningKept == Spec => []RunningJobKept
<1>1. IInv => RunningJobKept
  BY DEF IInv, Agree, RunningJobKept
<1> QED
  BY <1>1, Inductive, PTL

\* LinesDropped plus the index is the number of an output line, however many
\* were cut (jobProgress.add).
THEOREM LinesNumbered == Spec => []LineNumbers
<1>1. IInv => LineNumbers
  BY DEF IInv, Records, Numbered, LineNumbers
<1> QED
  BY <1>1, Inductive, PTL

-----------------------------------------------------------------------------
(* What a page was told stays true *)

\* The records of js have the outcomes that pages were told.
Fixed(js) == \A i \in DOMAIN js : told[i] # "none" => IsFinished(js, i) /\ js[i].status = told[i]

\* What a page was told is the outcome in the store and in the file, and a job
\* that is finished in the store is finished alike in the file: a restart reads
\* back what was told.
Durable ==
  /\ told \in [Ids -> Finished \cup {"none"}]
  /\ \A i \in Ids : told[i] # "none" => i <= started
  /\ intact => /\ Fixed(jobs) /\ Fixed(disk)
               /\ \A i \in DOMAIN jobs : IsFinished(jobs, i) =>
                    i \in DOMAIN disk /\ disk[i].status = jobs[i].status

\* A complete save leaves the same records in the store and in the file.
LEMMA PersistDurable ==
  ASSUME IInv, Durable, NEW js, Persist(js), told' = told, started' \in Nat, started <= started',
         intact => Fixed(js)
  PROVE  Durable'
<1>1. \A i \in Ids : told'[i] # "none" => i <= started'
  BY JobsAssumption DEF Durable, IInv, Typed, Ids
<1>2. ASSUME intact'
      PROVE  intact /\ jobs' = Kept(js) /\ disk' = Kept(js)
  BY <1>2 DEF Persist
<1>3. Fixed(js) => \A i \in DOMAIN Kept(js) : told[i] # "none" => IsFinished(Kept(js), i) /\ Kept(js)[i].status = told[i]
  BY KeptUnfinished DEF Fixed, IsFinished
<1> QED
  BY <1>1, <1>2, <1>3 DEF Durable, Fixed, IsFinished

\* A job that still runs was told to nobody, so its record may change.
LEMMA ChangeFixed ==
  ASSUME Durable, intact, NEW id \in DOMAIN jobs, ~IsFinished(jobs, id), NEW j
  PROVE  told[id] = "none" /\ Fixed([jobs EXCEPT ![id] = j])
<1>1. told[id] = "none"
  BY DEF Durable, Fixed
<1> QED
  BY <1>1 DEF Durable, Fixed, IsFinished

\* A page is told the outcome that is in the store.
LEMMA TellingDurable ==
  ASSUME IInv, Durable, NEW id \in DOMAIN jobs, told' = Telling(id), UNCHANGED storeVars
  PROVE  Durable'
<1>1. id \in Ids /\ id <= started
  BY DEF IInv, Records
<1>2. CASE ~IsFinished(jobs, id)
  BY <1>2 DEF Telling, Durable, Fixed, storeVars, IsFinished
<1>3. CASE IsFinished(jobs, id)
  <2>1. told' = [told EXCEPT ![id] = jobs[id].status] /\ jobs[id].status \in Finished
    BY <1>3 DEF Telling, IsFinished
  <2>2. /\ told' \in [Ids -> Finished \cup {"none"}]
        /\ told'[id] = jobs[id].status
        /\ \A i \in Ids : i # id => told'[i] = told[i]
    BY <1>1, <2>1 DEF Durable
  <2>3. jobs' = jobs /\ disk' = disk /\ intact' = intact /\ started' = started
    BY DEF storeVars
  <2>4. DOMAIN jobs \subseteq Ids /\ DOMAIN disk \subseteq Ids
    BY DEF IInv, Records
  <2>5. intact => Fixed(jobs)'
    BY <1>3, <2>2, <2>3, <2>4 DEF Durable, Fixed, IsFinished
  <2>6. intact => Fixed(disk)'
    BY <1>3, <2>2, <2>3, <2>4 DEF Durable, Fixed, IsFinished
  <2> QED
    BY <1>1, <2>2, <2>3, <2>5, <2>6 DEF Durable, IsFinished
<1> QED
  BY <1>2, <1>3

\* The outcomes that a page was told stay.
LEMMA StepDurable == IInv /\ Durable /\ [Next]_vars => Durable'
<1> SUFFICES ASSUME IInv, Durable, [Next]_vars PROVE Durable'
  OBVIOUS
<1>0. started \in Nat /\ DOMAIN jobs \subseteq Ids /\ DOMAIN disk \subseteq Ids
  BY DEF IInv, Typed, Records
<1>1. ASSUME NEW key \in Keys, StartJob(key) PROVE Durable'
  <2> DEFINE js == [i \in DOMAIN jobs \cup {started + 1} |->
                      IF i = started + 1 THEN [key |-> key, status |-> "pending", lines |-> <<>>, dropped |-> 0]
                      ELSE jobs[i]]
  <2>1. Persist(js) /\ told' = told /\ started' = started + 1 /\ started + 1 \in Ids
    BY <1>1 DEF StartJob, pageVars
  <2>2. told[started + 1] = "none"
    BY <1>0, <2>1 DEF Durable
  <2>3. DOMAIN js = DOMAIN jobs \cup {started + 1} /\ \A i \in DOMAIN js : i # started + 1 => js[i] = jobs[i] /\ i \in DOMAIN jobs
    OBVIOUS
  <2> HIDE DEF js
  <2>4. intact => Fixed(js)
    BY <2>2, <2>3 DEF Durable, Fixed, IsFinished
  <2> QED
    BY <1>0, <2>1, <2>4, PersistDurable
<1>2. ASSUME NEW id \in Ids, NEW s, gor[id] # "none", Persist([jobs EXCEPT ![id].status = s]),
             told' = told, started' = started
      PROVE  Durable'
  <2>1. id \in DOMAIN jobs /\ ~IsFinished(jobs, id)
    BY <1>2 DEF IInv, Agree
  <2>2. [jobs EXCEPT ![id].status = s] = [jobs EXCEPT ![id] = [jobs[id] EXCEPT !.status = s]]
    BY Zenon
  <2>3. intact => Fixed([jobs EXCEPT ![id].status = s])
    BY <2>1, <2>2, ChangeFixed
  <2> QED
    BY <1>0, <1>2, <2>3, PersistDurable
<1>3. ASSUME NEW id \in Ids, RunJob(id) PROVE Durable'
  BY <1>2, <1>3 DEF RunJob, pageVars
<1>4. ASSUME NEW id \in Ids, NEW result \in {"succeeded", "failed"}, EndJob(id, result) PROVE Durable'
  BY <1>2, <1>4 DEF EndJob, pageVars
<1>5. ASSUME NEW id \in Ids, NEW step \in BOOLEAN, Output(id, step) PROVE Durable'
  <2> DEFINE j  == WithLine(jobs[id], printed[id])
             js == [jobs EXCEPT ![id] = WithLine(@, printed[id])]
  <2>1. /\ gor[id] = "running" /\ told' = told /\ started' = started
        /\ IF step THEN Persist(js) ELSE jobs' = js /\ disk' = disk /\ intact' = intact
    BY <1>5 DEF Output, pageVars
  <2>2. id \in DOMAIN jobs /\ ~IsFinished(jobs, id)
    BY <2>1 DEF IInv, Agree
  <2>3. js = [jobs EXCEPT ![id] = j]
    OBVIOUS
  <2>4. jobs[id] \in Job /\ Numbered(jobs[id]) /\ printed[id] \in Nat
        /\ printed[id] = jobs[id].dropped + Len(jobs[id].lines)
    BY <2>1, <2>2 DEF IInv, Records, Typed, Agree
  <2>5. j.status = jobs[id].status
    BY <2>4, WithLineNumbers
  <2> HIDE DEF j, js
  <2>6. intact => Fixed(js)
    BY <2>2, <2>3, ChangeFixed
  <2>7. CASE step
    BY <1>0, <2>1, <2>6, <2>7, PersistDurable
  <2>8. CASE ~step
    <3>1. DOMAIN js = DOMAIN jobs /\ js[id] = j /\ \A i \in DOMAIN jobs : i # id => js[i] = jobs[i]
      BY <2>2, <2>3
    <3>2. \A i \in DOMAIN jobs' : IsFinished(jobs', i) => i # id /\ i \in DOMAIN jobs /\ jobs'[i] = jobs[i]
      BY <2>1, <2>2, <2>5, <2>8, <3>1 DEF IsFinished
    <3>3. intact => Fixed(jobs)' /\ Fixed(disk)'
      BY <2>1, <2>6, <2>8 DEF Durable, Fixed, IsFinished
    <3> QED
      BY <2>1, <2>8, <3>2, <3>3 DEF Durable, IsFinished
  <2> QED
    BY <2>7, <2>8
<1>6. CASE Crash
  BY <1>6 DEF Crash, Empty, Durable, Fixed, IsFinished
<1>7. CASE Boot
  <2>1. told' = told /\ started' = started
    BY <1>7 DEF Boot, pageVars
  <2>2. intact => Fixed(Interrupted(disk))
    BY DEF Durable, Fixed, Interrupted, IsFinished
  <2>3. CASE Persist(Interrupted(disk))
    BY <1>0, <2>1, <2>2, <2>3, PersistDurable
  <2>4. CASE jobs' = disk /\ disk' = disk /\ intact' = intact
    BY <2>1, <2>4 DEF Durable, Fixed, IsFinished
  <2> QED
    BY <1>7, <2>3, <2>4 DEF Boot
<1>8. ASSUME UNCHANGED storeVars, told' = told PROVE Durable'
  BY <1>8 DEF storeVars, Durable, Fixed, IsFinished
<1>9. ASSUME NEW id \in Ids, Open(id) PROVE Durable'
  BY <1>8, <1>9, TellingDurable DEF Open
<1>10. CASE Event
  BY <1>8, <1>10, TellingDurable DEF Event
<1>11. CASE Connect \/ Disconnect \/ Close
  BY <1>8, <1>11 DEF Connect, Disconnect, Close
<1>12. CASE UNCHANGED vars
  BY <1>8, <1>12 DEF vars, pageVars
<1> QED
  BY <1>1, <1>3, <1>4, <1>5, <1>6, <1>7, <1>9, <1>10, <1>11, <1>12 DEF Next, Work

\* The outcome that somebody was told is the outcome for good, whatever restarts
\* follow, unless a write of jobs.json failed (persistLocked, load).
THEOREM OutcomeKept == Spec => []OutcomeForGood
<1>1. Init => Durable
  BY DEF Init, Durable, Fixed, Empty
<1>2. IInv /\ Durable => OutcomeForGood
  BY DEF Durable, Fixed, OutcomeForGood
<1> QED
  BY <1>1, <1>2, Inductive, StepDurable, PTL DEF Spec

-----------------------------------------------------------------------------
(* A page shows the lines of its job *)

\* The stream has sent the lines before sent, and no line that is not there yet;
\* a page follows a job that was started.
Sent ==
  /\ stream \in [open : BOOLEAN, first : BOOLEAN, sent : Nat]
  /\ page \in [job : Nat, text : Seq(Nat), done : BOOLEAN]
  /\ page.job <= started
  /\ stream.open => up /\ page.job # 0
  /\ stream.first => stream.sent = 0
  /\ stream.open /\ ~stream.first => \A k \in DOMAIN page.text : page.text[k] < stream.sent
  /\ stream.open /\ page.job \in DOMAIN jobs =>
       stream.sent <= jobs[page.job].dropped + Len(jobs[page.job].lines)

PageInv == Sent /\ PageTrue

\* No job that was started comes back, and no line is printed or cut back.
Grows ==
  \A i \in DOMAIN jobs' : i <= started =>
    /\ i \in DOMAIN jobs
    /\ jobs[i].dropped <= jobs'[i].dropped
    /\ jobs[i].dropped + Len(jobs[i].lines) <= jobs'[i].dropped + Len(jobs'[i].lines)

\* The store moves under a page that does not.
LEMMA GrowsPage ==
  ASSUME IInv, IInv', PageInv, Grows, pageVars' = pageVars, up' = up, started <= started'
  PROVE  PageInv'
<1>1. stream' = stream /\ page' = page
  BY DEF pageVars
<1>2. started \in Nat /\ started' \in Nat
  BY DEF IInv, Typed
<1>3. \A i \in DOMAIN jobs : jobs[i].dropped \in Nat /\ Len(jobs[i].lines) \in Nat
  BY DEF IInv, Records, Job
<1>4. \A i \in DOMAIN jobs' : jobs'[i].dropped \in Nat /\ Len(jobs'[i].lines) \in Nat
  BY DEF IInv, Records, Job
<1>5. Sent'
  <2>1. page.job \in Nat /\ page.job <= started /\ stream.sent \in Nat
    BY DEF PageInv, Sent
  <2>2. page'.job <= started'
    BY <1>1, <1>2, <2>1
  <2>3. ASSUME stream'.open, page'.job \in DOMAIN jobs'
        PROVE  stream'.sent <= jobs'[page'.job].dropped + Len(jobs'[page'.job].lines)
    <3> DEFINE i == page.job
    <3>1. i \in DOMAIN jobs'
      BY <1>1, <2>3
    <3>2. i \in DOMAIN jobs /\ jobs[i].dropped + Len(jobs[i].lines) <= jobs'[i].dropped + Len(jobs'[i].lines)
      BY <2>1, <3>1 DEF Grows
    <3>3. stream.sent <= jobs[i].dropped + Len(jobs[i].lines)
      BY <1>1, <2>3, <3>2 DEF PageInv, Sent
    <3> DEFINE before == jobs[i].dropped + Len(jobs[i].lines)
               after == jobs'[i].dropped + Len(jobs'[i].lines)
    <3>4. before \in Nat /\ after \in Nat
      <4>1. jobs[i].dropped \in Nat /\ Len(jobs[i].lines) \in Nat
        BY <1>3, <3>2, Zenon
      <4>2. jobs'[i].dropped \in Nat /\ Len(jobs'[i].lines) \in Nat
        BY <1>4, <3>1, Zenon
      <4>3. \A x, y \in Nat : x + y \in Nat
        OBVIOUS
      <4> QED
        BY <4>1, <4>2, <4>3, Zenon
    <3>5. stream.sent <= before /\ before <= after
      BY <3>2, <3>3
    <3> HIDE DEF before, after
    <3>6. stream.sent <= after
      BY <2>1, <3>4, <3>5
    <3> QED
      BY <1>1, <3>6 DEF after
  <2> QED
    BY <1>1, <2>2, <2>3 DEF PageInv, Sent
<1>6. PageTrue'
  <2>1. page.job \in DOMAIN jobs' => page.job \in DOMAIN jobs /\ jobs[page.job].dropped <= jobs'[page.job].dropped
    BY DEF PageInv, Sent, Grows
  <2>2. stream.sent \in Nat
    BY DEF PageInv, Sent
  <2> QED
    BY <1>1, <1>3, <1>4, <2>1, <2>2 DEF PageInv, PageTrue
<1> QED
  BY <1>5, <1>6 DEF PageInv

\* Saving records that grew.
LEMMA StoredGrows ==
  ASSUME NEW js, Stored(js),
         \A i \in DOMAIN js : i <= started =>
           /\ i \in DOMAIN jobs
           /\ jobs[i].dropped <= js[i].dropped
           /\ jobs[i].dropped + Len(jobs[i].lines) <= js[i].dropped + Len(js[i].lines)
  PROVE  Grows
  BY DEF Stored, Grows

\* Saving a changed record that grew.
LEMMA ChangeGrows ==
  ASSUME IInv, NEW id \in DOMAIN jobs, NEW j, Stored([jobs EXCEPT ![id] = j]),
         jobs[id].dropped <= j.dropped,
         jobs[id].dropped + Len(jobs[id].lines) <= j.dropped + Len(j.lines)
  PROVE  Grows
<1> DEFINE js == [jobs EXCEPT ![id] = j]
<1>1. DOMAIN js = DOMAIN jobs /\ js[id] = j /\ \A i \in DOMAIN jobs : i # id => js[i] = jobs[i]
  OBVIOUS
<1>2. \A i \in DOMAIN jobs : jobs[i].dropped \in Nat /\ Len(jobs[i].lines) \in Nat
  BY DEF IInv, Records, Job
<1> HIDE DEF js
<1>3. Stored(js)
  BY DEF js
<1> QED
  BY <1>1, <1>2, <1>3, StoredGrows

\* The numbers of lines, added up in the two orders.
LEMMA Regroup == ASSUME NEW a \in Nat, NEW b \in Nat, NEW c \in Nat PROVE a + (b + c) - 1 = a + b + c - 1
  OBVIOUS

\* The kept lines from number sent on, which is not past the last line.
LEMMA NewLines ==
  ASSUME NEW j \in Job, Numbered(j), NEW sent \in Nat, sent <= j.dropped + Len(j.lines)
  PROVE  /\ NewJobLines(j, sent) \in Seq(Nat)
         /\ \A a, b \in DOMAIN NewJobLines(j, sent) : a < b => NewJobLines(j, sent)[a] < NewJobLines(j, sent)[b]
         /\ \A a \in DOMAIN NewJobLines(j, sent) :
              sent <= NewJobLines(j, sent)[a] /\ NewJobLines(j, sent)[a] < j.dropped + Len(j.lines)
         /\ \A n \in Nat : sent <= n /\ j.dropped <= n /\ n < j.dropped + Len(j.lines) =>
              \E a \in DOMAIN NewJobLines(j, sent) : NewJobLines(j, sent)[a] = n
<1> DEFINE start == CASE sent < j.dropped                -> 0
                      [] sent > j.dropped + Len(j.lines) -> Len(j.lines)
                      [] OTHER                           -> sent - j.dropped
           new   == SubSeq(j.lines, start + 1, Len(j.lines))
<1>1. j.lines \in Seq(Nat) /\ j.dropped \in Nat /\ Len(j.lines) \in Nat
  BY DEF Job
<1>2. /\ start \in 0..Len(j.lines) /\ sent <= j.dropped + start
      /\ start = 0 \/ sent = j.dropped + start
  BY <1>1
<1>3. NewJobLines(j, sent) = new
  BY DEF NewJobLines
<1> HIDE DEF start
<1>4. /\ new \in Seq(Nat) /\ Len(new) = Len(j.lines) - start
      /\ \A k \in 1..(Len(j.lines) - start) : new[k] = j.lines[start + k]
  BY <1>1, <1>2, CutSeq, Zenon
<1> HIDE DEF new
<1>5. \A k \in DOMAIN new : k \in 1..(Len(j.lines) - start) /\ new[k] = j.dropped + start + k - 1
  <2> SUFFICES ASSUME NEW k \in DOMAIN new
               PROVE  k \in 1..(Len(j.lines) - start) /\ new[k] = j.dropped + start + k - 1
    OBVIOUS
  <2>1. k \in 1..(Len(j.lines) - start)
    BY <1>4
  <2>2. start + k \in DOMAIN j.lines
    BY <1>1, <1>2, <2>1
  <2>3. j.lines[start + k] = j.dropped + (start + k) - 1
    BY <2>2 DEF Numbered
  <2>4. new[k] = j.lines[start + k]
    BY <1>4, <2>1
  <2>5. k \in Nat /\ start \in Nat
    BY <1>1, <1>2, <2>1
  <2>6. j.dropped + (start + k) - 1 = j.dropped + start + k - 1
    BY <1>1, <2>5, Regroup
  <2> QED
    BY <2>1, <2>3, <2>4, <2>6
<1>6. ASSUME NEW n \in Nat, sent <= n, j.dropped <= n, n < j.dropped + Len(j.lines)
      PROVE  \E a \in DOMAIN new : new[a] = n
  <2> DEFINE a == n - j.dropped - start + 1
  <2>0. start \in Nat /\ Len(j.lines) - start \in Int /\ j.dropped + start <= n
    BY <1>1, <1>2, <1>6
  <2>1. a \in 1..(Len(j.lines) - start)
    BY <1>1, <1>6, <2>0
  <2>2. a \in DOMAIN new
    BY <1>4, <2>1
  <2>3. new[a] = n
    BY <1>1, <1>2, <1>5, <2>1, <2>2
  <2> QED
    BY <2>2, <2>3
<1>7. \A a \in DOMAIN new : sent <= new[a] /\ new[a] < j.dropped + Len(j.lines)
  BY <1>1, <1>2, <1>5
<1>8. \A a, b \in DOMAIN new : a < b => new[a] < new[b]
  BY <1>1, <1>2, <1>5
<1> QED
  BY <1>3, <1>4, <1>6, <1>7, <1>8

\* An element of a concatenation is one of the two sequences.
LEMMA Concat ==
  ASSUME NEW s \in Seq(Nat), NEW t \in Seq(Nat)
  PROVE  \A a \in DOMAIN (s \o t) : \/ a \in DOMAIN s /\ (s \o t)[a] = s[a]
                                    \/ a - Len(s) \in DOMAIN t /\ (s \o t)[a] = t[a - Len(s)] /\ a \notin DOMAIN s
<1> TAKE a \in DOMAIN (s \o t)
<1>1. a \in 1..(Len(s) + Len(t)) /\ Len(s) \in Nat /\ Len(t) \in Nat
  OBVIOUS
<1>2. CASE a <= Len(s)
  <2>1. a \in DOMAIN s
    BY <1>1, <1>2
  <2>2. (s \o t)[a] = s[a]
    BY <1>1, <1>2
  <2> QED
    BY <2>1, <2>2
<1>3. CASE ~(a <= Len(s))
  <2>1. a - Len(s) \in 1..Len(t) /\ a \notin 1..Len(s) /\ 1..Len(s) = DOMAIN s /\ 1..Len(t) = DOMAIN t
    BY <1>1, <1>3
  <2>2. (s \o t)[a] = t[a - Len(s)]
    BY <1>1, <1>3
  <2> QED
    BY <2>1, <2>2
<1> QED
  BY <1>2, <1>3

\* Appending increasing numbers to smaller ones.
LEMMA Joined ==
  ASSUME NEW s \in Seq(Nat), NEW t \in Seq(Nat), NEW m \in Nat,
         \A a, b \in DOMAIN s : a < b => s[a] < s[b],
         \A a, b \in DOMAIN t : a < b => t[a] < t[b],
         \A a \in DOMAIN s : s[a] < m,
         \A a \in DOMAIN t : m <= t[a]
  PROVE  /\ s \o t \in Seq(Nat)
         /\ \A a, b \in DOMAIN (s \o t) : a < b => (s \o t)[a] < (s \o t)[b]
         /\ \A a \in DOMAIN s : a \in DOMAIN (s \o t) /\ (s \o t)[a] = s[a]
         /\ \A a \in DOMAIN t : Len(s) + a \in DOMAIN (s \o t) /\ (s \o t)[Len(s) + a] = t[a]
         /\ \A a \in DOMAIN (s \o t) : \/ a \in DOMAIN s /\ (s \o t)[a] = s[a]
                                       \/ a - Len(s) \in DOMAIN t /\ (s \o t)[a] = t[a - Len(s)]
<1>1. s \o t \in Seq(Nat) /\ Len(s \o t) = Len(s) + Len(t)
  OBVIOUS
<1>2. \A a \in DOMAIN (s \o t) : \/ a \in DOMAIN s /\ (s \o t)[a] = s[a]
                                 \/ a - Len(s) \in DOMAIN t /\ (s \o t)[a] = t[a - Len(s)] /\ a \notin DOMAIN s
  BY Concat
<1>3. \A a \in DOMAIN s : a \in DOMAIN (s \o t) /\ (s \o t)[a] = s[a]
  OBVIOUS
<1>4. \A a \in DOMAIN t : Len(s) + a \in DOMAIN (s \o t) /\ (s \o t)[Len(s) + a] = t[a]
  OBVIOUS
<1>5. ASSUME NEW a \in DOMAIN (s \o t), NEW b \in DOMAIN (s \o t), a < b
      PROVE  (s \o t)[a] < (s \o t)[b]
  <2>0. a \in Nat /\ b \in Nat /\ Len(s) \in Nat /\ DOMAIN s = 1..Len(s) /\ DOMAIN t = 1..Len(t) /\ Len(t) \in Nat
    BY <1>1
  <2>1. CASE b \in DOMAIN s
    <3>1. a \in DOMAIN s
      BY <1>5, <2>0, <2>1
    <3> QED
      BY <1>3, <1>5, <2>1, <3>1
  <2>2. CASE a \in DOMAIN s /\ b \notin DOMAIN s
    <3>1. s[a] \in Nat /\ s[a] < m
      BY <2>2
    <3>2. b - Len(s) \in DOMAIN t /\ (s \o t)[b] = t[b - Len(s)]
      BY <1>2, <2>2
    <3>3. t[b - Len(s)] \in Nat /\ m <= t[b - Len(s)]
      BY <3>2
    <3> QED
      BY <1>3, <2>2, <3>1, <3>2, <3>3
  <2>3. CASE a \notin DOMAIN s /\ b \notin DOMAIN s
    <3>1. a - Len(s) \in DOMAIN t /\ (s \o t)[a] = t[a - Len(s)]
      BY <1>2, <2>3
    <3>2. b - Len(s) \in DOMAIN t /\ (s \o t)[b] = t[b - Len(s)]
      BY <1>2, <2>3
    <3>3. a - Len(s) < b - Len(s)
      BY <1>5, <2>0
    <3> QED
      BY <3>1, <3>2, <3>3
  <2> QED
    BY <2>1, <2>2, <2>3
<1> QED
  BY <1>1, <1>2, <1>3, <1>4, <1>5

\* An event brings a page that was in order up to the last line.
LEMMA EventPage ==
  ASSUME IInv, PageInv, Event
  PROVE  PageInv'
<1>1. jobs' = jobs /\ up' = up /\ started' = started /\ stream.open
  BY DEF Event, storeVars
<1>2. CASE page.job \notin DOMAIN jobs
  <2>1. stream' = [stream EXCEPT !.open = FALSE] /\ page' = page
    BY <1>2 DEF Event
  <2> QED
    BY <1>1, <2>1 DEF PageInv, Sent, PageTrue
<1>3. CASE page.job \in DOMAIN jobs
  <2> DEFINE j   == jobs[page.job]
             new == NewJobLines(j, stream.sent)
  <2>1. j \in Job /\ Numbered(j) /\ j.dropped \in Nat /\ Len(j.lines) \in Nat
    BY <1>3 DEF IInv, Records, Job
  <2>2. stream.sent \in Nat /\ stream.sent <= j.dropped + Len(j.lines) /\ page.text \in Seq(Nat)
    BY <1>1, <1>3 DEF PageInv, Sent
  <2>3. /\ page' = [page EXCEPT !.text = Shown(new), !.done = j.status \in Finished]
        /\ stream' = [open |-> j.status \notin Finished, first |-> FALSE, sent |-> j.dropped + Len(j.lines)]
    BY <1>3 DEF Event
  <2>4. /\ new \in Seq(Nat)
        /\ \A a, b \in DOMAIN new : a < b => new[a] < new[b]
        /\ \A a \in DOMAIN new : stream.sent <= new[a] /\ new[a] < j.dropped + Len(j.lines)
        /\ \A n \in Nat : stream.sent <= n /\ j.dropped <= n /\ n < j.dropped + Len(j.lines) =>
             \E a \in DOMAIN new : new[a] = n
    BY <2>1, <2>2, NewLines
  <2> HIDE DEF j, new
  <2>5. /\ Shown(new) \in Seq(Nat)
        /\ \A a, b \in DOMAIN Shown(new) : a < b => Shown(new)[a] < Shown(new)[b]
        /\ \A a \in DOMAIN Shown(new) : Shown(new)[a] < j.dropped + Len(j.lines)
        /\ \A n \in Nat : j.dropped <= n /\ n < j.dropped + Len(j.lines) =>
             \E a \in DOMAIN Shown(new) : Shown(new)[a] = n
    <3>1. CASE stream.first
      <4>1. stream.sent = 0 /\ Shown(new) = new
        BY <3>1 DEF PageInv, Sent, Shown
      <4> QED
        BY <2>4, <4>1
    <3>2. CASE ~stream.first
      <4> DEFINE s == page.text
      <4>1. Shown(new) = s \o new
        BY <3>2 DEF Shown
      <4>2. (\A a, b \in DOMAIN s : a < b => s[a] < s[b]) /\ \A a \in DOMAIN s : s[a] < stream.sent
        BY <1>1, <3>2 DEF PageInv, Sent, PageTrue
      <4>3. \A n \in 0..(stream.sent - 1) : (\E k \in DOMAIN s : s[k] = n) \/ n < j.dropped
        BY <1>1, <1>3, <3>2 DEF PageInv, PageTrue, j
      <4> HIDE DEF s
      <4>4. s \in Seq(Nat)
        BY <2>2 DEF s
      <4>5. /\ s \o new \in Seq(Nat)
            /\ \A a, b \in DOMAIN (s \o new) : a < b => (s \o new)[a] < (s \o new)[b]
            /\ \A a \in DOMAIN s : a \in DOMAIN (s \o new) /\ (s \o new)[a] = s[a]
            /\ \A a \in DOMAIN new : Len(s) + a \in DOMAIN (s \o new) /\ (s \o new)[Len(s) + a] = new[a]
            /\ \A a \in DOMAIN (s \o new) : \/ a \in DOMAIN s /\ (s \o new)[a] = s[a]
                                            \/ a - Len(s) \in DOMAIN new /\ (s \o new)[a] = new[a - Len(s)]
        BY <2>2, <2>4, <4>2, <4>4, Joined
      <4> DEFINE t == s \o new
      <4> HIDE DEF t
      <4>6. \A a \in DOMAIN t : t[a] < j.dropped + Len(j.lines)
        <5> SUFFICES ASSUME NEW a \in DOMAIN t PROVE t[a] < j.dropped + Len(j.lines)
          OBVIOUS
        <5>1. CASE a \in DOMAIN s /\ t[a] = s[a]
          <6>1. s[a] \in Nat /\ s[a] < stream.sent
            BY <4>2, <4>4, <5>1
          <6> QED
            BY <2>1, <2>2, <5>1, <6>1
        <5>2. CASE a - Len(s) \in DOMAIN new /\ t[a] = new[a - Len(s)]
          BY <2>4, <5>2
        <5> QED
          BY <4>5, <5>1, <5>2 DEF t
      <4>7. ASSUME NEW n \in Nat, j.dropped <= n, n < j.dropped + Len(j.lines)
            PROVE  \E a \in DOMAIN t : t[a] = n
        <5>1. CASE n < stream.sent
          <6>1. n \in 0..(stream.sent - 1) /\ ~(n < j.dropped)
            BY <2>1, <2>2, <4>7, <5>1
          <6>2. PICK k \in DOMAIN s : s[k] = n
            BY <4>3, <6>1
          <6> QED
            BY <4>5, <6>2 DEF t
        <5>2. CASE ~(n < stream.sent)
          <6>1. PICK a \in DOMAIN new : new[a] = n
            BY <2>2, <2>4, <4>7, <5>2
          <6> QED
            BY <4>5, <6>1 DEF t
        <5> QED
          BY <5>1, <5>2
      <4> QED
        BY <4>1, <4>5, <4>6, <4>7 DEF t
    <3> QED
      BY <3>1, <3>2
  <2>6. page'.job = page.job /\ page'.text = Shown(new) /\ page' \in [job : Nat, text : Seq(Nat), done : BOOLEAN]
    <3>1. page = [job |-> page.job, text |-> page.text, done |-> page.done] /\ page.job \in Nat
      BY DEF PageInv, Sent
    <3>2. page' = [job |-> page.job, text |-> Shown(new), done |-> j.status \in Finished]
      BY <2>3, <3>1, Zenon
    <3>3. (j.status \in Finished) \in BOOLEAN
      OBVIOUS
    <3> QED
      BY <2>5, <3>1, <3>2, <3>3
  <2>7. stream' \in [open : BOOLEAN, first : BOOLEAN, sent : Nat] /\ ~stream'.first /\ stream'.sent = j.dropped + Len(j.lines)
    BY <2>1, <2>3
  <2>8. Sent'
    BY <1>1, <2>1, <2>5, <2>6, <2>7 DEF PageInv, Sent, j
  <2>9. PageTrue'
    <3>1. \A n \in 0..(stream'.sent - 1) : n \in Nat /\ n < j.dropped + Len(j.lines)
      BY <2>1, <2>7
    <3>2. \A n \in 0..(stream'.sent - 1) : (\E k \in DOMAIN page'.text : page'.text[k] = n) \/ n < j.dropped
      BY <2>1, <2>5, <2>6, <3>1
    <3> QED
      BY <1>1, <2>5, <2>6, <3>2 DEF PageTrue, j
  <2> QED
    BY <2>8, <2>9 DEF PageInv
<1> QED
  BY <1>2, <1>3

\* The page of a job stays true.
LEMMA StepPage == IInv /\ PageInv /\ [Next]_vars => PageInv'
<1> SUFFICES ASSUME IInv, PageInv, [Next]_vars PROVE PageInv'
  OBVIOUS
<1>0. IInv' /\ started \in Nat
  BY StepKeeps DEF IInv, Typed
<1>1. ASSUME NEW key \in Keys, StartJob(key) PROVE PageInv'
  <2> DEFINE js == [i \in DOMAIN jobs \cup {started + 1} |->
                      IF i = started + 1 THEN [key |-> key, status |-> "pending", lines |-> <<>>, dropped |-> 0]
                      ELSE jobs[i]]
  <2>1. Persist(js) /\ pageVars' = pageVars /\ up' = up /\ started' = started + 1
    BY <1>1 DEF StartJob, pageVars
  <2>2. \A i \in DOMAIN jobs : jobs[i].dropped \in Nat /\ Len(jobs[i].lines) \in Nat
    BY DEF IInv, Records, Job
  <2>3. \A i \in DOMAIN js : i <= started => i \in DOMAIN jobs /\ js[i] = jobs[i]
    BY <1>0
  <2> HIDE DEF js
  <2>4. Grows
    BY <2>1, <2>2, <2>3, PersistStores, StoredGrows
  <2> QED
    BY <1>0, <2>1, <2>4, GrowsPage
<1>2. ASSUME NEW id \in Ids, NEW s, gor[id] # "none", Persist([jobs EXCEPT ![id].status = s]),
             pageVars' = pageVars, up' = up, started' = started
      PROVE  PageInv'
  <2> DEFINE j == [jobs[id] EXCEPT !.status = s]
  <2>1. id \in DOMAIN jobs
    BY <1>2 DEF IInv, Agree
  <2>2. [jobs EXCEPT ![id].status = s] = [jobs EXCEPT ![id] = j]
    BY Zenon
  <2>3. Stored([jobs EXCEPT ![id] = j])
    BY <1>2, <2>2, PersistStores
  <2>4. jobs[id] \in Job /\ jobs[id].dropped \in Nat /\ Len(jobs[id].lines) \in Nat
    BY <2>1 DEF IInv, Records, Job
  <2>5. j.dropped = jobs[id].dropped /\ j.lines = jobs[id].lines
    BY <2>4 DEF Job
  <2> HIDE DEF j
  <2>6. Grows
    BY <2>1, <2>3, <2>4, <2>5, ChangeGrows
  <2> QED
    BY <1>0, <1>2, <2>6, GrowsPage
<1>3. ASSUME NEW id \in Ids, RunJob(id) PROVE PageInv'
  BY <1>2, <1>3 DEF RunJob
<1>4. ASSUME NEW id \in Ids, NEW result \in {"succeeded", "failed"}, EndJob(id, result) PROVE PageInv'
  BY <1>2, <1>4 DEF EndJob
<1>5. ASSUME NEW id \in Ids, NEW step \in BOOLEAN, Output(id, step) PROVE PageInv'
  <2> DEFINE j  == WithLine(jobs[id], printed[id])
             js == [jobs EXCEPT ![id] = WithLine(@, printed[id])]
  <2>1. /\ gor[id] = "running" /\ pageVars' = pageVars /\ up' = up /\ started' = started
        /\ IF step THEN Persist(js) ELSE jobs' = js /\ disk' = disk
    BY <1>5 DEF Output
  <2>2. id \in DOMAIN jobs
    BY <2>1 DEF IInv, Agree
  <2>3. js = [jobs EXCEPT ![id] = j]
    OBVIOUS
  <2>4. jobs[id] \in Job /\ Numbered(jobs[id]) /\ printed[id] \in Nat
        /\ printed[id] = jobs[id].dropped + Len(jobs[id].lines)
        /\ jobs[id].dropped \in Nat /\ Len(jobs[id].lines) \in Nat
    BY <2>1, <2>2 DEF IInv, Records, Typed, Agree, Job
  <2>5. j.dropped + Len(j.lines) = printed[id] + 1 /\ jobs[id].dropped <= j.dropped
    <3>1. j.dropped + Len(j.lines) = printed[id] + 1
      BY <2>4, WithLineNumbers
    <3>2. jobs[id].dropped <= j.dropped
      <4>1. CASE Len(Append(jobs[id].lines, printed[id])) - MaxLines > 0
        BY <2>4, <4>1, JobsAssumption DEF WithLine, Job
      <4>2. CASE ~(Len(Append(jobs[id].lines, printed[id])) - MaxLines > 0)
        BY <2>4, <4>2 DEF WithLine, Job
      <4> QED
        BY <4>1, <4>2
    <3> QED
      BY <3>1, <3>2
  <2> HIDE DEF j, js
  <2>6. Stored(js)
    BY <2>1, PersistStores, MemoryStores
  <2>7. Grows
    <3>1. Stored([jobs EXCEPT ![id] = j])
      BY <2>3, <2>6
    <3>2. jobs[id].dropped + Len(jobs[id].lines) <= j.dropped + Len(j.lines)
      BY <2>4, <2>5
    <3> QED
      BY <2>2, <2>5, <3>1, <3>2, ChangeGrows
  <2> QED
    BY <1>0, <2>1, <2>7, GrowsPage
<1>6. CASE Crash
  <2>1. stream' = [stream EXCEPT !.open = FALSE] /\ page' = page /\ started' = started
    BY <1>6 DEF Crash
  <2> QED
    BY <2>1 DEF PageInv, Sent, PageTrue
<1>7. CASE Boot
  <2>1. ~stream.open /\ stream' = stream /\ page' = page /\ started' = started
    BY <1>7 DEF Boot, pageVars, PageInv, Sent
  <2> QED
    BY <2>1 DEF PageInv, Sent, PageTrue
<1>8. ASSUME UNCHANGED storeVars, UNCHANGED <<stream, page>> PROVE PageInv'
  BY <1>8 DEF storeVars, PageInv, Sent, PageTrue
<1>9. ASSUME NEW id \in Ids, Open(id) PROVE PageInv'
  <2>1. CASE id \notin DOMAIN jobs
    BY <1>8, <1>9, <2>1 DEF Open
  <2>2. CASE id \in DOMAIN jobs
    <3>1. page' = [job |-> id, text |-> jobs[id].lines, done |-> FALSE] /\ UNCHANGED storeVars /\ stream' = stream
      BY <1>9, <2>2 DEF Open
    <3>2. jobs[id].lines \in Seq(Nat) /\ jobs[id].dropped \in Nat /\ Numbered(jobs[id]) /\ id <= started /\ id \in Nat
      BY <2>2 DEF IInv, Records, Job, Ids
    <3>3. \A a, b \in DOMAIN jobs[id].lines : a < b => jobs[id].lines[a] < jobs[id].lines[b]
      BY <3>2 DEF Numbered
    <3>4. ~stream.open
      BY <1>9 DEF Open, PageInv, Sent
    <3> QED
      BY <3>1, <3>2, <3>3, <3>4 DEF storeVars, PageInv, Sent, PageTrue
  <2> QED
    BY <2>1, <2>2
<1>10. CASE Event
  BY <1>10, EventPage
<1>11. CASE Connect
  <2>1. stream' = [open |-> TRUE, first |-> TRUE, sent |-> 0] /\ page' = page /\ page.job # 0 /\ up /\ UNCHANGED storeVars
    BY <1>11 DEF Connect
  <2>2. page.job \in DOMAIN jobs => 0 <= jobs[page.job].dropped + Len(jobs[page.job].lines)
    BY DEF IInv, Records, Job
  <2> QED
    BY <2>1, <2>2 DEF storeVars, PageInv, Sent, PageTrue
<1>12. CASE Disconnect
  BY <1>12 DEF Disconnect, storeVars, PageInv, Sent, PageTrue
<1>13. CASE Close
  <2>1. page' = [job |-> 0, text |-> <<>>, done |-> FALSE] /\ UNCHANGED storeVars
        /\ stream' = [open |-> FALSE, first |-> TRUE, sent |-> 0]
    BY <1>13 DEF Close, NoPage
  <2> QED
    BY <1>0, <2>1 DEF storeVars, PageInv, Sent, PageTrue
<1>14. CASE UNCHANGED vars
  BY <1>8, <1>14 DEF vars, pageVars
<1> QED
  BY <1>1, <1>3, <1>4, <1>5, <1>6, <1>7, <1>9, <1>10, <1>11, <1>12, <1>13, <1>14 DEF Next, Work

\* A page shows the lines of its job in order and none twice, and has every line
\* the stream passed over that was not cut before, for any cap and any number of
\* reconnections and restarts (newJobLines, jobs.js).
THEOREM PageShown == Spec => []PageTrue
<1>1. Init => PageInv
  BY DEF Init, NoPage, PageInv, Sent, PageTrue
<1>2. PageInv => PageTrue
  BY DEF PageInv
<1> QED
  BY <1>1, <1>2, Inductive, StepPage, PTL DEF Spec

-----------------------------------------------------------------------------
(* No page of benches shows what is long over: the invariant *)

Answers == [fresh : BOOLEAN, at : Nat, up : [Benches -> SUBSET Services], failed : BOOLEAN]
Words   == Statuses \cup {"unknown", "none"}
\* What the answer sn of docker says of b.
Told(sn, b) == benchStatus(sn.up[b])
Now(b) == benchStatus(box[b].up)

StatusTypes ==
  /\ clock \in Nat /\ clock # 0
  /\ box \in [Benches -> BenchStates]
  /\ job \in {"none", "runs", "over", "dropped"}
  /\ snap \in Answers
  /\ held \in [Benches -> [Statuses -> Nat]]
  /\ since \in [Benches -> SUBSET Statuses]
  /\ view = [p \in Pages |-> view[p]]
  /\ \A p \in Pages :
       /\ view[p] = [at |-> view[p].at, list |-> view[p].list, asked |-> view[p].asked, snap |-> view[p].snap,
                     shown |-> view[p].shown, may |-> view[p].may]
       /\ view[p].at \in {"idle", "listed", "asked", "docker", "looked", "answered", "shown"}
       /\ view[p].list \subseteq Benches
       /\ view[p].snap \in Answers
       /\ view[p].may \in [Benches -> SUBSET Words]

\* What is true now is in the ghosts.
Remembered ==
  \A b \in Benches :
    /\ held[b][Now(b)] = clock
    /\ \A s \in Statuses : held[b][s] <= clock
    /\ job \in {"over", "dropped"} => Now(b) \in since[b]
    /\ \A s \in since[b] : held[b][s] # 0

\* An answer that may be given to pages is of something that was so not before
\* it was asked for, and since the job that dropped the one before.
Good(sn) ==
  /\ sn.fresh /\ ~sn.failed /\ sn.at \in 1..clock
  /\ \A b \in Benches :
       /\ sn.at <= held[b][Told(sn, b)]
       /\ job = "dropped" => Told(sn, b) \in since[b]
       /\ \A p \in Pages : view[p].at \in {"listed", "asked"} =>
            Told(sn, b) \in view[p].may[b] \/ clock - sn.at >= TTL

\* The holder of the mutex.
Holding ==
  \A p \in Pages :
    /\ view[p].at \in {"docker", "looked"} <=> statusMu = p
    /\ view[p].at = "docker" => view[p].snap.fresh /\ ~view[p].snap.failed /\ view[p].snap.at \in 1..clock
    /\ view[p].at = "looked" /\ ~view[p].snap.failed => Good(view[p].snap)

\* What the page v may say of b covers what it is about to say.
Covered(v, b) ==
  /\ v.at # "idle" => Says(box[b]) \subseteq v.may[b]
  /\ v.at = "listed" /\ b \in v.list => box[b].recorded \/ "none" \in v.may[b]
  /\ v.at \in {"asked", "docker", "looked", "answered"} /\ b \in v.list => b \in v.asked \/ "none" \in v.may[b]
  /\ v.at \in {"looked", "answered"} => IF v.snap.failed THEN "unknown" \in v.may[b] ELSE Told(v.snap, b) \in v.may[b]
  /\ v.at = "shown" /\ b \in v.list => v.shown[b] \in v.may[b]

\* Inductive: PageFresh alone says nothing of an answer that was not shown yet.
StatusInv ==
  /\ StatusTypes /\ Remembered /\ Holding
  /\ snap.fresh => Good(snap)
  /\ \A p \in Pages, b \in Benches : Covered(view[p], b)

-----------------------------------------------------------------------------
(* No page of benches shows what is long over: the steps *)

\* What is said of a bench are words; what its containers tell is always said.
LEMMA SaysWords ==
  ASSUME NEW w \in BenchStates
  PROVE  /\ Says(w) \subseteq Words /\ benchStatus(w.up) \in Statuses /\ benchStatus(w.up) \in Says(w)
         /\ ~w.file => "unknown" \in Says(w)
         /\ ~w.recorded => "none" \in Says(w)
<1>1. benchStatus(w.up) \in Statuses
  BY DEF benchStatus, Statuses
<1> QED
  BY <1>1 DEF Says, Words

\* So is what an answer of docker tells.
LEMMA ToldStatus == ASSUME NEW sn \in Answers, NEW b \in Benches PROVE Told(sn, b) \in Statuses
  BY DEF Told, benchStatus, Statuses

\* The request of a page, as a record of its fields.
IsView(v) ==
  /\ v = [at |-> v.at, list |-> v.list, asked |-> v.asked, snap |-> v.snap, shown |-> v.shown, may |-> v.may]
  /\ v.at \in {"idle", "listed", "asked", "docker", "looked", "answered", "shown"}
  /\ v.list \subseteq Benches
  /\ v.snap \in Answers
  /\ v.may \in [Benches -> SUBSET Words]

\* A step of page p, which becomes v.
LEMMA PageStep ==
  ASSUME StatusInv, NEW p \in Pages, NEW v, IsView(v), view' = [view EXCEPT ![p] = v],
         UNCHANGED <<clock, box, job, held, since>>,
         \A b \in Benches : Covered(v, b),
         \A sn : Good(sn) /\ v.at \in {"listed", "asked"} =>
           \A b \in Benches : Told(sn, b) \in v.may[b] \/ clock - sn.at >= TTL,
         v.at \in {"docker", "looked"} <=> statusMu' = p,
         \A q \in Pages \ {p} : (statusMu' = q <=> statusMu = q),
         v.at = "docker" => v.snap.fresh /\ ~v.snap.failed /\ v.snap.at \in 1..clock,
         v.at = "looked" /\ ~v.snap.failed => Good(v.snap),
         snap' \in Answers, snap'.fresh => snap' = snap \/ Good(snap')
  PROVE  StatusInv'
<1>1. view'[p] = v /\ \A q \in Pages \ {p} : view'[q] = view[q]
  BY DEF StatusInv, StatusTypes
<1>2. StatusTypes'
  BY <1>1 DEF StatusInv, StatusTypes, IsView
<1>3. Remembered'
  BY DEF StatusInv, Remembered, Now
<1>4. \A sn : Good(sn) =>
        /\ sn.fresh /\ ~sn.failed /\ sn.at \in 1..clock'
        /\ \A b \in Benches :
             /\ sn.at <= held'[b][Told(sn, b)]
             /\ job' = "dropped" => Told(sn, b) \in since'[b]
             /\ \A q \in Pages : view'[q].at \in {"listed", "asked"} =>
                  Told(sn, b) \in view'[q].may[b] \/ clock' - sn.at >= TTL
  BY <1>1 DEF Good
<1>5. Holding'
  <2>1. ASSUME NEW q \in Pages
        PROVE  /\ view'[q].at \in {"docker", "looked"} <=> statusMu' = q
               /\ view'[q].at = "docker" => /\ view'[q].snap.fresh /\ ~view'[q].snap.failed
                                            /\ view'[q].snap.at \in 1..clock'
               /\ view'[q].at = "looked" /\ ~view'[q].snap.failed => Good(view'[q].snap)
    BY <1>1 DEF StatusInv, Holding
  <2> QED
    BY <1>4, <2>1 DEF Holding, Good, Told
<1>6. snap'.fresh => Good(snap)'
  <2>1. snap'.fresh => Good(snap')
    BY DEF StatusInv
  <2> QED
    BY <1>4, <2>1 DEF Good, Told
<1>7. \A q \in Pages, b \in Benches : Covered(view[q], b)'
  BY <1>1 DEF StatusInv, Covered, Told
<1> QED
  BY <1>2, <1>3, <1>5, <1>6, <1>7 DEF StatusInv


\* The first look: an answer still usable then is of a status remembered since
\* less than the TTL.
LEMMA ListKept ==
  ASSUME StatusInv, NEW p \in Pages, List(p)
  PROVE  StatusInv'
<1> DEFINE v == [NoView EXCEPT !.at = "listed", !.list = Listed,
       !.may = [b \in Benches |->
         Says(box[b]) \cup {s \in Statuses : held[b][s] > 0 /\ clock - held[b][s] < TTL}]]
<1>1. view' = [view EXCEPT ![p] = v]
  BY DEF List
<1>a. v = [NoView EXCEPT !.at = "listed", !.list = Listed,
       !.may = [b \in Benches |->
         Says(box[b]) \cup {s \in Statuses : held[b][s] > 0 /\ clock - held[b][s] < TTL}]]
  OBVIOUS
<1> HIDE DEF v
<1>2. v = [at |-> "listed", list |-> Listed, asked |-> {}, snap |-> NoSnap, shown |-> <<>>,
           may |-> [b \in Benches |->
             Says(box[b]) \cup {s \in Statuses : held[b][s] > 0 /\ clock - held[b][s] < TTL}]]
  BY <1>a DEF NoView
<1>3. /\ v.at = "listed" /\ v.list = Listed /\ v.snap = NoSnap
      /\ \A b \in Benches :
           v.may[b] = Says(box[b]) \cup {s \in Statuses : held[b][s] > 0 /\ clock - held[b][s] < TTL}
  BY <1>2
<1>4. IsView(v)
  <2>1. NoSnap \in Answers
    BY DEF NoSnap, Answers
  <2>2. \A b \in Benches : Says(box[b]) \subseteq Words
    BY SaysWords DEF StatusInv, StatusTypes
  <2> QED
    BY <1>2, <2>1, <2>2 DEF IsView, Listed, Words
<1>5. \A b \in Benches : Covered(v, b)
  <2>1. \A b \in Benches : ~box[b].recorded => "none" \in Says(box[b])
    BY SaysWords DEF StatusInv, StatusTypes
  <2> QED
    BY <1>3, <2>1 DEF Covered
<1>6. ASSUME NEW sn, Good(sn), NEW b \in Benches
      PROVE  Told(sn, b) \in v.may[b] \/ clock - sn.at >= TTL
  <2>1. Told(sn, b) \in Statuses
    BY DEF Told, benchStatus, Statuses
  <2>2. held[b][Told(sn, b)] \in Nat /\ clock \in Nat
    BY <2>1 DEF StatusInv, StatusTypes
  <2>3. sn.at \in 1..clock /\ sn.at <= held[b][Told(sn, b)]
    BY <1>6 DEF Good
  <2> QED
    BY <1>3, <2>1, <2>2, <2>3, StatusAssumption
<1>7. ~(view[p].at \in {"docker", "looked"}) /\ UNCHANGED <<statusMu, snap, clock, box, job, held, since>>
  BY DEF List
<1>8. statusMu # p
  BY <1>7 DEF StatusInv, Holding
<1>9. snap \in Answers
  BY DEF StatusInv, StatusTypes
<1> QED
  BY <1>1, <1>3, <1>4, <1>5, <1>6, <1>7, <1>8, <1>9, PageStep


\* The second look.
LEMMA StatusAllKept ==
  ASSUME StatusInv, NEW p \in Pages, StatusAll(p)
  PROVE  StatusInv'
<1> DEFINE v == [view[p] EXCEPT !.at = "asked", !.asked = Listed]
<1>0. IsView(view[p])
  BY DEF StatusInv, StatusTypes, IsView
<1>1. view' = [view EXCEPT ![p] = v]
  BY DEF StatusAll
<1>a. v = [view[p] EXCEPT !.at = "asked", !.asked = Listed]
  OBVIOUS
<1> HIDE DEF v
<1>2. v = [at |-> "asked", list |-> view[p].list, asked |-> Listed, snap |-> view[p].snap,
           shown |-> view[p].shown, may |-> view[p].may]
  BY <1>0, <1>a DEF IsView
<1>3. /\ v.at = "asked" /\ v.list = view[p].list /\ v.asked = Listed
      /\ v.snap = view[p].snap /\ v.may = view[p].may
  BY <1>2
<1>4. IsView(v)
  BY <1>0, <1>2 DEF IsView
<1>5. \A b \in Benches : Covered(v, b)
  BY <1>3 DEF StatusInv, Covered, Listed, StatusAll
<1>6. ASSUME NEW sn, Good(sn), NEW b \in Benches
      PROVE  Told(sn, b) \in v.may[b] \/ clock - sn.at >= TTL
  BY <1>3, <1>6 DEF Good, StatusAll
<1>7. ~(view[p].at \in {"docker", "looked"}) /\ UNCHANGED <<statusMu, snap, clock, box, job, held, since>>
  BY DEF StatusAll
<1>8. statusMu # p
  BY <1>7 DEF StatusInv, Holding
<1>9. snap \in Answers
  BY DEF StatusInv, StatusTypes
<1> QED
  BY <1>1, <1>3, <1>4, <1>5, <1>6, <1>7, <1>8, <1>9, PageStep

\* A usable answer of another call was already allowed when the page was asked for.
LEMMA psReuseKept ==
  ASSUME StatusInv, NEW p \in Pages, psReuse(p)
  PROVE  StatusInv'
<1> DEFINE v == [view[p] EXCEPT !.at = "answered", !.snap = snap]
<1>0. IsView(view[p])
  BY DEF StatusInv, StatusTypes, IsView
<1>1. view' = [view EXCEPT ![p] = v]
  BY DEF psReuse
<1>a. v = [view[p] EXCEPT !.at = "answered", !.snap = snap]
  OBVIOUS
<1> HIDE DEF v
<1>2. v = [at |-> "answered", list |-> view[p].list, asked |-> view[p].asked, snap |-> snap,
           shown |-> view[p].shown, may |-> view[p].may]
  BY <1>0, <1>a DEF IsView
<1>3. /\ v.at = "answered" /\ v.list = view[p].list /\ v.asked = view[p].asked
      /\ v.snap = snap /\ v.may = view[p].may
  BY <1>2
<1>9. snap \in Answers
  BY DEF StatusInv, StatusTypes
<1>4. IsView(v)
  BY <1>0, <1>2, <1>9 DEF IsView
<1>5. ASSUME NEW b \in Benches PROVE Covered(v, b)
  <2>1. Good(snap) /\ ~(clock - snap.at >= TTL)
    <3>1. snap.at \in Int /\ clock \in Int /\ TTL \in Int
      BY <1>9, StatusAssumption DEF StatusInv, StatusTypes, Answers
    <3> QED
      BY <3>1 DEF psReuse, Usable, StatusInv
  <2>2. Told(snap, b) \in view[p].may[b] /\ ~snap.failed
    BY <2>1 DEF Good, psReuse
  <2>3. Covered(view[p], b) /\ view[p].at = "asked"
    BY DEF StatusInv, psReuse
  <2> QED
    BY <1>3, <2>2, <2>3 DEF Covered
<1>7. ~(view[p].at \in {"docker", "looked"}) /\ UNCHANGED <<statusMu, snap, clock, box, job, held, since>>
  BY DEF psReuse
<1>8. statusMu # p
  BY <1>7 DEF StatusInv, Holding
<1> QED
  BY <1>1, <1>3, <1>4, <1>5, <1>7, <1>8, <1>9, PageStep

\* The mutex is taken to ask docker.
LEMMA psAskKept ==
  ASSUME StatusInv, NEW p \in Pages, psAsk(p)
  PROVE  StatusInv'
<1> DEFINE v == [view[p] EXCEPT !.at = "docker", !.snap = [NoSnap EXCEPT !.fresh = TRUE, !.at = clock]]
<1>0. IsView(view[p])
  BY DEF StatusInv, StatusTypes, IsView
<1>9. snap \in Answers /\ clock \in Nat /\ clock # 0
  BY DEF StatusInv, StatusTypes
<1>1. view' = [view EXCEPT ![p] = v]
  BY DEF psAsk
<1>a. v = [view[p] EXCEPT !.at = "docker", !.snap = [NoSnap EXCEPT !.fresh = TRUE, !.at = clock]]
  OBVIOUS
<1> HIDE DEF v
<1>2. v = [at |-> "docker", list |-> view[p].list, asked |-> view[p].asked,
           snap |-> [fresh |-> TRUE, at |-> clock, up |-> [b \in Benches |-> {}], failed |-> FALSE],
           shown |-> view[p].shown, may |-> view[p].may]
  BY <1>0, <1>a DEF IsView, NoSnap
<1>3. /\ v.at = "docker" /\ v.list = view[p].list /\ v.asked = view[p].asked /\ v.may = view[p].may
      /\ v.snap.fresh /\ ~v.snap.failed /\ v.snap.at = clock
  BY <1>2
<1>6. v.snap.at \in 1..clock
  BY <1>3, <1>9
<1>4. IsView(v)
  <2>1. v.snap \in Answers
    BY <1>2, <1>9 DEF Answers
  <2> QED
    BY <1>0, <1>2, <2>1 DEF IsView
<1>5. \A b \in Benches : Covered(v, b)
  BY <1>3 DEF StatusInv, Covered, psAsk
<1>7. statusMu = Nobody /\ statusMu' = p /\ UNCHANGED <<snap, clock, box, job, held, since>>
  BY DEF psAsk
<1>8. \A q \in Pages \ {p} : (statusMu' = q <=> statusMu = q)
  BY <1>7, StatusAssumption
<1> QED
  BY <1>1, <1>3, <1>4, <1>5, <1>6, <1>7, <1>8, <1>9, PageStep


\* Docker answers what is so then.
LEMMA psLookedKept ==
  ASSUME StatusInv, NEW p \in Pages, view[p].at = "docker",
         view' = [view EXCEPT ![p].at = "looked", ![p].snap.up = [b \in Benches |-> box[b].up]],
         UNCHANGED <<clock, box, job, statusMu, snap, works, held, since>>
  PROVE  StatusInv'
<1> DEFINE sn == [view[p].snap EXCEPT !.up = [b \in Benches |-> box[b].up]]
           v == [view[p] EXCEPT !.at = "looked", !.snap = sn]
<1>0. IsView(view[p])
  BY DEF StatusInv, StatusTypes, IsView
<1>1. view' = [view EXCEPT ![p] = v]
  OBVIOUS
<1>a. sn = [view[p].snap EXCEPT !.up = [b \in Benches |-> box[b].up]]
  OBVIOUS
<1>b. v = [view[p] EXCEPT !.at = "looked", !.snap = sn]
  OBVIOUS
<1> HIDE DEF sn, v
<1>c. view[p].snap \in Answers /\ \A b \in Benches : box[b] \in BenchStates
  BY DEF StatusInv, StatusTypes
<1>2. v = [at |-> "looked", list |-> view[p].list, asked |-> view[p].asked, snap |-> sn,
           shown |-> view[p].shown, may |-> view[p].may]
  BY <1>0, <1>b DEF IsView
<1>3. /\ v.at = "looked" /\ v.list = view[p].list /\ v.asked = view[p].asked
      /\ v.snap = sn /\ v.may = view[p].may
  BY <1>2
<1>d. /\ sn \in Answers /\ sn.fresh = view[p].snap.fresh /\ sn.at = view[p].snap.at
      /\ sn.failed = view[p].snap.failed /\ sn.up = [b \in Benches |-> box[b].up]
  BY <1>a, <1>c DEF Answers, BenchStates
<1>4. IsView(v)
  BY <1>0, <1>2, <1>d DEF IsView
<1>e. \A b \in Benches : Told(sn, b) = Now(b) /\ Now(b) \in Says(box[b])
  BY <1>c, <1>d, SaysWords DEF Told, Now
<1>f. sn.fresh /\ ~sn.failed /\ sn.at \in 1..clock
  BY <1>d DEF StatusInv, Holding
<1>5. \A b \in Benches : Covered(v, b)
  BY <1>3, <1>e, <1>f DEF StatusInv, Covered
<1>6. Good(sn)
  <2>1. \A b \in Benches : \A q \in Pages : view[q].at \in {"listed", "asked"} => Now(b) \in view[q].may[b]
    BY <1>e DEF StatusInv, Covered
  <2>2. \A b \in Benches : held[b][Now(b)] = clock /\ (job = "dropped" => Now(b) \in since[b])
    BY DEF StatusInv, Remembered
  <2> QED
    BY <1>e, <1>f, <2>1, <2>2 DEF Good
<1>8. statusMu = p
  BY DEF StatusInv, Holding
<1>9. snap \in Answers
  BY DEF StatusInv, StatusTypes
<1> QED
  BY <1>1, <1>3, <1>4, <1>5, <1>6, <1>8, <1>9, PageStep

\* Docker fails: the page may say so.
LEMMA psFailedKept ==
  ASSUME StatusInv, NEW p \in Pages, view[p].at = "docker",
         view' = [view EXCEPT ![p].at = "looked", ![p].snap.failed = TRUE,
                              ![p].may = [b \in Benches |-> @[b] \cup {"unknown"}]],
         UNCHANGED <<clock, box, job, statusMu, snap, works, held, since>>
  PROVE  StatusInv'
<1> DEFINE sn == [view[p].snap EXCEPT !.failed = TRUE]
           may == [b \in Benches |-> view[p].may[b] \cup {"unknown"}]
           v == [view[p] EXCEPT !.at = "looked", !.snap = sn, !.may = may]
<1>0. IsView(view[p])
  BY DEF StatusInv, StatusTypes, IsView
<1>1. view' = [view EXCEPT ![p] = v]
  OBVIOUS
<1>a. sn = [view[p].snap EXCEPT !.failed = TRUE]
  OBVIOUS
<1>g. may = [b \in Benches |-> view[p].may[b] \cup {"unknown"}]
  OBVIOUS
<1>b. v = [view[p] EXCEPT !.at = "looked", !.snap = sn, !.may = may]
  OBVIOUS
<1> HIDE DEF sn, may, v
<1>2. v = [at |-> "looked", list |-> view[p].list, asked |-> view[p].asked, snap |-> sn,
           shown |-> view[p].shown, may |-> may]
  BY <1>0, <1>b DEF IsView
<1>3. /\ v.at = "looked" /\ v.list = view[p].list /\ v.asked = view[p].asked
      /\ v.snap = sn /\ v.may = may
  BY <1>2
<1>d. sn \in Answers /\ sn.failed
  BY <1>0, <1>a DEF Answers, IsView
<1>4. IsView(v)
  BY <1>0, <1>2, <1>d, <1>g DEF IsView, Words
<1>5. \A b \in Benches : Covered(v, b)
  BY <1>3, <1>d, <1>g DEF StatusInv, Covered
<1>8. statusMu = p
  BY DEF StatusInv, Holding
<1>9. snap \in Answers
  BY DEF StatusInv, StatusTypes
<1> QED
  BY <1>1, <1>3, <1>4, <1>5, <1>8, <1>9, <1>d, PageStep

\* The answer is kept for others.
LEMMA psKeepKept ==
  ASSUME StatusInv, NEW p \in Pages, psKeep(p)
  PROVE  StatusInv'
<1> DEFINE v == [view[p] EXCEPT !.at = "answered"]
<1>0. IsView(view[p])
  BY DEF StatusInv, StatusTypes, IsView
<1>1. view' = [view EXCEPT ![p] = v]
  BY DEF psKeep
<1>a. v = [view[p] EXCEPT !.at = "answered"]
  OBVIOUS
<1> HIDE DEF v
<1>2. v = [at |-> "answered", list |-> view[p].list, asked |-> view[p].asked, snap |-> view[p].snap,
           shown |-> view[p].shown, may |-> view[p].may]
  BY <1>0, <1>a DEF IsView
<1>3. /\ v.at = "answered" /\ v.list = view[p].list /\ v.asked = view[p].asked
      /\ v.snap = view[p].snap /\ v.may = view[p].may
  BY <1>2
<1>4. IsView(v)
  BY <1>0, <1>2 DEF IsView
<1>5. \A b \in Benches : Covered(v, b)
  BY <1>3 DEF StatusInv, Covered, psKeep
<1>7. statusMu = p /\ statusMu' = Nobody /\ UNCHANGED <<clock, box, job, held, since>>
  BY DEF psKeep, StatusInv, Holding
<1>8. \A q \in Pages \ {p} : (statusMu' = q <=> statusMu = q)
  BY <1>7, StatusAssumption
<1>c. statusMu' # p
  BY <1>7, StatusAssumption
<1>9. snap' \in Answers /\ (snap'.fresh => snap' = snap \/ Good(snap'))
  BY DEF StatusInv, StatusTypes, Holding, psKeep
<1> QED
  BY <1>1, <1>3, <1>4, <1>5, <1>7, <1>8, <1>9, <1>c, PageStep

\* The page is shown.
LEMMA ShowKept ==
  ASSUME StatusInv, NEW p \in Pages, Show(p)
  PROVE  StatusInv'
<1> DEFINE shown == [b \in view[p].list |-> IF b \in view[p].asked THEN statusOf(view[p].snap, b) ELSE "none"]
           v == [view[p] EXCEPT !.at = "shown", !.snap = NoSnap, !.asked = {}, !.shown = shown]
<1>0. IsView(view[p])
  BY DEF StatusInv, StatusTypes, IsView
<1>1. view' = [view EXCEPT ![p] = v]
  BY DEF Show
<1>a. v = [view[p] EXCEPT !.at = "shown", !.snap = NoSnap, !.asked = {}, !.shown = shown]
  OBVIOUS
<1>b. shown = [b \in view[p].list |-> IF b \in view[p].asked THEN statusOf(view[p].snap, b) ELSE "none"]
  OBVIOUS
<1> HIDE DEF v, shown
<1>2. v = [at |-> "shown", list |-> view[p].list, asked |-> {}, snap |-> NoSnap,
           shown |-> shown, may |-> view[p].may]
  BY <1>0, <1>a DEF IsView
<1>3. /\ v.at = "shown" /\ v.list = view[p].list /\ v.shown = shown /\ v.may = view[p].may
  BY <1>2
<1>c. NoSnap \in Answers
  BY DEF NoSnap, Answers
<1>4. IsView(v)
  BY <1>0, <1>2, <1>c DEF IsView
<1>5. ASSUME NEW b \in Benches PROVE Covered(v, b)
  <2>1. Covered(view[p], b) /\ view[p].at = "answered"
    BY DEF StatusInv, Show
  <2>2. ~box[b].file => "unknown" \in Says(box[b])
    BY SaysWords DEF StatusInv, StatusTypes
  <2>3. view[p].at # "idle"
    BY <2>1
  <2>4. ASSUME b \in view[p].list PROVE shown[b] \in view[p].may[b]
    <3>1. CASE b \notin view[p].asked
      BY <1>b, <2>1, <2>4, <3>1 DEF Covered
    <3>2. CASE b \in view[p].asked
      <4>1. shown[b] = statusOf(view[p].snap, b)
        BY <1>b, <2>4, <3>2
      <4> QED
        BY <2>1, <2>2, <2>3, <4>1 DEF Covered, statusOf, Told
    <3> QED
      BY <3>1, <3>2
  <2> QED
    BY <1>3, <2>1, <2>4 DEF Covered
<1>7. ~(view[p].at \in {"docker", "looked"}) /\ UNCHANGED <<statusMu, snap, clock, box, job, held, since>>
  BY DEF Show
<1>8. statusMu # p
  BY <1>7 DEF StatusInv, Holding
<1>9. snap \in Answers
  BY DEF StatusInv, StatusTypes
<1> QED
  BY <1>1, <1>3, <1>4, <1>5, <1>7, <1>8, <1>9, PageStep

\* The page is left.
LEMMA LeaveKept ==
  ASSUME StatusInv, NEW p \in Pages, Leave(p)
  PROVE  StatusInv'
<1>1. view' = [view EXCEPT ![p] = NoView]
  BY DEF Leave
<1>2. NoView.at = "idle"
  BY DEF NoView
<1>3. NoSnap \in Answers
  BY DEF NoSnap, Answers
<1>4. IsView(NoView)
  BY <1>3 DEF IsView, NoView
<1>5. \A b \in Benches : Covered(NoView, b)
  BY <1>2 DEF Covered
<1>7. ~(view[p].at \in {"docker", "looked"}) /\ UNCHANGED <<statusMu, snap, clock, box, job, held, since>>
  BY DEF Leave
<1>8. statusMu # p
  BY <1>7 DEF StatusInv, Holding
<1>9. snap \in Answers
  BY DEF StatusInv, StatusTypes
<1> QED
  BY <1>1, <1>2, <1>4, <1>5, <1>7, <1>8, <1>9, PageStep


\* The two ends of docker's answer.
LEMMA psLookKept ==
  ASSUME StatusInv, NEW p \in Pages, psLook(p)
  PROVE  StatusInv'
BY psLookedKept, psFailedKept DEF psLook

\* A step of the world about the pages: what may be said of a bench only grows.
LEMMA WorldStep ==
  ASSUME StatusInv, StatusTypes', Remembered', UNCHANGED <<statusMu, snap>>,
         clock \in Nat, clock' \in Nat, clock <= clock',
         \A p \in Pages :
           /\ view'[p].at = view[p].at /\ view'[p].list = view[p].list /\ view'[p].asked = view[p].asked
           /\ view'[p].snap = view[p].snap /\ view'[p].shown = view[p].shown
           /\ \A b \in Benches : view[p].may[b] \subseteq view'[p].may[b],
         \A p \in Pages, b \in Benches : view[p].at # "idle" => Says(box'[b]) \subseteq view'[p].may[b],
         \A sn : Good(sn) => \A b \in Benches :
           sn.at <= held'[b][Told(sn, b)] /\ (job' = "dropped" => Told(sn, b) \in since'[b])
  PROVE  StatusInv'
<1>1. TTL \in Nat
  BY StatusAssumption
<1>2. \A sn : Good(sn) =>
        /\ sn.fresh /\ ~sn.failed /\ sn.at \in 1..clock'
        /\ \A b \in Benches :
             /\ sn.at <= held'[b][Told(sn, b)]
             /\ job' = "dropped" => Told(sn, b) \in since'[b]
             /\ \A q \in Pages : view'[q].at \in {"listed", "asked"} =>
                  Told(sn, b) \in view'[q].may[b] \/ clock' - sn.at >= TTL
  <2> SUFFICES ASSUME NEW sn, Good(sn)
               PROVE  /\ sn.fresh /\ ~sn.failed /\ sn.at \in 1..clock'
                      /\ \A b \in Benches, q \in Pages : view'[q].at \in {"listed", "asked"} =>
                           Told(sn, b) \in view'[q].may[b] \/ clock' - sn.at >= TTL
    OBVIOUS
  <2>1. sn.fresh /\ ~sn.failed /\ sn.at \in 1..clock
    BY DEF Good
  <2>2. sn.at \in 1..clock' /\ (clock - sn.at >= TTL => clock' - sn.at >= TTL)
    BY <1>1, <2>1
  <2> QED
    BY <2>1, <2>2 DEF Good
<1>3. Holding'
  <2>1. ASSUME NEW q \in Pages
        PROVE  /\ view'[q].at \in {"docker", "looked"} <=> statusMu' = q
               /\ view'[q].at = "docker" => /\ view'[q].snap.fresh /\ ~view'[q].snap.failed
                                            /\ view'[q].snap.at \in 1..clock'
               /\ view'[q].at = "looked" /\ ~view'[q].snap.failed => Good(view'[q].snap)
    <3>1. /\ view[q].at \in {"docker", "looked"} <=> statusMu = q
          /\ view[q].at = "docker" => view[q].snap.fresh /\ ~view[q].snap.failed /\ view[q].snap.at \in 1..clock
          /\ view[q].at = "looked" /\ ~view[q].snap.failed => Good(view[q].snap)
      BY DEF StatusInv, Holding
    <3>2. 1..clock \subseteq 1..clock'
      OBVIOUS
    <3> QED
      BY <3>1, <3>2
  <2> QED
    BY <1>2, <2>1 DEF Holding, Good, Told
<1>4. snap'.fresh => Good(snap)'
  <2>1. snap'.fresh => Good(snap')
    BY DEF StatusInv
  <2> QED
    BY <1>2, <2>1 DEF Good, Told
<1>5. ASSUME NEW p \in Pages, NEW b \in Benches
      PROVE  Covered(view[p], b)'
  <2>1. Covered(view[p], b)
    BY DEF StatusInv
  <2>2. ~box'[b].recorded => "none" \in Says(box'[b])
    BY SaysWords DEF StatusTypes
  <2>3. Says(box[b])' = Says(box'[b])
    BY DEF Says, benchStatus
  <2> QED
    BY <2>1, <2>2, <2>3 DEF Covered, Told
<1> QED
  BY <1>3, <1>4, <1>5 DEF StatusInv


\* A job begins.
LEMMA JobStartsKept == ASSUME StatusInv, JobStarts PROVE StatusInv'
<1>1. StatusTypes' /\ Remembered'
  BY DEF StatusInv, StatusTypes, Remembered, JobStarts, Now
<1>2. clock \in Nat /\ \A p \in Pages, b \in Benches : view[p].at # "idle" => Says(box[b]) \subseteq view[p].may[b]
  BY DEF StatusInv, StatusTypes, Covered
<1> QED
  BY <1>1, <1>2, WorldStep DEF JobStarts, Good

\* A job's work is over: what is so then is what may be remembered of it.
LEMMA WorkOverKept == ASSUME StatusInv, WorkOver PROVE StatusInv'
<1>1. clock \in Nat /\ clock # 0
      /\ \A p \in Pages, b \in Benches : view[p].at # "idle" => Says(box[b]) \subseteq view[p].may[b]
  BY DEF StatusInv, StatusTypes, Covered
<1>2. StatusTypes'
  <2>1. \A b \in Benches : benchStatus(box[b].up) \in Statuses
    BY SaysWords DEF StatusInv, StatusTypes
  <2> QED
    BY <2>1 DEF StatusInv, StatusTypes, WorkOver
<1>3. Remembered'
  BY <1>1 DEF StatusInv, Remembered, WorkOver, Now
<1> QED
  BY <1>1, <1>2, <1>3, WorldStep DEF WorkOver, Good

\* A job is shown as over: an answer kept since was asked after its work.
LEMMA JobShownKept == ASSUME StatusInv, JobShown PROVE StatusInv'
<1>1. clock \in Nat /\ clock # 0
      /\ \A p \in Pages, b \in Benches : view[p].at # "idle" => Says(box[b]) \subseteq view[p].may[b]
  BY DEF StatusInv, StatusTypes, Covered
<1>2. StatusTypes'
  BY DEF StatusInv, StatusTypes, JobShown
<1>3. \A b \in Benches : Now(b) \in Statuses /\ Now(b) \in since[b] /\ Now(b)' = Now(b)
  BY SaysWords DEF StatusInv, StatusTypes, Remembered, JobShown, Now
<1>4. Remembered'
  <2> SUFFICES ASSUME NEW b \in Benches
               PROVE  /\ held'[b][Now(b)] = clock
                      /\ \A s \in Statuses : held'[b][s] <= clock
    BY <1>3 DEF Remembered, JobShown, Now
  <2>1. held'[b] = [s \in Statuses |-> IF s \in since[b] THEN held[b][s] ELSE 0]
    BY DEF JobShown
  <2>2. held[b][Now(b)] = clock /\ \A s \in Statuses : held[b][s] <= clock
    BY DEF StatusInv, Remembered
  <2> QED
    BY <1>1, <1>3, <2>1, <2>2
<1>5. ASSUME NEW sn, Good(sn), NEW b \in Benches
      PROVE  sn.at <= held'[b][Told(sn, b)]
  <2>1. Told(sn, b) \in Statuses /\ Told(sn, b) \in since[b] /\ sn.at <= held[b][Told(sn, b)]
    BY <1>5 DEF Good, JobShown, Told, benchStatus, Statuses
  <2> QED
    BY <2>1 DEF JobShown
<1>6. job' = "none" /\ UNCHANGED <<clock, box, statusMu, snap, view>>
  BY DEF JobShown
<1>7. clock <= clock' /\ clock' \in Nat
  BY <1>1, <1>6
<1> QED
  BY <1>1, <1>2, <1>4, <1>5, <1>6, <1>7, WorldStep

\* Time passes: an answer only gets older.
LEMMA TickKept == ASSUME StatusInv, Tick PROVE StatusInv'
<1>1. clock \in Nat /\ held \in [Benches -> [Statuses -> Nat]]
      /\ \A p \in Pages, b \in Benches : view[p].at # "idle" => Says(box[b]) \subseteq view[p].may[b]
  BY DEF StatusInv, StatusTypes, Covered
<1>2. \A b \in Benches : Now(b) \in Statuses /\ Now(b)' = Now(b)
  BY SaysWords DEF StatusInv, StatusTypes, Tick, Now
<1>3. \A b \in Benches, s \in Statuses : held'[b][s] = IF s = Now(b) THEN clock + 1 ELSE held[b][s]
  BY <1>1 DEF Tick, Now
<1>4. held' \in [Benches -> [Statuses -> Nat]]
  <2>1. \A b \in Benches : [held[b] EXCEPT ![benchStatus(box[b].up)] = clock + 1] \in [Statuses -> Nat]
    <3>1. \A f \in [Statuses -> Nat], n \in Nat : \A s : [f EXCEPT ![s] = n] \in [Statuses -> Nat]
      OBVIOUS
    <3>2. clock + 1 \in Nat /\ \A b \in Benches : held[b] \in [Statuses -> Nat]
      BY <1>1
    <3> QED
      BY <3>1, <3>2
  <2> QED
    BY <2>1 DEF Tick
<1>5. StatusTypes'
  BY <1>1, <1>4 DEF StatusInv, StatusTypes, Tick
<1>6. \A b \in Benches : held[b][Now(b)] = clock /\ \A s \in Statuses : held[b][s] <= clock
  BY DEF StatusInv, Remembered
<1>7. Remembered'
  <2>1. \A b \in Benches : \A s \in Statuses : held'[b][s] <= clock'
    BY <1>1, <1>3, <1>6 DEF Tick
  <2>2. \A b \in Benches : held'[b][Now(b)] = clock'
    BY <1>2, <1>3 DEF Tick
  <2>3. \A b \in Benches : /\ job \in {"over", "dropped"} => Now(b) \in since[b]
                           /\ \A s \in since[b] : s \in Statuses /\ held[b][s] # 0
    BY DEF StatusInv, Remembered, StatusTypes
  <2>4. \A b \in Benches : \A s \in since[b] : held'[b][s] # 0
    BY <1>1, <1>3, <2>3
  <2> QED
    BY <1>2, <2>1, <2>2, <2>3, <2>4 DEF Remembered, Tick
<1>8. ASSUME NEW sn, Good(sn), NEW b \in Benches
      PROVE  sn.at <= held'[b][Told(sn, b)] /\ (job' = "dropped" => Told(sn, b) \in since'[b])
  <2>1. Told(sn, b) \in Statuses /\ sn.at \in 1..clock /\ sn.at <= held[b][Told(sn, b)]
    BY <1>8 DEF Good, Told, benchStatus, Statuses
  <2>2. sn.at <= held'[b][Told(sn, b)]
    BY <1>1, <1>3, <2>1
  <2> QED
    BY <1>8, <2>2 DEF Good, Tick
<1>9. clock' \in Nat /\ clock <= clock' /\ UNCHANGED <<box, statusMu, snap, view>>
  BY <1>1 DEF Tick
<1> QED
  BY <1>1, <1>5, <1>7, <1>8, <1>9, WorldStep


\* A bench changes.
LEMMA ChangeBenchKept == ASSUME StatusInv, ChangeBench PROVE StatusInv'
<1>1. PICK b0 \in Benches, w \in BenchStates :
        /\ box' = [box EXCEPT ![b0] = w]
        /\ held' = [held EXCEPT ![b0] = [held[b0] EXCEPT ![benchStatus(box[b0].up)] = clock, ![benchStatus(w.up)] = clock]]
        /\ since' = IF job \in {"over", "dropped"} THEN [since EXCEPT ![b0] = since[b0] \cup {benchStatus(w.up)}] ELSE since
        /\ view' = [p \in Pages |->
             IF view[p].at = "idle" THEN view[p] ELSE [view[p] EXCEPT !.may[b0] = view[p].may[b0] \cup Says(w)]]
  BY DEF ChangeBench
<1>2. UNCHANGED <<clock, job, statusMu, snap>>
  BY DEF ChangeBench
<1> DEFINE s0 == benchStatus(box[b0].up)
           s1 == benchStatus(w.up)
<1>3. /\ clock \in Nat /\ clock # 0 /\ box \in [Benches -> BenchStates]
      /\ held \in [Benches -> [Statuses -> Nat]] /\ since \in [Benches -> SUBSET Statuses]
  BY DEF StatusInv, StatusTypes
<1>4. s0 \in Statuses /\ s1 \in Statuses /\ s1 \in Says(w) /\ Says(w) \subseteq Words
  BY <1>3, SaysWords
<1>a. \A b \in Benches : box'[b] = IF b = b0 THEN w ELSE box[b]
  BY <1>1, <1>3
<1>b. \A b \in Benches : Now(b) \in Statuses /\ Now(b)' = IF b = b0 THEN s1 ELSE Now(b)
  BY <1>3, <1>a, SaysWords DEF Now
<1>c. /\ held'[b0] = [held[b0] EXCEPT ![s0] = clock, ![s1] = clock]
      /\ \A b \in Benches \ {b0} : held'[b] = held[b]
  BY <1>1, <1>3
<1>d. \A b \in Benches, s \in Statuses :
        held'[b][s] = IF b = b0 /\ s \in {s0, s1} THEN clock ELSE held[b][s]
  <2>1. \A s \in Statuses : held'[b0][s] = IF s \in {s0, s1} THEN clock ELSE held[b0][s]
    BY <1>3, <1>4, <1>c
  <2> QED
    BY <1>c, <2>1
<1>e. held' \in [Benches -> [Statuses -> Nat]]
  <2>1. [held[b0] EXCEPT ![s0] = clock, ![s1] = clock] \in [Statuses -> Nat]
    BY <1>3, <1>4
  <2> QED
    BY <1>1, <1>3, <2>1
<1> HIDE DEF s0, s1
<1>f. since' \in [Benches -> SUBSET Statuses]
  BY <1>1, <1>3, <1>4 DEF s1
<1>g. \A b \in Benches : since'[b] = IF b = b0 /\ job \in {"over", "dropped"} THEN since[b] \cup {s1} ELSE since[b]
  BY <1>1, <1>3 DEF s1
<1>5. ASSUME NEW p \in Pages
      PROVE  /\ view'[p] = [at |-> view'[p].at, list |-> view'[p].list, asked |-> view'[p].asked, snap |-> view'[p].snap,
                            shown |-> view'[p].shown, may |-> view'[p].may]
             /\ view'[p].at = view[p].at /\ view'[p].list = view[p].list /\ view'[p].asked = view[p].asked
             /\ view'[p].snap = view[p].snap /\ view'[p].shown = view[p].shown
             /\ view'[p].may = IF view[p].at = "idle" THEN view[p].may
                               ELSE [view[p].may EXCEPT ![b0] = view[p].may[b0] \cup Says(w)]
  <2>1. IsView(view[p])
    BY DEF StatusInv, StatusTypes, IsView
  <2>2. CASE view[p].at = "idle"
    BY <1>1, <2>1, <2>2 DEF IsView
  <2>3. CASE view[p].at # "idle"
    <3> DEFINE v == [view[p] EXCEPT !.may = [view[p].may EXCEPT ![b0] = view[p].may[b0] \cup Says(w)]]
               may == [view[p].may EXCEPT ![b0] = view[p].may[b0] \cup Says(w)]
    <3>1. view'[p] = v
      BY <1>1, <2>3
    <3>2. v = [view[p] EXCEPT !.may = may]
      OBVIOUS
    <3> HIDE DEF v, may
    <3>3. v = [at |-> view[p].at, list |-> view[p].list, asked |-> view[p].asked, snap |-> view[p].snap,
               shown |-> view[p].shown, may |-> may]
      BY <2>1, <3>2 DEF IsView
    <3> QED
      BY <2>3, <3>1, <3>3 DEF may
  <2> QED
    BY <2>2, <2>3
<1>6. ASSUME NEW p \in Pages
      PROVE  /\ view'[p].may \in [Benches -> SUBSET Words]
             /\ \A b \in Benches : view[p].may[b] \subseteq view'[p].may[b]
             /\ view[p].at # "idle" => Says(w) \subseteq view'[p].may[b0]
  <2> DEFINE m == view[p].may
             n == view'[p].may
  <2>1. m \in [Benches -> SUBSET Words]
    BY DEF StatusInv, StatusTypes
  <2>2. n = IF view[p].at = "idle" THEN m ELSE [m EXCEPT ![b0] = m[b0] \cup Says(w)]
    BY <1>5
  <2> HIDE DEF m, n
  <2>3. n \in [Benches -> SUBSET Words]
    BY <1>4, <2>1, <2>2
  <2>4. \A b \in Benches : m[b] \subseteq n[b]
    BY <2>1, <2>2
  <2>5. view[p].at # "idle" => Says(w) \subseteq n[b0]
    BY <2>1, <2>2
  <2> QED
    BY <2>3, <2>4, <2>5 DEF m, n
<1>7. StatusTypes'
  <2>1. box' \in [Benches -> BenchStates]
    BY <1>1, <1>3
  <2>2. view' = [p \in Pages |-> view'[p]]
    BY <1>1
  <2>3. \A p \in Pages :
          /\ view[p].at \in {"idle", "listed", "asked", "docker", "looked", "answered", "shown"}
          /\ view[p].list \subseteq Benches
          /\ view[p].snap \in Answers
    BY DEF StatusInv, StatusTypes
  <2>4. job \in {"none", "runs", "over", "dropped"} /\ snap \in Answers
    BY DEF StatusInv, StatusTypes
  <2> QED
    BY <1>2, <1>3, <1>5, <1>6, <1>e, <1>f, <2>1, <2>2, <2>3, <2>4 DEF StatusTypes
<1>8. Remembered'
  <2> SUFFICES ASSUME NEW b \in Benches
               PROVE  /\ held'[b][Now(b)'] = clock
                      /\ \A s \in Statuses : held'[b][s] <= clock
                      /\ job \in {"over", "dropped"} => Now(b)' \in since'[b]
                      /\ \A s \in since'[b] : held'[b][s] # 0
    BY <1>2 DEF Remembered, Now
  <2>1. /\ held[b][Now(b)] = clock
        /\ \A s \in Statuses : held[b][s] <= clock
        /\ job \in {"over", "dropped"} => Now(b) \in since[b]
        /\ \A s \in since[b] : held[b][s] # 0
    BY DEF StatusInv, Remembered
  <2>2. held'[b][Now(b)'] = clock
    BY <1>4, <1>b, <1>d, <2>1
  <2>3. \A s \in Statuses : held'[b][s] <= clock
    BY <1>3, <1>d, <2>1
  <2>4. job \in {"over", "dropped"} => Now(b)' \in since'[b]
    BY <1>b, <1>g, <2>1
  <2>5. \A s \in since'[b] : held'[b][s] # 0
    <3> SUFFICES ASSUME NEW s \in since'[b] PROVE held'[b][s] # 0
      OBVIOUS
    <3>1. s \in Statuses
      BY <1>f
    <3>2. CASE b = b0 /\ s \in {s0, s1}
      BY <1>3, <1>d, <3>1, <3>2
    <3>3. CASE ~(b = b0 /\ s \in {s0, s1})
      BY <1>d, <1>g, <2>1, <3>1, <3>3
    <3> QED
      BY <3>2, <3>3
  <2> QED
    BY <2>2, <2>3, <2>4, <2>5
<1>9. \A p \in Pages, b \in Benches : view[p].at # "idle" => Says(box'[b]) \subseteq view'[p].may[b]
  <2>1. \A p \in Pages, b \in Benches : view[p].at # "idle" => Says(box[b]) \subseteq view[p].may[b]
    BY DEF StatusInv, Covered
  <2> QED
    BY <1>6, <1>a, <2>1
<1>h. ASSUME NEW sn, Good(sn), NEW b \in Benches
      PROVE  sn.at <= held'[b][Told(sn, b)] /\ (job' = "dropped" => Told(sn, b) \in since'[b])
  <2>1. /\ Told(sn, b) \in Statuses /\ sn.at \in 1..clock /\ sn.at <= held[b][Told(sn, b)]
        /\ job = "dropped" => Told(sn, b) \in since[b]
    BY <1>h DEF Good, Told, benchStatus, Statuses
  <2>2. sn.at <= held'[b][Told(sn, b)]
    BY <1>3, <1>d, <2>1
  <2> QED
    BY <1>2, <1>g, <2>1, <2>2
<1>i. clock \in Nat /\ clock' \in Nat /\ clock <= clock'
  BY <1>2, <1>3
<1> QED
  BY <1>2, <1>5, <1>6, <1>7, <1>8, <1>9, <1>h, <1>i, WorldStep

\* The answer is dropped, with nobody about to keep another: the mutex is free.
LEMMA InvalidateStatusKept == ASSUME StatusInv, InvalidateStatus PROVE StatusInv'
<1>1. statusMu = Nobody /\ snap' = NoSnap /\ UNCHANGED <<clock, box, statusMu, view, held, since>>
  BY DEF InvalidateStatus
<1>2. NoSnap \in Answers /\ ~NoSnap.fresh
  BY DEF NoSnap, Answers
<1>3. \A p \in Pages : statusMu # p
  BY <1>1, StatusAssumption
<1>4. StatusTypes'
  BY <1>1, <1>2 DEF StatusInv, StatusTypes, InvalidateStatus
<1>5. Remembered'
  BY <1>1 DEF StatusInv, Remembered, InvalidateStatus, Now
<1>6. Holding'
  BY <1>1, <1>3 DEF StatusInv, Holding
<1>7. \A p \in Pages, b \in Benches : Covered(view[p], b)'
  BY <1>1 DEF StatusInv, Covered, Told
<1> QED
  BY <1>1, <1>2, <1>4, <1>5, <1>6, <1>7 DEF StatusInv

\* At the start nothing is kept and no page is under way.
LEMMA StatusBegins == ASSUME StatusInit PROVE StatusInv
<1>1. /\ \A b \in Benches : box[b] \in BenchStates /\ box[b].up = {}
      /\ box \in [Benches -> BenchStates]
  BY DEF StatusInit
<1>2. benchStatus({}) = "stopped"
  BY DEF benchStatus
<1>3. NoSnap \in Answers /\ ~NoSnap.fresh
  BY DEF NoSnap, Answers
<1>4. IsView(NoView) /\ NoView.at = "idle"
  BY <1>3 DEF IsView, NoView
<1>5. StatusTypes
  <2>1. held \in [Benches -> [Statuses -> Nat]] /\ since \in [Benches -> SUBSET Statuses]
    BY DEF StatusInit
  <2> QED
    BY <1>1, <1>3, <1>4, <2>1 DEF StatusInit, StatusTypes, IsView
<1>6. Remembered
  <2> SUFFICES ASSUME NEW b \in Benches
               PROVE  held[b][Now(b)] = clock /\ \A s \in Statuses : held[b][s] <= clock
    BY DEF StatusInit, Remembered
  <2>1. Now(b) = "stopped" /\ "stopped" \in Statuses
    BY <1>1, <1>2 DEF Now, Statuses
  <2>2. clock = 1 /\ \A s \in Statuses : held[b][s] = IF s = "stopped" THEN 1 ELSE 0
    BY DEF StatusInit
  <2> QED
    BY <2>1, <2>2
<1>7. Holding
  BY <1>4, StatusAssumption DEF StatusInit, Holding
<1>8. \A p \in Pages, b \in Benches : Covered(view[p], b)
  BY <1>4 DEF StatusInit, Covered
<1> QED
  BY <1>3, <1>5, <1>6, <1>7, <1>8 DEF StatusInv, StatusInit

\* Each status on a page is one its bench had since the TTL before the page was
\* asked for, and since the work of the last job shown as over by then, however
\* many pages, jobs and terminals there are: psSnapshot gives an answer to others
\* only while it holds for them, and invalidateStatus waits for the call under way.
THEOREM PagesFresh == StatusSpec => []PageFresh
<1>1. StatusInit => StatusInv
  BY StatusBegins
<1>2. StatusInv /\ [StatusNext]_status => StatusInv'
  <2> SUFFICES ASSUME StatusInv, [StatusNext]_status PROVE StatusInv'
    OBVIOUS
  <2>1. CASE ChangeBench
    BY <2>1, ChangeBenchKept
  <2>2. CASE JobStarts
    BY <2>2, JobStartsKept
  <2>3. CASE WorkOver
    BY <2>3, WorkOverKept
  <2>4. CASE InvalidateStatus
    BY <2>4, InvalidateStatusKept
  <2>5. CASE JobShown
    BY <2>5, JobShownKept
  <2>6. CASE Tick
    BY <2>6, TickKept
  <2>7. ASSUME NEW p \in Pages,
               List(p) \/ StatusAll(p) \/ psReuse(p) \/ psAsk(p) \/ psLook(p) \/ psKeep(p) \/ Show(p) \/ Leave(p)
        PROVE  StatusInv'
    BY <2>7, ListKept, StatusAllKept, psReuseKept, psAskKept, psLookKept, psKeepKept, ShowKept, LeaveKept
  <2>8. CASE UNCHANGED status
    BY <2>8 DEF status, StatusInv, StatusTypes, Remembered, Holding, Good, Covered, Now, Told, Says
  <2> QED
    BY <2>1, <2>2, <2>3, <2>4, <2>5, <2>6, <2>7, <2>8 DEF StatusNext
<1>3. StatusInv => PageFresh
  BY DEF StatusInv, StatusTypes, Covered, PageFresh
<1> QED
  BY <1>1, <1>2, <1>3, PTL DEF StatusSpec

-----------------------------------------------------------------------------
(* The limiter of logins: dropping old failures *)

\* Every non-empty set of natural numbers has a least element.
LEMMA LeastNumber ==
  ASSUME NEW T \in SUBSET Nat, T # {}
  PROVE  \E x \in T : \A y \in T : x <= y
<1>1. IsWellFoundedOn(OpToRel(<, Nat), Nat)
  BY NatLessThanWellFounded
<1>2. PICK x \in T : \A y \in T : ~(<<y, x>> \in OpToRel(<, Nat))
  BY <1>1, WFMin, Zenon
<1>3. \A y \in T : ~(y < x)
  BY <1>2 DEF OpToRel
<1> QED
  BY <1>3

\* The first n of the failures are old, and no more of them in a row.
FirstOld(ts, at, n) ==
  /\ \A i \in 1..n : at - ts[i] >= Window
  /\ n < Len(ts) => at - ts[n + 1] < Window

\* The old failures at the head can be counted.
LEMMA OldIs ==
  ASSUME NEW ts \in Seq(Nat), NEW at \in Nat
  PROVE  Old(ts, at) \in 0..Len(ts) /\ FirstOld(ts, at, Old(ts, at))
<1> DEFINE Young == {i \in 1..Len(ts) : at - ts[i] < Window}
<1>0. /\ Window \in Nat /\ Len(ts) \in Nat
      /\ \A i \in 1..Len(ts) : ts[i] \in Nat
  BY ElementOfSeq, LenProperties, LimiterAssumption
<1>1. \E n \in 0..Len(ts) : FirstOld(ts, at, n)
  <2>1. CASE Young = {}
    <3>1. \A i \in 1..Len(ts) : ~(at - ts[i] < Window)
      BY <2>1
    <3>2. FirstOld(ts, at, Len(ts)) /\ Len(ts) \in 0..Len(ts)
      BY <3>1, <1>0 DEF FirstOld
    <3> QED
      BY <3>2
  <2>2. CASE Young # {}
    <3>1. Young \in SUBSET Nat
      BY <1>0
    <3>2. PICK x \in Young : \A y \in Young : x <= y
      BY <3>1, <2>2, LeastNumber
    <3>3. x \in 1..Len(ts) /\ at - ts[x] < Window
      BY <3>2
    <3>4. ASSUME NEW i \in 1..(x - 1)
          PROVE  at - ts[i] >= Window
      <4>1. i \in 1..Len(ts) /\ i < x
        BY <3>3, <1>0
      <4>2. i \notin Young
        BY <4>1, <3>2, <3>3, <1>0
      <4> QED
        BY <4>1, <4>2, <1>0
    <3>5. x - 1 \in 0..Len(ts) /\ FirstOld(ts, at, x - 1)
      BY <3>3, <3>4, <1>0 DEF FirstOld
    <3> QED
      BY <3>5
  <2> QED
    BY <2>1, <2>2
<1>2. Old(ts, at) = CHOOSE n \in 0..Len(ts) : FirstOld(ts, at, n)
  BY DEF Old, FirstOld
<1> QED
  BY <1>1, <1>2

\* There is one such number.
LEMMA OldUnique ==
  ASSUME NEW ts \in Seq(Nat), NEW at \in Nat, NEW n \in 0..Len(ts), FirstOld(ts, at, n)
  PROVE  Old(ts, at) = n
<1> DEFINE o == Old(ts, at)
<1>0. Len(ts) \in Nat /\ \A i \in 1..Len(ts) : ts[i] \in Nat
  BY ElementOfSeq, LenProperties
<1>1. o \in 0..Len(ts) /\ FirstOld(ts, at, o)
  BY OldIs
<1> HIDE DEF o
<1>2. ~(o < n)
  <2> SUFFICES ASSUME o < n PROVE FALSE
    OBVIOUS
  <2>1. o + 1 \in 1..n /\ o < Len(ts)
    BY <1>0, <1>1
  <2> QED
    BY <2>1, <1>0, <1>1, LimiterAssumption DEF FirstOld
<1>3. ~(n < o)
  <2> SUFFICES ASSUME n < o PROVE FALSE
    OBVIOUS
  <2>1. n + 1 \in 1..o /\ n < Len(ts)
    BY <1>0, <1>1
  <2> QED
    BY <2>1, <1>0, <1>1, LimiterAssumption DEF FirstOld
<1>4. o = n
  BY <1>0, <1>1, <1>2, <1>3
<1> QED
  BY <1>4 DEF o

\* What is left of the failures are those behind the old ones.
LEMMA PruneIs ==
  ASSUME NEW ts \in Seq(Nat), NEW at \in Nat
  PROVE  /\ prune(ts, at) \in Seq(Nat)
         /\ Len(prune(ts, at)) = Len(ts) - Old(ts, at)
         /\ \A i \in 1..(Len(ts) - Old(ts, at)) : prune(ts, at)[i] = ts[i + Old(ts, at)]
<1> DEFINE o == Old(ts, at)
<1>0. Len(ts) \in Nat /\ \A i \in 1..Len(ts) : ts[i] \in Nat
  BY ElementOfSeq, LenProperties
<1>1. o \in 0..Len(ts)
  BY OldIs
<1> HIDE DEF o
<1>2. /\ o + 1 \in Int /\ Len(ts) \in Int
      /\ \A i \in (o + 1)..Len(ts) : ts[i] \in Nat
  BY <1>0, <1>1
<1> DEFINE p == SubSeq(ts, o + 1, Len(ts))
<1>3. /\ p \in Seq(Nat)
      /\ Len(p) = IF o + 1 <= Len(ts) THEN Len(ts) - (o + 1) + 1 ELSE 0
      /\ \A i \in 1..(Len(ts) - (o + 1) + 1) : p[i] = ts[(o + 1) + i - 1]
  BY <1>2, SubSeqProperties
<1> HIDE DEF p
<1>4. Len(p) = Len(ts) - o
  BY <1>3, <1>0, <1>1
<1>5. \A i \in 1..(Len(ts) - o) : p[i] = ts[i + o]
  <2> SUFFICES ASSUME NEW i \in 1..(Len(ts) - o) PROVE p[i] = ts[i + o]
    OBVIOUS
  <2>1. Len(ts) - (o + 1) + 1 = Len(ts) - o /\ (o + 1) + i - 1 = i + o
    BY <1>0, <1>1
  <2> QED
    BY <2>1, <1>3
<1> QED
  BY <1>3, <1>4, <1>5 DEF p, o, prune

\* Dropping again, at once or later, is as good as dropping then.
LEMMA PruneTwice ==
  ASSUME NEW ts \in Seq(Nat), NEW t \in Nat, NEW u \in Nat, t <= u
  PROVE  /\ prune(prune(ts, t), u) = prune(ts, u)
         /\ Len(prune(ts, u)) <= Len(prune(ts, t))
<1> DEFINE p == prune(ts, t)
           q == prune(p, u)
           m == Old(ts, t)
           k == Old(p, u)
<1>0. Len(ts) \in Nat /\ \A i \in 1..Len(ts) : ts[i] \in Nat
  BY ElementOfSeq, LenProperties
<1>1. m \in 0..Len(ts) /\ FirstOld(ts, t, m)
  BY OldIs
<1>2. /\ p \in Seq(Nat) /\ Len(p) = Len(ts) - m
      /\ \A i \in 1..(Len(ts) - m) : p[i] = ts[i + m]
  BY PruneIs
<1>3. k \in 0..Len(p) /\ FirstOld(p, u, k)
  BY <1>2, OldIs
<1>4. /\ q \in Seq(Nat) /\ Len(q) = Len(p) - k
      /\ \A i \in 1..(Len(p) - k) : q[i] = p[i + k]
  BY <1>2, PruneIs
<1> HIDE DEF p, q, m, k
<1>5. m + k \in 0..Len(ts)
  BY <1>0, <1>1, <1>2, <1>3
<1>6. FirstOld(ts, u, m + k)
  <2>1. ASSUME NEW i \in 1..(m + k)
        PROVE  u - ts[i] >= Window
    <3>1. CASE i <= m
      <4>1. i \in 1..m /\ i \in 1..Len(ts)
        BY <3>1, <1>1, <1>5
      <4> QED
        BY <4>1, <1>0, <1>1, LimiterAssumption DEF FirstOld
    <3>2. CASE i > m
      <4>1. i - m \in 1..k /\ i - m \in 1..(Len(ts) - m) /\ (i - m) + m = i
        BY <3>2, <1>0, <1>1, <1>2, <1>3, <1>5
      <4>2. p[i - m] = ts[i]
        BY <4>1, <1>2
      <4> QED
        BY <4>1, <4>2, <1>3 DEF FirstOld
    <3> QED
      BY <3>1, <3>2, <1>1
  <2>2. ASSUME m + k < Len(ts)
        PROVE  u - ts[m + k + 1] < Window
    <3>1. k < Len(p) /\ k + 1 \in 1..(Len(ts) - m) /\ (k + 1) + m = m + k + 1
      BY <2>2, <1>0, <1>1, <1>2, <1>3
    <3>2. p[k + 1] = ts[m + k + 1]
      BY <3>1, <1>2
    <3> QED
      BY <3>1, <3>2, <1>3 DEF FirstOld
  <2> QED
    BY <2>1, <2>2 DEF FirstOld
<1>7. Old(ts, u) = m + k
  BY <1>5, <1>6, OldUnique
<1> DEFINE r == prune(ts, u)
<1>8. /\ r \in Seq(Nat) /\ Len(r) = Len(ts) - (m + k)
      /\ \A i \in 1..(Len(ts) - (m + k)) : r[i] = ts[i + (m + k)]
  <2>1. /\ r \in Seq(Nat) /\ Len(r) = Len(ts) - Old(ts, u)
        /\ \A i \in 1..(Len(ts) - Old(ts, u)) : r[i] = ts[i + Old(ts, u)]
    BY PruneIs
  <2> QED
    BY <2>1, <1>7
<1> HIDE DEF r
<1>9. Len(q) = Len(r) /\ Len(r) <= Len(p)
  BY <1>0, <1>1, <1>2, <1>3, <1>4, <1>8
<1>10. ASSUME NEW i \in 1..Len(q)
       PROVE  q[i] = r[i]
  <2>1. /\ i \in 1..(Len(p) - k) /\ i + k \in 1..(Len(ts) - m)
        /\ i \in 1..(Len(ts) - (m + k)) /\ (i + k) + m = i + (m + k)
    BY <1>0, <1>1, <1>2, <1>3, <1>4
  <2> QED
    BY <2>1, <1>2, <1>4, <1>8
<1>11. q = r
  BY <1>4, <1>8, <1>9, <1>10, SeqEqual
<1> QED
  BY <1>9, <1>11 DEF p, q, r

\* A failure of this moment is not dropped, nor are the others that are left.
LEMMA PruneAppend ==
  ASSUME NEW ts \in Seq(Nat), NEW t \in Nat
  PROVE  LET p == Append(prune(ts, t), t)
         IN  p \in Seq(Nat) /\ Len(p) = Len(prune(ts, t)) + 1 /\ prune(p, t) = p
<1> DEFINE r == prune(ts, t)
           p == Append(r, t)
           m == Old(ts, t)
<1>0. Len(ts) \in Nat /\ \A i \in 1..Len(ts) : ts[i] \in Nat
  BY ElementOfSeq, LenProperties
<1>1. m \in 0..Len(ts) /\ FirstOld(ts, t, m)
  BY OldIs
<1>2. /\ r \in Seq(Nat) /\ Len(r) = Len(ts) - m
      /\ \A i \in 1..(Len(ts) - m) : r[i] = ts[i + m]
  BY PruneIs
<1> HIDE DEF r, m
<1>3. /\ p \in Seq(Nat) /\ Len(p) = Len(r) + 1
      /\ \A i \in 1..Len(r) : p[i] = r[i]
      /\ p[Len(r) + 1] = t
  BY <1>2, AppendProperties
<1> HIDE DEF p
<1>4. t - p[1] < Window
  <2>1. CASE Len(r) = 0
    BY <2>1, <1>3, LimiterAssumption
  <2>2. CASE Len(r) # 0
    <3>1. m < Len(ts) /\ 1 \in 1..Len(r) /\ 1 \in 1..(Len(ts) - m) /\ 1 + m = m + 1
      BY <2>2, <1>0, <1>1, <1>2
    <3>2. p[1] = ts[m + 1]
      BY <3>1, <1>2, <1>3
    <3> QED
      BY <3>1, <3>2, <1>1 DEF FirstOld
  <2> QED
    BY <2>1, <2>2
<1>5. Len(p) \in Nat /\ 0 \in 0..Len(p) /\ FirstOld(p, t, 0)
  BY <1>4, <1>3, LenProperties DEF FirstOld
<1>6. Old(p, t) = 0
  BY <1>3, <1>5, OldUnique
<1> DEFINE q == prune(p, t)
<1>7. /\ q \in Seq(Nat) /\ Len(q) = Len(p) - 0
      /\ \A i \in 1..(Len(p) - 0) : q[i] = p[i + 0]
  <2>1. /\ q \in Seq(Nat) /\ Len(q) = Len(p) - Old(p, t)
        /\ \A i \in 1..(Len(p) - Old(p, t)) : q[i] = p[i + Old(p, t)]
    BY <1>3, PruneIs
  <2> QED
    BY <2>1, <1>6
<1> HIDE DEF q
<1>8. Len(q) = Len(p) /\ \A i \in 1..Len(q) : q[i] = p[i]
  BY <1>7, <1>5
<1>9. q = p
  BY <1>3, <1>7, <1>8, SeqEqual
<1> QED
  BY <1>3, <1>9 DEF p, q, r

\* The recent failures are among those that are left.
LEMMA RecentIs ==
  ASSUME NEW ts \in Seq(Nat), now \in Nat
  PROVE  Cardinality(Recent(ts)) <= Len(prune(ts, now))
<1> DEFINE o == Old(ts, now)
<1>0. Len(ts) \in Nat /\ DOMAIN ts = 1..Len(ts) /\ \A i \in 1..Len(ts) : ts[i] \in Nat
  BY ElementOfSeq, LenProperties
<1>1. o \in 0..Len(ts) /\ FirstOld(ts, now, o)
  BY OldIs
<1>2. Len(prune(ts, now)) = Len(ts) - o
  BY PruneIs
<1> HIDE DEF o
<1>3. ASSUME NEW i \in Recent(ts)
      PROVE  i \in (o + 1)..Len(ts)
  <2>1. i \in 1..Len(ts) /\ now - ts[i] < Window
    BY <1>0 DEF Recent
  <2>2. ~(i <= o)
    BY <2>1, <1>0, <1>1, LimiterAssumption DEF FirstOld
  <2> QED
    BY <2>1, <2>2, <1>1
<1>4. Recent(ts) \in SUBSET ((o + 1)..Len(ts))
  BY <1>3
<1>5. /\ IsFiniteSet((o + 1)..Len(ts))
      /\ Cardinality((o + 1)..Len(ts)) = IF o + 1 > Len(ts) THEN 0 ELSE Len(ts) - (o + 1) + 1
  <2>1. o + 1 \in Int /\ Len(ts) \in Int
    BY <1>0, <1>1
  <2> QED
    BY <2>1, FS_Interval
<1>6. Cardinality(Recent(ts)) <= Cardinality((o + 1)..Len(ts))
  BY <1>4, <1>5, FS_Subset
<1>7. Cardinality((o + 1)..Len(ts)) = Len(ts) - o
  BY <1>0, <1>1, <1>5
<1> QED
  BY <1>6, <1>7, <1>2

-----------------------------------------------------------------------------
(* The limiter of logins: the lengths of the lockouts *)

\* f is the course of the shifts up to m strikes.
ShiftCourse(f, m) ==
  f = [i \in 0..m |-> IF i = 0 THEN BackoffBase ELSE Wrapped(2 * f[i-1])]

\* What a course of shifts says of each strike.
LEMMA ShiftSteps ==
  ASSUME NEW m \in Nat, NEW f, ShiftCourse(f, m)
  PROVE  f[0] = BackoffBase /\ \A i \in 1..m : f[i] = Wrapped(2 * f[i-1])
<1>1. \A i \in 0..m : f[i] = IF i = 0 THEN BackoffBase ELSE Wrapped(2 * f[i-1])
  BY Zenon DEF ShiftCourse
<1>2. 0 \in 0..m /\ \A i \in 1..m : i \in 0..m /\ i # 0
  OBVIOUS
<1> QED
  BY <1>1, <1>2, Zenon

\* There is a course for any number of strikes.
LEMMA ShiftRuns ==
  ASSUME NEW len \in Nat
  PROVE  \E f : ShiftCourse(f, len)
<1> DEFINE Stuck == {m \in Nat : ~ \E f : ShiftCourse(f, m)}
<1> SUFFICES ASSUME Stuck # {}
             PROVE  FALSE
  OBVIOUS
<1>1. PICK m \in Stuck : \A k \in Stuck : m <= k
  BY LeastNumber
<1>2. CASE m = 0
  <2> DEFINE f == [i \in 0..0 |-> BackoffBase]
  <2>1. f = [i \in 0..0 |-> IF i = 0 THEN BackoffBase ELSE Wrapped(2 * f[i-1])]
    OBVIOUS
  <2> QED
    BY <2>1, <1>1, <1>2 DEF ShiftCourse
<1>3. CASE m # 0
  <2>1. m \in Nat /\ m - 1 \in Nat /\ m - 1 \notin Stuck
    BY <1>1, <1>3
  <2>2. PICK g : ShiftCourse(g, m - 1)
    BY <2>1
  <2> DEFINE f == [i \in 0..m |-> IF i < m THEN g[i] ELSE Wrapped(2 * g[m-1])]
  <2>3. \A i \in 0..m : f[i] = IF i = 0 THEN BackoffBase ELSE Wrapped(2 * f[i-1])
    <3> SUFFICES ASSUME NEW i \in 0..m
                 PROVE  f[i] = IF i = 0 THEN BackoffBase ELSE Wrapped(2 * f[i-1])
      OBVIOUS
    <3> HIDE DEF Stuck
    <3>1. CASE i = m
      <4>1. i \in 0..m /\ i - 1 \in 0..m /\ i - 1 < m /\ ~(i < m) /\ i # 0
        BY <3>1, <2>1, <1>3
      <4>2. f[i] = Wrapped(2 * g[m-1]) /\ f[i-1] = g[i-1]
        BY <4>1, Zenon
      <4> QED
        BY <4>1, <4>2, <3>1, Zenon
    <3>2. CASE i < m
      <4>1. i \in 0..(m-1) /\ i \in 0..m /\ (i # 0 => i - 1 \in 0..m /\ i - 1 < m)
        BY <3>2, <2>1
      <4>2. f[i] = g[i] /\ (i # 0 => f[i-1] = g[i-1])
        BY <4>1, <3>2, Zenon
      <4>3. g[i] = IF i = 0 THEN BackoffBase ELSE Wrapped(2 * g[i-1])
        BY <4>1, <2>2, Zenon DEF ShiftCourse
      <4> QED
        BY <4>2, <4>3, Zenon
    <3> QED
      BY <3>1, <3>2, <2>1
  <2>4. ShiftCourse(f, m)
    BY <2>3, Zenon DEF ShiftCourse
  <2> QED
    BY <2>4, <1>1
<1> QED
  BY <1>2, <1>3

\* Two courses agree as far as both go.
LEMMA ShiftsAgree ==
  ASSUME NEW m \in Nat, NEW f, ShiftCourse(f, m),
         NEW n \in Nat, NEW g, ShiftCourse(g, n),
         NEW len \in Nat, len <= m, len <= n
  PROVE  f[len] = g[len]
<1> DEFINE Apart == {k \in Nat : k <= m /\ k <= n /\ f[k] # g[k]}
<1> SUFFICES ASSUME Apart # {}
             PROVE  FALSE
  OBVIOUS
<1>1. PICK k \in Apart : \A j \in Apart : k <= j
  BY LeastNumber
<1>2. k \in Nat /\ k <= m /\ k <= n /\ f[k] # g[k]
  BY <1>1
<1>3. k # 0
  BY <1>2, ShiftSteps
<1>4. k - 1 \in Nat /\ k \in 1..m /\ k \in 1..n /\ k - 1 \notin Apart
  BY <1>1, <1>2, <1>3
<1>5. f[k-1] = g[k-1]
  BY <1>2, <1>4
<1>6. f[k] = Wrapped(2 * f[k-1]) /\ g[k] = Wrapped(2 * g[k-1])
  BY <1>4, ShiftSteps
<1> QED
  BY <1>2, <1>5, <1>6

\* What the shifts are: the base, doubled in Width bits at each strike.
LEMMA ShiftedIs ==
  /\ Shifted[0] = BackoffBase
  /\ \A n \in Nat : Shifted[n + 1] = Wrapped(2 * Shifted[n])
<1> DEFINE Run(m) == CHOOSE f : ShiftCourse(f, m)
           s == [n \in Nat |-> Run(n)[n]]
<1>1. \A m \in Nat : ShiftCourse(Run(m), m)
  BY ShiftRuns, Zenon
<1> HIDE DEF Run
<1>2. ASSUME NEW n \in Nat, n # 0
      PROVE  Run(n)[n] = Wrapped(2 * Run(n-1)[n-1])
  <2>1. n - 1 \in Nat /\ n \in 1..n /\ n - 1 <= n /\ n - 1 <= n - 1
    BY <1>2
  <2>2. Run(n)[n] = Wrapped(2 * Run(n)[n-1])
    BY <2>1, <1>1, ShiftSteps
  <2>3. Run(n)[n-1] = Run(n-1)[n-1]
    BY <2>1, <1>1, ShiftsAgree
  <2> QED
    BY <2>2, <2>3
<1>3. Run(0)[0] = BackoffBase
  BY <1>1, ShiftSteps
<1>4. \A n \in Nat : s[n] = IF n = 0 THEN BackoffBase ELSE Wrapped(2 * s[n-1])
  <2> SUFFICES ASSUME NEW n \in Nat
               PROVE  s[n] = IF n = 0 THEN BackoffBase ELSE Wrapped(2 * s[n-1])
    OBVIOUS
  <2>1. CASE n = 0
    BY <2>1, <1>3
  <2>2. CASE n # 0
    <3>1. n - 1 \in Nat
      BY <2>2
    <3>2. s[n] = Run(n)[n] /\ s[n-1] = Run(n-1)[n-1]
      BY <3>1
    <3> QED
      BY <3>2, <2>2, <1>2
  <2> QED
    BY <2>1, <2>2
<1>5. s = [n \in Nat |-> IF n = 0 THEN BackoffBase ELSE Wrapped(2 * s[n-1])]
  BY <1>4, Zenon
<1> HIDE DEF s
<1>6. Shifted = [n \in Nat |-> IF n = 0 THEN BackoffBase ELSE Wrapped(2 * Shifted[n-1])]
  BY <1>5, Zenon DEF Shifted
<1>7. \A n \in Nat : Shifted[n] = IF n = 0 THEN BackoffBase ELSE Wrapped(2 * Shifted[n-1])
  BY <1>6, Zenon
<1>8. 0 \in Nat /\ \A n \in Nat : n + 1 \in Nat /\ n + 1 # 0 /\ (n + 1) - 1 = n
  OBVIOUS
<1>9. Shifted[0] = BackoffBase
  BY <1>7, <1>8, Zenon
<1>10. \A n \in Nat : Shifted[n + 1] = Wrapped(2 * Shifted[n])
  BY <1>7, <1>8, Zenon
<1> QED
  BY <1>9, <1>10

\* Once every bit of the base is shifted out, none comes back.
LEMMA ShiftedOut ==
  ASSUME NEW n \in Nat, n >= Width
  PROVE  Shifted[n] = 0
<1> DEFINE Wrong == {k \in Nat : k >= Width /\ Shifted[k] # 0}
<1> SUFFICES ASSUME Wrong # {}
             PROVE  FALSE
  OBVIOUS
<1>1. PICK k \in Wrong : \A j \in Wrong : k <= j
  BY LeastNumber
<1>2. k \in Nat /\ k >= Width /\ Shifted[k] # 0
  BY <1>1
<1>3. Width \in Nat /\ Shifted[Width] = 0 /\ Shifted[Width + 1] = 0
  BY LimiterAssumption, BackoffAssumption
<1>4. k # Width
  BY <1>2, <1>3
<1>5. k - 1 \in Nat /\ k - 1 >= Width /\ k - 1 \notin Wrong /\ (k - 1) + 1 = k
  BY <1>1, <1>2, <1>3, <1>4
<1>6. Shifted[k - 1] = 0
  BY <1>5
<1>7. Shifted[(k - 1) + 1] = Wrapped(2 * Shifted[k - 1])
  BY <1>5, ShiftedIs
<1>8. Shifted[Width + 1] = Wrapped(2 * Shifted[Width])
  BY <1>3, ShiftedIs
<1> QED
  BY <1>2, <1>3, <1>5, <1>6, <1>7, <1>8

\* The lockouts lie between the base and the maximum and never get shorter.
LEMMA BackoffGrows ==
  ASSUME NEW s \in Nat
  PROVE  backoff(s) \in BackoffBase..BackoffMax /\ backoff(s) <= backoff(s + 1)
<1>1. /\ Width \in Nat /\ BackoffBase \in Nat /\ BackoffMax \in Nat
      /\ \A n \in 0..Width : /\ backoff(n) \in BackoffBase..BackoffMax
                             /\ backoff(n) <= backoff(n + 1)
  BY LimiterAssumption, BackoffAssumption
<1>2. CASE s <= Width
  BY <1>1, <1>2
<1>3. CASE s > Width
  <2>1. backoff(0) \in BackoffBase..BackoffMax
    BY <1>1
  <2>2. BackoffMax \in BackoffBase..BackoffMax
    BY <2>1, <1>1
  <2>3. s + 1 \in Nat /\ s >= Width /\ s + 1 >= Width
    BY <1>1, <1>3
  <2>4. Shifted[s] = 0 /\ Shifted[s + 1] = 0
    BY <2>3, ShiftedOut
  <2>5. backoff(s) = BackoffMax /\ backoff(s + 1) = BackoffMax
    BY <2>4 DEF backoff
  <2> QED
    BY <2>2, <2>5, <1>1
<1> QED
  BY <1>1, <1>2, <1>3

-----------------------------------------------------------------------------
(* The limiter of logins: its invariant *)

Asking == {c \in Callers : asking[c] # NoRequest}

LimiterTypes ==
  /\ now \in Nat \ {0}
  /\ global \in Seq(Nat) /\ wrong \in Seq(Nat)
  /\ DOMAIN ips \subseteq Addresses
  /\ \A a \in DOMAIN ips :
       ips[a] \in [fails : Seq(Nat), strikes : Nat, blockedUntil : Nat, lastFail : Nat]
  /\ asking \in [Callers -> Addresses \cup {NoRequest}]
  /\ lockouts \in [Addresses -> [last : Nat, lengths : Seq(Nat)]]

\* The failures that count are the wrong passwords of the window, and those that
\* were let in beside the last of them are the requests under way.
Counted ==
  /\ prune(global, now) = prune(wrong, now)
  /\ Len(prune(wrong, now)) + Cardinality(Asking) <= GlobalFails + Cardinality(Callers) - 1

\* The strikes of an address are its lockouts, as long as somebody needs to know.
Strikes ==
  \A a \in Addresses :
    /\ \A i \in DOMAIN lockouts[a].lengths : lockouts[a].lengths[i] = backoff(i - 1)
    /\ IF a \in DOMAIN ips
       THEN /\ ips[a].lastFail = lockouts[a].last /\ ips[a].lastFail # 0
            /\ ips[a].strikes = Len(lockouts[a].lengths)
       ELSE lockouts[a].lengths = <<>> \/ now - lockouts[a].last > IdleReset

LimiterInv == LimiterTypes /\ Counted /\ Strikes

\* The requests under way are finitely many.
LEMMA AskingFinite ==
  ASSUME LimiterInv
  PROVE  /\ IsFiniteSet(Asking) /\ IsFiniteSet(Asking')
         /\ Cardinality(Asking) \in Nat /\ Cardinality(Asking') \in Nat
         /\ Cardinality(Callers) \in Nat
         /\ Cardinality(Asking') <= Cardinality(Callers)
<1>1. IsFiniteSet(Callers)
  BY LimiterAssumption
<1>2. Asking \in SUBSET Callers /\ Asking' \in SUBSET Callers
  BY DEF Asking
<1> QED
  BY <1>1, <1>2, FS_Subset, FS_CardinalityType

\* The constants of the limiter are natural numbers.
LEMMA LimiterNumbers ==
  /\ GlobalFails \in Nat /\ GlobalFails >= 1
  /\ IdleReset \in Nat /\ BackoffBase \in Nat /\ BackoffMax \in Nat
  BY LimiterAssumption

\* What the properties need follows from the invariant.
LEMMA LimiterInvEnough ==
  LimiterInv => LockoutsHold
<1> SUFFICES ASSUME LimiterInv
             PROVE  LockoutsHold
  OBVIOUS
<1>1. now \in Nat /\ wrong \in Seq(Nat)
  BY DEF LimiterInv, LimiterTypes
<1>2. Cardinality(Recent(wrong)) <= GlobalFails + Cardinality(Callers) - 1
  <2>1. Cardinality(Recent(wrong)) <= Len(prune(wrong, now))
    BY <1>1, RecentIs
  <2>2. Len(prune(wrong, now)) + Cardinality(Asking) <= GlobalFails + Cardinality(Callers) - 1
    BY DEF LimiterInv, Counted
  <2>3. Cardinality(Asking) \in Nat /\ Cardinality(Callers) \in Nat
    BY AskingFinite
  <2>4. Len(prune(wrong, now)) \in Nat
    BY <1>1, PruneIs, LenProperties
  <2>5. IsFiniteSet(Recent(wrong))
    <3>1. Recent(wrong) \in SUBSET (1..Len(wrong)) /\ 1 \in Int /\ Len(wrong) \in Int
      BY <1>1, LenProperties DEF Recent
    <3> QED
      BY <3>1, FS_Interval, FS_Subset
  <2>6. Cardinality(Recent(wrong)) \in Nat
    BY <2>5, FS_CardinalityType
  <2> QED
    BY <2>1, <2>2, <2>3, <2>4, <2>6, LimiterNumbers
<1>3. ASSUME NEW a \in Addresses
      PROVE  LET ls == lockouts[a].lengths IN
             /\ \A i \in DOMAIN ls : ls[i] \in BackoffBase..BackoffMax
             /\ \A i \in 1..(Len(ls) - 1) : ls[i] <= ls[i + 1]
  <2> DEFINE ls == lockouts[a].lengths
  <2>1. ls \in Seq(Nat)
    BY DEF LimiterInv, LimiterTypes
  <2>2. \A i \in DOMAIN ls : ls[i] = backoff(i - 1)
    BY DEF LimiterInv, Strikes
  <2> HIDE DEF ls
  <2>3. Len(ls) \in Nat /\ DOMAIN ls = 1..Len(ls)
    BY <2>1, LenProperties
  <2>4. ASSUME NEW i \in DOMAIN ls
        PROVE  ls[i] \in BackoffBase..BackoffMax
    <3>1. i - 1 \in Nat
      BY <2>3
    <3> QED
      BY <3>1, <2>2, BackoffGrows
  <2>5. ASSUME NEW i \in 1..(Len(ls) - 1)
        PROVE  ls[i] <= ls[i + 1]
    <3>1. i \in DOMAIN ls /\ i + 1 \in DOMAIN ls /\ i - 1 \in Nat /\ (i + 1) - 1 = i
      BY <2>3
    <3>2. ls[i] = backoff(i - 1) /\ ls[i + 1] = backoff(i)
      BY <3>1, <2>2
    <3>3. (i - 1) + 1 = i
      BY <3>1
    <3> QED
      BY <3>1, <3>2, <3>3, BackoffGrows
  <2> QED
    BY <2>4, <2>5 DEF ls
<1> QED
  BY <1>2, <1>3 DEF LockoutsHold

\* The invariant holds at the start.
LEMMA LimiterStarts ==
  LimiterInit => LimiterInv
<1> SUFFICES ASSUME LimiterInit
             PROVE  LimiterInv
  OBVIOUS
<1>1. LimiterTypes
  BY DEF LimiterInit, LimiterTypes
<1>2. Counted
  <2>1. now \in Nat /\ wrong \in Seq(Nat) /\ Len(wrong) = 0 /\ global = wrong
    BY DEF LimiterInit
  <2>2. Old(wrong, now) \in 0..Len(wrong) /\ Len(prune(wrong, now)) = Len(wrong) - Old(wrong, now)
    BY <2>1, OldIs, PruneIs
  <2>3. Len(prune(wrong, now)) = 0
    BY <2>1, <2>2
  <2>4. Asking = {}
    BY DEF LimiterInit, Asking
  <2>5. Cardinality(Asking) = 0
    BY <2>4, FS_EmptySet
  <2>6. Cardinality(Callers) \in Nat
    BY LimiterAssumption, FS_CardinalityType
  <2> QED
    BY <2>1, <2>3, <2>5, <2>6, LimiterNumbers DEF Counted
<1>3. Strikes
  BY DEF LimiterInit, Strikes
<1> QED
  BY <1>1, <1>2, <1>3 DEF LimiterInv

\* Where the global failures are pruned and no password was compared, what
\* counts stays.
LEMMA CountKept ==
  ASSUME LimiterInv, now' = now, wrong' = wrong, global' \in {global, prune(global, now)}
  PROVE  /\ global' \in Seq(Nat)
         /\ prune(global', now') = prune(wrong', now')
         /\ Len(prune(wrong', now')) = Len(prune(wrong, now))
<1>1. now \in Nat /\ global \in Seq(Nat) /\ prune(global, now) = prune(wrong, now)
  BY DEF LimiterInv, LimiterTypes, Counted
<1>2. prune(global, now) \in Seq(Nat)
  BY <1>1, PruneIs
<1>3. now <= now
  BY <1>1
<1>4. prune(prune(global, now), now) = prune(global, now)
  BY <1>1, <1>3, PruneTwice
<1>5. CASE global' = global
  BY <1>1, <1>5
<1>6. CASE global' = prune(global, now)
  BY <1>1, <1>2, <1>4, <1>6
<1> QED
  BY <1>5, <1>6

\* Letting a request in keeps the invariant: fewer failures than the limit count.
LEMMA LetInKeeps ==
  ASSUME LimiterInv, NEW c \in Callers, LetIn(c)
  PROVE  LimiterInv'
<1>1. /\ now' = now /\ ips' = ips /\ wrong' = wrong /\ lockouts' = lockouts
      /\ global' = prune(global, now) /\ Len(global') < GlobalFails
  BY DEF LetIn
<1>2. PICK a \in Addresses : asking' = [asking EXCEPT ![c] = a]
  BY DEF LetIn
<1>3. /\ global' \in Seq(Nat)
      /\ prune(global', now') = prune(wrong', now')
      /\ Len(prune(wrong', now')) = Len(prune(wrong, now))
  BY <1>1, CountKept
<1>4. LimiterTypes'
  BY <1>1, <1>2, <1>3 DEF LimiterInv, LimiterTypes
<1>5. Counted'
  <2>1. prune(wrong, now) = global' /\ Len(global') \in Nat
    BY <1>1, <1>3, LenProperties DEF LimiterInv, Counted
  <2>2. Len(prune(wrong', now')) < GlobalFails /\ Len(prune(wrong', now')) \in Nat
    BY <2>1, <1>1, <1>3
  <2>3. /\ Cardinality(Asking') \in Nat /\ Cardinality(Callers) \in Nat
        /\ Cardinality(Asking') <= Cardinality(Callers)
    BY AskingFinite
  <2>4. Len(prune(wrong', now')) + Cardinality(Asking') <= GlobalFails + Cardinality(Callers) - 1
    BY <2>2, <2>3, LimiterNumbers
  <2> QED
    BY <2>4, <1>3 DEF Counted
<1>6. Strikes'
  BY <1>1 DEF LimiterInv, Strikes
<1> QED
  BY <1>4, <1>5, <1>6 DEF LimiterInv

\* So does refusing one.
LEMMA RefuseKeeps ==
  ASSUME LimiterInv, NEW c \in Callers, Refuse(c)
  PROVE  LimiterInv'
<1>1. /\ now' = now /\ ips' = ips /\ wrong' = wrong /\ lockouts' = lockouts
      /\ asking' = asking /\ global' = prune(global, now)
  BY DEF Refuse
<1>2. /\ global' \in Seq(Nat)
      /\ prune(global', now') = prune(wrong', now')
      /\ Len(prune(wrong', now')) = Len(prune(wrong, now))
  BY <1>1, CountKept
<1>3. LimiterTypes'
  BY <1>1, <1>2 DEF LimiterInv, LimiterTypes
<1>4. Counted'
  <2>1. Asking' = Asking
    BY <1>1 DEF Asking
  <2> QED
    BY <2>1, <1>2 DEF LimiterInv, Counted
<1>5. Strikes'
  BY <1>1 DEF LimiterInv, Strikes
<1> QED
  BY <1>3, <1>4, <1>5 DEF LimiterInv

\* A login forgets the strikes and the lockouts together.
LEMMA SucceedKeeps ==
  ASSUME LimiterInv, NEW c \in Callers, Succeed(c)
  PROVE  LimiterInv'
<1> DEFINE a == asking[c]
<1>1. /\ now' = now /\ wrong' = wrong /\ global' = global
      /\ a # NoRequest
      /\ ips' = [b \in DOMAIN ips \ {a} |-> ips[b]]
      /\ asking' = [asking EXCEPT ![c] = NoRequest]
      /\ lockouts' = [lockouts EXCEPT ![a] = [last |-> 0, lengths |-> <<>>]]
  BY DEF Succeed
<1>2. asking \in [Callers -> Addresses \cup {NoRequest}] /\ a \in Addresses
  BY <1>1 DEF LimiterInv, LimiterTypes
<1> HIDE DEF a
<1>3. /\ prune(global', now') = prune(wrong', now')
      /\ Len(prune(wrong', now')) = Len(prune(wrong, now))
  BY <1>1, CountKept
<1>4. LimiterTypes'
  <2>1. DOMAIN ips' \subseteq DOMAIN ips /\ \A b \in DOMAIN ips' : ips'[b] = ips[b]
    BY <1>1
  <2>2. asking' \in [Callers -> Addresses \cup {NoRequest}]
    BY <1>1, <1>2
  <2>3. [last |-> 0, lengths |-> <<>>] \in [last : Nat, lengths : Seq(Nat)]
    OBVIOUS
  <2>4. lockouts' \in [Addresses -> [last : Nat, lengths : Seq(Nat)]]
    BY <2>3, <1>1, <1>2 DEF LimiterInv, LimiterTypes
  <2> QED
    BY <2>1, <2>2, <2>4, <1>1 DEF LimiterInv, LimiterTypes
<1>5. Counted'
  <2>1. Asking' \in SUBSET Asking
    BY <1>1, <1>2 DEF Asking
  <2>2. Cardinality(Asking') <= Cardinality(Asking)
    BY <2>1, AskingFinite, FS_Subset
  <2>3. /\ Cardinality(Asking') \in Nat /\ Cardinality(Asking) \in Nat
        /\ Cardinality(Callers) \in Nat
    BY AskingFinite
  <2>4. Len(prune(wrong, now)) \in Nat
    BY PruneIs, LenProperties DEF LimiterInv, LimiterTypes
  <2>5. Len(prune(wrong, now)) + Cardinality(Asking) <= GlobalFails + Cardinality(Callers) - 1
    BY DEF LimiterInv, Counted
  <2>6. Len(prune(wrong', now')) + Cardinality(Asking') <= GlobalFails + Cardinality(Callers) - 1
    BY <2>2, <2>3, <2>4, <2>5, <1>3, LimiterNumbers
  <2> QED
    BY <2>6, <1>3 DEF Counted
<1>6. Strikes'
  <2> SUFFICES ASSUME NEW b \in Addresses
               PROVE  /\ \A i \in DOMAIN lockouts'[b].lengths : lockouts'[b].lengths[i] = backoff(i - 1)
                      /\ IF b \in DOMAIN ips'
                         THEN /\ ips'[b].lastFail = lockouts'[b].last /\ ips'[b].lastFail # 0
                              /\ ips'[b].strikes = Len(lockouts'[b].lengths)
                         ELSE lockouts'[b].lengths = <<>> \/ now' - lockouts'[b].last > IdleReset
    BY DEF Strikes
  <2>0. DOMAIN lockouts = Addresses
    BY DEF LimiterInv, LimiterTypes
  <2>1. CASE b = a
    <3>1. lockouts'[b] = [last |-> 0, lengths |-> <<>>] /\ b \notin DOMAIN ips'
      BY <2>0, <2>1, <1>1, <1>2
    <3>2. lockouts'[b].lengths = <<>>
      BY <3>1
    <3> QED
      BY <3>1, <3>2
  <2>2. CASE b # a
    <3>1. lockouts'[b] = lockouts[b]
      BY <2>0, <2>2, <1>1, <1>2
    <3>2. b \in DOMAIN ips' <=> b \in DOMAIN ips
      BY <2>2, <1>1
    <3>3. b \in DOMAIN ips' => ips'[b] = ips[b]
      BY <1>1
    <3> QED
      BY <3>1, <3>2, <3>3, <1>1 DEF LimiterInv, Strikes
  <2> QED
    BY <2>1, <2>2
<1> QED
  BY <1>4, <1>5, <1>6 DEF LimiterInv

\* Time only makes failures old and quiet addresses quieter.
LEMMA ElapseKeeps ==
  ASSUME LimiterInv, Elapse
  PROVE  LimiterInv'
<1>1. /\ now' = now + 1 /\ ips' = ips /\ wrong' = wrong /\ lockouts' = lockouts
      /\ asking' = asking /\ global' = global
  BY DEF Elapse
<1>2. /\ now \in Nat /\ now' \in Nat /\ now <= now' /\ now' # 0
      /\ global \in Seq(Nat) /\ wrong \in Seq(Nat)
  BY <1>1 DEF LimiterInv, LimiterTypes
<1>3. LimiterTypes'
  BY <1>1, <1>2 DEF LimiterInv, LimiterTypes
<1>4. Counted'
  <2>1. /\ prune(prune(global, now), now') = prune(global, now')
        /\ prune(prune(wrong, now), now') = prune(wrong, now')
        /\ Len(prune(wrong, now')) <= Len(prune(wrong, now))
    BY <1>2, PruneTwice
  <2>2. /\ prune(global, now) = prune(wrong, now)
        /\ Len(prune(wrong, now)) + Cardinality(Asking) <= GlobalFails + Cardinality(Callers) - 1
    BY DEF LimiterInv, Counted
  <2>3. /\ Cardinality(Asking) \in Nat /\ Cardinality(Callers) \in Nat
    BY AskingFinite
  <2>4. Len(prune(wrong, now)) \in Nat /\ Len(prune(wrong, now')) \in Nat
    BY <1>2, PruneIs, LenProperties
  <2>5. Asking' = Asking
    BY <1>1 DEF Asking
  <2>6. Len(prune(wrong, now')) + Cardinality(Asking) <= GlobalFails + Cardinality(Callers) - 1
    BY <2>1, <2>2, <2>3, <2>4, LimiterNumbers
  <2> QED
    BY <2>1, <2>2, <2>5, <2>6, <1>1 DEF Counted
<1>5. Strikes'
  <2> SUFFICES ASSUME NEW b \in Addresses
               PROVE  /\ \A i \in DOMAIN lockouts[b].lengths : lockouts[b].lengths[i] = backoff(i - 1)
                      /\ IF b \in DOMAIN ips
                         THEN /\ ips[b].lastFail = lockouts[b].last /\ ips[b].lastFail # 0
                              /\ ips[b].strikes = Len(lockouts[b].lengths)
                         ELSE lockouts[b].lengths = <<>> \/ now' - lockouts[b].last > IdleReset
    BY <1>1 DEF Strikes
  <2>1. lockouts[b].last \in Nat
    BY DEF LimiterInv, LimiterTypes
  <2>2. now - lockouts[b].last > IdleReset => now' - lockouts[b].last > IdleReset
    BY <2>1, <1>1, <1>2, LimiterNumbers
  <2> QED
    BY <2>2 DEF LimiterInv, Strikes
<1> QED
  BY <1>3, <1>4, <1>5 DEF LimiterInv

AddressRecord == [fails : Seq(Nat), strikes : Nat, blockedUntil : Nat, lastFail : Nat]

\* The strikes that count when an address fails.
StrikesOf(st) == IF st.lastFail # 0 /\ now - st.lastFail > IdleReset THEN 0 ELSE st.strikes

\* What a failure makes of a record: another failure, or another strike and a
\* lockout as long as the strikes before it say.
LEMMA FailedIs ==
  ASSUME now \in Nat, NEW st \in AddressRecord
  PROVE  LET r == Failed(st) IN
         /\ r \in AddressRecord
         /\ r.lastFail = now
         /\ r.fails # <<>> => r.strikes = StrikesOf(st)
         /\ r.fails = <<>> => /\ r.strikes = StrikesOf(st) + 1
                              /\ r.blockedUntil - now = backoff(StrikesOf(st))
                              /\ backoff(StrikesOf(st)) \in Nat
<1> DEFINE s == StrikesOf(st)
           fails == Append(prune(st.fails, now), now)
<1>1. s \in Nat
  BY DEF StrikesOf, AddressRecord
<1>2. fails \in Seq(Nat) /\ fails # <<>>
  <2>1. st.fails \in Seq(Nat)
    BY DEF AddressRecord
  <2>2. prune(st.fails, now) \in Seq(Nat)
    BY <2>1, PruneIs
  <2> QED
    BY <2>2, AppendProperties
<1>3. backoff(s) \in Nat
  <2>1. backoff(s) \in BackoffBase..BackoffMax
    BY <1>1, BackoffGrows
  <2> QED
    BY <2>1, LimiterNumbers
<1>4. Failed(st) = IF Len(fails) < FailsPerWindow
                   THEN [st EXCEPT !.fails = fails, !.strikes = s, !.lastFail = now]
                   ELSE [fails |-> <<>>, strikes |-> s + 1, lastFail |-> now,
                         blockedUntil |-> now + backoff(s)]
  BY DEF Failed, StrikesOf
<1> HIDE DEF s, fails
<1>5. CASE Len(fails) < FailsPerWindow
  <2>1. Failed(st) = [st EXCEPT !.fails = fails, !.strikes = s, !.lastFail = now]
    BY <1>4, <1>5
  <2> QED
    BY <2>1, <1>1, <1>2 DEF s, AddressRecord
<1>6. CASE ~(Len(fails) < FailsPerWindow)
  <2>1. Failed(st) = [fails |-> <<>>, strikes |-> s + 1, lastFail |-> now,
                      blockedUntil |-> now + backoff(s)]
    BY <1>4, <1>6
  <2>2. now + backoff(s) \in Nat /\ (now + backoff(s)) - now = backoff(s) /\ s + 1 \in Nat
    BY <1>1, <1>3
  <2>3. Failed(st) \in AddressRecord
    BY <2>1, <2>2 DEF AddressRecord
  <2> QED
    BY <2>1, <2>2, <2>3, <1>3 DEF s
<1> QED
  BY <1>5, <1>6

\* A wrong password takes the request out of those under way as it is counted,
\* and what the sweep forgets nobody needs to know.
LEMMA FailKeeps ==
  ASSUME LimiterInv, NEW c \in Callers, Fail(c)
  PROVE  LimiterInv'
<1> DEFINE a == asking[c]
           kept == IF Cardinality(DOMAIN ips) > SweepAbove THEN sweep(ips) ELSE ips
           st == IF a \in DOMAIN kept THEN kept[a] ELSE NoRecord
           seen == IF now - lockouts[a].last > IdleReset THEN <<>> ELSE lockouts[a].lengths
           lengths == IF Failed(st).fails = <<>>
                      THEN Append(seen, Failed(st).blockedUntil - now) ELSE seen
<1>0. /\ now \in Nat /\ now # 0 /\ global \in Seq(Nat) /\ wrong \in Seq(Nat)
      /\ DOMAIN ips \subseteq Addresses
      /\ \A b \in DOMAIN ips : ips[b] \in AddressRecord
      /\ lockouts \in [Addresses -> [last : Nat, lengths : Seq(Nat)]]
      /\ asking \in [Callers -> Addresses \cup {NoRequest}]
  BY DEF LimiterInv, LimiterTypes, AddressRecord
<1>1. /\ a \in Addresses /\ now' = now
      /\ global' = Append(prune(global, now), now)
      /\ wrong' = Append(prune(wrong, now), now)
      /\ asking' = [asking EXCEPT ![c] = NoRequest]
      /\ ips' = [b \in DOMAIN kept \cup {a} |-> IF b = a THEN Failed(st) ELSE kept[b]]
      /\ asking[c] # NoRequest
  BY <1>0 DEF Fail
<1>2. lockouts' = [lockouts EXCEPT ![a] = [last |-> now, lengths |-> lengths]]
  <2>1. ips'[a] = Failed(st)
    BY <1>1
  <2>2. lockouts' = [lockouts EXCEPT ![a] =
          [last |-> now,
           lengths |-> IF ips'[a].fails = <<>> THEN Append(seen, ips'[a].blockedUntil - now) ELSE seen]]
    BY DEF Fail
  <2> QED
    BY <2>1, <2>2
<1>3. /\ DOMAIN kept \subseteq DOMAIN ips
      /\ \A b \in DOMAIN kept : kept[b] = ips[b]
      /\ \A b \in DOMAIN ips : b \notin DOMAIN kept => ~(now - ips[b].lastFail <= IdleReset)
  BY DEF sweep
<1> HIDE DEF kept
<1>4. st \in AddressRecord
  <2>1. NoRecord \in AddressRecord
    BY DEF NoRecord, AddressRecord
  <2> QED
    BY <2>1, <1>0, <1>3
<1>5. /\ Failed(st) \in AddressRecord
      /\ Failed(st).lastFail = now
      /\ Failed(st).fails # <<>> => Failed(st).strikes = StrikesOf(st)
      /\ Failed(st).fails = <<>> => /\ Failed(st).strikes = StrikesOf(st) + 1
                                    /\ Failed(st).blockedUntil - now = backoff(StrikesOf(st))
                                    /\ backoff(StrikesOf(st)) \in Nat
  BY <1>0, <1>4, FailedIs
<1>6. /\ lockouts[a].last \in Nat /\ lockouts[a].lengths \in Seq(Nat)
      /\ \A i \in DOMAIN lockouts[a].lengths : lockouts[a].lengths[i] = backoff(i - 1)
      /\ a \in DOMAIN ips => /\ ips[a].lastFail = lockouts[a].last /\ ips[a].lastFail # 0
                             /\ ips[a].strikes = Len(lockouts[a].lengths)
      /\ a \notin DOMAIN ips =>
           lockouts[a].lengths = <<>> \/ now - lockouts[a].last > IdleReset
  BY <1>0, <1>1 DEF LimiterInv, Strikes
<1> HIDE DEF a
<1>7. /\ seen \in Seq(Nat) /\ StrikesOf(st) = Len(seen)
      /\ \A i \in DOMAIN seen : seen[i] = backoff(i - 1)
  <2>1. seen \in Seq(Nat) /\ \A i \in DOMAIN seen : seen[i] = backoff(i - 1)
    <3>1. <<>> \in Seq(Nat) /\ \A i \in DOMAIN <<>> : <<>>[i] = backoff(i - 1)
      OBVIOUS
    <3>2. seen = <<>> \/ seen = lockouts[a].lengths
      OBVIOUS
    <3> HIDE DEF seen
    <3> QED
      BY <3>1, <3>2, <1>6
  <2>2. CASE a \in DOMAIN kept
    <3>1. st = ips[a] /\ a \in DOMAIN ips
      BY <2>2, <1>3
    <3> HIDE DEF st
    <3>2. StrikesOf(st) = IF now - lockouts[a].last > IdleReset THEN 0 ELSE Len(lockouts[a].lengths)
      BY <3>1, <1>6 DEF StrikesOf
    <3>3. Len(<<>>) = 0
      OBVIOUS
    <3> QED
      BY <3>2, <3>3, <2>1
  <2>3. CASE a \notin DOMAIN kept
    <3>1. st = NoRecord
      BY <2>3
    <3>2. StrikesOf(st) = 0
      BY <3>1 DEF StrikesOf, NoRecord
    <3>3. lockouts[a].lengths = <<>> \/ now - lockouts[a].last > IdleReset
      <4>1. CASE a \in DOMAIN ips
        <5>1. ~(now - lockouts[a].last <= IdleReset)
          BY <4>1, <2>3, <1>3, <1>6
        <5> QED
          BY <5>1, <1>0, <1>6, LimiterNumbers
      <4>2. CASE a \notin DOMAIN ips
        BY <4>2, <1>6
      <4> QED
        BY <4>1, <4>2
    <3>4. seen = <<>>
      BY <3>3
    <3>5. Len(<<>>) = 0
      OBVIOUS
    <3> QED
      BY <3>2, <3>4, <3>5, <2>1
  <2> QED
    BY <2>2, <2>3
<1> HIDE DEF seen, st
<1>8. /\ lengths \in Seq(Nat) /\ Failed(st).strikes = Len(lengths)
      /\ \A i \in DOMAIN lengths : lengths[i] = backoff(i - 1)
  <2>1. CASE Failed(st).fails # <<>>
    <3>1. lengths = seen
      BY <2>1
    <3> HIDE DEF lengths
    <3> QED
      BY <3>1, <2>1, <1>5, <1>7
  <2>2. CASE Failed(st).fails = <<>>
    <3>1. lengths = Append(seen, backoff(Len(seen))) /\ backoff(Len(seen)) \in Nat
      BY <2>2, <1>5, <1>7
    <3> HIDE DEF lengths
    <3>2. /\ lengths \in Seq(Nat) /\ Len(lengths) = Len(seen) + 1
          /\ \A i \in 1..Len(seen) : lengths[i] = seen[i]
          /\ lengths[Len(seen) + 1] = backoff(Len(seen))
      BY <3>1, <1>7, AppendProperties
    <3>3. /\ Len(seen) \in Nat /\ DOMAIN seen = 1..Len(seen)
          /\ DOMAIN lengths = 1..(Len(seen) + 1)
      BY <3>2, <1>7, LenProperties
    <3>4. ASSUME NEW i \in DOMAIN lengths
          PROVE  lengths[i] = backoff(i - 1)
      <4>1. CASE i = Len(seen) + 1
        <5>1. i - 1 = Len(seen)
          BY <4>1, <3>3
        <5> QED
          BY <5>1, <4>1, <3>2
      <4>2. CASE i # Len(seen) + 1
        <5>1. i \in 1..Len(seen)
          BY <4>2, <3>3
        <5> QED
          BY <5>1, <3>2, <3>3, <1>7
      <4> QED
        BY <4>1, <4>2
    <3> QED
      BY <3>2, <3>4, <2>2, <1>5, <1>7
  <2> QED
    BY <2>1, <2>2
<1> HIDE DEF lengths
<1>9. \A b \in DOMAIN ips' : ips'[b] \in AddressRecord
  BY <1>0, <1>1, <1>3, <1>5
<1>10. LimiterTypes'
  <2>1. global' \in Seq(Nat) /\ wrong' \in Seq(Nat)
    BY <1>0, <1>1, PruneAppend
  <2>2. DOMAIN ips' \subseteq Addresses
    BY <1>0, <1>1, <1>3
  <2>3. asking' \in [Callers -> Addresses \cup {NoRequest}]
    BY <1>0, <1>1
  <2>4. [last |-> now, lengths |-> lengths] \in [last : Nat, lengths : Seq(Nat)]
    BY <1>0, <1>8
  <2>5. lockouts' \in [Addresses -> [last : Nat, lengths : Seq(Nat)]]
    BY <2>4, <1>0, <1>2
  <2> QED
    BY <2>1, <2>2, <2>3, <2>5, <1>0, <1>1, <1>9 DEF LimiterTypes, AddressRecord
<1>11. Counted'
  <2>1. prune(global, now) = prune(wrong, now)
    BY DEF LimiterInv, Counted
  <2>2. /\ global' = wrong'
        /\ prune(wrong', now) = wrong' /\ Len(wrong') = Len(prune(wrong, now)) + 1
    BY <2>1, <1>0, <1>1, PruneAppend
  <2>3. Asking' = Asking \ {c} /\ c \in Asking
    BY <1>0, <1>1 DEF Asking
  <2>4. Cardinality(Asking') = Cardinality(Asking) - 1
    BY <2>3, AskingFinite, FS_RemoveElement
  <2>5. /\ Cardinality(Asking') \in Nat /\ Cardinality(Asking) \in Nat
        /\ Cardinality(Callers) \in Nat
    BY AskingFinite
  <2>6. Len(prune(wrong, now)) \in Nat
    BY <1>0, PruneIs, LenProperties
  <2>7. Len(prune(wrong, now)) + Cardinality(Asking) <= GlobalFails + Cardinality(Callers) - 1
    BY DEF LimiterInv, Counted
  <2>8. Len(prune(wrong', now')) = Len(prune(wrong, now)) + 1
    BY <2>2, <1>1
  <2>9. Len(prune(wrong', now')) + Cardinality(Asking') <= GlobalFails + Cardinality(Callers) - 1
    BY <2>4, <2>5, <2>6, <2>7, <2>8, LimiterNumbers
  <2> QED
    BY <2>2, <2>9 DEF Counted
<1>12. Strikes'
  <2> SUFFICES ASSUME NEW b \in Addresses
               PROVE  /\ \A i \in DOMAIN lockouts'[b].lengths : lockouts'[b].lengths[i] = backoff(i - 1)
                      /\ IF b \in DOMAIN ips'
                         THEN /\ ips'[b].lastFail = lockouts'[b].last /\ ips'[b].lastFail # 0
                              /\ ips'[b].strikes = Len(lockouts'[b].lengths)
                         ELSE lockouts'[b].lengths = <<>> \/ now' - lockouts'[b].last > IdleReset
    BY DEF Strikes
  <2>1. CASE b = a
    <3>1. /\ lockouts'[b].last = now /\ lockouts'[b].lengths = lengths
          /\ b \in DOMAIN ips' /\ ips'[b] = Failed(st)
      BY <2>1, <1>0, <1>1, <1>2
    <3> QED
      BY <3>1, <1>0, <1>5, <1>8
  <2>2. CASE b # a
    <3>1. lockouts'[b] = lockouts[b] /\ lockouts[b].last \in Nat
      BY <2>2, <1>0, <1>2
    <3>2. b \in DOMAIN ips' <=> b \in DOMAIN kept
      BY <2>2, <1>1
    <3>3. b \in DOMAIN kept => ips'[b] = ips[b] /\ b \in DOMAIN ips
      BY <2>2, <1>1, <1>3
    <3>4. b \in DOMAIN ips /\ b \notin DOMAIN kept => now - lockouts[b].last > IdleReset
      <4> SUFFICES ASSUME b \in DOMAIN ips, b \notin DOMAIN kept
                   PROVE  now - lockouts[b].last > IdleReset
        OBVIOUS
      <4>1. ~(now - ips[b].lastFail <= IdleReset) /\ ips[b].lastFail = lockouts[b].last
        BY <1>3 DEF LimiterInv, Strikes
      <4> QED
        BY <4>1, <3>1, <1>0, LimiterNumbers
    <3> QED
      BY <3>1, <3>2, <3>3, <3>4, <1>1 DEF LimiterInv, Strikes
  <2> QED
    BY <2>1, <2>2
<1> QED
  BY <1>10, <1>11, <1>12 DEF LimiterInv

\* The limiter of logins (dashboard/auth_limit.go) keeps guessing slow for any
\* number of requests at once, any limits and any hours: in a window at most the
\* global limit of wrong passwords and the requests already let in are compared,
\* and the lockouts of an address never get shorter.
THEOREM LimiterHolds ==
  LimiterSpec => []LockoutsHold
<1>1. LimiterInit => LimiterInv
  BY LimiterStarts
<1>2. LimiterInv /\ [LimiterNext]_throttle => LimiterInv'
  <2> SUFFICES ASSUME LimiterInv, [LimiterNext]_throttle
               PROVE  LimiterInv'
    OBVIOUS
  <2>1. CASE Elapse
    BY <2>1, ElapseKeeps
  <2>2. ASSUME NEW c \in Callers, LetIn(c) \/ Refuse(c) \/ Succeed(c) \/ Fail(c)
        PROVE  LimiterInv'
    BY <2>2, LetInKeeps, RefuseKeeps, SucceedKeeps, FailKeeps
  <2>3. CASE UNCHANGED throttle
    BY <2>3 DEF throttle, LimiterInv, LimiterTypes, Counted, Strikes, Asking
  <2> QED
    BY <2>1, <2>2, <2>3 DEF LimiterNext
<1>3. LimiterInv => LockoutsHold
  BY LimiterInvEnough
<1> QED
  BY <1>1, <1>2, <1>3, PTL DEF LimiterSpec
=============================================================================
