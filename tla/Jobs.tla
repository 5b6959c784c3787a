-------------------------------- MODULE Jobs --------------------------------
(***************************************************************************)
(* Background jobs of the dashboard (internal/manager/jobs.go) and the     *)
(* page that follows one (internal/dashboard/handler_jobs.go with          *)
(* static/jobs.js).                                                        *)
(*                                                                         *)
(* The job store lives in the memory of one process and is copied to       *)
(* jobs.json, which is written without any atomicity and whose write       *)
(* errors are ignored; it is read once, when the process starts.  Every    *)
(* access to the store is one step: it happens under JobStore.mu.  A       *)
(* goroutine per job runs the operation.                                   *)
(*                                                                         *)
(* Job ids are numbered in the order of their creation, which stands for   *)
(* both ID (nanoseconds) and CreatedAt; two jobs never start in the same   *)
(* nanosecond because the first one is saved under mu in between.          *)
(***************************************************************************)
EXTENDS Integers, Sequences, FiniteSets

CONSTANTS
  Keys,         \* what a job can be for: bench names and ProxyJobKey
  MaxFinished,  \* maxFinishedJobs
  MaxLines,     \* maxJobLines
  MaxJobs,      \* bound: jobs ever started
  MaxOutput,    \* bound: lines a job prints
  MaxCrashes    \* bound: times the dashboard is killed

ASSUME JobsAssumption ==
  /\ {MaxFinished, MaxLines} \subseteq Nat \ {0}
  /\ {MaxJobs, MaxOutput, MaxCrashes} \subseteq Nat

Ids == 1..MaxJobs

Finished == {"succeeded", "failed", "interrupted"}
Status   == {"pending", "running"} \cup Finished

\* lines holds the absolute numbers of the output lines that are kept.
Job == [key : Keys, status : Status, lines : Seq(Nat), dropped : Nat]

\* Jobs by id: the map of the store, or the list in jobs.json.
IsJobMap(js) == \E S \in SUBSET Ids : js \in [S -> Job]

VARIABLES
  up,         \* the dashboard process runs
  jobs,       \* JobStore.jobs
  byBench,    \* JobStore.byBench: key -> id of its active job
  disk,       \* what reading jobs.json gives: a list, none when it is not JSON
  gor,        \* gor[id]: what the goroutine of job id is doing
  started,    \* jobs started so far
  printed,    \* printed[id]: lines the job printed
  crashes,
  intact,     \* every write of jobs.json so far was complete
  stream,     \* the events request of the page that follows a job
  page,       \* the page: its job, the lines it shows, whether it is done
  told        \* told[id]: the final status a page was told, or "none"

storeVars == <<up, jobs, byBench, disk, gor, started, printed, crashes, intact>>
pageVars  == <<stream, page, told>>
vars      == <<storeVars, pageVars>>

Empty == [i \in {} |-> 0]

NoPage == [job |-> 0, text |-> <<>>, done |-> FALSE]

TypeOK ==
  /\ up \in BOOLEAN
  /\ IsJobMap(jobs)
  /\ IsJobMap(disk)
  /\ \E S \in SUBSET Keys : byBench \in [S -> Ids]
  /\ gor \in [Ids -> {"none", "spawned", "running"}]
  /\ started \in 0..MaxJobs
  /\ printed \in [Ids -> 0..MaxOutput]
  /\ crashes \in 0..MaxCrashes
  /\ intact \in BOOLEAN
  /\ stream \in [open : BOOLEAN, first : BOOLEAN, sent : Nat]
  /\ page \in [job : 0..MaxJobs, text : Seq(Nat), done : BOOLEAN]
  /\ told \in [Ids -> Finished \cup {"none"}]

Init ==
  /\ up = TRUE
  /\ jobs = Empty
  /\ byBench = Empty
  /\ disk = Empty
  /\ gor = [i \in Ids |-> "none"]
  /\ started = 0
  /\ printed = [i \in Ids |-> 0]
  /\ crashes = 0
  /\ intact = TRUE
  /\ stream = [open |-> FALSE, first |-> TRUE, sent |-> 0]
  /\ page = NoPage
  /\ told = [i \in Ids |-> "none"]

-----------------------------------------------------------------------------
(* Saving *)

IsFinished(js, i) == js[i].status \in Finished

NewerFinished(js, i) == {k \in DOMAIN js : k > i /\ IsFinished(js, k)}

Only(js, S) == [i \in S |-> js[i]]

\* Mutant: the cap counts every job, not only the finished ones.
KeptCountingAll(js) == Only(js, {i \in DOMAIN js :
                                   Cardinality({k \in DOMAIN js : k > i}) < MaxFinished})

\* The finished jobs that stay are the MaxFinished newest; the others all stay.
Kept(js) ==
  Only(js, {i \in DOMAIN js :
              IsFinished(js, i) => Cardinality(NewerFinished(js, i)) < MaxFinished})

\* persistLocked drops from memory what it drops from the file.  The write can
\* fail before it touches the file, or half way, which leaves no list.
Persist(js) ==
  /\ jobs' = Kept(js)
  /\ \/ disk' = Kept(js) /\ UNCHANGED intact
     \/ disk' \in {disk, Empty} /\ intact' = FALSE

-----------------------------------------------------------------------------
(* A job, from its request to its end *)

\* Mutant: a key is busy only once its job runs.
StartJobIfNotRunning(key) ==
  LET id == started + 1 IN
  /\ up
  /\ id \in Ids
  /\ key \in DOMAIN byBench => gor[byBench[key]] # "running"
  /\ started' = id
  /\ byBench' = [k \in DOMAIN byBench \cup {key} |-> IF k = key THEN id ELSE byBench[k]]
  /\ Persist([i \in DOMAIN jobs \cup {id} |->
       IF i = id THEN [key |-> key, status |-> "pending", lines |-> <<>>, dropped |-> 0]
       ELSE jobs[i]])
  /\ gor' = [gor EXCEPT ![id] = "spawned"]
  /\ UNCHANGED <<up, printed, crashes, pageVars>>

StartJob(key) ==
  LET id == started + 1 IN
  /\ up
  /\ id \in Ids
  /\ key \notin DOMAIN byBench
  /\ started' = id
  /\ byBench' = [k \in DOMAIN byBench \cup {key} |-> IF k = key THEN id ELSE byBench[k]]
  /\ Persist([i \in DOMAIN jobs \cup {id} |->
       IF i = id THEN [key |-> key, status |-> "pending", lines |-> <<>>, dropped |-> 0]
       ELSE jobs[i]])
  /\ gor' = [gor EXCEPT ![id] = "spawned"]
  /\ UNCHANGED <<up, printed, crashes, pageVars>>

RunJob(id) ==
  /\ gor[id] = "spawned"
  /\ gor' = [gor EXCEPT ![id] = "running"]
  /\ Persist([jobs EXCEPT ![id].status = "running"])
  /\ UNCHANGED <<up, byBench, started, printed, crashes, pageVars>>

\* add: the new line, and the oldest ones cut to stay within the cap.
WithLine(j, n) ==
  LET all  == Append(j.lines, n)
      over == Len(all) - MaxLines
  IN  IF over > 0
      THEN [j EXCEPT !.lines = SubSeq(all, over + 1, Len(all)), !.dropped = @ + over]
      ELSE [j EXCEPT !.lines = all]

\* A plain line stays in memory, a step is saved.
Output(id, step) ==
  /\ gor[id] = "running"
  /\ printed[id] < MaxOutput
  /\ printed' = [printed EXCEPT ![id] = @ + 1]
  /\ LET js == [jobs EXCEPT ![id] = WithLine(@, printed[id])]
     IN  IF step THEN Persist(js) ELSE jobs' = js /\ UNCHANGED <<disk, intact>>
  /\ UNCHANGED <<up, byBench, gor, started, crashes, pageVars>>

\* Mutant: a failed job keeps its key.
EndJobKeepsKey(id, result) ==
  /\ gor[id] = "running"
  /\ gor' = [gor EXCEPT ![id] = "none"]
  /\ IF result = "failed" THEN UNCHANGED byBench
     ELSE byBench' = Only(byBench, DOMAIN byBench \ {jobs[id].key})
  /\ Persist([jobs EXCEPT ![id].status = result])
  /\ UNCHANGED <<up, started, printed, crashes, pageVars>>

\* Mutant: the key is freed and the outcome told before it is saved.
EndJobUnsaved(id, result) ==
  /\ gor[id] = "running"
  /\ gor' = [gor EXCEPT ![id] = "none"]
  /\ byBench' = Only(byBench, DOMAIN byBench \ {jobs[id].key})
  /\ jobs' = [jobs EXCEPT ![id].status = result]
  /\ UNCHANGED <<up, disk, intact, started, printed, crashes, pageVars>>

EndJob(id, result) ==
  /\ gor[id] = "running"
  /\ gor' = [gor EXCEPT ![id] = "none"]
  /\ byBench' = Only(byBench, DOMAIN byBench \ {jobs[id].key})
  /\ Persist([jobs EXCEPT ![id].status = result])
  /\ UNCHANGED <<up, started, printed, crashes, pageVars>>

-----------------------------------------------------------------------------
(* The process *)

\* The dashboard is killed, or an operation panics: memory and goroutines go.
Crash ==
  /\ up
  /\ crashes < MaxCrashes
  /\ crashes' = crashes + 1
  /\ up' = FALSE
  /\ jobs' = Empty
  /\ byBench' = Empty
  /\ gor' = [i \in Ids |-> "none"]
  /\ stream' = [stream EXCEPT !.open = FALSE]
  /\ UNCHANGED <<disk, started, printed, intact, page, told>>

\* Mutant: a job read back as running keeps its status.
InterruptedNone(js) == js

\* load: nothing will finish what the process that exited left unfinished.
Interrupted(js) ==
  [i \in DOMAIN js |-> IF IsFinished(js, i) THEN js[i]
                       ELSE [js[i] EXCEPT !.status = "interrupted"]]

\* The file is saved only when something was interrupted.
Boot ==
  /\ ~up
  /\ up' = TRUE
  /\ IF Interrupted(disk) # disk
     THEN Persist(Interrupted(disk))
     ELSE jobs' = disk /\ UNCHANGED <<disk, intact>>
  /\ UNCHANGED <<byBench, gor, started, printed, crashes, pageVars>>

-----------------------------------------------------------------------------
(* A page that follows a job *)

\* A finished job has an outcome, and the page was told it.
Telling(i) == IF IsFinished(jobs, i) THEN [told EXCEPT ![i] = jobs[i].status] ELSE told

\* JobDetail renders the job as it is now, or answers that there is none.
Open(id) ==
  /\ up /\ page.job = 0
  /\ IF id \in DOMAIN jobs
     THEN /\ page' = [job |-> id, text |-> jobs[id].lines, done |-> FALSE]
          /\ told' = Telling(id)
     ELSE UNCHANGED <<page, told>>
  /\ UNCHANGED <<storeVars, stream>>

\* The browser opens the stream, and opens it again when it breaks, until the
\* script closes it on a final status.
Connect ==
  /\ page.job # 0 /\ ~page.done
  /\ up /\ ~stream.open
  /\ stream' = [open |-> TRUE, first |-> TRUE, sent |-> 0]
  /\ UNCHANGED <<storeVars, page, told>>

Disconnect ==
  /\ stream.open
  /\ stream' = [stream EXCEPT !.open = FALSE]
  /\ UNCHANGED <<storeVars, page, told>>

\* Mutant: the position is an index into the kept lines.
NewJobLinesByIndex(j, sent) == SubSeq(j.lines, sent + 1, Len(j.lines))

\* newJobLines: the kept lines whose absolute number is at least sent.
NewJobLines(j, sent) ==
  LET start == CASE sent < j.dropped                -> 0
                 [] sent > j.dropped + Len(j.lines) -> Len(j.lines)
                 [] OTHER                           -> sent - j.dropped
  IN  SubSeq(j.lines, start + 1, Len(j.lines))

\* Mutant: the page appends the first event of a stream like any other.
ShownAppending(new) == page.text \o new

\* jobs.js: the first event of a stream replaces the text, later ones append.
Shown(new) == IF stream.first THEN new ELSE page.text \o new

\* One event of the stream; the request ends with a finished or unknown job.
Event ==
  /\ stream.open
  /\ IF page.job \in DOMAIN jobs
     THEN LET j == jobs[page.job] IN
          /\ page' = [page EXCEPT !.text = Shown(NewJobLines(j, stream.sent)),
                                  !.done = j.status \in Finished]
          /\ stream' = [open |-> j.status \notin Finished, first |-> FALSE,
                        sent |-> j.dropped + Len(j.lines)]
          /\ told' = Telling(page.job)
     ELSE stream' = [stream EXCEPT !.open = FALSE] /\ UNCHANGED <<page, told>>
  /\ UNCHANGED storeVars

\* The reader moves on to another page.
Close ==
  /\ page.job # 0
  /\ page' = NoPage
  /\ stream' = [open |-> FALSE, first |-> TRUE, sent |-> 0]
  /\ UNCHANGED <<storeVars, told>>

-----------------------------------------------------------------------------
Work(id) == RunJob(id) \/ \E result \in {"succeeded", "failed"} : EndJob(id, result)

Next ==
  \/ \E key \in Keys : StartJob(key)
  \/ \E id \in Ids : Work(id) \/ Open(id) \/ \E step \in BOOLEAN : Output(id, step)
  \/ Crash \/ Boot
  \/ Connect \/ Disconnect \/ Event \/ Close

Spec == Init /\ [][Next]_vars

\* An operation ends (its external commands end), and a job that was accepted
\* is run: the Go scheduler runs every goroutine.
FairSpec == Spec /\ \A id \in Ids : WF_vars(Work(id))

-----------------------------------------------------------------------------
(* Properties *)

\* A bench never has two unfinished jobs, and its key is taken exactly while
\* it has one, with a goroutine that will finish it: a bench is neither worked
\* on twice at once nor blocked by a job nobody runs.
OneJobPerKey ==
  /\ \A i, k \in DOMAIN jobs :
        ~IsFinished(jobs, i) /\ ~IsFinished(jobs, k) /\ jobs[i].key = jobs[k].key => i = k
  /\ \A i \in DOMAIN jobs : ~IsFinished(jobs, i) =>
        jobs[i].key \in DOMAIN byBench /\ byBench[jobs[i].key] = i
  /\ \A key \in DOMAIN byBench : gor[byBench[key]] # "none"

\* However many jobs finish meanwhile, the record a goroutine works on stays in
\* the store and in an unfinished state until that goroutine ends it.
RunningJobKept ==
  \A id \in Ids : gor[id] # "none" => id \in DOMAIN jobs /\ ~IsFinished(jobs, id)

\* The absolute number of a kept line is LinesDropped plus its index, as the
\* comment on the field says, whatever was cut before.
LineNumbers ==
  \A i \in DOMAIN jobs : \A k \in DOMAIN jobs[i].lines :
     jobs[i].lines[k] = jobs[i].dropped + k - 1

\* The page that follows a job shows its lines in order and none twice, across
\* capping, reconnections and restarts of the dashboard, and a line that the
\* stream passed over was cut before it could be delivered.
PageTrue ==
  /\ \A a, b \in DOMAIN page.text : a < b => page.text[a] < page.text[b]
  /\ stream.open /\ ~stream.first /\ page.job \in DOMAIN jobs =>
       \A n \in 0..(stream.sent - 1) :
          (\E k \in DOMAIN page.text : page.text[k] = n) \/ n < jobs[page.job].dropped

\* The outcome somebody was told is the outcome for good: no restart turns it
\* into another one, unless a write of jobs.json failed.
OutcomeForGood ==
  intact => \A i \in DOMAIN jobs : told[i] # "none" => jobs[i].status = told[i]

\* The key of every accepted job is given back: the bench can be worked on
\* again, also after a failure or a crash.
KeyFreed == \A key \in Keys : key \in DOMAIN byBench ~> key \notin DOMAIN byBench
=============================================================================
