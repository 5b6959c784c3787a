----------------------------- MODULE Retention -----------------------------
(***************************************************************************)
(* Which of the scheduled archives of a bench its policy keeps             *)
(* (internal/manager/backup_retention.go, selectRetained).                 *)
(***************************************************************************)
EXTENDS Integers, FiniteSets

CONSTANTS
  MaxTime,         \* bound: the clock stops here
  HourOf,          \* HourOf[t]: the hour that t is in, by the local calendar
  DayOf, WeekOf,   \* its day and its ISO week
  RetentionFloor   \* the newest archives kept whatever the policy says

Times == 0..MaxTime

\* Later times are never in earlier buckets.
Calendar(bucket) ==
  /\ bucket \in [Times -> Nat]
  /\ \A s, t \in Times : s <= t => bucket[s] <= bucket[t]

ASSUME RetentionAssumption ==
  /\ MaxTime \in Nat /\ RetentionFloor \in Nat
  /\ Calendar(HourOf) /\ Calendar(DayOf) /\ Calendar(WeekOf)

\* An archive: when it was taken, whether it carries the attachments, who took
\* it, and what is on disk of it: the plain file, the encrypted file with its
\* header next to it, or the encrypted file alone, which cannot be identified.
Archive == [at : Times, files : BOOLEAN, trigger : {"manual", "scheduled"},
            form : {"plain", "age", "headless"}]

\* Mutant of prunable: manual archives too.
prunableAny(a) == a.form # "headless"

\* Pruning may consider readable archives of scheduled runs.
prunable(a) == a.trigger = "scheduled" /\ a.form # "headless"

Candidates(archives) == {a \in archives : prunable(a)}

\* Newest first; of two files of one archive the plain one is listed first.
Before(a, b) == a.at > b.at \/ (a.at = b.at /\ a.form = "plain" /\ b.form = "age")

First(S) == CHOOSE a \in S : \A b \in S \ {a} : Before(a, b)

\* Mutant of Favourite: the newest one even if only an older one has the files.
FavouriteNewest(S, preferFiles) == First(S)

\* The archive that stands for the archives S of one bucket.
Favourite(S, preferFiles) ==
  LET withFiles == {a \in S : a.files}
  IN  First(IF preferFiles /\ withFiles # {} THEN withFiles ELSE S)

\* One archive of each of the newest `limit` buckets that have one.
Tier(S, limit, preferFiles, bucket) ==
  LET of(k) == {a \in S : bucket[a.at] = k}
      used  == {bucket[a.at] : a \in S}
      kept  == {k \in used : Cardinality({j \in used : j > k}) < limit}
  IN  {Favourite(of(k), preferFiles) : k \in kept}

Floor(S) == {a \in S : Cardinality({b \in S : Before(b, a)}) < RetentionFloor}

\* What selectRetained keeps of the scheduled archives S under policy p.
selectRetained(S, p) ==
  Floor(S) \cup Tier(S, p.hourly, FALSE, HourOf) \cup Tier(S, p.daily, TRUE, DayOf)
           \cup Tier(S, p.weekly, TRUE, WeekOf)

-----------------------------------------------------------------------------
(* The pass over the archives that the code makes for each tier *)

\* Mutant of Visit: a bucket keeps the first of its archives.
VisitFirst(limit, preferFiles, bucket, pass, a) ==
  LET same == {c \in pass.chosen : bucket[c.at] = bucket[a.at]}
  IN  IF pass.done \/ (same = {} /\ Cardinality(pass.chosen) >= limit)
      THEN [pass EXCEPT !.done = TRUE]
      ELSE IF same = {} THEN [pass EXCEPT !.chosen = @ \cup {a}] ELSE pass

\* chosen has one archive of each bucket met so far; the pass is done at the
\* first bucket too many.
Visit(limit, preferFiles, bucket, pass, a) ==
  LET same == {c \in pass.chosen : bucket[c.at] = bucket[a.at]}
  IN  IF pass.done \/ (same = {} /\ Cardinality(pass.chosen) >= limit)
      THEN [pass EXCEPT !.done = TRUE]
      ELSE IF same = {} THEN [pass EXCEPT !.chosen = @ \cup {a}]
      ELSE IF preferFiles /\ a.files /\ \A c \in same : ~c.files
           THEN [pass EXCEPT !.chosen = (@ \ same) \cup {a}]
      ELSE pass

\* The archives are listed newest first: Nth(S, n) has n - 1 of them before it.
Nth(S, n) == CHOOSE a \in S : Cardinality({b \in S : Before(b, a)}) = n - 1

\* pass[n] is what the loop has chosen of the first n archives.
Pass(S, limit, preferFiles, bucket) ==
  LET pass[n \in 0..Cardinality(S)] ==
        IF n = 0 THEN [chosen |-> {}, done |-> FALSE]
        ELSE Visit(limit, preferFiles, bucket, pass[n - 1], Nth(S, n))
  IN  pass[Cardinality(S)].chosen

\* The passes choose what Tier says, for the archives S.
PassesAgree(S, p) ==
  /\ Pass(S, p.hourly, FALSE, HourOf) = Tier(S, p.hourly, FALSE, HourOf)
  /\ Pass(S, p.daily, TRUE, DayOf) = Tier(S, p.daily, TRUE, DayOf)
  /\ Pass(S, p.weekly, TRUE, WeekOf) = Tier(S, p.weekly, TRUE, WeekOf)
=============================================================================
