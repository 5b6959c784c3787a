------------------------- MODULE BenchRecordsProofs -------------------------
(***************************************************************************)
(* Lemmas about the contents of benches.json, for any names and records.   *)
(***************************************************************************)
EXTENDS BenchRecords, WellFoundedInduction, TLAPS

-----------------------------------------------------------------------------
(* The loop of remove() *)

\* Every non-empty set of natural numbers has a least element.
LEMMA LeastNumber ==
  ASSUME NEW T \in SUBSET Nat, T # {}
  PROVE  \E x \in T : \A y \in T : x <= y
<1>1. IsWellFoundedOn(OpToRel(<, Nat), Nat)
  BY NatLessThanWellFounded
<1>2. PICK x \in T : \A y \in T : ~(<<y, x>> \in OpToRel(<, Nat))
  BY <1>1, WFMin, Zenon
<1>3. \A y \in T : ~(y < x)
  BY <1>2 DEF OpToRel
<1> QED
  BY <1>3

\* What remove() does with the records it has seen so far and the next one.
Keep(before, b, n) == IF b.name # n THEN Append(before, b) ELSE before

\* f is the course of the loop of remove() over the first m records.
Course(f, recs, n, m) ==
  f = [i \in 0..m |-> IF i = 0 THEN <<>> ELSE Keep(f[i-1], recs[i], n)]

\* The loop of remove() can run over any number of the records.
LEMMA LoopRuns ==
  ASSUME NEW recs, NEW n, NEW len \in Nat
  PROVE  \E f : Course(f, recs, n, len)
<1> DEFINE Stuck == {m \in Nat : ~ \E f : Course(f, recs, n, m)}
<1> SUFFICES ASSUME Stuck # {}
             PROVE  FALSE
  OBVIOUS
<1>1. PICK m \in Stuck : \A k \in Stuck : m <= k
  BY LeastNumber
<1>2. CASE m = 0
  <2> DEFINE f == [i \in 0..0 |-> <<>>]
  <2>1. f = [i \in 0..0 |-> IF i = 0 THEN <<>> ELSE Keep(f[i-1], recs[i], n)]
    OBVIOUS
  <2> QED
    BY <2>1, <1>1, <1>2 DEF Course
<1>3. CASE m # 0
  <2>1. m \in Nat /\ m - 1 \in Nat /\ m - 1 \notin Stuck
    BY <1>1, <1>3
  <2>2. PICK g : Course(g, recs, n, m - 1)
    BY <2>1
  <2> DEFINE f == [i \in 0..m |-> IF i < m THEN g[i] ELSE Keep(g[m-1], recs[m], n)]
  <2>3. \A i \in 0..m : f[i] = IF i = 0 THEN <<>> ELSE Keep(f[i-1], recs[i], n)
    <3> SUFFICES ASSUME NEW i \in 0..m
                 PROVE  f[i] = IF i = 0 THEN <<>> ELSE Keep(f[i-1], recs[i], n)
      OBVIOUS
    <3> HIDE DEF Stuck
    <3>1. CASE i = m
      BY <3>1, <2>1, <1>3
    <3>2. CASE i < m
      <4>1. i \in 0..(m-1) /\ f[i] = g[i] /\ (i # 0 => i - 1 \in 0..m /\ f[i-1] = g[i-1])
        BY <3>2, <2>1
      <4>2. g[i] = IF i = 0 THEN <<>> ELSE Keep(g[i-1], recs[i], n)
        BY <4>1, <2>2, Zenon DEF Course
      <4> QED
        BY <4>1, <4>2
    <3> QED
      BY <3>1, <3>2, <2>1
  <2>4. Course(f, recs, n, m)
    BY <2>3, Zenon DEF Course
  <2> QED
    BY <2>4, <1>1
<1> QED
  BY <1>2, <1>3

\* f[k] is what remove() has filtered after the first k records.
Filters(f, recs, n) ==
  /\ f[0] = <<>>
  /\ \A k \in 1..Len(recs) : f[k] = Keep(f[k-1], recs[k], n)
  /\ remove(recs, n) = f[Len(recs)]

\* remove() returns the last of what it has filtered.
LEMMA RemoveCourse ==
  ASSUME NEW recs \in Seq(Record), NEW n
  PROVE  \E f : Filters(f, recs, n)
<1> DEFINE f == CHOOSE f : Course(f, recs, n, Len(recs))
<1>1. Len(recs) \in Nat
  OBVIOUS
<1>2. Course(f, recs, n, Len(recs))
  BY <1>1, LoopRuns, Zenon
<1>3. remove(recs, n) = f[Len(recs)]
  BY DEF remove, Course, Keep
<1> HIDE DEF f
<1>4. f[0] = <<>>
  BY <1>1, <1>2 DEF Course
<1>5. \A k \in 1..Len(recs) : f[k] = Keep(f[k-1], recs[k], n)
  BY <1>1, <1>2 DEF Course
<1> QED
  BY <1>3, <1>4, <1>5 DEF Filters

Others(n) == {b \in Record : b.name # n}

\* remove() returns a sequence of records of the store, none of which has the
\* name it was given, whatever the store holds and however often.
LEMMA RemoveClears ==
  ASSUME NEW recs \in Seq(Record), NEW n
  PROVE  remove(recs, n) \in Seq(Others(n))
<1>1. Len(recs) \in Nat
  OBVIOUS
<1>2. PICK f : Filters(f, recs, n)
  BY RemoveCourse, Zenon
<1>3. remove(recs, n) = f[Len(recs)]
  BY <1>2 DEF Filters
<1> DEFINE Wrong == {k \in Nat : k <= Len(recs) /\ f[k] \notin Seq(Others(n))}
<1>4. f[0] = <<>> /\ <<>> \in Seq(Others(n))
  BY <1>2 DEF Filters
<1>5. \A k \in 1..Len(recs) : f[k] = Keep(f[k-1], recs[k], n)
  BY <1>2 DEF Filters
<1>6. Wrong = {}
  <2> SUFFICES ASSUME Wrong # {}
               PROVE  FALSE
    OBVIOUS
  <2>1. PICK k \in Wrong : \A j \in Wrong : k <= j
    BY LeastNumber
  <2>2. k \in Nat /\ k <= Len(recs) /\ f[k] \notin Seq(Others(n))
    BY <2>1
  <2>3. k # 0
    BY <2>2, <1>4
  <2>4. k \in 1..Len(recs) /\ k - 1 \in Nat /\ k - 1 <= Len(recs)
    BY <2>2, <2>3, <1>1
  <2>5. k - 1 \notin Wrong
    BY <2>1, <2>4
  <2>6. f[k-1] \in Seq(Others(n))
    BY <2>4, <2>5
  <2>7. recs[k] \in Record
    BY <2>4
  <2>8. CASE recs[k].name # n
    <3>1. recs[k] \in Others(n)
      BY <2>7, <2>8 DEF Others
    <3>2. Append(f[k-1], recs[k]) \in Seq(Others(n))
      BY <2>6, <3>1
    <3> QED
      BY <2>2, <2>4, <1>5, <2>8, <3>2 DEF Keep
  <2>9. CASE recs[k].name = n
    BY <2>2, <2>4, <1>5, <2>6, <2>9 DEF Keep
  <2> QED
    BY <2>8, <2>9
<1> QED
  BY <1>1, <1>3, <1>6

\* No two records have one name.
Distinct(recs) == \A i, j \in DOMAIN recs : recs[i].name = recs[j].name => i = j

\* remove() only takes records away: those it keeps were there, and their names
\* stay distinct if they were.
LEMMA RemoveKeeps ==
  ASSUME NEW recs \in Seq(Record), NEW n, Distinct(recs)
  PROVE  /\ Distinct(remove(recs, n))
         /\ \A i \in DOMAIN remove(recs, n) :
               \E j \in DOMAIN recs : remove(recs, n)[i] = recs[j]
<1>1. Len(recs) \in Nat
  OBVIOUS
<1>2. PICK f : Filters(f, recs, n)
  BY RemoveCourse, Zenon
<1> DEFINE From(k) == \A i \in DOMAIN f[k] : \E j \in 1..k : f[k][i] = recs[j]
           Good(k) == f[k] \in Seq(Record) /\ Distinct(f[k]) /\ From(k)
           Wrong == {k \in Nat : k <= Len(recs) /\ ~Good(k)}
<1>3. Good(0)
  BY <1>2 DEF Distinct, Filters
<1>4. ASSUME NEW k \in 1..Len(recs), Good(k - 1)
      PROVE  Good(k)
  <2>1. f[k] = Keep(f[k-1], recs[k], n) /\ recs[k] \in Record
    BY <1>2 DEF Filters
  <2>2. CASE recs[k].name = n
    <3>1. f[k] = f[k-1]
      BY <2>1, <2>2 DEF Keep
    <3>2. From(k)
      BY <1>4, <3>1
    <3> QED
      BY <1>4, <3>1, <3>2
  <2>3. CASE recs[k].name # n
    <3> DEFINE g == f[k-1]
               m == Len(g)
    <3>1. f[k] = Append(g, recs[k]) /\ g \in Seq(Record) /\ m \in Nat
      BY <1>4, <2>1, <2>3 DEF Keep
    <3>2. Distinct(g) /\ \A i \in 1..m : \E j \in 1..(k-1) : g[i] = recs[j]
      BY <1>4, <3>1
    <3> HIDE DEF g
    <3>3. DOMAIN f[k] = 1..(m+1) /\ f[k][m+1] = recs[k] /\ \A i \in 1..m : f[k][i] = g[i]
      BY <3>1
    <3>4. f[k] \in Seq(Record)
      BY <2>1, <3>1
    <3>5. From(k)
      <4>1. \A i \in 1..m : \E j \in 1..k : f[k][i] = recs[j]
        BY <3>2, <3>3
      <4>2. \A i \in DOMAIN f[k] : i \in 1..m \/ i = m + 1
        BY <3>1, <3>3
      <4> QED
        BY <3>3, <4>1, <4>2
    <3>6. \A i \in 1..m : g[i].name # recs[k].name
      <4> SUFFICES ASSUME NEW i \in 1..m, g[i].name = recs[k].name
                   PROVE  FALSE
        OBVIOUS
      <4>1. PICK j \in 1..(k-1) : g[i] = recs[j]
        BY <3>2
      <4>2. j \in DOMAIN recs /\ k \in DOMAIN recs /\ j # k
        BY <1>1
      <4> QED
        BY <4>1, <4>2 DEF Distinct
    <3>7. \A i, j \in 1..m : g[i].name = g[j].name => i = j
      BY <3>1, <3>2 DEF Distinct
    <3>8. Distinct(f[k])
      <4> SUFFICES ASSUME NEW i \in 1..(m+1), NEW j \in 1..(m+1),
                          f[k][i].name = f[k][j].name
                   PROVE  i = j
        BY <3>3 DEF Distinct
      <4>1. (i \in 1..m \/ i = m + 1) /\ (j \in 1..m \/ j = m + 1)
        BY <3>1
      <4> QED
        BY <4>1, <3>3, <3>6, <3>7
    <3> QED
      BY <3>4, <3>5, <3>8
  <2> QED
    BY <2>2, <2>3
<1>5. Wrong = {}
  <2> SUFFICES ASSUME Wrong # {}
               PROVE  FALSE
    OBVIOUS
  <2> HIDE DEF Good
  <2>1. PICK k \in Wrong : \A j \in Wrong : k <= j
    BY LeastNumber
  <2>2. k # 0
    BY <2>1, <1>3
  <2>3. k \in 1..Len(recs) /\ k - 1 \in Nat /\ k - 1 <= Len(recs)
    BY <2>1, <2>2, <1>1
  <2>4. Good(k - 1)
    BY <2>1, <2>3
  <2> QED
    BY <2>1, <2>3, <2>4, <1>4
<1>6. Good(Len(recs))
  <2> HIDE DEF Good
  <2> QED
    BY <1>1, <1>5
<1> QED
  BY <1>1, <1>2, <1>6 DEF Filters

\* remove() takes no record of another name away.
LEMMA RemoveSpares ==
  ASSUME NEW recs \in Seq(Record), NEW n, NEW m, m # n, Exists(recs, m)
  PROVE  Exists(remove(recs, n), m)
<1>1. Len(recs) \in Nat
  OBVIOUS
<1>2. PICK f : Filters(f, recs, n)
  BY RemoveCourse, Zenon
<1> DEFINE Has(k) == \A j \in 1..k : recs[j].name # n => \E i \in DOMAIN f[k] : f[k][i] = recs[j]
           Good(k) == f[k] \in Seq(Record) /\ Has(k)
           Wrong == {k \in Nat : k <= Len(recs) /\ ~Good(k)}
<1>3. Good(0)
  BY <1>2 DEF Filters
<1>4. ASSUME NEW k \in 1..Len(recs), Good(k - 1)
      PROVE  Good(k)
  <2>1. f[k] = Keep(f[k-1], recs[k], n) /\ recs[k] \in Record
    BY <1>2 DEF Filters
  <2>2. CASE recs[k].name = n
    <3>1. f[k] = f[k-1]
      BY <2>1, <2>2 DEF Keep
    <3>2. \A j \in 1..k : recs[j].name # n => j \in 1..(k-1)
      BY <2>2
    <3> QED
      BY <1>4, <3>1, <3>2
  <2>3. CASE recs[k].name # n
    <3> DEFINE g == f[k-1]
               m2 == Len(g)
    <3>1. f[k] = Append(g, recs[k]) /\ g \in Seq(Record) /\ m2 \in Nat
      BY <1>4, <2>1, <2>3 DEF Keep
    <3>2. \A j \in 1..(k-1) : recs[j].name # n => \E i \in 1..m2 : g[i] = recs[j]
      BY <1>4, <3>1
    <3> HIDE DEF g
    <3>3. DOMAIN f[k] = 1..(m2+1) /\ f[k][m2+1] = recs[k] /\ \A i \in 1..m2 : f[k][i] = g[i]
      BY <3>1
    <3>4. f[k] \in Seq(Record)
      BY <2>1, <3>1
    <3>5. ASSUME NEW j \in 1..k, recs[j].name # n
          PROVE  \E i \in DOMAIN f[k] : f[k][i] = recs[j]
      <4>1. CASE j = k
        BY <3>1, <3>3, <4>1
      <4>2. CASE j # k
        <5>1. j \in 1..(k-1)
          BY <4>2
        <5>2. PICK i \in 1..m2 : g[i] = recs[j]
          BY <3>2, <3>5, <5>1
        <5>3. i \in DOMAIN f[k] /\ f[k][i] = recs[j]
          BY <3>1, <3>3, <5>2
        <5> QED
          BY <5>3
      <4> QED
        BY <4>1, <4>2
    <3> QED
      BY <3>4, <3>5
  <2> QED
    BY <2>2, <2>3
<1>5. Wrong = {}
  <2> SUFFICES ASSUME Wrong # {}
               PROVE  FALSE
    OBVIOUS
  <2> HIDE DEF Good
  <2>1. PICK k \in Wrong : \A j \in Wrong : k <= j
    BY LeastNumber
  <2>2. k # 0
    BY <2>1, <1>3
  <2>3. k \in 1..Len(recs) /\ k - 1 \in Nat /\ k - 1 <= Len(recs)
    BY <2>1, <2>2, <1>1
  <2>4. Good(k - 1)
    BY <2>1, <2>3
  <2> QED
    BY <2>1, <2>3, <2>4, <1>4
<1>6. Good(Len(recs))
  <2> HIDE DEF Good
  <2> QED
    BY <1>1, <1>5
<1>7. PICK j \in 1..Len(recs) : recs[j].name = m
  BY DEF Exists, Named
<1>8. PICK i \in DOMAIN f[Len(recs)] : f[Len(recs)][i] = recs[j]
  BY <1>6, <1>7
<1>9. remove(recs, n) = f[Len(recs)]
  BY <1>2 DEF Filters
<1> QED
  BY <1>7, <1>8, <1>9 DEF Exists, Named

\* The first record of a name that is there is one of the store's records.
LEMMA FirstNamedType ==
  ASSUME NEW recs \in Seq(Record), NEW n, Exists(recs, n)
  PROVE  FirstNamed(recs, n) \in DOMAIN recs
<1>1. Named(recs, n) \in SUBSET Nat /\ Named(recs, n) # {}
  BY DEF Named, Exists
<1>2. \E i \in Named(recs, n) : \A j \in Named(recs, n) : i <= j
  BY <1>1, LeastNumber
<1>3. FirstNamed(recs, n) \in Named(recs, n)
  BY <1>2 DEF FirstNamed
<1> QED
  BY <1>3 DEF Named

\* update() of a name that is there returns records, in their places and with
\* their names.
LEMMA UpdateType ==
  ASSUME NEW recs \in Seq(Record), NEW n, NEW v \in Values, Exists(recs, n)
  PROVE  /\ update(recs, n, v) \in Seq(Record)
         /\ DOMAIN update(recs, n, v) = DOMAIN recs
         /\ \A i \in DOMAIN recs : update(recs, n, v)[i].name = recs[i].name
<1> DEFINE k == FirstNamed(recs, n)
<1>1. k \in DOMAIN recs
  BY FirstNamedType
<1> HIDE DEF k
<1>2. update(recs, n, v) = [recs EXCEPT ![k].val = v]
  BY DEF update, k
<1>3. /\ recs[k] \in Record
      /\ [recs[k] EXCEPT !.val = v] \in Record
      /\ [recs[k] EXCEPT !.val = v].name = recs[k].name
  <2>1. \A b \in Record : [b EXCEPT !.val = v] \in Record /\ [b EXCEPT !.val = v].name = b.name
    BY DEF Record
  <2>2. recs[k] \in Record
    BY <1>1
  <2> QED
    BY <2>1, <2>2
<1>4. update(recs, n, v) = [recs EXCEPT ![k] = [recs[k] EXCEPT !.val = v]]
  BY <1>2, Zenon
<1> DEFINE b == [recs[k] EXCEPT !.val = v]
<1> HIDE DEF b
<1>5. [recs EXCEPT ![k] = b] \in Seq(Record) /\ DOMAIN [recs EXCEPT ![k] = b] = DOMAIN recs
  BY <1>1, <1>3 DEF b
<1>6. \A i \in DOMAIN recs : [recs EXCEPT ![k] = b][i].name = recs[i].name
  BY <1>1, <1>3 DEF b
<1> QED
  BY <1>4, <1>5, <1>6 DEF b

\* An operation the store accepts turns records into records.
LEMMA ApplyType ==
  ASSUME NEW recs \in Seq(Record), NEW o \in Ops, Accepts(o, recs)
  PROVE  Apply(o, recs) \in Seq(Record)
<1>1. CASE o \in AddOps
  BY <1>1 DEF AddOps, Apply, add
<1>2. CASE o \in RemoveOps
  <2>1. remove(recs, o.name) \in Seq(Record)
    <3>1. Seq(Others(o.name)) \subseteq Seq(Record)
      BY DEF Others
    <3> QED
      BY <3>1, RemoveClears
  <2> QED
    BY <2>1, <1>2 DEF RemoveOps, Apply
<1>3. CASE o \in UpdateOps
  <2> DEFINE i == FirstNamed(recs, o.name)
  <2>1. o.kind = "update" /\ o.val \in Values
    BY <1>3 DEF UpdateOps
  <2>2. i \in DOMAIN recs
    BY <2>1, FirstNamedType DEF Accepts
  <2> HIDE DEF i
  <2>3. \A b \in Record : [b EXCEPT !.val = o.val] \in Record
    BY <2>1 DEF Record
  <2>4. [recs EXCEPT ![i].val = o.val] \in Seq(Record)
    BY <2>2, <2>3
  <2> QED
    BY <2>1, <2>4 DEF Apply, update, i
<1> QED
  BY <1>1, <1>2, <1>3 DEF Ops
=============================================================================
