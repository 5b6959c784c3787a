---------------------------- MODULE RestoreProofs ----------------------------
(***************************************************************************)
(* Proofs about Restore: whatever the first bench is like, and however     *)
(* many operations, failures and moves of the world there are, no two      *)
(* benches share a port or an alias, archives hold what no remote has,     *)
(* a restore that works brings everything back or names what it has not,   *)
(* and one that fails leaves nothing.                                      *)
(*                                                                         *)
(* The invariant follows an operation through its steps.  Shapes says what *)
(* the records are made of, Course which kind of operation can be at which *)
(* step and what it has made by then.  SharedInv adds to NothingShared     *)
(* that the port chosen at the gates is nobody's: the port of a bench that *)
(* came meanwhile would be, and none can, since one ffm process runs.      *)
(* ArchiveInv relates the commits of a manifest to the source that travels *)
(* with it and to what was there.  Achieved says, step by step, what the   *)
(* rebuilt bench has: the code of the plan, drift named before the site is *)
(* migrated, the archive's data and key, the code served.  At the end that *)
(* is Promised.                                                            *)
(*                                                                         *)
(* A dump is read in one pass: Between and Reading say what is known       *)
(* between its blocks and inside them, and DumpsAreRead that the rows of   *)
(* the apps table are found, however many and in whatever layout.          *)
(***************************************************************************)
EXTENDS Restore, Sequences, FiniteSetTheorems, WellFoundedInduction, TLAPS

-----------------------------------------------------------------------------
(* Reading a dump *)

\* Of some numbers one is the smallest.
LEMMA LeastNumber ==
  ASSUME NEW T \in SUBSET Nat, T # {}
  PROVE  \E x \in T : \A y \in T : x <= y
<1>1. IsWellFoundedOn(OpToRel(<, Nat), Nat)
  BY NatLessThanWellFounded, Zenon
<1>2. PICK x \in T : \A y \in T : ~(<<y, x>> \in OpToRel(<, Nat))
  BY <1>1, WFMin, Zenon
<1>3. \A y \in T : ~(y < x)
  BY <1>2 DEF OpToRel
<1> QED
  BY <1>3

\* Some lines, whatever they hold.
IsLines(lines) == \E S : lines \in Seq(S)

\* f[n] is what is known after n lines.
ScanCourse(f, d, lines, m) == f[0] = d /\ \A n \in 1..m : f[n] = D!scanLine(f[n - 1], lines[n])

\* However many lines there are, they can be read one by one.
LEMMA ScanRuns ==
  ASSUME NEW d, NEW lines, NEW len \in Nat
  PROVE  \E f : ScanCourse(f, d, lines, len)
<1> DEFINE Stuck == {m \in Nat : ~ \E f : ScanCourse(f, d, lines, m)}
<1> SUFFICES ASSUME Stuck # {} PROVE FALSE
  OBVIOUS
<1>1. PICK m \in Stuck : \A i \in Stuck : m <= i
  BY LeastNumber
<1>2. m # 0
  <2>1. ScanCourse([n \in {0} |-> d], d, lines, 0)
    BY DEF ScanCourse
  <2> QED
    BY <1>1, <2>1
<1>3. m \in Nat /\ m - 1 \in Nat /\ m - 1 \notin Stuck
  BY <1>1, <1>2
<1>4. PICK g : ScanCourse(g, d, lines, m - 1)
  BY <1>3
<1> DEFINE f == [n \in 0..m |-> IF n = m THEN D!scanLine(g[m - 1], lines[m]) ELSE g[n]]
<1>5. f[0] = d
  BY <1>2, <1>3, <1>4 DEF ScanCourse
<1>6. ASSUME NEW n \in 1..m PROVE f[n] = D!scanLine(f[n - 1], lines[n])
  <2>1. n \in 0..m /\ n - 1 \in 0..m /\ n - 1 # m /\ f[n - 1] = g[n - 1]
    BY <1>3
  <2>2. CASE n = m
    BY <2>1, <2>2
  <2>3. CASE n # m
    <3>1. n \in 1..(m - 1)
      BY <1>3, <2>3
    <3> QED
      BY <1>4, <2>1, <2>3, <3>1 DEF ScanCourse
  <2> QED
    BY <2>2, <2>3
<1>7. ScanCourse(f, d, lines, m)
  BY <1>5, <1>6 DEF ScanCourse
<1> QED
  BY <1>1, <1>7

\* There is one way to read them.
LEMMA ScanFollows ==
  ASSUME NEW d, NEW lines, IsLines(lines), NEW f, ScanCourse(f, d, lines, Len(lines))
  PROVE  D!Scan(d, lines) = f[Len(lines)]
<1> DEFINE N == Len(lines)
           known(g) == g = [n \in 0..N |-> IF n = 0 THEN d ELSE D!scanLine(g[n - 1], lines[n])]
           g == CHOOSE g : known(g)
           h == [n \in 0..N |-> f[n]]
<1>1. N \in Nat
  BY DEF IsLines
<1>2. D!Scan(d, lines) = g[N]
  BY Zenon DEF D!Scan
<1> HIDE DEF g, N
<1>3. known(h)
  <2>1. ASSUME NEW n \in 0..N PROVE f[n] = IF n = 0 THEN d ELSE D!scanLine(h[n - 1], lines[n])
    <3>1. CASE n = 0
      BY <3>1 DEF ScanCourse, N
    <3>2. CASE n # 0
      <4>1. n \in 1..N /\ n - 1 \in 0..N
        BY <1>1, <3>2
      <4> QED
        BY <3>2, <4>1 DEF ScanCourse, N
    <3> QED
      BY <3>1, <3>2
  <2> QED
    BY <2>1, Zenon
<1>4. known(g)
  BY <1>3, Zenon DEF g
<1>5. ASSUME NEW n \in 0..N PROVE g[n] = IF n = 0 THEN d ELSE D!scanLine(g[n - 1], lines[n])
  BY <1>4, Zenon
<1> HIDE DEF known, h
<1> DEFINE Wrong == {n \in Nat : n =< N /\ g[n] # f[n]}
<1>6. Wrong = {}
  <2> SUFFICES ASSUME Wrong # {} PROVE FALSE
    OBVIOUS
  <2>1. PICK n \in Wrong : \A i \in Wrong : n <= i
    BY LeastNumber
  <2>2. n \in 0..N /\ g[n] # f[n]
    BY <1>1, <2>1
  <2>3. n # 0
    BY <1>5, <2>2 DEF ScanCourse
  <2>4. n \in 1..N /\ n - 1 \in Nat /\ n - 1 =< N /\ n - 1 \notin Wrong
    BY <1>1, <2>1, <2>2, <2>3
  <2>5. g[n - 1] = f[n - 1]
    BY <2>4
  <2>6. f[n] = D!scanLine(f[n - 1], lines[n])
    BY <2>4 DEF ScanCourse, N
  <2> QED
    BY <1>5, <2>2, <2>3, <2>5, <2>6
<1> QED
  BY <1>1, <1>2, <1>6 DEF N

\* Lines put one after the other are lines.
LEMMA LinesAre ==
  /\ IsLines(<<>>)
  /\ \A a : IsLines(<<a>>)
  /\ \A a, b : IsLines(<<a, b>>)
  /\ \A a, b, c : IsLines(<<a, b, c>>)
  /\ \A a, b : IsLines(a) /\ IsLines(b) => IsLines(a \o b)
<1>1. <<>> \in Seq({})
  OBVIOUS
<1>2. /\ \A a : <<a>> \in Seq({a})
      /\ \A a, b : <<a, b>> \in Seq({a, b})
      /\ \A a, b, c : <<a, b, c>> \in Seq({a, b, c})
  OBVIOUS
<1>3. ASSUME NEW a, NEW b, IsLines(a), IsLines(b) PROVE IsLines(a \o b)
  <2>1. PICK S : a \in Seq(S)
    BY <1>3 DEF IsLines
  <2>2. PICK T : b \in Seq(T)
    BY <1>3 DEF IsLines
  <2>3. a \in Seq(S \cup T) /\ b \in Seq(S \cup T)
    BY <2>1, <2>2
  <2>4. a \o b \in Seq(S \cup T)
    BY <2>3
  <2> QED
    BY <2>4 DEF IsLines
<1> QED
  BY <1>1, <1>2, <1>3 DEF IsLines

\* So is one line for each of some numbers.
LEMMA EachIsALine ==
  ASSUME NEW N \in Nat, NEW f
  PROVE  IsLines([i \in 1..N |-> f[i]])
<1>1. [i \in 1..N |-> f[i]] \in Seq({f[i] : i \in 1..N})
  OBVIOUS
<1> QED
  BY <1>1 DEF IsLines

\* No line tells nothing.
LEMMA ScanNone ==
  ASSUME NEW d
  PROVE  D!Scan(d, <<>>) = d
<1>1. ScanCourse([n \in {0} |-> d], d, <<>>, Len(<<>>))
  BY DEF ScanCourse
<1> QED
  BY <1>1, LinesAre, ScanFollows

\* A single line.
LEMMA ScanOne ==
  ASSUME NEW d, NEW l
  PROVE  D!Scan(d, <<l>>) = D!scanLine(d, l)
<1> DEFINE f == [n \in 0..1 |-> IF n = 0 THEN d ELSE D!scanLine(d, l)]
<1>1. Len(<<l>>) = 1 /\ f[0] = d /\ f[1] = D!scanLine(d, l)
  OBVIOUS
<1> HIDE DEF f
<1>2. ASSUME NEW n \in 1..1 PROVE f[n] = D!scanLine(f[n - 1], <<l>>[n])
  <2>1. n = 1 /\ n - 1 = 0 /\ <<l>>[n] = l
    OBVIOUS
  <2> QED
    BY <1>1, <2>1
<1>3. ScanCourse(f, d, <<l>>, Len(<<l>>))
  BY <1>1, <1>2 DEF ScanCourse
<1> QED
  BY <1>1, <1>3, LinesAre, ScanFollows

\* Lines read in two parts.
LEMMA ScanOn ==
  ASSUME NEW d, NEW a, NEW b, IsLines(a), IsLines(b)
  PROVE  D!Scan(d, a \o b) = D!Scan(D!Scan(d, a), b)
<1> DEFINE A == Len(a)
           B == Len(b)
           c == a \o b
<1>1. /\ A \in Nat /\ B \in Nat /\ Len(c) = A + B
      /\ \A n \in 1..A : c[n] = a[n]
      /\ \A n \in 1..B : c[A + n] = b[n]
  <2>1. PICK S : a \in Seq(S)
    BY DEF IsLines
  <2>2. PICK T : b \in Seq(T)
    BY DEF IsLines
  <2>3. a \in Seq(S \cup T) /\ b \in Seq(S \cup T)
    BY <2>1, <2>2
  <2> QED
    BY <2>3
<1>2. PICK f : ScanCourse(f, d, a, A)
  BY <1>1, ScanRuns
<1>3. PICK g : ScanCourse(g, f[A], b, B)
  BY <1>1, ScanRuns
<1>4. D!Scan(d, a) = f[A] /\ D!Scan(f[A], b) = g[B]
  BY <1>2, <1>3, ScanFollows
<1> HIDE DEF A, B, c
<1> DEFINE h == [n \in 0..(A + B) |-> IF n =< A THEN f[n] ELSE g[n - A]]
<1>5. h[0] = d
  BY <1>1, <1>2 DEF ScanCourse
<1>6. ASSUME NEW n \in 1..(A + B) PROVE h[n] = D!scanLine(h[n - 1], c[n])
  <2>1. CASE n =< A
    <3>1. n \in 1..A /\ h[n] = f[n] /\ h[n - 1] = f[n - 1]
      BY <1>1, <2>1
    <3> QED
      BY <1>1, <1>2, <3>1 DEF ScanCourse
  <2>2. CASE n > A
    <3>1. n - A \in 1..B /\ A + (n - A) = n /\ h[n] = g[n - A]
      BY <1>1, <2>2
    <3>2. c[n] = b[n - A]
      BY <1>1, <3>1
    <3>3. h[n - 1] = g[(n - A) - 1]
      <4>1. CASE n = A + 1
        <5>1. n - 1 = A /\ (n - A) - 1 = 0 /\ n - 1 \in 0..(A + B)
          BY <1>1, <4>1
        <5>2. h[n - 1] = f[A]
          BY <1>1, <5>1
        <5>3. g[0] = f[A]
          BY <1>3 DEF ScanCourse
        <5> QED
          BY <5>1, <5>2, <5>3
      <4>2. CASE n # A + 1
        <5>1. n - 1 \in 0..(A + B) /\ ~(n - 1 =< A) /\ (n - 1) - A = (n - A) - 1
          BY <1>1, <2>2, <4>2
        <5> QED
          BY <5>1
      <4> QED
        BY <4>1, <4>2
    <3> QED
      BY <1>3, <3>1, <3>2, <3>3 DEF ScanCourse
  <2> QED
    BY <1>1, <2>1, <2>2
<1>7. ScanCourse(h, d, c, Len(c))
  <2> HIDE DEF h
  <2> QED
    BY <1>1, <1>5, <1>6 DEF ScanCourse
<1>8. h[A + B] = g[B]
  <2>1. CASE B = 0
    BY <1>1, <1>3, <2>1 DEF ScanCourse
  <2>2. CASE B # 0
    BY <1>1, <2>2
  <2> QED
    BY <2>1, <2>2
<1>9. IsLines(c)
  BY LinesAre DEF c
<1>10. D!Scan(d, c) = h[Len(c)]
  <2> HIDE DEF h
  <2> QED
    BY <1>7, <1>9, ScanFollows
<1> QED
  BY <1>1, <1>4, <1>8, <1>10 DEF c

\* Two lines.
LEMMA ScanTwo ==
  ASSUME NEW d, NEW k, NEW l
  PROVE  D!Scan(d, <<k, l>>) = D!scanLine(D!scanLine(d, k), l)
<1> DEFINE d1 == D!scanLine(d, k)
           d2 == D!scanLine(d1, l)
           s == <<k, l>>
           f == [n \in 0..2 |-> IF n = 0 THEN d ELSE IF n = 1 THEN d1 ELSE d2]
<1>1. s \in Seq({k, l}) /\ Len(s) = 2 /\ s[1] = k /\ s[2] = l
  OBVIOUS
<1>2. f[0] = d /\ f[1] = d1 /\ f[2] = d2
  OBVIOUS
<1> HIDE DEF f, s
<1>3. ASSUME NEW n \in 1..2 PROVE f[n] = D!scanLine(f[n - 1], s[n])
  <2>1. CASE n = 1
    BY <1>1, <1>2, <2>1
  <2>2. CASE n = 2
    BY <1>1, <1>2, <2>2
  <2> QED
    BY <2>1, <2>2
<1>4. ScanCourse(f, d, s, Len(s)) /\ IsLines(s)
  BY <1>1, <1>2, <1>3 DEF ScanCourse, IsLines
<1> QED
  BY <1>1, <1>2, <1>4, ScanFollows DEF s

\* Three lines.
LEMMA ScanThree ==
  ASSUME NEW d, NEW k, NEW l, NEW m
  PROVE  D!Scan(d, <<k, l, m>>) = D!scanLine(D!scanLine(D!scanLine(d, k), l), m)
<1> DEFINE d1 == D!scanLine(d, k)
           d2 == D!scanLine(d1, l)
           d3 == D!scanLine(d2, m)
           s == <<k, l, m>>
           f == [n \in 0..3 |-> IF n = 0 THEN d ELSE IF n = 1 THEN d1 ELSE IF n = 2 THEN d2 ELSE d3]
<1>1. s \in Seq({k, l, m}) /\ Len(s) = 3 /\ s[1] = k /\ s[2] = l /\ s[3] = m
  OBVIOUS
<1>2. f[0] = d /\ f[1] = d1 /\ f[2] = d2 /\ f[3] = d3
  OBVIOUS
<1> HIDE DEF f, s
<1>3. ASSUME NEW n \in 1..3 PROVE f[n] = D!scanLine(f[n - 1], s[n])
  <2>1. CASE n = 1
    BY <1>1, <1>2, <2>1
  <2>2. CASE n = 2
    BY <1>1, <1>2, <2>2
  <2>3. CASE n = 3
    BY <1>1, <1>2, <2>3
  <2> QED
    BY <2>1, <2>2, <2>3
<1>4. ScanCourse(f, d, s, Len(s)) /\ IsLines(s)
  BY <1>1, <1>2, <1>3 DEF ScanCourse, IsLines
<1> QED
  BY <1>1, <1>2, <1>4, ScanFollows DEF s

\* What the pass knows, and where it is between two blocks of the dump.
ScanFields == {"engine", "auth", "user", "hasApps", "apps", "metaBranch", "in", "cols", "buf", "bad"}

IsScan(d) == d = [x \in ScanFields |-> d[x]]

Reading(d, in, cols, apps) == IsScan(d) /\ d.in = in /\ d.cols = cols /\ d.apps = apps /\ d.buf = {} /\ d.bad = FALSE

Between(d, apps) == Reading(d, "none", d.cols, apps)

\* Changing a field leaves the others.
LEMMA ScanKept ==
  ASSUME NEW d, IsScan(d), NEW e
  PROVE  /\ IsScan([d EXCEPT !.engine = e])
         /\ IsScan([d EXCEPT !.buf = e])
         /\ IsScan([d EXCEPT !.apps = e])
         /\ IsScan([d EXCEPT !.in = "none", !.buf = {}, !.apps = e])
<1>1. IsScan([d EXCEPT !.engine = e])
  BY DEF IsScan, ScanFields
<1>2. IsScan([d EXCEPT !.buf = e])
  BY DEF IsScan, ScanFields
<1>3. IsScan([d EXCEPT !.apps = e])
  BY DEF IsScan, ScanFields
<1>4. IsScan([d EXCEPT !.in = "none", !.buf = {}, !.apps = e])
  BY DEF IsScan, ScanFields
<1> QED
  BY <1>1, <1>2, <1>3, <1>4

\* The block Frappe puts first says nothing of the apps.
LEMMA MetadataRead ==
  ASSUME NEW d, NEW apps, Between(d, apps), NEW branch
  PROVE  IsLines(D!Metadata(branch)) /\ Between(D!Scan(d, D!Metadata(branch)), apps)
<1>1. CASE branch = None
  BY <1>1, ScanNone, LinesAre DEF D!Metadata
<1>2. CASE branch # None
  <2> DEFINE l1 == D!Bare("begin metadata", "none")
             l2 == D!Bare("branch", branch)
             l3 == D!Bare("end metadata", "none")
             d1 == D!scanLine(d, l1)
             d2 == D!scanLine(d1, l2)
             d3 == D!scanLine(d2, l3)
  <2>1. D!Metadata(branch) = <<l1, l2, l3>>
    BY <1>2 DEF D!Metadata
  <2>2. Reading(d1, "metadata", d.cols, apps)
    BY DEF Between, Reading, IsScan, ScanFields, D!scanLine, D!Bare, D!Line
  <2> HIDE DEF d1
  <2>3. Reading(d2, "metadata", d.cols, apps)
    BY <2>2 DEF Reading, IsScan, ScanFields, D!scanLine, D!Bare, D!Line
  <2> HIDE DEF d2
  <2>4. Reading(d3, "none", d.cols, apps)
    BY <2>3 DEF Reading, IsScan, ScanFields, D!scanLine, D!Bare, D!Line
  <2> HIDE DEF d3, l1, l2, l3
  <2>5. D!Scan(d, <<l1, l2, l3>>) = d3
    BY ScanThree DEF d1, d2, d3
  <2>6. IsLines(<<l1, l2, l3>>)
    BY LinesAre
  <2> QED
    BY <2>1, <2>4, <2>5, <2>6 DEF Between, Reading
<1> QED
  BY <1>1, <1>2

\* Nor does the banner, the first line of the dump itself.
LEMMA BannerRead ==
  ASSUME NEW d, NEW apps, Between(d, apps), NEW engine
  PROVE  IsLines(<<D!Bare("banner", engine)>>) /\ Between(D!Scan(d, <<D!Bare("banner", engine)>>), apps)
<1>1. Between(D!scanLine(d, D!Bare("banner", engine)), apps)
  BY DEF Between, Reading, IsScan, ScanFields, D!scanLine, D!Bare, D!Line, D!Outside
<1> QED
  BY <1>1, ScanOne, LinesAre

\* Nor the tables every site has, also after an INSERT without rows, which goes on.
LEMMA RestRead ==
  ASSUME NEW d, NEW apps, NEW in \in {"none", "insert"}, Reading(d, in, d.cols, apps)
  PROVE  /\ IsLines(D!Rest)
         /\ LET e == D!Scan(d, D!Rest) IN Reading(e, in, e.cols, apps)
<1> DEFINE l1 == D!Bare("create", "__Auth")
           l2 == D!Bare("create", "tabUser")
           d1 == D!scanLine(d, l1)
           d2 == D!scanLine(d1, l2)
<1>1. D!Rest = <<l1, l2>>
  BY DEF D!Rest
<1>2. Reading(d1, in, d.cols, apps)
  <2>1. CASE in = "none"
    BY <2>1 DEF Reading, IsScan, ScanFields, D!scanLine, D!Bare, D!Line, D!Outside, D!CreateTable, D!AppsTable
  <2>2. CASE in = "insert"
    BY <2>2 DEF Reading, IsScan, ScanFields, D!scanLine, D!Bare, D!Line, D!Outside, D!CreateTable, D!AppsTable
  <2> QED
    BY <2>1, <2>2
<1> HIDE DEF d1
<1>3. Reading(d2, in, d.cols, apps)
  BY <1>2 DEF Reading, IsScan, ScanFields, D!scanLine, D!Bare, D!Line, D!Outside, D!CreateTable, D!AppsTable
<1> HIDE DEF d2, l1, l2
<1>4. D!Scan(d, <<l1, l2>>) = d2
  <2>1. \A k, l : D!Scan(d, <<k, l>>) = D!scanLine(D!scanLine(d, k), l)
    BY ScanTwo
  <2> QED
    BY <2>1, Zenon DEF d1, d2
<1>5. IsLines(<<l1, l2>>)
  BY LinesAre
<1> QED
  BY <1>1, <1>3, <1>4, <1>5 DEF Reading

\* The definition of the apps table gives its columns.
LEMMA DefinitionRead ==
  ASSUME NEW d, NEW apps, Between(d, apps), NEW cols
  PROVE  /\ IsLines(D!Definition(cols))
         /\ Reading(D!Scan(d, D!Definition(cols)), "none", cols, apps)
<1> DEFINE l1 == D!Bare("create", D!AppsTable)
           l2 == D!Line("column", "none", cols, {}, FALSE)
           l3 == D!Bare("close", "none")
           d1 == D!scanLine(d, l1)
           d2 == D!scanLine(d1, l2)
           d3 == D!scanLine(d2, l3)
<1>1. D!Definition(cols) = <<l1, l2, l3>>
  BY DEF D!Definition
<1>2. Reading(d1, "create", {}, apps)
  BY DEF Between, Reading, IsScan, ScanFields, D!scanLine, D!Bare, D!Line, D!Outside, D!CreateTable, D!AppsTable
<1> HIDE DEF d1
<1>3. Reading(d2, "create", cols, apps)
  BY <1>2 DEF Reading, IsScan, ScanFields, D!scanLine, D!Bare, D!Line
<1> HIDE DEF d2
<1>4. Reading(d3, "none", cols, apps)
  BY <1>3 DEF Reading, IsScan, ScanFields, D!scanLine, D!Bare, D!Line
<1> HIDE DEF d3, l1, l2, l3
<1>5. D!Scan(d, <<l1, l2, l3>>) = d3
  BY ScanThree DEF d1, d2, d3
<1>6. IsLines(<<l1, l2, l3>>)
  BY LinesAre
<1> QED
  BY <1>1, <1>4, <1>5, <1>6

\* The rows of a finite table, one after the other, are all its rows.
LEMMA RowsInOrder ==
  ASSUME NEW rows, IsFiniteSet(rows)
  PROVE  LET s == D!SetToSeq(rows)
         IN  /\ Len(s) = Cardinality(rows) /\ DOMAIN s = 1..Cardinality(rows) /\ Cardinality(rows) \in Nat
             /\ {s[i] : i \in 1..Cardinality(rows)} = rows
<1> DEFINE N == Cardinality(rows)
           s == D!SetToSeq(rows)
<1>1. N \in Nat /\ ExistsBijection(1..N, rows)
  BY FS_CardinalityType
<1>2. PICK f : f \in Bijection(1..N, rows)
  BY <1>1 DEF ExistsBijection
<1>3. f \in [1..N -> rows] /\ \A a, b \in 1..N : f[a] = f[b] => a = b
  BY <1>2 DEF Bijection, Injection, IsInjective
<1>4. s = CHOOSE g \in [1..N -> rows] : \A a, b \in DOMAIN g : g[a] = g[b] => a = b
  BY Zenon DEF D!SetToSeq, D!IsInjective, D!Cardinality, Cardinality
<1> HIDE DEF s, N
<1>5. s \in [1..N -> rows] /\ \A a, b \in 1..N : s[a] = s[b] => a = b
  <2> DEFINE P(g) == g \in [1..N -> rows] /\ \A a, b \in DOMAIN g : g[a] = g[b] => a = b
  <2>1. s = CHOOSE g : P(g)
    BY <1>4, Zenon
  <2>2. P(f)
    BY <1>3
  <2>3. P(s)
    <3> HIDE DEF P
    <3> QED
      BY <2>1, <2>2, Zenon
  <2> QED
    BY <2>3
<1>6. s \in Injection(1..N, rows)
  BY <1>5 DEF Injection, IsInjective
<1>7. Cardinality(1..N) = Cardinality(rows)
  BY <1>1, FS_Interval DEF N
<1>8. s \in Surjection(1..N, rows)
  BY <1>6, <1>7, FS_Injection
<1>9. {s[i] : i \in 1..N} = rows
  BY <1>5, <1>8 DEF Surjection
<1>10. Len(s) = N
  BY <1>1, <1>5
<1> QED
  BY <1>1, <1>5, <1>9, <1>10 DEF N, s

\* A column list on the INSERT, or none: the columns are those of the table.
LEMMA InsertRead ==
  ASSUME NEW d, NEW apps, NEW cols, Reading(d, "none", cols, apps), "app_name" \in cols,
         NEW listed \in {{}, cols}, NEW rows
  PROVE  /\ Reading(D!scanLine(d, D!Line("insert", D!AppsTable, listed, rows, TRUE)), "none", cols, apps \cup rows)
         /\ Reading(D!scanLine(d, D!Line("insert", D!AppsTable, listed, {}, FALSE)), "insert", cols, apps)
<1>1. (IF listed = {} THEN cols ELSE listed) = cols
  OBVIOUS
<1> DEFINE whole == D!Line("insert", D!AppsTable, listed, rows, TRUE)
           part == D!Line("insert", D!AppsTable, listed, {}, FALSE)
           at(e) == [d EXCEPT !.engine = e]
<1>2. ASSUME NEW e PROVE Reading(at(e), "none", cols, apps)
  <2>1. IsScan(at(e))
    BY ScanKept DEF Reading
  <2> QED
    BY <2>1 DEF Reading, IsScan, ScanFields
<1>3. ASSUME NEW l \in {whole, part}
      PROVE  D!scanLine(d, l) = D!Insert(at(D!Engine(d, l)), l)
  <2>1. l.k = "insert" /\ l.t = D!AppsTable
    <3>1. whole.k = "insert" /\ whole.t = D!AppsTable
      BY DEF D!Line
    <3>2. part.k = "insert" /\ part.t = D!AppsTable
      BY DEF D!Line
    <3> HIDE DEF whole, part
    <3> QED
      BY <3>1, <3>2
  <2> DEFINE x == at(D!Engine(d, l))
  <2>2. x.in = "none" /\ x.bad = FALSE
    BY <1>2 DEF Reading
  <2>3. D!Outside(x, l) = D!Insert(x, l)
    BY <2>1 DEF D!Outside
  <2>4. D!scanLine(d, l) = D!Outside(x, l)
    <3> HIDE DEF part, whole
    <3> QED
      BY <2>1, <2>2 DEF D!scanLine
  <2> QED
    BY <2>3, <2>4
<1>4. ASSUME NEW x, Reading(x, "none", cols, apps)
      PROVE  /\ Reading(D!Insert(x, whole), "none", cols, apps \cup rows)
             /\ Reading(D!Insert(x, part), "insert", cols, apps)
  BY <1>1, <1>4 DEF Reading, IsScan, ScanFields, D!Insert, D!addInsert, D!Line
<1> HIDE DEF at, whole, part
<1> QED
  BY <1>2, <1>3, <1>4 DEF whole, part

\* A row of an open block is kept: in the buffer, or at once.
LEMMA RowRead ==
  ASSUME NEW d, IsScan(d), d.bad = FALSE, NEW r
  PROVE  /\ d.in = "insert" =>
              D!scanLine(d, D!Line("row", "none", {}, {r}, FALSE)) = [d EXCEPT !.buf = @ \cup {r}]
         /\ d.in = "insert" /\ "app_name" \in d.cols =>
              D!scanLine(d, D!Line("row", "none", {}, {r}, TRUE)) =
                [d EXCEPT !.in = "none", !.buf = {}, !.apps = @ \cup (d.buf \cup {r})]
         /\ d.in = "copy" /\ "app_name" \in d.cols =>
              D!scanLine(d, D!Line("row", "none", {}, {r}, FALSE)) = [d EXCEPT !.apps = @ \cup {r}]
<1>1. \A last : [d EXCEPT !.engine = D!Engine(d, D!Line("row", "none", {}, {r}, last))] = d
  BY DEF IsScan, ScanFields, D!Engine, D!Line
<1>2. d.in = "insert" =>
        D!scanLine(d, D!Line("row", "none", {}, {r}, FALSE)) = [d EXCEPT !.buf = @ \cup {r}]
  BY <1>1 DEF IsScan, ScanFields, D!scanLine, D!addInsert, D!Line
<1>3. d.in = "insert" /\ "app_name" \in d.cols =>
        D!scanLine(d, D!Line("row", "none", {}, {r}, TRUE)) =
          [d EXCEPT !.in = "none", !.buf = {}, !.apps = @ \cup (d.buf \cup {r})]
  BY <1>1 DEF IsScan, ScanFields, D!scanLine, D!addInsert, D!Line
<1>4. d.in = "copy" /\ "app_name" \in d.cols =>
        D!scanLine(d, D!Line("row", "none", {}, {r}, FALSE)) = [d EXCEPT !.apps = @ \cup {r}]
  BY <1>1 DEF IsScan, ScanFields, D!scanLine, D!addInsert, D!Line
<1> QED
  BY <1>2, <1>3, <1>4

\* One line for each row, the last of which ends the statement or not.
RowLines(lines, rows, last) ==
  /\ IsLines(lines)
  /\ \E s :
       /\ \A i \in 1..Len(lines) :
            lines[i] = D!Line("row", "none", {}, {s[i]}, IF i = Len(lines) THEN last ELSE FALSE)
       /\ \A r : r \in rows <=> \E i \in 1..Len(lines) : r = s[i]

\* All rows of an INSERT that goes on, which the last of them ends.
LEMMA InsertedRead ==
  ASSUME NEW d, NEW apps, NEW cols, Reading(d, "insert", cols, apps), "app_name" \in cols,
         NEW lines, NEW rows, RowLines(lines, rows, TRUE), Len(lines) # 0
  PROVE  Reading(D!Scan(d, lines), "none", cols, apps \cup rows)
<1>1. PICK s : /\ \A i \in 1..Len(lines) :
                     lines[i] = D!Line("row", "none", {}, {s[i]}, IF i = Len(lines) THEN TRUE ELSE FALSE)
               /\ \A r : r \in rows <=> \E i \in 1..Len(lines) : r = s[i]
  BY DEF RowLines
<1>2. Len(lines) \in Nat /\ IsLines(lines)
  BY DEF RowLines, IsLines
<1> DEFINE N == Len(lines)
           upTo(n) == {s[i] : i \in 1..n}
           before(n) == [d EXCEPT !.buf = upTo(n)]
           end == [d EXCEPT !.in = "none", !.buf = {}, !.apps = @ \cup rows]
           f == [n \in 0..N |-> IF n = N THEN end ELSE before(n)]
<1>3. upTo(0) = {} /\ upTo(N) = rows /\ \A n \in 1..N : upTo(n) = upTo(n - 1) \cup {s[n]}
  <2>1. N \in Nat /\ \A n \in 1..N : 1..n = (1..(n - 1)) \cup {n}
    BY <1>2
  <2> QED
    BY <1>1, <2>1
<1> HIDE DEF upTo
<1>4. before(0) = d
  BY <1>3 DEF Reading, IsScan, ScanFields
<1>5. ASSUME NEW n \in 1..N PROVE f[n] = D!scanLine(f[n - 1], lines[n])
  <2> DEFINE x == before(n - 1)
  <2>1. f[n - 1] = x
    <3>1. n - 1 \in 0..N /\ n - 1 # N
      OBVIOUS
    <3> HIDE DEF before, end
    <3> QED
      BY <3>1
  <2>2. IsScan(x) /\ x.bad = FALSE /\ x.in = "insert" /\ "app_name" \in x.cols /\ x.buf = upTo(n - 1)
    BY DEF Reading, IsScan, ScanFields
  <2>3. x.buf \cup {s[n]} = upTo(n)
    BY <1>3, <2>2
  <2>4. CASE n = N
    <3>1. D!scanLine(x, lines[n]) = [x EXCEPT !.in = "none", !.buf = {}, !.apps = @ \cup (x.buf \cup {s[n]})]
      <4> HIDE DEF x
      <4>1. D!scanLine(x, D!Line("row", "none", {}, {s[n]}, TRUE)) =
              [x EXCEPT !.in = "none", !.buf = {}, !.apps = @ \cup (x.buf \cup {s[n]})]
        BY <2>2, RowRead
      <4> QED
        BY <1>1, <2>4, <4>1
    <3>2. [x EXCEPT !.in = "none", !.buf = {}, !.apps = @ \cup rows] = end
      BY DEF Reading, IsScan, ScanFields
    <3>3. x.buf \cup {s[n]} = rows
      BY <1>3, <2>3, <2>4
    <3>4. f[n] = end
      <4> HIDE DEF before, end
      <4> QED
        BY <2>4
    <3> HIDE DEF f, end, x
    <3> QED
      BY <2>1, <3>1, <3>2, <3>3, <3>4
  <2>5. CASE n # N
    <3>1. D!scanLine(x, lines[n]) = [x EXCEPT !.buf = @ \cup {s[n]}]
      <4> HIDE DEF x
      <4>1. D!scanLine(x, D!Line("row", "none", {}, {s[n]}, FALSE)) = [x EXCEPT !.buf = @ \cup {s[n]}]
        BY <2>2, RowRead
      <4> QED
        BY <1>1, <2>5, <4>1
    <3>2. [x EXCEPT !.buf = upTo(n)] = before(n)
      BY DEF Reading, IsScan, ScanFields
    <3>3. f[n] = before(n)
      <4> HIDE DEF before, end
      <4> QED
        BY <2>5
    <3> HIDE DEF f, before, x
    <3> QED
      BY <2>1, <2>3, <3>1, <3>2, <3>3
  <2> QED
    BY <2>4, <2>5
<1>6. f[0] = d /\ f[N] = end
  <2> HIDE DEF before, end
  <2> QED
    BY <1>4
<1>7. Reading(end, "none", cols, apps \cup rows)
  BY DEF Reading, IsScan, ScanFields
<1> HIDE DEF f, end
<1>8. ScanCourse(f, d, lines, Len(lines))
  BY <1>5, <1>6 DEF ScanCourse
<1> QED
  BY <1>2, <1>6, <1>7, <1>8, ScanFollows

\* All rows of a COPY, whatever their number.
LEMMA CopiedRead ==
  ASSUME NEW d, NEW apps, NEW cols, Reading(d, "copy", cols, apps), "app_name" \in cols,
         NEW lines, NEW rows, RowLines(lines, rows, FALSE)
  PROVE  Reading(D!Scan(d, lines), "copy", cols, apps \cup rows)
<1>1. PICK s : /\ \A i \in 1..Len(lines) :
                     lines[i] = D!Line("row", "none", {}, {s[i]}, IF i = Len(lines) THEN FALSE ELSE FALSE)
               /\ \A r : r \in rows <=> \E i \in 1..Len(lines) : r = s[i]
  BY DEF RowLines
<1>2. Len(lines) \in Nat /\ IsLines(lines)
  BY DEF RowLines, IsLines
<1> DEFINE N == Len(lines)
           upTo(n) == apps \cup {s[i] : i \in 1..n}
           before(n) == [d EXCEPT !.apps = upTo(n)]
           f == [n \in 0..N |-> before(n)]
<1>3. upTo(0) = apps /\ upTo(N) = apps \cup rows /\ \A n \in 1..N : upTo(n) = upTo(n - 1) \cup {s[n]}
  <2>1. N \in Nat /\ \A n \in 1..N : 1..n = (1..(n - 1)) \cup {n}
    BY <1>2
  <2> QED
    BY <1>1, <2>1
<1> HIDE DEF upTo
<1>4. before(0) = d
  BY <1>3 DEF Reading, IsScan, ScanFields
<1>5. ASSUME NEW n PROVE Reading(before(n), "copy", cols, upTo(n))
  BY DEF Reading, IsScan, ScanFields
<1>6. ASSUME NEW n \in 1..N PROVE f[n] = D!scanLine(f[n - 1], lines[n])
  <2> DEFINE x == before(n - 1)
  <2>1. f[n - 1] = x /\ f[n] = before(n)
    <3>1. n - 1 \in 0..N
      OBVIOUS
    <3> HIDE DEF before
    <3> QED
      BY <3>1
  <2>2. Reading(x, "copy", cols, upTo(n - 1))
    BY <1>5
  <2>3. x.apps \cup {s[n]} = upTo(n)
    BY <1>3, <2>2 DEF Reading
  <2>4. [x EXCEPT !.apps = upTo(n)] = before(n)
    BY DEF Reading, IsScan, ScanFields
  <2> HIDE DEF f, before, x
  <2>5. D!scanLine(x, lines[n]) = [x EXCEPT !.apps = @ \cup {s[n]}]
    <3>1. D!scanLine(x, D!Line("row", "none", {}, {s[n]}, FALSE)) = [x EXCEPT !.apps = @ \cup {s[n]}]
      BY <2>2, RowRead DEF Reading
    <3> QED
      BY <1>1, <3>1
  <2> QED
    BY <2>1, <2>3, <2>4, <2>5
<1>7. f[0] = d /\ f[N] = before(N)
  <2> HIDE DEF before
  <2> QED
    BY <1>4
<1>8. Reading(before(N), "copy", cols, apps \cup rows)
  BY <1>3, <1>5
<1> HIDE DEF f, before
<1>9. ScanCourse(f, d, lines, Len(lines))
  BY <1>6, <1>7 DEF ScanCourse
<1> QED
  BY <1>2, <1>7, <1>8, <1>9, ScanFollows

\* The rows of a MariaDB dump, on one line or on one line each; without rows
\* the INSERT stays open.
LEMMA MariaRead ==
  ASSUME NEW d, NEW cols, Reading(d, "none", cols, {}), "app_name" \in cols,
         NEW rows, IsFiniteSet(rows), NEW oneLine \in BOOLEAN, NEW listed \in {{}, cols}
  PROVE  LET a == D!MariaRows(rows, oneLine, listed)
         IN  /\ IsLines(a)
             /\ \E in \in {"none", "insert"} : Reading(D!Scan(d, a), in, cols, rows)
<1> DEFINE a == D!MariaRows(rows, oneLine, listed)
           whole == D!Line("insert", D!AppsTable, listed, rows, TRUE)
           part == D!Line("insert", D!AppsTable, listed, {}, FALSE)
           N == Cardinality(rows)
           s == D!SetToSeq(rows)
           each == [i \in DOMAIN s |-> D!Line("row", "none", {}, {s[i]}, i = Len(s))]
<1>1. Reading(D!scanLine(d, whole), "none", cols, rows) /\ Reading(D!scanLine(d, part), "insert", cols, {})
  <2>1. {} \cup rows = rows
    OBVIOUS
  <2>2. /\ Reading(D!scanLine(d, whole), "none", cols, {} \cup rows)
        /\ Reading(D!scanLine(d, part), "insert", cols, {})
    BY InsertRead, Zenon
  <2> HIDE DEF whole, part
  <2> QED
    BY <2>1, <2>2
<1>2. CASE oneLine
  <2>1. a = <<whole>>
    BY <1>2 DEF D!MariaRows
  <2> HIDE DEF a, whole
  <2> QED
    BY <1>1, <2>1, ScanOne, LinesAre DEF a
<1>3. CASE ~oneLine
  <2>1. a = <<part>> \o each
    BY <1>3, Zenon DEF D!MariaRows
  <2>2. Len(s) = N /\ DOMAIN s = 1..N /\ N \in Nat /\ {s[i] : i \in 1..N} = rows
    BY RowsInOrder
  <2> DEFINE d1 == D!scanLine(d, part)
  <2>3. Reading(d1, "insert", cols, {})
    BY <1>1
  <2>4. D!Scan(d, <<part>>) = d1
    BY ScanOne
  <2> HIDE DEF a, d1, part, s, N
  <2>5. CASE N = 0
    <3>1. rows = {}
      BY <2>5, FS_EmptySet DEF N
    <3>2. each = <<>>
      <4> DEFINE l(i) == D!Line("row", "none", {}, {s[i]}, i = Len(s))
      <4>1. each = [i \in DOMAIN s |-> l(i)]
        BY <2>2, <2>5, Zenon
      <4>2. DOMAIN s = 1..0
        BY <2>2, <2>5
      <4>3. [i \in 1..0 |-> l(i)] = <<>>
        <5> HIDE DEF l
        <5> QED
          OBVIOUS
      <4> HIDE DEF l, each
      <4> QED
        BY <4>1, <4>2, <4>3
    <3> HIDE DEF each
    <3>3. IsLines(a) /\ D!Scan(d, a) = d1
      <4>1. IsLines(<<part>>) /\ IsLines(each) /\ IsLines(<<part>> \o each)
        BY <3>2, LinesAre, Zenon
      <4>2. D!Scan(d, <<part>> \o each) = D!Scan(D!Scan(d, <<part>>), each)
        BY <4>1, ScanOn
      <4>3. D!Scan(d1, each) = d1
        BY <3>2, ScanNone
      <4> QED
        BY <2>1, <2>4, <4>1, <4>2, <4>3
    <3> QED
      BY <2>3, <3>1, <3>3 DEF a
  <2>6. CASE N # 0
    <3>1. RowLines(each, rows, TRUE) /\ Len(each) = N
      <4>1. each = [i \in 1..N |-> each[i]] /\ Len(each) = N
        BY <2>2
      <4>2. IsLines(each)
        <5> HIDE DEF each
        <5> QED
          BY <2>2, <4>1, EachIsALine
      <4>3. ASSUME NEW i \in 1..N
            PROVE  each[i] = D!Line("row", "none", {}, {s[i]}, IF i = N THEN TRUE ELSE FALSE)
        BY <2>2
      <4>4. \A r : r \in rows <=> \E i \in 1..N : r = s[i]
        BY <2>2
      <4> HIDE DEF each
      <4> QED
        BY <4>1, <4>2, <4>3, <4>4 DEF RowLines
    <3>2. Reading(D!Scan(d1, each), "none", cols, {} \cup rows)
      <4> HIDE DEF each
      <4> QED
        BY <2>3, <2>6, <3>1, InsertedRead
    <3>3. {} \cup rows = rows
      OBVIOUS
    <3> HIDE DEF each
    <3>4. IsLines(a) /\ D!Scan(d, a) = D!Scan(d1, each)
      <4>1. IsLines(<<part>>) /\ IsLines(<<part>> \o each)
        BY <3>1, LinesAre, Zenon DEF RowLines
      <4>2. D!Scan(d, <<part>> \o each) = D!Scan(D!Scan(d, <<part>>), each)
        BY <3>1, <4>1, ScanOn DEF RowLines
      <4> QED
        BY <2>1, <2>4, <4>1, <4>2
    <3> QED
      BY <3>3, <3>4, <3>2 DEF a
  <2> QED
    BY <2>5, <2>6
<1> QED
  BY <1>2, <1>3

\* The rows of a PostgreSQL dump.
LEMMA PostgresRead ==
  ASSUME NEW d, NEW cols, Reading(d, "none", cols, {}), "app_name" \in cols, NEW rows, IsFiniteSet(rows)
  PROVE  LET a == D!PostgresRows(rows, cols)
         IN  IsLines(a) /\ Reading(D!Scan(d, a), "none", cols, rows)
<1> DEFINE a == D!PostgresRows(rows, cols)
           first == D!Line("copy", D!AppsTable, cols, {}, FALSE)
           end == D!Bare("end copy", "none")
           N == Cardinality(rows)
           s == D!SetToSeq(rows)
           each == [i \in 1..N |-> D!Line("row", "none", {}, {s[i]}, FALSE)]
           d1 == D!scanLine(d, first)
           d2 == D!Scan(d1, each)
           d3 == D!scanLine(d2, end)
<1>1. a = (<<first>> \o each) \o <<end>>
  BY Zenon DEF D!PostgresRows, D!Cardinality, Cardinality
<1>2. N \in Nat /\ \A r : r \in rows <=> \E i \in 1..N : r = s[i]
  <2>1. N \in Nat /\ {s[i] : i \in 1..N} = rows
    BY RowsInOrder
  <2> HIDE DEF s, N
  <2> QED
    BY <2>1
<1>3. Reading(d1, "copy", cols, {})
  BY DEF Reading, IsScan, ScanFields, D!scanLine, D!Line, D!Outside, D!AppsTable
<1> HIDE DEF d1, s, N
<1>4. IsLines(each) /\ Reading(d2, "copy", cols, rows)
  <2>1. RowLines(each, rows, FALSE)
    <3>1. each = [i \in 1..N |-> each[i]] /\ Len(each) = N
      BY <1>2
    <3>2. IsLines(each)
      <4> HIDE DEF each
      <4> QED
        BY <1>2, <3>1, EachIsALine
    <3>3. \A i \in 1..N : each[i] = D!Line("row", "none", {}, {s[i]}, IF i = N THEN FALSE ELSE FALSE)
      OBVIOUS
    <3> HIDE DEF each
    <3> QED
      BY <1>2, <3>1, <3>2, <3>3 DEF RowLines
  <2>2. {} \cup rows = rows
    OBVIOUS
  <2> HIDE DEF each
  <2>3. Reading(d2, "copy", cols, {} \cup rows)
    BY <1>3, <2>1, CopiedRead
  <2> HIDE DEF d2
  <2> QED
    BY <2>1, <2>2, <2>3 DEF RowLines
<1> HIDE DEF each, d2
<1>5. Reading(d3, "none", cols, rows)
  BY <1>4 DEF Reading, IsScan, ScanFields, D!scanLine, D!Bare, D!Line
<1> HIDE DEF a, d3, first, end
<1>6. D!Scan(d, <<first>> \o each) = d2 /\ IsLines(<<first>> \o each)
  <2>1. IsLines(<<first>>) /\ IsLines(<<first>> \o each)
    BY <1>4, LinesAre, Zenon
  <2>2. D!Scan(d, <<first>> \o each) = D!Scan(D!Scan(d, <<first>>), each)
    BY <1>4, <2>1, ScanOn
  <2>3. D!Scan(d, <<first>>) = d1
    BY ScanOne, Zenon DEF d1
  <2> QED
    BY <2>1, <2>2, <2>3 DEF d2
<1>7. D!Scan(d, (<<first>> \o each) \o <<end>>) = d3 /\ IsLines((<<first>> \o each) \o <<end>>)
  <2>1. IsLines(<<end>>) /\ IsLines((<<first>> \o each) \o <<end>>)
    BY <1>6, LinesAre, Zenon
  <2>2. D!Scan(d, (<<first>> \o each) \o <<end>>) = D!Scan(D!Scan(d, <<first>> \o each), <<end>>)
    BY <1>6, <2>1, ScanOn
  <2>3. D!Scan(d2, <<end>>) = d3
    BY ScanOne, Zenon DEF d3
  <2> QED
    BY <1>6, <2>1, <2>2, <2>3
<1> QED
  BY <1>1, <1>5, <1>7 DEF a

\* A block of lines that holds the apps table and nothing else.
AppsBlock(a, rows) ==
  /\ IsLines(a)
  /\ \A d : Between(d, {}) => \E in \in {"none", "insert"} :
               LET e == D!Scan(d, a) IN Reading(e, in, e.cols, rows)

\* The table's definition and then its rows are such a block.
LEMMA BlockRead ==
  ASSUME NEW rows, NEW cols, NEW b, IsLines(b),
         \A d : Reading(d, "none", cols, {}) =>
                  \E in \in {"none", "insert"} : Reading(D!Scan(d, b), in, cols, rows)
  PROVE  AppsBlock(D!Definition(cols) \o b, rows)
<1> DEFINE a == D!Definition(cols)
<1>1. IsLines(a)
  <2>1. Between(D!Start, {})
    BY DEF Between, Reading, IsScan, ScanFields, D!Start
  <2> QED
    BY <2>1, DefinitionRead
<1>2. IsLines(a \o b)
  BY <1>1, LinesAre
<1>3. ASSUME NEW d, Between(d, {})
      PROVE  \E in \in {"none", "insert"} : LET e == D!Scan(d, a \o b) IN Reading(e, in, e.cols, rows)
  <2>1. Reading(D!Scan(d, a), "none", cols, {})
    BY <1>3, DefinitionRead
  <2> HIDE DEF a
  <2>2. D!Scan(d, a \o b) = D!Scan(D!Scan(d, a), b)
    BY <1>1, ScanOn
  <2>3. PICK in \in {"none", "insert"} : Reading(D!Scan(D!Scan(d, a), b), in, cols, rows)
    BY <2>1
  <2> QED
    BY <2>2, <2>3 DEF Reading
<1> QED
  BY <1>2, <1>3 DEF AppsBlock

\* Wherever the block of the apps table stands, the pass finds its rows.
LEMMA WholeRead ==
  ASSUME NEW rows, NEW a, AppsBlock(a, rows), NEW branch, NEW engine,
         NEW lines \in D!Whole(branch, engine, a)
  PROVE  D!inspectDump(lines).apps = rows
<1> DEFINE m == D!Metadata(branch)
           b == <<D!Bare("banner", engine)>>
           d1 == D!Scan(D!Start, m)
           d2 == D!Scan(d1, b)
<1>1. Between(D!Start, {})
  BY DEF Between, Reading, IsScan, ScanFields, D!Start
<1>2. IsLines(m) /\ Between(d1, {})
  BY <1>1, MetadataRead
<1>3. IsLines(b) /\ Between(d2, {})
  BY <1>2, BannerRead
<1>4. IsLines(D!Rest) /\ IsLines(a)
  <2>1. Reading(d2, "none", d2.cols, {})
    BY <1>3 DEF Between
  <2> HIDE DEF d2
  <2> QED
    BY <2>1, RestRead DEF AppsBlock
<1> HIDE DEF m, b
<1>5. IsLines(m \o b) /\ D!Scan(D!Start, m \o b) = d2
  BY <1>2, <1>3, ScanOn, LinesAre
<1> HIDE DEF d1, d2
<1>6. CASE lines = ((m \o b) \o a) \o D!Rest
  <2> DEFINE d3 == D!Scan(d2, a)
             d4 == D!Scan(d3, D!Rest)
  <2>1. PICK in \in {"none", "insert"} : Reading(d3, in, d3.cols, rows)
    BY <1>3 DEF AppsBlock
  <2>2. Reading(d4, in, d4.cols, rows)
    <3> HIDE DEF d3
    <3> QED
      BY <2>1, RestRead
  <2>3. IsLines((m \o b) \o a) /\ D!Scan(D!Start, (m \o b) \o a) = d3
    BY <1>4, <1>5, ScanOn, LinesAre
  <2> HIDE DEF d3
  <2>4. D!Scan(D!Start, ((m \o b) \o a) \o D!Rest) = d4
    BY <1>4, <2>3, ScanOn
  <2> HIDE DEF d4
  <2> QED
    BY <1>6, <2>2, <2>4 DEF Reading, D!inspectDump
<1>7. CASE lines = ((m \o b) \o D!Rest) \o a
  <2> DEFINE d3 == D!Scan(d2, D!Rest)
             d4 == D!Scan(d3, a)
  <2>1. Between(d3, {})
    <3>1. Reading(d2, "none", d2.cols, {})
      BY <1>3 DEF Between
    <3>2. Reading(d3, "none", d3.cols, {})
      BY <3>1, RestRead
    <3> QED
      BY <3>2 DEF Between
  <2>2. PICK in \in {"none", "insert"} : Reading(d4, in, d4.cols, rows)
    <3> HIDE DEF d3
    <3> QED
      BY <2>1 DEF AppsBlock
  <2>3. IsLines((m \o b) \o D!Rest) /\ D!Scan(D!Start, (m \o b) \o D!Rest) = d3
    BY <1>4, <1>5, ScanOn, LinesAre
  <2> HIDE DEF d3
  <2>4. D!Scan(D!Start, ((m \o b) \o D!Rest) \o a) = d4
    BY <1>4, <2>3, ScanOn
  <2> HIDE DEF d4
  <2> QED
    BY <1>7, <2>2, <2>4 DEF Reading, D!inspectDump
<1> QED
  BY <1>6, <1>7 DEF m, b, D!Whole

\* Whatever its layout, its engine and the number of its apps, the one pass
\* over a dump finds the rows of the installed-apps table, all of them and no
\* other (inspectDump).
THEOREM DumpsAreRead ==
  ASSUME NEW rows, IsFiniteSet(rows), NEW branch
  PROVE  \A lines \in D!DumpsOf(rows, branch) : D!inspectDump(lines).apps = rows
<1>1. "app_name" \in D!Columns
  BY DEF D!Columns
<1>2. \E d : Reading(d, "none", D!Columns, {})
  <2>1. Reading([D!Start EXCEPT !.cols = D!Columns], "none", D!Columns, {})
    BY DEF Reading, IsScan, ScanFields, D!Start
  <2> QED
    BY <2>1
<1>3. ASSUME NEW table \in D!MariaBlocks(rows)
      PROVE  AppsBlock(table, rows)
  <2>1. PICK one \in BOOLEAN, listed \in {{}, D!Columns} :
          table = D!Definition(D!Columns) \o D!MariaRows(rows, one, listed)
    BY <1>3 DEF D!MariaBlocks
  <2>2. IsLines(D!MariaRows(rows, one, listed))
    BY <1>1, <1>2, MariaRead
  <2>3. \A d : Reading(d, "none", D!Columns, {}) =>
          \E in \in {"none", "insert"} : Reading(D!Scan(d, D!MariaRows(rows, one, listed)), in, D!Columns, rows)
    BY <1>1, MariaRead
  <2> QED
    BY <2>1, <2>2, <2>3, BlockRead
<1>4. AppsBlock(D!PostgresBlock(rows), rows)
  <2>1. IsLines(D!PostgresRows(rows, D!Columns))
    BY <1>1, <1>2, PostgresRead
  <2>2. \A d : Reading(d, "none", D!Columns, {}) =>
          \E in \in {"none", "insert"} : Reading(D!Scan(d, D!PostgresRows(rows, D!Columns)), in, D!Columns, rows)
    BY <1>1, PostgresRead
  <2> QED
    BY <2>1, <2>2, BlockRead DEF D!PostgresBlock
<1>5. ASSUME NEW lines \in D!DumpsOf(rows, branch)
      PROVE  \E table, engine : AppsBlock(table, rows) /\ lines \in D!Whole(branch, engine, table)
  <2>1. \/ \E table \in D!MariaBlocks(rows) : lines \in D!Whole(branch, "mariadb", table)
        \/ lines \in D!Whole(branch, "postgres", D!PostgresBlock(rows))
    BY <1>5, Zenon DEF D!DumpsOf
  <2> QED
    BY <1>3, <1>4, <2>1
<1> QED
  BY <1>5, WholeRead

-----------------------------------------------------------------------------
(* Shapes *)

BranchOrNone == Branches \cup {None}

IsBench(b) ==
  /\ b = [port |-> b.port, domain |-> b.domain, aliases |-> b.aliases, frappe |-> b.frappe, apps |-> b.apps]
  /\ b.frappe.branch \in BranchOrNone

IsHost(h) ==
  /\ h = [dir |-> h.dir, volumes |-> h.volumes, up |-> h.up, data |-> h.data, files |-> h.files, key |-> h.key,
          pw |-> h.pw, code |-> h.code, patched |-> h.patched, migrated |-> h.migrated, serves |-> h.serves]
  /\ h.data = [v |-> h.data.v, apps |-> h.data.apps] /\ h.data.apps \subseteq Apps
  /\ IsFiniteSet(h.data.apps)
  /\ IsCode(h.code)

IsInfo(i) ==
  /\ i = [git |-> i.git, commit |-> i.commit, branch |-> i.branch, tag |-> i.tag, remote |-> i.remote,
          remoteBranch |-> i.remoteBranch, unpushed |-> i.unpushed, edits |-> i.edits, source |-> i.source,
          reason |-> i.reason]
  /\ i.remoteBranch \in BranchOrNone /\ i.tag \in BranchOrNone
  /\ i.branch \in BranchOrNone \cup {"HEAD"}

IsArch(m) ==
  /\ m = [name |-> m.name, bench |-> m.bench, domain |-> m.domain, port |-> m.port, aliases |-> m.aliases,
          frappe |-> m.frappe, apps |-> m.apps, installed |-> m.installed, infos |-> m.infos, trees |-> m.trees,
          was |-> m.was, data |-> m.data, files |-> m.files, key |-> m.key, damaged |-> m.damaged,
          foreign |-> m.foreign]
  /\ m.name \in Names \cup {None} /\ m.frappe.branch \in BranchOrNone
  /\ m.data = [v |-> m.data.v, apps |-> m.data.apps] /\ m.data.apps \subseteq Apps
  /\ IsFiniteSet(m.data.apps)
  /\ \A a \in DOMAIN m.infos : IsInfo(m.infos[a])
  /\ \A a \in DOMAIN m.trees : IsCheckout(m.trees[a])

IsOp(o) ==
  /\ o = [kind |-> o.kind, pc |-> o.pc, target |-> o.target, source |-> o.source, opts |-> o.opts, m |-> o.m,
          port |-> o.port, started |-> o.started, warned |-> o.warned, ok |-> o.ok, made |-> o.made,
          left |-> o.left]
  /\ o.opts.over \in Overrides

IsRepos(r) ==
  /\ r = [tip |-> r.tip, served |-> r.served]
  /\ r.tip = [x \in Repos |-> r.tip[x]]
  /\ \A x \in Repos :
       /\ r.tip[x] = [b \in Branches |-> r.tip[x][b]]
       /\ \A b \in Branches : IsCommit(r.tip[x][b]) /\ r.tip[x][b].line # "own"
  /\ \A s \in r.served : s = <<s[1], s[2]>> /\ IsCommit(s[2]) /\ s[2].line # "own"

BenchesOK == bench = [n \in AllNames |-> bench[n]] /\ \A n \in AllNames : IsBench(bench[n])
HostsOK   == host = [n \in AllNames |-> host[n]] /\ \A n \in AllNames : IsHost(host[n])

Shapes == IsRepos(repos) /\ BenchesOK /\ HostsOK /\ IsArch(arch) /\ IsOp(op) /\ IsArch(op.m)

-----------------------------------------------------------------------------
(* The course of an operation *)

Backing   == {"collect", "dump", "write"}
Before    == Backing \cup {"read", "gates", "create"}
Rebuild   == {"unpack", "pin", "drift", "config", "load", "password", "settings", "migrate", "build", "restart",
              "record"}
Verifying == {"ping", "discard"}
After     == Rebuild \cup {"undo"} \cup Verifying

Course ==
  /\ op.pc \in {"idle", "finished"} \cup Before \cup After
  /\ op.kind \in {"none", "backup", "clone", "restore", "verify", "import"}
  /\ op.kind = "none" => op.pc = "idle"
  /\ op.kind = "backup" => op.pc \in Backing \cup {"finished"}
  /\ op.pc \in Backing => op.kind \in {"backup", "clone"} /\ op.source \in Names
  /\ op.kind \notin {"none", "backup"} =>
       op.target \in AllNames /\ (op.kind = "verify" <=> op.target = Throwaway)
  /\ op.pc \in Verifying => op.kind = "verify"
  /\ op.pc \in Before \/ op.kind \in {"none", "backup"} => ~op.made
  /\ op.pc # "finished" => op.left = "nothing"
  /\ op.pc = "finished" => ~staging

SharedInv ==
  /\ NothingShared
  /\ bench[Throwaway].aliases = {}
  /\ At("create") /\ op.port # 0 => op.port \notin Claimed

\* What an archive says of the apps and of the database goes together.
Consistent(m) ==
  /\ \A a \in DOMAIN m.infos \cap m.installed : m.infos[a].commit.line = "own" => Archived(m.infos[a])
  /\ \A a \in DOMAIN m.was : a \in DOMAIN m.infos /\ m.infos[a].commit \in {NoCommit, m.was[a].head}
  /\ m.data.apps \subseteq m.installed \cup {"frappe"}

ArchiveInv ==
  /\ Consistent(arch) /\ Consistent(op.m)
  /\ op.pc \in {"dump", "write"} => DOMAIN op.m.infos = DOMAIN host[op.source].code
  /\ At("dump") => host[op.source].data.apps = op.m.installed
  /\ Portable

\* What is achieved of the target at each step.
AfterDrift    == {"config", "load", "password", "settings", "migrate", "build", "restart", "record"}
AfterLoad     == {"password", "settings", "migrate", "build", "restart", "record"}
AfterPassword == {"settings", "migrate", "build", "restart", "record"}

Planned ==
  op.pc \in {"create"} \cup Rebuild =>
    DOMAIN Plan \subseteq Apps /\ FromArchive(Plan) \subseteq DOMAIN op.m.trees

Fetched ==
  op.pc \in Rebuild =>
    /\ DOMAIN Target.code = IF At("unpack") THEN Cloned ELSE DOMAIN Plan
    /\ \A a \in DOMAIN Plan \ FromArchive(Plan) :
         Target.code[a].remote = RepoOf(Plan[a].spec) /\ Plan[a].spec # NoSpec

\* Code that is not the archived one has been named.
Named ==
  op.pc \in AfterDrift =>
    \A a \in pinnable(op.m, Plan) \cap DOMAIN Target.code :
      op.m.infos[a].commit \in {NoCommit, Target.code[a].head} \/ a \in op.warned

Filled ==
  /\ op.pc \in AfterLoad \cup {"load"} /\ op.m.key # None => Target.key = op.m.key
  /\ op.pc \in AfterLoad => Target.data = op.m.data /\ Target.files = op.m.files
  /\ op.pc \in AfterPassword => Target.pw = "record"

Served ==
  /\ op.pc \in {"build", "restart", "record"} => Target.migrated = Heads(Target.code)
  /\ op.pc \in {"restart", "record"} => Target.patched
  /\ op.pc = "record" => Target.serves = Heads(Target.code)

Achieved == Planned /\ Fetched /\ Named /\ Filled /\ Served

-----------------------------------------------------------------------------
(* Shapes stay *)

\* The empty values have their shapes.
LEMMA NoneShapes ==
  /\ IsBench(NoRec) /\ IsHost(NoHost) /\ IsArch(NoArch) /\ IsOp(NoOp) /\ NoOp.m = NoArch
<1>1. IsBench(NoRec)
  BY DEF IsBench, NoRec, NoSpec, BranchOrNone
<1>2. IsCode(NoApps)
  BY DEF IsCode, NoApps
<1>3. IsHost(NoHost)
  BY <1>2, FS_EmptySet DEF IsHost, NoHost, NoData
<1>4. IsArch(NoArch)
  BY FS_EmptySet DEF IsArch, NoArch, NoApps, NoData, NoSpec, BranchOrNone
<1>5. NoOpts.over \in Overrides
  BY DEF NoOpts, Overrides
<1>6. IsOp(NoOp) /\ NoOp.m = NoArch
  BY <1>5 DEF IsOp, NoOp
<1> QED
  BY <1>1, <1>3, <1>4, <1>6

\* A host whose entry of one name changes.
LEMMA PutHost ==
  ASSUME HostsOK, NEW n, NEW h, IsHost(h), host' = [host EXCEPT ![n] = h]
  PROVE  HostsOK'
  BY DEF HostsOK

\* A table of benches whose entry of one name changes.
LEMMA PutBench ==
  ASSUME BenchesOK, NEW n, NEW b, IsBench(b), bench' = [bench EXCEPT ![n] = b]
  PROVE  BenchesOK'
  BY DEF BenchesOK

-----------------------------------------------------------------------------
(* What a backup records *)

\* What git says of a checkout makes a record of an app, with its commit.
LEMMA ProbeInfo ==
  ASSUME NEW c, IsCheckout(c)
  PROVE  /\ IsInfo(applyProbe(c))
         /\ applyProbe(c).commit \in {NoCommit, c.head}
         /\ applyProbe(c).source = None
<1>1. RemoteBranch(c) \in BranchOrNone
  <2>1. CASE c.on = {}
    BY <2>1 DEF RemoteBranch, BranchOrNone
  <2>2. CASE c.on # {}
    BY <2>2 DEF RemoteBranch, BranchOrNone, IsCheckout
  <2> QED
    BY <2>1, <2>2
<1>2. IsInfo(NoInfo) /\ NoInfo.commit = NoCommit /\ NoInfo.source = None
  BY DEF IsInfo, NoInfo, BranchOrNone
<1> QED
  BY <1>1, <1>2 DEF applyProbe, IsInfo, NoInfo, BranchOrNone, IsCheckout

\* A commit of nobody else's is a reason to archive the app.
LEMMA OwnTravels ==
  ASSUME NEW c, IsCheckout(c), applyProbe(c).commit.line = "own"
  PROVE  vendorReason(applyProbe(c), FALSE) \in {"no-remote", "unpushed"}
<1>1. NoCommit.line # "own"
  BY RestoreAssumption DEF NoCommit
<1>2. applyProbe(c).commit = c.head /\ c.head # NoCommit
  BY <1>1, ProbeInfo
<1>3. c.git /\ c.on = {} /\ ~c.tagged
  BY <1>2 DEF IsCheckout
<1> QED
  BY <1>1, <1>2, <1>3 DEF applyProbe, vendorReason, NoInfo

\* The manifest has a record for every checkout.
LEMMA PlannedInfos ==
  ASSUME NEW code, IsCode(code), NEW used, NEW infos,
         infos = planAppSources([a \in DOMAIN code |-> applyProbe(code[a])], used, {}, None)
  PROVE  /\ DOMAIN infos = DOMAIN code
         /\ \A a \in DOMAIN code :
              /\ IsInfo(infos[a])
              /\ infos[a].commit \in {NoCommit, code[a].head}
              /\ infos[a].commit.line = "own" /\ a \in used => Archived(infos[a])
<1>1. DOMAIN infos = DOMAIN code
  BY DEF planAppSources
<1>2. ASSUME NEW a \in DOMAIN code
      PROVE  /\ IsInfo(infos[a])
             /\ infos[a].commit \in {NoCommit, code[a].head}
             /\ infos[a].commit.line = "own" /\ a \in used => Archived(infos[a])
  <2> DEFINE i == applyProbe(code[a])
             asked == IF a \in used THEN vendorReason(i, FALSE) ELSE None
             reason == IF a \in used /\ asked = None /\ a = None /\ i.edits THEN "dirty-mounted" ELSE asked
  <2>1. infos[a] = IF reason # None THEN [i EXCEPT !.source = "archive", !.reason = reason]
                   ELSE IF i.git /\ i.remote # None THEN [i EXCEPT !.source = "git"] ELSE i
    BY <1>1 DEF planAppSources, vendorReason
  <2>2. IsCheckout(code[a])
    BY DEF IsCode
  <2>3. IsInfo(i) /\ i.commit \in {NoCommit, code[a].head}
    BY <2>2, ProbeInfo
  <2>4. i.commit.line = "own" /\ a \in used => reason # None
    BY <2>2, OwnTravels, RestoreAssumption
  <2> HIDE DEF i, reason
  <2>5. IsInfo(infos[a]) /\ infos[a].commit = i.commit
    BY <2>1, <2>3 DEF IsInfo
  <2>6. reason # None => Archived(infos[a])
    BY <2>1, <2>3 DEF IsInfo, Archived
  <2> QED
    BY <2>3, <2>4, <2>5, <2>6
<1> QED
  BY <1>1, <1>2

-----------------------------------------------------------------------------
(* What a restore plans *)

\* What the manifest says of an app, or says of one it does not know, names a ref or none.
LEMMA InfoShape ==
  ASSUME NEW m, IsArch(m), NEW a
  PROVE  IsInfo(InfoOf(m, a)) /\ CloneBranch(InfoOf(m, a)) \in BranchOrNone
<1>1. IsInfo(NoInfo)
  BY DEF IsInfo, NoInfo, BranchOrNone
<1>2. IsInfo(InfoOf(m, a))
  BY <1>1 DEF InfoOf, IsArch
<1> QED
  BY <1>2 DEF IsInfo, CloneBranch, BranchOrNone

\* Every app of the record and of the site is planned, and frappe.
LEMMA PlanDomain ==
  ASSUME NEW m, NEW over
  PROVE  /\ DOMAIN planRestoreApps(m, over) = PlannedApps(m) \cup {"frappe"}
         /\ m.installed \subseteq DOMAIN planRestoreApps(m, over)
  BY DEF planRestoreApps, PlannedApps

\* A restored bench's frappe comes from a ref, or from the default one.
LEMMA FrappeSpec ==
  ASSUME NEW m, IsArch(m), NEW over \in Overrides
  PROVE  planRestoreApps(m, over)["frappe"].spec.branch \in BranchOrNone
<1>1. "frappe" \notin DOMAIN over
  BY DEF Overrides, NoApps
<1>2. planRestoreApps(m, over)["frappe"] = planFrappe(m, over)
  BY DEF planRestoreApps
<1>3. CloneBranch(InfoOf(m, "frappe")) \in BranchOrNone /\ m.frappe.branch \in BranchOrNone
  BY InfoShape DEF IsArch
<1>4. planFrappe(m, over).spec \in
        {m.frappe, [source |-> InfoOf(m, "frappe").remote, branch |-> m.frappe.branch],
         [source |-> InfoOf(m, "frappe").remote, branch |-> CloneBranch(InfoOf(m, "frappe"))]}
  BY <1>1 DEF planFrappe
<1> QED
  BY <1>2, <1>3, <1>4

-----------------------------------------------------------------------------
(* Shapes stay: backups *)

\* A new operation is one.
LEMMA BeginShapes ==
  ASSUME Shapes, NEW o, Begin(o), o.opts.over \in Overrides
  PROVE  Shapes'
<1>1. IsOp(op') /\ op'.m = NoArch
  BY NoneShapes DEF Begin, IsOp, NoOp
<1> QED
  BY <1>1, NoneShapes DEF Begin, Shapes, BenchesOK, HostsOK

\* Backups, clones, restores and verifications begin.
LEMMA StartShapes ==
  ASSUME Shapes, StartBackup \/ StartClone \/ StartRestore \/ StartVerify
  PROVE  Shapes'
<1>1. NoApps \in Overrides
  BY DEF Overrides
<1>2. CASE StartBackup
  BY <1>1, <1>2, BeginShapes DEF StartBackup, NoOp, NoOpts
<1>3. CASE StartClone
  BY <1>1, <1>3, BeginShapes DEF StartClone, NoOp, NoOpts
<1>4. CASE StartRestore
  BY <1>4, BeginShapes DEF StartRestore, NoOp, NoOpts
<1>5. CASE StartVerify
  BY <1>1, <1>5, BeginShapes DEF StartVerify, NoOp, NoOpts
<1> QED
  BY <1>2, <1>3, <1>4, <1>5

\* A host that goes up or down.
LEMMA UpShape ==
  ASSUME HostsOK, NEW n \in AllNames, NEW up, host' = [host EXCEPT ![n].up = up]
  PROVE  HostsOK'
<1> DEFINE h == [host[n] EXCEPT !.up = up]
<1>1. IsHost(h)
  BY DEF HostsOK, IsHost
<1>2. host' = [host EXCEPT ![n] = h]
  OBVIOUS
<1> QED
  BY <1>1, <1>2, PutHost

\* What collect records is a manifest, with a record for every checkout.
LEMMA CollectShapes ==
  ASSUME Shapes, Course, Collect
  PROVE  /\ Shapes'
         /\ DOMAIN op'.m.infos = DOMAIN host[op.source].code
         /\ op'.m.installed = host[op.source].data.apps
         /\ Consistent(op'.m)
<1> DEFINE n == op.source
           code == host[n].code
           infos == [a \in DOMAIN code |-> applyProbe(code[a])]
           used == vendorCandidates(host[n].data.apps, bench[n].apps, {})
           plan == planAppSources(infos, used, {}, None)
           was == [a \in host[n].data.apps \cap DOMAIN code |-> code[a]]
           m == [NoArch EXCEPT !.name = n, !.domain = bench[n].domain, !.port = bench[n].port,
                   !.aliases = bench[n].aliases, !.frappe = bench[n].frappe, !.apps = bench[n].apps,
                   !.installed = host[n].data.apps, !.infos = plan, !.key = host[n].key, !.was = was]
<1>1. n \in Names /\ n \in AllNames
  BY DEF Course, Collect, At, Backing, AllNames
<1>2. IsCode(code) /\ IsBench(bench[n])
  BY <1>1 DEF Shapes, HostsOK, BenchesOK, IsHost
<1>3. /\ DOMAIN plan = DOMAIN code
      /\ \A a \in DOMAIN code :
           /\ IsInfo(plan[a])
           /\ plan[a].commit \in {NoCommit, code[a].head}
           /\ plan[a].commit.line = "own" /\ a \in used => Archived(plan[a])
  BY <1>2, PlannedInfos
<1>4. host' = [host EXCEPT ![n].up = TRUE]
  BY DEF Collect
<1>5. op' = [op EXCEPT !.pc = "dump", !.started = ~host[n].up, !.m = m]
  BY DEF Collect
<1>6. host[n].data.apps \subseteq used
  BY DEF vendorCandidates
<1> HIDE DEF plan, used, infos
<1>7. IsArch(m)
  <2>1. m = [NoArch EXCEPT !.name = n, !.domain = bench[n].domain, !.port = bench[n].port,
                   !.aliases = bench[n].aliases, !.frappe = bench[n].frappe, !.apps = bench[n].apps,
                   !.installed = host[n].data.apps, !.infos = plan, !.key = host[n].key, !.was = was]
    OBVIOUS
  <2>2. IsArch(NoArch) /\ NoArch.trees = NoApps /\ NoArch.data.apps = {}
    BY NoneShapes DEF NoArch, NoData
  <2> HIDE DEF m, was
  <2> QED
    BY <1>1, <1>2, <1>3, <2>1, <2>2 DEF IsArch, IsBench, NoApps
<1>8. Consistent(m)
  BY <1>3, <1>6 DEF Consistent, NoArch, NoData
<1>9. IsOp(op') /\ op'.m = m
  BY <1>5 DEF IsOp, Shapes
<1>10. HostsOK'
  BY <1>1, <1>4, UpShape DEF Shapes
<1>11. Shapes'
  BY <1>7, <1>9, <1>10 DEF Shapes, Collect, BenchesOK
<1> QED
  BY <1>3, <1>8, <1>9, <1>11 DEF NoArch

\* The rest of a backup: the dump, the archive, its failures.
LEMMA BackupShapes ==
  ASSUME Shapes, Course, DumpSite \/ WriteArchive \/ BackupFails \/ BackupCannot
  PROVE  Shapes'
<1> DEFINE n == op.source
<1>1. n \in AllNames
  BY DEF Course, DumpSite, WriteArchive, BackupFails, BackupCannot, At, Backing, AllNames
<1>2. CASE DumpSite
  <2>1. IsOp(op') /\ op'.m = [op.m EXCEPT !.data = host[n].data, !.files = TRUE]
    BY <1>2 DEF DumpSite, Shapes, IsOp
  <2>2. /\ host[n].data = [v |-> host[n].data.v, apps |-> host[n].data.apps]
        /\ host[n].data.apps \subseteq Apps /\ IsFiniteSet(host[n].data.apps)
    BY <1>1 DEF Shapes, HostsOK, IsHost
  <2>3. IsArch(op'.m)
    BY <2>1, <2>2 DEF Shapes, IsArch
  <2> QED
    BY <1>2, <2>1, <2>3 DEF DumpSite, Shapes, BenchesOK, HostsOK
<1>3. CASE WriteArchive
  <2> DEFINE kept == {a \in DOMAIN op.m.infos \cap DOMAIN host[n].code : Archived(op.m.infos[a])}
             trees == [a \in kept |-> host[n].code[a]]
  <2>1. arch' = [op.m EXCEPT !.trees = trees]
    BY <1>3 DEF WriteArchive
  <2>2. \A a \in DOMAIN trees : IsCheckout(trees[a])
    BY <1>1 DEF Shapes, HostsOK, IsHost, IsCode
  <2> HIDE DEF trees
  <2>3. IsArch(arch')
    BY <2>1, <2>2 DEF IsArch, Shapes
  <2>4. IsOp(op') /\ op'.m = op.m
    BY <1>3 DEF WriteArchive, Shapes, IsOp, Go, End
  <2>5. HostsOK'
    BY <1>1, <1>3, UpShape DEF Shapes, WriteArchive
  <2> QED
    BY <1>3, <2>3, <2>4, <2>5 DEF Shapes, WriteArchive, BenchesOK
<1>4. CASE BackupFails
  <2>1. IsOp(op') /\ op'.m = op.m
    BY <1>4 DEF BackupFails, Shapes, IsOp, End
  <2>2. HostsOK'
    BY <1>1, <1>4, UpShape DEF Shapes, BackupFails
  <2> QED
    BY <1>4, <2>1, <2>2 DEF Shapes, BackupFails, BenchesOK
<1>5. CASE BackupCannot
  <2>1. IsOp(op') /\ op'.m = op.m
    BY <1>5 DEF BackupCannot, Shapes, IsOp, End
  <2> QED
    BY <1>5, <2>1 DEF Shapes, BackupCannot, BenchesOK, HostsOK
<1> QED
  BY <1>2, <1>3, <1>4, <1>5

-----------------------------------------------------------------------------
(* Shapes stay: restores *)

\* Steps that change nothing but the operation and what is staged.
OnlyOp == UNCHANGED <<repos, bench, host, arch>>

\* The steps of a restore that change nothing on the machine.
LEMMA OpShapes ==
  ASSUME Shapes, ReadArchive \/ ReadFails \/ Gates \/ CreateFails \/ PinGone \/ checkDrift \/ StepFails
                   \/ CreatedUnread \/ Ping
  PROVE  Shapes' /\ OnlyOp
<1>1. OnlyOp
  BY DEF OnlyOp, ReadArchive, ReadFails, Gates, CreateFails, PinGone, checkDrift, StepFails, CreatedUnread, Ping
<1>2. IsOp(op') /\ op'.m \in {op.m, arch}
  <2> USE DEF Shapes, IsOp
  <2>1. CASE ReadArchive
    BY <2>1 DEF ReadArchive
  <2>2. CASE ReadFails
    BY <2>2 DEF ReadFails, End
  <2>3. CASE Gates
    BY <2>3 DEF Gates, End
  <2>4. CASE CreateFails
    BY <2>4 DEF CreateFails, End
  <2>5. CASE PinGone
    BY <2>5 DEF PinGone, Go
  <2>6. CASE checkDrift
    BY <2>6 DEF checkDrift
  <2>7. CASE StepFails
    BY <2>7 DEF StepFails, Go
  <2>8. CASE Ping
    BY <2>8 DEF Ping, Go
  <2>9. CASE CreatedUnread
    BY <2>9 DEF CreatedUnread, End
  <2> QED
    BY <2>1, <2>2, <2>3, <2>4, <2>5, <2>6, <2>7, <2>8, <2>9
<1> QED
  BY <1>1, <1>2 DEF Shapes, OnlyOp, BenchesOK, HostsOK

\* The table of installed apps has finitely many rows.
LEMMA RowShapes ==
  ASSUME NEW m, IsArch(m)
  PROVE  IsFiniteSet(Rows(m))
<1> DEFINE apps == m.data.apps
           row(a) == [app |-> a, branch |-> IF a = "frappe" THEN m.frappe.branch ELSE None]
           rowOf == [a \in apps |-> row(a)]
<1>1. IsFiniteSet(apps)
  BY DEF IsArch
<1>2. Rows(m) = {row(a) : a \in apps}
  BY Zenon DEF Rows
<1> HIDE DEF apps, row
<1>3. rowOf \in Surjection(apps, Rows(m))
  BY <1>2 DEF Surjection
<1> QED
  BY <1>1, <1>3, FS_Surjection

\* The manifest made up from a dump lists the apps of the dump.
LEMMA ImportShapes ==
  ASSUME Shapes, ImportDump, Consistent(arch)
  PROVE  Shapes' /\ Consistent(op'.m)
<1>1. PICK d \in {D!inspectDump(lines) : lines \in D!DumpsOf(Rows(arch), None)},
           t \in Names, requested \in {None} \cup (Branches \ Tags), named \in SUBSET (Apps \ {"frappe"}) :
        LET b == D!chooseFrappeBranch(d, requested, FALSE)
            p == D!planDumpApps(d, named)
            m == [NoArch EXCEPT !.name = t, !.frappe = [source |-> Upstream, branch |-> b.branch],
                    !.apps = {[source |-> a, branch |-> None] : a \in named}, !.installed = p.installed,
                    !.data = arch.data, !.files = arch.files, !.key = arch.key, !.foreign = TRUE]
        IN  /\ D!Importable(d) /\ D!chooseDBEngine(d, None) # None /\ ~b.refused /\ p.problems = {}
            /\ budget.ops < MaxOps /\ budget' = [budget EXCEPT !.ops = @ + 1]
            /\ op' = [NoOp EXCEPT !.kind = "import", !.pc = "gates", !.target = t, !.m = m]
            /\ staging' = TRUE
  BY Zenon DEF ImportDump
<1> DEFINE b == D!chooseFrappeBranch(d, requested, FALSE)
           p == D!planDumpApps(d, named)
           frappe == [source |-> Upstream, branch |-> b.branch]
           apps == {[source |-> a, branch |-> None] : a \in named}
           m == [NoArch EXCEPT !.name = t, !.frappe = frappe, !.apps = apps, !.installed = p.installed,
                    !.data = arch.data, !.files = arch.files, !.key = arch.key, !.foreign = TRUE]
<1>2. op' = [NoOp EXCEPT !.kind = "import", !.pc = "gates", !.target = t, !.m = m] /\ p.problems = {}
  BY <1>1
<1>3. m = [NoArch EXCEPT !.name = t, !.frappe = frappe, !.apps = apps, !.installed = p.installed,
                    !.data = arch.data, !.files = arch.files, !.key = arch.key, !.foreign = TRUE]
  OBVIOUS
<1>4. b.branch \in BranchOrNone
  BY RestoreAssumption DEF D!chooseFrappeBranch, BranchOrNone
<1>5. d.apps = Rows(arch)
  <2>1. IsArch(arch)
    BY DEF Shapes
  <2> QED
    BY <2>1, RowShapes, DumpsAreRead
<1>6. arch.data.apps \subseteq p.installed
  <2>1. ASSUME NEW a \in arch.data.apps PROVE \E r \in d.apps : r.app = a
    <3> DEFINE r == [app |-> a, branch |-> IF a = "frappe" THEN arch.frappe.branch ELSE None]
    <3>1. r \in d.apps
      BY <1>5 DEF Rows
    <3> QED
      BY <3>1
  <2>2. {r.app : r \in d.apps} \subseteq Apps
    BY <1>2 DEF D!planDumpApps
  <2>3. p.installed = {"frappe"} \cup ({r.app : r \in d.apps} \cap Apps)
    BY DEF D!planDumpApps
  <2> HIDE DEF p
  <2> QED
    BY <2>1, <2>2, <2>3
<1>7. frappe.branch \in BranchOrNone
  BY <1>4
<1> HIDE DEF m, b, p, frappe, apps
<1>8. IsArch(NoArch) /\ NoArch.infos = NoApps /\ NoArch.trees = NoApps /\ NoArch.was = NoApps
  BY NoneShapes DEF NoArch
<1>9. IsArch(m) /\ m.infos = NoApps /\ m.was = NoApps /\ m.data = arch.data /\ m.installed = p.installed
  BY <1>3, <1>7, <1>8 DEF IsArch, Shapes, NoApps
<1>10. Consistent(m)
  BY <1>6, <1>9 DEF Consistent, NoApps
<1>11. IsOp(op') /\ op'.m = m
  BY <1>2, NoneShapes DEF IsOp
<1> QED
  BY <1>9, <1>10, <1>11 DEF ImportDump, Shapes, BenchesOK, HostsOK

\* Where a spec is cloned from, and what comes of it.
LEMMA CloneShape ==
  ASSUME Shapes, NEW s, CanClone(s)
  PROVE  IsCheckout(CloneOf(s)) /\ CloneOf(s).remote = RepoOf(s) /\ s # NoSpec
<1>1. RepoOf(s) \in Repos
  <2>1. CASE IsURL(s)
    BY <2>1 DEF RepoOf, IsURL
  <2>2. CASE ~IsURL(s)
    <3>1. \E r \in Repos : RepoName[r] = s.source
      BY <2>2, RestoreAssumption DEF CanClone
    <3> QED
      BY <2>2, <3>1 DEF RepoOf
  <2> QED
    BY <2>1, <2>2
<1>2. RefOf(s) \in Branches
  BY DEF CanClone
<1> DEFINE head == repos.tip[RepoOf(s)][RefOf(s)]
<1>3. IsCommit(head) /\ head.line # "own"
  BY <1>1, <1>2 DEF Shapes, IsRepos
<1>4. CloneOf(s).head = head /\ CloneOf(s).remote = RepoOf(s)
  BY DEF CloneOf
<1>5. s # NoSpec
  BY RestoreAssumption DEF CanClone, IsURL, NoSpec
<1>6. IsCheckout(CloneOf(s))
  <2> DEFINE r == RepoOf(s)
             b == RefOf(s)
  <2>1. CloneOf(s) = [git |-> TRUE, remote |-> r, head |-> head, branch |-> IF b \in Tags THEN "HEAD" ELSE b,
          tracking |-> IF b \in Tags THEN None ELSE b, tag |-> IF b \in Tags THEN b ELSE None,
          on |-> {b} \ Tags, tagged |-> b \in Tags, edits |-> FALSE]
    BY DEF CloneOf
  <2>2. b \in Branches
    BY <1>2
  <2> HIDE DEF r, b, head
  <2> QED
    BY <1>3, <2>1, <2>2 DEF IsCheckout, BranchOrNone
<1> QED
  BY <1>4, <1>5, <1>6

\* A created bench is one, with the code it was cloned from.
LEMMA CreateShapes ==
  ASSUME Shapes, Course, Create
  PROVE  /\ Shapes'
         /\ op' = [op EXCEPT !.pc = "unpack", !.made = TRUE]
         /\ DOMAIN host'[op.target].code = Cloned
         /\ \A a \in Cloned : /\ host'[op.target].code[a].remote = RepoOf(Plan[a].spec)
                              /\ Plan[a].spec # NoSpec
<1> DEFINE t == op.target
           code == [a \in Cloned |-> CloneOf(Plan[a].spec)]
           b == [port |-> NewPort, domain |-> RestoredDomain, aliases |-> RestoredAliases,
                 frappe |-> Plan["frappe"].spec, apps |-> {Plan[a].spec : a \in Cloned \ {"frappe"}}]
           data == [v |-> 0, apps |-> {"frappe"}]
           heads == Heads(code)
           h == [NoHost EXCEPT !.dir = TRUE, !.volumes = TRUE, !.up = TRUE, !.code = code,
                   !.data = data, !.pw = "record", !.patched = TRUE, !.migrated = heads, !.serves = heads]
<1>1. t \in AllNames
  BY DEF Create, Course, At, Before, Backing
<1>2. \A a \in Cloned : CanClone(Plan[a].spec)
  BY DEF Create, CanCreate
<1>3. \A a \in Cloned : IsCheckout(code[a]) /\ code[a].remote = RepoOf(Plan[a].spec) /\ Plan[a].spec # NoSpec
  BY <1>2, CloneShape
<1>4. IsCode(code) /\ DOMAIN code = Cloned
  BY <1>3 DEF IsCode
<1>5. op' = [op EXCEPT !.pc = "unpack", !.made = TRUE]
  BY DEF Create
<1>6. bench' = [bench EXCEPT ![t] = b] /\ host' = [host EXCEPT ![t] = h]
  BY DEF Create
<1>7. IsBench(b)
  BY FrappeSpec DEF IsBench, Plan, Shapes, IsOp
<1>8. IsHost(h) /\ h.code = code
  <2>1. h = [NoHost EXCEPT !.dir = TRUE, !.volumes = TRUE, !.up = TRUE, !.code = code,
                   !.data = data, !.pw = "record", !.patched = TRUE, !.migrated = heads, !.serves = heads]
    OBVIOUS
  <2>2. data = [v |-> data.v, apps |-> data.apps] /\ data.apps \subseteq Apps /\ IsFiniteSet(data.apps)
    BY RestoreAssumption, FS_Singleton
  <2> HIDE DEF h, code, data, heads
  <2> QED
    BY <1>4, <2>1, <2>2, NoneShapes DEF IsHost
<1>9. IsOp(op') /\ op'.m = op.m
  BY <1>5 DEF IsOp, Shapes
<1>10. BenchesOK' /\ HostsOK'
  BY <1>6, <1>7, <1>8, PutBench, PutHost DEF Shapes
<1>11. host'[t].code = code
  BY <1>1, <1>6, <1>8 DEF Shapes, HostsOK
<1>12. Shapes'
  BY <1>9, <1>10 DEF Shapes, Create
<1> QED
  BY <1>3, <1>4, <1>5, <1>11, <1>12

\* A step of the rebuild changes what is there of the target, and the step.
LEMMA StepShapes ==
  ASSUME Shapes, op.target \in AllNames, NEW pc, NEW h, IsHost(h), Step(pc, h)
  PROVE  Shapes' /\ op' = [op EXCEPT !.pc = pc] /\ host'[op.target] = h
<1>1. IsOp(op') /\ op'.m = op.m
  BY DEF Step, Go, IsOp, Shapes
<1>2. HostsOK'
  BY PutHost DEF Step, Shapes
<1>3. host'[op.target] = h
  BY DEF Step, Shapes, HostsOK
<1> QED
  BY <1>1, <1>2, <1>3 DEF Step, Go, Shapes, BenchesOK

\* The code after the archived apps are in.
Unpacked == [a \in DOMAIN Target.code \cup FromArchive(Plan) |->
               IF a \in FromArchive(Plan) THEN op.m.trees[a] ELSE Target.code[a]]

\* While a bench is rebuilt it is one of the benches.
LEMMA TargetShape ==
  ASSUME Shapes, Course, op.pc \in Rebuild \cup {"create"}
  PROVE  op.target \in AllNames /\ IsHost(Target)
  BY DEF Course, Rebuild, Target, Shapes, HostsOK, Before, Backing

\* Each step of the rebuild, as a new state of the target.
AfterStep(h, pc) ==
  /\ Shapes'
  /\ op' = [op EXCEPT !.pc = pc]
  /\ host'[op.target] = h
  /\ UNCHANGED <<repos, bench, arch, staging>>

\* The archived source goes in.
LEMMA UnpackStep ==
  ASSUME Shapes, Course, FromArchive(Plan) \subseteq DOMAIN op.m.trees, installArchivedApps
  PROVE  AfterStep([Target EXCEPT !.code = Unpacked], "pin")
<1>1. op.target \in AllNames /\ IsHost(Target)
  BY TargetShape DEF installArchivedApps, At, Rebuild
<1>2. \A a \in FromArchive(Plan) : IsCheckout(op.m.trees[a])
  BY DEF Shapes, IsArch
<1>3. IsCode(Unpacked)
  BY <1>1, <1>2 DEF IsHost, IsCode, Unpacked
<1>4. Step("pin", [Target EXCEPT !.code = Unpacked])
  BY DEF installArchivedApps, Unpacked
<1> DEFINE h == [Target EXCEPT !.code = Unpacked]
<1>5. h = [Target EXCEPT !.code = Unpacked]
  OBVIOUS
<1> HIDE DEF h
<1>6. IsHost(h)
  BY <1>1, <1>3, <1>5 DEF IsHost
<1> QED
  BY <1>1, <1>4, <1>5, <1>6, StepShapes DEF AfterStep, Step

\* The archived key goes in.
LEMMA KeyStep ==
  ASSUME Shapes, Course, applySiteConfig
  PROVE  AfterStep([Target EXCEPT !.key = IF op.m.key # None THEN op.m.key ELSE Target.key], "load")
<1> DEFINE h == [Target EXCEPT !.key = IF op.m.key # None THEN op.m.key ELSE Target.key]
<1>1. op.target \in AllNames /\ IsHost(Target)
  BY TargetShape DEF applySiteConfig, At, Rebuild
<1>2. Step("load", h)
  BY DEF applySiteConfig
<1>3. IsHost(h)
  BY <1>1 DEF IsHost
<1> QED
  BY <1>1, <1>2, <1>3, StepShapes DEF AfterStep, Step

\* The dump and the files are loaded.
LEMMA LoadStep ==
  ASSUME Shapes, Course, runBenchRestore
  PROVE  AfterStep([Target EXCEPT !.data = op.m.data, !.files = op.m.files, !.pw = "dump",
                      !.key = IF Target.key = None THEN "minted" ELSE Target.key], "password")
<1> DEFINE h == [Target EXCEPT !.data = op.m.data, !.files = op.m.files, !.pw = "dump",
                      !.key = IF Target.key = None THEN "minted" ELSE Target.key]
<1>1. op.target \in AllNames /\ IsHost(Target)
  BY TargetShape DEF runBenchRestore, At, Rebuild
<1>2. Step("password", h)
  BY DEF runBenchRestore
<1>3. h = [Target EXCEPT !.data = op.m.data, !.files = op.m.files, !.pw = "dump",
                      !.key = IF Target.key = None THEN "minted" ELSE Target.key]
  OBVIOUS
<1> HIDE DEF h
<1>4. IsHost(h)
  BY <1>1, <1>3 DEF IsHost, Shapes, IsArch
<1> QED
  BY <1>1, <1>2, <1>3, <1>4, StepShapes DEF AfterStep, Step

\* From the administrator's password to the restart.
LEMMA OtherSteps ==
  ASSUME Shapes, Course
  PROVE  /\ setAdminPassword => AfterStep([Target EXCEPT !.pw = "record"], "settings")
         /\ Settings => AfterStep(Target, "migrate")
         /\ Migrate => AfterStep([Target EXCEPT !.migrated = Heads(Target.code)], "build")
         /\ Build => AfterStep([Target EXCEPT !.patched = TRUE], "restart")
         /\ Restart => AfterStep([Target EXCEPT !.serves = Heads(Target.code)], "record")
<1>1. ASSUME op.pc \in Rebuild, NEW v
      PROVE  /\ op.target \in AllNames /\ IsHost(Target)
             /\ IsHost([Target EXCEPT !.pw = v]) /\ IsHost([Target EXCEPT !.migrated = v])
             /\ IsHost([Target EXCEPT !.patched = v]) /\ IsHost([Target EXCEPT !.serves = v])
  BY <1>1, TargetShape DEF IsHost
<1>2. ASSUME setAdminPassword PROVE AfterStep([Target EXCEPT !.pw = "record"], "settings")
  BY <1>1, <1>2, StepShapes DEF setAdminPassword, At, Rebuild, AfterStep, Step
<1>3. ASSUME Settings PROVE AfterStep(Target, "migrate")
  BY <1>1, <1>3, StepShapes DEF Settings, At, Rebuild, AfterStep, Step
<1>4. ASSUME Migrate PROVE AfterStep([Target EXCEPT !.migrated = Heads(Target.code)], "build")
  BY <1>1, <1>4, StepShapes DEF Migrate, At, Rebuild, AfterStep, Step
<1>5. ASSUME Build PROVE AfterStep([Target EXCEPT !.patched = TRUE], "restart")
  BY <1>1, <1>5, StepShapes DEF Build, At, Rebuild, AfterStep, Step
<1>6. ASSUME Restart PROVE AfterStep([Target EXCEPT !.serves = Heads(Target.code)], "record")
  BY <1>1, <1>6, StepShapes DEF Restart, At, Rebuild, AfterStep, Step
<1> QED
  BY <1>2, <1>3, <1>4, <1>5, <1>6

\* The archived commits are checked out: the same apps, the same remotes.
LEMMA PinStep ==
  ASSUME Shapes, Course, pinApps
  PROVE  /\ Shapes'
         /\ \E w : op' = [op EXCEPT !.pc = "drift", !.warned = w]
         /\ DOMAIN host'[op.target].code = DOMAIN Target.code
         /\ \A a \in DOMAIN Target.code : host'[op.target].code[a].remote = Target.code[a].remote
         /\ UNCHANGED <<repos, bench, arch, staging>>
<1>1. PICK skip \in {{}} \cup {{a} : a \in Apps} :
        LET pinned == IF Pins THEN Pinned(skip) ELSE {}
        IN  /\ (IF skip = {} THEN NoFault ELSE Fault)
            /\ \A a \in pinned : <<Target.code[a].remote, op.m.infos[a].commit>> \in repos.served
            /\ host' = [host EXCEPT ![op.target].code =
                          [a \in DOMAIN @ |-> IF a \in pinned THEN Checkout(@[a], op.m.infos[a].commit) ELSE @[a]],
                          ![op.target].patched = @ /\ "frappe" \notin pinned]
            /\ op' = [op EXCEPT !.pc = "drift", !.warned = IF Pins THEN skip ELSE {}]
  BY DEF pinApps
<1> DEFINE t == op.target
           pinned == IF Pins THEN Pinned(skip) ELSE {}
           code == [a \in DOMAIN Target.code |->
                      IF a \in pinned THEN Checkout(Target.code[a], op.m.infos[a].commit) ELSE Target.code[a]]
<1>2. t \in AllNames /\ IsHost(Target)
  BY TargetShape DEF pinApps, At, Rebuild
<1>3. \A a \in pinned : IsCommit(op.m.infos[a].commit) /\ op.m.infos[a].commit.line # "own"
  BY <1>1 DEF Shapes, IsRepos
<1>4. ASSUME NEW a \in DOMAIN Target.code
      PROVE  IsCheckout(code[a]) /\ code[a].remote = Target.code[a].remote
  <2>1. IsCheckout(Target.code[a])
    BY <1>2 DEF IsHost, IsCode
  <2>2. CASE a \notin pinned
    BY <2>1, <2>2
  <2>3. CASE a \in pinned
    <3> DEFINE c == Target.code[a]
               commit == op.m.infos[a].commit
    <3>1. code[a] = [c EXCEPT !.head = commit, !.branch = "HEAD", !.tracking = None, !.edits = FALSE,
                              !.on = {b \in c.on : c.head = commit}, !.tagged = c.tagged /\ c.head = commit]
      BY <2>3 DEF Checkout
    <3>2. IsCommit(commit) /\ commit.line # "own"
      BY <1>3, <2>3
    <3>3. IsCheckout(c) /\ c.remote = Target.code[a].remote
      BY <2>1
    <3> DEFINE on == {b \in c.on : c.head = commit}
               tagged == c.tagged /\ c.head = commit
    <3>4. code[a] = [c EXCEPT !.head = commit, !.branch = "HEAD", !.tracking = None, !.edits = FALSE,
                              !.on = on, !.tagged = tagged]
      BY <3>1
    <3>5. on \subseteq Branches
      BY <3>3 DEF IsCheckout
    <3> HIDE DEF code, c, commit, on, tagged
    <3> QED
      BY <3>2, <3>3, <3>4, <3>5 DEF IsCheckout
  <2> QED
    BY <2>2, <2>3
<1> DEFINE patched == Target.patched /\ "frappe" \notin pinned
           h == [Target EXCEPT !.code = code, !.patched = patched]
<1>5. host' = [host EXCEPT ![t] = h]
  BY <1>1 DEF Target
<1>6. IsCode(code) /\ DOMAIN code = DOMAIN Target.code
  BY <1>4 DEF IsCode
<1> HIDE DEF code, patched
<1>7. h = [Target EXCEPT !.code = code, !.patched = patched]
  OBVIOUS
<1> HIDE DEF h
<1>8. IsHost(h) /\ h.code = code
  BY <1>2, <1>6, <1>7 DEF IsHost
<1>9. HostsOK' /\ host'[t].code = code
  BY <1>2, <1>5, <1>8, PutHost DEF Shapes, HostsOK
<1>10. \E w : op' = [op EXCEPT !.pc = "drift", !.warned = w]
  BY <1>1
<1>11. IsOp(op') /\ op'.m = op.m
  BY <1>10 DEF IsOp, Shapes
<1> QED
  BY <1>4, <1>6, <1>9, <1>10, <1>11 DEF pinApps, Shapes, BenchesOK

\* The record keeps all but its apps.
LEMMA RecordShapes ==
  ASSUME Shapes, Course, Record
  PROVE  /\ Shapes' /\ UNCHANGED <<repos, host, arch>>
         /\ \E ls \in {Target.data.apps, DOMAIN Target.code} :
              bench' = [bench EXCEPT ![op.target].apps = appsWithoutFramework(op.m, Plan, ls)]
         /\ op' = [op EXCEPT !.pc = IF op.kind = "verify" THEN "ping" ELSE "finished",
                             !.ok = IF op.kind = "verify" THEN op.ok ELSE TRUE]
         /\ op.kind # "verify" => ~staging'
<1>1. op.target \in AllNames
  BY TargetShape DEF Record, At, Rebuild
<1>2. PICK ls \in {Target.data.apps, DOMAIN Target.code} :
        bench' = [bench EXCEPT ![op.target].apps = appsWithoutFramework(op.m, Plan, ls)]
  BY DEF Record
<1> DEFINE b == [bench[op.target] EXCEPT !.apps = appsWithoutFramework(op.m, Plan, ls)]
<1>3. bench' = [bench EXCEPT ![op.target] = b] /\ IsBench(b)
  BY <1>1, <1>2 DEF Shapes, BenchesOK, IsBench
<1>4. BenchesOK'
  BY <1>3, PutBench DEF Shapes
<1>5. op' = [op EXCEPT !.pc = IF op.kind = "verify" THEN "ping" ELSE "finished",
                       !.ok = IF op.kind = "verify" THEN op.ok ELSE TRUE]
  BY DEF Record, Go, End, Shapes, IsOp
<1>6. IsOp(op') /\ op'.m = op.m
  BY <1>5 DEF IsOp, Shapes
<1>7. Shapes' /\ UNCHANGED <<repos, host, arch>>
  BY <1>4, <1>6 DEF Record, Shapes, HostsOK
<1>8. op.kind # "verify" => ~staging'
  BY DEF Record, End
<1> QED
  BY <1>2, <1>5, <1>7, <1>8

\* What a removal leaves.
LEMMA RemovalShapes ==
  ASSUME Shapes, NEW n \in AllNames, Gone(n) \/ Torn(n) \/ RecordStays(n)
  PROVE  /\ BenchesOK' /\ HostsOK'
         /\ \A o \in AllNames \ {n} : bench'[o] = bench[o] /\ host'[o] = host[o]
         /\ bench'[n] \in {bench[n], NoRec} /\ (host'[n] = host[n] \/ host'[n].code = NoApps)
<1>1. ASSUME NEW h \in Remains \cup {NoHost} PROVE IsHost(h) /\ h.code = NoApps
  <2>1. NoHost.code = NoApps
    BY DEF NoHost
  <2>2. CASE h = NoHost
    BY <2>1, <2>2, NoneShapes
  <2>3. CASE h = [NoHost EXCEPT !.dir = TRUE]
    BY <2>1, <2>3, NoneShapes DEF IsHost
  <2>4. CASE h = [NoHost EXCEPT !.volumes = TRUE]
    BY <2>1, <2>4, NoneShapes DEF IsHost
  <2>5. CASE h = [NoHost EXCEPT !.dir = TRUE, !.volumes = TRUE]
    BY <2>1, <2>5, NoneShapes DEF IsHost
  <2> QED
    BY <2>2, <2>3, <2>4, <2>5 DEF Remains
<1>2. PICK h \in Remains \cup {NoHost, host[n]} : host' = [host EXCEPT ![n] = h]
  BY DEF Gone, Torn, RecordStays
<1>3. bench' = [bench EXCEPT ![n] = NoRec] \/ bench' = bench
  BY DEF Gone, Torn, RecordStays
<1>4. BenchesOK' /\ bench'[n] \in {bench[n], NoRec}
  BY <1>3, NoneShapes DEF Shapes, BenchesOK
<1>5. IsHost(h) /\ (h = host[n] \/ h.code = NoApps)
  <2>1. CASE h \in Remains \cup {NoHost}
    BY <2>1, <1>1
  <2>2. CASE h = host[n]
    BY <2>2 DEF Shapes, HostsOK
  <2> QED
    BY <2>1, <2>2, <1>2
<1> QED
  BY <1>2, <1>3, <1>4, <1>5 DEF Shapes, BenchesOK, HostsOK

\* What is removed leaves an empty entry, half of one, or all of it.
LEMMA UndoShapes ==
  ASSUME Shapes, Course, Undo \/ Discard
  PROVE  Shapes'
<1>1. op.target \in AllNames
  BY DEF Course, Undo, Discard, At, Verifying, Backing
<1>2. BenchesOK' /\ HostsOK'
  BY <1>1, RemovalShapes DEF Undo, Discard, Shapes, BenchesOK, HostsOK
<1>3. IsOp(op') /\ op'.m = op.m
  BY DEF Undo, Discard, End, IsOp, Shapes
<1> QED
  BY <1>2, <1>3 DEF Shapes, Undo, Discard

-----------------------------------------------------------------------------
(* Shapes stay: the rest of the world *)

\* What the world leaves alone: the operation and its target, the code and the
\* apps of a bench that is being backed up, and all of an archive but its soundness.
Spared ==
  /\ op' = op /\ staging' = staging
  /\ op.target \in AllNames => bench'[op.target] = bench[op.target] /\ host'[op.target] = host[op.target]
  /\ op.pc \in Backing => /\ DOMAIN host'[op.source].code = DOMAIN host[op.source].code
                          /\ host'[op.source].data.apps = host[op.source].data.apps
  /\ arch' = [arch EXCEPT !.damaged = arch'.damaged]

\* Branches move, are rewritten and dropped.
LEMMA RemoteShapes ==
  ASSUME Shapes, Push \/ ForcePush \/ DropBranch
  PROVE  Shapes' /\ Spared
<1>1. UNCHANGED <<op, staging, bench, host, arch>>
  BY DEF Push, ForcePush, DropBranch, Moves
<1>2. Spared
  BY <1>1 DEF Spared, Shapes, IsArch
<1>3. PICK r \in Repos, b \in Branches :
        \E c, served :
          /\ IsCommit(c) /\ c.line # "own"
          /\ repos' = [tip |-> [repos.tip EXCEPT ![r][b] = c], served |-> served]
          /\ \A s \in served : s = <<s[1], s[2]>> /\ IsCommit(s[2]) /\ s[2].line # "own"
  <2>1. CASE Push
    <3>1. PICK r \in Repos, b \in Branches \ Tags :
            LET new == [repos.tip[r][b] EXCEPT !.n = @ + 1]
            IN  repos' = [tip |-> [repos.tip EXCEPT ![r][b] = new], served |-> repos.served \cup {<<r, new>>}]
      BY <2>1 DEF Push
    <3> DEFINE new == [repos.tip[r][b] EXCEPT !.n = @ + 1]
    <3>2. IsCommit(new) /\ new.line # "own"
      <4>1. IsCommit(repos.tip[r][b]) /\ repos.tip[r][b].line # "own"
        BY DEF Shapes, IsRepos
      <4>2. new = [repos.tip[r][b] EXCEPT !.n = repos.tip[r][b].n + 1]
        OBVIOUS
      <4> HIDE DEF new
      <4> QED
        BY <4>1, <4>2 DEF IsCommit
    <3> HIDE DEF new
    <3>3. \A s \in repos.served \cup {<<r, new>>} : s = <<s[1], s[2]>> /\ IsCommit(s[2]) /\ s[2].line # "own"
      BY <3>2 DEF Shapes, IsRepos
    <3> QED
      BY <3>1, <3>2, <3>3 DEF new
  <2>2. CASE ForcePush
    <3>1. PICK r \in Repos, b \in Branches \ Tags :
            LET tip == [repos.tip EXCEPT ![r][b] = [line |-> "forced", n |-> 1]]
                held == {tip[r][x] : x \in Branches}
            IN  repos' = [tip |-> tip, served |-> {s \in repos.served : s[1] # r}
                                                  \cup {<<r, c>> : c \in held \ {NoCommit}}]
      BY <2>2 DEF ForcePush
    <3> DEFINE c == [line |-> "forced", n |-> 1]
               tip == [repos.tip EXCEPT ![r][b] = c]
               held == {tip[r][x] : x \in Branches}
               served == {s \in repos.served : s[1] # r} \cup {<<r, d>> : d \in held \ {NoCommit}}
    <3>2. IsCommit(c) /\ c.line # "own"
      BY DEF IsCommit
    <3>3. repos' = [tip |-> [repos.tip EXCEPT ![r][b] = c], served |-> served]
      BY <3>1
    <3> HIDE DEF c
    <3>4. \A x \in Branches : IsCommit(tip[r][x]) /\ tip[r][x].line # "own"
      BY <3>2 DEF Shapes, IsRepos
    <3>5. \A s \in served : s = <<s[1], s[2]>> /\ IsCommit(s[2]) /\ s[2].line # "own"
      BY <3>4 DEF Shapes, IsRepos
    <3> QED
      BY <3>2, <3>3, <3>5
  <2>3. CASE DropBranch
    <3>1. PICK r \in Repos, b \in Branches \ Tags : repos' = [repos EXCEPT !.tip[r][b] = NoCommit]
      BY <2>3 DEF DropBranch
    <3>2. repos' = [tip |-> [repos.tip EXCEPT ![r][b] = NoCommit], served |-> repos.served]
      BY <3>1 DEF Shapes, IsRepos
    <3>3. IsCommit(NoCommit) /\ NoCommit.line # "own"
      BY RestoreAssumption DEF IsCommit, NoCommit
    <3>4. \A s \in repos.served : s = <<s[1], s[2]>> /\ IsCommit(s[2]) /\ s[2].line # "own"
      BY DEF Shapes, IsRepos
    <3> QED
      BY <3>2, <3>3, <3>4
  <2> QED
    BY <2>1, <2>2, <2>3
<1>4. PICK c, served :
        /\ IsCommit(c) /\ c.line # "own"
        /\ repos' = [tip |-> [repos.tip EXCEPT ![r][b] = c], served |-> served]
        /\ \A s \in served : s = <<s[1], s[2]>> /\ IsCommit(s[2]) /\ s[2].line # "own"
  BY <1>3
<1>5. IsRepos(repos')
  <2>1. repos'.tip = [repos.tip EXCEPT ![r][b] = c] /\ repos'.served = served
    BY <1>4
  <2>2. repos' = [tip |-> repos'.tip, served |-> repos'.served]
    BY <1>4, <2>1
  <2>3. repos'.tip = [x \in Repos |-> repos'.tip[x]]
    BY <2>1 DEF Shapes, IsRepos
  <2>4. \A x \in Repos : repos'.tip[x] = [y \in Branches |-> repos'.tip[x][y]]
    BY <2>1 DEF Shapes, IsRepos
  <2>5. \A x \in Repos, y \in Branches : IsCommit(repos'.tip[x][y]) /\ repos'.tip[x][y].line # "own"
    BY <1>4, <2>1 DEF Shapes, IsRepos
  <2> QED
    BY <1>4, <2>1, <2>2, <2>3, <2>4, <2>5 DEF IsRepos
<1> QED
  BY <1>1, <1>2, <1>5 DEF Shapes, BenchesOK, HostsOK

\* A user's commit is nobody else's.
LEMMA CommitShapes ==
  ASSUME Shapes, Course, UserCommit
  PROVE  Shapes' /\ Spared /\ bench' = bench
<1>1. PICK n \in Names \ {op.target}, a \in Apps \ {"frappe"} :
        /\ a \in DOMAIN host[n].code /\ host[n].code[a].git
        /\ host' = [host EXCEPT ![n].code[a] = [@ EXCEPT !.on = {}, !.tagged = FALSE,
                      !.head = [line |-> "own", n |-> host[n].code[a].head.n + 1]]]
  BY DEF UserCommit
<1> DEFINE head == [line |-> "own", n |-> host[n].code[a].head.n + 1]
           c == [host[n].code[a] EXCEPT !.on = {}, !.tagged = FALSE, !.head = head]
           code == [host[n].code EXCEPT ![a] = c]
           h == [host[n] EXCEPT !.code = code]
<1>2. n \in AllNames /\ IsHost(host[n]) /\ IsCheckout(host[n].code[a])
  BY <1>1 DEF AllNames, Shapes, HostsOK, IsHost, IsCode
<1>3. IsCheckout(c)
  <2>1. c = [host[n].code[a] EXCEPT !.on = {}, !.tagged = FALSE, !.head = head]
    OBVIOUS
  <2>2. IsCommit(head)
    BY DEF IsCommit
  <2> HIDE DEF c, head
  <2> QED
    BY <1>1, <1>2, <2>1, <2>2 DEF IsCheckout
<1>4. host' = [host EXCEPT ![n] = h]
  <2>1. host' = [host EXCEPT ![n] = [host[n] EXCEPT !.code = [host[n].code EXCEPT ![a] =
                   [host[n].code[a] EXCEPT !.head = [line |-> "own", n |-> host[n].code[a].head.n + 1],
                                           !.on = {}, !.tagged = FALSE]]]]
    BY <1>1
  <2> QED
    BY <2>1
<1> HIDE DEF c
<1>5. IsCode(code) /\ DOMAIN code = DOMAIN host[n].code
  BY <1>2, <1>3 DEF IsHost, IsCode
<1> HIDE DEF code
<1>6. IsHost(h) /\ DOMAIN h.code = DOMAIN host[n].code /\ h.data = host[n].data
  BY <1>2, <1>5 DEF IsHost
<1> HIDE DEF h
<1>7. HostsOK'
  BY <1>4, <1>6, PutHost DEF Shapes
<1>8. host'[n] = h /\ \A o \in AllNames \ {n} : host'[o] = host[o]
  BY <1>2, <1>4 DEF Shapes, HostsOK
<1>9. Spared
  BY <1>6, <1>8 DEF UserCommit, Moves, Spared, Course, AllNames, Shapes, IsArch
<1> QED
  BY <1>7, <1>9 DEF UserCommit, Moves, Shapes, BenchesOK

\* A site is used, a bench stopped or started.
LEMMA UserShapes ==
  ASSUME Shapes, Course, ChangeData \/ Toggle
  PROVE  Shapes' /\ Spared /\ bench' = bench
<1>1. PICK n \in Names \ {op.target} :
        \E data, up :
          /\ data = [v |-> data.v, apps |-> host[n].data.apps]
          /\ host' = [host EXCEPT ![n] = [host[n] EXCEPT !.data = data, !.up = up]]
  <2>1. CASE ChangeData
    <3>1. PICK n \in Names \ {op.target} : host' = [host EXCEPT ![n].data.v = @ + 1]
      BY <2>1 DEF ChangeData
    <3> DEFINE data == [host[n].data EXCEPT !.v = host[n].data.v + 1]
    <3>2. host' = [host EXCEPT ![n] = [host[n] EXCEPT !.data = data]]
      BY <3>1
    <3>3. IsHost(host[n])
      BY DEF Shapes, HostsOK, AllNames
    <3>4. data = [v |-> data.v, apps |-> host[n].data.apps]
      BY <3>3 DEF IsHost
    <3> HIDE DEF data
    <3>5. [host[n] EXCEPT !.data = data] = [host[n] EXCEPT !.data = data, !.up = host[n].up]
      BY <3>3 DEF IsHost
    <3> QED
      BY <3>2, <3>4, <3>5
  <2>2. CASE Toggle
    <3>1. PICK n \in Names \ {op.target} : host' = [host EXCEPT ![n].up = ~@]
      BY <2>2 DEF Toggle
    <3> DEFINE up == ~host[n].up
    <3>2. host' = [host EXCEPT ![n] = [host[n] EXCEPT !.up = up]]
      BY <3>1
    <3>3. IsHost(host[n])
      BY DEF Shapes, HostsOK, AllNames
    <3> HIDE DEF up
    <3>4. host[n].data = [v |-> host[n].data.v, apps |-> host[n].data.apps]
      BY <3>3 DEF IsHost
    <3>5. [host[n] EXCEPT !.up = up] = [host[n] EXCEPT !.data = host[n].data, !.up = up]
      BY <3>3 DEF IsHost
    <3> QED
      BY <3>2, <3>4, <3>5
  <2> QED
    BY <2>1, <2>2
<1>2. PICK data, up :
        /\ data = [v |-> data.v, apps |-> host[n].data.apps]
        /\ host' = [host EXCEPT ![n] = [host[n] EXCEPT !.data = data, !.up = up]]
  BY <1>1
<1> DEFINE h == [host[n] EXCEPT !.data = data, !.up = up]
<1>3. n \in AllNames /\ IsHost(host[n])
  BY DEF AllNames, Shapes, HostsOK
<1>4. h = [host[n] EXCEPT !.data = data, !.up = up]
  OBVIOUS
<1> HIDE DEF h
<1>5. IsHost(h) /\ h.code = host[n].code /\ h.data.apps = host[n].data.apps
  <2>1. h.data = data /\ h.code = host[n].code
    BY <1>3, <1>4 DEF IsHost
  <2>2. data.apps = host[n].data.apps /\ data = [v |-> data.v, apps |-> data.apps]
    BY <1>2
  <2>3. host[n].data.apps \subseteq Apps /\ IsFiniteSet(host[n].data.apps) /\ IsCode(host[n].code)
    BY <1>3 DEF IsHost
  <2>4. h = [dir |-> h.dir, volumes |-> h.volumes, up |-> h.up, data |-> h.data, files |-> h.files, key |-> h.key,
             pw |-> h.pw, code |-> h.code, patched |-> h.patched, migrated |-> h.migrated, serves |-> h.serves]
    BY <1>3, <1>4 DEF IsHost
  <2> QED
    BY <2>1, <2>2, <2>3, <2>4 DEF IsHost
<1>6. HostsOK' /\ host'[n] = h /\ \A o \in AllNames \ {n} : host'[o] = host[o]
  BY <1>2, <1>3, <1>4, <1>5 DEF Shapes, HostsOK
<1>7. UNCHANGED <<op, staging, repos, bench, arch>>
  BY DEF ChangeData, Toggle, Moves
<1>8. Spared
  BY <1>5, <1>6, <1>7 DEF Spared, Course, AllNames, Shapes, IsArch
<1> QED
  BY <1>6, <1>7, <1>8 DEF Shapes, BenchesOK

\* A bench is deleted, or given an alias.
LEMMA RecordsShapes ==
  ASSUME Shapes, Course, DeleteBench \/ AddAlias
  PROVE  Shapes' /\ Spared
<1>1. UNCHANGED <<op, staging, repos, arch>>
  BY DEF DeleteBench, AddAlias, Moves
<1>2. CASE DeleteBench
  <2>1. PICK n \in Names \ ({op.target} \cup (IF BackingUp THEN {op.source} ELSE {})) : Gone(n)
    BY <1>2 DEF DeleteBench
  <2>2. n \in AllNames /\ n # op.target /\ (op.pc \in Backing => n # op.source)
    BY DEF AllNames, BackingUp, Backing
  <2>3. BenchesOK' /\ HostsOK' /\ \A o \in AllNames \ {n} : bench'[o] = bench[o] /\ host'[o] = host[o]
    BY <2>1, <2>2, RemovalShapes
  <2>4. op.pc \in Backing => op.source \in AllNames
    BY DEF Course, AllNames
  <2>5. Spared
    BY <1>1, <2>2, <2>3, <2>4 DEF Spared, Shapes, IsArch
  <2> QED
    BY <1>1, <2>3, <2>5 DEF Shapes
<1>3. CASE AddAlias
  <2>1. PICK n \in Names \ {op.target}, h \in Hosts : bench' = [bench EXCEPT ![n].aliases = @ \cup {h}]
    BY <1>3 DEF AddAlias
  <2> DEFINE b == [bench[n] EXCEPT !.aliases = bench[n].aliases \cup {h}]
  <2>2. n \in AllNames /\ bench' = [bench EXCEPT ![n] = b]
    BY <2>1 DEF AllNames
  <2>3. b = [bench[n] EXCEPT !.aliases = bench[n].aliases \cup {h}] /\ IsBench(bench[n])
    BY <2>2 DEF Shapes, BenchesOK
  <2> HIDE DEF b
  <2>4. IsBench(b)
    BY <2>3 DEF IsBench
  <2>5. BenchesOK'
    BY <2>2, <2>4, PutBench DEF Shapes
  <2>6. host' = host /\ (op.target \in AllNames => bench'[op.target] = bench[op.target])
    BY <1>3, <2>1, <2>2 DEF AddAlias, Shapes, BenchesOK
  <2>7. Spared
    BY <1>1, <2>6 DEF Spared, Shapes, IsArch
  <2> QED
    BY <1>1, <2>5, <2>6, <2>7 DEF Shapes, HostsOK
<1> QED
  BY <1>2, <1>3

\* The archive rots.
LEMMA RotShapes ==
  ASSUME Shapes, Rot
  PROVE  Shapes' /\ Spared
<1>1. UNCHANGED <<op, staging, repos, bench, host>> /\ arch' = [arch EXCEPT !.damaged = TRUE]
  BY DEF Rot, Moves
<1>2. IsArch(arch') /\ arch'.damaged = TRUE
  BY <1>1 DEF Shapes, IsArch
<1>3. Spared
  BY <1>1, <1>2 DEF Spared
<1> QED
  BY <1>1, <1>2, <1>3 DEF Shapes, BenchesOK, HostsOK

\* Whatever the rest of the world does, the operation's target is spared.
LEMMA WorldShapes ==
  ASSUME Shapes, Course, World
  PROVE  Shapes' /\ Spared
  BY RemoteShapes, CommitShapes, UserShapes, RecordsShapes, RotShapes DEF World

\* The end of a process leaves what there is.
LEMMA EndShapes ==
  ASSUME Shapes, Kill \/ Answer
  PROVE  Shapes' /\ OnlyOp /\ op' = NoOp
<1>1. OnlyOp /\ op' = NoOp
  BY DEF Kill, Answer, OnlyOp
<1> QED
  BY <1>1, NoneShapes DEF OnlyOp, Shapes, BenchesOK, HostsOK

-----------------------------------------------------------------------------
(* The course of an operation is kept *)

\* What an operation begins with.
LEMMA BeginOp ==
  ASSUME NEW o, Begin(o)
  PROVE  /\ op'.kind = o.kind /\ op'.pc = o.pc /\ op'.target = o.target /\ op'.source = o.source /\ op'.opts = o.opts
         /\ op'.m = NoArch /\ ~op'.made /\ ~op'.ok /\ op'.left = "nothing"
         /\ UNCHANGED <<repos, bench, host, arch>>
  BY DEF Begin, NoOp

\* Where operations begin.
LEMMA StartCourse ==
  ASSUME Shapes, Course, StartBackup \/ StartClone \/ StartRestore \/ StartVerify
  PROVE  Course' /\ op'.m = NoArch /\ op'.pc \in {"collect", "read"} /\ OnlyOp
<1> USE RestoreAssumption DEF OnlyOp, Course, Before, Backing, After, Rebuild, Verifying, AllNames
<1>1. CASE StartBackup
  <2>1. PICK n \in Names :
          Begin([NoOp EXCEPT !.kind = "backup", !.pc = "collect", !.source = n])
    BY <1>1 DEF StartBackup
  <2> DEFINE o == [NoOp EXCEPT !.kind = "backup", !.pc = "collect", !.source = n]
  <2>2. o.kind = "backup" /\ o.pc = "collect" /\ o.source = n
    BY DEF NoOp
  <2>3. Begin(o)
    BY <2>1
  <2> HIDE DEF o
  <2> QED
    BY <2>1, <2>2, <2>3, BeginOp
<1>2. CASE StartClone
  <2>1. PICK n, t \in Names, d \in {None} \cup Hosts :
          Begin([NoOp EXCEPT !.kind = "clone", !.pc = "collect", !.source = n, !.target = t,
                                 !.opts = [NoOpts EXCEPT !.domain = d, !.realloc = TRUE]])
    BY <1>2 DEF StartClone
  <2> DEFINE o == [NoOp EXCEPT !.kind = "clone", !.pc = "collect", !.source = n, !.target = t,
                                 !.opts = [NoOpts EXCEPT !.domain = d, !.realloc = TRUE]]
  <2>2. o.kind = "clone" /\ o.pc = "collect" /\ o.source = n /\ o.target = t
    BY DEF NoOp
  <2>3. Begin(o)
    BY <2>1
  <2> HIDE DEF o
  <2> QED
    BY <2>1, <2>2, <2>3, BeginOp
<1>3. CASE StartRestore
  <2>1. PICK t \in Names, latest, keep \in BOOLEAN, over \in Overrides, skip \in BOOLEAN :
          Begin([NoOp EXCEPT !.kind = "restore", !.pc = "read", !.target = t,
                   !.opts = [NoOpts EXCEPT !.latest = latest, !.over = over, !.keep = keep, !.skipKey = skip]])
    BY <1>3 DEF StartRestore
  <2> DEFINE o == [NoOp EXCEPT !.kind = "restore", !.pc = "read", !.target = t,
                   !.opts = [NoOpts EXCEPT !.latest = latest, !.over = over, !.keep = keep, !.skipKey = skip]]
  <2>2. o.kind = "restore" /\ o.pc = "read" /\ o.target = t
    BY DEF NoOp
  <2>3. Begin(o)
    BY <2>1
  <2> HIDE DEF o
  <2> QED
    BY <2>1, <2>2, <2>3, BeginOp
<1>4. CASE StartVerify
  <2> DEFINE o == [NoOp EXCEPT !.kind = "verify", !.pc = "read", !.target = Throwaway,
                     !.opts = [NoOpts EXCEPT !.realloc = TRUE,
                                 !.domain = IF arch.domain = None THEN None ELSE "verify.invalid"]]
  <2>1. o.kind = "verify" /\ o.pc = "read" /\ o.target = Throwaway
    BY DEF NoOp
  <2>2. Begin(o)
    BY <1>4 DEF StartVerify
  <2> HIDE DEF o
  <2> QED
    BY <2>1, <2>2, BeginOp
<1> QED
  BY <1>1, <1>2, <1>3, <1>4

\* Where imports begin.
LEMMA ImportCourse ==
  ASSUME ImportDump
  PROVE  Course' /\ op'.pc = "gates"
<1>1. \E t \in Names : \E m : op' = [NoOp EXCEPT !.kind = "import", !.pc = "gates", !.target = t, !.m = m]
  BY Zenon DEF ImportDump
<1> QED
  BY <1>1, RestoreAssumption DEF Course, Before, Backing, After, Rebuild, Verifying, AllNames, NoOp

\* Where the steps of a backup lead.
LEMMA BackupCourse ==
  ASSUME Shapes, Course, Collect \/ DumpSite \/ WriteArchive \/ BackupFails \/ BackupCannot
  PROVE  Course'
<1> USE DEF Course, Before, Backing, After, Rebuild, Verifying, Shapes, IsOp, At, End, Go
<1>1. CASE Collect
  BY <1>1 DEF Collect
<1>2. CASE DumpSite
  BY <1>2 DEF DumpSite
<1>3. CASE WriteArchive
  BY <1>3 DEF WriteArchive
<1>4. CASE BackupFails
  BY <1>4 DEF BackupFails
<1>5. CASE BackupCannot
  BY <1>5 DEF BackupCannot
<1> QED
  BY <1>1, <1>2, <1>3, <1>4, <1>5

\* Where the steps of a restore lead that decide, fail or end.
LEMMA OpCourse ==
  ASSUME Shapes, Course,
         ReadArchive \/ ReadFails \/ Gates \/ CreateFails \/ PinGone \/ checkDrift \/ StepFails \/ CreatedUnread
           \/ Ping \/ Undo \/ Discard \/ Record
  PROVE  Course'
<1> USE DEF Course, Before, Backing, After, Rebuild, Verifying, Shapes, IsOp, At, End, Go
<1>1. CASE ReadArchive
  BY <1>1 DEF ReadArchive
<1>2. CASE ReadFails
  BY <1>2 DEF ReadFails
<1>3. CASE Gates
  BY <1>3 DEF Gates
<1>4. CASE CreateFails
  BY <1>4 DEF CreateFails
<1>5. CASE PinGone
  BY <1>5 DEF PinGone
<1>6. CASE checkDrift
  BY <1>6 DEF checkDrift
<1>7. CASE StepFails
  BY <1>7 DEF StepFails
<1>8. CASE Ping
  BY <1>8 DEF Ping
<1>9. CASE Undo
  BY <1>9 DEF Undo
<1>10. CASE Discard
  BY <1>10 DEF Discard
<1>11. CASE Record
  BY <1>11 DEF Record
<1>12. CASE CreatedUnread
  BY <1>12 DEF CreatedUnread
<1> QED
  BY <1>1, <1>2, <1>3, <1>4, <1>5, <1>6, <1>7, <1>8, <1>9, <1>10, <1>11, <1>12

-----------------------------------------------------------------------------
(* Ports and aliases *)

\* Names that lose their record share nothing new.
LEMMA FewerShared ==
  ASSUME SharedInv, \A n \in AllNames : bench'[n] \in {bench[n], NoRec}
  PROVE  NothingShared' /\ bench'[Throwaway].aliases = {} /\ Claimed' \subseteq Claimed
<1>1. NoRec.port = 0 /\ NoRec.aliases = {}
  BY DEF NoRec
<1>2. \A n \in AllNames : Tracked(n)' => Tracked(n) /\ bench'[n] = bench[n]
  BY <1>1 DEF Tracked
<1>3. NothingShared'
  BY <1>2 DEF SharedInv, NothingShared
<1>4. Claimed' \subseteq Claimed
  BY <1>2 DEF Claimed
<1> QED
  BY <1>1, <1>3, <1>4 DEF SharedInv, AllNames

\* Where no record is written nothing new is shared.
LEMMA SharedElsewhere ==
  ASSUME SharedInv, \A n \in AllNames : bench'[n] \in {bench[n], NoRec}, op'.pc # "create" \/ op' = op
  PROVE  SharedInv'
  BY FewerShared DEF SharedInv, At

\* The archived ports are taken only when they are nobody's.
LEMMA GatesShared ==
  ASSUME Shapes, SharedInv, Gates
  PROVE  SharedInv'
<1>1. bench' = bench
  BY DEF Gates
<1>2. op'.pc = "create" => op'.port = restorePorts(op.m, op.opts)
  BY DEF Gates, End, Shapes, IsOp
<1>3. op'.pc = "create" /\ op'.port # 0 => op'.port \notin Claimed
  BY <1>2 DEF restorePorts
<1>4. Claimed' = Claimed /\ NothingShared'
  BY <1>1 DEF Claimed, Tracked, SharedInv, NothingShared
<1> QED
  BY <1>1, <1>3, <1>4 DEF SharedInv, At

\* A free pair is nobody's.
LEMMA NewPortFree ==
  ASSUME SharedInv, At("create"), NewPort # 0
  PROVE  NewPort \notin Claimed
<1>1. CASE op.port # 0
  BY <1>1 DEF NewPort, SharedInv
<1>2. CASE op.port = 0
  <2> DEFINE free == Ports \ (Claimed \cup Listening)
  <2>1. free # {} /\ NewPort = CHOOSE p \in free : \A q \in free : p <= q
    BY <1>2 DEF NewPort
  <2>2. free \subseteq Nat
    BY RestoreAssumption
  <2>3. \E p \in free : \A q \in free : p <= q
    BY <2>1, <2>2, LeastNumber
  <2>4. NewPort \in free
    BY <2>1, <2>3
  <2> QED
    BY <2>4
<1> QED
  BY <1>1, <1>2

\* A created bench's port and aliases are nobody else's: checked or chosen at that step.
LEMMA CreateShared ==
  ASSUME Shapes, Course, SharedInv, Create
  PROVE  SharedInv'
<1> DEFINE t == op.target
           b == [port |-> NewPort, domain |-> RestoredDomain, aliases |-> RestoredAliases,
                 frappe |-> Plan["frappe"].spec, apps |-> {Plan[a].spec : a \in Cloned \ {"frappe"}}]
<1>1. t \in AllNames /\ At("create") /\ NewPort # 0 /\ checkAliasesFree(RestoredAliases, t)
  BY TargetShape DEF Create, CanCreate, At
<1>2. bench' = [bench EXCEPT ![t] = b]
  BY DEF Create
<1>3. NewPort \notin Claimed
  BY <1>1, NewPortFree
<1>4. t = Throwaway => RestoredAliases = {}
  BY RestoreAssumption DEF RestoredAliases, Shapes, IsArch
<1>5. \A o \in AllNames \ {t} : RestoredAliases \cap bench[o].aliases = {}
  BY <1>1 DEF checkAliasesFree, HostsOf
<1>6. \A o \in AllNames \ {t} : Tracked(o) => bench[o].port # NewPort
  BY <1>3 DEF Claimed
<1>7. b.port = NewPort /\ b.aliases = RestoredAliases
  OBVIOUS
<1> HIDE DEF b
<1>8. bench'[t] = b /\ \A o \in AllNames \ {t} : bench'[o] = bench[o]
  BY <1>1, <1>2 DEF Shapes, BenchesOK
<1>9. ASSUME NEW n \in AllNames, NEW o \in AllNames, n # o, bench'[n].port # 0, bench'[o].port # 0
      PROVE  bench'[n].port # bench'[o].port /\ bench'[n].aliases \cap bench'[o].aliases = {}
  <2>1. CASE n = t
    BY <1>5, <1>6, <1>7, <1>8, <1>9, <2>1 DEF Tracked
  <2>2. CASE o = t
    BY <1>5, <1>6, <1>7, <1>8, <1>9, <2>2 DEF Tracked
  <2>3. CASE n # t /\ o # t
    BY <1>8, <1>9, <2>3 DEF Tracked, SharedInv, NothingShared
  <2> QED
    BY <2>1, <2>2, <2>3
<1>10. NothingShared'
  BY <1>9 DEF NothingShared, Tracked
<1>11. bench'[Throwaway].aliases = {}
  BY <1>4, <1>7, <1>8 DEF SharedInv, AllNames
<1>12. op'.pc # "create"
  BY CreateShapes DEF Shapes, IsOp
<1> QED
  BY <1>10, <1>11, <1>12 DEF SharedInv, At

\* An alias is given when no bench answers on it.
LEMMA AliasShared ==
  ASSUME Shapes, SharedInv, AddAlias
  PROVE  SharedInv'
<1>1. PICK n \in Names \ {op.target}, h \in Hosts :
        /\ checkAliasesFree({h}, Throwaway)
        /\ bench' = [bench EXCEPT ![n].aliases = @ \cup {h}]
  BY DEF AddAlias
<1> DEFINE hs == bench[n].aliases \cup {h}
           b == [bench[n] EXCEPT !.aliases = hs]
<1>2. n \in AllNames /\ n # Throwaway
  BY RestoreAssumption DEF AllNames
<1>3. bench' = [bench EXCEPT ![n] = b]
  BY <1>1
<1>4. b.port = bench[n].port /\ b.aliases = hs
  BY <1>2 DEF Shapes, BenchesOK, IsBench
<1>5. \A o \in AllNames : h \notin bench[o].aliases
  BY <1>1 DEF checkAliasesFree, HostsOf, SharedInv
<1> HIDE DEF b
<1>6. bench'[n] = b /\ \A o \in AllNames \ {n} : bench'[o] = bench[o]
  BY <1>2, <1>3 DEF Shapes, BenchesOK
<1>7. \A o \in AllNames : bench'[o].port = bench[o].port
  BY <1>4, <1>6
<1>8. ASSUME NEW o \in AllNames, NEW q \in AllNames, o # q, bench'[o].port # 0, bench'[q].port # 0
      PROVE  bench'[o].port # bench'[q].port /\ bench'[o].aliases \cap bench'[q].aliases = {}
  <2>1. bench[o].port # bench[q].port /\ bench[o].aliases \cap bench[q].aliases = {}
    BY <1>7, <1>8 DEF SharedInv, NothingShared, Tracked
  <2>2. bench'[o].aliases \subseteq bench[o].aliases \cup (IF o = n THEN {h} ELSE {})
    BY <1>4, <1>6
  <2>3. bench'[q].aliases \subseteq bench[q].aliases \cup (IF q = n THEN {h} ELSE {})
    BY <1>4, <1>6
  <2> QED
    BY <1>5, <1>7, <1>8, <2>1, <2>2, <2>3
<1>9. NothingShared'
  BY <1>8 DEF NothingShared, Tracked
<1>10. bench'[Throwaway].aliases = {}
  BY <1>2, <1>6 DEF SharedInv, AllNames
<1>11. Claimed' = Claimed
  BY <1>7 DEF Claimed, Tracked
<1>12. op' = op
  BY DEF AddAlias, Moves
<1> QED
  BY <1>9, <1>10, <1>11, <1>12 DEF SharedInv, At

-----------------------------------------------------------------------------
(* Archives *)

\* No archive contradicts nothing.
LEMMA NothingConsistent == Consistent(NoArch)
  BY DEF Consistent, NoArch, NoApps, NoData

\* An archive that is only read stays what it was.
LEMMA ArchiveSame ==
  ASSUME ArchiveInv, arch' = arch, op'.m \in {op.m, arch, NoArch}, op'.pc \notin {"dump", "write"}
  PROVE  ArchiveInv'
<1>1. Consistent(arch') /\ Consistent(op'.m)
  BY NothingConsistent DEF ArchiveInv
<1>2. Portable'
  BY DEF ArchiveInv, Portable
<1> QED
  BY <1>1, <1>2 DEF ArchiveInv, At, Consistent

\* A damaged archive says what it said.
LEMMA ArchiveSpared ==
  ASSUME Shapes, ArchiveInv, Spared
  PROVE  ArchiveInv'
<1>1. /\ arch'.infos = arch.infos /\ arch'.installed = arch.installed /\ arch'.trees = arch.trees
      /\ arch'.was = arch.was /\ arch'.data = arch.data
  BY DEF Spared, Shapes, IsArch
<1>2. Consistent(arch')
  BY <1>1 DEF ArchiveInv, Consistent
<1>3. Portable'
  <2>1. arch = NoArch => arch.infos = NoApps
    BY DEF NoArch
  <2> QED
    BY <1>1, <2>1 DEF ArchiveInv, Portable, NoApps
<1> QED
  BY <1>2, <1>3 DEF ArchiveInv, Spared, At, Backing, Consistent

\* What collect records of apps and commits goes together.
LEMMA CollectArchive ==
  ASSUME Shapes, Course, ArchiveInv, Collect
  PROVE  ArchiveInv'
<1>1. DOMAIN op'.m.infos = DOMAIN host[op.source].code /\ op'.m.installed = host[op.source].data.apps
      /\ Consistent(op'.m)
  BY CollectShapes
<1>2. op'.source = op.source /\ arch' = arch /\ host' = [host EXCEPT ![op.source].up = TRUE]
  BY DEF Collect, Shapes, IsOp
<1>3. op.source \in AllNames
  BY DEF Course, Collect, At, Backing, AllNames
<1>4. host'[op.source].code = host[op.source].code /\ host'[op.source].data = host[op.source].data
  BY <1>2, <1>3 DEF Shapes, HostsOK, IsHost
<1>5. Portable'
  BY <1>2 DEF ArchiveInv, Portable
<1> QED
  BY <1>1, <1>2, <1>4, <1>5 DEF ArchiveInv, Consistent, At

\* The database dumped is the one collect listed the apps of: nobody changes a bench
\* that is backed up but its user, and the user installs no app.
LEMMA DumpArchive ==
  ASSUME Shapes, Course, ArchiveInv, DumpSite
  PROVE  ArchiveInv'
<1>1. /\ op'.pc = "write" /\ op'.source = op.source
      /\ op'.m.infos = op.m.infos /\ op'.m.installed = op.m.installed /\ op'.m.was = op.m.was
      /\ op'.m.data = host[op.source].data
  BY DEF DumpSite, Shapes, IsOp, IsArch
<1>2. At("dump") /\ UNCHANGED <<host, arch>>
  BY DEF DumpSite
<1>3. Consistent(op'.m)
  BY <1>1, <1>2 DEF ArchiveInv, Consistent
<1>4. Portable'
  BY <1>2 DEF ArchiveInv, Portable
<1> QED
  BY <1>1, <1>2, <1>3, <1>4 DEF ArchiveInv, At, Consistent

\* Every app that has to travel is in the archive.
LEMMA WriteArchived ==
  ASSUME Shapes, Course, ArchiveInv, WriteArchive
  PROVE  ArchiveInv'
<1> DEFINE kept == {a \in DOMAIN op.m.infos \cap DOMAIN host[op.source].code : Archived(op.m.infos[a])}
           trees == [a \in kept |-> host[op.source].code[a]]
<1>1. arch' = [op.m EXCEPT !.trees = trees]
  BY DEF WriteArchive
<1>2. DOMAIN op.m.infos = DOMAIN host[op.source].code
  BY DEF WriteArchive, ArchiveInv, At
<1>3. \A a \in DOMAIN op.m.infos : Archived(op.m.infos[a]) => a \in DOMAIN trees
  BY <1>2
<1> HIDE DEF trees
<1>4. /\ arch'.infos = op.m.infos /\ arch'.installed = op.m.installed /\ arch'.trees = trees
      /\ arch'.was = op.m.was /\ arch'.data = op.m.data
  BY <1>1 DEF Shapes, IsArch
<1>5. Consistent(arch')
  BY <1>4 DEF ArchiveInv, Consistent
<1>6. Portable'
  BY <1>3, <1>4 DEF ArchiveInv, Consistent, Portable
<1>7. op'.m = op.m /\ op'.pc \notin {"dump", "write"}
  <2>1. op' = [op EXCEPT !.pc = "read"] \/ op' = [op EXCEPT !.pc = "finished", !.ok = TRUE]
    BY DEF WriteArchive, End, Go
  <2> QED
    BY <2>1 DEF Shapes, IsOp
<1> QED
  BY <1>5, <1>6, <1>7 DEF ArchiveInv, At, Consistent

-----------------------------------------------------------------------------
(* What a restore has achieved *)

\* The plan is a function of the archive and the flags.
LEMMA PlanSame ==
  ASSUME op'.m = op.m, op'.opts = op.opts
  PROVE  Plan' = Plan /\ Cloned' = Cloned
  BY DEF Plan, Cloned

\* Before a bench is created and once it is there is nothing to be achieved.
LEMMA AchievedOutside ==
  ASSUME op'.pc \notin {"create"} \cup Rebuild
  PROVE  Achieved'
  BY DEF Achieved, Planned, Fetched, Named, Filled, Served, Rebuild, AfterDrift, AfterLoad, AfterPassword

\* The rest of the world undoes nothing of it.
LEMMA AchievedSpared ==
  ASSUME Shapes, Course, Achieved, Spared
  PROVE  Achieved'
<1>1. CASE op.pc \notin {"create"} \cup Rebuild
  BY <1>1, AchievedOutside DEF Spared
<1>2. CASE op.pc \in {"create"} \cup Rebuild
  <2>1. op.target \in AllNames
    BY <1>2, TargetShape
  <2>2. op' = op /\ Target' = Target
    BY <2>1 DEF Spared, Target
  <2>3. Plan' = Plan /\ Cloned' = Cloned
    BY <2>2, PlanSame
  <2> QED
    BY <2>2, <2>3 DEF Achieved, Planned, Fetched, Named, Filled, Served, At
<1> QED
  BY <1>1, <1>2

\* Nothing is created that the plan and the archive do not cover.
LEMMA GatesPlanned ==
  ASSUME Shapes, Gates
  PROVE  Achieved'
<1>1. CASE op'.pc # "create"
  BY <1>1, AchievedOutside DEF Gates, End, Shapes, IsOp, Rebuild
<1>2. CASE op'.pc = "create"
  <2>1. \E answers \in BOOLEAN : Refusals(answers) = {}
    BY <1>2 DEF Gates, End, Shapes, IsOp
  <2>2. checkRestorePlan(op.m, Plan, op.opts.over) = {}
    BY <2>1 DEF Refusals
  <2>3. DOMAIN Plan \subseteq Apps /\ FromArchive(Plan) \subseteq DOMAIN op.m.trees
    BY <2>2 DEF checkRestorePlan
  <2>4. op'.m = op.m /\ op'.opts = op.opts
    BY DEF Gates, End, Shapes, IsOp
  <2>5. Planned'
    BY <2>3, <2>4, PlanSame DEF Planned
  <2> QED
    BY <1>2, <2>5 DEF Achieved, Fetched, Named, Filled, Served, Rebuild, AfterDrift, AfterLoad, AfterPassword
<1> QED
  BY <1>1, <1>2

\* A created bench has the code of the plan that is not in the archive.
LEMMA CreateAchieved ==
  ASSUME Shapes, Course, Achieved, Create
  PROVE  Achieved'
<1>1. /\ op' = [op EXCEPT !.pc = "unpack", !.made = TRUE]
      /\ DOMAIN host'[op.target].code = Cloned
      /\ \A a \in Cloned : /\ host'[op.target].code[a].remote = RepoOf(Plan[a].spec)
                           /\ Plan[a].spec # NoSpec
  BY CreateShapes
<1>2. op'.m = op.m /\ op'.opts = op.opts /\ op'.target = op.target /\ op'.pc = "unpack"
  BY <1>1 DEF Shapes, IsOp
<1>3. Plan' = Plan /\ Cloned' = Cloned
  BY <1>2, PlanSame
<1>4. Planned'
  BY <1>2, <1>3 DEF Achieved, Planned, Create, At
<1>5. Fetched'
  BY <1>1, <1>2, <1>3 DEF Fetched, Target, At, Cloned
<1> QED
  BY <1>2, <1>4, <1>5 DEF Achieved, Named, Filled, Served, AfterDrift, AfterLoad, AfterPassword

\* A step that keeps the code keeps what is known of it.
LEMMA StepAchieved ==
  ASSUME Shapes, NEW pc, NEW h, AfterStep(h, pc)
  PROVE  /\ op'.pc = pc /\ op'.m = op.m /\ op'.opts = op.opts /\ op'.warned = op.warned /\ op'.target = op.target
         /\ Target' = h /\ Plan' = Plan /\ Cloned' = Cloned
<1>1. /\ op'.pc = pc /\ op'.m = op.m /\ op'.opts = op.opts /\ op'.warned = op.warned /\ op'.target = op.target
  BY DEF AfterStep, Shapes, IsOp
<1>2. Target' = h
  BY <1>1 DEF AfterStep, Target
<1> QED
  BY <1>1, <1>2, PlanSame

\* With the archived source in, it has all the plan.
LEMMA UnpackAchieved ==
  ASSUME Shapes, Course, Achieved, installArchivedApps
  PROVE  Achieved'
<1> DEFINE h == [Target EXCEPT !.code = Unpacked]
<1>1. At("unpack")
  BY DEF installArchivedApps
<1>2. FromArchive(Plan) \subseteq DOMAIN op.m.trees
  BY <1>1 DEF Achieved, Planned, At, Rebuild
<1>3. AfterStep(h, "pin")
  BY <1>2, UnpackStep
<1>4. h.code = Unpacked
  BY <1>1, TargetShape DEF IsHost, At, Rebuild
<1> HIDE DEF h
<1>5. op'.pc = "pin" /\ op'.m = op.m /\ Target' = h /\ Plan' = Plan /\ Cloned' = Cloned
  BY <1>3, StepAchieved
<1>6. DOMAIN Unpacked = DOMAIN Plan
  <2>1. DOMAIN Target.code = Cloned
    BY <1>1 DEF Achieved, Fetched, At, Rebuild
  <2>2. "frappe" \in DOMAIN Plan /\ FromArchive(Plan) \subseteq DOMAIN Plan
    BY PlanDomain DEF Plan, FromArchive
  <2> QED
    BY <2>1, <2>2 DEF Unpacked, Cloned
<1>7. \A a \in DOMAIN Plan \ FromArchive(Plan) : Unpacked[a] = Target.code[a]
  BY <1>6 DEF Unpacked
<1>8. Fetched'
  BY <1>1, <1>4, <1>5, <1>6, <1>7 DEF Achieved, Fetched, At, Rebuild
<1>9. Planned'
  BY <1>1, <1>5 DEF Achieved, Planned, At, Rebuild
<1> QED
  BY <1>5, <1>8, <1>9 DEF Achieved, Named, Filled, Served, AfterDrift, AfterLoad, AfterPassword

\* Pinning changes commits, not where the code is from.
LEMMA PinAchieved ==
  ASSUME Shapes, Course, Achieved, pinApps
  PROVE  Achieved'
<1>1. /\ \E w : op' = [op EXCEPT !.pc = "drift", !.warned = w]
      /\ DOMAIN host'[op.target].code = DOMAIN Target.code
      /\ \A a \in DOMAIN Target.code : host'[op.target].code[a].remote = Target.code[a].remote
  BY PinStep
<1>2. op'.pc = "drift" /\ op'.m = op.m /\ op'.opts = op.opts /\ op'.target = op.target
  BY <1>1 DEF Shapes, IsOp
<1>3. Plan' = Plan /\ Cloned' = Cloned
  BY <1>2, PlanSame
<1>4. At("pin")
  BY DEF pinApps
<1>5. DOMAIN Target.code = DOMAIN Plan
  BY <1>4 DEF Achieved, Fetched, At, Rebuild
<1>6. Fetched'
  BY <1>1, <1>2, <1>3, <1>4, <1>5 DEF Achieved, Fetched, At, Rebuild, Target
<1>7. Planned'
  BY <1>2, <1>3, <1>4 DEF Achieved, Planned, At, Rebuild
<1> QED
  BY <1>2, <1>6, <1>7 DEF Achieved, Named, Filled, Served, AfterDrift, AfterLoad, AfterPassword

\* After the check, whatever is not at the archived commit is named.
LEMMA DriftAchieved ==
  ASSUME Shapes, Course, Achieved, checkDrift
  PROVE  Achieved'
<1>1. /\ \/ op' = [op EXCEPT !.pc = "config", !.warned = op.warned \cup Drifted]
         \/ op' = [op EXCEPT !.pc = "config", !.warned = pinnable(op.m, Plan)]
      /\ host' = host /\ At("drift")
  BY DEF checkDrift
<1>2. op'.pc = "config" /\ op'.m = op.m /\ op'.opts = op.opts /\ op'.target = op.target
  BY <1>1 DEF Shapes, IsOp
<1>3. Plan' = Plan /\ Cloned' = Cloned /\ Target' = Target
  BY <1>1, <1>2, PlanSame DEF Target
<1>4. op'.warned = op.warned \cup Drifted \/ op'.warned = pinnable(op.m, Plan)
  BY <1>1 DEF Shapes, IsOp
<1>5. \A a \in pinnable(op.m, Plan) \cap DOMAIN Target.code :
        op.m.infos[a].commit \in {NoCommit, Target.code[a].head} \/ a \in op'.warned
  BY <1>4 DEF Drifted
<1>6. Named'
  BY <1>2, <1>3, <1>5 DEF Named
<1>7. Planned' /\ Fetched'
  BY <1>1, <1>2, <1>3 DEF Achieved, Planned, Fetched, At, Rebuild
<1> QED
  BY <1>2, <1>6, <1>7 DEF Achieved, Filled, Served, AfterLoad, AfterPassword

\* A step that keeps the code keeps what is known of it.
LEMMA CodeKept ==
  ASSUME Shapes, Course, Achieved, NEW pc \in AfterDrift, NEW h, AfterStep(h, pc), h.code = Target.code,
         op.pc \in AfterDrift
  PROVE  /\ Planned' /\ Fetched' /\ Named'
         /\ op'.pc = pc /\ op'.m = op.m /\ Target' = h
<1>1. /\ op'.pc = pc /\ op'.m = op.m /\ op'.warned = op.warned
      /\ Target' = h /\ Plan' = Plan /\ Cloned' = Cloned
  BY StepAchieved
<1>2. pc \in Rebuild /\ op.pc \in Rebuild /\ pc # "unpack" /\ op.pc # "unpack"
  BY DEF AfterDrift, Rebuild
<1> QED
  BY <1>1, <1>2 DEF Achieved, Planned, Fetched, Named, At

\* The key is the archive's before anything can mint one.
LEMMA KeyAchieved ==
  ASSUME Shapes, Course, Achieved, applySiteConfig
  PROVE  Achieved'
<1> DEFINE h == [Target EXCEPT !.key = IF op.m.key # None THEN op.m.key ELSE Target.key]
<1>1. AfterStep(h, "load") /\ op.pc = "config"
  BY KeyStep DEF applySiteConfig, At
<1>2. h.code = Target.code /\ (op.m.key # None => h.key = op.m.key)
  BY <1>1, TargetShape DEF IsHost, Rebuild
<1> HIDE DEF h
<1>3. Planned' /\ Fetched' /\ Named' /\ op'.pc = "load" /\ op'.m = op.m /\ Target' = h
  BY <1>1, <1>2, CodeKept DEF AfterDrift
<1> QED
  BY <1>2, <1>3 DEF Achieved, Filled, Served, AfterLoad, AfterPassword

\* Loading brings the archive's data and files, and keeps the key.
LEMMA LoadAchieved ==
  ASSUME Shapes, Course, Achieved, runBenchRestore
  PROVE  Achieved'
<1> DEFINE h == [Target EXCEPT !.data = op.m.data, !.files = op.m.files, !.pw = "dump",
                      !.key = IF Target.key = None THEN "minted" ELSE Target.key]
<1>1. AfterStep(h, "password") /\ op.pc = "load"
  BY LoadStep DEF runBenchRestore, At
<1>2. h = [Target EXCEPT !.data = op.m.data, !.files = op.m.files, !.pw = "dump",
                      !.key = IF Target.key = None THEN "minted" ELSE Target.key]
  OBVIOUS
<1> HIDE DEF h
<1>3. /\ h.code = Target.code /\ h.data = op.m.data /\ h.files = op.m.files
      /\ h.key = IF Target.key = None THEN "minted" ELSE Target.key
  BY <1>1, <1>2, TargetShape DEF IsHost, Rebuild
<1>4. Planned' /\ Fetched' /\ Named' /\ op'.pc = "password" /\ op'.m = op.m /\ Target' = h
  BY <1>1, <1>3, CodeKept DEF AfterDrift
<1>5. Filled'
  BY <1>1, <1>3, <1>4 DEF Achieved, Filled, AfterLoad, AfterPassword
<1> QED
  BY <1>4, <1>5 DEF Achieved, Served

\* Each of the last steps adds its part and keeps the others.
LEMMA OthersAchieved ==
  ASSUME Shapes, Course, Achieved, setAdminPassword \/ Settings \/ Migrate \/ Build \/ Restart
  PROVE  Achieved'
<1> USE DEF AfterDrift, AfterLoad, AfterPassword, Achieved, Filled, Served
<1>1. CASE setAdminPassword
  <2> DEFINE h == [Target EXCEPT !.pw = "record"]
  <2>1. AfterStep(h, "settings") /\ op.pc = "password"
    BY <1>1, OtherSteps DEF setAdminPassword, At
  <2>2. /\ h.code = Target.code /\ h.key = Target.key /\ h.data = Target.data /\ h.files = Target.files
        /\ h.pw = "record"
    BY <2>1, TargetShape DEF IsHost, Rebuild
  <2> HIDE DEF h
  <2>3. Planned' /\ Fetched' /\ Named' /\ op'.pc = "settings" /\ op'.m = op.m /\ Target' = h
    BY <2>1, <2>2, CodeKept
  <2> QED
    BY <2>1, <2>2, <2>3
<1>2. CASE Settings
  <2>1. AfterStep(Target, "migrate") /\ op.pc = "settings"
    BY <1>2, OtherSteps DEF Settings, At
  <2>2. Planned' /\ Fetched' /\ Named' /\ op'.pc = "migrate" /\ op'.m = op.m /\ Target' = Target
    BY <2>1, CodeKept
  <2> QED
    BY <2>1, <2>2
<1>3. CASE Migrate
  <2> DEFINE h == [Target EXCEPT !.migrated = Heads(Target.code)]
  <2>1. AfterStep(h, "build") /\ op.pc = "migrate"
    BY <1>3, OtherSteps DEF Migrate, At
  <2>2. /\ h.code = Target.code /\ h.key = Target.key /\ h.data = Target.data /\ h.files = Target.files
        /\ h.pw = Target.pw /\ h.migrated = Heads(Target.code)
    BY <2>1, TargetShape DEF IsHost, Rebuild
  <2> HIDE DEF h
  <2>3. Planned' /\ Fetched' /\ Named' /\ op'.pc = "build" /\ op'.m = op.m /\ Target' = h
    BY <2>1, <2>2, CodeKept
  <2>4. Heads(h.code) = Heads(Target.code)
    BY <2>2
  <2> QED
    BY <2>1, <2>2, <2>3, <2>4 DEF Heads
<1>4. CASE Build
  <2> DEFINE h == [Target EXCEPT !.patched = TRUE]
  <2>1. AfterStep(h, "restart") /\ op.pc = "build"
    BY <1>4, OtherSteps DEF Build, At
  <2>2. h = [Target EXCEPT !.patched = TRUE]
    OBVIOUS
  <2> HIDE DEF h
  <2>3. /\ h.code = Target.code /\ h.key = Target.key /\ h.data = Target.data /\ h.files = Target.files
        /\ h.pw = Target.pw /\ h.migrated = Target.migrated /\ h.patched
    BY <2>1, <2>2, TargetShape DEF IsHost, Rebuild
  <2>4. Planned' /\ Fetched' /\ Named' /\ op'.pc = "restart" /\ op'.m = op.m /\ Target' = h
    BY <2>1, <2>3, CodeKept
  <2> QED
    BY <2>1, <2>3, <2>4 DEF Heads
<1>5. CASE Restart
  <2> DEFINE h == [Target EXCEPT !.serves = Heads(Target.code)]
  <2>1. AfterStep(h, "record") /\ op.pc = "restart"
    BY <1>5, OtherSteps DEF Restart, At
  <2>2. h = [Target EXCEPT !.serves = Heads(Target.code)]
    OBVIOUS
  <2> HIDE DEF h
  <2>3. /\ h.code = Target.code /\ h.key = Target.key /\ h.data = Target.data /\ h.files = Target.files
        /\ h.pw = Target.pw /\ h.migrated = Target.migrated /\ h.patched = Target.patched
        /\ h.serves = Heads(Target.code)
    BY <2>1, <2>2, TargetShape DEF IsHost, Rebuild
  <2>4. Planned' /\ Fetched' /\ Named' /\ op'.pc = "record" /\ op'.m = op.m /\ Target' = h
    BY <2>1, <2>3, CodeKept
  <2> QED
    BY <2>1, <2>3, <2>4 DEF Heads
<1> QED
  BY <1>1, <1>2, <1>3, <1>4, <1>5

-----------------------------------------------------------------------------
(* What a restore that ended promises *)

Promised == LeftAsFound /\ RestoredFaithful /\ RecordClones

\* Until it ends an operation promises nothing.
LEMMA UnfinishedPromised ==
  ASSUME op'.pc # "finished" PROVE Promised'
  BY DEF Promised, LeftAsFound, RestoredFaithful, RecordClones, At

\* What was promised stays true until it is read.
LEMMA SparedPromised ==
  ASSUME Shapes, Course, Promised, Spared
  PROVE  Promised'
<1>1. CASE op.target \in AllNames
  <2>1. op' = op /\ staging' = staging /\ Target' = Target /\ bench'[op.target] = bench[op.target]
        /\ host'[op.target] = host[op.target]
    BY <1>1 DEF Spared, Target
  <2>2. Plan' = Plan
    BY <2>1 DEF Plan
  <2> QED
    BY <2>1, <2>2 DEF Promised, LeftAsFound, RestoredFaithful, RecordClones, At, Tracked, Restores, Expected
<1>2. CASE op.target \notin AllNames
  <2>1. op.kind \in {"none", "backup"} /\ ~op.made /\ op' = op
    BY <1>2 DEF Course, Spared
  <2> QED
    BY <2>1 DEF Promised, LeftAsFound, RestoredFaithful, RecordClones, Restores
<1> QED
  BY <1>1, <1>2

\* A failure before anything was made, and the end of a backup.
LEMMA EarlyPromised ==
  ASSUME ~op'.made, ~op'.ok \/ op'.kind = "backup"
  PROVE  Promised'
  BY DEF Promised, LeftAsFound, RestoredFaithful, RecordClones, Restores

\* A backup's end, and a restore refused before anything was made.
LEMMA EndsPromised ==
  ASSUME Shapes, Course, WriteArchive \/ BackupFails \/ BackupCannot \/ ReadFails \/ Gates \/ CreateFails
  PROVE  Promised'
<1> USE DEF Shapes, IsOp, Course, Before, Backing, At, End, Go
<1>1. CASE WriteArchive
  <2>1. op' = [op EXCEPT !.pc = "read"] \/ (op' = [op EXCEPT !.pc = "finished", !.ok = TRUE] /\ op.kind # "clone")
    BY <1>1 DEF WriteArchive
  <2>2. op.kind \in {"backup", "clone"} /\ ~op.made
    BY <1>1 DEF WriteArchive
  <2>3. op'.pc = "read" \/ (~op'.made /\ op'.kind = "backup")
    BY <2>1, <2>2
  <2> QED
    BY <2>3, UnfinishedPromised, EarlyPromised
<1>2. CASE BackupFails
  BY <1>2, EarlyPromised DEF BackupFails
<1>3. CASE BackupCannot
  BY <1>3, EarlyPromised DEF BackupCannot
<1>4. CASE ReadFails
  BY <1>4, EarlyPromised DEF ReadFails
<1>5. CASE Gates
  <2>1. op'.pc = "create" \/ (~op'.made /\ ~op'.ok)
    BY <1>5 DEF Gates
  <2> QED
    BY <2>1, UnfinishedPromised, EarlyPromised
<1>6. CASE CreateFails
  BY <1>6, EarlyPromised DEF CreateFails
<1> QED
  BY <1>1, <1>2, <1>3, <1>4, <1>5, <1>6

\* What is undone is gone, but for what the teardown could not remove.
LEMMA UndoPromised ==
  ASSUME Shapes, Course, Undo \/ Discard
  PROVE  Promised'
<1>1. op.target \in AllNames
  BY DEF Course, Undo, Discard, At, Verifying, Backing
<1>2. op'.opts = op.opts /\ op'.target = op.target /\ op'.kind = op.kind /\ ~staging'
  BY DEF Undo, Discard, End, Shapes, IsOp
<1>3. ASSUME Gone(op.target) \/ Torn(op.target)
      PROVE  ~Tracked(op.target)'
  <2>1. bench'[op.target] = NoRec
    BY <1>1, <1>3 DEF Gone, Torn, Shapes, BenchesOK
  <2> QED
    BY <1>2, <2>1 DEF NoRec, Tracked
<1>4. /\ Gone(op.target) => host'[op.target] = NoHost
      /\ Torn(op.target) => host'[op.target] \in Remains
  BY <1>1 DEF Gone, Torn, Shapes, HostsOK
<1>5. \/ op.opts.keep
      \/ op'.left = "nothing" /\ Gone(op.target)
      \/ op'.left = "remains" /\ Torn(op.target)
      \/ op'.left = "told"
  BY DEF Undo, Discard, End, Shapes, IsOp, Course, At
<1>6. LeftAsFound'
  BY <1>2, <1>3, <1>4, <1>5 DEF LeftAsFound
<1>7. ~op'.ok \/ op'.kind = "verify"
  BY DEF Undo, Discard, End, Shapes, IsOp, Course, At, Verifying
<1> QED
  BY <1>6, <1>7 DEF Promised, RestoredFaithful, RecordClones, Restores

\* Of a bench that could not be read back nothing is promised.
LEMMA UnreadPromised ==
  ASSUME Shapes, CreatedUnread
  PROVE  Promised'
<1>1. op'.left = "bench" /\ ~op'.ok
  BY DEF CreatedUnread, End, Shapes, IsOp
<1> QED
  BY <1>1 DEF Promised, LeftAsFound, RestoredFaithful, RecordClones

\* The record names the repository every cloned app came from.
LEMMA RecordedClones ==
  ASSUME NEW m, NEW plan, NEW listed, NEW a \in listed, a # "frappe", a \in DOMAIN plan, a \notin FromArchive(plan),
         plan[a].spec # NoSpec
  PROVE  plan[a].spec \in appsWithoutFramework(m, plan, listed)
  BY DEF appsWithoutFramework, specsByName

\* The end of a restore that worked: everything achieved step by step is what was
\* promised, and the record names the repositories the plan was cloned from.
LEMMA RecordPromised ==
  ASSUME Shapes, Course, ArchiveInv, Achieved, Record
  PROVE  Promised'
<1> DEFINE h == Target
<1>1. PICK ls \in {h.data.apps, DOMAIN h.code} :
        bench' = [bench EXCEPT ![op.target].apps = appsWithoutFramework(op.m, Plan, ls)]
  BY RecordShapes
<1>2. host' = host /\ At("record")
  BY DEF Record
<1>3. op.target \in AllNames /\ IsHost(h)
  BY <1>2, TargetShape DEF At, Rebuild
<1>4. /\ op'.m = op.m /\ op'.opts = op.opts /\ op'.target = op.target /\ op'.kind = op.kind
      /\ op'.warned = op.warned
      /\ op'.pc = "finished" => op'.ok /\ op.kind # "verify"
  BY RecordShapes DEF Shapes, IsOp
<1>5. Plan' = Plan /\ Target' = h
  BY <1>2, <1>4, PlanSame DEF Target
<1>6. DOMAIN h.code = DOMAIN Plan
  BY <1>2 DEF Achieved, Fetched, At, Rebuild
<1>7. h.data = op.m.data /\ h.files = op.m.files /\ h.pw = "record" /\ (op.m.key # None => h.key = op.m.key)
  BY <1>2 DEF Achieved, Filled, At, AfterLoad, AfterPassword
<1>8. h.migrated = Heads(h.code) /\ h.serves = h.migrated /\ h.patched
  BY <1>2 DEF Achieved, Served, At
<1>9. h.data.apps \subseteq DOMAIN h.code
  <2>1. op.m.data.apps \subseteq op.m.installed \cup {"frappe"}
    BY DEF ArchiveInv, Consistent
  <2>2. op.m.installed \cup {"frappe"} \subseteq DOMAIN Plan
    BY PlanDomain DEF Plan
  <2> QED
    BY <1>6, <1>7, <2>1, <2>2
<1>10. ASSUME NEW a \in DOMAIN op.m.was \cap DOMAIN Plan, Expected(a)
       PROVE  h.code[a].head = op.m.was[a].head
  <2>1. a \in DOMAIN op.m.infos /\ op.m.infos[a].commit \in {NoCommit, op.m.was[a].head}
    BY DEF ArchiveInv, Consistent
  <2>2. op.m.infos[a].commit # NoCommit /\ a \notin FromArchive(Plan) /\ a \notin op.warned
        /\ ~overrideMovesBranch(op.m, Plan, a)
    BY <1>10, <2>1 DEF Expected, InfoOf
  <2>3. a \in Apps
    BY <1>2 DEF Achieved, Planned, At, Rebuild
  <2>4. a \in pinnable(op.m, Plan) \cap DOMAIN h.code
    BY <1>6, <2>1, <2>2, <2>3 DEF pinnable
  <2>5. op.m.infos[a].commit \in {NoCommit, h.code[a].head} \/ a \in op.warned
    BY <1>2, <2>4 DEF Achieved, Named, At, AfterDrift
  <2> QED
    BY <2>1, <2>2, <2>5
<1>11. RestoredFaithful'
  <2>1. \A a : Expected(a)' <=> Expected(a)
    BY <1>4, <1>5 DEF Expected
  <2> QED
    BY <1>4, <1>5, <1>7, <1>8, <1>9, <1>10, <2>1 DEF RestoredFaithful
<1>12. RecordClones'
  <2> SUFFICES ASSUME NEW a \in h.data.apps \ ({"frappe"} \cup FromArchive(Plan))
               PROVE  \E s \in bench'[op.target].apps : RepoOf(s) = h.code[a].remote
    BY <1>4, <1>5 DEF RecordClones, RepoOf, IsURL
  <2>1. a \in DOMAIN Plan /\ a \in DOMAIN h.code
    BY <1>6, <1>9
  <2>2. h.code[a].remote = RepoOf(Plan[a].spec) /\ Plan[a].spec # NoSpec
    BY <1>2, <2>1 DEF Achieved, Fetched, At, Rebuild
  <2>3. Plan[a].spec \in appsWithoutFramework(op.m, Plan, ls)
    BY <1>1, <2>1, <2>2, RecordedClones
  <2>4. bench'[op.target].apps = appsWithoutFramework(op.m, Plan, ls)
    BY <1>1, <1>3 DEF Shapes, BenchesOK, IsBench
  <2> QED
    BY <2>2, <2>3, <2>4
<1>13. LeftAsFound'
  BY <1>4 DEF LeftAsFound, At
<1> QED
  BY <1>11, <1>12, <1>13 DEF Promised

-----------------------------------------------------------------------------
(* The invariant is inductive *)

RestoreInv == Shapes /\ Course /\ SharedInv /\ ArchiveInv /\ Achieved /\ Promised

\* It holds initially, whatever the first bench is.
LEMMA InitRestore == RestoreInit => RestoreInv
<1> SUFFICES ASSUME RestoreInit PROVE RestoreInv
  OBVIOUS
<1> USE RestoreAssumption, FirstsAssumption
<1>1. op = NoOp /\ arch = NoArch /\ op.m = NoArch /\ op.pc = "idle" /\ op.kind = "none" /\ ~op.made
      /\ op.left = "nothing"
  BY DEF RestoreInit, NoOp
<1>2. PICK f \in Firsts :
        LET c    == f.code
            n    == CHOOSE x \in Names : TRUE
            apps == {[source |-> c[a].remote, branch |-> Main] : a \in DOMAIN c \ {"frappe"}}
        IN  /\ bench = [x \in AllNames |-> IF x # n THEN NoRec ELSE
                 [port |-> 1, domain |-> f.domain, aliases |-> {}, frappe |-> [source |-> Upstream, branch |-> Main],
                  apps |-> {IF s.source \in Repos THEN s ELSE [source |-> "kb", branch |-> None] : s \in apps}]]
            /\ host = [x \in AllNames |-> IF x # n THEN NoHost ELSE
                 [NoHost EXCEPT !.dir = TRUE, !.volumes = TRUE, !.up = TRUE, !.files = TRUE, !.key = f.key,
                    !.data = [v |-> 1, apps |-> DOMAIN c], !.pw = "dump", !.code = c, !.patched = TRUE,
                    !.migrated = Heads(c), !.serves = Heads(c)]]
  BY DEF RestoreInit
<1> DEFINE c == f.code
           n == CHOOSE x \in Names : TRUE
           frappe == [source |-> Upstream, branch |-> Main]
           apps == {IF s.source \in Repos THEN s ELSE [source |-> "kb", branch |-> None] :
                      s \in {[source |-> c[a].remote, branch |-> Main] : a \in DOMAIN c \ {"frappe"}}}
           b == [port |-> 1, domain |-> f.domain, aliases |-> {}, frappe |-> frappe, apps |-> apps]
           data == [v |-> 1, apps |-> DOMAIN c]
           heads == Heads(c)
           h == [NoHost EXCEPT !.dir = TRUE, !.volumes = TRUE, !.up = TRUE, !.files = TRUE, !.key = f.key,
                    !.data = data, !.pw = "dump", !.code = c, !.patched = TRUE,
                    !.migrated = heads, !.serves = heads]
<1>3. bench = [x \in AllNames |-> IF x # n THEN NoRec ELSE b]
  BY <1>2
<1>4. host = [x \in AllNames |-> IF x # n THEN NoHost ELSE h]
  BY <1>2
<1>5. IsBench(b) /\ b.aliases = {} /\ b.port # 0
  <2>1. frappe.branch \in BranchOrNone
    BY DEF BranchOrNone
  <2> HIDE DEF frappe, apps
  <2> QED
    BY <2>1 DEF IsBench
<1>6. IsHost(h)
  <2>1. h = [NoHost EXCEPT !.dir = TRUE, !.volumes = TRUE, !.up = TRUE, !.files = TRUE, !.key = f.key,
                    !.data = data, !.pw = "dump", !.code = c, !.patched = TRUE,
                    !.migrated = heads, !.serves = heads]
    OBVIOUS
  <2>2. /\ data = [v |-> data.v, apps |-> data.apps] /\ IsCode(c)
        /\ data.apps \subseteq Apps /\ IsFiniteSet(data.apps)
    OBVIOUS
  <2> HIDE DEF h, data, c, heads
  <2> QED
    BY <2>1, <2>2, NoneShapes DEF IsHost
<1> HIDE DEF b, h
<1>7. BenchesOK /\ HostsOK
  BY <1>3, <1>4, <1>5, <1>6, NoneShapes DEF BenchesOK, HostsOK
<1>8. IsRepos(repos)
  <2>1. repos = [tip |-> [r \in Repos |-> History(r)],
              served |-> {<<r, [line |-> r, n |-> i]>> : r \in Repos, i \in 1..2}]
    BY DEF RestoreInit
  <2>2. \A r \in Repos : r # "own"
    OBVIOUS
  <2>3. \A r \in Repos, x \in Branches : IsCommit(History(r)[x]) /\ History(r)[x].line # "own"
    BY <2>2 DEF History, IsCommit
  <2>4. \A s \in repos.served : s = <<s[1], s[2]>> /\ IsCommit(s[2]) /\ s[2].line # "own"
    BY <2>1, <2>2 DEF IsCommit
  <2>5. repos = [tip |-> repos.tip, served |-> repos.served] /\ repos.tip = [r \in Repos |-> repos.tip[r]]
    BY <2>1
  <2>6. \A r \in Repos : repos.tip[r] = [x \in Branches |-> repos.tip[r][x]]
    BY <2>1 DEF History
  <2>7. \A r \in Repos, x \in Branches : IsCommit(repos.tip[r][x]) /\ repos.tip[r][x].line # "own"
    BY <2>1, <2>3
  <2> QED
    BY <2>4, <2>5, <2>6, <2>7 DEF IsRepos
<1>9. Shapes
  BY <1>1, <1>7, <1>8, NoneShapes DEF Shapes
<1>10. Course
  BY <1>1 DEF Course, Before, Backing, Verifying
<1>11. SharedInv
  <2>1. \A x \in AllNames : Tracked(x) => x = n
    BY <1>3 DEF Tracked, NoRec
  <2>2. NothingShared
    BY <2>1 DEF NothingShared
  <2>3. bench[Throwaway].aliases = {}
    BY <1>3, <1>5 DEF AllNames, NoRec
  <2> QED
    BY <1>1, <2>2, <2>3 DEF SharedInv, At
<1>12. ArchiveInv
  <2>1. Portable
    BY <1>1 DEF Portable
  <2> QED
    BY <1>1, <2>1, NothingConsistent DEF ArchiveInv, At
<1>13. Achieved
  BY <1>1 DEF Achieved, Planned, Fetched, Named, Filled, Served, Rebuild, AfterDrift, AfterLoad, AfterPassword
<1>14. Promised
  BY <1>1 DEF Promised, LeftAsFound, RestoredFaithful, RecordClones, At
<1> QED
  BY <1>9, <1>10, <1>11, <1>12, <1>13, <1>14 DEF RestoreInv

\* The rest of the world keeps it.
LEMMA WorldInv == ASSUME RestoreInv, World PROVE RestoreInv'
<1>1. Shapes' /\ Spared
  BY WorldShapes DEF RestoreInv
<1>2. Course'
  BY <1>1 DEF RestoreInv, Course, Spared
<1>3. SharedInv'
  <2>1. CASE AddAlias
    BY <2>1, AliasShared DEF RestoreInv
  <2>2. CASE DeleteBench
    <3>1. PICK n \in Names : Gone(n)
      BY <2>2 DEF DeleteBench
    <3>2. \A o \in AllNames : bench'[o] \in {bench[o], NoRec}
      BY <3>1, RemovalShapes DEF RestoreInv, AllNames
    <3> QED
      BY <1>1, <3>2, SharedElsewhere DEF RestoreInv, Spared
  <2>3. CASE ~AddAlias /\ ~DeleteBench
    <3>1. bench' = bench
      BY <2>3 DEF World, Push, ForcePush, DropBranch, UserCommit, ChangeData, Toggle, Rot
    <3> QED
      BY <1>1, <3>1, SharedElsewhere DEF RestoreInv, Spared
  <2> QED
    BY <2>1, <2>2, <2>3
<1> QED
  BY <1>1, <1>2, <1>3, ArchiveSpared, AchievedSpared, SparedPromised DEF RestoreInv

\* Steps that change the operation only.
LEMMA OpOnlyInv ==
  ASSUME RestoreInv, OnlyOp, Shapes', Course', op'.m \in {op.m, arch, NoArch},
         op'.pc \notin {"create", "dump", "write"} \cup Rebuild, Promised'
  PROVE  RestoreInv'
<1>1. SharedInv'
  BY SharedElsewhere DEF RestoreInv, OnlyOp
<1>2. ArchiveInv'
  BY ArchiveSame DEF RestoreInv, OnlyOp
<1>3. Achieved'
  BY AchievedOutside
<1> QED
  BY <1>1, <1>2, <1>3 DEF RestoreInv

\* So does the beginning of an operation,
LEMMA StartInv ==
  ASSUME RestoreInv, StartBackup \/ StartClone \/ StartRestore \/ StartVerify
  PROVE  RestoreInv'
<1>1. op'.m = NoArch /\ op'.pc \in {"collect", "read"} /\ OnlyOp
  BY StartCourse DEF RestoreInv
<1>2. Shapes' /\ Course'
  BY StartShapes, StartCourse DEF RestoreInv
<1>3. Promised'
  BY <1>1, UnfinishedPromised
<1> QED
  BY <1>1, <1>2, <1>3, OpOnlyInv DEF Rebuild

\* of an import,
LEMMA ImportInv == ASSUME RestoreInv, ImportDump PROVE RestoreInv'
<1>1. Shapes' /\ Consistent(op'.m) /\ Course'
  BY ImportShapes, ImportCourse DEF RestoreInv, ArchiveInv
<1>2. OnlyOp
  BY DEF ImportDump, OnlyOp
<1>3. op'.pc = "gates"
  BY ImportCourse
<1>4. SharedInv'
  BY <1>2, <1>3, SharedElsewhere DEF RestoreInv, OnlyOp
<1>5. ArchiveInv'
  <2>1. Consistent(arch') /\ Portable'
    BY <1>2 DEF RestoreInv, ArchiveInv, OnlyOp, Consistent, Portable
  <2> QED
    BY <1>1, <1>3, <2>1 DEF ArchiveInv, At, Consistent
<1>6. Achieved' /\ Promised'
  BY <1>3, AchievedOutside, UnfinishedPromised DEF Rebuild
<1> QED
  BY <1>1, <1>4, <1>5, <1>6 DEF RestoreInv

\* every step of a backup,
LEMMA BackupInv ==
  ASSUME RestoreInv, Collect \/ DumpSite \/ WriteArchive \/ BackupFails \/ BackupCannot
  PROVE  RestoreInv'
<1>1. bench' = bench
  BY DEF Collect, DumpSite, WriteArchive, BackupFails, BackupCannot
<1>2. Course' /\ Shapes'
  BY BackupCourse, BackupShapes, CollectShapes DEF RestoreInv
<1>3. /\ Collect => op'.pc = "dump"
      /\ DumpSite => op'.pc = "write"
      /\ WriteArchive => op'.pc \in {"read", "finished"}
      /\ BackupFails \/ BackupCannot => op'.pc = "finished" /\ op'.m = op.m /\ arch' = arch
  <2> USE DEF RestoreInv, Shapes, IsOp, End, Go
  <2>1. Collect => op'.pc = "dump"
    BY DEF Collect
  <2>2. DumpSite => op'.pc = "write"
    BY DEF DumpSite
  <2>3. WriteArchive => op'.pc \in {"read", "finished"}
    BY DEF WriteArchive
  <2>4. BackupFails \/ BackupCannot => op'.pc = "finished" /\ op'.m = op.m /\ arch' = arch
    BY DEF BackupFails, BackupCannot
  <2> QED
    BY <2>1, <2>2, <2>3, <2>4
<1>4. SharedInv'
  BY <1>1, <1>3, SharedElsewhere DEF RestoreInv
<1>5. ArchiveInv'
  BY <1>3, CollectArchive, DumpArchive, WriteArchived, ArchiveSame DEF RestoreInv
<1>6. Achieved'
  BY <1>3, AchievedOutside DEF Rebuild
<1>7. Promised'
  BY <1>3, EndsPromised, UnfinishedPromised DEF RestoreInv
<1> QED
  BY <1>2, <1>4, <1>5, <1>6, <1>7 DEF RestoreInv

\* the gates of a restore,
LEMMA GatesInv == ASSUME RestoreInv, Gates PROVE RestoreInv'
<1>1. Shapes' /\ OnlyOp /\ Course' /\ SharedInv' /\ Achieved' /\ Promised'
  BY OpShapes, OpCourse, GatesShared, GatesPlanned, EndsPromised DEF RestoreInv
<1>2. op'.m = op.m /\ op'.pc \in {"create", "finished"}
  BY DEF Gates, End, RestoreInv, Shapes, IsOp
<1>3. ArchiveInv'
  BY <1>1, <1>2, ArchiveSame DEF RestoreInv, OnlyOp
<1> QED
  BY <1>1, <1>3 DEF RestoreInv

\* its steps that fail or only decide,
LEMMA EarlyInv ==
  ASSUME RestoreInv, ReadArchive \/ ReadFails \/ CreateFails \/ PinGone \/ StepFails \/ CreatedUnread \/ Ping
  PROVE  RestoreInv'
<1>1. Shapes' /\ OnlyOp /\ Course'
  BY OpShapes, OpCourse DEF RestoreInv
<1>2. /\ op'.m \in {op.m, arch}
      /\ ReadArchive => op'.pc = "gates"
      /\ ReadFails \/ CreateFails \/ CreatedUnread => op'.pc = "finished"
      /\ PinGone \/ StepFails => op'.pc = "undo"
      /\ Ping => op'.pc = "discard"
  <2> USE DEF RestoreInv, Shapes, IsOp, End, Go
  <2>1. CASE ReadArchive
    BY <2>1 DEF ReadArchive, ReadFails, CreateFails, PinGone, StepFails, CreatedUnread, Ping, At
  <2>2. CASE ReadFails \/ CreateFails \/ CreatedUnread
    BY <2>2 DEF ReadArchive, ReadFails, CreateFails, PinGone, StepFails, CreatedUnread, Ping, At
  <2>3. CASE PinGone \/ StepFails
    BY <2>3 DEF ReadArchive, ReadFails, CreateFails, PinGone, StepFails, CreatedUnread, Ping, At
  <2>4. CASE Ping
    BY <2>4 DEF ReadArchive, ReadFails, CreateFails, PinGone, StepFails, CreatedUnread, Ping, At
  <2> QED
    BY <2>1, <2>2, <2>3, <2>4
<1>3. Promised'
  BY <1>2, EndsPromised, UnreadPromised, UnfinishedPromised DEF RestoreInv
<1> QED
  BY <1>1, <1>2, <1>3, OpOnlyInv DEF Rebuild

\* Steps of the rebuild leave the records and the archive alone.
LEMMA RebuildInv ==
  ASSUME RestoreInv, Shapes', Achieved', At("create") \/ op.pc \in Rebuild, bench' = bench, arch' = arch,
         NEW pc \in Rebuild, NEW warned, op' = [op EXCEPT !.pc = pc, !.warned = warned]
  PROVE  RestoreInv'
<1>1. op' = [op EXCEPT !.pc = pc, !.made = op.made, !.warned = warned] /\ op'.pc = pc /\ op'.m = op.m
  BY DEF RestoreInv, Shapes, IsOp
<1>2. Course'
  BY <1>1 DEF RestoreInv, Course, Before, Backing, After, Rebuild, Verifying, Shapes, IsOp, At
<1>3. op'.pc \notin {"create", "dump", "write", "finished"}
  BY <1>1 DEF Rebuild
<1>4. SharedInv'
  BY <1>3, SharedElsewhere DEF RestoreInv
<1>5. ArchiveInv'
  BY <1>1, <1>3, ArchiveSame DEF RestoreInv
<1> QED
  BY <1>2, <1>3, <1>4, <1>5, UnfinishedPromised DEF RestoreInv

\* The bench is created, and everything up to its record is done.
LEMMA CreateInv == ASSUME RestoreInv, Create PROVE RestoreInv'
<1>1. Shapes' /\ op' = [op EXCEPT !.pc = "unpack", !.made = TRUE]
  BY CreateShapes DEF RestoreInv
<1>2. SharedInv' /\ Achieved'
  BY CreateShared, CreateAchieved DEF RestoreInv
<1>3. At("create") /\ arch' = arch
  BY DEF Create
<1>4. op' = [op EXCEPT !.pc = "unpack", !.made = TRUE, !.warned = op.warned] /\ op'.pc = "unpack" /\ op'.m = op.m
  BY <1>1 DEF RestoreInv, Shapes, IsOp
<1>5. Course'
  BY <1>3, <1>4 DEF RestoreInv, Course, Before, Backing, After, Rebuild, Verifying, Shapes, IsOp, At
<1>6. ArchiveInv'
  BY <1>3, <1>4, ArchiveSame DEF RestoreInv
<1> QED
  BY <1>1, <1>2, <1>4, <1>5, <1>6, UnfinishedPromised DEF RestoreInv

\* the steps that rebuild,
LEMMA StepInv ==
  ASSUME RestoreInv,
         installArchivedApps \/ pinApps \/ applySiteConfig \/ runBenchRestore \/ setAdminPassword \/ Settings
           \/ Migrate \/ Build \/ Restart
  PROVE  RestoreInv'
<1> DEFINE Is(pc) == op' = [op EXCEPT !.pc = pc]
<1>1. \A h, pc : AfterStep(h, pc) => Shapes' /\ Is(pc) /\ bench' = bench /\ arch' = arch
  BY DEF AfterStep
<1> HIDE DEF Is
<1>2. /\ installArchivedApps => Is("pin") /\ Shapes' /\ bench' = bench /\ arch' = arch
      /\ applySiteConfig => Is("load") /\ Shapes' /\ bench' = bench /\ arch' = arch
      /\ runBenchRestore => Is("password") /\ Shapes' /\ bench' = bench /\ arch' = arch
      /\ setAdminPassword => Is("settings") /\ Shapes' /\ bench' = bench /\ arch' = arch
      /\ Settings => Is("migrate") /\ Shapes' /\ bench' = bench /\ arch' = arch
      /\ Migrate => Is("build") /\ Shapes' /\ bench' = bench /\ arch' = arch
      /\ Build => Is("restart") /\ Shapes' /\ bench' = bench /\ arch' = arch
      /\ Restart => Is("record") /\ Shapes' /\ bench' = bench /\ arch' = arch
  <2>1. installArchivedApps => FromArchive(Plan) \subseteq DOMAIN op.m.trees
    BY DEF RestoreInv, Achieved, Planned, installArchivedApps, At, Rebuild
  <2>2. Shapes /\ Course
    BY DEF RestoreInv
  <2> QED
    BY <1>1, <2>1, <2>2, UnpackStep, KeyStep, LoadStep, OtherSteps
<1>3. Achieved'
  BY UnpackAchieved, PinAchieved, KeyAchieved, LoadAchieved, OthersAchieved DEF RestoreInv
<1>4. op.pc \in Rebuild
  BY DEF installArchivedApps, pinApps, applySiteConfig, runBenchRestore, setAdminPassword, Settings, Migrate, Build,
         Restart, At, Rebuild
<1>5. CASE pinApps
  <2>1. Shapes' /\ (\E w : op' = [op EXCEPT !.pc = "drift", !.warned = w]) /\ bench' = bench /\ arch' = arch
    BY <1>5, PinStep DEF RestoreInv
  <2> QED
    BY <1>3, <1>4, <2>1, RebuildInv DEF Rebuild
<1>6. CASE ~pinApps
  <2>1. PICK pc \in Rebuild : Is(pc) /\ Shapes' /\ bench' = bench /\ arch' = arch
    BY <1>2, <1>6 DEF Rebuild
  <2>2. op' = [op EXCEPT !.pc = pc, !.warned = op.warned]
    BY <2>1 DEF Is, RestoreInv, Shapes, IsOp
  <2> QED
    BY <1>3, <1>4, <2>1, <2>2, RebuildInv
<1> QED
  BY <1>5, <1>6

\* the check for drift,
LEMMA DriftInv == ASSUME RestoreInv, checkDrift PROVE RestoreInv'
<1>1. Shapes' /\ OnlyOp /\ Achieved'
  BY OpShapes, DriftAchieved DEF RestoreInv
<1>2. \E w : op' = [op EXCEPT !.pc = "config", !.warned = w]
  BY DEF checkDrift
<1>3. op.pc \in Rebuild
  BY DEF checkDrift, At, Rebuild
<1> QED
  BY <1>1, <1>2, <1>3, RebuildInv DEF OnlyOp, Rebuild

\* the record,
LEMMA RecordInv == ASSUME RestoreInv, Record PROVE RestoreInv'
<1>1. /\ Shapes' /\ UNCHANGED <<repos, host, arch>>
      /\ \E ls : bench' = [bench EXCEPT ![op.target].apps = ls]
      /\ op'.m = op.m /\ op'.pc \in {"ping", "finished"}
  BY RecordShapes DEF RestoreInv, Shapes, IsOp
<1>2. \A n \in AllNames : bench'[n].port = bench[n].port /\ bench'[n].aliases = bench[n].aliases
  <2>1. \A n \in AllNames : IsBench(bench[n])
    BY DEF RestoreInv, Shapes, BenchesOK
  <2> QED
    BY <1>1, <2>1 DEF IsBench, RestoreInv, Shapes, BenchesOK
<1>3. SharedInv'
  <2>1. NothingShared'
    BY <1>2 DEF RestoreInv, SharedInv, NothingShared, Tracked
  <2> QED
    BY <1>1, <1>2, <2>1 DEF RestoreInv, SharedInv, At, AllNames
<1>4. ArchiveInv'
  BY <1>1, ArchiveSame DEF RestoreInv
<1>5. Achieved'
  BY <1>1, AchievedOutside DEF Rebuild
<1> QED
  BY <1>1, <1>3, <1>4, <1>5, OpCourse, RecordPromised DEF RestoreInv

\* what is undone or discarded,
LEMMA UndoInv == ASSUME RestoreInv, Undo \/ Discard PROVE RestoreInv'
<1>1. Shapes' /\ Course' /\ Promised'
  BY UndoShapes, OpCourse, UndoPromised DEF RestoreInv
<1>2. op'.pc = "finished" /\ op'.m = op.m /\ arch' = arch
  BY DEF Undo, Discard, End, RestoreInv, Shapes, IsOp
<1>3. \A n \in AllNames : bench'[n] \in {bench[n], NoRec}
  <2>1. op.target \in AllNames
    BY DEF RestoreInv, Course, Undo, Discard, At, Verifying, Backing
  <2>2. bench' = bench \/ Gone(op.target) \/ Torn(op.target)
    BY DEF Undo, Discard, RecordStays
  <2> QED
    BY <2>1, <2>2, RemovalShapes DEF RestoreInv
<1>4. SharedInv'
  BY <1>2, <1>3, SharedElsewhere DEF RestoreInv
<1>5. ArchiveInv'
  BY <1>2, ArchiveSame DEF RestoreInv
<1>6. Achieved'
  BY <1>2, AchievedOutside DEF Rebuild
<1> QED
  BY <1>1, <1>4, <1>5, <1>6 DEF RestoreInv

\* the death of the process, its answer,
LEMMA EndInv == ASSUME RestoreInv, Kill \/ Answer PROVE RestoreInv'
<1>1. Shapes' /\ OnlyOp /\ op' = NoOp
  BY EndShapes DEF RestoreInv
<1>2. op'.m = NoArch /\ op'.pc = "idle" /\ op'.kind = "none" /\ ~op'.made /\ op'.left = "nothing"
  BY <1>1 DEF NoOp
<1>3. Course'
  BY <1>2 DEF Course, Before, Backing, Verifying
<1> QED
  BY <1>1, <1>2, <1>3, UnfinishedPromised, OpOnlyInv DEF Rebuild

\* and doing nothing.
LEMMA StutterInv == ASSUME RestoreInv, UNCHANGED rvars PROVE RestoreInv'
<1>1. Shapes' /\ Course' /\ SharedInv'
  BY DEF rvars, RestoreInv, Shapes, BenchesOK, HostsOK, Course, SharedInv, NothingShared, Tracked, At, Claimed
<1>2. ArchiveInv'
  BY DEF rvars, RestoreInv, ArchiveInv, Consistent, Portable, At
<1>3. Plan' = Plan /\ Cloned' = Cloned /\ Target' = Target
  BY DEF rvars, Plan, Cloned, Target
<1>4. Achieved'
  BY <1>3 DEF rvars, RestoreInv, Achieved, Planned, Fetched, Named, Filled, Served, At
<1>5. Promised'
  BY <1>3 DEF rvars, RestoreInv, Promised, LeftAsFound, RestoredFaithful, RecordClones, At, Tracked,
                Restores, Expected
<1> QED
  BY <1>1, <1>2, <1>4, <1>5 DEF RestoreInv

\* Through every backup, clone, restore, import and verification, and whatever the rest
\* of the world does meanwhile, the invariant holds (backup.go, restore.go, clone.go).
THEOREM RestoreKnows == RestoreSpec => []RestoreInv
<1>1. RestoreInit => RestoreInv
  BY InitRestore
<1>2. ASSUME RestoreInv, [RestoreNext]_rvars PROVE RestoreInv'
  <2>1. CASE BackupStep
    BY <1>2, <2>1, StartInv, BackupInv DEF BackupStep
  <2>2. CASE RestoreStep
    BY <1>2, <2>2, StartInv, ImportInv, GatesInv, EarlyInv, CreateInv, StepInv, DriftInv, RecordInv, UndoInv
       DEF RestoreStep
  <2>3. CASE World
    BY <1>2, <2>3, WorldInv
  <2>4. CASE Kill \/ Answer
    BY <1>2, <2>4, EndInv
  <2>5. CASE Quiet \/ UNCHANGED rvars
    BY <1>2, <2>5, StutterInv DEF Quiet
  <2> QED
    BY <1>2, <2>1, <2>2, <2>3, <2>4, <2>5 DEF RestoreNext
<1> QED
  BY <1>1, <1>2, PTL DEF RestoreSpec

\* No restored, cloned or imported bench has a port or an alias that another bench has
\* (restore.go restorePorts, create.go checkAliasesFree).
THEOREM SharesNothing == RestoreSpec => []NothingShared
<1>1. RestoreInv => NothingShared
  BY DEF RestoreInv, SharedInv
<1> QED
  BY <1>1, RestoreKnows, PTL

\* An archive holds the source of every app at a commit no remote was given
\* (backup_appsource.go vendorReason, backup.go writeArchive).
THEOREM ArchivesPortable == RestoreSpec => []Portable
<1>1. RestoreInv => Portable
  BY DEF RestoreInv, ArchiveInv
<1> QED
  BY <1>1, RestoreKnows, PTL

\* A restore that fails leaves nothing behind, unless it was told to or said that it
\* could not, or a removal failed of which the code says nothing: then no record, and
\* at most a directory and volumes (restore.go restoreCore's deferred removal).
THEOREM FailuresUndone == RestoreSpec => []LeftAsFound
<1>1. RestoreInv => LeftAsFound
  BY DEF RestoreInv, Promised
<1> QED
  BY <1>1, RestoreKnows, PTL

\* A restore that says it worked has brought back the archive's data, files, key and
\* code, or has named the apps it has not (restore.go, restore_drift.go).
THEOREM Faithful == RestoreSpec => []RestoredFaithful
<1>1. RestoreInv => RestoredFaithful
  BY DEF RestoreInv, Promised
<1> QED
  BY <1>1, RestoreKnows, PTL

\* The record of a bench that was restored names the repositories it was cloned from
\* (restore.go appsWithoutFramework).
THEOREM ClonesRecorded == RestoreSpec => []RecordClones
<1>1. RestoreInv => RecordClones
  BY DEF RestoreInv, Promised
<1> QED
  BY <1>1, RestoreKnows, PTL
=============================================================================
