-------------------------- MODULE ConfigTextProofs --------------------------
(***************************************************************************)
(* An edit of config.toml keeps what is not of the entry (TablesKept), for *)
(* every text of any length. A text with some of its lines taken out is a  *)
(* listing of the others (Listing). What goes is what its reader would     *)
(* call the entry's (GoesIs), so no string over lines is cut (Seams), and  *)
(* every edit leaves the lines that stay in their order, with the new      *)
(* table in one place (Woven): strings, headers and tables are then what   *)
(* they were.                                                              *)
(***************************************************************************)
EXTENDS ConfigText, FiniteSetTheorems, WellFoundedInduction, TLAPS

-----------------------------------------------------------------------------
(* Texts: numbers of lines *)

\* Of some numbers one is the smallest.
LEMMA LeastNumber ==
  ASSUME NEW T \in SUBSET Nat, T # {}
  PROVE  \E x \in T : \A y \in T : x <= y
<1>1. IsWellFoundedOn(OpToRel(<, Nat), Nat)
  BY NatLessThanWellFounded, Zenon
<1>2. PICK x \in T : \A y \in T : ~(<<y, x>> \in OpToRel(<, Nat))
  BY <1>1, WFMin, Zenon
<1>3. \A y \in T : ~(y < x)
  BY <1>2 DEF OpToRel
<1> QED
  BY <1>3

\* Of some lines one is the last.
LEMMA LastNumber ==
  ASSUME NEW n \in Nat, NEW T \in SUBSET (0..n), T # {}
  PROVE  \E x \in T : \A y \in T : y <= x
<1> DEFINE U == {n - x : x \in T}
<1>1. U \in SUBSET Nat /\ U # {}
  <2>1. ASSUME NEW x \in T PROVE n - x \in Nat
    BY <2>1
  <2> QED
    BY <2>1
<1>2. PICK u \in U : \A v \in U : u <= v
  BY <1>1, LeastNumber
<1>3. PICK x \in T : u = n - x
  BY <1>2
<1>4. ASSUME NEW y \in T PROVE y <= x
  <2>1. n - x <= n - y
    BY <1>2, <1>3
  <2>2. x \in 0..n /\ y \in 0..n
    OBVIOUS
  <2> QED
    BY <2>1, <2>2
<1> QED
  BY <1>4

\* MaxOf and MinOf are what they are called.
LEMMA MaxIs ==
  ASSUME NEW n \in Nat, NEW T \in SUBSET (0..n), T # {}
  PROVE  MaxOf(T) \in T /\ \A y \in T : y <= MaxOf(T)
  BY LastNumber DEF MaxOf

\* The same of the smallest.
LEMMA MinIs ==
  ASSUME NEW T \in SUBSET Nat, T # {}
  PROVE  MinOf(T) \in T /\ \A y \in T : MinOf(T) <= y
  BY LeastNumber DEF MinOf

\* Some lines, whatever they hold.
IsLines(text) == \E S : text \in Seq(S)

\* Lines are numbered from 1.
LEMMA LinesAre ==
  ASSUME NEW text, IsLines(text)
  PROVE  Len(text) \in Nat /\ DOMAIN text = 1..Len(text)
  BY DEF IsLines

\* What is computed line by line, from what was known before the line.
LEMMA LineByLine ==
  ASSUME NEW V, NEW v \in V, NEW n \in Nat, NEW step \in [1..n -> [V -> V]]
  PROVE  \E f \in [0..n -> V] : f[0] = v /\ \A k \in 1..n : f[k] = step[k][f[k - 1]]
<1> DEFINE Course(m, f) == f \in [0..m -> V] /\ f[0] = v /\ \A k \in 1..m : f[k] = step[k][f[k - 1]]
           Stuck == {m \in Nat : m <= n /\ ~ \E f : Course(m, f)}
<1> SUFFICES ASSUME Stuck # {} PROVE FALSE
  <2>1. n \notin Stuck => \E f : Course(n, f)
    <3> HIDE DEF Course
    <3> QED
      OBVIOUS
  <2> QED
    BY <2>1
<1>1. PICK m \in Stuck : \A i \in Stuck : m <= i
  <2> HIDE DEF Course
  <2> QED
    BY LeastNumber
<1>2. m # 0
  <2>1. Course(0, [k \in 0..0 |-> v])
    OBVIOUS
  <2> QED
    BY <1>1, <2>1
<1>3. m \in 1..n /\ m - 1 \in Nat /\ m - 1 <= n /\ m - 1 \notin Stuck
  <2> HIDE DEF Course
  <2> QED
    BY <1>1, <1>2
<1>4. PICK g : Course(m - 1, g)
  <2> HIDE DEF Course
  <2> QED
    BY <1>3
<1> DEFINE f == [k \in 0..m |-> IF k = m THEN step[m][g[m - 1]] ELSE g[k]]
<1>5. f \in [0..m -> V] /\ f[0] = v
  BY <1>3, <1>4
<1>6. \A k \in 1..m : f[k] = step[k][f[k - 1]]
  BY <1>3, <1>4
<1>7. Course(m, f)
  BY <1>5, <1>6
<1> QED
  BY <1>1, <1>7

\* A string is open where the lines before say so.
LEMMA StringRuns ==
  ASSUME NEW text, IsLines(text)
  PROVE  /\ inString(text) \in [0..Len(text) -> BOOLEAN]
         /\ inString(text)[0] = FALSE
         /\ \A k \in 1..Len(text) :
              inString(text)[k] = IF inString(text)[k - 1] THEN text[k] # "close" ELSE text[k] = "open"
<1> DEFINE n == Len(text)
           is(g) == g = [k \in 0..n |-> IF k = 0 THEN FALSE
                                       ELSE IF g[k - 1] THEN text[k] # "close" ELSE text[k] = "open"]
           g == CHOOSE h : is(h)
           step == [k \in 1..n |-> [b \in BOOLEAN |-> IF b THEN text[k] # "close" ELSE text[k] = "open"]]
<1>1. n \in Nat
  BY LinesAre
<1>2. inString(text) = g
  BY Zenon DEF inString
<1>3. step \in [1..n -> [BOOLEAN -> BOOLEAN]]
  OBVIOUS
<1>4. PICK f \in [0..n -> BOOLEAN] : f[0] = FALSE /\ \A k \in 1..n : f[k] = step[k][f[k - 1]]
  <2> DEFINE v == FALSE
             V == BOOLEAN
  <2>1. v \in V /\ step \in [1..n -> [V -> V]]
    BY <1>3
  <2> HIDE DEF step, n, is, g, v, V
  <2>2. PICK f \in [0..n -> V] : f[0] = v /\ \A k \in 1..n : f[k] = step[k][f[k - 1]]
    BY <1>1, <2>1, LineByLine
  <2> QED
    BY <2>2 DEF v, V
<1>5. \A k \in 1..n : f[k] = IF f[k - 1] THEN text[k] # "close" ELSE text[k] = "open"
  <2>1. ASSUME NEW k \in 1..n PROVE f[k] = IF f[k - 1] THEN text[k] # "close" ELSE text[k] = "open"
    <3>1. k - 1 \in 0..n /\ f[k - 1] \in BOOLEAN
      BY <1>1
    <3> QED
      BY <1>4, <3>1
  <2> QED
    BY <2>1
<1>6. is(f)
  <2>1. \A k \in 0..n : k # 0 => k \in 1..n
    BY <1>1
  <2> HIDE DEF n
  <2>2. f = [k \in 0..n |-> f[k]]
    OBVIOUS
  <2> QED
    BY <1>4, <1>5, <2>1, <2>2
<1>7. is(g)
  <2> HIDE DEF is
  <2> QED
    BY <1>6
<1>8. /\ g \in [0..n -> BOOLEAN]
      /\ g[0] = FALSE
      /\ \A k \in 1..n : g[k] = IF g[k - 1] THEN text[k] # "close" ELSE text[k] = "open"
  <2> HIDE DEF g
  <2>1. /\ DOMAIN g = 0..n /\ g = [k \in 0..n |-> g[k]]
        /\ \A k \in 0..n : g[k] = IF k = 0 THEN FALSE ELSE IF g[k - 1] THEN text[k] # "close" ELSE text[k] = "open"
    BY <1>7
  <2> HIDE DEF is, n
  <2>2. \A k \in 0..n : k = 0 \/ k \in 1..n
    BY <1>1
  <2>3. 0 \in 0..n /\ \A k \in 1..n : k \in 0..n /\ k # 0
    BY <1>1
  <2>4. g[0] = FALSE /\ \A k \in 1..n : g[k] = IF g[k - 1] THEN text[k] # "close" ELSE text[k] = "open"
    BY <2>1, <2>3
  <2>5. \A k \in 0..n : g[k] \in BOOLEAN
    BY <2>2, <2>4
  <2> QED
    BY <2>1, <2>4, <2>5
<1> QED
  BY <1>2, <1>8

-----------------------------------------------------------------------------
(* Texts: some of the lines of another *)

\* The lines of out are those of text at S, in order: e says which is where.
Listing(e, out, text, S) ==
  /\ e \in [1..Len(out) -> S]
  /\ \A i, j \in 1..Len(out) : i < j => e[i] < e[j]
  /\ \A k \in S : \E i \in 1..Len(out) : e[i] = k
  /\ \A i \in 1..Len(out) : out[i] = text[e[i]]

\* The nth line is the same in two listings.
LEMMA SamePlace ==
  ASSUME NEW a, NEW b, NEW text, NEW S \in SUBSET Nat, NEW e, NEW f, IsLines(a), IsLines(b),
         Listing(e, a, text, S), Listing(f, b, text, S)
  PROVE  \A i \in 1..Len(a) : i \in 1..Len(b) /\ e[i] = f[i]
<1> DEFINE m == Len(a)
           n == Len(b)
           Wrong == {i \in 1..m : ~(i \in 1..n /\ e[i] = f[i])}
<1>1. m \in Nat /\ n \in Nat
  BY LinesAre
<1>2. /\ e \in [1..m -> S] /\ f \in [1..n -> S]
      /\ \A i, j \in 1..m : i < j => e[i] < e[j]
      /\ \A i, j \in 1..n : i < j => f[i] < f[j]
      /\ \A k \in S : (\E i \in 1..m : e[i] = k) /\ (\E i \in 1..n : f[i] = k)
  BY DEF Listing
<1> HIDE DEF m, n
<1> SUFFICES ASSUME Wrong # {} PROVE FALSE
  BY DEF m, n
<1>3. PICK i \in Wrong : \A j \in Wrong : i <= j
  <2>1. Wrong \in SUBSET Nat
    BY <1>1
  <2> QED
    BY <2>1, LeastNumber
<1>4. i \in 1..m /\ \A j \in 1..m : j < i => j \in 1..n /\ e[j] = f[j]
  BY <1>1, <1>3
<1>5. PICK j \in 1..n : f[j] = e[i]
  BY <1>2, <1>4
<1>6. ~(j < i)
  <2> SUFFICES ASSUME j < i PROVE FALSE
    OBVIOUS
  <2>1. j \in 1..m
    BY <1>1, <1>4
  <2>2. e[j] = e[i] /\ e[j] < e[i] /\ e[i] \in Nat
    BY <1>2, <1>4, <1>5, <2>1
  <2> QED
    BY <2>2
<1>7. i \in 1..n
  BY <1>1, <1>4, <1>6
<1>8. PICK l \in 1..m : e[l] = f[i]
  BY <1>2, <1>7
<1>9. ~(l < i)
  <2> SUFFICES ASSUME l < i PROVE FALSE
    OBVIOUS
  <2>1. l \in 1..n /\ e[l] = f[l]
    BY <1>4
  <2>2. f[l] < f[i] /\ f[l] = f[i] /\ f[i] \in Nat
    BY <1>2, <1>7, <1>8, <2>1
  <2> QED
    BY <2>2
<1>10. e[i] \in Nat /\ f[i] \in Nat /\ e[i] <= e[l] /\ f[i] <= f[j]
  <2>1. e[i] \in Nat /\ f[i] \in Nat
    BY <1>2, <1>4, <1>7
  <2>2. i = l \/ i < l
    BY <1>1, <1>4, <1>9
  <2>3. i = j \/ i < j
    BY <1>1, <1>4, <1>6
  <2>4. e[i] <= e[l]
    <3>1. i < l => e[i] < e[l]
      BY <1>2, <1>4
    <3>2. e[l] \in Nat
      BY <1>2
    <3> QED
      BY <2>1, <2>2, <3>1, <3>2
  <2>5. f[i] <= f[j]
    <3>1. i < j => f[i] < f[j]
      BY <1>2, <1>7
    <3>2. f[j] \in Nat
      BY <1>2
    <3> QED
      BY <2>1, <2>3, <3>1, <3>2
  <2> QED
    BY <2>1, <2>4, <2>5
<1> QED
  BY <1>3, <1>5, <1>7, <1>8, <1>10

\* There is one list of the same lines.
LEMMA SameListing ==
  ASSUME NEW a, NEW b, NEW text, NEW S \in SUBSET Nat, NEW e, NEW f, IsLines(a), IsLines(b),
         Listing(e, a, text, S), Listing(f, b, text, S)
  PROVE  a = b
<1>1. /\ \A i \in 1..Len(a) : i \in 1..Len(b) /\ e[i] = f[i]
      /\ \A i \in 1..Len(b) : i \in 1..Len(a)
  <2>1. \A i \in 1..Len(a) : i \in 1..Len(b) /\ e[i] = f[i]
    BY SamePlace
  <2>2. \A i \in 1..Len(b) : i \in 1..Len(a) /\ f[i] = e[i]
    BY SamePlace
  <2> QED
    BY <2>1, <2>2
<1>2. Len(a) \in Nat /\ Len(b) \in Nat
  BY LinesAre
<1>3. Len(a) = Len(b)
  <2>1. CASE Len(a) < Len(b)
    <3>1. Len(b) \in 1..Len(b)
      BY <1>2, <2>1
    <3> QED
      BY <1>1, <1>2, <2>1, <3>1
  <2>2. CASE Len(b) < Len(a)
    <3>1. Len(a) \in 1..Len(a)
      BY <1>2, <2>2
    <3> QED
      BY <1>1, <1>2, <2>2, <3>1
  <2> QED
    BY <1>2, <2>1, <2>2
<1>4. \A i \in 1..Len(a) : a[i] = b[i]
  BY <1>1 DEF Listing
<1>5. PICK T : a \in Seq(T)
  BY DEF IsLines
<1>6. PICK U : b \in Seq(U)
  BY DEF IsLines
<1> QED
  BY <1>3, <1>4, <1>5, <1>6

\* What takes some lines and passes over the others ends with a listing.
LEMMA TakenListed ==
  ASSUME NEW T, NEW text \in Seq(T), NEW f \in [0..Len(text) -> Seq(T)], f[0] = <<>>,
         \A k \in 1..Len(text) : f[k] \in {f[k - 1], Append(f[k - 1], text[k])}
  PROVE  \E e : Listing(e, f[Len(text)], text, {k \in 1..Len(text) : f[k] # f[k - 1]})
<1> DEFINE n == Len(text)
           at(m) == {k \in 1..m : f[k] # f[k - 1]}
           Stuck == {m \in Nat : m <= n /\ ~ \E e : Listing(e, f[m], text, at(m))}
<1>1. n \in Nat
  OBVIOUS
<1> HIDE DEF at
<1> SUFFICES ASSUME Stuck # {} PROVE FALSE
  <2>1. n \notin Stuck => \E e : Listing(e, f[n], text, at(n))
    BY <1>1
  <2> QED
    BY <2>1 DEF at
<1>2. PICK m \in Stuck : \A i \in Stuck : m <= i
  BY LeastNumber
<1>3. m # 0
  <2>1. at(0) = {}
    BY DEF at
  <2>2. Listing([i \in 1..0 |-> 0], f[0], text, {})
    BY DEF Listing
  <2>3. m = 0 => \E e : Listing(e, f[m], text, at(m))
    BY <2>1, <2>2
  <2> QED
    BY <1>2, <2>3
<1>4. m \in 1..n /\ m - 1 \in Nat /\ m - 1 <= n /\ m - 1 \notin Stuck
  <2>1. m \in Nat /\ m <= n
    BY <1>2
  <2>2. m - 1 \notin Stuck
    <3> HIDE DEF Stuck
    <3> QED
      BY <1>2, <2>1
  <2> HIDE DEF n
  <2> QED
    BY <1>1, <1>3, <2>1, <2>2
<1>5. PICK e : Listing(e, f[m - 1], text, at(m - 1))
  BY <1>4
<1> DEFINE r == f[m - 1]
           N == Len(r)
<1>6. r \in Seq(T) /\ N \in Nat
  BY <1>1, <1>4
<1>7. CASE f[m] = r
  <2>1. at(m) = at(m - 1)
    BY <1>1, <1>4, <1>7 DEF at
  <2> QED
    BY <1>2, <1>5, <1>7, <2>1
<1>8. CASE f[m] = Append(r, text[m])
  <2> DEFINE a == Append(r, text[m])
             S == at(m - 1)
             g == [i \in 1..(N + 1) |-> IF i = N + 1 THEN m ELSE e[i]]
  <2>1. /\ text[m] \in T /\ Len(a) = N + 1 /\ a[N + 1] = text[m] /\ a # r
        /\ \A i \in 1..N : a[i] = r[i]
    BY <1>4, <1>6
  <2>2. at(m) = S \cup {m} /\ \A k \in S : k \in Nat /\ k < m
    <3>1. \A k \in 1..(m - 1) : k # m /\ k < m /\ k \in Nat
      BY <1>4
    <3>2. 1..m = (1..(m - 1)) \cup {m}
      BY <1>4
    <3>3. f[m] # f[m - 1]
      BY <1>8, <2>1
    <3> QED
      BY <3>1, <3>2, <3>3 DEF at
  <2>3. Listing(e, r, text, S)
    BY <1>5
  <2> HIDE DEF a, r, S, N
  <2>4. /\ e \in [1..N -> S]
        /\ \A i, j \in 1..N : i < j => e[i] < e[j]
        /\ \A k \in S : \E i \in 1..N : e[i] = k
        /\ \A i \in 1..N : r[i] = text[e[i]]
    BY <2>3 DEF Listing, N
  <2>5. ASSUME NEW i \in 1..(N + 1)
        PROVE  (i = N + 1 /\ g[i] = m) \/ (i \in 1..N /\ g[i] = e[i])
    <3>1. i = N + 1 => g[i] = m
      OBVIOUS
    <3>2. i # N + 1 => i \in 1..N /\ g[i] = e[i]
      BY <1>6
    <3> HIDE DEF g
    <3> QED
      BY <3>1, <3>2
  <2>6. g \in [1..(N + 1) -> S \cup {m}]
    BY <2>4, <2>5
  <2> HIDE DEF g
  <2>7. \A i, j \in 1..(N + 1) : i < j => g[i] < g[j]
    <3> SUFFICES ASSUME NEW i \in 1..(N + 1), NEW j \in 1..(N + 1), i < j PROVE g[i] < g[j]
      OBVIOUS
    <3>1. i \in 1..N /\ g[i] = e[i]
      BY <1>6, <2>5
    <3>2. e[i] < m
      BY <2>2, <2>4, <3>1
    <3>3. j \in 1..N /\ g[j] = e[j] => g[i] < g[j]
      BY <2>4, <3>1
    <3> QED
      BY <2>5, <3>1, <3>2, <3>3
  <2>8. \A k \in S \cup {m} : \E i \in 1..(N + 1) : g[i] = k
    <3>1. \A i \in 1..N : i \in 1..(N + 1) /\ g[i] = e[i]
      BY <1>6, <2>5
    <3>2. N + 1 \in 1..(N + 1) /\ g[N + 1] = m
      BY <1>6, <2>5
    <3> QED
      BY <2>4, <3>1, <3>2
  <2>9. \A i \in 1..(N + 1) : a[i] = text[g[i]]
    BY <2>1, <2>4, <2>5
  <2>10. Listing(g, a, text, S \cup {m})
    BY <2>1, <2>6, <2>7, <2>8, <2>9 DEF Listing
  <2> QED
    BY <1>2, <1>8, <2>2, <2>10 DEF a, r
<1> QED
  BY <1>4, <1>7, <1>8

\* What Only lists.
LEMMA OnlyListed ==
  ASSUME NEW text, IsLines(text), NEW S \in SUBSET DOMAIN text
  PROVE  IsLines(Only(text, S)) /\ \E e : Listing(e, Only(text, S), text, S)
<1>1. PICK T : text \in Seq(T)
  BY DEF IsLines
<1> DEFINE n == Len(text)
           next(r, k) == IF k \in S THEN Append(r, text[k]) ELSE r
           is(g) == g = [k \in 0..n |-> IF k = 0 THEN <<>> ELSE IF k \in S THEN Append(g[k - 1], text[k]) ELSE g[k - 1]]
           g == CHOOSE h : is(h)
           step == [k \in 1..n |-> [r \in Seq(T) |-> next(r, k)]]
<1>2. n \in Nat /\ DOMAIN text = 1..n /\ \A k \in 1..n : text[k] \in T
  BY <1>1
<1>3. Only(text, S) = g[n]
  BY Zenon DEF Only
<1>4. step \in [1..n -> [Seq(T) -> Seq(T)]]
  <2>1. ASSUME NEW k \in 1..n, NEW r \in Seq(T) PROVE next(r, k) \in Seq(T)
    BY <1>2
  <2> HIDE DEF next
  <2> QED
    BY <2>1
<1>5. PICK f \in [0..n -> Seq(T)] : f[0] = <<>> /\ \A k \in 1..n : f[k] = step[k][f[k - 1]]
  <2> DEFINE V == Seq(T)
             v == <<>>
  <2>1. v \in V /\ step \in [1..n -> [V -> V]]
    BY <1>4
  <2> HIDE DEF step, n, V, v
  <2>2. PICK f \in [0..n -> V] : f[0] = v /\ \A k \in 1..n : f[k] = step[k][f[k - 1]]
    BY <1>2, <2>1, LineByLine
  <2> QED
    BY <2>2 DEF V, v
<1>6. ASSUME NEW k \in 1..n PROVE f[k] = next(f[k - 1], k)
  <2>1. k - 1 \in 0..n /\ f[k - 1] \in Seq(T)
    BY <1>2
  <2> HIDE DEF next
  <2> QED
    BY <1>5, <2>1
<1>7. is(f)
  <2>1. \A k \in 0..n : k # 0 => k \in 1..n
    BY <1>2
  <2> HIDE DEF n
  <2>2. f = [k \in 0..n |-> f[k]]
    OBVIOUS
  <2> QED
    BY <1>5, <1>6, <2>1, <2>2
<1>8. is(g)
  <2> HIDE DEF is
  <2> QED
    BY <1>7
<1>9. ASSUME NEW k \in 0..n
      PROVE  g[k] = IF k = 0 THEN <<>> ELSE IF k \in S THEN Append(g[k - 1], text[k]) ELSE g[k - 1]
  <2> HIDE DEF g
  <2> QED
    BY <1>8
<1> HIDE DEF g
<1> DEFINE Wrong == {k \in Nat : k <= n /\ g[k] # f[k]}
<1>10. Wrong = {}
  <2> SUFFICES ASSUME Wrong # {} PROVE FALSE
    OBVIOUS
  <2>1. PICK k \in Wrong : \A i \in Wrong : k <= i
    BY LeastNumber
  <2>2. k \in 0..n /\ g[k] # f[k]
    BY <1>2, <2>1
  <2>3. k # 0
    BY <1>5, <1>9, <2>2
  <2>4. k \in 1..n /\ k - 1 \in Nat /\ k - 1 <= n /\ k - 1 \notin Wrong
    BY <1>2, <2>1, <2>2, <2>3
  <2>5. g[k - 1] = f[k - 1]
    BY <2>4
  <2> QED
    BY <1>6, <1>9, <2>2, <2>3, <2>4, <2>5
<1>11. Only(text, S) = f[n]
  BY <1>2, <1>3, <1>10
<1>12. \A k \in 1..n : f[k] \in {f[k - 1], Append(f[k - 1], text[k])}
  BY <1>6
<1>13. {k \in 1..n : f[k] # f[k - 1]} = S
  <2>1. ASSUME NEW k \in 1..n PROVE f[k] # f[k - 1] <=> k \in S
    <3>1. k - 1 \in 0..n /\ f[k - 1] \in Seq(T) /\ text[k] \in T
      BY <1>2
    <3>2. Append(f[k - 1], text[k]) # f[k - 1]
      BY <3>1
    <3> QED
      BY <1>6, <3>2
  <2> QED
    BY <1>2, <2>1
<1>14. \E e : Listing(e, f[n], text, S)
  <2>1. \E e : Listing(e, f[n], text, {k \in 1..n : f[k] # f[k - 1]})
    <3>1. f \in [0..Len(text) -> Seq(T)] /\ f[0] = <<>> /\ text \in Seq(T)
      BY <1>1, <1>5
    <3>2. \A k \in 1..Len(text) : f[k] \in {f[k - 1], Append(f[k - 1], text[k])}
      BY <1>12
    <3> HIDE DEF step, next
    <3> QED
      BY <3>1, <3>2, TakenListed
  <2> QED
    BY <1>13, <2>1
<1>15. f[n] \in Seq(T)
  BY <1>2
<1> QED
  BY <1>11, <1>14, <1>15 DEF IsLines

\* What a removal keeps: it takes out what goes and blank lines after it.
LEMMA KeepListed ==
  ASSUME NEW text, IsLines(text)
  PROVE  /\ IsLines(keep(text))
         /\ \E S \in SUBSET (DOMAIN text \ Goes(text)) :
              /\ \E e : Listing(e, keep(text), text, S)
              /\ \A k \in DOMAIN text : k \in S \/ k \in Goes(text) \/ (text[k] = "blank" /\ cut(text, k))
<1>1. PICK T : text \in Seq(T)
  BY DEF IsLines
<1> DEFINE n == Len(text)
           drop(r, k) == k \in Goes(text) \/ (text[k] = "blank" /\ cut(text, k) /\ (r = <<>> \/ Last(r) = "blank"))
           next(r, k) == IF drop(r, k) THEN r ELSE Append(r, text[k])
           is(g) == g = [k \in 0..n |-> IF k = 0 THEN <<>> ELSE next(g[k - 1], k)]
           g == CHOOSE h : is(h)
           step == [k \in 1..n |-> [r \in Seq(T) |-> next(r, k)]]
<1>2. n \in Nat /\ DOMAIN text = 1..n /\ \A k \in 1..n : text[k] \in T
  BY <1>1
<1>3. keep(text) = g[n]
  BY Zenon DEF keep
<1>4. step \in [1..n -> [Seq(T) -> Seq(T)]]
  <2>1. ASSUME NEW k \in 1..n, NEW r \in Seq(T) PROVE next(r, k) \in Seq(T)
    BY <1>2
  <2> HIDE DEF next
  <2> QED
    BY <2>1
<1>5. PICK f \in [0..n -> Seq(T)] : f[0] = <<>> /\ \A k \in 1..n : f[k] = step[k][f[k - 1]]
  <2> DEFINE V == Seq(T)
             v == <<>>
  <2>1. v \in V /\ step \in [1..n -> [V -> V]]
    <3> HIDE DEF step
    <3> QED
      BY <1>4
  <2> HIDE DEF step, n, V, v, next, drop, is, g
  <2>2. PICK f \in [0..n -> V] : f[0] = v /\ \A k \in 1..n : f[k] = step[k][f[k - 1]]
    <3>1. n \in Nat
      BY <1>2
    <3>2. \E f \in [0..n -> V] : f[0] = v /\ \A k \in 1..n : f[k] = step[k][f[k - 1]]
      BY <2>1, <3>1, LineByLine
    <3> QED
      BY <3>2
  <2> QED
    BY <2>2 DEF V, v
<1>6. ASSUME NEW k \in 1..n PROVE f[k] = next(f[k - 1], k)
  <2>1. k - 1 \in 0..n /\ f[k - 1] \in Seq(T)
    BY <1>2
  <2> HIDE DEF next
  <2> QED
    BY <1>5, <2>1
<1>7. is(f)
  <2>1. \A k \in 0..n : k # 0 => k \in 1..n
    BY <1>2
  <2> HIDE DEF n
  <2>2. f = [k \in 0..n |-> f[k]]
    OBVIOUS
  <2> QED
    BY <1>5, <1>6, <2>1, <2>2
<1>8. is(g)
  <2> HIDE DEF is
  <2> QED
    BY <1>7
<1>9. ASSUME NEW k \in 0..n
      PROVE  g[k] = IF k = 0 THEN <<>> ELSE next(g[k - 1], k)
  <2> HIDE DEF g
  <2> QED
    BY <1>8
<1> HIDE DEF g
<1> DEFINE Wrong == {k \in Nat : k <= n /\ g[k] # f[k]}
<1>10. Wrong = {}
  <2> SUFFICES ASSUME Wrong # {} PROVE FALSE
    OBVIOUS
  <2>1. PICK k \in Wrong : \A i \in Wrong : k <= i
    BY LeastNumber
  <2>2. k \in 0..n /\ g[k] # f[k]
    BY <1>2, <2>1
  <2>3. k # 0
    BY <1>5, <1>9, <2>2
  <2>4. k \in 1..n /\ k - 1 \in Nat /\ k - 1 <= n /\ k - 1 \notin Wrong
    BY <1>2, <2>1, <2>2, <2>3
  <2>5. g[k - 1] = f[k - 1]
    BY <2>4
  <2> QED
    BY <1>6, <1>9, <2>2, <2>3, <2>4, <2>5
<1>11. keep(text) = f[n]
  BY <1>2, <1>3, <1>10
<1>12. \A k \in 1..n : f[k] \in {f[k - 1], Append(f[k - 1], text[k])}
  BY <1>6
<1> DEFINE S == {k \in 1..n : f[k] # f[k - 1]}
<1>13. ASSUME NEW k \in 1..n PROVE k \in S <=> ~drop(f[k - 1], k)
  <2>1. k - 1 \in 0..n /\ f[k - 1] \in Seq(T) /\ text[k] \in T
    BY <1>2
  <2>2. Append(f[k - 1], text[k]) # f[k - 1]
    BY <2>1
  <2> HIDE DEF drop
  <2> QED
    BY <1>6, <2>2
<1>14. \E e : Listing(e, f[n], text, S)
  <2>1. f \in [0..Len(text) -> Seq(T)] /\ f[0] = <<>> /\ text \in Seq(T)
    BY <1>1, <1>5
  <2>2. \A k \in 1..Len(text) : f[k] \in {f[k - 1], Append(f[k - 1], text[k])}
    BY <1>12
  <2> HIDE DEF step, next
  <2> QED
    BY <2>1, <2>2, TakenListed
<1>15. f[n] \in Seq(T)
  BY <1>2
<1>16. /\ S \in SUBSET (DOMAIN text \ Goes(text))
       /\ \A k \in DOMAIN text : k \in S \/ k \in Goes(text) \/ (text[k] = "blank" /\ cut(text, k))
  <2> HIDE DEF S
  <2>1. S \subseteq 1..n
    BY DEF S
  <2> QED
    BY <1>2, <1>13, <2>1
<1> QED
  BY <1>11, <1>14, <1>15, <1>16 DEF IsLines

-----------------------------------------------------------------------------
(* Texts: the tables of the entry *)

\* The kinds of lines.
LEMMA KindIs ==
  ASSUME NEW text, NEW k \in DOMAIN text
  PROVE  /\ scanTOML(text)[k] = "header" <=> k \in Heads(text)
         /\ scanTOML(text)[k] # "blank" <=> Solid(text, k)
         /\ k \in Heads(text) => Solid(text, k) /\ ~inString(text)[k - 1]
         /\ scanTOML(text)[k] = "cont" <=> inString(text)[k - 1]
         /\ scanTOML(text)[k] = "other" <=> Solid(text, k) /\ ~inString(text)[k - 1] /\ text[k] \notin Headers
<1>1. scanTOML(text)[k] =
        IF inString(text)[k - 1] THEN "cont" ELSE IF text[k] \in Headers THEN "header"
        ELSE IF text[k] \in {"blank", "note"} THEN "blank" ELSE "other"
  BY DEF scanTOML
<1> QED
  BY <1>1 DEF Heads, Solid, Headers

\* The last header is the same where no header comes between.
LEMMA MineOn ==
  ASSUME NEW text, IsLines(text), NEW a \in Nat, NEW b \in Nat, a <= b,
         \A j \in Heads(text) : ~(a < j /\ j <= b)
  PROVE  Mine(text, a) <=> Mine(text, b)
<1>1. \A j \in Heads(text) : j \in Nat
  BY LinesAre DEF Heads
<1>2. \A j \in Heads(text) : j <= a <=> j <= b
  BY <1>1
<1> QED
  BY <1>2 DEF Mine

\* A header is the last one for itself.
LEMMA MineHead ==
  ASSUME NEW text, IsLines(text), NEW h \in Heads(text)
  PROVE  Mine(text, h) <=> text[h] \in {"main", "sub"}
<1>1. \A j \in Heads(text) : j \in Nat
  BY LinesAre DEF Heads
<1>2. Mine(text, h) => text[h] \in {"main", "sub"}
  <2> SUFFICES ASSUME Mine(text, h) PROVE text[h] \in {"main", "sub"}
    OBVIOUS
  <2>1. PICK g \in Heads(text) : g <= h /\ text[g] \in {"main", "sub"} /\ \A j \in Heads(text) : j <= h => j <= g
    BY DEF Mine
  <2>2. g = h
    BY <1>1, <2>1
  <2> QED
    BY <2>1, <2>2
<1>3. text[h] \in {"main", "sub"} => Mine(text, h)
  BY <1>1 DEF Mine
<1> QED
  BY <1>2, <1>3

\* A table of the entry: it starts at a header of the entry and ends with the last
\* line before the next header, or the end, that is more than a blank or a comment.
IsTable(text, s, x) ==
  /\ s.start \in Heads(text) /\ text[s.start] \in {"main", "sub"}
  /\ s.start <= s.end /\ s.end < x /\ x <= Len(text) + 1
  /\ Solid(text, s.end) /\ \A j \in (s.end + 1)..(x - 1) : ~Solid(text, j)
  /\ \A j \in (s.start + 1)..(x - 1) : j \notin Heads(text)
  /\ x # Len(text) + 1 => x \in Heads(text)

\* The spans are the tables of the entry.
LEMMA SpansAre ==
  ASSUME NEW text, IsLines(text)
  PROVE  /\ \A s \in tomlEntrySpans(text) : s.end \in Nat /\ \E x \in Nat : IsTable(text, s, x)
         /\ \A h \in Heads(text) : text[h] \in {"main", "sub"} => \E s \in tomlEntrySpans(text) : s.start = h
<1> DEFINE n == Len(text)
           kind == scanTOML(text)
           heads == {k \in DOMAIN text : kind[k] = "header"}
           end(h) == MinOf({n + 1} \cup {j \in heads : j > h})
           body(h) == MaxOf({h} \cup {k \in (h + 1)..(end(h) - 1) : kind[k] # "blank"})
<1>1. tomlEntrySpans(text) = {[start |-> h, end |-> body(h)] : h \in {j \in heads : text[j] \in {"main", "sub"}}}
  BY Zenon DEF tomlEntrySpans
<1>2. heads = Heads(text)
  BY KindIs DEF Heads
<1>3. n \in Nat /\ DOMAIN text = 1..n
  BY LinesAre
<1>4. heads \subseteq 1..n
  BY <1>3
<1> HIDE DEF heads, n, kind
<1>5. ASSUME NEW h \in heads
      PROVE  /\ end(h) \in Nat /\ h < end(h) /\ end(h) <= n + 1
             /\ end(h) # n + 1 => end(h) \in heads
             /\ \A j \in (h + 1)..(end(h) - 1) : j \notin heads
  <2> DEFINE T == {n + 1} \cup {j \in heads : j > h}
  <2>1. T \in SUBSET Nat /\ T # {} /\ h \in 1..n
    <3>1. \A j \in heads : j \in Nat
      BY <1>3, <1>4
    <3>2. n + 1 \in Nat
      BY <1>3
    <3> QED
      BY <1>4, <3>1, <3>2
  <2>2. end(h) \in T /\ \A j \in T : end(h) <= j
    BY <2>1, MinIs
  <2> HIDE DEF end
  <2> QED
    BY <1>3, <1>4, <2>1, <2>2
<1> HIDE DEF end
<1>6. ASSUME NEW h \in heads
      PROVE  /\ body(h) \in Nat /\ h <= body(h) /\ body(h) < end(h) /\ Solid(text, body(h))
             /\ \A j \in (body(h) + 1)..(end(h) - 1) : ~Solid(text, j)
  <2> DEFINE T == {h} \cup {k \in (h + 1)..(end(h) - 1) : kind[k] # "blank"}
  <2>1. h \in 1..n
    BY <1>4
  <2>2. T \in SUBSET (0..n) /\ T # {}
    BY <1>3, <1>5, <2>1
  <2>3. body(h) \in T /\ \A j \in T : j <= body(h)
    BY <1>3, <2>2, MaxIs
  <2> HIDE DEF body
  <2>4. body(h) \in 0..n /\ h <= body(h) /\ body(h) < end(h)
    BY <1>3, <1>5, <2>1, <2>2, <2>3
  <2>5. Solid(text, body(h))
    <3>1. CASE body(h) = h
      <4>1. h \in DOMAIN text /\ h \in Heads(text)
        BY <1>2, <1>3, <2>1
      <4> QED
        BY <3>1, <4>1, KindIs
    <3>2. CASE body(h) # h
      <4>1. kind[body(h)] # "blank" /\ body(h) \in DOMAIN text
        BY <1>3, <2>1, <2>3, <2>4, <3>2
      <4> QED
        BY <4>1, KindIs DEF kind
    <3> QED
      BY <3>1, <3>2
  <2>6. ASSUME NEW j \in (body(h) + 1)..(end(h) - 1) PROVE ~Solid(text, j)
    <3>1. j \in (h + 1)..(end(h) - 1) /\ j \in DOMAIN text /\ ~(j <= body(h))
      BY <1>3, <1>5, <2>1, <2>4
    <3>2. kind[j] = "blank"
      BY <2>3, <3>1
    <3> QED
      BY <3>1, <3>2, KindIs DEF kind
  <2> QED
    BY <2>4, <2>5, <2>6
<1> HIDE DEF body
<1>7. ASSUME NEW s \in tomlEntrySpans(text) PROVE s.end \in Nat /\ \E x \in Nat : IsTable(text, s, x)
  <2>1. PICK h \in heads : text[h] \in {"main", "sub"} /\ s = [start |-> h, end |-> body(h)]
    BY <1>1
  <2>2. s.start = h /\ s.end = body(h)
    BY <2>1
  <2>3. IsTable(text, s, end(h))
    BY <1>2, <1>5, <1>6, <2>1, <2>2 DEF IsTable, n
  <2> QED
    BY <1>5, <1>6, <2>2, <2>3
<1>8. ASSUME NEW h \in Heads(text), text[h] \in {"main", "sub"} PROVE \E s \in tomlEntrySpans(text) : s.start = h
  <2>1. [start |-> h, end |-> body(h)] \in tomlEntrySpans(text)
    BY <1>1, <1>2, <1>8
  <2> QED
    BY <2>1
<1> QED
  BY <1>7, <1>8

\* What goes: the lines of the entry that are more than blanks and comments, and
\* those before another one of them.
LEMMA GoesIs ==
  ASSUME NEW text, IsLines(text), NEW k \in DOMAIN text
  PROVE  k \in Goes(text) <=> Mine(text, k) /\ (Solid(text, k) \/ Inner(text, k))
<1> DEFINE n == Len(text)
           spans == tomlEntrySpans(text)
           inSpan == \E s \in spans : s.start <= k /\ k <= s.end
           between == \E s, t \in spans : s.end < k /\ k < t.start
                        /\ \A j \in (s.end + 1)..(t.start - 1) : scanTOML(text)[j] = "blank"
<1>1. n \in Nat /\ DOMAIN text = 1..n /\ k \in 1..n
  BY LinesAre
<1>2. k \in Goes(text) <=> inSpan \/ between
  BY DEF Goes
<1>3. \A h \in Heads(text) : h \in 1..n /\ Solid(text, h)
  BY <1>1, KindIs DEF Heads
<1>4. ASSUME NEW s \in spans PROVE s.end \in Nat /\ s.start \in 1..n /\ \E x \in Nat : IsTable(text, s, x)
  BY <1>3, SpansAre DEF IsTable
<1>5. ASSUME inSpan PROVE Mine(text, k) /\ (Solid(text, k) \/ Inner(text, k))
  <2>1. PICK s \in spans : s.start <= k /\ k <= s.end
    BY <1>5
  <2>2. PICK x \in Nat : IsTable(text, s, x)
    BY <1>4
  <2>3. s.end \in 1..n /\ s.end < x /\ s.start \in 1..n
    BY <1>1, <1>4, <2>2 DEF IsTable
  <2>4. Mine(text, s.start)
    BY <2>2, MineHead DEF IsTable
  <2>5. \A j \in (s.start + 1)..(x - 1) : j \notin Heads(text)
    BY <2>2 DEF IsTable
  <2>6. ASSUME NEW j \in s.start..s.end PROVE Mine(text, j)
    <3>1. j \in Nat /\ s.start <= j
      BY <2>3
    <3>2. \A i \in Heads(text) : ~(s.start < i /\ i <= j)
      BY <1>3, <2>3, <2>5
    <3> QED
      BY <2>3, <2>4, <3>1, <3>2, MineOn
  <2>7. k \in s.start..s.end
    BY <1>1, <2>1, <2>3
  <2>8. ASSUME ~Solid(text, k) PROVE Inner(text, k)
    <3> DEFINE T == {j \in Nat : k < j /\ j <= s.end /\ Solid(text, j)}
    <3>1. s.end \in T
      <4>1. Solid(text, s.end)
        BY <2>2 DEF IsTable
      <4> QED
        BY <1>1, <2>1, <2>3, <2>8, <4>1
    <3>2. PICK j \in T : \A i \in T : j <= i
      BY <3>1, LeastNumber
    <3>3. j \in DOMAIN text /\ j > k /\ Solid(text, j) /\ j \in s.start..s.end
      BY <1>1, <2>3, <2>7, <3>2
    <3>4. \A i \in (k + 1)..(j - 1) : ~Solid(text, i)
      BY <1>1, <2>3, <3>2
    <3> QED
      BY <2>6, <3>3, <3>4 DEF Inner
  <2> QED
    BY <2>6, <2>7, <2>8
<1>6. ASSUME between PROVE Mine(text, k) /\ Inner(text, k)
  <2>1. PICK s \in spans, t \in spans : /\ s.end < k /\ k < t.start
                                        /\ \A j \in (s.end + 1)..(t.start - 1) : scanTOML(text)[j] = "blank"
    BY <1>6
  <2>2. s.start \in 1..n /\ s.start <= s.end /\ s.end \in Nat /\ t.start \in 1..n
    BY <1>4 DEF IsTable
  <2>3. /\ s.start \in Heads(text) /\ text[s.start] \in {"main", "sub"}
        /\ t.start \in Heads(text) /\ text[t.start] \in {"main", "sub"}
    BY <1>4 DEF IsTable
  <2>4. ASSUME NEW j \in (s.end + 1)..(t.start - 1) PROVE ~Solid(text, j) /\ j \in 1..n
    <3>1. j \in 1..n /\ scanTOML(text)[j] = "blank"
      BY <1>1, <2>1, <2>2
    <3> QED
      BY <1>1, <3>1, KindIs
  <2>5. Mine(text, k)
    <3>1. ASSUME NEW j \in Heads(text), s.start < j, j <= k PROVE FALSE
      <4>1. j \in 1..n /\ Solid(text, j)
        BY <1>3
      <4>2. j <= s.end
        BY <1>1, <2>1, <2>2, <2>4, <3>1, <4>1
      <4>3. PICK x \in Nat : IsTable(text, s, x)
        BY <1>4
      <4>4. j \in (s.start + 1)..(x - 1)
        BY <2>2, <3>1, <4>1, <4>2, <4>3 DEF IsTable
      <4> QED
        BY <4>3, <4>4 DEF IsTable
    <3>2. Mine(text, s.start)
      BY <2>3, MineHead
    <3>3. s.start \in Nat /\ k \in Nat /\ s.start <= k
      BY <1>1, <2>1, <2>2
    <3> QED
      BY <3>1, <3>2, <3>3, MineOn
  <2>6. Inner(text, k)
    <3>1. t.start \in DOMAIN text /\ t.start > k /\ Solid(text, t.start) /\ Mine(text, t.start)
      BY <1>1, <1>3, <2>1, <2>2, <2>3, MineHead
    <3>2. \A i \in (k + 1)..(t.start - 1) : ~Solid(text, i)
      BY <1>1, <2>1, <2>2, <2>4
    <3> QED
      BY <3>1, <3>2 DEF Inner
  <2> QED
    BY <2>5, <2>6
<1>7. ASSUME Mine(text, k), Solid(text, k) \/ Inner(text, k) PROVE inSpan \/ between
  <2>1. PICK h \in Heads(text) : h <= k /\ text[h] \in {"main", "sub"} /\ \A j \in Heads(text) : j <= k => j <= h
    BY <1>7 DEF Mine
  <2>2. PICK s \in spans : s.start = h
    BY <2>1, SpansAre
  <2>3. PICK x \in Nat : IsTable(text, s, x)
    BY <1>4
  <2>4. h \in 1..n /\ s.end \in 1..n /\ s.end < x /\ x <= n + 1
    BY <1>1, <1>3, <1>4, <2>2, <2>3 DEF IsTable
  <2>5. k < x
    <3>1. x # n + 1 => x \in Heads(text)
      BY <2>3 DEF IsTable
    <3>2. h <= s.end
      BY <2>2, <2>3 DEF IsTable
    <3> QED
      BY <1>1, <2>1, <2>4, <3>1, <3>2
  <2>6. \A j \in (s.end + 1)..(x - 1) : ~Solid(text, j)
    BY <2>3 DEF IsTable
  <2>7. CASE k <= s.end
    BY <2>1, <2>2, <2>7
  <2>8. CASE ~(k <= s.end)
    <3>1. ~Solid(text, k)
      BY <1>1, <2>4, <2>5, <2>6, <2>8
    <3>2. PICK j \in DOMAIN text : /\ j > k /\ Solid(text, j) /\ Mine(text, j)
                                   /\ \A i \in (k + 1)..(j - 1) : ~Solid(text, i)
      BY <1>7, <3>1 DEF Inner
    <3>3. ~(j < x)
      BY <1>1, <2>4, <2>6, <2>8, <3>2
    <3>4. x \in Heads(text) /\ Solid(text, x)
      BY <1>1, <1>3, <2>3, <2>4, <3>2, <3>3 DEF IsTable
    <3>5. j = x
      BY <1>1, <2>4, <2>5, <3>2, <3>3, <3>4
    <3>6. text[j] \in {"main", "sub"}
      BY <3>2, <3>4, <3>5, MineHead
    <3>7. PICK t \in spans : t.start = j
      BY <3>4, <3>5, <3>6, SpansAre
    <3>8. ASSUME NEW i \in (s.end + 1)..(j - 1) PROVE scanTOML(text)[i] = "blank"
      <4>1. i \in DOMAIN text /\ ~Solid(text, i)
        BY <1>1, <2>4, <2>6, <3>2, <3>5
      <4> QED
        BY <4>1, KindIs
    <3>9. s.end < k /\ k < t.start /\ \A i \in (s.end + 1)..(t.start - 1) : scanTOML(text)[i] = "blank"
      BY <1>1, <2>4, <2>8, <3>2, <3>7, <3>8
    <3> QED
      BY <3>9
  <2> QED
    BY <2>7, <2>8
<1> QED
  BY <1>2, <1>5, <1>6, <1>7

\* A blank line outside of strings.
Blank(text, k) == text[k] = "blank" /\ ~inString(text)[k - 1]

\* No string is cut: none is open between a line that goes, or is blank, and one that stays.
LEMMA Seams ==
  ASSUME NEW text, IsLines(text), NEW k \in 1..(Len(text) - 1),
         k \notin Goes(text) \/ k + 1 \notin Goes(text),
         \E j \in {k, k + 1} : j \in Goes(text) \/ Blank(text, j)
  PROVE  inString(text)[k] = FALSE
<1> DEFINE in == inString(text)
           n == Len(text)
<1>1. n \in Nat /\ DOMAIN text = 1..n /\ k \in 1..n /\ k + 1 \in 1..n /\ k \in Nat /\ k + 1 \in Nat /\ k - 1 \in 0..n
  BY LinesAre
<1>2. in[k] = IF in[k - 1] THEN text[k] # "close" ELSE text[k] = "open"
  BY <1>1, StringRuns
<1>3. in[k] \in BOOLEAN /\ in[k - 1] \in BOOLEAN /\ (k + 1) - 1 = k
  <2>1. in \in [0..n -> BOOLEAN]
    BY StringRuns
  <2> HIDE DEF in, n
  <2>2. k \in 0..n /\ (k + 1) - 1 = k
    BY <1>1
  <2> QED
    BY <1>1, <2>1, <2>2
<1> HIDE DEF in, n
<1> SUFFICES ASSUME in[k] PROVE FALSE
  BY <1>3 DEF in
<1>4. ~Blank(text, k) /\ ~Blank(text, k + 1)
  BY <1>2, <1>3 DEF Blank, in
<1>5. k + 1 \notin Heads(text) /\ Solid(text, k + 1)
  BY <1>3 DEF Heads, Solid, in
<1>6. Solid(text, k)
  BY <1>2, <1>3 DEF Solid, in
<1>7. Mine(text, k) <=> Mine(text, k + 1)
  <2>1. \A j \in Heads(text) : j \in Nat
    BY <1>1 DEF Heads
  <2>2. ASSUME NEW j \in Heads(text) PROVE ~(k < j /\ j <= k + 1)
    <3>1. j # k + 1 /\ j \in Nat
      BY <1>5, <2>1
    <3>2. k \in Nat
      BY <1>1
    <3> QED
      BY <3>1, <3>2
  <2>3. k <= k + 1
    BY <1>1
  <2> QED
    BY <1>1, <2>2, <2>3, MineOn
<1>8. (k \in Goes(text) <=> Mine(text, k)) /\ (k + 1 \in Goes(text) <=> Mine(text, k + 1))
  BY <1>1, <1>5, <1>6, GoesIs
<1> QED
  BY <1>4, <1>7, <1>8

\* The last header above a line, or the root.
Cur(text, k) == IF \E h \in Heads(text) : h < k THEN text[MaxOf({h \in Heads(text) : h < k})] ELSE "root"

\* A line that starts a key, and not the rest of a value.
Key(text, k) == Solid(text, k) /\ ~inString(text)[k - 1] /\ text[k] \notin Headers

\* What can be edited.
LEMMA EditableIs ==
  ASSUME NEW text, IsLines(text)
  PROVE  Editable(text) <=>
           /\ \A k \in DOMAIN text : Key(text, k) =>
                text[k] # "close" /\ Cur(text, k) # "servers" /\ (text[k] = "dotted" => Cur(text, k) # "root")
           /\ \A k \in DOMAIN text : text[k] = "open" /\ ~inString(text)[k - 1] =>
                \E j \in DOMAIN text : j > k /\ text[j] = "close"
           /\ Cardinality({k \in Heads(text) : text[k] = "main"}) <= 1
<1> DEFINE kind == scanTOML(text)
           heads == {k \in DOMAIN text : kind[k] = "header"}
           cur(k) == IF \E h \in heads : h < k THEN text[MaxOf({h \in heads : h < k})] ELSE "root"
<1>1. Editable(text) <=>
        /\ \A k \in DOMAIN text : kind[k] = "other" =>
             text[k] # "close" /\ cur(k) # "servers" /\ (text[k] = "dotted" => cur(k) # "root")
        /\ \A k \in DOMAIN text : text[k] = "open" /\ kind[k] # "cont" => \E j \in DOMAIN text : j > k /\ text[j] = "close"
        /\ Cardinality({k \in heads : text[k] = "main"}) <= 1
  BY Zenon DEF Editable
<1>2. heads = Heads(text)
  BY KindIs DEF Heads
<1>3. \A k \in DOMAIN text : kind[k] = "other" <=> Key(text, k)
  BY KindIs DEF Key
<1>4. \A k \in DOMAIN text : kind[k] = "cont" <=> inString(text)[k - 1]
  BY KindIs
<1>5. ASSUME NEW k PROVE cur(k) = Cur(text, k)
  BY <1>2 DEF Cur
<1> HIDE DEF kind, heads, cur
<1> QED
  BY <1>1, <1>2, <1>3, <1>4, <1>5

\* A string of a text that can be edited is closed, also one that is open at the end.
LEMMA Closed ==
  ASSUME NEW text, IsLines(text), Editable(text)
  PROVE  inString(text)[Len(text)] = FALSE
<1> DEFINE in == inString(text)
           n == Len(text)
           T == {k \in 0..n : in[k] = FALSE}
<1>1. n \in Nat /\ DOMAIN text = 1..n
  BY LinesAre
<1>2. /\ in \in [0..n -> BOOLEAN] /\ in[0] = FALSE
      /\ \A k \in 1..n : in[k] = IF in[k - 1] THEN text[k] # "close" ELSE text[k] = "open"
  BY StringRuns
<1> HIDE DEF in, n
<1>3. 0 \in T /\ T \in SUBSET (0..n)
  BY <1>1, <1>2
<1>4. PICK k \in T : \A j \in T : j <= k
  BY <1>1, <1>3, LastNumber
<1> SUFFICES ASSUME k # n PROVE FALSE
  BY <1>4 DEF in, n
<1>5. k + 1 \in 1..n /\ k + 1 \in 0..n /\ (k + 1) - 1 = k /\ in[k] = FALSE
  BY <1>1, <1>4
<1>6. \A j \in (k + 1)..n : in[j] = TRUE
  <2>1. ASSUME NEW j \in (k + 1)..n PROVE in[j] = TRUE
    <3>1. j \in 0..n /\ ~(j <= k)
      BY <1>1, <1>5
    <3>2. in[j] # FALSE
      BY <1>4, <3>1
    <3> QED
      BY <1>2, <3>1, <3>2
  <2> QED
    BY <2>1
<1>7. text[k + 1] = "open" /\ ~in[(k + 1) - 1]
  <2>1. in[k + 1] = IF in[(k + 1) - 1] THEN text[k + 1] # "close" ELSE text[k + 1] = "open"
    BY <1>2, <1>5
  <2>2. in[k + 1] = TRUE
    BY <1>1, <1>5, <1>6
  <2> QED
    BY <1>5, <2>1, <2>2
<1>8. PICK j \in DOMAIN text : j > k + 1 /\ text[j] = "close"
  BY <1>1, <1>5, <1>7, EditableIs DEF in
<1>9. j \in 1..n /\ j - 1 \in (k + 1)..n /\ j \in (k + 1)..n
  BY <1>1, <1>5, <1>8
<1>10. in[j] = FALSE
  BY <1>2, <1>6, <1>8, <1>9
<1> QED
  BY <1>6, <1>9, <1>10


\* After a line that stays and before one that does not, no string is open; nor
\* before a line that stays and after one that does not, or at either end.
LEMMA EndsMeet ==
  ASSUME NEW text, IsLines(text), Editable(text), NEW k \in 0..Len(text),
         \/ k > 0 /\ k \notin Goes(text) /\ (k = Len(text) \/ k + 1 \in Goes(text) \/ Blank(text, k + 1))
         \/ k < Len(text) /\ k + 1 \notin Goes(text) /\ (k = 0 \/ k \in Goes(text) \/ Blank(text, k))
  PROVE  inString(text)[k] = FALSE
<1>1. Len(text) \in Nat
  BY LinesAre
<1>2. CASE k = 0
  BY <1>2, StringRuns
<1>3. CASE k = Len(text)
  BY <1>3, Closed
<1>4. CASE k # 0 /\ k # Len(text)
  <2>1. k \in 1..(Len(text) - 1)
    BY <1>1, <1>4
  <2>2. k \notin Goes(text) \/ k + 1 \notin Goes(text)
    OBVIOUS
  <2>3. \E j \in {k, k + 1} : j \in Goes(text) \/ Blank(text, j)
    BY <1>4
  <2> QED
    BY <2>1, <2>2, <2>3, Seams
<1> QED
  BY <1>2, <1>3, <1>4

\* A string that is open before a blank line which stays is closed by a line which
\* stays.
LEMMA StringStays ==
  ASSUME NEW text, IsLines(text), Editable(text), NEW k \in DOMAIN text \ Goes(text),
         text[k] = "blank", inString(text)[k - 1]
  PROVE  \E j \in DOMAIN text \ Goes(text) : j > k /\ text[j] # "blank"
<1> DEFINE in == inString(text)
           n == Len(text)
           T == {j \in Nat : k < j /\ j <= n /\ in[j] = FALSE}
<1>1. n \in Nat /\ DOMAIN text = 1..n /\ k \in 1..n
  BY LinesAre
<1>2. in \in [0..n -> BOOLEAN]
  BY StringRuns
<1>3. \A j \in 1..n : in[j] = IF in[j - 1] THEN text[j] # "close" ELSE text[j] = "open"
  BY StringRuns
<1>4. in[n] = FALSE
  BY Closed
<1> HIDE DEF in, n
<1>5. in[k] = TRUE
  BY <1>1, <1>3 DEF in
<1>6. T \in SUBSET Nat /\ T # {}
  <2>1. n \in T
    BY <1>1, <1>4, <1>5
  <2> QED
    BY <2>1
<1>7. PICK j \in T : \A i \in T : j <= i
  BY <1>6, LeastNumber
<1>8. j \in 1..n /\ k < j /\ in[j] = FALSE /\ j - 1 \in Nat /\ k <= j - 1
  BY <1>1, <1>7
<1>9. ASSUME NEW i \in k..(j - 1) PROVE in[i] = TRUE
  <2>1. i \in 0..n /\ i \in Nat /\ i <= n /\ (i = k \/ k < i) /\ ~(j <= i)
    BY <1>1, <1>8
  <2>2. CASE i = k
    BY <1>5, <2>2
  <2>3. CASE k < i
    <3>1. i \notin T
      BY <1>7, <2>1
    <3>2. in[i] # FALSE
      BY <1>1, <2>1, <2>3, <3>1
    <3> QED
      BY <1>2, <2>1, <3>2
  <2> QED
    BY <2>1, <2>2, <2>3
<1>10. text[j] = "close"
  <2>1. j - 1 \in k..(j - 1)
    BY <1>1, <1>8
  <2> QED
    BY <1>3, <1>8, <1>9, <2>1
<1>11. j \notin Goes(text)
  <2> DEFINE U == {l \in Nat : k < l /\ l <= j /\ l \in Goes(text)}
  <2> SUFFICES ASSUME j \in Goes(text) PROVE FALSE
    OBVIOUS
  <2>1. j \in U
    BY <1>1, <1>8
  <2>2. PICK l \in U : \A i \in U : l <= i
    BY <2>1, LeastNumber
  <2>3. l \in Nat /\ k < l /\ l <= j /\ l \in Goes(text)
    BY <2>2
  <2>4. l - 1 \in k..(j - 1) /\ l - 1 \in 0..n /\ l - 1 > 0 /\ (l - 1) + 1 = l
    BY <1>1, <1>8, <2>3
  <2>5. l - 1 \notin Goes(text)
    <3>1. CASE l - 1 = k
      BY <3>1
    <3>2. CASE l - 1 # k
      <4>1. l - 1 \in Nat /\ k < l - 1 /\ l - 1 <= j /\ ~(l <= l - 1)
        BY <1>1, <1>8, <2>3, <2>4, <3>2
      <4> QED
        BY <2>2, <4>1
    <3> QED
      BY <3>1, <3>2
  <2>6. in[l - 1] = FALSE
    BY <2>3, <2>4, <2>5, EndsMeet DEF in, n
  <2> QED
    BY <1>9, <2>4, <2>6
<1> QED
  BY <1>1, <1>8, <1>10, <1>11

\* What a removal takes besides the lines that go is blank.
LEMMA CutBlank ==
  ASSUME NEW text, IsLines(text), Editable(text), NEW k \in DOMAIN text \ Goes(text),
         text[k] = "blank", cut(text, k)
  PROVE  Blank(text, k)
<1> DEFINE in == inString(text)
           n == Len(text)
<1>1. n \in Nat /\ DOMAIN text = 1..n /\ k \in 1..n
  BY LinesAre
<1>2. in \in [0..n -> BOOLEAN] /\ Goes(text) \subseteq 1..n
  BY <1>1, StringRuns DEF Goes
<1>3. \A j \in 1..n : in[j] = IF in[j - 1] THEN text[j] # "close" ELSE text[j] = "open"
  BY StringRuns
<1>4. PICK g \in Goes(text) : g < k /\ \A j \in (g + 1)..(k - 1) : text[j] = "blank"
  BY DEF cut
<1> HIDE DEF in, n
<1> DEFINE T == {j \in Nat : g < j /\ j <= k /\ j \notin Goes(text)}
           U == {j \in Nat : g <= j /\ j < k /\ in[j] = FALSE}
<1>5. g \in 1..n
  BY <1>2
<1>6. PICK l \in T : \A i \in T : l <= i
  <2>1. k \in T
    BY <1>1, <1>4
  <2> QED
    BY <2>1, LeastNumber
<1>7. l \in Nat /\ g < l /\ l <= k /\ l \notin Goes(text) /\ l - 1 \in Nat /\ g <= l - 1 /\ (l - 1) + 1 = l
  BY <1>5, <1>6
<1>8. l - 1 \in Goes(text)
  <2>1. ~(l <= l - 1) /\ (l - 1 = g \/ g < l - 1) /\ l - 1 <= k
    BY <1>1, <1>5, <1>7
  <2> QED
    BY <1>6, <1>7, <2>1
<1>9. in[l - 1] = FALSE
  <2>1. l - 1 \in 0..n /\ l - 1 < n
    BY <1>1, <1>7
  <2> QED
    BY <1>7, <1>8, <2>1, EndsMeet DEF in, n
<1>10. U \subseteq 0..n /\ U # {}
  <2>1. l - 1 \in U
    BY <1>1, <1>7, <1>9
  <2>2. U \subseteq 0..n
    BY <1>1, <1>5
  <2> QED
    BY <2>1, <2>2
<1>11. PICK u \in U : \A i \in U : i <= u
  BY <1>1, <1>10, LastNumber
<1>12. u \in Nat /\ g <= u /\ u < k /\ in[u] = FALSE
  BY <1>11
<1>13. u = k - 1
  <2> SUFFICES ASSUME u # k - 1 PROVE FALSE
    OBVIOUS
  <2>1. u + 1 \in Nat /\ g <= u + 1 /\ u + 1 < k /\ ~(u + 1 <= u) /\ u + 1 \in (g + 1)..(k - 1) /\ u + 1 \in 1..n /\ (u + 1) - 1 = u
    BY <1>1, <1>5, <1>12
  <2>2. text[u + 1] = "blank"
    BY <1>4, <2>1
  <2>3. in[u + 1] = FALSE
    BY <1>3, <1>12, <2>1, <2>2
  <2> QED
    BY <1>11, <2>1, <2>3
<1> QED
  BY <1>12, <1>13 DEF Blank, in


\* The places of the lines that were there, when q lines came in after p of them.
Old(out, p, q) == (1..p) \cup ((p + q + 1)..Len(out))

\* An edited text: the lines that stay, e says which, and q new ones where the
\* first table of the entry was, at F, or at the end.
Woven(out, text, e, p, q, F) ==
  /\ p \in Nat /\ q \in Nat /\ p + q <= Len(out)
  /\ \A i \in Old(out, p, q) : e[i] \in DOMAIN text \ Goes(text) /\ out[i] = text[e[i]]
  /\ \A i, j \in Old(out, p, q) : i < j => e[i] < e[j]
  /\ \A k \in DOMAIN text : k \in Goes(text) \/ Blank(text, k) \/ \E i \in Old(out, p, q) : e[i] = k
  /\ F = Len(text) + 1 \/ (F \in Heads(text) /\ text[F] \in {"main", "sub"})
  /\ \A i \in Old(out, p, q) : i <= p <=> e[i] < F
  /\ q = 0 \/ \E h \in (p + 1)..(p + q) : /\ out[h] = "main"
                                          /\ \A i \in (p + 1)..(h - 1) : out[i] = "blank"
                                          /\ \A i \in (h + 1)..(p + q) : out[i] = "key"

\* Where the lines of an edited text come from.
LEMMA OldOrNew ==
  ASSUME NEW text, NEW out, NEW e, NEW p, NEW q, NEW F, IsLines(text), IsLines(out), Woven(out, text, e, p, q, F)
  PROVE  /\ p \in Nat /\ q \in Nat /\ Old(out, p, q) \subseteq 1..Len(out)
         /\ \A i \in Old(out, p, q) : i <= p \/ i > p + q
         /\ \A i \in 1..Len(out) \ Old(out, p, q) : i \in (p + 1)..(p + q) /\ out[i] \in {"blank", "main", "key"}
         /\ F \in 1..(Len(text) + 1)
         /\ F # Len(text) + 1 => F \in Goes(text)
<1>1. p \in Nat /\ q \in Nat /\ p + q <= Len(out) /\ Len(out) \in Nat /\ Len(text) \in Nat
  BY LinesAre DEF Woven
<1>2. Old(out, p, q) \subseteq 1..Len(out) /\ \A i \in Old(out, p, q) : i <= p \/ i > p + q
  BY <1>1 DEF Old
<1>3. ASSUME NEW i \in 1..Len(out) \ Old(out, p, q)
      PROVE  i \in (p + 1)..(p + q) /\ out[i] \in {"blank", "main", "key"}
  <2>1. i \in (p + 1)..(p + q)
    BY <1>1 DEF Old
  <2>2. PICK h \in (p + 1)..(p + q) : /\ out[h] = "main"
                                      /\ \A j \in (p + 1)..(h - 1) : out[j] = "blank"
                                      /\ \A j \in (h + 1)..(p + q) : out[j] = "key"
    BY <1>1, <2>1 DEF Woven
  <2>3. i = h \/ i \in (p + 1)..(h - 1) \/ i \in (h + 1)..(p + q)
    BY <1>1, <2>1, <2>2
  <2> QED
    BY <2>1, <2>2, <2>3
<1>4. F \in 1..(Len(text) + 1) /\ (F # Len(text) + 1 => F \in Goes(text))
  <2>1. CASE F = Len(text) + 1
    BY <1>1, <2>1
  <2>2. CASE F \in Heads(text) /\ text[F] \in {"main", "sub"}
    <3>1. F \in DOMAIN text /\ DOMAIN text = 1..Len(text)
      BY <2>2, LinesAre DEF Heads
    <3>2. Solid(text, F) /\ Mine(text, F)
      BY <2>2, <3>1, KindIs, MineHead
    <3>3. F \in Goes(text)
      BY <3>1, <3>2, GoesIs
    <3> QED
      BY <1>1, <3>1, <3>3
  <2> QED
    BY <2>1, <2>2 DEF Woven
<1> QED
  BY <1>1, <1>2, <1>3, <1>4

\* What does not stay goes or is blank.
LEMMA Unkept ==
  ASSUME NEW text, NEW out, NEW e, NEW p, NEW q, NEW F, IsLines(text), IsLines(out), Woven(out, text, e, p, q, F),
         NEW k \in 1..Len(text), \A i \in Old(out, p, q) : e[i] # k
  PROVE  k \in Goes(text) \/ Blank(text, k)
  BY LinesAre DEF Woven

\* Before a line of an edited text a string is open where it was, and in no new line.
LEMMA WovenStrings ==
  ASSUME NEW text, NEW out, NEW e, NEW p, NEW q, NEW F, IsLines(text), IsLines(out), Editable(text),
         Woven(out, text, e, p, q, F)
  PROVE  /\ \A i \in Old(out, p, q) : inString(out)[i - 1] = inString(text)[e[i] - 1] /\ inString(out)[i] = inString(text)[e[i]]
         /\ \A i \in 1..Len(out) \ Old(out, p, q) : inString(out)[i - 1] = FALSE /\ inString(out)[i] = FALSE
         /\ F \in 1..(Len(text) + 1)
<1> DEFINE in == inString(text)
           at == inString(out)
           n == Len(text)
           m == Len(out)
           P == Old(out, p, q)
           Before(i) == at[i - 1] = IF i \in P THEN in[e[i] - 1] ELSE FALSE
           After(i) == at[i] = IF i \in P THEN in[e[i]] ELSE FALSE
<1>1. n \in Nat /\ m \in Nat /\ DOMAIN text = 1..n /\ DOMAIN out = 1..m
  BY LinesAre
<1>2. in \in [0..n -> BOOLEAN] /\ in[0] = FALSE /\ at \in [0..m -> BOOLEAN] /\ at[0] = FALSE
  BY StringRuns
<1>3. \A j \in 1..n : in[j] = IF in[j - 1] THEN text[j] # "close" ELSE text[j] = "open"
  BY StringRuns
<1>4. \A j \in 1..m : at[j] = IF at[j - 1] THEN out[j] # "close" ELSE out[j] = "open"
  BY StringRuns
<1>5. /\ p \in Nat /\ q \in Nat /\ P \subseteq 1..m
      /\ \A i \in P : i <= p \/ i > p + q
      /\ \A i \in 1..m \ P : i \in (p + 1)..(p + q) /\ out[i] \in {"blank", "main", "key"}
      /\ F \in 1..(n + 1)
      /\ F # n + 1 => F \in Goes(text)
  BY OldOrNew
<1>6. /\ \A i \in P : e[i] \in 1..n /\ e[i] \notin Goes(text) /\ out[i] = text[e[i]]
      /\ \A i, j \in P : i < j => e[i] < e[j]
      /\ \A i \in P : i <= p <=> e[i] < F
  BY <1>1 DEF Woven
<1>7. \A k \in 1..n : (\A i \in P : e[i] # k) => k \in Goes(text) \/ Blank(text, k)
  BY Unkept
<1> HIDE DEF in, at, n, m, P
<1>8. ASSUME NEW k \in 0..n, k > 0, k \notin Goes(text), k # n => \A i \in P : e[i] # k + 1
      PROVE  in[k] = FALSE
  <2>1. k # n => k + 1 \in 1..n
    BY <1>1
  <2>2. k = n \/ k + 1 \in Goes(text) \/ Blank(text, k + 1)
    BY <1>7, <1>8, <2>1
  <2> QED
    BY <1>8, <2>2, EndsMeet DEF in, n
<1>9. ASSUME NEW k \in 1..n, k \notin Goes(text), k # 1 => \A i \in P : e[i] # k - 1
      PROVE  in[k - 1] = FALSE
  <2>1. k - 1 \in 0..n /\ k - 1 < n /\ (k - 1) + 1 = k /\ (k # 1 => k - 1 \in 1..n)
    BY <1>1
  <2>2. k - 1 = 0 \/ k - 1 \in Goes(text) \/ Blank(text, k - 1)
    BY <1>7, <1>9, <2>1
  <2> QED
    BY <1>9, <2>1, <2>2, EndsMeet DEF in, n
<1>10. ASSUME NEW i \in 1..m, Before(i) PROVE After(i)
  <2>1. CASE i \in P
    <3>1. at[i - 1] = in[e[i] - 1]
      BY <1>10, <2>1
    <3>2. e[i] \in 1..n /\ out[i] = text[e[i]]
      BY <1>6, <2>1
    <3>3. at[i] = in[e[i]]
      BY <1>3, <1>4, <3>1, <3>2
    <3> QED
      BY <2>1, <3>3
  <2>2. CASE i \notin P
    <3>1. at[i - 1] = FALSE
      BY <1>10, <2>2
    <3>2. out[i] # "open"
      BY <1>5, <2>2
    <3>3. at[i] = FALSE
      BY <1>4, <3>1, <3>2
    <3> QED
      BY <2>2, <3>3
  <2> QED
    BY <2>1, <2>2
<1>11. ASSUME NEW i \in 1..m, i # 1 => i - 1 \in 1..m /\ After(i - 1) PROVE Before(i)
  <2>1. i \in Nat /\ i - 1 \in Nat /\ p + q \in Nat
    BY <1>1, <1>5
  <2>2. CASE i \in P
    <3>1. e[i] \in 1..n /\ e[i] \notin Goes(text)
      BY <1>6, <2>2
    <3>2. ASSUME NEW j \in P, e[j] = e[i] - 1 PROVE j = i - 1 /\ i # 1
      <4>1. j \in 1..m /\ e[j] \in 1..n /\ e[j] < e[i]
        BY <1>1, <1>5, <1>6, <3>1, <3>2
      <4>2. j < i
        <5>1. ~(i < j) /\ i # j
          <6>1. i < j => e[i] < e[j]
            BY <1>6, <2>2
          <6> QED
            BY <3>1, <4>1, <6>1
        <5> QED
          BY <1>1, <4>1, <5>1
      <4>3. ASSUME NEW l \in P, j < l, l < i PROVE FALSE
        <5>1. e[j] < e[l] /\ e[l] < e[i] /\ e[l] \in 1..n
          BY <1>6, <2>2, <4>3
        <5> QED
          BY <3>1, <3>2, <4>1, <5>1
      <4>4. i - 1 \in 1..m /\ i # 1
        BY <1>1, <4>1, <4>2
      <4>5. CASE i - 1 \in P
        <5>1. ~(j < i - 1)
          BY <1>1, <4>1, <4>3, <4>5, <2>1
        <5> QED
          BY <1>1, <4>1, <4>2, <4>4, <5>1
      <4>6. CASE i - 1 \notin P
        <5>1. p < i - 1 /\ i - 1 <= p + q
          BY <1>5, <2>1, <4>4, <4>6
        <5>2. ~(i <= p) /\ j <= p
          BY <1>1, <1>5, <2>1, <2>2, <4>1, <4>2, <5>1
        <5>3. e[j] < F /\ ~(e[i] < F)
          BY <1>6, <2>2, <5>2
        <5>4. F = e[i]
          BY <1>1, <1>5, <3>1, <3>2, <4>1, <5>3
        <5> QED
          BY <1>1, <1>5, <3>1, <5>4
      <4> QED
        BY <4>4, <4>5, <4>6
    <3>3. CASE \E j \in P : e[j] = e[i] - 1
      <4>1. i # 1 /\ i - 1 \in P /\ e[i - 1] = e[i] - 1
        BY <3>2, <3>3
      <4> QED
        BY <1>11, <2>2, <4>1
    <3>4. CASE \A j \in P : e[j] # e[i] - 1
      <4>1. in[e[i] - 1] = FALSE
        BY <1>9, <3>1, <3>4
      <4>2. at[i - 1] = FALSE
        <5>1. CASE i = 1
          BY <1>2, <5>1
        <5>2. CASE i # 1 /\ i - 1 \notin P
          BY <1>11, <5>2
        <5>3. CASE i # 1 /\ i - 1 \in P
          <6>1. at[i - 1] = in[e[i - 1]] /\ e[i - 1] \in 1..n /\ e[i - 1] \notin Goes(text)
            BY <1>6, <1>11, <5>3
          <6>2. ASSUME NEW j \in P, e[j] = e[i - 1] + 1 PROVE FALSE
            <7>1. i - 1 < i /\ j \in Nat
              BY <1>5, <2>1
            <7>2. e[i - 1] < e[i] /\ e[j] # e[i] /\ e[j] \in 1..n
              <8>1. e[j] = e[i] => e[i - 1] = e[i] - 1
                BY <3>1, <6>1, <6>2
              <8> QED
                BY <1>6, <2>2, <3>4, <5>3, <7>1, <8>1
            <7>3. j < i
              <8>1. ~(i < j) /\ i # j
                <9>1. i < j => e[i] < e[j]
                  BY <1>6, <2>2
                <9> QED
                  BY <3>1, <6>1, <6>2, <7>2, <9>1
              <8> QED
                BY <2>1, <7>1, <8>1
            <7>4. ~(j < i - 1) /\ j # i - 1
              <8>1. j < i - 1 => e[j] < e[i - 1]
                BY <1>6, <5>3
              <8> QED
                BY <6>1, <6>2, <7>2, <8>1
            <7> QED
              BY <2>1, <7>1, <7>3, <7>4
          <6>3. e[i - 1] \in 0..n /\ e[i - 1] > 0
            BY <1>1, <6>1
          <6>4. in[e[i - 1]] = FALSE
            BY <1>8, <6>1, <6>2, <6>3
          <6> QED
            BY <6>1, <6>4
        <5> QED
          BY <5>1, <5>2, <5>3
      <4> QED
        BY <2>2, <4>1, <4>2
    <3> QED
      BY <3>3, <3>4
  <2>3. CASE i \notin P
    <3>1. p < i /\ i <= p + q
      BY <1>5, <2>1, <2>3
    <3>2. at[i - 1] = FALSE
      <4>1. CASE i = 1
        BY <1>2, <4>1
      <4>2. CASE i # 1 /\ i - 1 \notin P
        BY <1>11, <4>2
      <4>3. CASE i # 1 /\ i - 1 \in P
        <5>1. at[i - 1] = in[e[i - 1]] /\ e[i - 1] \in 1..n /\ e[i - 1] \notin Goes(text)
          BY <1>6, <1>11, <4>3
        <5>2. i - 1 = p
          BY <1>5, <2>1, <3>1, <4>3
        <5>3. e[i - 1] < F
          <6>1. i - 1 <= p
            BY <1>5, <5>2
          <6> QED
            BY <1>6, <4>3, <6>1
        <5>4. ASSUME NEW j \in P, e[j] = e[i - 1] + 1 PROVE FALSE
          <6>1. j \in Nat /\ e[j] \in 1..n
            BY <1>5, <1>6
          <6>2. ~(j <= i - 1)
            <7>1. j < i - 1 => e[j] < e[i - 1]
              BY <1>6, <4>3
            <7>2. j # i - 1
              BY <5>1, <5>4
            <7> QED
              BY <2>1, <5>1, <5>4, <6>1, <7>1, <7>2
          <6>3. ~(e[j] < F)
            BY <1>6, <5>2, <6>2
          <6>4. e[j] = F /\ F # n + 1
            BY <1>1, <1>5, <5>1, <5>3, <5>4, <6>1, <6>3
          <6> QED
            BY <1>5, <1>6, <6>4
        <5>5. e[i - 1] \in 0..n /\ e[i - 1] > 0
          BY <1>1, <5>1
        <5>6. in[e[i - 1]] = FALSE
          BY <1>8, <5>1, <5>4, <5>5
        <5> QED
          BY <5>1, <5>6
      <4> QED
        BY <4>1, <4>2, <4>3
    <3> QED
      BY <2>3, <3>2
  <2> QED
    BY <2>2, <2>3
<1>12. ASSUME NEW i \in 1..m PROVE Before(i) /\ After(i)
  <2> DEFINE Wrong == {j \in Nat : j \in 1..m /\ ~After(j)}
  <2>1. Wrong = {}
    <3> SUFFICES ASSUME Wrong # {} PROVE FALSE
      OBVIOUS
    <3> HIDE DEF Before, After
    <3>1. PICK j \in Wrong : \A l \in Wrong : j <= l
      BY LeastNumber
    <3>2. j \in 1..m /\ ~After(j) /\ j \in Nat
      BY <3>1
    <3>3. j # 1 => j - 1 \in 1..m /\ j - 1 \in Nat /\ ~(j <= j - 1)
      BY <1>1, <3>2
    <3>4. j # 1 => j - 1 \in 1..m /\ After(j - 1)
      BY <3>1, <3>3
    <3> QED
      BY <1>10, <1>11, <3>2, <3>4
  <2> HIDE DEF Before, After
  <2>2. \A j \in 1..m : j \in Nat /\ After(j)
    BY <1>1, <2>1
  <2>3. i # 1 => i - 1 \in 1..m
    BY <1>1
  <2> QED
    BY <1>11, <2>2, <2>3
<1> HIDE DEF Before, After
<1>13. \A i \in P : at[i - 1] = in[e[i] - 1] /\ at[i] = in[e[i]]
  BY <1>5, <1>12 DEF Before, After
<1>14. \A i \in 1..m \ P : at[i - 1] = FALSE /\ at[i] = FALSE
  BY <1>12 DEF Before, After
<1> QED
  BY <1>5, <1>13, <1>14 DEF in, at, n, m, P


\* The last header up to a line.
Above(text, k, h) == h \in Heads(text) /\ h <= k /\ \A j \in Heads(text) : j <= k => j <= h

\* There is one, or none.
LEMMA AboveIs ==
  ASSUME NEW text, IsLines(text), NEW k \in DOMAIN text
  PROVE  /\ (\E h \in Heads(text) : Above(text, k, h)) \/ \A h \in Heads(text) : ~(h <= k)
         /\ \A h \in Heads(text) : Above(text, k, h) => (Mine(text, k) <=> text[h] \in {"main", "sub"})
<1> DEFINE T == {h \in Heads(text) : h <= k}
<1>1. k \in Nat /\ \A h \in Heads(text) : h \in Nat
  BY LinesAre DEF Heads
<1>2. ASSUME NEW h \in Heads(text), h <= k PROVE \E x \in Heads(text) : Above(text, k, x)
  <2>1. T \in SUBSET (0..k) /\ T # {}
    BY <1>1, <1>2
  <2>2. PICK x \in T : \A y \in T : y <= x
    BY <1>1, <2>1, LastNumber
  <2> QED
    BY <2>2 DEF Above
<1>3. ASSUME NEW h \in Heads(text), Above(text, k, h) PROVE Mine(text, k) <=> text[h] \in {"main", "sub"}
  <2>1. ASSUME NEW g \in Heads(text), g <= k, \A j \in Heads(text) : j <= k => j <= g PROVE g = h
    BY <1>1, <1>3, <2>1 DEF Above
  <2> QED
    BY <1>3, <2>1 DEF Above, Mine
<1> QED
  BY <1>2, <1>3

\* The table of a line that is no header.
LEMMA CurIs ==
  ASSUME NEW text, IsLines(text), NEW k \in DOMAIN text, k \notin Heads(text)
  PROVE  /\ \A h \in Heads(text) : Above(text, k, h) => Cur(text, k) = text[h]
         /\ (\A h \in Heads(text) : ~(h <= k)) => Cur(text, k) = "root"
<1> DEFINE T == {h \in Heads(text) : h < k}
<1>1. k \in Nat /\ \A h \in Heads(text) : h \in Nat /\ h # k
  BY LinesAre DEF Heads
<1>2. ASSUME NEW h \in Heads(text), Above(text, k, h) PROVE Cur(text, k) = text[h]
  <2>1. h \in T /\ \A j \in T : j <= h
    BY <1>1, <1>2 DEF Above
  <2>2. T \in SUBSET (0..k)
    BY <1>1
  <2>3. MaxOf(T) \in T /\ \A y \in T : y <= MaxOf(T)
    BY <1>1, <2>1, <2>2, MaxIs
  <2>4. MaxOf(T) = h
    <3> HIDE DEF T
    <3>1. MaxOf(T) \in Nat /\ h \in Nat
      <4>1. T \subseteq Nat
        BY <1>1, <2>2
      <4> QED
        BY <1>1, <2>3, <4>1
    <3>2. MaxOf(T) <= h /\ h <= MaxOf(T)
      BY <2>1, <2>3
    <3> QED
      BY <3>1, <3>2
  <2> QED
    BY <2>1, <2>4 DEF Cur
<1>3. ASSUME \A h \in Heads(text) : ~(h <= k) PROVE Cur(text, k) = "root"
  <2>1. ~ \E h \in Heads(text) : h < k
    BY <1>1, <1>3
  <2> QED
    BY <2>1 DEF Cur
<1> QED
  BY <1>2, <1>3

\* A line that stays is what it was.
LEMMA WovenLines ==
  ASSUME NEW text, NEW out, NEW e, NEW p, NEW q, NEW F, IsLines(text), IsLines(out), Editable(text),
         Woven(out, text, e, p, q, F), NEW i \in Old(out, p, q)
  PROVE  /\ i \in DOMAIN out /\ e[i] \in DOMAIN text \ Goes(text) /\ out[i] = text[e[i]]
         /\ inString(out)[i - 1] = inString(text)[e[i] - 1]
         /\ Solid(out, i) <=> Solid(text, e[i])
         /\ i \in Heads(out) <=> e[i] \in Heads(text)
         /\ Key(out, i) <=> Key(text, e[i])
         /\ Blank(out, i) <=> Blank(text, e[i])
         /\ Solid(text, e[i]) => ~Mine(text, e[i])
         /\ e[i] \in Heads(text) => text[e[i]] \notin {"main", "sub"}
         /\ F \in 1..(Len(text) + 1)
<1>1. i \in DOMAIN out /\ e[i] \in DOMAIN text \ Goes(text) /\ out[i] = text[e[i]]
  <2>1. Old(out, p, q) \subseteq 1..Len(out)
    BY OldOrNew
  <2>2. \A j \in Old(out, p, q) : e[j] \in DOMAIN text \ Goes(text) /\ out[j] = text[e[j]]
    BY DEF Woven
  <2>3. DOMAIN out = 1..Len(out)
    BY LinesAre
  <2> QED
    BY <2>1, <2>2, <2>3
<1>2. inString(out)[i - 1] = inString(text)[e[i] - 1]
  <2>1. /\ \A j \in Old(out, p, q) : inString(out)[j - 1] = inString(text)[e[j] - 1] /\ inString(out)[j] = inString(text)[e[j]]
        /\ \A j \in 1..Len(out) \ Old(out, p, q) : inString(out)[j - 1] = FALSE /\ inString(out)[j] = FALSE
        /\ F \in 1..(Len(text) + 1)
    BY WovenStrings, Zenon
  <2> QED
    BY <2>1
<1>3. /\ Solid(out, i) <=> Solid(text, e[i])
      /\ i \in Heads(out) <=> e[i] \in Heads(text)
      /\ Blank(out, i) <=> Blank(text, e[i])
  BY <1>1, <1>2 DEF Solid, Heads, Blank
<1>4. Key(out, i) <=> Key(text, e[i])
  BY <1>1, <1>2, <1>3 DEF Key
<1>5. Solid(text, e[i]) => ~Mine(text, e[i])
  BY <1>1, GoesIs
<1>6. e[i] \in Heads(text) => text[e[i]] \notin {"main", "sub"}
  BY <1>1, <1>5, KindIs, MineHead
<1>7. F \in 1..(Len(text) + 1)
  BY OldOrNew
<1> QED
  BY <1>1, <1>2, <1>3, <1>4, <1>5, <1>6, <1>7

\* The last header up to a line of another table is what it was.
LEMMA WovenAbove ==
  ASSUME NEW text, NEW out, NEW e, NEW p, NEW q, NEW F, IsLines(text), IsLines(out), Editable(text),
         Woven(out, text, e, p, q, F), NEW i \in Old(out, p, q), ~Mine(text, e[i])
  PROVE  /\ \A h \in Heads(text) : Above(text, e[i], h) => \E g \in Heads(out) : Above(out, i, g) /\ out[g] = text[h]
         /\ (\A h \in Heads(text) : ~(h <= e[i])) => \A g \in Heads(out) : ~(g <= i)
         /\ ~Mine(out, i)
         /\ F \in 1..(Len(text) + 1)
<1> DEFINE n == Len(text)
           m == Len(out)
           P == Old(out, p, q)
<1>1. n \in Nat /\ m \in Nat /\ DOMAIN text = 1..n /\ DOMAIN out = 1..m
  BY LinesAre
<1>2. /\ p \in Nat /\ q \in Nat /\ P \subseteq 1..m /\ i \in P
      /\ \A j \in P : j <= p \/ j > p + q
      /\ \A j \in 1..m \ P : j \in (p + 1)..(p + q)
      /\ F \in 1..(n + 1)
  BY OldOrNew
<1>3. /\ \A j \in P : e[j] \in 1..n
      /\ \A j, l \in P : j < l => e[j] < e[l]
      /\ \A j \in P : j <= p <=> e[j] < F
  BY <1>1 DEF Woven
<1>4. F = n + 1 \/ (F \in Heads(text) /\ text[F] \in {"main", "sub"})
  BY DEF Woven
<1>5. \A h \in Heads(text) : h \in 1..n
  BY <1>1 DEF Heads
<1>6. \A g \in Heads(out) : g \in 1..m
  BY <1>1 DEF Heads
<1>7. \A j \in P : j \in Heads(out) <=> e[j] \in Heads(text)
  BY WovenLines
<1>8. ASSUME NEW h \in Heads(text), text[h] \notin {"main", "sub"} PROVE \E j \in P : e[j] = h
  <2>1. h \in DOMAIN text /\ h \in 1..n
    BY <1>1, <1>5
  <2>2. h \notin Goes(text)
    <3>1. Solid(text, h) /\ ~Mine(text, h)
      BY <1>8, <2>1, KindIs, MineHead
    <3>2. ~Inner(text, h) \/ ~Mine(text, h)
      BY <3>1
    <3> QED
      BY <2>1, <3>1, GoesIs
  <2>3. ~Blank(text, h)
    BY DEF Blank, Heads, Headers
  <2> QED
    BY <2>1, <2>2, <2>3 DEF Woven
<1> HIDE DEF n, m, P
<1>9. ASSUME NEW j \in P, e[j] <= e[i] PROVE j <= i
  <2>1. i < j => e[i] < e[j]
    BY <1>2, <1>3
  <2> QED
    BY <1>1, <1>2, <1>3, <1>9, <2>1
<1>10. ASSUME NEW j \in P, j <= i PROVE e[j] <= e[i]
  <2>1. j < i => e[j] < e[i]
    BY <1>2, <1>3
  <2> QED
    BY <1>1, <1>2, <1>3, <1>10, <2>1
<1>11. ASSUME NEW h \in Heads(text), Above(text, e[i], h) PROVE \E g \in Heads(out) : Above(out, i, g) /\ out[g] = text[h]
  <2>1. e[i] \in DOMAIN text
    BY <1>1, <1>2, <1>3
  <2>2. text[h] \notin {"main", "sub"}
    BY <1>11, <2>1, AboveIs
  <2>3. PICK g \in P : e[g] = h
    BY <1>8, <2>2
  <2>4. g \in Heads(out) /\ out[g] = text[h] /\ g <= i
    <3>1. e[g] <= e[i]
      BY <1>11, <2>3 DEF Above
    <3>2. out[g] = text[e[g]]
      BY WovenLines DEF P
    <3> QED
      BY <1>7, <1>9, <2>3, <3>1, <3>2
  <2>5. ASSUME NEW l \in Heads(out), l <= i PROVE l <= g
    <3>1. CASE l \in P
      <4>1. e[l] \in Heads(text) /\ e[l] <= e[i]
        BY <1>7, <1>10, <2>5, <3>1
      <4>2. e[l] <= e[g]
        BY <1>11, <2>3, <4>1 DEF Above
      <4>3. g < l => e[g] < e[l]
        BY <1>3, <3>1
      <4> QED
        BY <1>1, <1>2, <1>3, <3>1, <4>2, <4>3
    <3>2. CASE l \notin P
      <4>1. l \in (p + 1)..(p + q) /\ l \in Nat
        BY <1>2, <1>6, <3>2
      <4>2. ~(i <= p)
        BY <1>1, <1>2, <2>5, <4>1
      <4>3. ~(e[i] < F)
        BY <1>2, <1>3, <4>2
      <4>4. F \in Heads(text) /\ F <= e[i] /\ text[F] \in {"main", "sub"}
        BY <1>1, <1>2, <1>3, <1>4, <4>3
      <4>5. F <= h
        BY <1>11, <4>4 DEF Above
      <4>6. ~(e[g] < F)
        BY <1>1, <1>2, <1>3, <2>3, <4>5
      <4>7. g > p + q
        BY <1>2, <1>3, <4>6
      <4> QED
        BY <1>1, <1>2, <4>1, <4>7
    <3> QED
      BY <3>1, <3>2
  <2> QED
    BY <2>4, <2>5 DEF Above
<1>12. ASSUME \A h \in Heads(text) : ~(h <= e[i]), NEW g \in Heads(out) PROVE ~(g <= i)
  <2> SUFFICES ASSUME g <= i PROVE FALSE
    OBVIOUS
  <2>1. CASE g \in P
    BY <1>7, <1>10, <1>12, <2>1
  <2>2. CASE g \notin P
    <3>1. g \in (p + 1)..(p + q) /\ g \in Nat
      BY <1>2, <1>6, <2>2
    <3>2. ~(i <= p)
      BY <1>1, <1>2, <3>1
    <3>3. ~(e[i] < F)
      BY <1>2, <1>3, <3>2
    <3>4. F \in Heads(text) /\ F <= e[i]
      BY <1>1, <1>2, <1>3, <1>4, <3>3
    <3> QED
      BY <1>12, <3>4
  <2> QED
    BY <2>1, <2>2
<1>13. ~Mine(out, i)
  <2>1. i \in DOMAIN out /\ e[i] \in DOMAIN text
    BY <1>1, <1>2, <1>3
  <2>2. CASE \A h \in Heads(text) : ~(h <= e[i])
    BY <1>12, <2>2 DEF Mine
  <2>3. CASE \E h \in Heads(text) : Above(text, e[i], h)
    <3>1. PICK h \in Heads(text) : Above(text, e[i], h)
      BY <2>3
    <3>2. text[h] \notin {"main", "sub"}
      BY <2>1, <3>1, AboveIs
    <3>3. PICK g \in Heads(out) : Above(out, i, g) /\ out[g] = text[h]
      BY <1>11, <3>1
    <3> QED
      BY <2>1, <3>2, <3>3, AboveIs
  <2> QED
    BY <2>1, <2>2, <2>3, AboveIs
<1> QED
  BY <1>2, <1>11, <1>12, <1>13 DEF n


\* The new lines of an edited text: a blank line, and the table of the entry.
LEMMA NewLines ==
  ASSUME NEW text, NEW out, NEW e, NEW p, NEW q, NEW F, IsLines(text), IsLines(out), Editable(text),
         Woven(out, text, e, p, q, F), NEW i \in 1..Len(out) \ Old(out, p, q)
  PROVE  /\ i \in DOMAIN out /\ out[i] # "open"
         /\ Solid(out, i) => Mine(out, i)
         /\ ~Solid(out, i) => out[i] = "blank"
         /\ Key(out, i) => out[i] = "key" /\ Cur(out, i) = "main"
         /\ \A j \in 1..Len(out) \ Old(out, p, q) : i \in Heads(out) /\ j \in Heads(out) => i = j
         /\ F \in 1..(Len(text) + 1)
<1> DEFINE m == Len(out)
           P == Old(out, p, q)
           at == inString(out)
<1>1. m \in Nat /\ DOMAIN out = 1..m
  BY LinesAre
<1>2. /\ p \in Nat /\ q \in Nat /\ P \subseteq 1..m
      /\ \A j \in P : j <= p \/ j > p + q
      /\ \A j \in 1..m \ P : j \in (p + 1)..(p + q) /\ out[j] \in {"blank", "main", "key"}
      /\ F \in 1..(Len(text) + 1)
      /\ F # Len(text) + 1 => F \in Goes(text)
  BY OldOrNew
<1>3. /\ \A j \in P : at[j - 1] = inString(text)[e[j] - 1] /\ at[j] = inString(text)[e[j]]
      /\ \A j \in 1..m \ P : at[j - 1] = FALSE /\ at[j] = FALSE
      /\ F \in 1..(Len(text) + 1)
  BY WovenStrings, Zenon
<1>4. p + q <= m /\ P = (1..p) \cup ((p + q + 1)..m)
  BY DEF Woven, Old
<1>5. i \in (p + 1)..(p + q) /\ q # 0
  BY <1>2
<1>6. PICK h \in (p + 1)..(p + q) : /\ out[h] = "main"
                                    /\ \A j \in (p + 1)..(h - 1) : out[j] = "blank"
                                    /\ \A j \in (h + 1)..(p + q) : out[j] = "key"
  BY <1>5 DEF Woven
<1>7. \A j \in (p + 1)..(p + q) : j \in 1..m \ P
  BY <1>1, <1>2, <1>4
<1> HIDE DEF m, P, at
<1>8. ASSUME NEW j \in (p + 1)..(p + q)
      PROVE  /\ j \in Heads(out) <=> j = h
             /\ Solid(out, j) <=> h <= j
             /\ ~Solid(out, j) => out[j] = "blank"
             /\ h < j => out[j] = "key"
             /\ out[j] # "open"
  <2>1. j \in DOMAIN out /\ at[j - 1] = FALSE
    BY <1>1, <1>3, <1>7
  <2>2. CASE j = h
    <3>1. h <= j /\ ~(h < j)
      BY <1>2, <2>2
    <3> QED
      BY <1>6, <2>1, <2>2, <3>1 DEF Heads, Headers, Solid, at
  <2>3. CASE j < h
    <3>1. out[j] = "blank" /\ ~(h <= j) /\ j # h /\ ~(h < j)
      BY <1>2, <1>6, <2>3
    <3> QED
      BY <2>1, <3>1 DEF Heads, Headers, Solid, at
  <2>4. CASE h < j
    <3>1. out[j] = "key" /\ h <= j /\ j # h
      BY <1>2, <1>6, <2>4
    <3> QED
      BY <2>1, <3>1 DEF Heads, Headers, Solid, at
  <2> QED
    BY <1>2, <2>2, <2>3, <2>4
<1>9. h \in Heads(out)
  BY <1>8
<1>10. ASSUME h <= i PROVE Above(out, i, h)
  <2>1. ASSUME NEW j \in Heads(out), j <= i PROVE j <= h
    <3>1. j \in 1..m
      BY <1>1 DEF Heads
    <3>2. CASE j \in (p + 1)..(p + q)
      BY <1>2, <1>8, <3>2
    <3>3. CASE j \notin (p + 1)..(p + q)
      BY <1>1, <1>2, <1>5, <2>1, <3>1, <3>3
    <3> QED
      BY <3>2, <3>3
  <2> QED
    BY <1>9, <1>10, <2>1 DEF Above
<1>11. i \in DOMAIN out
  BY <1>1, <1>5, <1>7
<1>12. Solid(out, i) => Mine(out, i)
  <2>1. Solid(out, i) => Above(out, i, h)
    BY <1>5, <1>8, <1>10
  <2>2. Above(out, i, h) => Mine(out, i)
    BY <1>6, <1>9, <1>11, AboveIs
  <2> QED
    BY <2>1, <2>2
<1>13. ASSUME Key(out, i) PROVE out[i] = "key" /\ Cur(out, i) = "main"
  <2>1. i \notin Heads(out) /\ h <= i
    BY <1>5, <1>8, <1>13 DEF Key, Heads
  <2>2. h < i
    BY <1>2, <1>5, <1>9, <2>1
  <2>3. Cur(out, i) = out[h]
    BY <1>9, <1>10, <1>11, <2>1, CurIs
  <2> QED
    BY <1>5, <1>6, <1>8, <2>2, <2>3
<1>14. \A j \in 1..m \ P : i \in Heads(out) /\ j \in Heads(out) => i = j
  BY <1>2, <1>5, <1>8
<1> QED
  BY <1>2, <1>5, <1>8, <1>11, <1>12, <1>13, <1>14 DEF m, P

\* The lines of a text that are not of the entry.
Others(text) == {k \in DOMAIN text \ Goes(text) : ~Blank(text, k)}

\* What a text holds besides the entry is these.
LEMMA ForeignIs ==
  ASSUME NEW text, IsLines(text)
  PROVE  Foreign(text) = Only(text, Others(text))
<1> DEFINE stays(k) == IF Solid(text, k) THEN ~Mine(text, k)
                       ELSE text[k] # "blank" /\ ~(Mine(text, k) /\ Inner(text, k))
<1>1. ASSUME NEW k \in DOMAIN text PROVE stays(k) <=> k \notin Goes(text) /\ ~Blank(text, k)
  <2>1. k \in Goes(text) <=> Mine(text, k) /\ (Solid(text, k) \/ Inner(text, k))
    BY GoesIs
  <2>2. Blank(text, k) <=> ~Solid(text, k) /\ text[k] = "blank"
    BY DEF Blank, Solid
  <2> QED
    BY <2>1, <2>2
<1>2. {k \in DOMAIN text : stays(k)} = Others(text)
  BY <1>1 DEF Others
<1> QED
  BY <1>2 DEF Foreign

\* The lines of an edited text that are not of the entry are old.
LEMMA OthersAre ==
  ASSUME NEW text, NEW out, NEW e, NEW p, NEW q, NEW F, IsLines(text), IsLines(out), Editable(text),
         Woven(out, text, e, p, q, F)
  PROVE  /\ Others(out) \subseteq Old(out, p, q)
         /\ \A i \in Old(out, p, q) : i \in Others(out) <=> e[i] \in Others(text)
         /\ F \in 1..(Len(text) + 1)
<1> DEFINE m == Len(out)
           P == Old(out, p, q)
<1>1. m \in Nat /\ DOMAIN out = 1..m
  BY LinesAre
<1>2. /\ p \in Nat /\ q \in Nat /\ P \subseteq 1..m
      /\ \A j \in P : j <= p \/ j > p + q
      /\ \A j \in 1..m \ P : j \in (p + 1)..(p + q) /\ out[j] \in {"blank", "main", "key"}
      /\ F \in 1..(Len(text) + 1)
      /\ F # Len(text) + 1 => F \in Goes(text)
  BY OldOrNew
<1>3. ASSUME NEW i \in P
      PROVE  /\ i \in DOMAIN out /\ e[i] \in DOMAIN text \ Goes(text) /\ out[i] = text[e[i]]
             /\ Solid(out, i) <=> Solid(text, e[i])
             /\ i \in Heads(out) <=> e[i] \in Heads(text)
             /\ Blank(out, i) <=> Blank(text, e[i])
             /\ Solid(text, e[i]) => ~Mine(text, e[i])
             /\ e[i] \in Heads(text) => text[e[i]] \notin {"main", "sub"}
  BY WovenLines
<1>4. ASSUME NEW i \in P, Solid(out, i) PROVE ~Mine(out, i)
  <2>1. ~Mine(text, e[i])
    BY <1>3, <1>4
  <2> QED
    BY <2>1, WovenAbove
<1>5. ASSUME NEW i \in 1..m \ P PROVE /\ Solid(out, i) => Mine(out, i)
                                      /\ ~Solid(out, i) => out[i] = "blank"
  BY NewLines
<1> HIDE DEF m, P
<1>6. ASSUME NEW i \in 1..m \ P PROVE i \notin Others(out)
  <2>1. CASE Solid(out, i)
    <3>1. i \in Goes(out)
      BY <1>1, <1>5, <2>1, GoesIs
    <3> QED
      BY <3>1 DEF Others
  <2>2. CASE ~Solid(out, i)
    <3>1. Blank(out, i)
      BY <1>5, <2>2 DEF Blank, Solid
    <3> QED
      BY <3>1 DEF Others
  <2> QED
    BY <2>1, <2>2
<1>7. ASSUME NEW i \in P PROVE i \notin Goes(out)
  <2> SUFFICES ASSUME Mine(out, i), ~Solid(out, i), Inner(out, i) PROVE FALSE
    BY <1>3, <1>4, GoesIs
  <2>1. PICK g \in Heads(out) : g <= i /\ out[g] \in {"main", "sub"}
    BY DEF Mine
  <2>2. PICK j \in DOMAIN out : j > i /\ Solid(out, j) /\ Mine(out, j)
    BY DEF Inner
  <2>3. g \in 1..m /\ j \in 1..m /\ i \in 1..m
    BY <1>1, <1>2 DEF Heads
  <2>4. g \notin P /\ j \notin P
    BY <1>3, <1>4, <2>1, <2>2
  <2>5. g \in (p + 1)..(p + q) /\ j \in (p + 1)..(p + q)
    BY <1>2, <2>3, <2>4
  <2> QED
    BY <1>1, <1>2, <2>1, <2>2, <2>3, <2>5
<1>8. \A i \in P : i \in Others(out) <=> e[i] \in Others(text)
  BY <1>3, <1>7 DEF Others
<1>9. Others(out) \subseteq P
  BY <1>1, <1>6 DEF Others
<1> QED
  BY <1>2, <1>8, <1>9 DEF P

\* An edited text holds what the text did besides the entry.
LEMMA WovenForeign ==
  ASSUME NEW text, NEW out, NEW e, NEW p, NEW q, NEW F, IsLines(text), IsLines(out), Editable(text),
         Woven(out, text, e, p, q, F)
  PROVE  Foreign(out) = Foreign(text) /\ Woven(out, text, e, p, q, F)
<1> DEFINE A == Only(out, Others(out))
           B == Only(text, Others(text))
           P == Old(out, p, q)
           U == Others(out)
           T == Others(text)
<1>1. /\ U \subseteq P
      /\ \A i \in P : i \in U <=> e[i] \in T
      /\ F \in 1..(Len(text) + 1)
  BY OthersAre
<1>2. U \in SUBSET DOMAIN out /\ T \in SUBSET DOMAIN text /\ T \in SUBSET Nat
  BY LinesAre DEF Others
<1>3. IsLines(A) /\ \E f : Listing(f, A, out, U)
  BY <1>2, OnlyListed
<1>4. IsLines(B) /\ \E f : Listing(f, B, text, T)
  BY <1>2, OnlyListed
<1>5. /\ \A i, j \in P : i < j => e[i] < e[j]
      /\ \A i \in P : out[i] = text[e[i]]
      /\ \A k \in T : \E i \in P : e[i] = k
  BY DEF Woven, Others
<1> HIDE DEF A, B, P, U, T
<1>6. PICK f : Listing(f, A, out, U)
  BY <1>3
<1>7. PICK g : Listing(g, B, text, T)
  BY <1>4
<1> DEFINE c == [i \in 1..Len(A) |-> e[f[i]]]
<1>8. /\ \A i \in 1..Len(A) : f[i] \in U /\ f[i] \in P
      /\ \A i, j \in 1..Len(A) : i < j => f[i] < f[j]
      /\ \A k \in U : \E i \in 1..Len(A) : f[i] = k
      /\ \A i \in 1..Len(A) : A[i] = out[f[i]]
  BY <1>1, <1>6 DEF Listing
<1>9. Listing(c, A, text, T)
  <2>1. c \in [1..Len(A) -> T]
    BY <1>1, <1>8
  <2>2. ASSUME NEW i \in 1..Len(A), NEW j \in 1..Len(A), i < j PROVE c[i] < c[j]
    BY <1>5, <1>8, <2>2
  <2>3. ASSUME NEW k \in T PROVE \E i \in 1..Len(A) : c[i] = k
    <3>1. PICK j \in P : e[j] = k
      BY <1>5
    <3>2. PICK i \in 1..Len(A) : f[i] = j
      BY <1>1, <1>8, <3>1
    <3> QED
      BY <3>1, <3>2
  <2>4. \A i \in 1..Len(A) : A[i] = text[c[i]]
    BY <1>5, <1>8
  <2> HIDE DEF c
  <2> QED
    BY <2>1, <2>2, <2>3, <2>4 DEF Listing
<1> HIDE DEF c
<1>10. A = B
  BY <1>2, <1>3, <1>4, <1>7, <1>9, SameListing
<1> QED
  BY <1>10, ForeignIs DEF A, B

\* An edited text can be edited again.
LEMMA WovenEditable ==
  ASSUME NEW text, NEW out, NEW e, NEW p, NEW q, NEW F, IsLines(text), IsLines(out), Editable(text),
         Woven(out, text, e, p, q, F)
  PROVE  Editable(out) /\ Woven(out, text, e, p, q, F)
<1> DEFINE n == Len(text)
           m == Len(out)
           P == Old(out, p, q)
           at == inString(out)
<1>1. n \in Nat /\ m \in Nat /\ DOMAIN text = 1..n /\ DOMAIN out = 1..m
  BY LinesAre
<1>2. /\ p \in Nat /\ q \in Nat /\ P \subseteq 1..m
      /\ \A j \in P : j <= p \/ j > p + q
      /\ \A j \in 1..m \ P : j \in (p + 1)..(p + q) /\ out[j] \in {"blank", "main", "key"}
      /\ F \in 1..(Len(text) + 1)
      /\ F # Len(text) + 1 => F \in Goes(text)
  BY OldOrNew
<1>3. /\ \A j \in P : at[j - 1] = inString(text)[e[j] - 1] /\ at[j] = inString(text)[e[j]]
      /\ \A j \in 1..m \ P : at[j - 1] = FALSE /\ at[j] = FALSE
      /\ F \in 1..(Len(text) + 1)
  BY WovenStrings, Zenon
<1>4. at \in [0..m -> BOOLEAN] /\ at[0] = FALSE
  BY StringRuns
<1>5. \A j \in 1..m : at[j] = IF at[j - 1] THEN out[j] # "close" ELSE out[j] = "open"
  BY StringRuns
<1>6. ASSUME NEW i \in P
      PROVE  /\ i \in DOMAIN out /\ e[i] \in DOMAIN text \ Goes(text) /\ out[i] = text[e[i]]
             /\ i \in Heads(out) <=> e[i] \in Heads(text)
             /\ Key(out, i) <=> Key(text, e[i])
             /\ Solid(text, e[i]) => ~Mine(text, e[i])
             /\ e[i] \in Heads(text) => text[e[i]] \notin {"main", "sub"}
  BY WovenLines
<1>7. ASSUME NEW i \in 1..m \ P
      PROVE  /\ out[i] # "open"
             /\ Key(out, i) => out[i] = "key" /\ Cur(out, i) = "main"
             /\ \A j \in 1..m \ P : i \in Heads(out) /\ j \in Heads(out) => i = j
  BY NewLines
<1>8. \A i, j \in P : i < j => e[i] < e[j]
  BY DEF Woven
<1>9. \A k \in 1..n : (\A i \in P : e[i] # k) => k \in Goes(text) \/ Blank(text, k)
  BY Unkept
<1> HIDE DEF n, m, P, at
<1>10. at[m] = FALSE
  <2>1. CASE m = 0
    BY <1>4, <2>1
  <2>2. CASE m # 0 /\ m \notin P
    <3>1. m \in 1..m
      BY <1>1, <2>2
    <3> QED
      BY <1>3, <2>2, <3>1
  <2>3. CASE m \in P
    <3>1. e[m] \in 1..n /\ e[m] \notin Goes(text) /\ at[m] = inString(text)[e[m]]
      BY <1>1, <1>3, <1>6, <2>3
    <3>2. ASSUME NEW i \in P PROVE e[i] # e[m] + 1
      <4>1. i \in 1..m /\ e[i] \in 1..n
        BY <1>1, <1>2, <1>6
      <4>2. i < m => e[i] < e[m]
        BY <1>8, <2>3
      <4> QED
        BY <1>1, <3>1, <4>1, <4>2
    <3>3. e[m] \in 0..n /\ e[m] > 0 /\ (e[m] # n => e[m] + 1 \in 1..n)
      BY <1>1, <3>1
    <3>4. e[m] = n \/ e[m] + 1 \in Goes(text) \/ Blank(text, e[m] + 1)
      BY <1>9, <3>2, <3>3
    <3>5. inString(text)[e[m]] = FALSE
      BY <3>1, <3>3, <3>4, EndsMeet DEF n
    <3> QED
      BY <3>1, <3>5
  <2> QED
    BY <2>1, <2>2, <2>3
<1>11. ASSUME NEW i \in 1..m, Key(out, i)
       PROVE  out[i] # "close" /\ Cur(out, i) # "servers" /\ (out[i] = "dotted" => Cur(out, i) # "root")
  <2>1. CASE i \notin P
    BY <1>7, <1>11, <2>1
  <2>2. CASE i \in P
    <3>1. Key(text, e[i]) /\ e[i] \in DOMAIN text /\ e[i] \notin Heads(text) /\ i \notin Heads(out) /\ i \in DOMAIN out
      BY <1>1, <1>6, <1>11, <2>2 DEF Key, Heads
    <3>2. ~Mine(text, e[i])
      BY <1>6, <2>2, <3>1 DEF Key
    <3>3. Cur(out, i) = Cur(text, e[i])
      <4>1. /\ \A h \in Heads(text) : Above(text, e[i], h) => \E g \in Heads(out) : Above(out, i, g) /\ out[g] = text[h]
            /\ (\A h \in Heads(text) : ~(h <= e[i])) => \A g \in Heads(out) : ~(g <= i)
            /\ ~Mine(out, i)
            /\ F \in 1..(Len(text) + 1)
        BY <2>2, <3>2, WovenAbove DEF P
      <4>2. CASE \A h \in Heads(text) : ~(h <= e[i])
        BY <3>1, <4>1, <4>2, CurIs
      <4>3. CASE \E h \in Heads(text) : Above(text, e[i], h)
        <5>1. PICK h \in Heads(text) : Above(text, e[i], h)
          BY <4>3
        <5>2. PICK g \in Heads(out) : Above(out, i, g) /\ out[g] = text[h]
          BY <4>1, <5>1
        <5>3. Cur(text, e[i]) = text[h]
          BY <3>1, <5>1, CurIs
        <5>4. Cur(out, i) = out[g]
          BY <3>1, <5>2, CurIs
        <5> QED
          BY <5>2, <5>3, <5>4
      <4> QED
        BY <3>1, <4>2, <4>3, AboveIs
    <3>4. text[e[i]] # "close" /\ Cur(text, e[i]) # "servers" /\ (text[e[i]] = "dotted" => Cur(text, e[i]) # "root")
      BY <3>1, EditableIs
    <3> QED
      BY <1>6, <2>2, <3>3, <3>4
  <2> QED
    BY <2>1, <2>2
<1>12. ASSUME NEW i \in 1..m, out[i] = "open", ~at[i - 1] PROVE \E j \in 1..m : j > i /\ out[j] = "close"
  <2> DEFINE T == {j \in Nat : i < j /\ j <= m /\ at[j] = FALSE}
  <2>1. at[i] = TRUE
    BY <1>5, <1>12
  <2>2. m \in T
    BY <1>1, <1>10, <2>1
  <2>3. PICK j \in T : \A l \in T : j <= l
    BY <2>2, LeastNumber
  <2>4. j \in 1..m /\ j > i /\ at[j] = FALSE /\ j - 1 \in 0..m /\ j - 1 \in Nat /\ j - 1 <= m /\ (j - 1 = i \/ i < j - 1) /\ ~(j <= j - 1)
    BY <1>1, <2>3
  <2>5. at[j - 1] = TRUE
    <3>1. at[j - 1] \in BOOLEAN
      BY <1>4, <2>4
    <3>2. CASE j - 1 = i
      BY <2>1, <3>2
    <3>3. CASE i < j - 1
      <4>1. j - 1 \notin T
        BY <2>3, <2>4
      <4> QED
        BY <2>4, <3>1, <3>3, <4>1
    <3> QED
      BY <2>4, <3>2, <3>3
  <2>6. out[j] = "close"
    BY <1>5, <2>4, <2>5
  <2> QED
    BY <2>4, <2>6
<1>13. Cardinality({k \in Heads(out) : out[k] = "main"}) <= 1
  <2> DEFINE M == {k \in Heads(out) : out[k] = "main"}
  <2>1. \A k \in M : k \in 1..m \ P
    BY <1>1, <1>6 DEF Heads
  <2>2. \A k, l \in M : k = l
    BY <1>7, <2>1
  <2>3. CASE M = {}
    BY <2>3, FS_EmptySet
  <2>4. CASE M # {}
    <3>1. PICK k \in M : TRUE
      BY <2>4
    <3>2. M = {k}
      BY <2>2, <3>1
    <3> QED
      BY <3>2, FS_Singleton
  <2> QED
    BY <2>3, <2>4
<1> QED
  BY <1>1, <1>11, <1>12, <1>13, EditableIs DEF at


\* One text after another.
LEMMA JoinIs ==
  ASSUME NEW V, NEW s \in Seq(V), NEW t \in Seq(V)
  PROVE  /\ s \o t \in Seq(V) /\ Len(s \o t) = Len(s) + Len(t)
         /\ \A i \in 1..Len(s) : (s \o t)[i] = s[i]
         /\ \A i \in (Len(s) + 1)..(Len(s) + Len(t)) : (s \o t)[i] = t[i - Len(s)]
<1>1. s \o t \in Seq(V) /\ Len(s \o t) = Len(s) + Len(t)
  OBVIOUS
<1>2. \A i \in 1..Len(s) : (s \o t)[i] = s[i]
  OBVIOUS
<1>3. ASSUME NEW i \in (Len(s) + 1)..(Len(s) + Len(t)) PROVE (s \o t)[i] = t[i - Len(s)]
  <2>1. i \in 1..(Len(s) + Len(t)) /\ ~(i <= Len(s))
    BY <1>3
  <2> QED
    BY <2>1
<1> QED
  BY <1>1, <1>2, <1>3

\* A removal.
LEMMA RemoveIs ==
  ASSUME NEW text, IsLines(text), Editable(text)
  PROVE  /\ IsLines(removeTOML(text))
         /\ Foreign(removeTOML(text)) = Foreign(text)
         /\ Editable(removeTOML(text))
<1> DEFINE kept == keep(text)
           solid == {k \in DOMAIN kept : kept[k] # "blank"}
           last == IF solid = {} THEN 0 ELSE MaxOf(solid)
           out == removeTOML(text)
           n == Len(text)
           F == n + 1
<1>1. n \in Nat /\ DOMAIN text = 1..n
  BY LinesAre
<1>2. IsLines(kept)
  BY KeepListed
<1>3. PICK S \in SUBSET (DOMAIN text \ Goes(text)) :
        /\ \E e : Listing(e, kept, text, S)
        /\ \A k \in DOMAIN text : k \in S \/ k \in Goes(text) \/ (text[k] = "blank" /\ cut(text, k))
  BY KeepListed
<1>4. PICK e : Listing(e, kept, text, S)
  BY <1>3
<1>5. out \in {text, kept, SubSeq(kept, 1, last)}
  BY DEF removeTOML
<1>6. Len(kept) \in Nat /\ DOMAIN kept = 1..Len(kept)
  BY <1>2, LinesAre
<1>7. last \in 0..Len(kept) /\ \A k \in 1..Len(kept) : k > last => kept[k] = "blank"
  <2>1. CASE solid = {}
    BY <1>6, <2>1
  <2>2. CASE solid # {}
    <3>1. solid \in SUBSET (0..Len(kept))
      BY <1>6
    <3>2. MaxOf(solid) \in solid /\ \A y \in solid : y <= MaxOf(solid)
      BY <1>6, <2>2, <3>1, MaxIs
    <3>3. MaxOf(solid) \in 1..Len(kept) /\ last = MaxOf(solid)
      BY <1>6, <2>2, <3>2
    <3> HIDE DEF last
    <3>4. ASSUME NEW k \in 1..Len(kept), k > last PROVE kept[k] = "blank"
      <4>1. ~(k <= MaxOf(solid))
        BY <1>6, <3>3, <3>4
      <4>2. k \notin solid
        BY <3>2, <4>1
      <4> QED
        BY <1>6, <4>2
    <3> QED
      BY <1>6, <3>3, <3>4
  <2> QED
    BY <2>1, <2>2
<1> HIDE DEF kept, solid, last, n
<1>8. /\ \A i \in 1..Len(kept) : e[i] \in DOMAIN text \ Goes(text) /\ kept[i] = text[e[i]]
      /\ \A i, j \in 1..Len(kept) : i < j => e[i] < e[j]
      /\ \A k \in S : \E i \in 1..Len(kept) : e[i] = k
  BY <1>3, <1>4 DEF Listing
<1>9. ASSUME NEW k \in DOMAIN text, \A i \in 1..last : e[i] # k PROVE k \in Goes(text) \/ Blank(text, k)
  <2> SUFFICES ASSUME k \notin Goes(text) PROVE Blank(text, k)
    OBVIOUS
  <2>1. CASE k \notin S
    BY <1>3, <2>1, CutBlank
  <2>2. CASE k \in S
    <3>1. PICK i \in 1..Len(kept) : e[i] = k
      BY <1>8, <2>2
    <3>2. i > last /\ kept[i] = "blank" /\ text[k] = "blank"
      BY <1>6, <1>7, <1>8, <1>9, <3>1
    <3>3. ASSUME inString(text)[k - 1] PROVE FALSE
      <4>1. PICK j \in DOMAIN text \ Goes(text) : j > k /\ text[j] # "blank"
        BY <3>2, <3>3, StringStays
      <4>2. j \in S
        BY <1>3, <4>1
      <4>3. PICK l \in 1..Len(kept) : e[l] = j
        BY <1>8, <4>2
      <4>4. l <= last
        BY <1>6, <1>7, <1>8, <4>1, <4>3
      <4>5. l < i => e[l] < e[i]
        BY <1>8, <3>1, <4>3
      <4> QED
        BY <1>1, <1>6, <1>7, <3>1, <3>2, <4>1, <4>3, <4>4, <4>5
    <3> QED
      BY <3>2, <3>3 DEF Blank
  <2> QED
    BY <2>1, <2>2
<1>10. ASSUME NEW r, IsLines(r), Len(r) \in last..Len(kept), \A i \in 1..Len(r) : r[i] = kept[i]
       PROVE  Woven(r, text, e, Len(r), 0, F)
  <2>1. Len(r) \in Nat /\ Old(r, Len(r), 0) = 1..Len(r) /\ 1..Len(r) \subseteq 1..Len(kept) /\ 1..last \subseteq 1..Len(r)
    BY <1>6, <1>7, <1>10 DEF Old
  <2>2. \A i \in 1..Len(r) : e[i] \in DOMAIN text \ Goes(text) /\ r[i] = text[e[i]]
    BY <1>8, <1>10, <2>1
  <2>3. \A i, j \in 1..Len(r) : i < j => e[i] < e[j]
    BY <1>8, <2>1
  <2>4. \A k \in DOMAIN text : k \in Goes(text) \/ Blank(text, k) \/ \E i \in 1..Len(r) : e[i] = k
    BY <1>9, <2>1
  <2>5. \A i \in 1..Len(r) : i <= Len(r) <=> e[i] < F
    BY <1>1, <2>1, <2>2
  <2>6. Len(r) + 0 <= Len(r)
    BY <2>1
  <2> QED
    BY <2>1, <2>2, <2>3, <2>4, <2>5, <2>6 DEF Woven, n
<1>11. ASSUME NEW r, IsLines(r), Len(r) \in last..Len(kept), \A i \in 1..Len(r) : r[i] = kept[i]
       PROVE  Foreign(r) = Foreign(text) /\ Editable(r)
  <2>1. Woven(r, text, e, Len(r), 0, F)
    BY <1>10, <1>11
  <2> HIDE DEF F
  <2>2. Foreign(r) = Foreign(text) /\ Woven(r, text, e, Len(r), 0, F)
    BY <1>11, <2>1, WovenForeign
  <2>3. Editable(r) /\ Woven(r, text, e, Len(r), 0, F)
    BY <1>11, <2>1, WovenEditable
  <2> QED
    BY <2>2, <2>3
<1>12. CASE out = text
  BY <1>12
<1>13. CASE out = kept
  <2>1. Len(kept) \in last..Len(kept)
    BY <1>6, <1>7
  <2> QED
    BY <1>2, <1>11, <1>13, <2>1
<1>14. CASE out = SubSeq(kept, 1, last)
  <2>1. PICK T : kept \in Seq(T)
    BY <1>2 DEF IsLines
  <2>2. SubSeq(kept, 1, last) \in Seq(T) /\ Len(SubSeq(kept, 1, last)) = last
    BY <1>6, <1>7, <2>1
  <2>3. \A i \in 1..last : SubSeq(kept, 1, last)[i] = kept[i]
    BY <1>6, <1>7, <2>1
  <2>4. IsLines(SubSeq(kept, 1, last)) /\ last \in last..Len(kept)
    <3>1. last \in last..Len(kept)
      BY <1>6, <1>7
    <3> QED
      BY <2>2, <3>1 DEF IsLines
  <2>5. Foreign(SubSeq(kept, 1, last)) = Foreign(text) /\ Editable(SubSeq(kept, 1, last))
    BY <1>11, <2>2, <2>3, <2>4
  <2> QED
    BY <1>14, <2>4, <2>5
<1> QED
  BY <1>5, <1>12, <1>13, <1>14

\* Where the first table of the entry starts.
LEMMA FirstIs ==
  ASSUME NEW text, IsLines(text), tomlEntrySpans(text) # {}
  PROVE  MinOf({s.start : s \in tomlEntrySpans(text)}) \in {h \in Heads(text) : text[h] \in {"main", "sub"}}
<1> DEFINE T == {s.start : s \in tomlEntrySpans(text)}
<1>1. ASSUME NEW s \in tomlEntrySpans(text) PROVE s.start \in Heads(text) /\ text[s.start] \in {"main", "sub"}
  BY SpansAre DEF IsTable
<1>2. T # {} /\ T \in SUBSET Nat
  BY <1>1, LinesAre DEF Heads
<1>3. MinOf(T) \in T
  BY <1>2, MinIs
<1> QED
  BY <1>1, <1>3

\* An edit of a text without the entry.
LEMMA AppendIs ==
  ASSUME NEW text, IsLines(text), Editable(text), tomlEntrySpans(text) = {}
  PROVE  /\ IsLines(editTOML(text))
         /\ Foreign(editTOML(text)) = Foreign(text)
         /\ Editable(editTOML(text))
<1> DEFINE n == Len(text)
           gap == IF text # <<>> /\ Last(text) # "blank" THEN <<"blank">> ELSE <<>>
           g == Len(gap)
           out == (text \o gap) \o Block
           e == [i \in 1..n |-> i]
           F == n + 1
<1>1. n \in Nat /\ DOMAIN text = 1..n
  BY LinesAre
<1>2. editTOML(text) = out
  BY DEF editTOML
<1>3. gap \in Seq({"blank"}) /\ g \in 0..1 /\ \A i \in 1..g : gap[i] = "blank"
  <2>1. gap \in {<<>>, <<"blank">>}
    OBVIOUS
  <2> HIDE DEF gap
  <2>2. gap = <<>> => gap \in Seq({"blank"}) /\ Len(gap) = 0
    OBVIOUS
  <2>3. gap = <<"blank">> => gap \in Seq({"blank"}) /\ Len(gap) = 1 /\ gap[1] = "blank"
    OBVIOUS
  <2>4. \A i \in 1..1 : i = 1
    OBVIOUS
  <2> QED
    BY <2>1, <2>2, <2>3, <2>4
<1>4. Block \in Seq({"main", "key"}) /\ Len(Block) = 3 /\ Block[1] = "main" /\ Block[2] = "key" /\ Block[3] = "key"
  BY DEF Block
<1>5. PICK T : text \in Seq(T)
  BY DEF IsLines
<1> HIDE DEF n, gap, e
<1> DEFINE V == T \cup {"blank", "main", "key"}
<1>6. text \in Seq(V) /\ gap \in Seq(V) /\ Block \in Seq(V)
  BY <1>3, <1>4, <1>5
<1> HIDE DEF V
<1>7. /\ text \o gap \in Seq(V) /\ Len(text \o gap) = n + g
      /\ \A i \in 1..n : (text \o gap)[i] = text[i]
      /\ \A i \in (n + 1)..(n + g) : (text \o gap)[i] = "blank"
  <2>1. text \o gap \in Seq(V) /\ Len(text \o gap) = n + g
    BY <1>6 DEF n
  <2>2. \A i \in 1..n : (text \o gap)[i] = text[i]
    BY <1>1, <1>3, <1>6 DEF n
  <2>3. ASSUME NEW i \in (n + 1)..(n + g) PROVE (text \o gap)[i] = "blank"
    <3>1. i - n \in 1..g /\ (text \o gap)[i] = gap[i - n]
      BY <1>1, <1>3, <1>6, <2>3 DEF n
    <3> QED
      BY <1>3, <3>1
  <2> QED
    BY <2>1, <2>2, <2>3
<1> DEFINE r == text \o gap
<1> HIDE DEF r
<1>8. r \in Seq(V) /\ Len(r) = n + g
  BY <1>7 DEF r
<1>9. /\ r \o Block \in Seq(V) /\ Len(r \o Block) = n + g + 3
      /\ \A i \in 1..(n + g) : (r \o Block)[i] = r[i]
      /\ \A i \in (n + g + 1)..(n + g + 3) : (r \o Block)[i] = Block[i - (n + g)]
  <2>1. /\ r \o Block \in Seq(V) /\ Len(r \o Block) = Len(r) + Len(Block)
        /\ \A i \in 1..Len(r) : (r \o Block)[i] = r[i]
        /\ \A i \in (Len(r) + 1)..(Len(r) + Len(Block)) : (r \o Block)[i] = Block[i - Len(r)]
    <3>1. r \in Seq(V) /\ Block \in Seq(V)
      BY <1>6, <1>8
    <3> QED
      BY <3>1, JoinIs
  <2> QED
    BY <1>4, <1>8, <2>1
<1>10. out = r \o Block
  BY DEF r
<1> HIDE DEF out
<1>11. /\ out \in Seq(V) /\ Len(out) = n + (g + 3)
       /\ \A i \in 1..n : out[i] = text[i]
       /\ \A i \in (n + 1)..(n + g) : out[i] = "blank"
       /\ out[n + g + 1] = "main" /\ out[n + g + 2] = "key" /\ out[n + g + 3] = "key"
  <2>1. \A i \in 1..n : out[i] = text[i]
    BY <1>1, <1>3, <1>7, <1>9, <1>10 DEF r
  <2>2. \A i \in (n + 1)..(n + g) : out[i] = "blank"
    BY <1>1, <1>3, <1>7, <1>9, <1>10 DEF r
  <2>3. out[n + g + 1] = "main" /\ out[n + g + 2] = "key" /\ out[n + g + 3] = "key"
    <3>1. \A j \in 1..3 : n + g + j \in (n + g + 1)..(n + g + 3) /\ (n + g + j) - (n + g) = j
      BY <1>1, <1>3
    <3>2. \A j \in 1..3 : out[n + g + j] = Block[j]
      BY <1>9, <1>10, <3>1
    <3> QED
      BY <1>4, <3>2
  <2>4. n + g + 3 = n + (g + 3)
    BY <1>1, <1>3
  <2> QED
    BY <1>9, <1>10, <2>1, <2>2, <2>3, <2>4
<1>12. IsLines(out)
  BY <1>11 DEF IsLines
<1>13. Goes(text) = {}
  BY DEF Goes
<1>14. Old(out, n, g + 3) = 1..n
  BY <1>1, <1>3, <1>11 DEF Old
<1>15. \A i \in 1..n : e[i] = i
  BY DEF e
<1>16. Woven(out, text, e, n, g + 3, F)
  <2>1. n \in Nat /\ g + 3 \in Nat /\ n + (g + 3) <= Len(out)
    BY <1>1, <1>3, <1>11
  <2>2. \A i \in 1..n : e[i] \in DOMAIN text \ Goes(text) /\ out[i] = text[e[i]]
    BY <1>1, <1>11, <1>13, <1>15
  <2>3. \A i, j \in 1..n : i < j => e[i] < e[j]
    BY <1>15
  <2>4. \A k \in DOMAIN text : k \in Goes(text) \/ Blank(text, k) \/ \E i \in 1..n : e[i] = k
    BY <1>1, <1>15
  <2>5. \A i \in 1..n : i <= n <=> e[i] < F
    BY <1>1, <1>15
  <2> DEFINE h == n + g + 1
  <2>6. h \in (n + 1)..(n + (g + 3)) /\ out[h] = "main"
    BY <1>1, <1>3, <1>11
  <2>7. \A i \in (n + 1)..(h - 1) : out[i] = "blank"
    BY <1>1, <1>3, <1>11
  <2>8. \A i \in (h + 1)..(n + (g + 3)) : out[i] = "key"
    <3>1. \A i \in (h + 1)..(n + (g + 3)) : i = n + g + 2 \/ i = n + g + 3
      BY <1>1, <1>3
    <3> QED
      BY <1>11, <3>1
  <2> HIDE DEF h
  <2> QED
    BY <1>14, <2>1, <2>2, <2>3, <2>4, <2>5, <2>6, <2>7, <2>8 DEF Woven, n
<1> HIDE DEF F, g
<1>17. Foreign(out) = Foreign(text) /\ Woven(out, text, e, n, g + 3, F)
  BY <1>12, <1>16, WovenForeign
<1>18. Editable(out) /\ Woven(out, text, e, n, g + 3, F)
  BY <1>12, <1>16, WovenEditable
<1> QED
  BY <1>2, <1>12, <1>17, <1>18

\* An edit of a text with the entry.
LEMMA ReplaceIs ==
  ASSUME NEW text, IsLines(text), Editable(text), tomlEntrySpans(text) # {}
  PROVE  /\ IsLines(editTOML(text))
         /\ Foreign(editTOML(text)) = Foreign(text)
         /\ Editable(editTOML(text))
<1> DEFINE n == Len(text)
           F == MinOf({s.start : s \in tomlEntrySpans(text)})
           stays == DOMAIN text \ Goes(text)
           low == {k \in stays : k < F}
           high == {k \in stays : k > F}
           a == Only(text, low)
           b == Only(text, high)
           p == Len(a)
           l == Len(b)
           out == (a \o Block) \o b
<1>1. n \in Nat /\ DOMAIN text = 1..n
  BY LinesAre
<1>2. editTOML(text) = out
  BY DEF editTOML
<1>3. F \in Heads(text) /\ text[F] \in {"main", "sub"}
  BY FirstIs
<1>4. F \in 1..n /\ F \in Goes(text)
  <2>1. F \in DOMAIN text
    BY <1>3 DEF Heads
  <2>2. Solid(text, F) /\ Mine(text, F)
    BY <1>3, <2>1, KindIs, MineHead
  <2>3. F \in Goes(text)
    BY <2>1, <2>2, GoesIs
  <2> QED
    BY <1>1, <2>1, <2>3
<1> HIDE DEF F
<1>5. IsLines(a) /\ \E e : Listing(e, a, text, low)
  <2>1. low \in SUBSET DOMAIN text
    OBVIOUS
  <2> HIDE DEF low
  <2> QED
    BY <2>1, OnlyListed
<1>6. IsLines(b) /\ \E e : Listing(e, b, text, high)
  <2>1. high \in SUBSET DOMAIN text
    OBVIOUS
  <2> HIDE DEF high
  <2> QED
    BY <2>1, OnlyListed
<1>7. PICK c : Listing(c, a, text, low)
  BY <1>5
<1>8. PICK d : Listing(d, b, text, high)
  BY <1>6
<1>9. PICK T : a \in Seq(T)
  BY <1>5 DEF IsLines
<1>10. PICK U : b \in Seq(U)
  BY <1>6 DEF IsLines
<1>11. Block \in Seq({"main", "key"}) /\ Len(Block) = 3 /\ Block[1] = "main" /\ Block[2] = "key" /\ Block[3] = "key"
  BY DEF Block
<1>12. p \in Nat /\ l \in Nat
  BY <1>5, <1>6, LinesAre
<1> DEFINE V == T \cup U \cup {"main", "key"}
<1> HIDE DEF n, a, b, low, high
<1>13. a \in Seq(V) /\ b \in Seq(V) /\ Block \in Seq(V)
  BY <1>9, <1>10, <1>11
<1> HIDE DEF V
<1> DEFINE r == a \o Block
<1>14. /\ r \in Seq(V) /\ Len(r) = p + 3
       /\ \A i \in 1..p : r[i] = a[i]
       /\ \A i \in (p + 1)..(p + 3) : r[i] = Block[i - p]
  <2>1. /\ a \o Block \in Seq(V) /\ Len(a \o Block) = Len(a) + Len(Block)
        /\ \A i \in 1..Len(a) : (a \o Block)[i] = a[i]
        /\ \A i \in (Len(a) + 1)..(Len(a) + Len(Block)) : (a \o Block)[i] = Block[i - Len(a)]
    BY <1>13, JoinIs
  <2> QED
    BY <1>11, <2>1
<1>15. r[p + 1] = "main" /\ r[p + 2] = "key" /\ r[p + 3] = "key"
  <2>1. \A j \in 1..3 : p + j \in (p + 1)..(p + 3) /\ (p + j) - p = j
    BY <1>12
  <2> HIDE DEF r, p
  <2>2. \A j \in 1..3 : r[p + j] = Block[j]
    BY <1>14, <2>1
  <2> QED
    BY <1>11, <2>2
<1> HIDE DEF r
<1>16. /\ r \o b \in Seq(V) /\ Len(r \o b) = p + 3 + l
       /\ \A i \in 1..(p + 3) : (r \o b)[i] = r[i]
       /\ \A i \in (p + 3 + 1)..(p + 3 + l) : (r \o b)[i] = b[i - (p + 3)]
  <2>1. /\ r \o b \in Seq(V) /\ Len(r \o b) = Len(r) + Len(b)
        /\ \A i \in 1..Len(r) : (r \o b)[i] = r[i]
        /\ \A i \in (Len(r) + 1)..(Len(r) + Len(b)) : (r \o b)[i] = b[i - Len(r)]
    BY <1>13, <1>14, JoinIs
  <2> QED
    BY <1>14, <2>1
<1>17. out = r \o b
  BY DEF r
<1> HIDE DEF out, p, l
<1>18. /\ out \in Seq(V) /\ Len(out) = p + 3 + l
       /\ \A i \in 1..p : out[i] = a[i]
       /\ \A i \in (p + 3 + 1)..(p + 3 + l) : out[i] = b[i - (p + 3)]
       /\ out[p + 1] = "main" /\ out[p + 2] = "key" /\ out[p + 3] = "key"
  <2>1. \A i \in 1..(p + 3) : out[i] = r[i]
    BY <1>16, <1>17
  <2>2. \A i \in 1..p : i \in 1..(p + 3)
    BY <1>12
  <2>3. p + 1 \in 1..(p + 3) /\ p + 2 \in 1..(p + 3) /\ p + 3 \in 1..(p + 3)
    BY <1>12
  <2> QED
    BY <1>14, <1>15, <1>16, <1>17, <2>1, <2>2, <2>3
<1>19. IsLines(out)
  BY <1>18 DEF IsLines
<1> DEFINE e == [i \in 1..Len(out) |-> IF i <= p THEN c[i] ELSE d[i - (p + 3)]]
           P == Old(out, p, 3)
<1>20. /\ \A i \in 1..p : c[i] \in low /\ a[i] = text[c[i]]
       /\ \A i, j \in 1..p : i < j => c[i] < c[j]
       /\ \A k \in low : \E i \in 1..p : c[i] = k
  BY <1>7 DEF Listing, p
<1>21. /\ \A i \in 1..l : d[i] \in high /\ b[i] = text[d[i]]
       /\ \A i, j \in 1..l : i < j => d[i] < d[j]
       /\ \A k \in high : \E i \in 1..l : d[i] = k
  BY <1>8 DEF Listing, l
<1>22. P = (1..p) \cup ((p + 3 + 1)..(p + 3 + l))
  BY <1>18 DEF Old
<1>23. ASSUME NEW i \in 1..p PROVE i \in P /\ e[i] = c[i] /\ out[i] = text[e[i]] /\ e[i] \in low
  <2>1. i \in 1..Len(out) /\ i <= p /\ i \in P
    BY <1>12, <1>18, <1>22
  <2> QED
    BY <1>18, <1>20, <2>1
<1>24. ASSUME NEW i \in 1..l
       PROVE  p + 3 + i \in P /\ e[p + 3 + i] = d[i] /\ out[p + 3 + i] = text[d[i]] /\ d[i] \in high
  <2>1. p + 3 + i \in 1..Len(out) /\ ~(p + 3 + i <= p) /\ p + 3 + i \in (p + 3 + 1)..(p + 3 + l) /\ (p + 3 + i) - (p + 3) = i
    BY <1>12, <1>18
  <2>2. p + 3 + i \in P
    BY <1>22, <2>1
  <2>3. e[p + 3 + i] = d[i]
    BY <2>1
  <2>4. out[p + 3 + i] = b[i]
    BY <1>18, <2>1
  <2> QED
    BY <1>21, <2>2, <2>3, <2>4
<1>25. ASSUME NEW i \in P PROVE i \in 1..p \/ \E j \in 1..l : i = p + 3 + j
  <2>1. CASE i \in 1..p
    BY <2>1
  <2>2. CASE i \in (p + 3 + 1)..(p + 3 + l)
    <3>1. i - (p + 3) \in 1..l /\ i = p + 3 + (i - (p + 3))
      BY <1>12, <2>2
    <3> QED
      BY <3>1
  <2> QED
    BY <1>22, <2>1, <2>2
<1> HIDE DEF e, P
<1>26. low \subseteq stays /\ high \subseteq stays /\ stays \subseteq 1..n /\ F \notin stays
  BY <1>1, <1>4 DEF low, high
<1> HIDE DEF stays
<1>27. ASSUME NEW i \in P PROVE e[i] \in stays /\ out[i] = text[e[i]] /\ (i <= p <=> e[i] < F)
  <2>1. CASE i \in 1..p
    <3>1. i <= p /\ e[i] \in low
      BY <1>12, <1>23, <2>1
    <3> QED
      BY <1>23, <1>26, <2>1, <3>1 DEF low
  <2>2. CASE \E j \in 1..l : i = p + 3 + j
    <3>1. PICK j \in 1..l : i = p + 3 + j
      BY <2>2
    <3>2. ~(i <= p)
      BY <1>12, <3>1
    <3>3. e[i] \in high /\ out[i] = text[e[i]]
      BY <1>24, <3>1
    <3>4. e[i] > F /\ e[i] \in 1..n
      BY <1>26, <3>3 DEF high
    <3>5. ~(e[i] < F)
      BY <1>1, <1>4, <3>4
    <3> QED
      BY <1>26, <3>2, <3>3, <3>5
  <2> QED
    BY <1>25, <2>1, <2>2
<1>28. ASSUME NEW i \in P, NEW j \in P, i < j PROVE e[i] < e[j]
  <2>1. CASE i \in 1..p /\ j \in 1..p
    BY <1>20, <1>23, <1>28, <2>1
  <2>2. CASE \E x \in 1..l, y \in 1..l : i = p + 3 + x /\ j = p + 3 + y
    <3>1. PICK x \in 1..l, y \in 1..l : i = p + 3 + x /\ j = p + 3 + y
      BY <2>2
    <3>2. x < y
      BY <1>12, <1>28, <3>1
    <3> QED
      BY <1>21, <1>24, <3>1, <3>2
  <2>3. CASE i <= p /\ ~(j <= p)
    <3>1. e[i] < F /\ ~(e[j] < F) /\ e[i] \in 1..n /\ e[j] \in 1..n
      BY <1>26, <1>27, <2>3
    <3> QED
      BY <1>1, <1>4, <3>1
  <2>4. /\ i \in 1..p \/ \E x \in 1..l : i = p + 3 + x
        /\ j \in 1..p \/ \E x \in 1..l : j = p + 3 + x
    BY <1>25
  <2>5. i \in Nat /\ j \in Nat
    BY <1>12, <2>4
  <2>6. CASE i \in 1..p /\ j \notin 1..p
    <3>1. PICK y \in 1..l : j = p + 3 + y
      BY <2>4, <2>6
    <3>2. i <= p /\ ~(j <= p)
      BY <1>12, <2>6, <3>1
    <3> QED
      BY <2>3, <3>2
  <2>7. CASE i \notin 1..p /\ j \in 1..p
    <3>1. PICK x \in 1..l : i = p + 3 + x
      BY <2>4, <2>7
    <3> QED
      BY <1>12, <1>28, <2>7, <3>1
  <2>8. CASE i \notin 1..p /\ j \notin 1..p
    BY <2>2, <2>4, <2>8
  <2> QED
    BY <2>1, <2>6, <2>7, <2>8
<1>29. ASSUME NEW k \in stays PROVE \E i \in P : e[i] = k
  <2>1. k \in 1..n /\ k # F
    BY <1>26
  <2>2. k < F \/ k > F
    BY <1>1, <1>4, <2>1
  <2>3. CASE k \in low
    <3>1. PICK i \in 1..p : c[i] = k
      BY <1>20, <2>3
    <3> QED
      BY <1>23, <3>1
  <2>4. CASE k \in high
    <3>1. PICK i \in 1..l : d[i] = k
      BY <1>21, <2>4
    <3> QED
      BY <1>24, <3>1
  <2> QED
    BY <2>2, <2>3, <2>4 DEF low, high
<1>30. Woven(out, text, e, p, 3, F)
  <2>1. p \in Nat /\ 3 \in Nat /\ p + 3 <= Len(out)
    BY <1>12, <1>18
  <2>2. \A i \in P : e[i] \in DOMAIN text \ Goes(text) /\ out[i] = text[e[i]]
    BY <1>27 DEF stays
  <2>3. \A k \in DOMAIN text : k \in Goes(text) \/ Blank(text, k) \/ \E i \in P : e[i] = k
    BY <1>29 DEF stays
  <2>4. p + 1 \in (p + 1)..(p + 3) /\ out[p + 1] = "main" /\ \A i \in (p + 1)..((p + 1) - 1) : out[i] = "blank"
    BY <1>12, <1>18
  <2>5. \A i \in ((p + 1) + 1)..(p + 3) : out[i] = "key"
    <3>1. \A i \in ((p + 1) + 1)..(p + 3) : i = p + 2 \/ i = p + 3
      BY <1>12
    <3> QED
      BY <1>18, <3>1
  <2>6. \E h \in (p + 1)..(p + 3) : /\ out[h] = "main"
                                    /\ \A i \in (p + 1)..(h - 1) : out[i] = "blank"
                                    /\ \A i \in (h + 1)..(p + 3) : out[i] = "key"
    BY <2>4, <2>5
  <2>7. \A i, j \in P : i < j => e[i] < e[j]
    BY <1>28
  <2>8. \A i \in P : i <= p <=> e[i] < F
    BY <1>27
  <2> QED
    BY <1>3, <2>1, <2>2, <2>3, <2>6, <2>7, <2>8 DEF Woven, P
<1>31. Foreign(out) = Foreign(text) /\ Woven(out, text, e, p, 3, F)
  BY <1>19, <1>30, WovenForeign
<1>32. Editable(out) /\ Woven(out, text, e, p, 3, F)
  BY <1>19, <1>30, WovenEditable
<1> QED
  BY <1>2, <1>19, <1>31, <1>32

-----------------------------------------------------------------------------
(* The theorem *)

\* The lines of a text that is edited, and that it can be edited.
TomlInv == IsLines(toml) /\ Editable(toml) /\ Foreign(toml) = Foreign(before.toml)

\* A text without lines can be edited.
LEMMA NoLines == IsLines(<<>>) /\ Editable(<<>>)
<1>1. <<>> \in Seq({})
  OBVIOUS
<1>2. IsLines(<<>>) /\ DOMAIN <<>> = {}
  BY <1>1 DEF IsLines
<1>3. Heads(<<>>) = {}
  BY <1>2 DEF Heads
<1>4. Cardinality({k \in Heads(<<>>) : <<>>[k] = "main"}) <= 1
  <2>1. {k \in Heads(<<>>) : <<>>[k] = "main"} = {}
    BY <1>3
  <2> QED
    BY <2>1, FS_EmptySet
<1> QED
  BY <1>2, <1>4, EditableIs

\* However config.toml is edited and however often, the lines and the comments of
\* the other tables stay as they are and it can be edited again: for every text
\* that ffm edits (editTOML, removeTOML).
THEOREM TablesStay ==
  ASSUME NEW Line, TomlTexts \in SUBSET Seq(Line)
  PROVE  ConfigInit /\ [][ConfigNext]_cvars => []TablesKept
<1>1. ConfigInit => TomlInv
  <2>1. ASSUME NEW j, Start(j, <<>>) PROVE TomlInv
    BY <2>1, NoLines DEF Start, TomlInv
  <2>2. ASSUME NEW t \in TomlTexts, NEW j, Editable(t), Start(j, t) PROVE TomlInv
    <3>1. IsLines(t)
      BY DEF IsLines
    <3> QED
      BY <2>2, <3>1 DEF Start, TomlInv
  <2> QED
    BY <2>1, <2>2 DEF ConfigInit
<1>2. TomlInv /\ [ConfigNext]_cvars => TomlInv'
  <2> SUFFICES ASSUME TomlInv, [ConfigNext]_cvars PROVE TomlInv'
    OBVIOUS
  <2>1. ASSUME toml' = toml, before' = before PROVE TomlInv'
    BY <2>1 DEF TomlInv
  <2>2. ASSUME toml' = toml, before'.toml = toml PROVE TomlInv'
    BY <2>2 DEF TomlInv
  <2>3. ASSUME before'.toml = toml, toml' \in {editTOML(toml), removeTOML(toml)} PROVE TomlInv'
    <3>1. IsLines(toml) /\ Editable(toml)
      BY DEF TomlInv
    <3>2. /\ IsLines(removeTOML(toml))
          /\ Foreign(removeTOML(toml)) = Foreign(toml)
          /\ Editable(removeTOML(toml))
      BY <3>1, RemoveIs
    <3>3. /\ IsLines(editTOML(toml))
          /\ Foreign(editTOML(toml)) = Foreign(toml)
          /\ Editable(editTOML(toml))
      BY <3>1, AppendIs, ReplaceIs
    <3>4. IsLines(toml') /\ Editable(toml') /\ Foreign(toml') = Foreign(toml)
      BY <2>3, <3>2, <3>3
    <3> QED
      BY <2>3, <3>4 DEF TomlInv
  <2>4. CASE UNCHANGED cvars
    BY <2>1, <2>4 DEF cvars
  <2>5. CASE ConfigNext
    <3>1. \/ toml' = toml /\ before'.toml = toml
          \/ before'.toml = toml /\ toml' \in {editTOML(toml), removeTOML(toml)}
      <4>1. \/ toml' = toml /\ \E name : before' = [json |-> json, toml |-> toml, name |-> name]
            \/ /\ before' = [json |-> json, toml |-> toml, name |-> "none"]
               /\ toml' \in {editTOML(toml), removeTOML(toml)}
        BY <2>5, Zenon DEF ConfigNext
      <4>2. ASSUME NEW name, before' = [json |-> json, toml |-> toml, name |-> name] PROVE before'.toml = toml
        BY <4>2
      <4> QED
        BY <4>1, <4>2
    <3> QED
      BY <2>2, <2>3, <3>1
  <2> QED
    BY <2>4, <2>5
<1>3. TomlInv => TablesKept
  BY DEF TomlInv, TablesKept
<1> QED
  BY <1>1, <1>2, <1>3, PTL
=============================================================================
