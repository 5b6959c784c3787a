------------------------------ MODULE FrappeDump ------------------------------
(***************************************************************************)
(* What ffm learns from a database dump it did not make                    *)
(* (internal/manager/restore_dump.go, restore_frappe.go): one pass over    *)
(* the lines, in any order of tables, finds the engine, the tables every   *)
(* site has and the rows of the installed-apps table.                      *)
(*                                                                         *)
(* A line is a record: k is its kind, t the table it names, rows the apps  *)
(* of its VALUES, cols the columns it lists (none when it lists none),     *)
(* last whether it ends in ";".  A row is the record of one app.           *)
(***************************************************************************)
EXTENDS Integers, Sequences, FiniteSets, SequencesExt

CONSTANTS
  AppNames,        \* names appNameRe accepts, "frappe" among them
  VersionBranches, \* "version-15", ...
  DefaultBranch,
  Nothing

AppsTable == "tabInstalled Application"

\* dumpInfo and dumpScanner: in is what the line before left open, cols the
\* columns of the apps table, buf the rows of an INSERT that goes on.
Start == [engine |-> Nothing, auth |-> FALSE, user |-> FALSE, hasApps |-> FALSE, apps |-> {},
          metaBranch |-> Nothing, in |-> "none", cols |-> {}, buf |-> {}, bad |-> FALSE]

Engine(d, l) ==
  IF d.engine # Nothing THEN d.engine
  ELSE IF l.k = "banner" THEN l.t
  ELSE IF l.k = "copy" THEN "postgres"
  ELSE IF l.k \in {"create", "insert"} THEN "mariadb" ELSE Nothing

\* Rows count when the column of the app's name is known.
addInsert(d, cols, rows) ==
  IF "app_name" \in cols THEN [d EXCEPT !.apps = @ \cup rows] ELSE [d EXCEPT !.bad = TRUE]

CreateTable(d, l) ==
  CASE l.t = "__Auth"  -> [d EXCEPT !.auth = TRUE]
    [] l.t = "tabUser" -> [d EXCEPT !.user = TRUE]
    [] l.t = AppsTable -> [d EXCEPT !.hasApps = TRUE, !.in = "create", !.cols = {}]
    [] OTHER -> d

Insert(d, l) ==
  LET cols == IF l.cols = {} THEN d.cols ELSE l.cols
  IN  IF l.last THEN addInsert([d EXCEPT !.hasApps = TRUE], cols, l.rows)
      ELSE [d EXCEPT !.hasApps = TRUE, !.in = "insert", !.buf = l.rows, !.cols = cols]

\* Table definitions and rows are looked for only where no block is open.
Outside(d, l) ==
  CASE l.k = "create" -> CreateTable(d, l)
    [] l.k = "copy" /\ l.t = AppsTable -> [d EXCEPT !.hasApps = TRUE, !.in = "copy", !.cols = l.cols]
    [] l.k = "insert" /\ l.t = AppsTable -> Insert(d, l)
    [] OTHER -> d

scanLine(d0, l) ==
  LET d == [d0 EXCEPT !.engine = Engine(d0, l)]
  IN  CASE d.bad -> d
        [] d.in = "metadata" ->
             IF l.k = "end metadata" THEN [d EXCEPT !.in = "none"]
             ELSE IF l.k = "branch" THEN [d EXCEPT !.metaBranch = l.t] ELSE d
        [] l.k = "begin metadata" -> [d EXCEPT !.in = "metadata"]
        [] d.in = "insert" ->
             LET rows == d.buf \cup l.rows
             IN  IF l.last THEN addInsert([d EXCEPT !.in = "none", !.buf = {}], d.cols, rows)
                 ELSE [d EXCEPT !.buf = rows]
        [] d.in = "copy" ->
             IF l.k = "end copy" THEN [d EXCEPT !.in = "none"]
             ELSE IF "app_name" \in d.cols THEN [d EXCEPT !.apps = @ \cup l.rows] ELSE d
        [] d.in = "create" ->
             IF l.k = "close" THEN [d EXCEPT !.in = "none"] ELSE [d EXCEPT !.cols = @ \cup l.cols]
        [] OTHER -> Outside(d, l)

\* What is known of the dump after some more lines.
Scan(d, lines) ==
  LET known[n \in 0..Len(lines)] == IF n = 0 THEN d ELSE scanLine(known[n - 1], lines[n])
  IN  known[Len(lines)]

inspectDump(lines) == Scan(Start, lines)

\* A dump the import takes: a whole site with somebody to log in as.
Importable(d) == ~d.bad /\ d.user /\ d.auth /\ d.hasApps /\ d.apps # {}

FrappeBranch(d) ==
  LET rows == {r \in d.apps : r.app = "frappe" /\ r.branch # Nothing}
  IN  IF rows # {} THEN (CHOOSE r \in rows : TRUE).branch ELSE d.metaBranch

chooseDBEngine(d, requested) ==
  IF d.engine # Nothing /\ requested \notin {d.engine, Nothing} THEN Nothing
  ELSE IF d.engine # Nothing THEN d.engine ELSE requested

\* A requested branch of another major version is refused unless --app moves frappe.
chooseFrappeBranch(d, requested, moved) ==
  LET b == FrappeBranch(d)
  IN  [branch |-> IF requested # Nothing THEN requested
                  ELSE IF b \in VersionBranches THEN b ELSE DefaultBranch,
       refused |-> /\ {requested, b} \subseteq VersionBranches
                   /\ requested # b
                   /\ ~moved]

\* Every app of the dump needs a source from the user: named has those given
\* with --apps or --app.
planDumpApps(d, named) ==
  LET listed == {r.app : r \in d.apps}
  IN  [installed |-> {"frappe"} \cup (listed \cap AppNames),
       problems  |-> (listed \ AppNames) \cup ((listed \cap AppNames) \ (named \cup {"frappe"}))]

(***************************************************************************)
(* The dumps mysqldump and pg_dump write of a site with some apps, which   *)
(* are not ffm's.                                                          *)
(***************************************************************************)
Line(k, t, cols, rows, last) == [k |-> k, t |-> t, cols |-> cols, rows |-> rows, last |-> last]
Bare(k, t) == Line(k, t, {}, {}, FALSE)

Definition(cols) == <<Bare("create", AppsTable), Line("column", "none", cols, {}, FALSE), Bare("close", "none")>>

\* One INSERT per table, its rows on one line or on one line each.
MariaRows(rows, oneLine, cols) ==
  IF oneLine THEN <<Line("insert", AppsTable, cols, rows, TRUE)>>
  ELSE LET s == SetToSeq(rows)
       IN  <<Line("insert", AppsTable, cols, {}, FALSE)>>
           \o [i \in DOMAIN s |-> Line("row", "none", {}, {s[i]}, i = Len(s))]

PostgresRows(rows, cols) ==
  <<Line("copy", AppsTable, cols, {}, FALSE)>>
  \o [i \in 1..Cardinality(rows) |-> Line("row", "none", {}, {SetToSeq(rows)[i]}, FALSE)]
  \o <<Bare("end copy", "none")>>

\* Frappe puts its own block before the dump of a site on a known branch.
Metadata(branch) == IF branch = Nothing THEN <<>>
                    ELSE <<Bare("begin metadata", "none"), Bare("branch", branch), Bare("end metadata", "none")>>

Rest == <<Bare("create", "__Auth"), Bare("create", "tabUser")>>

Columns == {"name", "app_name", "git_branch"}

MariaBlocks(rows) == {Definition(Columns) \o MariaRows(rows, one, listed) : one \in BOOLEAN, listed \in {{}, Columns}}

PostgresBlock(rows) == Definition(Columns) \o PostgresRows(rows, Columns)

\* The apps table before or after the other tables.
Whole(branch, engine, table) ==
  {Metadata(branch) \o <<Bare("banner", engine)>> \o table \o Rest,
   Metadata(branch) \o <<Bare("banner", engine)>> \o Rest \o table}

DumpsOf(rows, branch) ==
  (UNION {Whole(branch, "mariadb", table) : table \in MariaBlocks(rows)})
    \cup Whole(branch, "postgres", PostgresBlock(rows))
===============================================================================
