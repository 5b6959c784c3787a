---------------------------- MODULE BenchRecords ----------------------------
(***************************************************************************)
(* The contents of benches.json as pure data: a sequence of bench records  *)
(* and the changes internal/state/store.go makes to it.  A record keeps    *)
(* the name the store looks benches up by and one value that stands for    *)
(* all its other fields.                                                   *)
(***************************************************************************)
EXTENDS Integers, Sequences

CONSTANTS
  Names,      \* the names a bench can have
  Values      \* what the rest of a record can hold

Record == [name : Names, val : Values]

Named(recs, n) == {i \in DOMAIN recs : recs[i].name = n}

Exists(recs, n) == Named(recs, n) # {}

\* The first match, the one Get returns and Update changes.
FirstNamed(recs, n) == CHOOSE i \in Named(recs, n) : \A j \in Named(recs, n) : i <= j

Get(recs, n) == recs[FirstNamed(recs, n)]

-----------------------------------------------------------------------------
(* The three read-modify-write operations. *)

AddOps    == [kind : {"add"}, rec : Record]
RemoveOps == [kind : {"remove"}, name : Names]
UpdateOps == [kind : {"update"}, name : Names, val : Values]
Ops       == AddOps \cup RemoveOps \cup UpdateOps

\* Nothing here refuses a second record of the same name: the callers do.
add(recs, b) == Append(recs, b)

\* Every record of that name goes, not only the first.  The loop is a
\* recursive function, kept[i] being `filtered` after i records, so that what
\* it returns can be proved.
remove(recs, n) ==
  LET kept[i \in 0..Len(recs)] ==
        IF i = 0 THEN <<>>
        ELSE IF recs[i].name # n THEN Append(kept[i-1], recs[i])
        ELSE kept[i-1]
  IN  kept[Len(recs)]

update(recs, n, v) == [recs EXCEPT ![FirstNamed(recs, n)].val = v]

\* Only an update of a name that is not there is refused (ErrNotFound).
Accepts(op, recs) == op.kind = "update" => Exists(recs, op.name)

Apply(op, recs) ==
  CASE op.kind = "add"    -> add(recs, op.rec)
    [] op.kind = "remove" -> remove(recs, op.name)
    [] op.kind = "update" -> update(recs, op.name, op.val)
=============================================================================
