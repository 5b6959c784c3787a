----------------------------- MODULE ConfigText -----------------------------
(***************************************************************************)
(* How ffm edits the configuration of an AI client as text                 *)
(* (internal/mcpinstall, jsonedit.go and tomledit.go): an object of        *)
(* servers in JSON with comments, and the tables of Codex's TOML.  A text  *)
(* is a sequence of tokens: members with their values, commas, line        *)
(* breaks, blanks and comments; a TOML text is a sequence of lines.        *)
(***************************************************************************)
EXTENDS Integers, Sequences, FiniteSets, SequencesExt

CONSTANTS
  Entries,     \* the names of servers, in the order a text lists them
  Gaps,        \* what may stand between two tokens: line breaks, blanks, comments
  TomlTexts,   \* the TOML texts to start from
  MaxEdits

VARIABLES
  json,        \* the object of servers, from its brace to its brace
  toml,        \* the lines of config.toml
  refused,     \* the last edit of the JSON text was refused
  before,      \* the texts before the last edit and the entry it was about
  edits

cvars == <<json, toml, refused, before, edits>>

EntryNames == ToSet(Entries)
Comments == {"line", "block", "multi"}   \* to the end of the line, on one line, over lines

MaxOf(S) == CHOOSE x \in S : \A y \in S : y <= x
MinOf(S) == CHOOSE x \in S : \A y \in S : x <= y

\* What a text has at some places, in its order.
Only(text, S) ==
  LET some[k \in 0..Len(text)] ==
        IF k = 0 THEN <<>> ELSE IF k \in S THEN Append(some[k - 1], text[k]) ELSE some[k - 1]
  IN some[Len(text)]

-----------------------------------------------------------------------------
(* JSON.  Offsets count from 0 and a slice is the tokens of [from, to). *)

Slice(src, from, to) == SubSeq(src, from + 1, to)
Where(src, t) == (CHOOSE k \in DOMAIN src : src[k] = t) - 1
Offsets(extra, t) == {k - 1 : k \in {j \in DOMAIN extra : extra[j] = t}}
Members(src) == SelectSeq(src, LAMBDA t : t \in EntryNames)

\* The later of the last line break and the end of the last comment over lines,
\* and the earlier of the first ones.
laterCut(break, end) ==
  [pos |-> IF end > break THEN end ELSE break, comment |-> end > break, ok |-> break >= 0 \/ end >= 0]
earlierCut(breaks, multis) ==
  LET at == multis # {} /\ \A b \in breaks : MinOf(multis) < b
  IN [pos |-> IF at THEN MinOf(multis) ELSE IF breaks = {} THEN -1 ELSE MinOf(breaks),
      comment |-> at, ok |-> multis \cup breaks # {}]

\* Mutant of lastCut: a comment over lines is not looked for.
lastCutBreaks(extra) ==
  LET pos == MaxOf(Offsets(extra, "nl") \cup {-1}) IN [pos |-> pos, comment |-> FALSE, ok |-> pos >= 0]

\* Where the lines of a member start in what stands before it: at the last line
\* break, or after a comment over lines; ok when there is either.
lastCut(extra) == laterCut(MaxOf(Offsets(extra, "nl") \cup {-1}), MaxOf({p + 1 : p \in Offsets(extra, "multi")} \cup {-1}))

\* Where they end in what stands after it.
firstCut(extra) == earlierCut(Offsets(extra, "nl"), Offsets(extra, "multi"))

\* The offset after the blanks at p, before hi.
blanksAfter(src, p, hi) == MinOf({q \in p..hi : q = hi \/ src[q + 1] # "sp"})

\* The lines of the member: from the last cut before it, in what starts at bs, to
\* the first cut after it, in [as, ae), which may be missing when only the brace
\* follows.
linesBetween(src, bs, first, as, ae, last, toEnd, more) ==
  LET start == bs + first.pos
      end   == IF last.ok THEN as + last.pos ELSE ae
      \* A comment over lines follows: it takes the place of the member.
      next  == IF start < end /\ src[start + 1] = "nl" THEN start + 1 ELSE start
      from  == IF last.ok /\ last.comment /\ ~first.comment THEN blanksAfter(src, next, end) ELSE start
  IN IF ~first.ok \/ (~last.ok /\ ~toEnd) THEN {} ELSE {[from |-> from, to |-> end]} \cup more

lines(src, bs, be, as, ae, toEnd, more) ==
  linesBetween(src, bs, lastCut(Slice(src, bs, be)), as, ae, firstCut(Slice(src, as, ae)), toEnd, more)

\* What goes of [start, end) when a comment over lines stays.
keepMulti(src, start, end) ==
  LET stays == {start + p : p \in Offsets(Slice(src, start, end), "multi")}
  IN {[from |-> f, to |-> MinOf({end} \cup {s \in stays : s >= f})] : f \in {start} \cup {s + 1 : s \in stays}}

deleteRanges(src, cuts) == Only(src, {k \in DOMAIN src : ~\E c \in cuts : c.from <= k - 1 /\ k - 1 < c.to})

\* The comma after a member and the one before it, or -1.
commaAfter(src, ns) ==
  LET found == {c \in Offsets(src, ",") : c > ns /\ Members(Slice(src, ns + 1, c)) = <<>>}
  IN IF found = {} THEN -1 ELSE MinOf(found)
commaBefore(src, ns) ==
  IF Members(Slice(src, 0, ns)) = <<>> THEN -1 ELSE MaxOf({c \in Offsets(src, ",") : c < ns})

\* The lines of the member at ns, with a comma: the one after it, or for the last
\* member the one before it; none when it shares its lines.
ownCuts(src, ns, cb, ca, lo, hi, closeAt) ==
  LET prevEnd == MaxOf({k \in 1..cb : src[k] \in EntryNames})
      breaks  == \E k \in (lo + 1)..ns : src[k] = "nl"
      after   == ca >= 0 /\ firstCut(Slice(src, ns + 1, ca)).ok
  IN CASE breaks /\ after ->
            lines(src, lo, ns, ns + 1, ca, FALSE, {[from |-> ca, to |-> blanksAfter(src, ca + 1, hi)]})
       [] breaks /\ ca >= 0 /\ ~after -> lines(src, lo, ns, ca + 1, hi, FALSE, {})
       [] breaks /\ ca < 0 ->
            lines(src, lo, ns, ns + 1, closeAt, TRUE, IF cb >= 0 THEN {[from |-> cb, to |-> cb + 1]} ELSE {})
       [] cb >= 0 /\ ~breaks /\ (\E k \in (prevEnd + 1)..cb : src[k] = "nl") ->
            lines(src, prevEnd, cb, ns + 1, IF ca >= 0 THEN ca ELSE closeAt, ca < 0, {})
       [] OTHER -> {}

\* The member and a comma, on lines it shares.
sharedCuts(src, ns, cb, ca, hi) ==
  {[from |-> ns, to |-> ns + 1]} \cup
  CASE ca >= 0 -> keepMulti(src, ns + 1, ca) \cup {[from |-> ca, to |-> blanksAfter(src, ca + 1, hi)]}
    [] ca < 0 /\ cb >= 0 -> {[from |-> cb, to |-> cb + 1]} \cup keepMulti(src, cb + 1, ns)
    [] OTHER -> {}

\* Nothing is left but blanks: the object becomes {}.
emptied(src, cuts, rest) ==
  IF Len(Members(src)) = 1 /\ \A k \in 2..(Len(rest) - 1) : rest[k] \in {"nl", "sp"}
  THEN {[from |-> 1, to |-> Len(src) - 1]} ELSE cuts
cutsOr(own, shared) == IF own = {} THEN shared ELSE own
cutsAt(src, ns, cb, ca, hi) ==
  cutsOr(ownCuts(src, ns, cb, ca, IF cb >= 0 THEN cb + 1 ELSE 1, hi, Len(src) - 1), sharedCuts(src, ns, cb, ca, hi))
unlessEmpty(src, cuts) == emptied(src, cuts, deleteRanges(src, cuts))

\* Where the next member starts, or the brace.
nextMember(src, ns) == MinOf({Len(src) - 1} \cup {k - 1 : k \in {j \in DOMAIN src : j > ns + 1 /\ src[j] \in EntryNames}})

\* The ranges that remove a member and one of the commas around it.
memberCuts(src, name) ==
  LET ns == Where(src, name)
  IN unlessEmpty(src, cutsAt(src, ns, commaBefore(src, ns), commaAfter(src, ns), nextMember(src, ns)))

Overlapping(cuts) == \E c, d \in cuts : c # d /\ c.from < d.to /\ d.from < c.to

\* An object, with a comma after its last member or not.
Parses(src) ==
  LET bare == SelectSeq(src, LAMBDA t : t \in EntryNames \cup {"{", "}", ","}) IN
  /\ bare # <<>> /\ Head(bare) = "{" /\ Last(bare) = "}"
  /\ \A k \in 1..(Len(bare) - 1) : (bare[k] \in EntryNames => bare[k + 1] \notin EntryNames) /\ (bare[k + 1] = "," => bare[k] \in EntryNames)
  /\ \A k \in DOMAIN src : src[k] = "line" => k < Len(src) /\ src[k + 1] = "nl"

Strict(src) ==
  /\ \A k \in DOMAIN src : src[k] \notin Comments
  /\ \A k \in DOMAIN src : src[k] = "," => Members(Slice(src, k, Len(src))) # <<>>

Count(src, t) == Cardinality(Offsets(src, t))

\* checkRemoveResult: the result is an object without the member and with the
\* others, and with the comments that are not on the lines of the member.
checkRemoveResult(src, out, name) ==
  LET ns      == Where(src, name)
      ends    == {k \in DOMAIN src : src[k] \in {"nl", "multi"}}
      ownLo   == MaxOf({0} \cup {k \in ends : k <= ns}) - 1
      ownHi   == MinOf({Len(src) + 1} \cup {k \in ends : k > ns + 1}) - 1
      ownLine == ownLo..ownHi \ {ownLo, ownHi}
  IN /\ Parses(out)
     /\ Strict(src) => Strict(out)
     /\ Members(out) = SelectSeq(Members(src), LAMBDA m : m # name)
     /\ \A c \in Comments : Count(out, c) \in Cardinality(Offsets(src, c) \ ownLine)..Count(src, c)

\* appendMember: on a line of its own after the last member and the comment on
\* its line, with a comma after it when the last member had one.
insertAfter(src, name, anchor, trailing, after, brk) ==
  Slice(src, 0, anchor) \o (IF Members(src) # <<>> /\ ~trailing THEN <<",">> ELSE <<>>)
  \o Slice(after, 0, brk) \o <<"nl", name>> \o (IF trailing THEN <<",">> ELSE <<>>)
  \o (IF brk < Len(after) THEN Slice(after, brk, Len(after)) ELSE <<"nl">>) \o <<"}">>
lastBreak(after) == IF Offsets(after, "nl") = {} THEN Len(after) ELSE MaxOf(Offsets(after, "nl"))
appendAt(src, name, anchor, after) == insertAfter(src, name, anchor, src[anchor] = ",", after, lastBreak(after))
appendPast(src, name, anchor) == appendAt(src, name, anchor, Slice(src, anchor, Len(src) - 1))
appendMember(src, name) == appendPast(src, name, MaxOf({k \in DOMAIN src : src[k] \in EntryNames \cup {",", "{"}}))

\* checkJSONResult.
checkJSONResult(src, out, name) == Parses(out) /\ (Strict(src) => Strict(out)) /\ Count(out, name) = 1

putText(name, out) ==
  /\ refused' = ~checkJSONResult(json, out, name)
  /\ json' = IF refused' THEN json ELSE out
EditJSON(name) == \E out \in {IF name \in ToSet(json) THEN json ELSE appendMember(json, name)} : putText(name, out)

removeRanges(name, cuts, out) ==
  /\ refused' = (Overlapping(cuts) \/ ~checkRemoveResult(json, out, name))
  /\ json' = IF refused' THEN json ELSE out
RemoveJSON(name) ==
  /\ name \in ToSet(json)
  /\ \E cuts \in {memberCuts(json, name)} : removeRanges(name, cuts, deleteRanges(json, cuts))

-----------------------------------------------------------------------------
(* TOML.  A line is a header, of the entry ("main", "sub"), of the servers or  *)
(* of anything else ("other"), a key, a key that opens a string over lines     *)
(* ("open") and the line that closes it, a comment, or blank.                  *)

Headers == {"main", "sub", "servers", "other"}

\* A string is open after some lines.
inString(text) ==
  LET open[k \in 0..Len(text)] ==
        IF k = 0 THEN FALSE ELSE IF open[k - 1] THEN text[k] # "close" ELSE text[k] = "open"
  IN open

\* The kind of every line: inside a string no line is a header.
scanTOML(text) ==
  [k \in DOMAIN text |-> IF inString(text)[k - 1] THEN "cont" ELSE IF text[k] \in Headers THEN "header"
                         ELSE IF text[k] \in {"blank", "note"} THEN "blank" ELSE "other"]

\* Refused: keys of the servers outside a table of a server, what closes no
\* string, a string without an end, the table of the entry twice.
Editable(text) ==
  LET kind  == scanTOML(text)
      heads == {k \in DOMAIN text : kind[k] = "header"}
      cur(k) == IF \E h \in heads : h < k THEN text[MaxOf({h \in heads : h < k})] ELSE "root" IN
  /\ \A k \in DOMAIN text : kind[k] = "other" =>
       /\ text[k] # "close" /\ cur(k) # "servers" /\ (text[k] = "dotted" => cur(k) # "root")
  /\ \A k \in DOMAIN text : text[k] = "open" /\ kind[k] # "cont" => \E j \in DOMAIN text : j > k /\ text[j] = "close"
  /\ Cardinality({k \in heads : text[k] = "main"}) <= 1

\* Mutant of tomlEntrySpans: a table goes on to the next header.
tomlEntrySpansWhole(text) ==
  LET heads == {k \in DOMAIN text : scanTOML(text)[k] = "header"}
  IN {[start |-> h, end |-> MinOf({Len(text) + 1} \cup {j \in heads : j > h}) - 1] :
      h \in {j \in heads : text[j] \in {"main", "sub"}}}

\* The tables of the entry: from a header to the next one, less the blank and
\* comment lines right before it.
tomlEntrySpans(text) ==
  LET kind  == scanTOML(text)
      heads == {k \in DOMAIN text : kind[k] = "header"}
      end(h) == MinOf({Len(text) + 1} \cup {j \in heads : j > h})
      body(h) == MaxOf({h} \cup {k \in (h + 1)..(end(h) - 1) : kind[k] # "blank"})
  IN {[start |-> h, end |-> body(h)] : h \in {j \in heads : text[j] \in {"main", "sub"}}}

\* The lines that go: the tables, and the blank and comment lines between two.
Goes(text) ==
  LET spans == tomlEntrySpans(text)
      kind  == scanTOML(text)
      inSpan(k) == \E s \in spans : s.start <= k /\ k <= s.end
      between(k) == \E s, t \in spans : s.end < k /\ k < t.start /\ \A j \in (s.end + 1)..(t.start - 1) : kind[j] = "blank"
  IN {k \in DOMAIN text : inSpan(k) \/ between(k)}

Block == <<"main", "key", "key">>

editTOML(text) ==
  LET spans == tomlEntrySpans(text)
      first == MinOf({s.start : s \in spans})
      stays == DOMAIN text \ Goes(text)
  IN IF spans = {} THEN text \o (IF text # <<>> /\ Last(text) # "blank" THEN <<"blank">> ELSE <<>>) \o Block
     ELSE Only(text, {k \in stays : k < first}) \o Block \o Only(text, {k \in stays : k > first})

\* Lines right after the removal.
cut(text, k) == \E g \in Goes(text) : g < k /\ \A j \in (g + 1)..(k - 1) : text[j] = "blank"

\* A blank line that the removal leaves next to another one goes.
keep(text) ==
  LET kept[k \in 0..Len(text)] ==
        IF k = 0 THEN <<>>
        ELSE LET r == kept[k - 1] IN
             IF k \in Goes(text) \/ (text[k] = "blank" /\ cut(text, k) /\ (r = <<>> \/ Last(r) = "blank")) THEN r
             ELSE Append(r, text[k])
  IN kept[Len(text)]

\* So do those it leaves at the end.
removeTOML(text) ==
  LET solid == {k \in DOMAIN keep(text) : keep(text)[k] # "blank"}
      ended == \A k \in DOMAIN text : k > MaxOf(Goes(text)) => text[k] = "blank"
  IN IF Goes(text) = {} THEN text
     ELSE IF ended THEN SubSeq(keep(text), 1, IF solid = {} THEN 0 ELSE MaxOf(solid)) ELSE keep(text)

-----------------------------------------------------------------------------
Spread(n, trailing, gap) ==
  LET at(i) == <<Entries[i]>> \o gap[2 * i] \o (IF i < n \/ trailing THEN <<",">> \o gap[2 * i + 1] ELSE <<>>)
      all[i \in 0..n] == IF i = 0 THEN <<"{">> \o gap[1] ELSE all[i - 1] \o at(i)
  IN all[n] \o <<"}">>

Start(j, t) == json = j /\ toml = t /\ refused = FALSE /\ before = [json |-> j, toml |-> t, name |-> "none"] /\ edits = 0
ConfigInit == \/ \E n \in DOMAIN Gaps : \E trailing \in (IF n = 0 THEN {FALSE} ELSE BOOLEAN), gap \in [1..(2 * n + 1) -> Gaps[n]] :
                   Parses(Spread(n, trailing, gap)) /\ Start(Spread(n, trailing, gap), <<>>)
              \/ \E t \in TomlTexts : Editable(t) /\ Start(<<"{", "}">>, t)

\* Installs and removals, in the text of one client.
ConfigNext ==
  /\ edits < MaxEdits /\ edits' = edits + 1
  /\ \/ /\ toml = <<>> /\ UNCHANGED toml
        /\ \E name \in EntryNames :
             /\ EditJSON(name) \/ RemoveJSON(name)
             /\ before' = [json |-> json, toml |-> toml, name |-> name]
     \/ /\ before' = [json |-> json, toml |-> toml, name |-> "none"]
        /\ json = <<"{", "}">> /\ UNCHANGED <<json, refused>>
        /\ toml' \in {editTOML(toml), removeTOML(toml)}

-----------------------------------------------------------------------------
\* An entry that has its lines to itself, with comments or the comma of the entry
\* before at their start or not.
OwnLines(src, name) ==
  LET at == Where(src, name) + 1 IN
  /\ \E k \in 1..(at - 1) :
       /\ src[k] = "nl"
       /\ \/ \A j \in (k + 1)..(at - 1) : src[j] \in {"sp", "block", "multi"}
          \/ \A j \in (k + 1)..(at - 1) : src[j] \in {"sp", ","}
  /\ \E k \in DOMAIN src : k > at /\ src[k] = "nl" /\ \A j \in (at + 1)..k : src[j] \notin EntryNames \cup {"}"}

\* Whatever the commas and comments around it, an entry with lines of its own
\* is removed, and any entry is installed: the text is still an object with the
\* other members in their order, strict if it was, and with every comment that
\* is not on the lines of the entry, or the edit would be refused (README.md:872,
\* "keeps comments and other servers").
EditsClean ==
  refused => before.name \in ToSet(before.json) /\ ~OwnLines(before.json, before.name)

\* A line that is more than a blank or a comment, the headers, and whether the
\* last header before a line, or the line, is the entry's.
Solid(text, k) == inString(text)[k - 1] \/ text[k] \notin {"blank", "note"}
Heads(text) == {k \in DOMAIN text : ~inString(text)[k - 1] /\ text[k] \in Headers}
Mine(text, k) == \E h \in Heads(text) :
  h <= k /\ text[h] \in {"main", "sub"} /\ \A j \in Heads(text) : j <= k => j <= h

\* The next line that is more than a blank or a comment is the entry's.
Inner(text, k) == \E j \in DOMAIN text :
  j > k /\ Solid(text, j) /\ Mine(text, j) /\ \A i \in (k + 1)..(j - 1) : ~Solid(text, i)

\* What a TOML text holds besides the entry: the lines of the other tables,
\* strings over lines whole, and the comments that do not stand inside the entry
\* or between two of its tables.
Foreign(text) ==
  Only(text, {k \in DOMAIN text : IF Solid(text, k) THEN ~Mine(text, k)
                                 ELSE text[k] # "blank" /\ ~(Mine(text, k) /\ Inner(text, k))})

\* An edit of config.toml leaves the lines and the comments of the other tables
\* as they are, also when a string holds what looks like a header, and the text
\* can be edited again.
TablesKept == Foreign(toml) = Foreign(before.toml) /\ Editable(toml)
=============================================================================
