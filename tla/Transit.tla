------------------------------- MODULE Transit -------------------------------
(***************************************************************************)
(* One archive on its way: written member by member on the host of the     *)
(* backup, encrypted, put on a target or on a web server, fetched by       *)
(* another host, decrypted, unpacked and compared with its manifest        *)
(* (internal/archive, internal/agecrypt, internal/backuptarget, and the    *)
(* upload and download halves of internal/manager).  The key of an archive *)
(* holds its time, so no upload replaces another one.                      *)
(***************************************************************************)
EXTENDS Naturals, Sequences

CONSTANTS TargetKinds, MaxHarm   \* MaxHarm bounds the cuts, failures, kills and spoilt members

VARIABLES
  host,     \* file name -> file, in the backups directory of the host
  far,      \* key -> object, on the target or the web server
  near,     \* file name -> file, where a restore fetched it to
  kind,     \* of the target
  sender,   \* [at, todo] of the backup
  fetch,    \* [at, from, size] of the restore or the verification
  harm      \* what went wrong so far

tvars == <<host, far, near, kind, sender, fetch, harm>>

Members == <<"header", "db", "files", "manifest">>
Names == {"plain", "age", "header"}
FileNames == Names \cup {"plain.partial", "age.partial", "header.partial"}
Partial(n) == CASE n = "plain" -> "plain.partial" [] n = "age" -> "age.partial" [] n = "header" -> "header.partial"

\* A file by the members it holds, a last one cut short or not, and those that
\* are not what was written; age authenticates a sealed one.
Nothing == [there |-> FALSE, body |-> <<>>, torn |-> FALSE, spoilt |-> {}, sealed |-> FALSE]
Empty == [Nothing EXCEPT !.there = TRUE]
HeaderFile == [Empty EXCEPT !.body = <<"header">>]
Size(f) == 2 * Len(f.body) + (IF f.torn THEN 1 ELSE 0)
Whole(f) == f.body = Members /\ ~f.torn

\* What a copy that stops early holds: it may stop between two members.
Cut(f, k, t) == [f EXCEPT !.body = SubSeq(f.body, 1, k), !.torn = t]
Cuts(f) == {Cut(f, k, t) : k \in 0..(Len(f.body) - 1), t \in BOOLEAN}

Is(who, step) == who.at = step
Harmed == harm < MaxHarm /\ harm' = harm + 1
Unharmed == UNCHANGED harm

TransitInit ==
  /\ host = [n \in FileNames |-> Nothing] /\ far = host /\ near = host
  /\ kind \in TargetKinds
  /\ sender = [at |-> "create", todo |-> Members]
  /\ fetch = [at |-> "idle", from |-> "none", size |-> 0]
  /\ harm = 0

-----------------------------------------------------------------------------
(* The backup. *)

Sends(step) == sender' = [sender EXCEPT !.at = step]
OnHost == UNCHANGED <<far, near, kind, fetch>>

BeginArchive ==
  /\ Is(sender, "create") /\ Sends("add") /\ Unharmed /\ OnHost
  /\ host' = [host EXCEPT !["plain.partial"] = Empty]

\* AddStream: exactly the bytes that were declared, or an error.
AddStream ==
  /\ Is(sender, "add") /\ sender.todo # <<>> /\ Unharmed /\ OnHost
  /\ sender' = [sender EXCEPT !.todo = Tail(@)]
  /\ host' = [host EXCEPT !["plain.partial"].body = Append(@, Head(sender.todo))]

\* Only an archive for a target has to be encrypted.
FinishArchive ==
  /\ Is(sender, "add") /\ sender.todo = <<>> /\ Unharmed /\ OnHost
  /\ \E encrypt \in BOOLEAN : (kind # "web" => encrypt) /\ Sends(IF encrypt THEN "encrypt" ELSE "done")
  /\ host' = [host EXCEPT !["plain"] = host["plain.partial"], !["plain.partial"] = Nothing]

\* A member that could not be read, or was shorter than declared: Abort.
WriteFails ==
  /\ Is(sender, "add") /\ Sends("failed") /\ Harmed /\ OnHost
  /\ host' = [host EXCEPT !["plain.partial"] = Nothing]

\* EncryptFile, through writeAtomic: filled beside its name, then renamed.
EncryptFile ==
  /\ Is(sender, "encrypt") /\ Sends("rename") /\ Unharmed /\ OnHost
  /\ host' = [host EXCEPT !["age.partial"] = [host["plain"] EXCEPT !.sealed = TRUE]]

RenameEncrypted ==
  /\ Is(sender, "rename") /\ Sends("header") /\ Unharmed /\ OnHost
  /\ host' = [host EXCEPT !["age"] = host["age.partial"], !["age.partial"] = Nothing]

WriteHeader ==
  /\ Is(sender, "header") /\ Sends("replace") /\ Unharmed /\ OnHost
  /\ host' = [host EXCEPT !["header"] = HeaderFile]

RemovePlain ==
  /\ Is(sender, "replace") /\ Sends(IF kind = "web" THEN "done" ELSE "put") /\ Unharmed /\ OnHost
  /\ host' = [host EXCEPT !["plain"] = Nothing]

\* A failed encryption takes the plain archive away too, and a failed sidecar
\* the encrypted one; the sidecar itself is written in place.  A file that could
\* not be renamed stays beside its name, a plain one that could not be removed
\* stays with the encrypted one.
EncryptFails ==
  /\ sender.at \in {"encrypt", "rename", "header", "replace"} /\ Sends("failed") /\ Harmed /\ OnHost
  /\ host' \in CASE Is(sender, "encrypt") -> {[host EXCEPT !["plain"] = Nothing]}
                [] Is(sender, "rename")  -> {[host EXCEPT !["plain"] = Nothing]}
                [] Is(sender, "header")  -> {[host EXCEPT !["plain"] = Nothing, !["age"] = Nothing, !["header"] = h] :
                                             h \in {Nothing} \cup Cuts(HeaderFile)}
                [] OTHER                 -> {host, [host EXCEPT !["plain"] = Nothing]}

\* An object store takes an object whole; a directory and sftp fill a partial
\* file and rename it; rclone streams, and may keep what came before a cut.
PutObject(n) ==
  \/ /\ kind = "s3" /\ far' = [far EXCEPT ![n] = host[n]]
  \/ /\ kind \in {"dir", "sftp"} /\ far[Partial(n)] = host[n]
     /\ far' = [far EXCEPT ![n] = host[n], ![Partial(n)] = Nothing]
  \/ /\ kind = "rclone" /\ far' = [far EXCEPT ![n] = host[n]]

FillPartial(n) ==
  /\ kind \in {"dir", "sftp"} /\ ~far[Partial(n)].there
  /\ far' = [far EXCEPT ![Partial(n)] = host[n]]

\* Mutant of PutOrder: the header goes first.
PutOrderHeaderFirst == <<"header", "age">>

\* The archive goes first, its header after it.
PutOrder == <<"age", "header">>

Upload ==
  /\ sender.at \in {"put", "put header"} /\ Unharmed /\ UNCHANGED <<host, near, kind, fetch>>
  /\ LET n == PutOrder[IF Is(sender, "put") THEN 1 ELSE 2] IN
       \/ FillPartial(n) /\ UNCHANGED sender
       \/ PutObject(n) /\ Sends(IF Is(sender, "put") THEN "put header" ELSE "confirm")

\* A directory and sftp clean up after an error; a kill is Killed.
UploadFails ==
  /\ sender.at \in {"put", "put header"} /\ Sends("failed") /\ Harmed /\ UNCHANGED <<host, near, kind, fetch>>
  /\ LET n == PutOrder[IF Is(sender, "put") THEN 1 ELSE 2] IN
       far' \in {[far EXCEPT ![Partial(n)] = Nothing]} \cup
                (IF kind = "rclone" THEN {[far EXCEPT ![n] = f] : f \in Cuts(host[n])} ELSE {})

\* uploadArchive believes the listing: both are there, with the right sizes.
ConfirmUpload ==
  /\ Is(sender, "confirm") /\ Unharmed /\ UNCHANGED <<host, far, near, kind, fetch>>
  /\ Sends(IF \A n \in {"age", "header"} : far[n].there /\ Size(far[n]) = Size(host[n])
           THEN "done" ELSE "failed")

\* A process that dies keeps no promise: what it was writing stays cut.
Killed ==
  /\ sender.at \notin {"done", "failed"} /\ Sends("failed") /\ Harmed /\ UNCHANGED <<near, kind, fetch>>
  /\ \/ /\ \E n \in {"plain", "age"} :
             host[Partial(n)].there /\ host' \in {[host EXCEPT ![Partial(n)] = f] : f \in Cuts(host[Partial(n)])}
        /\ UNCHANGED far
     \/ /\ \E n \in {"age", "header"} :
             far[Partial(n)].there /\ far' \in {[far EXCEPT ![Partial(n)] = f] : f \in Cuts(far[Partial(n)])}
        /\ UNCHANGED host
     \/ /\ host' = IF Is(sender, "header") THEN [host EXCEPT !["header"] = Empty] ELSE host
        /\ UNCHANGED far
     \/ /\ kind = "rclone" /\ sender.at \in {"put", "put header"} /\ UNCHANGED host
        /\ LET n == PutOrder[IF Is(sender, "put") THEN 1 ELSE 2] IN
             far' \in {[far EXCEPT ![n] = f] : f \in Cuts(host[n])}

Backup ==
  \/ BeginArchive \/ AddStream \/ FinishArchive \/ WriteFails \/ EncryptFile \/ RenameEncrypted
  \/ WriteHeader \/ RemovePlain \/ EncryptFails \/ Upload \/ UploadFails \/ ConfirmUpload \/ Killed

-----------------------------------------------------------------------------
(* What happens to a stored archive. *)

\* Somebody serves the archive of the host over https, encrypted or not.
Publish ==
  /\ kind = "web" /\ Unharmed /\ UNCHANGED <<host, near, kind, sender, fetch>>
  /\ \E n \in {"plain", "age"} :
       /\ host[n].there /\ ~far[n].there
       /\ far' = [far EXCEPT ![n] = host[n], !["header"] = IF n = "age" THEN host["header"] ELSE @]

\* A member changes and keeps its size.
Spoil ==
  /\ Harmed /\ UNCHANGED <<host, near, kind, sender, fetch>>
  /\ \E n \in {"plain", "age"}, m \in {Members[i] : i \in 1..4} :
       /\ \E i \in 1..Len(far[n].body) : far[n].body[i] = m
       /\ far' = [far EXCEPT ![n].spoilt = @ \cup {m}]

\* pruneRemote: the archive, then its header.
PruneObject ==
  /\ Is(sender, "done") /\ Unharmed /\ UNCHANGED <<host, near, kind, sender, fetch>>
  /\ \/ far["age"].there /\ far' = [far EXCEPT !["age"] = Nothing]
     \/ ~far["age"].there /\ far["header"].there /\ far' = [far EXCEPT !["header"] = Nothing]

-----------------------------------------------------------------------------
(* The restore or the verification, on any host. *)

FetchGoes(step) == fetch' = [fetch EXCEPT !.at = step]
Here == UNCHANGED <<host, far, kind, sender>>

\* listRemote reads every header; without a file name the first archive whose
\* header is readable is taken, by its name any archive is.
Readable(f) == f.there /\ f.body # <<>> /\ ~f.torn
PickRemote ==
  /\ Is(fetch, "idle") /\ kind # "web" /\ far["age"].there /\ Here /\ Unharmed /\ UNCHANGED near
  /\ \E from \in {"newest", "named"} :
       /\ from = "newest" => Readable(far["header"])
       /\ fetch' = [at |-> "pull", from |-> from, size |-> Size(far["age"])]

\* download: through a partial file, an error takes it away; the archive goes
\* again when its header cannot be had.
Download ==
  /\ fetch.at \in {"pull", "pull header"} /\ Here
  /\ LET n == IF Is(fetch, "pull") THEN "age" ELSE "header" IN
       \/ /\ far[n].there /\ ~near[Partial(n)].there /\ Unharmed /\ UNCHANGED fetch
          /\ near' = [near EXCEPT ![Partial(n)] = far[n]]
       \/ /\ near[Partial(n)].there /\ Unharmed
          /\ near' = [near EXCEPT ![n] = near[Partial(n)], ![Partial(n)] = Nothing]
          /\ FetchGoes(IF Is(fetch, "pull") THEN "pull header" ELSE "size")
       \/ /\ \/ Harmed
             \/ ~far[n].there /\ ~near[Partial(n)].there /\ Unharmed
          /\ near' = [near EXCEPT ![Partial(n)] = Nothing, !["age"] = Nothing] /\ FetchGoes("refused")

CheckSize ==
  /\ Is(fetch, "size") /\ Here /\ Unharmed
  /\ IF Size(near["age"]) = fetch.size
     THEN UNCHANGED near /\ FetchGoes("decrypt")
     ELSE near' = [near EXCEPT !["age"] = Nothing, !["header"] = Nothing] /\ FetchGoes("refused")

\* httpGet: a body of a known length is complete or refused; without one, a
\* connection that closes early looks like the end.
HttpGet ==
  /\ Is(fetch, "idle") /\ kind = "web" /\ Here
  /\ \E n \in {"plain", "age"}, known \in BOOLEAN :
       /\ far[n].there /\ (n = "age" => Readable(far["header"]))
       /\ \/ /\ Unharmed /\ near' = [near EXCEPT ![n] = far[n]]
             /\ fetch' = [at |-> IF n = "age" THEN "decrypt" ELSE "peek", from |-> "https", size |-> 0]
          \/ /\ Harmed /\ ~known
             /\ near' \in {[near EXCEPT ![n] = f] : f \in Cuts(far[n]) \ {g \in Cuts(far[n]) : Size(g) = 0}}
             /\ fetch' = [at |-> IF n = "age" THEN "decrypt" ELSE "peek", from |-> "https", size |-> 0]
          \/ /\ Harmed /\ known /\ UNCHANGED near
             /\ fetch' = [at |-> "refused", from |-> "https", size |-> 0]

\* A restore on the host itself reads the file that is there, whatever became
\* of the backup that wrote it.
ReadLocal ==
  /\ Is(fetch, "idle") /\ Here /\ Unharmed
  /\ \E n \in {"plain", "age"} :
       /\ host[n].there
       /\ near' = [near EXCEPT ![n] = host[n]]
       /\ fetch' = [at |-> IF n = "age" THEN "decrypt" ELSE "peek", from |-> "local", size |-> 0]

\* age authenticates every chunk and the end of the file.
Decrypt ==
  /\ Is(fetch, "decrypt") /\ Here /\ Unharmed
  /\ IF Whole(near["age"]) /\ near["age"].spoilt = {}
     THEN near' = [near EXCEPT !["plain"] = near["age"]] /\ FetchGoes("peek")
     ELSE UNCHANGED near /\ FetchGoes("refused")

\* PeekHeader: the first member is the header and it parses.
PeekHeader ==
  /\ Is(fetch, "peek") /\ Here /\ Unharmed /\ UNCHANGED near
  /\ LET f == near["plain"] IN
       FetchGoes(IF Len(f.body) > 0 /\ f.body[1] = "header" /\ "header" \notin f.spoilt THEN "extract" ELSE "refused")

\* Extract: every member as it is in the file, the manifest last.
Extracts(f) == f.body # <<>> /\ ~f.torn /\ f.body[Len(f.body)] = "manifest" /\ f.body[1] = "header"
Extract ==
  /\ Is(fetch, "extract") /\ Here /\ Unharmed /\ UNCHANGED near
  /\ FetchGoes(IF Extracts(near["plain"]) THEN "members" ELSE "refused")

\* Mutant of Verified: the sizes are compared, the checksums are not.
VerifiedSizes(f) == \A i \in 1..3 : \E j \in 1..Len(f.body) : f.body[j] = Members[i]

\* verifyMembers: what the manifest lists is there with the checksum it had.
\* The manifest has none: a spoilt one may still be JSON.
Verified(f) ==
  \A i \in 1..3 : (\E j \in 1..Len(f.body) : f.body[j] = Members[i]) /\ Members[i] \notin f.spoilt

VerifyMembers ==
  /\ Is(fetch, "members") /\ Here /\ Unharmed /\ UNCHANGED near
  /\ \/ Verified(near["plain"]) /\ FetchGoes("accepted")
     \/ (~Verified(near["plain"]) \/ "manifest" \in near["plain"].spoilt) /\ FetchGoes("refused")

FetchKilled ==
  /\ fetch.at \in {"pull", "pull header", "size"} /\ FetchGoes("refused") /\ Harmed /\ Here
  /\ near' \in {near} \cup
       UNION {{[near EXCEPT ![Partial(n)] = f] : f \in IF near[Partial(n)].there THEN Cuts(near[Partial(n)]) ELSE {}} :
              n \in {"age", "header"}}

Fetch ==
  \/ PickRemote \/ Download \/ CheckSize \/ HttpGet \/ ReadLocal
  \/ Decrypt \/ PeekHeader \/ Extract \/ VerifyMembers \/ FetchKilled

TransitNext == Backup \/ Publish \/ Spoil \/ PruneObject \/ Fetch

TransitSpec == TransitInit /\ [][TransitNext]_tvars

\* Both sides have ended.
Settled == sender.at \in {"done", "failed"} /\ fetch.at \in {"idle", "accepted", "refused"}

-----------------------------------------------------------------------------
\* What a restore or a verification accepts is what the backup wrote, member
\* by member, wherever it was cut, spoilt, killed or served without a length.
\* The manifest of an archive that was never encrypted is the exception.
AcceptedWhole ==
  Is(fetch, "accepted") =>
    LET f == near["plain"] IN Whole(f) /\ f.spoilt \subseteq (IF f.sealed THEN {} ELSE {"manifest"})

\* A file that has the name of an archive is a whole archive: in the backups
\* directory, on a target from the moment its header makes it the newest, and
\* where it was pulled to, whatever was killed or failed on the way.
LandedWhole ==
  /\ \A n \in {"plain", "age"} : host[n].there => Whole(host[n])
  /\ far["age"].there /\ Readable(far["header"]) => Whole(far["age"])
  /\ near["age"].there /\ fetch.from = "newest" => Whole(near["age"])

\* Nothing cut, spoilt or half written passes for an archive, to a reader or by
\* its name.
ArchivesWhole == AcceptedWhole /\ LandedWhole
=============================================================================
