------------------------------- MODULE Tunnel -------------------------------
(***************************************************************************)
(* Publishing a bench: the frpc container of a bench and the server        *)
(* profiles of tunnel.json (manager/tunnel_ops.go, tunnel/), and the host  *)
(* name that 'ffm set-proxy' and the tunnel give the site                  *)
(* (manager/setproxy.go).  None of these calls takes the bench lock: each  *)
(* reads the record once and writes it back at its end.  Two benches, and  *)
(* two calls on one bench, interleave; every command may fail, and a call  *)
(* may be killed between two of them.                                      *)
(***************************************************************************)
EXTENDS Naturals

CONSTANTS Callers, Benches,    \* a bench's name is also its default subdomain
          Servers, Hosts, MaxTrouble, MaxCalls

None == "none"
ASSUME TunnelAssumption == None \notin Servers

Off == [server |-> None, subdomain |-> None]

Tunnels == [server : Servers, subdomain : Benches]
\* The public URL of a tunnel (PublicURLFromParts), and other host names; Direct
\* is the bench's own name, recorded as "" (dev) or as its domain (prod).
Url(t) == [server |-> t.server, subdomain |-> t.subdomain]
Direct == Off
Plain(host) == [server |-> None, subdomain |-> host]

VARIABLES profiles, default,   \* tunnel.json
          record,     \* per bench: tunnel and proxyHost of benches.json
          frpcToml,   \* frpc.toml
          frpc,       \* the frpc container: status, and the file it read when it came up
          hostName,   \* the site's host_name
          calls,
          tkept,      \* per bench: the tunnel, and the host name, are as recorded
          raced,      \* two calls that enable a tunnel overlapped
          trouble, begun

tvars == <<profiles, default, record, frpcToml, frpc, hostName, calls, tkept, raced, trouble, begun>>
tunnelFiles == <<profiles, default, record, frpcToml, frpc, hostName>>

NoContainer == [status |-> "", loaded |-> Off]
Rest == [at |-> "idle", kind |-> "none", bench |-> None, tunnel |-> Off, host |-> Direct,
         warned |-> FALSE, blind |-> FALSE, alone |-> TRUE]

TunnelInit ==
  /\ profiles \in SUBSET Servers
  /\ default \in IF profiles = {} THEN {None} ELSE profiles
  /\ record = [b \in Benches |-> [tunnel |-> Off, proxyHost |-> Direct]]
  /\ frpcToml = [b \in Benches |-> Off]
  /\ frpc = [b \in Benches |-> NoContainer]
  /\ hostName = [b \in Benches |-> Direct]
  /\ calls = [c \in Callers |-> Rest]
  /\ tkept = [b \in Benches |-> [tunnel |-> TRUE, host |-> TRUE]]
  /\ raced = FALSE /\ trouble = 0 /\ begun = 0

Trouble == trouble < MaxTrouble /\ trouble' = trouble + 1
Goes(c, at) == calls' = [calls EXCEPT ![c].at = at]
Busy(b) == {c \in Callers : calls[c].at # "idle" /\ calls[c].bench = b}

\* A call that ends well, alone on its bench and without a warning, keeps what
\* it says - of frpc only if it saw frpc when it looked (blind); any other
\* ending says nothing of what it may have touched.
Ends(c, tunnel, host) ==
  /\ calls' = [calls EXCEPT ![c] = Rest]
  /\ tkept' = [tkept EXCEPT ![calls[c].bench] = [tunnel |-> tunnel, host |-> host]]
EndsWell(c) ==
  LET well == calls[c].alone /\ ~calls[c].warned IN Ends(c, well /\ ~calls[c].blind, well)
Fails(c) == Ends(c, FALSE, FALSE)
Refuses(c) == Ends(c, tkept[calls[c].bench].tunnel, tkept[calls[c].bench].host)

------------------------------------------------------------------------------
\* The profiles change under the lock of tunnel.json, in one step each; the
\* first profile becomes the default, and removing the default names another.
PutServer(s) ==
  /\ profiles' = profiles \cup {s}
  /\ default' \in {IF default = None THEN s ELSE default, s}
RemoveServer(s) ==
  /\ s \in profiles
  /\ profiles' = profiles \ {s}
  /\ default' = CASE default # s -> default
                  [] default = s /\ profiles' = {} -> None
                  [] OTHER -> CHOOSE d \in profiles' : TRUE
UseServer(s) == s \in profiles /\ default' = s /\ UNCHANGED profiles

EditProfiles ==
  /\ begun < MaxCalls /\ begun' = begun + 1
  /\ \E s \in Servers : PutServer(s) \/ RemoveServer(s) \/ UseServer(s)
  /\ UNCHANGED <<record, frpcToml, frpc, hostName, calls, tkept, raced, trouble>>

Begin(c) ==
  /\ calls[c] = Rest /\ begun < MaxCalls /\ begun' = begun + 1
  /\ \E b \in Benches, kind \in {"enable", "disable", "start", "proxy", "reset"} :
       /\ calls' = [d \in Callers |->
            IF d = c THEN [Rest EXCEPT !.at = kind, !.kind = kind, !.bench = b, !.alone = Busy(b) = {}]
            ELSE [calls[d] EXCEPT !.alone = @ /\ d \notin Busy(b)]]
       /\ raced' = (raced \/ (kind = "enable" /\ \E d \in Callers : calls[d].kind = "enable"))
  /\ UNCHANGED <<tunnelFiles, tkept, trouble>>

\* TunnelEnable: the server asked for, the recorded one or the default, and the
\* subdomain asked for, the recorded one or the bench's name.
Server(b, asked) ==
  CASE asked # None -> asked
    [] asked = None /\ record[b].tunnel # Off -> record[b].tunnel.server
    [] OTHER -> default
Subdomain(b, asked) ==
  CASE asked # None -> asked
    [] asked = None /\ record[b].tunnel # Off -> record[b].tunnel.subdomain
    [] OTHER -> b

Taken(b, t) == \E other \in Benches \ {b} : record[other].tunnel = t

TunnelEnable(c) ==
  /\ calls[c].at = "enable"
  /\ \E s \in Servers \cup {None}, d \in Benches \cup {None} :
       LET b == calls[c].bench
           t == [server |-> Server(b, s), subdomain |-> Subdomain(b, d)]
       IN  \/ t.server \notin profiles /\ Refuses(c)
           \/ t.server \in profiles /\ UNCHANGED tkept
              /\ calls' = [calls EXCEPT ![c].tunnel = t, ![c].host = Url(t), ![c].at = "unique"]
  /\ UNCHANGED <<tunnelFiles, raced, trouble, begun>>

CheckUnique(c) ==
  /\ calls[c].at = "unique"
  /\ IF Taken(calls[c].bench, calls[c].tunnel) THEN Refuses(c) ELSE Goes(c, "toml") /\ UNCHANGED tkept
  /\ UNCHANGED <<tunnelFiles, raced, trouble, begun>>

WriteFrpcToml(c) ==
  /\ calls[c].at = "toml"
  /\ \/ frpcToml' = [frpcToml EXCEPT ![calls[c].bench] = calls[c].tunnel] /\ Goes(c, "exists") /\ UNCHANGED <<tkept, trouble>>
     \/ Trouble /\ Fails(c) /\ frpcToml' = [frpcToml EXCEPT ![calls[c].bench] = Off]
  /\ UNCHANGED <<profiles, default, record, frpc, hostName, raced, begun>>

\* As ExistsGoes, starting whatever there is.
ExistsGoesUp(status) == "up"

\* An existing container is removed and created again so that it reads the new
\* file; a missing one is created.
ExistsGoes(status) == IF status # "" THEN "rm" ELSE "up"

\* containerStatus: a docker inspect that fails reads as no container, and says
\* nothing.  The call goes on without having seen the container there is.
LooksBlind(c) == frpc[calls[c].bench].status # "" /\ Trouble
GoesBlind(c, at) == calls' = [calls EXCEPT ![c].at = at, ![c].blind = TRUE]

FrpcExists(c) ==
  /\ calls[c].at = "exists"
  /\ \/ Goes(c, ExistsGoes(frpc[calls[c].bench].status)) /\ UNCHANGED trouble
     \/ LooksBlind(c) /\ GoesBlind(c, ExistsGoes(""))
  /\ UNCHANGED <<tunnelFiles, tkept, raced, begun>>

\* tunnel.Stop: a look and docker rm -f; a failing rm is only a warning when a
\* tunnel is disabled.
AfterStop(c) == IF calls[c].kind = "enable" THEN "run" ELSE "save"
RemoveFrpc(c) ==
  /\ calls[c].at = "rm"
  /\ LET b == calls[c].bench
     IN  \/ /\ frpc' = [frpc EXCEPT ![b] = NoContainer]
            /\ Goes(c, AfterStop(c)) /\ UNCHANGED <<tkept, trouble>>
         \/ LooksBlind(c) /\ GoesBlind(c, AfterStop(c)) /\ UNCHANGED <<frpc, tkept>>
         \/ /\ frpc[b] # NoContainer /\ Trouble /\ UNCHANGED frpc
            /\ IF calls[c].kind = "enable" THEN Fails(c)
               ELSE calls' = [calls EXCEPT ![c].at = "save", ![c].warned = TRUE] /\ UNCHANGED tkept
  /\ UNCHANGED <<profiles, default, record, frpcToml, hostName, raced, begun>>

Loaded(b) == [status |-> "running", loaded |-> frpcToml[b]]
AfterUp(c) == IF calls[c].kind = "enable" THEN Goes(c, "save") /\ UNCHANGED tkept ELSE Refuses(c)
UpFails(c) == IF calls[c].kind = "enable" THEN Fails(c) ELSE Refuses(c)

\* docker run: refuses a name in use, and may leave a container that never ran.
RunFrpc(c) ==
  /\ calls[c].at = "run"
  /\ LET b == calls[c].bench
     IN  \/ frpc[b] = NoContainer /\ frpc' = [frpc EXCEPT ![b] = Loaded(b)] /\ AfterUp(c) /\ UNCHANGED trouble
         \/ frpc[b] # NoContainer /\ UpFails(c) /\ UNCHANGED <<frpc, trouble>>
         \/ /\ frpc[b] = NoContainer /\ Trouble /\ Fails(c)
            /\ frpc' \in {frpc, [frpc EXCEPT ![b].status = "created"]}
  /\ UNCHANGED <<profiles, default, record, frpcToml, hostName, raced, begun>>

\* tunnel.Start: nothing to do for one that runs, docker start for one that
\* does not, and a new container when there is none, or none was seen: docker
\* run refuses that one.
StartFrpc(c) ==
  /\ calls[c].at = "up"
  /\ LET b == calls[c].bench
     IN  \/ frpc[b].status = "running" /\ AfterUp(c) /\ UNCHANGED <<frpc, trouble>>
         \/ frpc[b].status = "" /\ Goes(c, "run") /\ UNCHANGED <<frpc, tkept, trouble>>
         \/ LooksBlind(c) /\ Goes(c, "run") /\ UNCHANGED <<frpc, tkept>>
         \/ /\ frpc[b].status \notin {"", "running"}
            /\ \/ frpc' = [frpc EXCEPT ![b] = Loaded(b)] /\ AfterUp(c) /\ UNCHANGED trouble
               \/ Trouble /\ Fails(c) /\ UNCHANGED frpc
  /\ UNCHANGED <<profiles, default, record, frpcToml, hostName, raced, begun>>

\* Starting a bench starts its recorded tunnel; trouble with it is a warning.
StartBench(c) ==
  /\ calls[c].at = "start"
  /\ LET t == record[calls[c].bench].tunnel
     IN  IF t = Off \/ t.server \notin profiles THEN Refuses(c) ELSE Goes(c, "up") /\ UNCHANGED tkept
  /\ UNCHANGED <<tunnelFiles, raced, trouble, begun>>

TunnelDisable(c) ==
  /\ calls[c].at = "disable"
  /\ IF record[calls[c].bench].tunnel = Off THEN Refuses(c) ELSE Goes(c, "rm") /\ UNCHANGED tkept
  /\ UNCHANGED <<tunnelFiles, raced, trouble, begun>>

\* The record: after the container for a tunnel, after the commands for the rest.
Saved(call) ==
  CASE call.kind = "enable" -> [tunnel |-> call.tunnel, proxyHost |-> call.host]
    [] call.kind = "disable" -> [tunnel |-> Off, proxyHost |-> Direct]
Save(c) ==
  /\ calls[c].at = "save"
  /\ \/ /\ record' = [record EXCEPT ![calls[c].bench] = Saved(calls[c])]
        /\ Goes(c, "host") /\ UNCHANGED <<tkept, trouble>>
     \/ Trouble /\ Fails(c) /\ UNCHANGED record
  /\ UNCHANGED <<profiles, default, frpcToml, frpc, hostName, raced, begun>>

------------------------------------------------------------------------------
\* SetProxy, with a host or without, and its reset.
SetProxy(c) ==
  /\ calls[c].at \in {"proxy", "reset"}
  /\ \E h \in IF calls[c].at = "proxy" THEN {Plain(x) : x \in Hosts} \cup {Off} ELSE {Direct} :
       calls' = [calls EXCEPT ![c].host = h, ![c].at = "host"]
  /\ UNCHANGED <<tunnelFiles, tkept, raced, trouble, begun>>

Warns(c) == calls[c].kind \in {"enable", "disable"}
NoHost(c) == calls[c].kind = "proxy" /\ calls[c].host = Off

\* set-config host_name in the container: a tunnel call only warns when it
\* fails.  set-proxy without a host leaves the site's name alone.
SetHostName(c) ==
  /\ calls[c].at = "host"
  /\ LET b == calls[c].bench
     IN  \/ /\ hostName' = IF NoHost(c) THEN hostName ELSE [hostName EXCEPT ![b] = calls[c].host]
            /\ IF calls[c].kind = "enable" THEN EndsWell(c) ELSE Goes(c, "note") /\ UNCHANGED tkept
            /\ UNCHANGED trouble
         \/ Trouble /\ UNCHANGED hostName /\ Ends(c, tkept[b].tunnel /\ ~Warns(c), FALSE)
  /\ UNCHANGED <<profiles, default, record, frpcToml, frpc, raced, begun>>

\* ProxyHost is recorded last; that failing is a warning.
NoteProxyHost(c) ==
  /\ calls[c].at = "note"
  /\ LET b == calls[c].bench
     IN  \/ /\ record' = [record EXCEPT ![b].proxyHost = calls[c].host] /\ UNCHANGED trouble
            /\ IF calls[c].kind = "disable" THEN EndsWell(c)
               ELSE Ends(c, tkept[b].tunnel, calls[c].alone /\ ~NoHost(c))
         \/ Trouble /\ UNCHANGED record /\ Ends(c, tkept[b].tunnel /\ ~Warns(c), FALSE)
  /\ UNCHANGED <<profiles, default, frpcToml, frpc, hostName, raced, begun>>

\* A call is killed; a container stops by itself (its machine went down).
Killed(c) ==
  /\ calls[c].at # "idle" /\ Trouble /\ Fails(c)
  /\ UNCHANGED <<tunnelFiles, raced, begun>>
FrpcExits ==
  /\ Trouble
  /\ \E b \in Benches : /\ frpc[b].status = "running"
                        /\ frpc' = [frpc EXCEPT ![b].status = "exited"]
                        /\ tkept' = [tkept EXCEPT ![b].tunnel = FALSE]
                        /\ calls' = [c \in Callers |->
                                      [calls[c] EXCEPT !.alone = @ /\ c \notin Busy(b)]]
  /\ UNCHANGED <<profiles, default, record, frpcToml, hostName, raced, begun>>

TunnelNext ==
  \/ EditProfiles \/ FrpcExits
  \/ \E c \in Callers :
       \/ Begin(c) \/ TunnelEnable(c) \/ CheckUnique(c) \/ WriteFrpcToml(c) \/ FrpcExists(c) \/ RemoveFrpc(c)
       \/ RunFrpc(c) \/ StartFrpc(c) \/ StartBench(c) \/ TunnelDisable(c) \/ Save(c) \/ SetProxy(c)
       \/ SetHostName(c) \/ NoteProxyHost(c) \/ Killed(c)

TunnelSpec == TunnelInit /\ [][TunnelNext]_tvars

------------------------------------------------------------------------------
\* Once the calls on a bench ended well and alone, frpc publishes exactly the
\* server and subdomain the record names, and runs not at all without a
\* recorded tunnel; the site's host name is the recorded one; and unless two
\* calls raced, no two benches hold one subdomain of a server (TunnelEnable,
\* TunnelDisable, SetProxy).  Of frpc nothing is said after a call one of whose
\* docker inspects failed: containerStatus (frpc.go:100-108) answers "no
\* container", so that a disable leaves frpc publishing (frpc.go:157-160) and an
\* enable leaves it with its old file (tunnel_ops.go:79-87), without a word.
PublishedAsSaid ==
  /\ \A b \in Benches : Busy(b) = {} =>
       /\ tkept[b].tunnel =>
            frpc[b] = IF record[b].tunnel = Off THEN NoContainer
                      ELSE [status |-> "running", loaded |-> record[b].tunnel]
       /\ tkept[b].host => hostName[b] = record[b].proxyHost
  /\ ~raced => \A a, b \in Benches :
       a # b => record[a].tunnel = Off \/ record[a].tunnel # record[b].tunnel

==============================================================================
