------------------------------- MODULE Proxy -------------------------------
(***************************************************************************)
(* The shared Traefik container (proxy/proxy.go): 'ffm proxy start' and    *)
(* 'stop', and EnsureHTTPS of the creation of a production bench.  A call  *)
(* looks at the container with one docker inspect and then acts in several *)
(* docker commands, any of which may fail; no lock keeps two calls apart.  *)
(* docker is external: `run' refuses a name in use, `rm' a running         *)
(* container, and a restart may lose the network or the ports.             *)
(***************************************************************************)
EXTENDS Naturals

CONSTANTS ProxyCallers, Emails, MaxProxyTrouble, MaxProxyCalls

Images == {"pinned", "older"}
NoEmail == "none"

\* The creation of a production bench with HTTPS requires an email (create.go:178).
ASSUME ProxyAssumption == NoEmail \notin Emails

\* What one docker inspect says: containerInfo, with Attached, Published80 and
\* Published443 as one flag.
Gone == [status |-> "", image |-> "pinned", serving |-> FALSE, https |-> FALSE, email |-> NoEmail]
Made(status, https, email) ==
  [status |-> status, image |-> "pinned", serving |-> status = "running",
   https |-> https, email |-> email]

VARIABLES container, network,
          pcalls,     \* the call each process makes
          promised,   \* what the calls that succeeded promised: HTTPS, and to serve
          disturbed,  \* since then one failed, was killed or overlapped another
          ptrouble, asked

pvars == <<container, network, pcalls, promised, disturbed, ptrouble, asked>>

NoCall == [at |-> "idle", kind |-> "none", info |-> Gone, email |-> NoEmail]

ProxyInit ==
  /\ container \in {Gone} \cup {[Made("running", FALSE, NoEmail) EXCEPT !.image = i] : i \in Images}
  /\ network \in {container.status # "", TRUE}
  /\ pcalls = [c \in ProxyCallers |-> NoCall]
  /\ promised = [https |-> FALSE, serving |-> FALSE]
  /\ disturbed = FALSE /\ ptrouble = 0 /\ asked = 0

ProxyTrouble == ptrouble < MaxProxyTrouble /\ ptrouble' = ptrouble + 1
ProxyGoes(c, at) == pcalls' = [pcalls EXCEPT ![c].at = at]

\* A call that returns nil promises what it leaves, on top of what earlier calls
\* promised; one that fails voids the promises, until a call succeeds alone.
Alone(c) == \A d \in ProxyCallers \ {c} : pcalls[d] = NoCall
Succeeds(c, left) ==
  /\ pcalls' = [pcalls EXCEPT ![c] = NoCall]
  /\ promised' = [https |-> left.https \/ (~disturbed /\ promised.https),
                  serving |-> pcalls[c].kind = "start" \/ left.serving]
  /\ disturbed' = (disturbed /\ ~Alone(c))
ProxyFails(c) ==
  /\ pcalls' = [pcalls EXCEPT ![c] = NoCall]
  /\ disturbed' = TRUE
  /\ UNCHANGED promised
\* A refusal that touched nothing and says so.
ProxyRefuses(c) == pcalls' = [pcalls EXCEPT ![c] = NoCall] /\ UNCHANGED <<promised, disturbed>>

ProxyBegin(c) ==
  /\ pcalls[c] = NoCall /\ asked < MaxProxyCalls /\ asked' = asked + 1
  /\ \E kind \in {"start", "stop", "https"}, e \in Emails :
       pcalls' = [pcalls EXCEPT ![c] = [NoCall EXCEPT !.kind = kind, !.email = e,
                   !.at = IF kind = "stop" THEN "look" ELSE "network"]]
  /\ disturbed' = (disturbed \/ \E d \in ProxyCallers : pcalls[d] # NoCall)
  /\ UNCHANGED <<container, network, promised, ptrouble>>

EnsureNetwork(c) ==
  /\ pcalls[c].at = "network"
  /\ \/ network' = TRUE /\ ProxyGoes(c, "look") /\ UNCHANGED <<ptrouble, promised, disturbed>>
     \/ ~network /\ ProxyTrouble /\ ProxyFails(c) /\ UNCHANGED network
  /\ UNCHANGED <<container, asked>>

------------------------------------------------------------------------------
\* problem: a running container may hold no endpoint or no published port.
Serving(info) == info.status = "running" /\ info.serving

\* Start, Stop and EnsureHTTPS decide on what inspect said.
StartGoes(info) ==
  CASE info.status = "running" -> IF info.serving THEN "refuse" ELSE "recreate"
    [] info.status \in {"exited", "created"} -> IF info.image = "older" THEN "recreate" ELSE "start"
    [] info.status = "" -> "run"
    [] OTHER -> "refuse"

StopGoes(info) == IF info.status = "running" THEN "stop" ELSE "refuse"

HttpsGoes(info) ==
  CASE info.status = "running" -> "supports"
    [] info.status \in {"exited", "created"} -> "rm"
    [] info.status = "" -> "run"
    [] OTHER -> "refuse"

Then(kind, info) ==
  CASE kind = "start" -> StartGoes(info)
    [] kind = "stop" -> StopGoes(info)
    [] kind = "https" -> HttpsGoes(info)

\* A failing inspect reads as no container.
Look(c) ==
  /\ pcalls[c].at = "look"
  /\ \E info \in {container, Gone} :
       /\ IF info = container THEN UNCHANGED ptrouble ELSE ProxyTrouble
       /\ pcalls' = [pcalls EXCEPT ![c].info = info, ![c].at = Then(pcalls[c].kind, info)]
  /\ UNCHANGED <<container, network, promised, disturbed, asked>>

Refuse(c) ==
  /\ pcalls[c].at = "refuse" /\ ProxyRefuses(c)
  /\ UNCHANGED <<container, network, ptrouble, asked>>

\* EnsureHTTPS asks again whether the running container was made with 443.
SupportsHTTPS(c) ==
  /\ pcalls[c].at = "supports"
  /\ IF container.https THEN Succeeds(c, container) ELSE ProxyGoes(c, "stop") /\ UNCHANGED <<promised, disturbed>>
  /\ UNCHANGED <<container, network, ptrouble, asked>>

\* docker start: the container comes up, perhaps without its network or ports,
\* and is looked at again.
Restart(c) ==
  /\ pcalls[c].at = "start"
  /\ \/ /\ container.status \in {"exited", "created"}
        /\ \E s \in BOOLEAN : /\ container' = [container EXCEPT !.status = "running", !.serving = s]
                              /\ IF s THEN UNCHANGED ptrouble ELSE ProxyTrouble
        /\ ProxyGoes(c, "after") /\ UNCHANGED <<promised, disturbed>>
     \/ container.status = "running" /\ ProxyGoes(c, "after") /\ UNCHANGED <<container, promised, disturbed, ptrouble>>
     \/ container.status = "" /\ ProxyFails(c) /\ UNCHANGED <<container, ptrouble>>
     \/ ProxyTrouble /\ ProxyFails(c) /\ UNCHANGED container
  /\ UNCHANGED <<network, asked>>

\* As After, without another look.
AfterUnseen(c) ==
  /\ pcalls[c].at = "after" /\ Succeeds(c, container)
  /\ UNCHANGED <<container, network, ptrouble, asked>>

After(c) ==
  /\ pcalls[c].at = "after"
  /\ IF Serving(container) THEN Succeeds(c, container)
     ELSE ProxyGoes(c, "recreate") /\ UNCHANGED <<promised, disturbed>>
  /\ UNCHANGED <<container, network, ptrouble, asked>>

\* recreate keeps HTTPS and its email, and refuses when it cannot read the email.
recreate(c) ==
  /\ pcalls[c].at = "recreate"
  /\ \/ pcalls[c].info.https /\ pcalls[c].info.email = NoEmail /\ ProxyFails(c) /\ UNCHANGED <<container, ptrouble>>
     \/ /\ ~(pcalls[c].info.https /\ pcalls[c].info.email = NoEmail)
        /\ container' = Gone /\ ProxyGoes(c, "run") /\ UNCHANGED <<ptrouble, promised, disturbed>>
     \/ ProxyTrouble /\ ProxyFails(c) /\ UNCHANGED container
  /\ UNCHANGED <<network, asked>>

\* docker stop, for Stop or before EnsureHTTPS removes the container.
StopContainer(c) ==
  /\ pcalls[c].at = "stop"
  /\ \/ /\ container.status # ""
        /\ container' = [container EXCEPT !.status = "exited", !.serving = FALSE]
        /\ IF pcalls[c].kind = "stop" THEN Succeeds(c, container')
           ELSE ProxyGoes(c, "rm") /\ UNCHANGED <<promised, disturbed>>
        /\ UNCHANGED ptrouble
     \/ container.status = "" /\ ProxyFails(c) /\ UNCHANGED <<container, ptrouble>>
     \/ ProxyTrouble /\ ProxyFails(c) /\ UNCHANGED container
  /\ UNCHANGED <<network, asked>>

Remove(c) ==
  /\ pcalls[c].at = "rm"
  /\ \/ /\ container.status \in {"exited", "created"}
        /\ container' = Gone /\ ProxyGoes(c, "run") /\ UNCHANGED <<promised, disturbed, ptrouble>>
     \/ container.status \notin {"exited", "created"} /\ ProxyFails(c) /\ UNCHANGED <<container, ptrouble>>
     \/ ProxyTrouble /\ ProxyFails(c) /\ UNCHANGED container
  /\ UNCHANGED <<network, asked>>

\* As Settings, a start always plain HTTP.
SettingsPlain(call) ==
  IF call.kind = "https" THEN Made("running", TRUE, call.email) ELSE Made("running", FALSE, NoEmail)

\* What docker run is asked for: createContainer or createContainerHTTPS.
Settings(call) ==
  CASE call.kind = "https" -> Made("running", TRUE, call.email)
    [] call.kind = "start" -> Made("running", call.info.https, call.info.email)

\* docker run: a name in use or unprivileged ports leave nothing new, a port in
\* use leaves a container that was never started.
Run(c) ==
  /\ pcalls[c].at = "run"
  /\ \/ container = Gone /\ container' = Settings(pcalls[c]) /\ Succeeds(c, container') /\ UNCHANGED ptrouble
     \/ container # Gone /\ ProxyFails(c) /\ UNCHANGED <<container, ptrouble>>
     \/ /\ container = Gone /\ ProxyTrouble /\ ProxyFails(c)
        /\ container' \in {Gone, [Settings(pcalls[c]) EXCEPT !.status = "created", !.serving = FALSE]}
  /\ UNCHANGED <<network, asked>>

\* A call is killed; the daemon restarts and the container loses its ports, or
\* somebody pauses it.
ProxyKilled(c) ==
  /\ pcalls[c] # NoCall /\ ProxyTrouble /\ ProxyFails(c)
  /\ UNCHANGED <<container, network, asked>>
Shaken ==
  /\ container.status = "running" /\ ProxyTrouble
  /\ container' \in {[container EXCEPT !.serving = FALSE], [container EXCEPT !.status = "paused"]}
  /\ promised' = [promised EXCEPT !.serving = FALSE]
  /\ UNCHANGED <<network, pcalls, disturbed, asked>>

ProxyNext ==
  \/ Shaken
  \/ \E c \in ProxyCallers :
       \/ ProxyBegin(c) \/ EnsureNetwork(c) \/ Look(c) \/ Refuse(c) \/ SupportsHTTPS(c) \/ Restart(c)
       \/ After(c) \/ recreate(c) \/ StopContainer(c) \/ Remove(c) \/ Run(c) \/ ProxyKilled(c)

ProxySpec == ProxyInit /\ [][ProxyNext]_pvars

------------------------------------------------------------------------------
\* As long as every call succeeded or refused and none overlapped another, the
\* proxy that a call made HTTPS stays so with an email through every later stop,
\* start, update and repair, and a start that succeeds leaves a proxy that
\* serves (Start, recreate, EnsureHTTPS).
ProxyAsPromised ==
  ~disturbed /\ (\A c \in ProxyCallers : pcalls[c] = NoCall) =>
    /\ promised.https => container.https /\ container.email # NoEmail
    /\ promised.serving => container.serving

==============================================================================
