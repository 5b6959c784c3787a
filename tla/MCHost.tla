------------------------------- MODULE MCHost -------------------------------
(***************************************************************************)
(* Runs the models of what ffm keeps on the machine beside its benches:    *)
(* the state store, the texts and files it edits for MCP clients, the      *)
(* hourly job, its own binary, the shared proxy and the tunnels.  They     *)
(* share no state, so part chooses the one that moves (MCBenches says why  *)
(* that is enough).                                                        *)
(***************************************************************************)
EXTENDS StateStore, McpInstall, HourlyJob, Tunnel, SelfUpdate, Proxy, TLC

VARIABLES
  json, toml, refused, before, edits,                                           \* ConfigText
  part

config  == <<json, toml, refused, before, edits>>

Symmetry == Permutations(Procs) \cup Permutations(Benches)

-----------------------------------------------------------------------------
\* Up to three servers in a JSON object: comments and line breaks of every kind
\* around one, fewer around two or three; TOML texts of up to five lines.
Short  == {<<>>, <<"nl">>, <<"multi">>}
Mid    == Short \cup {<<"line", "nl">>}
Long   == Mid \cup {<<"nl", "multi">>, <<"multi", "nl">>, <<"block">>, <<"nl", "block">>, <<"block", "nl">>,
                    <<"sp", "block", "sp">>}
MCGaps == [n \in 0..3 |-> IF n = 3 THEN Short ELSE IF n = 2 THEN Mid ELSE Long]

Lines  == {"blank", "note", "key", "main", "sub", "other", "open", "close", "servers", "dotted"}
MCToml == UNION {[1..n -> Lines] : n \in 0..3} \cup [1..4 -> Lines \ {"servers", "dotted"}]
            \cup [1..5 -> {"main", "sub", "other", "key"}]

C == INSTANCE ConfigText WITH Entries <- <<"a", "b", "c">>, Gaps <- MCGaps, TomlTexts <- MCToml, MaxEdits <- 1

-----------------------------------------------------------------------------
\* Each part starts in all its initial states, the others in one of theirs.
HostInit ==
  /\ part \in {"store", "config", "mcp", "hourly", "binary", "traefik", "tunnels"}
  /\ Init
  /\ IF part = "config" THEN C!ConfigInit ELSE C!Start(<<"{", "}">>, <<>>)
  /\ (part # "mcp" => files = [p \in Paths |-> Missing] /\ installed = FALSE /\ claude = NoEntry) /\ McpInit
  /\ (part # "hourly" => host = [os |-> "windows", crontab |-> FALSE, daemon |-> FALSE, systemctl |-> FALSE])
       /\ HourlyInit
  /\ (part # "binary" => system = "unix") /\ UpdateInit
  /\ (part # "traefik" => container = Gone /\ network = TRUE) /\ ProxyInit
  /\ (part # "tunnels" => profiles = {}) /\ TunnelInit

HostNext ==
  /\ part' = part
  /\ \/ part = "store"   /\ Next /\ UNCHANGED <<config, mvars, hvars, uvars, pvars, tvars>>
     \/ part = "config"  /\ C!ConfigNext /\ UNCHANGED <<vars, mvars, hvars, uvars, pvars, tvars>>
     \/ part = "mcp"     /\ McpNext /\ UNCHANGED <<vars, config, hvars, uvars, pvars, tvars>>
     \/ part = "hourly"  /\ HourlyNext /\ UNCHANGED <<vars, config, mvars, uvars, pvars, tvars>>
     \/ part = "binary"  /\ UpdateNext /\ UNCHANGED <<vars, config, mvars, hvars, pvars, tvars>>
     \/ part = "traefik" /\ ProxyNext /\ UNCHANGED <<vars, config, mvars, hvars, uvars, tvars>>
     \/ part = "tunnels" /\ TunnelNext /\ UNCHANGED <<vars, config, mvars, hvars, uvars, pvars>>
     \/ /\ part # "store"    \* nothing more is asked than the bounds allow
        /\ UNCHANGED <<vars, config, mvars, hvars, uvars, pvars, tvars>>

HostSpec == HostInit /\ [][HostNext]_<<vars, config, mvars, hvars, uvars, pvars, tvars, part>>
-----------------------------------------------------------------------------
\* Editing the JSON or TOML text of a client changes its own entry or table and
\* nothing else (EditJSON, RemoveJSON, editTOML, removeTOML).
EditsClean == C!EditsClean /\ C!TablesKept
=============================================================================
