------------------------------ MODULE Configs ------------------------------
(***************************************************************************)
(* Which downstream servers a process has, and what a run's names stand    *)
(* for: the reading of the configuration files (config_reader.py), by a    *)
(* stdio process that merges all three files and by a daemon that keeps    *)
(* its own servers and a pool for each project, then the proxies of a run  *)
(* (executor.py: _build_proxies) and the listing of servers (server.py:    *)
(* _merged_views).  Pure functions of the files and of the order in which  *)
(* servers happened to connect.                                            *)
(***************************************************************************)
EXTENDS Naturals, FiniteSets

CONSTANTS
  Names,   \* names of servers, as the files have them
  PyName,  \* server_name_to_py: the identifier of each, not always its own
  Nobody   \* no file, no server

ASSUME ConfigsAssumption ==
  /\ IsFiniteSet(Names)
  /\ PyName \in [Names -> Names]
  /\ Nobody \notin {"global", "settings", "mcp"}

(* mcpServers of a file: a name may be there and disabled.                 *)
Files == [Names -> {"absent", "disabled", "enabled"}]

(* _parse_servers: what the file adds to the servers known so far, each    *)
(* with the file its configuration is from.                                *)
Parsed(file, source, skip, servers) ==
  [n \in Names |->
     IF servers[n] = Nobody /\ n \notin skip /\ file[n] = "enabled"
     THEN source ELSE servers[n]]

ParsedProject(settings, mcp, skip, servers) ==
  Parsed(mcp, "mcp", skip, Parsed(settings, "settings", skip, servers))

NoServers == [n \in Names |-> Nobody]
Known(servers) == {n \in Names : servers[n] # Nobody}

(* load_server_configs; `alone` is CODE_RUNNER_NO_PROJECT_CONFIG.          *)
LoadServerConfigs(global, settings, mcp, skip, alone) ==
  LET own == Parsed(global, "global", skip, NoServers)
  IN  IF alone THEN own ELSE ParsedProject(settings, mcp, skip, own)

(* load_project_server_configs                                             *)
LoadProjectServerConfigs(settings, mcp, skip, exclude) ==
  ParsedProject(settings, mcp, skip \cup exclude, NoServers)

(* What is started, with the configuration of which file.                  *)
StartedFrom(servers) == {<<n, servers[n]>> : n \in Known(servers)}

(* By the daemon, which reads the global file alone, and by the pool of a  *)
(* project, which host_for() denies every name the daemon is configured    *)
(* with, connected or not.                                                 *)
Daemon(global, settings, mcp, skip) ==
  LET own == LoadServerConfigs(global, settings, mcp, skip, TRUE)
  IN  StartedFrom(own) \cup
        StartedFrom(LoadProjectServerConfigs(settings, mcp, skip, Known(own)))
-----------------------------------------------------------------------------
(* A pool's sessions: the servers that are connected, and when each did,   *)
(* which is the order that dictionary has them in.                         *)
Connected ==
  {c \in [on : SUBSET Names, when : [Names -> 1..Cardinality(Names)]] :
     \A n, k \in c.on : c.when[n] = c.when[k] => n = k}

Named(py, c) == {n \in c.on : PyName[n] = py}
First(py, c) == CHOOSE n \in Named(py, c) : \A k \in Named(py, c) : c.when[n] <= c.when[k]
Latest(py, c) == CHOOSE n \in Named(py, c) : \A k \in Named(py, c) : c.when[n] >= c.when[k]

(* _build_proxies: a global server overwrites an earlier one of the same   *)
(* identifier; a project's server is skipped when the identifier is taken. *)
Proxy(py, sessions, extra) ==
  CASE Named(py, sessions) # {} -> <<"global", Latest(py, sessions)>>
    [] Named(py, sessions) = {} /\ Named(py, extra) # {} -> <<"project", First(py, extra)>>
    [] OTHER -> <<"nobody", Nobody>>

(* _merged_views: the name an identifier is listed for, from one of the    *)
(* two maps, and whose tools are listed under that name.                   *)
ListedName(py, sessions, extra) ==
  IF Named(py, sessions) # {} THEN Latest(py, sessions) ELSE Latest(py, extra)

Owner(n, sessions) == IF n \in sessions.on THEN "global" ELSE "project"

(* search_tools(server=py)                                                 *)
Searched(py, sessions, extra) ==
  IF Named(py, sessions) \cup Named(py, extra) = {} THEN <<"nobody", Nobody>>
  ELSE <<Owner(ListedName(py, sessions, extra), sessions),
         ListedName(py, sessions, extra)>>
-----------------------------------------------------------------------------
(* config_reader.py: "Global servers take priority - project servers only  *)
(* add new names": between them the daemon and a project's pool start what *)
(* a stdio process in that directory would, from the same files and each   *)
(* name once, whatever is disabled or skipped in whichever file.           *)
ModesAgree ==
  \A global, settings, mcp \in Files, skip \in SUBSET Names :
    Daemon(global, settings, mcp, skip)
      = StartedFrom(LoadServerConfigs(global, settings, mcp, skip, FALSE))

(* The server whose tools search_tools shows under an identifier is the    *)
(* one the code of a run reaches by it, in whatever order the servers      *)
(* connected, and even if several global servers, or a global and a        *)
(* project one ("a-b", "a_b"), share it. Two servers of one project that   *)
(* do are searched as the last to connect and reached as the first.        *)
SearchIsRun ==
  \A sessions, extra \in Connected, py \in Names :
    (Named(py, sessions) # {} \/ \A n, k \in Named(py, extra) : n = k)
      => Searched(py, sessions, extra) = Proxy(py, sessions, extra)
=============================================================================
