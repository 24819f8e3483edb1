-------------------------------- MODULE Boot --------------------------------
(***************************************************************************)
(* The life of the server (lifespan in server.py): opening and recovering  *)
(* the store, connecting the configured MCP servers one after the other    *)
(* (tools/mcp_config.py, tools/mcp_bridge.py) and registering their tools  *)
(* (tools/registry.py), starting the gateway and the channel runners, and  *)
(* taking all of it down again while turns may still call tools.           *)
(***************************************************************************)
EXTENDS Integers, Sequences, FiniteSets

CONSTANTS
  Servers,   \* MCP servers of the configuration, in its order
  ToolsOf,   \* the qualified names that each lists, in order
  BuiltIn,   \* names of the tools of _default_registry
  None,      \* no server
  Runners    \* channel runners: the Telegram bot, if it is configured

ASSUME BootAssumption ==
  /\ Servers \in Seq(DOMAIN ToolsOf)
  /\ DOMAIN ToolsOf = {Servers[n] : n \in DOMAIN Servers}
  /\ \A s \in DOMAIN ToolsOf :
       ToolsOf[s] \in Seq({ToolsOf[s][k] : k \in DOMAIN ToolsOf[s]})
  /\ \A m, n \in DOMAIN Servers : Servers[m] = Servers[n] => m = n
  /\ None \notin DOMAIN ToolsOf
  /\ Runners \in Seq({Runners[n] : n \in DOMAIN Runners})

VARIABLES
  stage,     \* where lifespan is
  next,      \* the server or the runner it is at
  client,    \* the transport of each server's client
  returned,  \* connect_servers' list of connected clients
  clients,   \* lifespan's mcp_clients
  owner,     \* ToolRegistry._specs: whose proxy a name calls
  store,     \* the store is open
  workers,   \* the gateway takes messages
  running,   \* runners that are started
  calling    \* a tool call of a turn under way, by the client it is sent to

vars == <<stage, next, client, returned, clients, owner, store, workers, running, calling>>

Configured == DOMAIN ToolsOf
Server == Servers[next]

TypeOK ==
  /\ stage \in {"start", "connect", "connecting", "list", "listing", "closing", "gateway",
               "runners", "up", "stop", "disconnect", "down", "failed"}
  /\ next \in Nat
  /\ client \in [Configured -> {"none", "open", "left", "closed"}]
  /\ returned \subseteq Configured
  /\ clients \subseteq returned
  /\ owner \in [DOMAIN owner -> Configured \cup {None}]
  /\ {store, workers} \subseteq BOOLEAN
  /\ running \subseteq {Runners[n] : n \in DOMAIN Runners}
  /\ calling \in Configured \cup {None}

Init ==
  /\ stage = "start" /\ next = 1
  /\ client = [s \in Configured |-> "none"]
  /\ returned = {} /\ clients = {}
  /\ owner = [t \in BuiltIn |-> None]
  /\ store = FALSE /\ workers = FALSE /\ running = {}
  /\ calling = None

-----------------------------------------------------------------------------
(* Startup.                                                                *)

(* store.open, ensure_schema, recover_on_startup and the saved model.      *)
Prepare ==
  /\ stage = "start"
  /\ store' = TRUE
  /\ stage' = "connect"
  /\ UNCHANGED <<next, client, returned, clients, owner, workers, running, calling>>

(* An exception before lifespan yields, a configuration entry that is not  *)
(* an object among them, ends the process without its finally clause.      *)
StartupFails ==
  /\ stage \in {"start", "connect", "gateway", "runners"}
  /\ stage' = "failed"
  /\ UNCHANGED <<next, client, returned, clients, owner, store, workers, running, calling>>

(* connect_servers goes on with the next server.                           *)
Skip == stage' = "connect" /\ next' = next + 1

(* An entry with neither a command nor a url has no client.                *)
Ignore ==
  /\ stage = "connect" /\ next \in DOMAIN Servers
  /\ Skip
  /\ UNCHANGED <<client, returned, clients, owner, store, workers, running, calling>>

(* The transport is entered and the session initialized.                   *)
Connect ==
  /\ stage = "connect" /\ next \in DOMAIN Servers
  /\ client' = [client EXCEPT ![Server] = "open"]
  /\ stage' = "list"
  /\ UNCHANGED <<next, returned, clients, owner, store, workers, running, calling>>

(* A server that does not answer.                                          *)
ConnectHangs ==
  /\ stage = "connect" /\ next \in DOMAIN Servers
  /\ stage' = "connecting"
  /\ UNCHANGED <<next, client, returned, clients, owner, store, workers, running, calling>>

(* Fault: the connect is not bounded.                                      *)
Unbounded == FALSE

Bounded == stage = "connecting"

(* An error, or the timeout of wait_for.  What the client's exit stack     *)
(* holds by then is nobody's to close.                                     *)
ConnectFails ==
  /\ \/ stage = "connect" /\ next \in DOMAIN Servers
     \/ Bounded
  /\ client' \in {client, [client EXCEPT ![Server] = "left"]}
  /\ Skip
  /\ UNCHANGED <<returned, clients, owner, store, workers, running, calling>>

Registered(tools) ==
  [t \in DOMAIN owner \cup {tools[k] : k \in DOMAIN tools} |->
     IF t \in DOMAIN owner THEN owner[t] ELSE Server]

(* Fault: a name that is taken counts as registered.                       *)
AnyNames(tools) == TRUE

(* register raises for a name that is taken.                               *)
AllNew(tools) ==
  /\ \A k \in DOMAIN tools : tools[k] \notin DOMAIN owner
  /\ \A j, k \in DOMAIN tools : tools[j] = tools[k] => j = k

Register ==
  /\ stage = "list" /\ AllNew(ToolsOf[Server])
  /\ owner' = Registered(ToolsOf[Server])
  /\ returned' = returned \cup {Server}
  /\ Skip
  /\ UNCHANGED <<client, clients, store, workers, running, calling>>

(* list_tools fails, or a name is taken: the tools before it stay.         *)
HalfRegisters ==
  \/ UNCHANGED owner
  \/ \E k \in DOMAIN ToolsOf[Server] :
       LET before == SubSeq(ToolsOf[Server], 1, k - 1)
       IN /\ AllNew(before) /\ ~AllNew(Append(before, ToolsOf[Server][k]))
          /\ owner' = Registered(before)

(* The client is closed, and its server skipped.                           *)
RegisterFails ==
  /\ stage = "list" /\ HalfRegisters
  /\ client' = [client EXCEPT ![Server] = "closed"]
  /\ Skip
  /\ UNCHANGED <<returned, clients, store, workers, running, calling>>

(* A server that accepted the connect and never answers list_tools: no     *)
(* timeout ends the wait.                                                  *)
ListHangs ==
  /\ stage = "list"
  /\ stage' = "listing"
  /\ UNCHANGED <<next, client, returned, clients, owner, store, workers, running, calling>>

(* The close after a failed registration hangs, without a timeout as well. *)
CloseHangs ==
  /\ stage = "list" /\ HalfRegisters
  /\ stage' = "closing"
  /\ UNCHANGED <<next, client, returned, clients, store, workers, running, calling>>

(* connect_servers returns to lifespan.                                    *)
Connected ==
  /\ stage = "connect" /\ next = Len(Servers) + 1
  /\ clients' = returned
  /\ stage' = "gateway"
  /\ UNCHANGED <<next, client, returned, owner, store, workers, running, calling>>

StartGateway ==
  /\ stage = "gateway"
  /\ workers' = TRUE
  /\ stage' = "runners" /\ next' = 1
  /\ UNCHANGED <<client, returned, clients, owner, store, running, calling>>

StartRunner ==
  /\ stage = "runners" /\ next \in DOMAIN Runners
  /\ running' = running \cup {Runners[next]}
  /\ next' = next + 1
  /\ UNCHANGED <<stage, client, returned, clients, owner, store, workers, calling>>

Yield ==
  /\ stage = "runners" /\ next = Len(Runners) + 1
  /\ stage' = "up" /\ next' = 1
  /\ UNCHANGED <<client, returned, clients, owner, store, workers, running, calling>>

-----------------------------------------------------------------------------
(* Turns: a worker may serve one from gateway.start on.                    *)

Call(t) ==
  /\ workers /\ stage # "failed" /\ calling = None
  /\ t \in DOMAIN owner /\ owner[t] # None
  /\ calling' = owner[t]
  /\ UNCHANGED <<stage, next, client, returned, clients, owner, store, workers, running>>

Return ==
  /\ calling # None
  /\ calling' = None
  /\ UNCHANGED <<stage, next, client, returned, clients, owner, store, workers, running>>

-----------------------------------------------------------------------------
(* Shutdown.                                                               *)

Shutdown ==
  /\ stage = "up"
  /\ stage' = "stop" /\ next' = Len(Runners)
  /\ UNCHANGED <<client, returned, clients, owner, store, workers, running, calling>>

(* In reverse order; exceptions are suppressed.                            *)
StopRunner ==
  /\ stage = "stop" /\ next > 0
  /\ running' = running \ {Runners[next]}
  /\ next' = next - 1
  /\ UNCHANGED <<stage, client, returned, clients, owner, store, workers, calling>>

(* Fault: the clients are closed first.                                    *)
AnyTime == stage = "stop" /\ next = 0

AfterGateway == stage = "disconnect"

(* gateway.stop cancels the workers, and a call with its turn.             *)
StopGateway ==
  /\ stage = "stop" /\ next = 0 /\ workers
  /\ workers' = FALSE /\ calling' = None
  /\ stage' = "disconnect"
  /\ UNCHANGED <<next, client, returned, clients, owner, store, running>>

(* disconnect_servers; an exception of close is suppressed.                *)
Disconnect(s) ==
  /\ AfterGateway
  /\ s \in clients /\ client[s] = "open"
  /\ client' = [client EXCEPT ![s] = "closed"]
  /\ UNCHANGED <<stage, next, returned, clients, owner, store, workers, running, calling>>

CloseStore ==
  /\ stage = "disconnect" /\ \A s \in clients : client[s] # "open"
  /\ store' = FALSE
  /\ stage' = "down"
  /\ UNCHANGED <<next, client, returned, clients, owner, workers, running, calling>>

-----------------------------------------------------------------------------
Startup ==
  \/ Prepare \/ Ignore \/ Connect \/ ConnectFails \/ Register \/ RegisterFails
  \/ Connected \/ StartGateway \/ StartRunner \/ Yield

Ending ==
  \/ StopRunner \/ StopGateway \/ CloseStore
  \/ \E s \in clients : Disconnect(s)

Next ==
  \/ Startup \/ StartupFails \/ ConnectHangs \/ ListHangs \/ CloseHangs
  \/ Shutdown \/ Ending
  \/ Return \/ \E t \in DOMAIN owner : Call(t)

Spec == Init /\ [][Next]_vars

(* The startup goes on where nothing hangs, and the timeout of wait_for    *)
(* ends a connect that does.  Nothing ends "listing" and "closing".        *)
FairSpec == Spec /\ WF_vars(Startup)

-----------------------------------------------------------------------------
(* A client that lifespan keeps has all of its server's tools registered   *)
(* to it, each name in one place: tools are never another server's, and    *)
(* none is missing, whichever names the servers share.                     *)
KeptIsComplete ==
  \A s \in returned \cup clients :
    \A k \in DOMAIN ToolsOf[s] : ToolsOf[s][k] \in DOMAIN owner /\ owner[ToolsOf[s][k]] = s

(* While a turn may run, the store and the clients that were kept are      *)
(* open; a tool call goes to a closed client only when its server failed   *)
(* half way through its tools and left the first of them registered.       *)
InUseIsOpen ==
  workers /\ stage # "failed" =>
    /\ store
    /\ \A s \in clients : client[s] = "open"
    /\ calling # None /\ client[calling] # "open" =>
         Cardinality({t \in DOMAIN owner : owner[t] = calling}) < Len(ToolsOf[calling])

(* Whichever servers do not answer their connect, the startup ends, unless *)
(* a server that did answer hangs in list_tools or in close.               *)
ConnectsEnd == <>(stage \in {"up", "failed"} \cup {"listing", "closing"})
=============================================================================
