-------------------------- MODULE HostedPluginRemote --------------------------
(***************************************************************************)
(* The connection between the Theia backend and the plugin sidecars.       *)
(*                                                                         *)
(* Every browser connection owns one HostedPluginRemote object, with one   *)
(* reconnecting Websocket per endpoint address it learned from the         *)
(* environment or from a discovery announcement.  All of them share one    *)
(* HostedPluginMapping and one PluginReaderExtension.  At the other end    *)
(* of each socket a sidecar (plugin-remote-init.ts) serves the session.    *)
(***************************************************************************)
EXTENDS Naturals, Sequences

CONSTANTS
  Clients,      \* browser connections
  Endpoints,    \* websocket addresses of sidecars
  Plugins,
  Hosts,        \* the plugins each sidecar deploys
  EnvEndpoint,  \* THEIA_PLUGIN_REMOTE_ENDPOINT_<plugin>, None when unset
  None,
  MaxRequests,  \* bound: internal requests of one client
  MaxRpc,       \* bound: plugin API messages sent by the clients
  MaxFaults,    \* bound: broken connections
  MaxRestarts   \* bound: sidecar restarts

ASSUME RemoteAssumption ==
  /\ Hosts \in [Endpoints -> SUBSET Plugins]
  /\ EnvEndpoint \in [Plugins -> Endpoints \cup {None}]
  /\ Endpoints \cap Plugins = {}
  /\ None \notin Clients \cup Endpoints \cup Plugins
  /\ {MaxRequests, MaxRpc, MaxFaults, MaxRestarts} \subseteq Nat

\* A Websocket object is named by what created it: an environment variable
\* (named by its plugin) or an announcement (named by the address announced).
EnvPlugins == {p \in Plugins : EnvEndpoint[p] # None}
Origins == EnvPlugins \cup Endpoints
Sockets == Clients \X Origins
Address(o) == IF o \in Endpoints THEN o ELSE EnvEndpoint[o]
Owner(s) == s[1]
Remote(s) == Address(s[2])

VARIABLES
  \* shared by all connections
  pluginsEndpoints,         \* HostedPluginMapping: plugin -> endpoint
  readerRemote,             \* the HostedPluginRemote that serves resources
  \* one HostedPluginRemote per client
  connection,               \* life of the browser connection
  endpointsSockets,         \* endpoint -> origin of its Websocket
  pluginsDeployedPlugins,   \* endpoint -> plugins it reported
  nextMessageId,
  pendingInternalRequests,
  resolved,                 \* history: the promises resolved, with their data
  \* one Websocket object, its connection and the session that serves it
  socket,
  toSidecar,
  toClient,
  session,
  \* one sidecar per endpoint
  deployed,                 \* currentBackendDeployedPlugins
  announced,
  \* bounds
  rpcs,
  faults,
  restarts

sharedVars == <<pluginsEndpoints, readerRemote>>
requestVars == <<nextMessageId, pendingInternalRequests, resolved>>
knowledgeVars == <<endpointsSockets, pluginsDeployedPlugins>>
wireVars == <<socket, toSidecar, toClient, session>>
sidecarVars == <<deployed, announced>>
boundVars == <<rpcs, faults, restarts>>
vars == <<sharedVars, connection, requestVars, knowledgeVars, wireVars,
          sidecarVars, boundVars>>

SocketStates ==
  {"unused", "connecting", "open", "closing", "aborting", "waiting", "closed"}

ToSidecar == [type : {"metadata", "stop", "rpc", "close"}]
               \cup [type : {"request"}, id : Nat, plugin : Plugins]
ToClient == [type : {"rpc", "close"}]
              \cup [type : {"metadata"}, plugins : SUBSET Plugins]
              \cup [type : {"response"}, id : Nat, plugin : Plugins]

TypeOK ==
  /\ pluginsEndpoints \in [Plugins -> Endpoints \cup {None}]
  /\ readerRemote \in Clients \cup {None}
  /\ connection \in [Clients -> {"absent", "created", "ready", "closed"}]
  /\ endpointsSockets \in [Clients -> [Endpoints -> Origins \cup {None}]]
  /\ pluginsDeployedPlugins \in [Clients -> [Endpoints -> SUBSET Plugins]]
  /\ nextMessageId \in [Clients -> Nat]
  /\ pendingInternalRequests \in
       [Clients -> SUBSET [id : Nat, plugin : Plugins]]
  /\ resolved \in
       [Clients -> SUBSET [id : Nat, plugin : Plugins, data : Plugins]]
  /\ socket \in [Sockets -> SocketStates]
  /\ toSidecar \in [Sockets -> Seq(ToSidecar)]
  /\ toClient \in [Sockets -> Seq(ToClient)]
  /\ session \in [Sockets -> {"none", "live", "stopping", "stopped"}]
  /\ deployed \in [Endpoints -> SUBSET Plugins]
  /\ announced \in [Endpoints -> BOOLEAN]
  /\ rpcs \in Nat /\ faults \in Nat /\ restarts \in Nat

Init ==
  /\ pluginsEndpoints = EnvEndpoint
  /\ readerRemote = None
  /\ connection = [c \in Clients |-> "absent"]
  /\ endpointsSockets = [c \in Clients |-> [e \in Endpoints |-> None]]
  /\ pluginsDeployedPlugins = [c \in Clients |-> [e \in Endpoints |-> {}]]
  /\ nextMessageId = [c \in Clients |-> 0]
  /\ pendingInternalRequests = [c \in Clients |-> {}]
  /\ resolved = [c \in Clients |-> {}]
  /\ socket = [s \in Sockets |-> "unused"]
  /\ toSidecar = [s \in Sockets |-> <<>>]
  /\ toClient = [s \in Sockets |-> <<>>]
  /\ session = [s \in Sockets |-> "none"]
  /\ deployed = [e \in Endpoints |-> {}]
  /\ announced = [e \in Endpoints |-> FALSE]
  /\ rpcs = 0 /\ faults = 0 /\ restarts = 0

------------------------------------------------------------------------------
(* Websocket: the reconnecting wrapper around the ws library. *)

\* send(): the library delivers on an open connection, throws while it is
\* connecting (the wrapper swallows the error) and drops the data otherwise.
WsSend(queue, state, m) == IF state = "open" THEN Append(queue, m) ELSE queue

\* close(): on an open connection a close frame with code 1000 follows the
\* data; a handshake is aborted; the reconnect timer is not cancelled.
WsClose(state) == CASE state = "open" -> "closing"
                    [] state = "connecting" -> "aborting"
                    [] OTHER -> state

\* The connections of the sockets S break: what was in flight is gone.
Disconnect(S, newState) ==
  /\ socket' = [s \in Sockets |-> IF s \in S THEN newState ELSE socket[s]]
  /\ session' = [s \in Sockets |-> IF s \in S THEN "none" ELSE session[s]]
  /\ toSidecar' = [s \in Sockets |-> IF s \in S THEN <<>> ELSE toSidecar[s]]
  /\ toClient' = [s \in Sockets |-> IF s \in S THEN <<>> ELSE toClient[s]]

\* 'open' event at the client, 'connection' event at the sidecar: a new
\* session is created and onOpen asks it for its metadata.
Open(s) ==
  /\ socket[s] = "connecting"
  /\ socket' = [socket EXCEPT ![s] = "open"]
  /\ session' = [session EXCEPT ![s] = "live"]
  /\ toSidecar' = [toSidecar EXCEPT
                     ![s] = WsSend(@, "open", [type |-> "metadata"])]
  /\ UNCHANGED <<sharedVars, connection, requestVars, knowledgeVars,
                 toClient, sidecarVars, boundVars>>

\* ECONNREFUSED, or 'close' with a code other than 1000: what was in flight
\* is gone and a timer will open a new connection.
Drop(s) ==
  /\ faults < MaxFaults
  /\ socket[s] \in {"connecting", "open", "closing"}
  /\ faults' = faults + 1
  /\ Disconnect({s}, "waiting")
  /\ UNCHANGED <<sharedVars, connection, requestVars, knowledgeVars,
                 sidecarVars, rpcs, restarts>>

\* Aborting a handshake ends in a 'close' event with code 1006.
AbortedClose(s) ==
  /\ socket[s] = "aborting"
  /\ Disconnect({s}, "waiting")
  /\ UNCHANGED <<sharedVars, connection, requestVars, knowledgeVars,
                 sidecarVars, boundVars>>

\* The RECONNECT_INTERVAL timer.
Reconnect(s) ==
  /\ socket[s] = "waiting"
  /\ socket' = [socket EXCEPT ![s] = "connecting"]
  /\ UNCHANGED <<sharedVars, connection, requestVars, knowledgeVars,
                 toSidecar, toClient, session, sidecarVars, boundVars>>

------------------------------------------------------------------------------
(* The browser connection. *)

Tracked(s) == endpointsSockets[Owner(s)][Remote(s)] = s[2]

\* A HostedPluginRemote is created: setupWebsocket connects once for every
\* environment variable, and the last variable naming an address owns the
\* map entry.  onActivation makes the new object serve plugin resources.
ClientConnects(c) ==
  /\ connection[c] = "absent"
  /\ connection' = [connection EXCEPT ![c] = "created"]
  /\ readerRemote' = c
  /\ \E last \in [Endpoints -> EnvPlugins \cup {None}] :
       /\ \A e \in Endpoints :
            LET here == {p \in EnvPlugins : EnvEndpoint[p] = e}
            IN  last[e] \in IF here = {} THEN {None} ELSE here
       /\ endpointsSockets' = [endpointsSockets EXCEPT ![c] = last]
  /\ socket' = [s \in Sockets |->
                  IF Owner(s) = c /\ s[2] \in EnvPlugins
                  THEN "connecting" ELSE socket[s]]
  /\ UNCHANGED <<pluginsEndpoints, requestVars, pluginsDeployedPlugins,
                 toSidecar, toClient, session, sidecarVars,
                 boundVars>>

SetClient(c) ==
  /\ connection[c] = "created"
  /\ connection' = [connection EXCEPT ![c] = "ready"]
  /\ UNCHANGED <<sharedVars, requestVars, knowledgeVars, wireVars,
                 sidecarVars, boundVars>>

\* The close frame overtakes 'stop', which a closing connection drops.
CloseFirst(queue, state) == WsSend(queue, state, [type |-> "close"])

LastWords(queue, state) ==
  WsSend(WsSend(queue, state, [type |-> "stop"]), state, [type |-> "close"])

\* clientClosed: 'stop' then close on every socket of the map.  The map, the
\* client reference and the discovery listener stay as they are.
ClientClosed(c) ==
  LET mine == {s \in Sockets : Owner(s) = c /\ Tracked(s)} IN
  /\ connection[c] = "ready"
  /\ connection' = [connection EXCEPT ![c] = "closed"]
  /\ toSidecar' = [s \in Sockets |->
       IF s \in mine
       THEN LastWords(toSidecar[s], socket[s]) ELSE toSidecar[s]]
  /\ socket' = [s \in Sockets |->
                  IF s \in mine THEN WsClose(socket[s]) ELSE socket[s]]
  /\ UNCHANGED <<sharedVars, requestVars, knowledgeVars, toClient, session,
                 sidecarVars, boundVars>>

AnyAddress(c, e) == TRUE

NewAddress(c, e) == endpointsSockets[c][e] = None

\* An announcement reaches the discovery listener of c: only a new address
\* is connected.
OnNewEndpoint(c, e) ==
  /\ connection[c] # "absent"
  /\ announced[e]
  /\ NewAddress(c, e)
  /\ endpointsSockets' = [endpointsSockets EXCEPT ![c][e] = e]
  /\ socket' = [socket EXCEPT ![<<c, e>>] = "connecting"]
  /\ UNCHANGED <<sharedVars, connection, requestVars, pluginsDeployedPlugins,
                 toSidecar, toClient, session, sidecarVars,
                 boundVars>>

------------------------------------------------------------------------------
(* Messages of the client. *)

\* onMessage: a plugin API message is routed by the plugin's host.
OnMessage(c, e) ==
  LET s == <<c, endpointsSockets[c][e]>> IN
  /\ rpcs < MaxRpc
  /\ connection[c] = "ready"
  /\ endpointsSockets[c][e] # None
  /\ rpcs' = rpcs + 1
  /\ toSidecar' = [toSidecar EXCEPT
                     ![s] = WsSend(@, socket[s], [type |-> "rpc"])]
  /\ UNCHANGED <<sharedVars, connection, requestVars, knowledgeVars, socket,
                 toClient, session, sidecarVars, faults, restarts>>

\* requestPluginResource, requestPluginResourceStat: sendInternalRequest of
\* the connection PluginReaderExtension knows.  Requests rejected for want of
\* an endpoint or a socket change nothing.
SendInternalRequest(p) ==
  LET c == readerRemote
      s == <<c, endpointsSockets[c][pluginsEndpoints[p]]>>
      requestId == nextMessageId[c] + 1
  IN
  /\ readerRemote # None
  /\ pluginsEndpoints[p] # None
  /\ endpointsSockets[c][pluginsEndpoints[p]] # None
  /\ nextMessageId[c] < MaxRequests
  /\ nextMessageId' = [nextMessageId EXCEPT ![c] = requestId]
  /\ pendingInternalRequests' = [pendingInternalRequests EXCEPT
       ![c] = {r \in @ : r.id # requestId}
                \cup {[id |-> requestId, plugin |-> p]}]
  /\ toSidecar' = [toSidecar EXCEPT
       ![s] = WsSend(@, socket[s],
                     [type |-> "request", id |-> requestId, plugin |-> p])]
  /\ UNCHANGED <<sharedVars, connection, resolved, knowledgeVars, socket,
                 toClient, session, sidecarVars, boundVars>>

------------------------------------------------------------------------------
(* The sidecar: 'message' handler of a session. *)

SidecarReceives(s, type) ==
  /\ toSidecar[s] # <<>>
  /\ Head(toSidecar[s]).type = type
  /\ toSidecar' = [toSidecar EXCEPT ![s] = Tail(@)]
  /\ UNCHANGED <<sharedVars, connection, requestVars, knowledgeVars, socket,
                 sidecarVars, boundVars>>

Reply(s, m) == toClient' = [toClient EXCEPT ![s] = Append(@, m)]

\* Metadata request: all the plugins deployed so far, be it none.
SidecarMetadata(s) ==
  /\ SidecarReceives(s, "metadata")
  /\ Reply(s, [type |-> "metadata", plugins |-> deployed[Remote(s)]])
  /\ UNCHANGED session

\* getResource, getResourceStat: the root directory of a plugin that is not
\* deployed is undefined and path.join throws, so no response is sent.
SidecarResource(s) ==
  /\ SidecarReceives(s, "request")
  /\ LET m == Head(toSidecar[s]) IN
     IF m.plugin \in deployed[Remote(s)]
     THEN Reply(s, [type |-> "response", id |-> m.id, plugin |-> m.plugin])
     ELSE UNCHANGED toClient
  /\ UNCHANGED session

\* Any other message is fired at the plugin host, which answers it, unless
\* the emitter has been disposed.
SidecarRpc(s) ==
  /\ SidecarReceives(s, "rpc")
  /\ IF session[s] = "stopped" THEN UNCHANGED toClient
                               ELSE Reply(s, [type |-> "rpc"])
  /\ UNCHANGED session

\* 'stop': the handler awaits $stop and then disposes the emitter.
SidecarStop(s) ==
  /\ SidecarReceives(s, "stop")
  /\ session' = [session EXCEPT ![s] = "stopping"]
  /\ UNCHANGED toClient

SidecarStopped(s) ==
  /\ session[s] = "stopping"
  /\ session' = [session EXCEPT ![s] = "stopped"]
  /\ UNCHANGED <<sharedVars, connection, requestVars, knowledgeVars, socket,
                 toSidecar, toClient, sidecarVars, boundVars>>

\* A close frame is echoed by the library.
SidecarClose(s) ==
  /\ SidecarReceives(s, "close")
  /\ Reply(s, [type |-> "close"])
  /\ UNCHANGED session

\* deployPlugin, one plugin of the batch after the other.
Deploy(e, p) ==
  /\ p \in Hosts[e] \ deployed[e]
  /\ deployed' = [deployed EXCEPT ![e] = @ \cup {p}]
  /\ UNCHANGED <<sharedVars, connection, requestVars, knowledgeVars, wireVars,
                 announced, boundVars>>

SomeDeployed(e) == deployed[e] # {}

BatchDeployed(e) == deployed[e] = Hosts[e]

\* The end of deployBackendPlugins, after the whole batch.
Announce(e) ==
  /\ ~announced[e]
  /\ BatchDeployed(e)
  /\ announced' = [announced EXCEPT ![e] = TRUE]
  /\ UNCHANGED <<sharedVars, connection, requestVars, knowledgeVars, wireVars,
                 deployed, boundVars>>

\* The sidecar container restarts and loses everything it held.
Restart(e) ==
  /\ restarts < MaxRestarts
  /\ restarts' = restarts + 1
  /\ deployed' = [deployed EXCEPT ![e] = {}]
  /\ announced' = [announced EXCEPT ![e] = FALSE]
  /\ Disconnect({s \in Sockets : Remote(s) = e /\
                                 socket[s] \in {"open", "closing"}}, "waiting")
  /\ UNCHANGED <<sharedVars, connection, requestVars, knowledgeVars, rpcs,
                 faults>>

------------------------------------------------------------------------------
(* Messages of the sidecar: onMessage of the socket. *)

ClientReceives(s, type) ==
  /\ toClient[s] # <<>>
  /\ Head(toClient[s]).type = type
  /\ toClient' = [toClient EXCEPT ![s] = Tail(@)]
  /\ UNCHANGED <<readerRemote, connection, nextMessageId, endpointsSockets,
                 toSidecar, session, sidecarVars, boundVars>>

AllReported(reported) == reported

EveryUnmapped(reported) == {p \in Plugins : pluginsEndpoints[p] = None}

Unmapped(reported) == {p \in reported : pluginsEndpoints[p] = None}

SetEndpointsToKey(new, e) ==
  [p \in Plugins |-> IF p \in new THEN p ELSE pluginsEndpoints[p]]

SetEndpoints(new, e) ==
  [p \in Plugins |-> IF p \in new THEN e ELSE pluginsEndpoints[p]]

\* handleLocalMessage with a metadata result: the list is replaced, and every
\* plugin without an endpoint is mapped to the sender; onDidDeploy, called for
\* it in the same step, changes nothing here.
ReceiveMetadata(s) ==
  LET c == Owner(s)
      reported == Head(toClient[s]).plugins
      new == Unmapped(reported)
  IN
  /\ ClientReceives(s, "metadata")
  /\ pluginsDeployedPlugins' =
       [pluginsDeployedPlugins EXCEPT ![c][Remote(s)] = reported]
  /\ pluginsEndpoints' = SetEndpoints(new, Remote(s))
  /\ UNCHANGED <<pendingInternalRequests, resolved, socket>>

AwaitedByClient(c, requestId) ==
  {r \in pendingInternalRequests[c] : r.id = requestId /\ connection[c] = "ready"}

Awaited(c, requestId) ==
  {r \in pendingInternalRequests[c] : r.id = requestId}

AllStay(c, requestId) == pendingInternalRequests[c]

Others(c, requestId) == {r \in pendingInternalRequests[c] : r.id # requestId}

\* onInternalRequestResponse: the promise found under the id is removed from
\* the map and resolved; a response nobody waits for is only logged.
ReceiveResponse(s) ==
  LET c == Owner(s)
      m == Head(toClient[s])
  IN
  /\ ClientReceives(s, "response")
  /\ pendingInternalRequests' =
       [pendingInternalRequests EXCEPT ![c] = Others(c, m.id)]
  /\ resolved' = [resolved EXCEPT
       ![c] = @ \cup {[id |-> r.id, plugin |-> r.plugin, data |-> m.plugin] :
                        r \in Awaited(c, m.id)}]
  /\ UNCHANGED <<pluginsEndpoints, pluginsDeployedPlugins, socket>>

\* sendToClient.
ReceiveRpc(s) ==
  /\ ClientReceives(s, "rpc")
  /\ UNCHANGED <<pluginsEndpoints, pendingInternalRequests, resolved,
                 pluginsDeployedPlugins, socket>>

\* 'close' with code 1000: the Websocket does not reconnect.
ReceiveClose(s) ==
  /\ ClientReceives(s, "close")
  /\ socket' = [socket EXCEPT ![s] = "closed"]
  /\ UNCHANGED <<pluginsEndpoints, pendingInternalRequests, resolved,
                 pluginsDeployedPlugins>>

------------------------------------------------------------------------------
SocketStep(s) ==
  \/ Open(s) \/ AbortedClose(s) \/ Reconnect(s)
  \/ SidecarMetadata(s) \/ SidecarResource(s) \/ SidecarRpc(s)
  \/ SidecarStop(s) \/ SidecarStopped(s) \/ SidecarClose(s)
  \/ ReceiveMetadata(s) \/ ReceiveResponse(s) \/ ReceiveRpc(s)
  \/ ReceiveClose(s)

Next ==
  \/ \E s \in Sockets : SocketStep(s) \/ Drop(s)
  \/ \E c \in Clients : ClientConnects(c) \/ SetClient(c) \/ ClientClosed(c)
  \/ \E c \in Clients, e \in Endpoints : OnNewEndpoint(c, e) \/ OnMessage(c, e)
  \/ \E p \in Plugins : SendInternalRequest(p)
  \/ \E e \in Endpoints, p \in Plugins : Deploy(e, p)
  \/ \E e \in Endpoints : Announce(e) \/ Restart(e)

Spec == Init /\ [][Next]_vars

\* Timers fire, events are dispatched and deployment goes on; nobody has to
\* connect, ask, announce or fail.
Fairness ==
  /\ \A s \in Sockets : WF_vars(SocketStep(s))
  /\ \A e \in Endpoints, p \in Plugins : WF_vars(Deploy(e, p))

FairSpec == Spec /\ Fairness

------------------------------------------------------------------------------
(* Properties. *)

\* A second Websocket to an address exists only where two environment
\* variables name that address: discovery never opens one (setupDiscovery
\* checks endpointsSockets, which only ever grows).
OrphansOnlyFromEnv ==
  \A s \in Sockets : socket[s] # "unused" =>
    \/ Tracked(s)
    \/ \E p, q \in EnvPlugins :
         /\ p # q
         /\ EnvEndpoint[p] = Remote(s) /\ EnvEndpoint[q] = Remote(s)

\* A connection that ended normally was told to stop its plugins before:
\* clientClosed sends 'stop' ahead of the close frame on the same socket.
StopBeforeClose ==
  \A s \in Sockets :
    socket[s] = "closed" => session[s] \in {"stopping", "stopped"}

\* The shared mapping sends no plugin to a sidecar that neither deploys it
\* nor is named for it by the environment.
MappingTruthful ==
  \A p \in Plugins : pluginsEndpoints[p] # None =>
    \/ pluginsEndpoints[p] = EnvEndpoint[p]
    \/ p \in Hosts[pluginsEndpoints[p]]

\* Once mapped, a plugin keeps its endpoint, whoever else reports it, however
\* often sidecars restart and clients come and go (handleLocalMessage).
FirstMappingWins ==
  [][\A p \in Plugins : pluginsEndpoints[p] # None =>
       pluginsEndpoints'[p] = pluginsEndpoints[p]]_vars

\* A Websocket reconnects only after a failure, never because its owner
\* closed it (the class comment: "handle reconnect in case of failures").
ReconnectOnlyAfterFailure ==
  \A s \in Sockets : socket[s] = "waiting" => faults + restarts > 0

\* The request channel implements its abstract specification: fresh ids, at
\* most one answer, and that answer about the plugin that was asked for.
Resource == INSTANCE ResourceService WITH pending <- pendingInternalRequests
ResourceRefinement == Resource!Spec

\* A sidecar found by discovery announced itself after its whole batch was
\* deployed, so its client learns the whole batch, broken connections or
\* not, unless the client leaves or the sidecar restarts.
DiscoveredPluginsLearned ==
  \A c \in Clients, e \in Endpoints :
    endpointsSockets[c][e] = e ~>
      \/ Hosts[e] \subseteq pluginsDeployedPlugins[c][e]
      \/ connection[c] = "closed" \/ restarts > 0

RequestOn(s, i) ==
  \E k \in 1..Len(toSidecar[s]) :
    LET m == toSidecar[s][k] IN
    m.type = "request" /\ m.id = i /\ m.plugin \in deployed[Remote(s)]

\* A request that reached an open connection to a sidecar with the plugin is
\* answered, unless that run of the connection breaks.
RequestAnswered ==
  \A s \in Sockets, i \in 1..MaxRequests, d \in 0..(MaxFaults + MaxRestarts) :
    RequestOn(s, i) /\ faults + restarts = d ~>
      \/ \E r \in resolved[Owner(s)] : r.id = i
      \/ faults + restarts > d
==============================================================================
