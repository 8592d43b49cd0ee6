--------------------- MODULE HostedPluginRemoteWireProofs ---------------------
(***************************************************************************)
(* Theorems about the life of the Websocket objects of HostedPluginRemote: *)
(* what a connection carries in each of its states, which words a client   *)
(* leaves with, and which objects the endpoint map loses sight of.         *)
(***************************************************************************)
EXTENDS HostedPluginRemoteProofs

Told(s) == session[s] \in {"stopping", "stopped"}

Disconnected == {"unused", "connecting", "aborting", "waiting"}

\* A queue that says 'stop' ahead of every close frame.
StopsFirst(queue) ==
  \A k \in 1..Len(queue) : queue[k].type = "close" =>
    \E j \in 1..(k - 1) : queue[j].type = "stop"

NoClose(queue) == \A k \in 1..Len(queue) : queue[k].type # "close"

\* The strengthening of StopBeforeClose, one socket at a time: nothing is in
\* flight on a broken connection, and a close frame never overtakes 'stop',
\* on the way to the sidecar or back.
Farewell(s) ==
  /\ socket[s] \in Disconnected =>
       toSidecar[s] = <<>> /\ toClient[s] = <<>> /\ session[s] = "none"
  /\ Told(s) \/ StopsFirst(toSidecar[s])
  /\ Told(s) \/ NoClose(toClient[s])
  /\ socket[s] = "closed" => Told(s)

FarewellInv == \A s \in Sockets : Farewell(s)

LEMMA EmptyQueue == StopsFirst(<<>>) /\ NoClose(<<>>)
BY DEF StopsFirst, NoClose

\* Messages other than a close frame can follow anything.
LEMMA AppendStopsFirst ==
  ASSUME NEW T, NEW queue \in Seq(T), NEW m \in T, m.type # "close",
         StopsFirst(queue)
  PROVE  StopsFirst(Append(queue, m))
<1> SUFFICES ASSUME NEW k \in 1..Len(Append(queue, m)),
                    Append(queue, m)[k].type = "close"
             PROVE  \E j \in 1..(k - 1) : Append(queue, m)[j].type = "stop"
  BY DEF StopsFirst
<1>1. k \in 1..Len(queue) /\ queue[k].type = "close"
  OBVIOUS
<1>2. PICK j \in 1..(k - 1) : queue[j].type = "stop"
  BY <1>1 DEF StopsFirst
<1>3. Append(queue, m)[j] = queue[j]
  BY <1>1, <1>2
<1> QED BY <1>2, <1>3

\* A close frame can follow 'stop'.
LEMMA StopThenClose ==
  ASSUME NEW T, NEW queue \in Seq(T), StopsFirst(queue),
         NEW stop \in T, stop.type = "stop", NEW close \in T,
         close.type = "close"
  PROVE  StopsFirst(Append(Append(queue, stop), close))
<1> DEFINE said == Append(queue, stop)
           all == Append(said, close)
<1>1. StopsFirst(said)
  BY AppendStopsFirst
<1>2. said \in Seq(T) /\ Len(said) = Len(queue) + 1 /\ said[Len(said)] = stop
  OBVIOUS
<1> HIDE DEF said
<1> SUFFICES ASSUME NEW k \in 1..Len(all), all[k].type = "close"
             PROVE  \E j \in 1..(k - 1) : all[j].type = "stop"
  BY DEF StopsFirst, said
<1>3. CASE k \in 1..Len(said)
  <2>1. said[k].type = "close"
    BY <1>2, <1>3
  <2>2. PICK j \in 1..(k - 1) : said[j].type = "stop"
    BY <1>1, <1>3, <2>1 DEF StopsFirst
  <2>3. all[j] = said[j]
    BY <1>2, <1>3, <2>2
  <2> QED BY <2>2, <2>3
<1>4. CASE k = Len(said) + 1
  <2>1. Len(said) \in 1..(k - 1) /\ all[Len(said)] = stop
    BY <1>2, <1>4
  <2> QED BY <2>1
<1> QED BY <1>2, <1>3, <1>4

\* Taking anything but 'stop' from a queue leaves the order as it is, and the
\* first message is no close frame.
LEMMA TailStopsFirst ==
  ASSUME NEW T, NEW queue \in Seq(T), queue # <<>>, StopsFirst(queue),
         Head(queue).type # "stop"
  PROVE  StopsFirst(Tail(queue)) /\ Head(queue).type # "close"
<1>1. 1 \in 1..Len(queue) /\ Head(queue) = queue[1]
  OBVIOUS
<1>2. Head(queue).type # "close"
  BY <1>1 DEF StopsFirst
<1>3. ASSUME NEW k \in 1..Len(Tail(queue)), Tail(queue)[k].type = "close"
      PROVE  \E j \in 1..(k - 1) : Tail(queue)[j].type = "stop"
  <2>1. k + 1 \in 1..Len(queue) /\ queue[k + 1].type = "close"
    BY <1>3
  <2>2. PICK j \in 1..k : queue[j].type = "stop"
    BY <2>1 DEF StopsFirst
  <2>3. j # 1
    BY <1>1, <2>2
  <2>4. j - 1 \in 1..(k - 1) /\ Tail(queue)[j - 1] = queue[j]
    BY <2>1, <2>2, <2>3
  <2> QED BY <2>2, <2>4
<1> QED BY <1>2, <1>3 DEF StopsFirst

LEMMA AppendNoClose ==
  ASSUME NEW T, NEW queue \in Seq(T), NEW m \in T, m.type # "close",
         NoClose(queue)
  PROVE  NoClose(Append(queue, m))
BY DEF NoClose

LEMMA TailNoClose ==
  ASSUME NEW T, NEW queue \in Seq(T), queue # <<>>, NoClose(queue)
  PROVE  NoClose(Tail(queue)) /\ Head(queue).type # "close"
<1>1. 1 \in 1..Len(queue) /\ Head(queue) = queue[1]
  OBVIOUS
<1>2. \A k \in 1..Len(Tail(queue)) :
        k + 1 \in 1..Len(queue) /\ Tail(queue)[k] = queue[k + 1]
  OBVIOUS
<1> QED BY <1>1, <1>2 DEF NoClose

\* A step that touches nothing of a socket keeps its Farewell.
LEMMA Untouched ==
  ASSUME NEW s \in Sockets, Farewell(s),
         socket'[s] = socket[s], session'[s] = session[s],
         toSidecar'[s] = toSidecar[s], toClient'[s] = toClient[s]
  PROVE  Farewell(s)'
BY DEF Farewell, Told

\* Breaking connections leaves nothing in flight on them.
LEMMA DisconnectFarewell ==
  ASSUME TypeOK, NEW s \in Sockets, Farewell(s), NEW S,
         NEW st \in Disconnected, Disconnect(S, st)
  PROVE  Farewell(s)'
<1>1. CASE s \in S
  <2>1. /\ toSidecar'[s] = <<>> /\ toClient'[s] = <<>>
        /\ session'[s] = "none" /\ socket'[s] = st
    BY <1>1 DEF Disconnect
  <2> QED BY <2>1, EmptyQueue DEF Farewell, Disconnected
<1>2. CASE s \notin S
  BY <1>2, Untouched DEF Disconnect
<1> QED BY <1>1, <1>2

\* Sending anything but a close frame keeps the Farewell of a socket.
LEMMA SendFarewell ==
  ASSUME TypeOK, NEW s \in Sockets, Farewell(s), NEW m \in ToSidecar,
         m.type # "close",
         toSidecar'[s] = WsSend(toSidecar[s], socket[s], m),
         UNCHANGED <<socket, session, toClient>>
  PROVE  Farewell(s)'
<1>1. CASE socket[s] # "open"
  BY <1>1, Untouched DEF WsSend
<1>2. CASE socket[s] = "open"
  <2>1. toSidecar[s] \in Seq(ToSidecar)
    BY DEF TypeOK
  <2>2. toSidecar'[s] = Append(toSidecar[s], m)
    BY <1>2 DEF WsSend
  <2>3. StopsFirst(toSidecar[s]) => StopsFirst(toSidecar'[s])
    BY <2>1, <2>2, AppendStopsFirst
  <2> QED BY <1>2, <2>3 DEF Farewell, Told, Disconnected
<1> QED BY <1>1, <1>2

\* The sidecar takes a message other than 'stop' and may answer it; only a
\* close frame is answered with a close frame.
LEMMA SidecarFarewell ==
  ASSUME TypeOK, NEW s \in Sockets, NEW t \in Sockets, Farewell(s),
         NEW type, type # "stop", SidecarReceives(t, type),
         UNCHANGED session,
         \/ UNCHANGED toClient
         \/ \E m \in ToClient : Reply(t, m) /\ (m.type = "close" => type = "close")
  PROVE  Farewell(s)'
<1>1. CASE s # t
  BY <1>1, Untouched DEF SidecarReceives, Reply, TypeOK
<1>2. CASE s = t
  <2>1. /\ toSidecar[s] \in Seq(ToSidecar) /\ toSidecar[s] # <<>>
        /\ toClient[s] \in Seq(ToClient)
        /\ Head(toSidecar[s]).type = type
        /\ toSidecar'[s] = Tail(toSidecar[s])
        /\ socket' = socket
    BY <1>2 DEF SidecarReceives, TypeOK
  <2>2. socket[s] \notin Disconnected
    BY <2>1 DEF Farewell
  <2>3. CASE Told(s)
    BY <2>1, <2>2, <2>3 DEF Farewell, Told
  <2>4. CASE ~Told(s)
    <3>1. StopsFirst(toSidecar'[s]) /\ type # "close"
      BY <2>1, <2>4, TailStopsFirst DEF Farewell
    <3>2. \/ toClient'[s] = toClient[s]
          \/ \E m \in ToClient : /\ toClient'[s] = Append(toClient[s], m)
                                 /\ m.type # "close"
      BY <1>2, <3>1 DEF Reply, TypeOK
    <3>3. NoClose(toClient'[s])
      BY <2>1, <2>4, <3>2, AppendNoClose DEF Farewell
    <3> QED BY <2>1, <2>2, <2>4, <3>1, <3>3 DEF Farewell, Told
  <2> QED BY <2>3, <2>4
<1> QED BY <1>1, <1>2

\* The client takes a message other than a close frame.
LEMMA ClientFarewell ==
  ASSUME TypeOK, NEW s \in Sockets, NEW t \in Sockets, Farewell(s),
         NEW type, ClientReceives(t, type), UNCHANGED socket
  PROVE  Farewell(s)'
<1>1. CASE s # t
  BY <1>1, Untouched DEF ClientReceives, TypeOK
<1>2. CASE s = t
  <2>1. /\ toClient[s] \in Seq(ToClient) /\ toClient[s] # <<>>
        /\ toClient'[s] = Tail(toClient[s])
        /\ UNCHANGED <<toSidecar, session>>
    BY <1>2 DEF ClientReceives, TypeOK
  <2>2. NoClose(toClient[s]) => NoClose(toClient'[s])
    BY <2>1, TailNoClose
  <2> QED BY <2>1, <2>2 DEF Farewell, Told
<1> QED BY <1>1, <1>2

------------------------------------------------------------------------------
(* Which objects exist, and which of them the endpoint map knows. *)

\* A client that is not there owns no connection, and a Websocket opened for
\* an announcement is the one the map holds for its address.
LifeInv ==
  /\ \A s \in Sockets :
       socket[s] # "unused" => connection[Owner(s)] # "absent"
  /\ \A s \in Sockets :
       socket[s] # "unused" /\ s[2] \in Endpoints => Tracked(s)
  /\ OrphansOnlyFromEnv

WireInv == FarewellInv /\ LifeInv

\* What an environment socket and a discovery socket are connected to.
LEMMA Addresses ==
  ASSUME NEW s \in Sockets
  PROVE  /\ s = <<Owner(s), s[2]>>
         /\ s[2] \in Endpoints => Remote(s) = s[2] /\ s[2] \notin EnvPlugins
         /\ s[2] \notin Endpoints => /\ s[2] \in EnvPlugins
                                     /\ Remote(s) = EnvEndpoint[s[2]]
BY RemoteAssumption
   DEF Sockets, Owner, Remote, Address, Origins, EnvPlugins

\* Websocket objects are created by two actions only.
LEMMA OnlyTheseConnect ==
  ASSUME TypeOK, [Next]_vars, NEW s \in Sockets, Farewell(s),
         socket[s] = "unused", socket'[s] # "unused"
  PROVE  \/ ClientConnects(Owner(s)) /\ s[2] \in EnvPlugins
         \/ s[2] \in Endpoints /\ OnNewEndpoint(Owner(s), s[2])
<1>0. socket \in [Sockets -> SocketStates]
  BY DEF TypeOK
<1>1. ASSUME NEW t \in Sockets, ReceiveClose(t) PROVE FALSE
  <2>1. socket'[s] = IF s = t THEN "closed" ELSE socket[s]
    BY <1>0, <1>1 DEF ReceiveClose
  <2>2. toClient[t] # <<>>
    BY <1>1 DEF ReceiveClose, ClientReceives
  <2> QED BY <2>1, <2>2 DEF Farewell, Disconnected
<1>2. ASSUME NEW t \in Sockets, Open(t) PROVE FALSE
  BY <1>0, <1>2 DEF Open
<1>3. ASSUME NEW t \in Sockets, Reconnect(t) PROVE FALSE
  BY <1>0, <1>3 DEF Reconnect
<1>4. ASSUME NEW t \in Sockets, AbortedClose(t) PROVE FALSE
  BY <1>0, <1>4 DEF AbortedClose, Disconnect
<1>5. ASSUME NEW t \in Sockets, Drop(t) PROVE FALSE
  BY <1>0, <1>5 DEF Drop, Disconnect
<1>6. ASSUME NEW e \in Endpoints, Restart(e) PROVE FALSE
  BY <1>0, <1>6 DEF Restart, Disconnect
<1>7. ASSUME NEW c \in Clients, ClientClosed(c) PROVE FALSE
  BY <1>0, <1>7 DEF ClientClosed, WsClose
<1>8. ASSUME NEW c \in Clients, ClientConnects(c)
      PROVE  Owner(s) = c /\ s[2] \in EnvPlugins
  BY <1>0, <1>8 DEF ClientConnects
<1>9. ASSUME NEW c \in Clients, NEW e \in Endpoints, OnNewEndpoint(c, e)
      PROVE  s[2] = e /\ Owner(s) = c
  <2>1. s = <<c, e>>
    BY <1>0, <1>9 DEF OnNewEndpoint
  <2> QED BY <2>1 DEF Owner
<1>10. CASE socket' = socket
  BY <1>10
<1> QED
  BY <1>1, <1>2, <1>3, <1>4, <1>5, <1>6, <1>7, <1>8, <1>9, <1>10
     DEF Next, SocketStep, vars, wireVars,
         SidecarMetadata, SidecarResource, SidecarRpc, SidecarStop,
         SidecarStopped, SidecarClose, SidecarReceives, ReceiveMetadata,
         ReceiveResponse, ReceiveRpc, SetClient, OnMessage,
         SendInternalRequest, Deploy, Announce

\* The endpoint map of a client is filled when it connects and grows by new
\* addresses; nothing is ever taken out, and no client becomes absent again.
LEMMA MapGrows ==
  ASSUME TypeOK, [Next]_vars, NEW c \in Clients
  PROVE  /\ connection[c] # "absent" =>
              /\ connection'[c] # "absent"
              /\ \A e \in Endpoints : endpointsSockets[c][e] # None =>
                   endpointsSockets'[c][e] = endpointsSockets[c][e]
<1>0. /\ connection \in
           [Clients -> {"absent", "created", "ready", "closed"}]
      /\ endpointsSockets \in [Clients -> [Endpoints -> Origins \cup {None}]]
  BY DEF TypeOK
<1>1. ASSUME NEW d \in Clients, ClientConnects(d), connection[c] # "absent"
      PROVE  /\ connection'[c] # "absent"
             /\ endpointsSockets'[c] = endpointsSockets[c]
  <2>1. d # c
    BY <1>1 DEF ClientConnects
  <2>2. connection'[c] = connection[c]
    BY <1>0, <1>1, <2>1 DEF ClientConnects
  <2>3. PICK last : endpointsSockets' = [endpointsSockets EXCEPT ![d] = last]
    BY <1>1 DEF ClientConnects
  <2> QED BY <1>0, <1>1, <2>1, <2>2, <2>3
<1>2. ASSUME NEW d \in Clients, SetClient(d) \/ ClientClosed(d),
             connection[c] # "absent"
      PROVE  connection'[c] # "absent" /\ endpointsSockets' = endpointsSockets
  BY <1>0, <1>2 DEF SetClient, ClientClosed, knowledgeVars
<1>3. ASSUME NEW d \in Clients, NEW f \in Endpoints, OnNewEndpoint(d, f),
             NEW e \in Endpoints, endpointsSockets[c][e] # None
      PROVE  /\ connection' = connection
             /\ endpointsSockets'[c][e] = endpointsSockets[c][e]
  <2>1. endpointsSockets[d][f] = None
    BY <1>3 DEF OnNewEndpoint, NewAddress
  <2>2. endpointsSockets' = [endpointsSockets EXCEPT ![d][f] = f]
    BY <1>3 DEF OnNewEndpoint
  <2>3. ~(d = c /\ f = e)
    BY <1>3, <2>1
  <2>4. endpointsSockets'[c][e] = endpointsSockets[c][e]
    BY <1>0, <2>2, <2>3
  <2> QED BY <1>3, <2>4 DEF OnNewEndpoint
<1>4. CASE UNCHANGED <<connection, endpointsSockets>>
  BY <1>4
<1>5. ASSUME NEW d \in Clients, NEW f \in Endpoints, OnNewEndpoint(d, f)
      PROVE  connection' = connection
  BY <1>5 DEF OnNewEndpoint
<1> QED
  BY <1>1, <1>2, <1>3, <1>4, <1>5
     DEF Next, SocketStep, vars, knowledgeVars, Open, AbortedClose, Reconnect,
         SidecarMetadata, SidecarResource, SidecarRpc, SidecarStop,
         SidecarStopped, SidecarClose, SidecarReceives, ReceiveMetadata,
         ReceiveResponse, ReceiveRpc, ReceiveClose, ClientReceives, Drop,
         OnMessage, SendInternalRequest, Deploy, Announce, Restart

\* An object has a rival for its address only from the environment.
Rivals(s) ==
  \E p, q \in EnvPlugins :
    /\ p # q /\ EnvEndpoint[p] = Remote(s) /\ EnvEndpoint[q] = Remote(s)

LEMMA LifeStep ==
  ASSUME TypeOK, WireInv, [Next]_vars, NEW s \in Sockets,
         socket'[s] # "unused"
  PROVE  /\ connection'[Owner(s)] # "absent"
         /\ s[2] \in Endpoints => Tracked(s)'
         /\ Tracked(s)' \/ Rivals(s)
<1> DEFINE c == Owner(s)
           e == Remote(s)
<1>0. c \in Clients /\ e \in Endpoints /\ s[2] \in Origins
  BY SocketEnds
<1>1. /\ endpointsSockets \in [Clients -> [Endpoints -> Origins \cup {None}]]
      /\ connection \in [Clients -> {"absent", "created", "ready", "closed"}]
  BY DEF TypeOK
<1>2. None \notin Origins
  BY RemoteAssumption DEF Origins, EnvPlugins
<1>3. CASE socket[s] # "unused"
  <2>1. connection[c] # "absent"
    BY <1>3 DEF WireInv, LifeInv
  <2>2. Tracked(s) => Tracked(s)'
    BY <1>0, <1>2, <2>1, MapGrows DEF Tracked
  <2>3. connection'[c] # "absent"
    BY <1>0, <2>1, MapGrows
  <2> QED BY <1>3, <2>2, <2>3
          DEF WireInv, LifeInv, OrphansOnlyFromEnv, Rivals
<1>4. CASE socket[s] = "unused"
  <2>1. CASE ClientConnects(c) /\ s[2] \in EnvPlugins
    <3>1. s[2] \notin Endpoints /\ e = EnvEndpoint[s[2]]
      BY <2>1, Addresses
    <3> DEFINE here == {p \in EnvPlugins : EnvEndpoint[p] = e}
    <3>2. PICK last \in [Endpoints -> EnvPlugins \cup {None}] :
            /\ last[e] \in IF here = {} THEN {None} ELSE here
            /\ endpointsSockets' = [endpointsSockets EXCEPT ![c] = last]
      BY <1>0, <2>1 DEF ClientConnects
    <3>3. s[2] \in here
      BY <2>1, <3>1
    <3>4. last[e] \in EnvPlugins /\ EnvEndpoint[last[e]] = e
      BY <3>2, <3>3
    <3>5. endpointsSockets'[c][e] = last[e]
      BY <1>0, <1>1, <3>2
    <3>6. last[e] = s[2] => Tracked(s)'
      BY <3>5 DEF Tracked
    <3>7. last[e] # s[2] => Rivals(s)
      BY <2>1, <3>1, <3>4 DEF Rivals
    <3>8. connection'[c] = "created"
      BY <1>0, <1>1, <2>1 DEF ClientConnects
    <3> QED BY <3>1, <3>6, <3>7, <3>8
  <2>2. CASE s[2] \in Endpoints /\ OnNewEndpoint(c, s[2])
    <3>1. e = s[2]
      BY <2>2, Addresses
    <3>2. endpointsSockets'[c][e] = s[2]
      BY <1>0, <1>1, <2>2, <3>1 DEF OnNewEndpoint
    <3>3. connection'[c] # "absent"
      BY <1>0, <2>2 DEF OnNewEndpoint
    <3> QED BY <3>2, <3>3 DEF Tracked
  <2> QED BY <1>4, <2>1, <2>2, OnlyTheseConnect DEF WireInv, FarewellInv
<1> QED BY <1>3, <1>4

LEMMA LifeInvStep ==
  ASSUME TypeOK, WireInv, [Next]_vars
  PROVE  LifeInv'
<1>1. \A s \in Sockets : socket'[s] # "unused" =>
        /\ connection'[Owner(s)] # "absent"
        /\ s[2] \in Endpoints => Tracked(s)'
        /\ Tracked(s)' \/ Rivals(s)
  BY LifeStep
<1> QED BY <1>1 DEF LifeInv, OrphansOnlyFromEnv, Rivals

------------------------------------------------------------------------------
(* Every step keeps the Farewell of every socket. *)

LEMMA SocketStepFarewell ==
  ASSUME TypeOK, NEW s \in Sockets, Farewell(s), NEW t \in Sockets,
         SocketStep(t)
  PROVE  Farewell(s)'
<1>0. /\ socket \in [Sockets -> SocketStates]
      /\ toSidecar \in [Sockets -> Seq(ToSidecar)]
      /\ toClient \in [Sockets -> Seq(ToClient)]
      /\ session \in [Sockets -> {"none", "live", "stopping", "stopped"}]
  BY DEF TypeOK
<1>1. CASE Open(t)
  <2>1. CASE s = t
    <3>1. /\ toSidecar[s] = <<>> /\ toClient[s] = <<>>
      BY <1>1, <2>1 DEF Open, Farewell, Disconnected
    <3>2. /\ toSidecar'[s] = Append(toSidecar[s], [type |-> "metadata"])
          /\ toClient'[s] = toClient[s] /\ socket'[s] = "open"
      BY <1>0, <1>1, <2>1 DEF Open, WsSend
    <3>3. StopsFirst(toSidecar'[s])
      BY <1>0, <3>1, <3>2, EmptyQueue, AppendStopsFirst, MessageTypes
    <3> QED BY <3>1, <3>2, <3>3, EmptyQueue DEF Farewell, Disconnected
  <2>2. CASE s # t
    BY <1>0, <1>1, <2>2, Untouched DEF Open
  <2> QED BY <2>1, <2>2
<1>2. CASE AbortedClose(t)
  BY <1>2, DisconnectFarewell DEF AbortedClose, Disconnected
<1>3. CASE Reconnect(t)
  <2>1. CASE s = t
    BY <1>0, <1>3, <2>1, EmptyQueue DEF Reconnect, Farewell, Disconnected
  <2>2. CASE s # t
    BY <1>0, <1>3, <2>2, Untouched DEF Reconnect
  <2> QED BY <2>1, <2>2
<1>4. CASE SidecarMetadata(t)
  <2>1. deployed[Remote(t)] \in SUBSET Plugins
    BY SocketEnds DEF TypeOK
  <2> QED BY <1>4, <2>1, SidecarFarewell, MessageTypes DEF SidecarMetadata
<1>5. CASE SidecarResource(t)
  <2>1. Head(toSidecar[t]) \in ToSidecar /\ Head(toSidecar[t]).type = "request"
    BY <1>5, SidecarReceivesType DEF SidecarResource, SidecarReceives
  <2> QED BY <1>5, <2>1, SidecarFarewell, MessageTypes, MessageFields
          DEF SidecarResource
<1>6. CASE SidecarRpc(t)
  BY <1>6, SidecarFarewell, MessageTypes DEF SidecarRpc
<1>7. CASE SidecarStop(t)
  <2>1. CASE s = t
    <3>1. /\ session'[s] = "stopping" /\ socket'[s] = socket[s]
          /\ toSidecar[s] # <<>>
      BY <1>0, <1>7, <2>1 DEF SidecarStop, SidecarReceives
    <3> QED BY <3>1 DEF Farewell, Told
  <2>2. CASE s # t
    BY <1>0, <1>7, <2>2, Untouched DEF SidecarStop, SidecarReceives
  <2> QED BY <2>1, <2>2
<1>8. CASE SidecarStopped(t)
  <2>1. CASE s = t
    BY <1>0, <1>8, <2>1 DEF SidecarStopped, Farewell, Told
  <2>2. CASE s # t
    BY <1>0, <1>8, <2>2, Untouched DEF SidecarStopped
  <2> QED BY <2>1, <2>2
<1>9. CASE SidecarClose(t)
  BY <1>9, SidecarFarewell, MessageTypes DEF SidecarClose
<1>10. CASE ReceiveMetadata(t)
  BY <1>10, ClientFarewell DEF ReceiveMetadata
<1>11. CASE ReceiveResponse(t)
  BY <1>11, ClientFarewell DEF ReceiveResponse
<1>12. CASE ReceiveRpc(t)
  BY <1>12, ClientFarewell DEF ReceiveRpc
<1>13. CASE ReceiveClose(t)
  <2>1. CASE s = t
    <3>1. /\ toClient[s] \in Seq(ToClient) /\ toClient[s] # <<>>
          /\ Head(toClient[s]).type = "close"
          /\ toClient'[s] = Tail(toClient[s])
          /\ UNCHANGED <<toSidecar, session>> /\ socket'[s] = "closed"
      BY <1>0, <1>13, <2>1 DEF ReceiveClose, ClientReceives
    <3>2. Told(s)
      BY <3>1, TailNoClose DEF Farewell
    <3> QED BY <3>1, <3>2 DEF Farewell, Told, Disconnected
  <2>2. CASE s # t
    BY <1>0, <1>13, <2>2, Untouched DEF ReceiveClose, ClientReceives
  <2> QED BY <2>1, <2>2
<1> QED
  BY <1>1, <1>2, <1>3, <1>4, <1>5, <1>6, <1>7, <1>8, <1>9, <1>10, <1>11,
     <1>12, <1>13 DEF SocketStep

\* clientClosed says 'stop' and then close, on open connections only.
LEMMA ClientClosedFarewell ==
  ASSUME TypeOK, NEW s \in Sockets, Farewell(s), NEW c \in Clients,
         ClientClosed(c)
  PROVE  Farewell(s)'
<1>0. /\ toSidecar[s] \in Seq(ToSidecar)
      /\ UNCHANGED <<toClient, session>>
  BY DEF TypeOK, ClientClosed
<1>1. \/ toSidecar'[s] = toSidecar[s] /\ socket'[s] = socket[s]
      \/ /\ toSidecar'[s] = LastWords(toSidecar[s], socket[s])
         /\ socket'[s] = WsClose(socket[s])
  BY DEF ClientClosed
<1>2. CASE toSidecar'[s] = toSidecar[s] /\ socket'[s] = socket[s]
  BY <1>0, <1>2, Untouched
<1>3. CASE /\ toSidecar'[s] = LastWords(toSidecar[s], socket[s])
           /\ socket'[s] = WsClose(socket[s])
  <2>1. CASE socket[s] = "open"
    <3>1. toSidecar'[s] = Append(Append(toSidecar[s], [type |-> "stop"]),
                                 [type |-> "close"])
      BY <1>3, <2>1 DEF LastWords, WsSend
    <3>2. StopsFirst(toSidecar[s]) => StopsFirst(toSidecar'[s])
      BY <1>0, <3>1, StopThenClose, MessageTypes
    <3>3. socket'[s] = "closing"
      BY <1>3, <2>1 DEF WsClose
    <3> QED BY <1>0, <3>2, <3>3 DEF Farewell, Told, Disconnected
  <2>2. CASE socket[s] # "open"
    <3>1. toSidecar'[s] = toSidecar[s]
      BY <1>3, <2>2 DEF LastWords, WsSend
    <3>2. \/ socket'[s] = socket[s]
          \/ socket[s] = "connecting" /\ socket'[s] = "aborting"
      BY <1>3, <2>2 DEF WsClose
    <3> QED BY <1>0, <3>1, <3>2 DEF Farewell, Told, Disconnected
  <2> QED BY <2>1, <2>2
<1> QED BY <1>1, <1>2, <1>3

LEMMA FarewellInvStep ==
  ASSUME TypeOK, WireInv, [Next]_vars
  PROVE  FarewellInv'
<1> SUFFICES ASSUME NEW s \in Sockets PROVE Farewell(s)'
  BY DEF FarewellInv
<1>0. /\ Farewell(s)
      /\ socket \in [Sockets -> SocketStates]
      /\ toSidecar \in [Sockets -> Seq(ToSidecar)]
  BY DEF TypeOK, WireInv, FarewellInv
<1>1. ASSUME NEW t \in Sockets, SocketStep(t) PROVE Farewell(s)'
  BY <1>0, <1>1, SocketStepFarewell
<1>2. ASSUME NEW t \in Sockets, Drop(t) PROVE Farewell(s)'
  BY <1>0, <1>2, DisconnectFarewell DEF Drop, Disconnected
<1>3. ASSUME NEW c \in Clients, ClientConnects(c) PROVE Farewell(s)'
  <2>1. UNCHANGED <<toSidecar, toClient, session>>
    BY <1>3 DEF ClientConnects
  <2>2. CASE Owner(s) = c /\ s[2] \in EnvPlugins
    <3>1. socket[s] = "unused"
      BY <1>3, <2>2 DEF ClientConnects, WireInv, LifeInv
    <3>2. socket'[s] = "connecting"
      BY <1>3, <2>2 DEF ClientConnects
    <3> QED BY <1>0, <2>1, <3>1, <3>2 DEF Farewell, Told, Disconnected
  <2>3. CASE ~(Owner(s) = c /\ s[2] \in EnvPlugins)
    BY <1>0, <1>3, <2>1, <2>3, Untouched DEF ClientConnects
  <2> QED BY <2>2, <2>3
<1>4. ASSUME NEW c \in Clients, ClientClosed(c) PROVE Farewell(s)'
  BY <1>0, <1>4, ClientClosedFarewell
<1>5. ASSUME NEW c \in Clients, NEW e \in Endpoints, OnNewEndpoint(c, e)
      PROVE  Farewell(s)'
  <2>1. UNCHANGED <<toSidecar, toClient, session>>
    BY <1>5 DEF OnNewEndpoint
  <2>2. CASE s = <<c, e>>
    <3>1. ~Tracked(s)
      <4>1. Owner(s) = c /\ Remote(s) = e
        BY <2>2 DEF Owner, Remote, Address
      <4>2. endpointsSockets[c][e] = None
        BY <1>5 DEF OnNewEndpoint, NewAddress
      <4> QED BY <2>2, <4>1, <4>2, RemoteAssumption DEF Tracked
    <3>2. s[2] \in Endpoints
      BY <2>2
    <3>3. socket[s] = "unused"
      BY <3>1, <3>2 DEF WireInv, LifeInv
    <3>4. socket'[s] = "connecting"
      BY <1>0, <1>5, <2>2 DEF OnNewEndpoint
    <3> QED BY <1>0, <2>1, <3>3, <3>4 DEF Farewell, Told, Disconnected
  <2>3. CASE s # <<c, e>>
    <3>1. socket'[s] = socket[s]
      BY <1>0, <1>5, <2>3 DEF OnNewEndpoint
    <3> QED BY <1>0, <2>1, <3>1, Untouched
  <2> QED BY <2>2, <2>3
<1>6. ASSUME NEW c \in Clients, NEW e \in Endpoints, OnMessage(c, e)
      PROVE  Farewell(s)'
  <2> DEFINE t == <<c, endpointsSockets[c][e]>>
  <2>1. /\ toSidecar' = [toSidecar EXCEPT
                           ![t] = WsSend(@, socket[t], [type |-> "rpc"])]
        /\ UNCHANGED <<socket, session, toClient>>
    BY <1>6 DEF OnMessage
  <2>2. CASE s = t
    BY <1>0, <2>1, <2>2, SendFarewell, MessageTypes
  <2>3. CASE s # t
    BY <1>0, <2>1, <2>3, Untouched
  <2> QED BY <2>2, <2>3
<1>7. ASSUME NEW p \in Plugins, SendInternalRequest(p)
      PROVE  Farewell(s)'
  <2> DEFINE t == <<readerRemote,
                    endpointsSockets[readerRemote][pluginsEndpoints[p]]>>
             m == [type |-> "request", id |-> nextMessageId[readerRemote] + 1,
                   plugin |-> p]
  <2>1. /\ toSidecar' = [toSidecar EXCEPT ![t] = WsSend(@, socket[t], m)]
        /\ UNCHANGED <<socket, session, toClient>>
    BY <1>7 DEF SendInternalRequest
  <2>2. m \in ToSidecar /\ m.type # "close"
    <3>1. nextMessageId[readerRemote] \in Nat
      BY <1>7 DEF SendInternalRequest, TypeOK
    <3>2. m \in ToSidecar
      BY <3>1 DEF ToSidecar
    <3>3. m.type = "request"
      OBVIOUS
    <3> QED BY <3>2, <3>3
  <2>3. CASE s = t
    BY <1>0, <2>1, <2>2, <2>3, SendFarewell
  <2>4. CASE s # t
    BY <1>0, <2>1, <2>4, Untouched
  <2> QED BY <2>3, <2>4
<1>8. ASSUME NEW e \in Endpoints, Restart(e) PROVE Farewell(s)'
  BY <1>0, <1>8, DisconnectFarewell DEF Restart, Disconnected
<1>9. CASE UNCHANGED wireVars
  BY <1>0, <1>9, Untouched DEF wireVars
<1> QED
  BY <1>1, <1>2, <1>3, <1>4, <1>5, <1>6, <1>7, <1>8, <1>9
     DEF Next, vars, SetClient, Deploy, Announce

LEMMA WireInvariant == Spec => []WireInv
<1>1. Init => WireInv
  BY EmptyQueue DEF Init, WireInv, FarewellInv, Farewell, Disconnected, LifeInv,
                    OrphansOnlyFromEnv
<1>2. TypeOK /\ WireInv /\ [Next]_vars => WireInv'
  BY FarewellInvStep, LifeInvStep DEF WireInv
<1> QED BY <1>1, <1>2, TypeCorrect, PTL DEF Spec

\* A connection that ends normally has told its sidecar to stop before, for
\* any interleaving of clients, sockets, failures and restarts.
THEOREM StopAlwaysFirst == Spec => []StopBeforeClose
<1>1. WireInv => StopBeforeClose
  BY DEF WireInv, FarewellInv, Farewell, Told, StopBeforeClose
<1> QED BY <1>1, WireInvariant, PTL

\* Discovery never opens a second Websocket to an address: only environment
\* variables that share an address can.
THEOREM NoOrphanFromDiscovery == Spec => []OrphansOnlyFromEnv
<1>1. WireInv => OrphansOnlyFromEnv
  BY DEF WireInv, LifeInv
<1> QED BY <1>1, WireInvariant, PTL
==============================================================================
