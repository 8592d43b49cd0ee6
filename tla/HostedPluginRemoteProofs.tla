----------------------- MODULE HostedPluginRemoteProofs -----------------------
(***************************************************************************)
(* Theorems about HostedPluginRemote, for every number of clients, sidecars*)
(* and plugins, every deployment and environment, and every bound.         *)
(***************************************************************************)
EXTENDS HostedPluginRemote, TLAPS

\* The ends of a Websocket object are a client and an endpoint.
LEMMA SocketEnds ==
  ASSUME NEW s \in Sockets
  PROVE  Owner(s) \in Clients /\ s[2] \in Origins /\ Remote(s) \in Endpoints
BY RemoteAssumption
   DEF Sockets, Owner, Remote, Address, Origins, EnvPlugins

\* A socket found in a map of endpoint sockets is a socket of that client.
LEMMA TrackedIsSocket ==
  ASSUME TypeOK, NEW c \in Clients, NEW e \in Endpoints,
         endpointsSockets[c][e] # None
  PROVE  <<c, endpointsSockets[c][e]>> \in Sockets
BY DEF TypeOK, Sockets

\* Websocket.send keeps a queue a queue of sidecar messages.
LEMMA SendType ==
  ASSUME NEW queue \in Seq(ToSidecar), NEW state, NEW m \in ToSidecar
  PROVE  WsSend(queue, state, m) \in Seq(ToSidecar)
BY DEF WsSend

\* The messages the code builds have the types of their channel.
LEMMA MessageTypes ==
  /\ [type |-> "metadata"] \in ToSidecar
  /\ [type |-> "stop"] \in ToSidecar
  /\ [type |-> "rpc"] \in ToSidecar
  /\ [type |-> "close"] \in ToSidecar
  /\ \A i \in Nat, p \in Plugins :
       /\ [type |-> "request", id |-> i, plugin |-> p] \in ToSidecar
       /\ [type |-> "response", id |-> i, plugin |-> p] \in ToClient
  /\ [type |-> "rpc"] \in ToClient
  /\ [type |-> "close"] \in ToClient
  /\ \A P \in SUBSET Plugins : [type |-> "metadata", plugins |-> P] \in ToClient
BY DEF ToSidecar, ToClient

\* What the type tag of a received message says about its other fields.
LEMMA MessageFields ==
  /\ \A m \in ToSidecar :
       m.type = "request" => m.id \in Nat /\ m.plugin \in Plugins
  /\ \A m \in ToClient :
       /\ m.type = "metadata" => m.plugins \in SUBSET Plugins
       /\ m.type = "response" => m.id \in Nat /\ m.plugin \in Plugins
BY DEF ToSidecar, ToClient

LEMMA InitType == Init => TypeOK
BY RemoteAssumption DEF Init, TypeOK, SocketStates

\* Breaking connections leaves the wire variables well typed.
LEMMA DisconnectType ==
  ASSUME TypeOK, NEW S, NEW st \in SocketStates, Disconnect(S, st)
  PROVE  /\ socket' \in [Sockets -> SocketStates]
         /\ session' \in [Sockets -> {"none", "live", "stopping", "stopped"}]
         /\ toSidecar' \in [Sockets -> Seq(ToSidecar)]
         /\ toClient' \in [Sockets -> Seq(ToClient)]
BY DEF TypeOK, Disconnect

\* What the head and the tail of a non-empty channel are.
LEMMA SidecarReceivesType ==
  ASSUME TypeOK, NEW s \in Sockets, NEW type, SidecarReceives(s, type)
  PROVE  /\ Head(toSidecar[s]) \in ToSidecar
         /\ toSidecar' \in [Sockets -> Seq(ToSidecar)]
<1>1. toSidecar[s] \in Seq(ToSidecar) /\ toSidecar[s] # <<>>
  BY DEF TypeOK, SidecarReceives
<1>2. Head(toSidecar[s]) \in ToSidecar /\ Tail(toSidecar[s]) \in Seq(ToSidecar)
  BY <1>1
<1> QED BY <1>2 DEF TypeOK, SidecarReceives

LEMMA ClientReceivesType ==
  ASSUME TypeOK, NEW s \in Sockets, NEW type, ClientReceives(s, type)
  PROVE  /\ Head(toClient[s]) \in ToClient
         /\ toClient' \in [Sockets -> Seq(ToClient)]
<1>1. toClient[s] \in Seq(ToClient) /\ toClient[s] # <<>>
  BY DEF TypeOK, ClientReceives
<1>2. Head(toClient[s]) \in ToClient /\ Tail(toClient[s]) \in Seq(ToClient)
  BY <1>1
<1> QED BY <1>2 DEF TypeOK, ClientReceives

\* A reply of a well-typed message keeps the channel to the client well typed.
LEMMA ReplyType ==
  ASSUME TypeOK, NEW s \in Sockets, NEW m \in ToClient, Reply(s, m)
  PROVE  toClient' \in [Sockets -> Seq(ToClient)]
BY DEF TypeOK, Reply

\* Every step of the sockets, sidecars and receive handlers keeps the types.
LEMMA SocketStepType ==
  ASSUME TypeOK, NEW s \in Sockets, SocketStep(s)
  PROVE  TypeOK'
<1> USE DEF sharedVars, requestVars, knowledgeVars, wireVars, sidecarVars,
            boundVars
<1>0. Owner(s) \in Clients /\ s[2] \in Origins /\ Remote(s) \in Endpoints
  BY SocketEnds
<1>1. CASE Open(s)
  <2>1. toSidecar' \in [Sockets -> Seq(ToSidecar)]
    BY <1>1, MessageTypes, SendType DEF Open, TypeOK
  <2> QED BY <1>1, <2>1 DEF Open, TypeOK, SocketStates
<1>2. CASE AbortedClose(s)
  <2>1. "waiting" \in SocketStates
    BY DEF SocketStates
  <2> QED BY <1>2, <2>1, DisconnectType DEF AbortedClose, TypeOK
<1>3. CASE Reconnect(s)
  BY <1>3 DEF Reconnect, TypeOK, SocketStates
<1>4. CASE SidecarMetadata(s)
  <2>1. deployed[Remote(s)] \in SUBSET Plugins
    BY <1>0 DEF TypeOK
  <2>2. toClient' \in [Sockets -> Seq(ToClient)]
    BY <1>4, <2>1, MessageTypes, ReplyType DEF SidecarMetadata
  <2>3. toSidecar' \in [Sockets -> Seq(ToSidecar)]
    BY <1>4, SidecarReceivesType DEF SidecarMetadata
  <2> QED BY <1>4, <2>2, <2>3 DEF SidecarMetadata, SidecarReceives, TypeOK
<1>5. CASE SidecarResource(s)
  <2>1. SidecarReceives(s, "request")
    BY <1>5 DEF SidecarResource
  <2>2. /\ Head(toSidecar[s]).id \in Nat
        /\ Head(toSidecar[s]).plugin \in Plugins
    BY <2>1, SidecarReceivesType, MessageFields DEF SidecarReceives
  <2>3. toClient' \in [Sockets -> Seq(ToClient)]
    BY <1>5, <2>2, MessageTypes, ReplyType DEF SidecarResource, TypeOK
  <2>4. toSidecar' \in [Sockets -> Seq(ToSidecar)]
    BY <2>1, SidecarReceivesType
  <2> QED BY <1>5, <2>1, <2>3, <2>4 DEF SidecarResource, SidecarReceives, TypeOK
<1>6. CASE SidecarRpc(s)
  <2>1. toClient' \in [Sockets -> Seq(ToClient)]
    BY <1>6, MessageTypes, ReplyType DEF SidecarRpc, TypeOK
  <2>2. toSidecar' \in [Sockets -> Seq(ToSidecar)]
    BY <1>6, SidecarReceivesType DEF SidecarRpc
  <2> QED BY <1>6, <2>1, <2>2 DEF SidecarRpc, SidecarReceives, TypeOK
<1>7. CASE SidecarStop(s)
  <2>1. toSidecar' \in [Sockets -> Seq(ToSidecar)]
    BY <1>7, SidecarReceivesType DEF SidecarStop
  <2> QED BY <1>7, <2>1 DEF SidecarStop, SidecarReceives, TypeOK
<1>8. CASE SidecarStopped(s)
  BY <1>8 DEF SidecarStopped, TypeOK
<1>9. CASE SidecarClose(s)
  <2>1. toClient' \in [Sockets -> Seq(ToClient)]
    BY <1>9, MessageTypes, ReplyType DEF SidecarClose
  <2>2. toSidecar' \in [Sockets -> Seq(ToSidecar)]
    BY <1>9, SidecarReceivesType DEF SidecarClose
  <2> QED BY <1>9, <2>1, <2>2 DEF SidecarClose, SidecarReceives, TypeOK
<1>10. CASE ReceiveMetadata(s)
  <2> DEFINE reported == Head(toClient[s]).plugins
  <2>1. ClientReceives(s, "metadata")
    BY <1>10 DEF ReceiveMetadata
  <2>2. reported \in SUBSET Plugins
    BY <2>1, ClientReceivesType, MessageFields DEF ClientReceives
  <2>3. toClient' \in [Sockets -> Seq(ToClient)]
    BY <2>1, ClientReceivesType
  <2>4. pluginsEndpoints' \in [Plugins -> Endpoints \cup {None}]
    BY <1>0, <1>10 DEF ReceiveMetadata, SetEndpoints, TypeOK
  <2>5. pluginsDeployedPlugins' \in [Clients -> [Endpoints -> SUBSET Plugins]]
    BY <1>0, <1>10, <2>2 DEF ReceiveMetadata, TypeOK
  <2> QED BY <1>10, <2>1, <2>3, <2>4, <2>5
          DEF ReceiveMetadata, ClientReceives, TypeOK
<1>11. CASE ReceiveResponse(s)
  <2> DEFINE m == Head(toClient[s])
             c == Owner(s)
  <2>1. ClientReceives(s, "response")
    BY <1>11 DEF ReceiveResponse
  <2>2. m.plugin \in Plugins
    BY <2>1, ClientReceivesType, MessageFields DEF ClientReceives
  <2>3. toClient' \in [Sockets -> Seq(ToClient)]
    BY <2>1, ClientReceivesType
  <2>4. pendingInternalRequests' \in
          [Clients -> SUBSET [id : Nat, plugin : Plugins]]
    BY <1>0, <1>11 DEF ReceiveResponse, Others, TypeOK
  <2>5. {[id |-> r.id, plugin |-> r.plugin, data |-> m.plugin] :
           r \in Awaited(c, m.id)}
          \in SUBSET [id : Nat, plugin : Plugins, data : Plugins]
    BY <1>0, <2>2 DEF Awaited, TypeOK
  <2>6. resolved' \in
          [Clients -> SUBSET [id : Nat, plugin : Plugins, data : Plugins]]
    BY <1>0, <1>11, <2>5 DEF ReceiveResponse, TypeOK
  <2> QED BY <1>11, <2>1, <2>3, <2>4, <2>6
          DEF ReceiveResponse, ClientReceives, TypeOK
<1>12. CASE ReceiveRpc(s)
  <2>1. toClient' \in [Sockets -> Seq(ToClient)]
    BY <1>12, ClientReceivesType DEF ReceiveRpc
  <2> QED BY <1>12, <2>1 DEF ReceiveRpc, ClientReceives, TypeOK
<1>13. CASE ReceiveClose(s)
  <2>1. toClient' \in [Sockets -> Seq(ToClient)]
    BY <1>13, ClientReceivesType DEF ReceiveClose
  <2> QED BY <1>13, <2>1 DEF ReceiveClose, ClientReceives, TypeOK, SocketStates
<1> QED
  BY <1>1, <1>2, <1>3, <1>4, <1>5, <1>6, <1>7, <1>8, <1>9, <1>10, <1>11,
     <1>12, <1>13 DEF SocketStep

\* Every step of the browser connections and sidecars keeps the types.
LEMMA OtherStepType ==
  ASSUME TypeOK, Next, ~ \E s \in Sockets : SocketStep(s)
  PROVE  TypeOK'
<1> USE DEF sharedVars, requestVars, knowledgeVars, wireVars, sidecarVars,
            boundVars
<1>1. ASSUME NEW s \in Sockets, Drop(s) PROVE TypeOK'
  <2>1. "waiting" \in SocketStates
    BY DEF SocketStates
  <2> QED BY <1>1, <2>1, DisconnectType DEF Drop, TypeOK
<1>2. ASSUME NEW c \in Clients, ClientConnects(c) PROVE TypeOK'
  <2>1. PICK last \in [Endpoints -> EnvPlugins \cup {None}] :
          endpointsSockets' = [endpointsSockets EXCEPT ![c] = last]
    BY <1>2 DEF ClientConnects
  <2>2. last \in [Endpoints -> Origins \cup {None}]
    BY DEF Origins
  <2>3. endpointsSockets' \in [Clients -> [Endpoints -> Origins \cup {None}]]
    BY <2>1, <2>2 DEF TypeOK
  <2> QED BY <1>2, <2>3 DEF ClientConnects, TypeOK, SocketStates
<1>3. ASSUME NEW c \in Clients, SetClient(c) PROVE TypeOK'
  BY <1>3 DEF SetClient, TypeOK
<1>4. ASSUME NEW c \in Clients, ClientClosed(c) PROVE TypeOK'
  <2>1. toSidecar' \in [Sockets -> Seq(ToSidecar)]
    <3>1. \A s \in Sockets :
            LastWords(toSidecar[s], socket[s]) \in Seq(ToSidecar)
      BY MessageTypes, SendType DEF LastWords, TypeOK
    <3> QED BY <1>4, <3>1 DEF ClientClosed, TypeOK
  <2>2. socket' \in [Sockets -> SocketStates]
    BY <1>4 DEF ClientClosed, TypeOK, SocketStates, WsClose
  <2> QED BY <1>4, <2>1, <2>2 DEF ClientClosed, TypeOK
<1>5. ASSUME NEW c \in Clients, NEW e \in Endpoints, OnNewEndpoint(c, e)
      PROVE  TypeOK'
  BY <1>5 DEF OnNewEndpoint, TypeOK, SocketStates, Origins
<1>6. ASSUME NEW c \in Clients, NEW e \in Endpoints, OnMessage(c, e)
      PROVE  TypeOK'
  <2> DEFINE s == <<c, endpointsSockets[c][e]>>
  <2>1. s \in Sockets
    BY <1>6, TrackedIsSocket DEF OnMessage
  <2>2. WsSend(toSidecar[s], socket[s], [type |-> "rpc"]) \in Seq(ToSidecar)
    BY <2>1, MessageTypes, SendType DEF TypeOK
  <2>3. toSidecar' \in [Sockets -> Seq(ToSidecar)]
    BY <1>6, <2>1, <2>2 DEF OnMessage, TypeOK
  <2> QED BY <1>6, <2>3 DEF OnMessage, TypeOK
<1>7. ASSUME NEW p \in Plugins, SendInternalRequest(p) PROVE TypeOK'
  <2> DEFINE c == readerRemote
             s == <<c, endpointsSockets[c][pluginsEndpoints[p]]>>
             id == nextMessageId[c] + 1
             m == [type |-> "request", id |-> id, plugin |-> p]
  <2>1. c \in Clients /\ pluginsEndpoints[p] \in Endpoints
    BY <1>7 DEF SendInternalRequest, TypeOK
  <2>2. s \in Sockets
    BY <1>7, <2>1, TrackedIsSocket DEF SendInternalRequest
  <2>3. id \in Nat
    BY <2>1 DEF TypeOK
  <2>4. WsSend(toSidecar[s], socket[s], m) \in Seq(ToSidecar)
    BY <2>2, <2>3, MessageTypes, SendType DEF TypeOK
  <2>5. toSidecar' \in [Sockets -> Seq(ToSidecar)]
    BY <1>7, <2>2, <2>4 DEF SendInternalRequest, TypeOK
  <2>6. pendingInternalRequests' \in
          [Clients -> SUBSET [id : Nat, plugin : Plugins]]
    BY <1>7, <2>1, <2>3 DEF SendInternalRequest, TypeOK
  <2> QED BY <1>7, <2>1, <2>3, <2>5, <2>6 DEF SendInternalRequest, TypeOK
<1>8. ASSUME NEW e \in Endpoints, NEW p \in Plugins, Deploy(e, p)
      PROVE  TypeOK'
  BY <1>8 DEF Deploy, TypeOK
<1>9. ASSUME NEW e \in Endpoints, Announce(e) PROVE TypeOK'
  BY <1>9 DEF Announce, TypeOK
<1>10. ASSUME NEW e \in Endpoints, Restart(e) PROVE TypeOK'
  <2>1. "waiting" \in SocketStates
    BY DEF SocketStates
  <2> QED BY <1>10, <2>1, DisconnectType DEF Restart, TypeOK
<1> QED
  BY <1>1, <1>2, <1>3, <1>4, <1>5, <1>6, <1>7, <1>8, <1>9, <1>10 DEF Next

\* Type correctness of the remote connection, for every instance.
THEOREM TypeCorrect == Spec => []TypeOK
<1>1. TypeOK /\ [Next]_vars => TypeOK'
  <2>1. ASSUME TypeOK, UNCHANGED vars PROVE TypeOK'
    BY <2>1 DEF TypeOK, vars, sharedVars, requestVars, knowledgeVars, wireVars,
                sidecarVars, boundVars
  <2> QED BY <2>1, SocketStepType, OtherStepType
<1> QED BY <1>1, InitType, PTL DEF Spec

------------------------------------------------------------------------------
(* The shared mapping. *)

\* Only a metadata result changes the mapping.
LEMMA OnlyMetadataMaps ==
  ASSUME TypeOK, [Next]_vars, pluginsEndpoints' # pluginsEndpoints
  PROVE  \E s \in Sockets : ReceiveMetadata(s)
BY DEF Next, SocketStep, vars, sharedVars, Open, AbortedClose, Reconnect,
       SidecarMetadata, SidecarResource, SidecarRpc, SidecarStop,
       SidecarStopped, SidecarClose, SidecarReceives, ReceiveResponse,
       ReceiveRpc, ReceiveClose, Drop, ClientConnects, SetClient,
       ClientClosed, OnNewEndpoint, OnMessage, SendInternalRequest, Deploy,
       Announce, Restart

\* Whoever reports a mapped plugin later, its endpoint stays: for all numbers
\* of clients and sidecars (handleLocalMessage asks hasEndpoint first).
THEOREM FirstMappingStays == Spec => FirstMappingWins
<1>1. TypeOK /\ [Next]_vars =>
        [\A p \in Plugins : pluginsEndpoints[p] # None =>
           pluginsEndpoints'[p] = pluginsEndpoints[p]]_vars
  <2> SUFFICES ASSUME TypeOK, [Next]_vars, NEW p \in Plugins,
                      pluginsEndpoints[p] # None
               PROVE  pluginsEndpoints'[p] = pluginsEndpoints[p]
    OBVIOUS
  <2>1. CASE pluginsEndpoints' = pluginsEndpoints
    BY <2>1
  <2>2. CASE pluginsEndpoints' # pluginsEndpoints
    <3>1. PICK s \in Sockets : ReceiveMetadata(s)
      BY <2>2, OnlyMetadataMaps
    <3> QED BY <3>1 DEF ReceiveMetadata, SetEndpoints, Unmapped
  <2> QED BY <2>1, <2>2
<1> QED BY <1>1, TypeCorrect, PTL DEF Spec, FirstMappingWins

------------------------------------------------------------------------------
(* Where the messages of a channel come from. *)

InQueue(m, queue) == \E k \in 1..Len(queue) : queue[k] = m

\* Appending adds the message appended and no other.
LEMMA InAppend ==
  ASSUME NEW T, NEW queue \in Seq(T), NEW x \in T,
         NEW m, InQueue(m, Append(queue, x))
  PROVE  InQueue(m, queue) \/ m = x
BY DEF InQueue

\* The tail has no message the queue does not have.
LEMMA InTail ==
  ASSUME NEW T, NEW queue \in Seq(T), queue # <<>>,
         NEW m, InQueue(m, Tail(queue))
  PROVE  InQueue(m, queue)
<1>1. PICK k \in 1..Len(Tail(queue)) : Tail(queue)[k] = m
  BY DEF InQueue
<1>2. k + 1 \in 1..Len(queue) /\ queue[k + 1] = m
  BY <1>1
<1> QED BY <1>2 DEF InQueue

\* The head of a queue is one of its messages.
LEMMA InHead ==
  ASSUME NEW T, NEW queue \in Seq(T), queue # <<>>
  PROVE  InQueue(Head(queue), queue)
<1>1. 1 \in 1..Len(queue) /\ Head(queue) = queue[1]
  OBVIOUS
<1> QED BY <1>1 DEF InQueue

LEMMA InEmpty == ASSUME NEW m PROVE ~ InQueue(m, <<>>)
BY DEF InQueue

\* A message found in a queue has the type of its messages.
LEMMA InType ==
  ASSUME NEW T, NEW queue \in Seq(T), NEW m, InQueue(m, queue)
  PROVE  m \in T
BY DEF InQueue

\* After a reply, the channel holds old messages and the reply.
LEMMA InReply ==
  ASSUME TypeOK, NEW s \in Sockets, NEW t \in Sockets,
         NEW x \in ToClient, Reply(t, x), NEW m, InQueue(m, toClient'[s])
  PROVE  InQueue(m, toClient[s]) \/ (s = t /\ m = x)
<1>1. toClient[s] \in Seq(ToClient)
  BY DEF TypeOK
<1>2. toClient'[s] = IF s = t THEN Append(toClient[s], x) ELSE toClient[s]
  BY DEF TypeOK, Reply
<1> QED BY <1>1, <1>2, InAppend

\* After Disconnect and after a receive, a channel holds old messages only.
LEMMA InDisconnect ==
  ASSUME TypeOK, NEW s \in Sockets, NEW S, NEW st, Disconnect(S, st), NEW m
  PROVE  /\ InQueue(m, toClient'[s]) => InQueue(m, toClient[s])
         /\ InQueue(m, toSidecar'[s]) => InQueue(m, toSidecar[s])
BY InEmpty DEF Disconnect

LEMMA InClientReceives ==
  ASSUME TypeOK, NEW s \in Sockets, NEW t \in Sockets, NEW type,
         ClientReceives(t, type), NEW m, InQueue(m, toClient'[s])
  PROVE  InQueue(m, toClient[s])
<1>1. toClient[t] \in Seq(ToClient) /\ toClient[t] # <<>>
  BY DEF TypeOK, ClientReceives
<1>2. toClient'[s] = IF s = t THEN Tail(toClient[s]) ELSE toClient[s]
  BY DEF TypeOK, ClientReceives
<1> QED BY <1>1, <1>2, InTail

LEMMA InSidecarReceives ==
  ASSUME TypeOK, NEW s \in Sockets, NEW t \in Sockets, NEW type,
         SidecarReceives(t, type), NEW m, InQueue(m, toSidecar'[s])
  PROVE  InQueue(m, toSidecar[s])
<1>1. toSidecar[t] \in Seq(ToSidecar) /\ toSidecar[t] # <<>>
  BY DEF TypeOK, SidecarReceives
<1>2. toSidecar'[s] = IF s = t THEN Tail(toSidecar[s]) ELSE toSidecar[s]
  BY DEF TypeOK, SidecarReceives
<1> QED BY <1>1, <1>2, InTail

\* What a step may add to the channel from a sidecar to its client.
LEMMA ToClientOrigin ==
  ASSUME TypeOK, [Next]_vars, NEW s \in Sockets,
         NEW m, InQueue(m, toClient'[s])
  PROVE  \/ InQueue(m, toClient[s])
         \/ m.type \in {"rpc", "close"}
         \/ m = [type |-> "metadata", plugins |-> deployed[Remote(s)]]
         \/ \E r \in ToSidecar :
              /\ InQueue(r, toSidecar[s]) /\ r.type = "request"
              /\ m = [type |-> "response", id |-> r.id, plugin |-> r.plugin]
<1>1. ASSUME NEW t \in Sockets, SidecarMetadata(t)
      PROVE  \/ InQueue(m, toClient[s])
             \/ m = [type |-> "metadata", plugins |-> deployed[Remote(s)]]
  <2>1. deployed[Remote(t)] \in SUBSET Plugins
    BY SocketEnds DEF TypeOK
  <2> QED BY <1>1, <2>1, InReply, MessageTypes DEF SidecarMetadata
<1>2. ASSUME NEW t \in Sockets, SidecarResource(t)
      PROVE  \/ InQueue(m, toClient[s])
             \/ \E r \in ToSidecar :
                  /\ InQueue(r, toSidecar[s]) /\ r.type = "request"
                  /\ m = [type |-> "response", id |-> r.id,
                          plugin |-> r.plugin]
  <2> DEFINE r == Head(toSidecar[t])
             x == [type |-> "response", id |-> r.id, plugin |-> r.plugin]
  <2>1. SidecarReceives(t, "request") /\ r \in ToSidecar /\ r.type = "request"
    BY <1>2, SidecarReceivesType DEF SidecarResource, SidecarReceives
  <2>2. x \in ToClient
    BY <2>1, MessageFields, MessageTypes
  <2>3. InQueue(r, toSidecar[t])
    BY <2>1, InHead DEF SidecarReceives, TypeOK
  <2>4. CASE Reply(t, x)
    BY <2>1, <2>2, <2>3, <2>4, InReply
  <2>5. CASE UNCHANGED toClient
    BY <2>5
  <2> QED BY <1>2, <2>4, <2>5 DEF SidecarResource
<1>3. ASSUME NEW t \in Sockets, SidecarRpc(t) \/ SidecarClose(t)
      PROVE  InQueue(m, toClient[s]) \/ m.type \in {"rpc", "close"}
  BY <1>3, InReply, MessageTypes DEF SidecarRpc, SidecarClose
<1>4. ASSUME NEW t \in Sockets,
             \/ ReceiveMetadata(t) \/ ReceiveResponse(t)
             \/ ReceiveRpc(t) \/ ReceiveClose(t)
      PROVE  InQueue(m, toClient[s])
  BY <1>4, InClientReceives
     DEF ReceiveMetadata, ReceiveResponse, ReceiveRpc, ReceiveClose
<1>5. ASSUME NEW t \in Sockets, Drop(t) \/ AbortedClose(t)
      PROVE  InQueue(m, toClient[s])
  BY <1>5, InDisconnect DEF Drop, AbortedClose
<1>6. ASSUME NEW e \in Endpoints, Restart(e)
      PROVE  InQueue(m, toClient[s])
  BY <1>6, InDisconnect DEF Restart
<1>7. CASE UNCHANGED toClient
  BY <1>7
<1> QED
  BY <1>1, <1>2, <1>3, <1>4, <1>5, <1>6, <1>7
     DEF Next, SocketStep, vars, wireVars, Open, Reconnect, SidecarStop,
         SidecarStopped, ClientConnects, SetClient, ClientClosed,
         OnNewEndpoint, OnMessage, SendInternalRequest, Deploy, Announce

\* Websocket.send adds the message sent, or nothing.
LEMMA InSend ==
  ASSUME NEW queue \in Seq(ToSidecar), NEW state, NEW x \in ToSidecar,
         NEW m, InQueue(m, WsSend(queue, state, x))
  PROVE  InQueue(m, queue) \/ m = x
BY InAppend DEF WsSend

\* What a step may add to the channel from a client to a sidecar.
LEMMA ToSidecarOrigin ==
  ASSUME TypeOK, [Next]_vars, NEW s \in Sockets,
         NEW m, InQueue(m, toSidecar'[s])
  PROVE  \/ InQueue(m, toSidecar[s])
         \/ m.type \in {"metadata", "stop", "rpc", "close"}
         \/ \E p \in Plugins :
              /\ SendInternalRequest(p)
              /\ Owner(s) = readerRemote
              /\ m = [type |-> "request", id |-> nextMessageId[Owner(s)] + 1,
                      plugin |-> p]
<1> DEFINE Old == InQueue(m, toSidecar[s])
           Tag == m.type \in {"metadata", "stop", "rpc", "close"}
<1>0. toSidecar[s] \in Seq(ToSidecar)
  BY DEF TypeOK
<1>1. ASSUME NEW t \in Sockets, Open(t) PROVE Old \/ Tag
  BY <1>0, <1>1, InSend, MessageTypes DEF Open, TypeOK
<1>2. ASSUME NEW c \in Clients, ClientClosed(c) PROVE Old \/ Tag
  <2>1. WsSend(toSidecar[s], socket[s], [type |-> "stop"]) \in Seq(ToSidecar)
    BY <1>0, SendType, MessageTypes
  <2>2. InQueue(m, LastWords(toSidecar[s], socket[s])) => Old \/ Tag
    BY <1>0, <2>1, InSend, MessageTypes DEF LastWords
  <2> QED BY <1>2, <2>2 DEF ClientClosed
<1>3. ASSUME NEW c \in Clients, NEW e \in Endpoints, OnMessage(c, e)
      PROVE  Old \/ Tag
  <2> DEFINE t == <<c, endpointsSockets[c][e]>>
             x == [type |-> "rpc"]
  <2>1. toSidecar' = [toSidecar EXCEPT ![t] = WsSend(@, socket[t], x)]
    BY <1>3 DEF OnMessage
  <2>2. CASE s = t
    <3>1. InQueue(m, WsSend(toSidecar[s], socket[s], x))
      BY <2>1, <2>2 DEF TypeOK
    <3>2. InQueue(m, toSidecar[s]) \/ m = x
      BY <1>0, <3>1, InSend, MessageTypes
    <3> QED BY <3>2
  <2>3. CASE s # t
    BY <2>1, <2>3 DEF TypeOK
  <2> QED BY <2>2, <2>3
<1>4. ASSUME NEW p \in Plugins, SendInternalRequest(p)
      PROVE  Old \/ (/\ Owner(s) = readerRemote
                     /\ m = [type |-> "request",
                             id |-> nextMessageId[Owner(s)] + 1,
                             plugin |-> p])
  <2> DEFINE c == readerRemote
             t == <<c, endpointsSockets[c][pluginsEndpoints[p]]>>
             x == [type |-> "request", id |-> nextMessageId[c] + 1,
                   plugin |-> p]
  <2>1. c \in Clients
    BY <1>4 DEF SendInternalRequest, TypeOK
  <2>2. x \in ToSidecar
    <3>1. nextMessageId[c] + 1 \in Nat
      BY <2>1 DEF TypeOK
    <3> QED BY <3>1, MessageTypes
  <2>3. toSidecar' = [toSidecar EXCEPT ![t] = WsSend(@, socket[t], x)]
    BY <1>4 DEF SendInternalRequest
  <2>4. CASE s = t
    <3>1. InQueue(m, WsSend(toSidecar[s], socket[s], x))
      BY <2>3, <2>4 DEF TypeOK
    <3> QED BY <1>0, <2>2, <2>4, <3>1, InSend DEF Owner
  <2>5. CASE s # t
    BY <2>3, <2>5 DEF TypeOK
  <2> QED BY <2>4, <2>5
<1>5. ASSUME NEW t \in Sockets,
             \/ SidecarMetadata(t) \/ SidecarResource(t) \/ SidecarRpc(t)
             \/ SidecarStop(t) \/ SidecarClose(t)
      PROVE  Old
  BY <1>5, InSidecarReceives
     DEF SidecarMetadata, SidecarResource, SidecarRpc, SidecarStop,
         SidecarClose
<1>6. ASSUME NEW t \in Sockets, Drop(t) \/ AbortedClose(t) PROVE Old
  BY <1>6, InDisconnect DEF Drop, AbortedClose
<1>7. ASSUME NEW e \in Endpoints, Restart(e) PROVE Old
  BY <1>7, InDisconnect DEF Restart
<1>8. CASE UNCHANGED toSidecar
  BY <1>8
<1> QED
  BY <1>1, <1>2, <1>3, <1>4, <1>5, <1>6, <1>7, <1>8
     DEF Next, SocketStep, vars, wireVars, Reconnect, SidecarStopped,
         ClientReceives, ReceiveMetadata, ReceiveResponse, ReceiveRpc,
         ReceiveClose, ClientConnects, SetClient, OnNewEndpoint, Deploy,
         Announce

------------------------------------------------------------------------------
(* The mapping tells the truth: what a sidecar reports is what it deploys. *)

DeployedInHosts == \A e \in Endpoints : deployed[e] \subseteq Hosts[e]

ReportsTruthful ==
  \A s \in Sockets, m \in ToClient :
    InQueue(m, toClient[s]) /\ m.type = "metadata" =>
      m.plugins \subseteq Hosts[Remote(s)]

MappingInv == DeployedInHosts /\ ReportsTruthful /\ MappingTruthful

LEMMA MappingInvStep ==
  ASSUME TypeOK, MappingInv, [Next]_vars
  PROVE  MappingInv'
<1>1. DeployedInHosts'
  <2> SUFFICES ASSUME NEW e \in Endpoints, deployed' # deployed
               PROVE  deployed'[e] \subseteq Hosts[e]
    BY DEF MappingInv, DeployedInHosts
  <2>1. \/ \E f \in Endpoints, p \in Plugins : Deploy(f, p)
        \/ \E f \in Endpoints : Restart(f)
    BY DEF Next, SocketStep, vars, sidecarVars, Open, AbortedClose, Reconnect,
           SidecarMetadata, SidecarResource, SidecarRpc, SidecarStop,
           SidecarStopped, SidecarClose, SidecarReceives, ReceiveMetadata,
           ReceiveResponse, ReceiveRpc, ReceiveClose, ClientReceives, Drop,
           ClientConnects, SetClient, ClientClosed, OnNewEndpoint, OnMessage,
           SendInternalRequest, Announce
  <2>2. deployed[e] \subseteq Hosts[e] /\ deployed \in [Endpoints -> SUBSET Plugins]
    BY DEF MappingInv, DeployedInHosts, TypeOK
  <2>3. ASSUME NEW f \in Endpoints, NEW p \in Plugins, Deploy(f, p)
        PROVE  deployed'[e] \subseteq Hosts[e]
    <3>1. /\ p \in Hosts[f]
          /\ deployed' = [deployed EXCEPT ![f] = @ \cup {p}]
      BY <2>3 DEF Deploy
    <3> QED BY <2>2, <3>1
  <2>4. ASSUME NEW f \in Endpoints, Restart(f)
        PROVE  deployed'[e] \subseteq Hosts[e]
    <3>1. deployed' = [deployed EXCEPT ![f] = {}]
      BY <2>4 DEF Restart
    <3> QED BY <2>2, <3>1
  <2> QED BY <2>1, <2>3, <2>4
<1>2. ReportsTruthful'
  <2> SUFFICES ASSUME NEW s \in Sockets, NEW m \in ToClient,
                      InQueue(m, toClient'[s]), m.type = "metadata"
               PROVE  m.plugins \subseteq Hosts[Remote(s)]
    BY DEF ReportsTruthful
  <2>1. \/ InQueue(m, toClient[s])
        \/ m = [type |-> "metadata", plugins |-> deployed[Remote(s)]]
    BY ToClientOrigin
  <2> QED BY <2>1, SocketEnds DEF MappingInv, ReportsTruthful, DeployedInHosts
<1>3. MappingTruthful'
  <2>1. CASE pluginsEndpoints' = pluginsEndpoints
    BY <2>1 DEF MappingInv, MappingTruthful
  <2>2. CASE pluginsEndpoints' # pluginsEndpoints
    <3>1. PICK s \in Sockets : ReceiveMetadata(s)
      BY <2>2, OnlyMetadataMaps
    <3> DEFINE m == Head(toClient[s])
    <3>2. m \in ToClient /\ m.type = "metadata" /\ InQueue(m, toClient[s])
      BY <3>1, ClientReceivesType, InHead
         DEF ReceiveMetadata, ClientReceives, TypeOK
    <3>3. m.plugins \subseteq Hosts[Remote(s)]
      BY <3>2 DEF MappingInv, ReportsTruthful
    <3>4. pluginsEndpoints' = SetEndpoints(Unmapped(m.plugins), Remote(s))
      BY <3>1 DEF ReceiveMetadata
    <3> QED BY <3>3, <3>4
            DEF MappingInv, MappingTruthful, SetEndpoints, Unmapped
  <2> QED BY <2>1, <2>2
<1> QED BY <1>1, <1>2, <1>3 DEF MappingInv

\* The shared mapping never sends a plugin to a sidecar that neither deploys
\* it nor is named for it by the environment, for every deployment.
THEOREM MappingAlwaysTruthful == Spec => []MappingTruthful
<1>1. Init => MappingInv
  BY RemoteAssumption, InEmpty
     DEF Init, MappingInv, DeployedInHosts, ReportsTruthful, MappingTruthful
<1>2. MappingInv => MappingTruthful
  BY DEF MappingInv
<1> QED BY <1>1, <1>2, MappingInvStep, TypeCorrect, PTL DEF Spec

------------------------------------------------------------------------------
(* The request channel implements ResourceService. *)

IdsBounded ==
  \A c \in Clients :
    /\ \A r \in pendingInternalRequests[c] : r.id \leq nextMessageId[c]
    /\ \A r \in resolved[c] : r.id \leq nextMessageId[c]

PendingUnique ==
  \A c \in Clients : \A r, q \in pendingInternalRequests[c] :
    r.id = q.id => r = q

\* A message about a request: its id was issued, and if the request is still
\* pending it is about the same plugin.
Consistent(c, m) ==
  /\ m.id \leq nextMessageId[c]
  /\ \A r \in pendingInternalRequests[c] : r.id = m.id => r.plugin = m.plugin

RequestsConsistent ==
  \A s \in Sockets, m \in ToSidecar :
    InQueue(m, toSidecar[s]) /\ m.type = "request" => Consistent(Owner(s), m)

ResponsesConsistent ==
  \A s \in Sockets, m \in ToClient :
    InQueue(m, toClient[s]) /\ m.type = "response" => Consistent(Owner(s), m)

RequestInv ==
  IdsBounded /\ PendingUnique /\ RequestsConsistent /\ ResponsesConsistent

\* Only two actions touch the requests.
LEMMA OnlyRequestActions ==
  ASSUME TypeOK, [Next]_vars
  PROVE  \/ UNCHANGED requestVars
         \/ \E p \in Plugins : SendInternalRequest(p)
         \/ \E s \in Sockets : ReceiveResponse(s)
<1>1. ASSUME NEW s \in Sockets, SocketStep(s) \/ Drop(s)
      PROVE  UNCHANGED requestVars \/ ReceiveResponse(s)
  <2>1. CASE Open(s) \/ AbortedClose(s) \/ Reconnect(s) \/ Drop(s)
    BY <2>1 DEF Open, AbortedClose, Reconnect, Drop, requestVars
  <2>2. CASE \/ SidecarMetadata(s) \/ SidecarResource(s) \/ SidecarRpc(s)
             \/ SidecarStop(s) \/ SidecarStopped(s) \/ SidecarClose(s)
    BY <2>2 DEF SidecarMetadata, SidecarResource, SidecarRpc, SidecarStop,
                SidecarStopped, SidecarClose, SidecarReceives, requestVars
  <2>3. CASE ReceiveMetadata(s) \/ ReceiveRpc(s) \/ ReceiveClose(s)
    BY <2>3 DEF ReceiveMetadata, ReceiveRpc, ReceiveClose, ClientReceives,
                requestVars
  <2> QED BY <1>1, <2>1, <2>2, <2>3 DEF SocketStep
<1>2. ASSUME NEW c \in Clients,
             ClientConnects(c) \/ SetClient(c) \/ ClientClosed(c)
      PROVE  UNCHANGED requestVars
  BY <1>2 DEF ClientConnects, SetClient, ClientClosed, requestVars
<1>3. ASSUME NEW c \in Clients, NEW e \in Endpoints,
             OnNewEndpoint(c, e) \/ OnMessage(c, e)
      PROVE  UNCHANGED requestVars
  BY <1>3 DEF OnNewEndpoint, OnMessage, requestVars
<1>4. ASSUME NEW e \in Endpoints,
             \/ \E p \in Plugins : Deploy(e, p)
             \/ Announce(e) \/ Restart(e)
      PROVE  UNCHANGED requestVars
  BY <1>4 DEF Deploy, Announce, Restart, requestVars
<1>5. ASSUME UNCHANGED vars PROVE UNCHANGED requestVars
  BY <1>5 DEF vars
<1> QED BY <1>1, <1>2, <1>3, <1>4, <1>5 DEF Next

\* A request takes the next id and joins the pending ones.
LEMMA SendEffect ==
  ASSUME TypeOK, IdsBounded, NEW p \in Plugins, SendInternalRequest(p)
  PROVE  /\ readerRemote \in Clients
         /\ nextMessageId[readerRemote] \in Nat
         /\ nextMessageId' = [nextMessageId EXCEPT ![readerRemote] = @ + 1]
         /\ pendingInternalRequests' = [pendingInternalRequests EXCEPT
              ![readerRemote] =
                @ \cup {[id |-> nextMessageId[readerRemote] + 1,
                         plugin |-> p]}]
         /\ resolved' = resolved
<1> DEFINE c == readerRemote
           n == nextMessageId[c]
<1>1. c \in Clients
  BY DEF SendInternalRequest, TypeOK
<1>2. n \in Nat /\ nextMessageId \in [Clients -> Nat]
  BY <1>1 DEF TypeOK
<1>3. \A r \in pendingInternalRequests[c] : r.id # n + 1
  BY <1>1, <1>2 DEF IdsBounded, TypeOK
<1>4. pendingInternalRequests \in
        [Clients -> SUBSET [id : Nat, plugin : Plugins]]
  BY DEF TypeOK
<1>5. {r \in pendingInternalRequests[c] : r.id # n + 1}
        = pendingInternalRequests[c]
  BY <1>3
<1> QED BY <1>1, <1>2, <1>4, <1>5 DEF SendInternalRequest

\* A response removes at most the one request of its id, and resolves it.
LEMMA ReceiveEffect ==
  ASSUME TypeOK, RequestInv, NEW s \in Sockets, ReceiveResponse(s)
  PROVE  \/ UNCHANGED requestVars
         \/ \E r \in pendingInternalRequests[Owner(s)] :
              /\ nextMessageId' = nextMessageId
              /\ pendingInternalRequests' = [pendingInternalRequests EXCEPT
                   ![Owner(s)] = @ \ {r}]
              /\ resolved' = [resolved EXCEPT
                   ![Owner(s)] = @ \cup {[id |-> r.id, plugin |-> r.plugin,
                                          data |-> r.plugin]}]
<1> DEFINE c == Owner(s)
           m == Head(toClient[s])
<1>1. c \in Clients
  BY SocketEnds
<1>2. m \in ToClient /\ m.type = "response" /\ InQueue(m, toClient[s])
  BY ClientReceivesType, InHead DEF ReceiveResponse, ClientReceives, TypeOK
<1>3. Consistent(c, m)
  BY <1>2 DEF RequestInv, ResponsesConsistent
<1>4. nextMessageId' = nextMessageId
  BY DEF ReceiveResponse, ClientReceives
<1>5. CASE Awaited(c, m.id) = {}
  <2>1. Others(c, m.id) = pendingInternalRequests[c]
    BY <1>5 DEF Awaited, Others
  <2>2. pendingInternalRequests' = pendingInternalRequests
    BY <1>1, <2>1 DEF ReceiveResponse, TypeOK
  <2>3. resolved' = resolved
    BY <1>1, <1>5 DEF ReceiveResponse, TypeOK
  <2> QED BY <1>4, <2>2, <2>3 DEF requestVars
<1>6. CASE Awaited(c, m.id) # {}
  <2>1. PICK r \in pendingInternalRequests[c] : r.id = m.id
    BY <1>6 DEF Awaited
  <2>2. Awaited(c, m.id) = {r}
    BY <1>1, <2>1 DEF Awaited, RequestInv, PendingUnique
  <2>3. Others(c, m.id) = pendingInternalRequests[c] \ {r}
    BY <1>1, <2>1 DEF Others, RequestInv, PendingUnique
  <2>4. m.plugin = r.plugin
    BY <1>3, <2>1 DEF Consistent
  <2>5. {[id |-> q.id, plugin |-> q.plugin, data |-> m.plugin] :
           q \in Awaited(c, m.id)}
          = {[id |-> r.id, plugin |-> r.plugin, data |-> r.plugin]}
    BY <2>2, <2>4
  <2>6. pendingInternalRequests' =
          [pendingInternalRequests EXCEPT ![c] = @ \ {r}]
    BY <2>3 DEF ReceiveResponse
  <2>7. resolved' = [resolved EXCEPT
          ![c] = @ \cup {[id |-> r.id, plugin |-> r.plugin,
                          data |-> r.plugin]}]
    BY <2>5 DEF ReceiveResponse
  <2> QED BY <1>4, <2>1, <2>6, <2>7
<1> QED BY <1>5, <1>6

\* An id once issued stays consistent with the pending requests.
LEMMA ConsistentStays ==
  ASSUME TypeOK, RequestInv, [Next]_vars, NEW c \in Clients,
         NEW m, m.id \in Nat, Consistent(c, m)
  PROVE  Consistent(c, m)'
<1>0. nextMessageId \in [Clients -> Nat] /\ IdsBounded
  BY DEF TypeOK, RequestInv
<1>1. CASE UNCHANGED requestVars
  BY <1>1 DEF Consistent, requestVars
<1>2. ASSUME NEW p \in Plugins, SendInternalRequest(p)
      PROVE  Consistent(c, m)'
  <2> DEFINE new == [id |-> nextMessageId[readerRemote] + 1, plugin |-> p]
  <2>1. CASE c = readerRemote
    <3>1. nextMessageId'[c] = nextMessageId[c] + 1
      BY <1>0, <1>2, <2>1, SendEffect
    <3>2. pendingInternalRequests'[c] = pendingInternalRequests[c] \cup {new}
      BY <1>0, <1>2, <2>1, SendEffect DEF TypeOK
    <3>3. nextMessageId[c] \in Nat /\ m.id \leq nextMessageId[c]
      BY <1>0 DEF Consistent
    <3>4. new.id # m.id
      BY <2>1, <3>3
    <3> QED BY <3>1, <3>2, <3>3, <3>4 DEF Consistent
  <2>2. CASE c # readerRemote
    <3>1. nextMessageId'[c] = nextMessageId[c]
      BY <1>0, <1>2, <2>2, SendEffect
    <3>2. pendingInternalRequests'[c] = pendingInternalRequests[c]
      BY <1>0, <1>2, <2>2, SendEffect DEF TypeOK
    <3> QED BY <3>1, <3>2 DEF Consistent
  <2> QED BY <2>1, <2>2
<1>3. ASSUME NEW s \in Sockets, ReceiveResponse(s)
      PROVE  Consistent(c, m)'
  <2>1. nextMessageId' = nextMessageId
    BY <1>3, ReceiveEffect DEF requestVars
  <2>2. CASE UNCHANGED requestVars
    BY <2>2, <1>1
  <2>3. ASSUME NEW r \in pendingInternalRequests[Owner(s)],
               pendingInternalRequests' = [pendingInternalRequests EXCEPT
                 ![Owner(s)] = @ \ {r}]
        PROVE  Consistent(c, m)'
    <3>1. pendingInternalRequests'[c] \subseteq pendingInternalRequests[c]
      BY <2>3 DEF TypeOK
    <3> QED BY <2>1, <3>1 DEF Consistent
  <2> QED BY <1>3, <2>2, <2>3, ReceiveEffect
<1> QED BY <1>1, <1>2, <1>3, OnlyRequestActions

LEMMA IdsBoundedStep ==
  ASSUME TypeOK, RequestInv, [Next]_vars
  PROVE  IdsBounded'
<1> SUFFICES ASSUME NEW c \in Clients
             PROVE  /\ \A r \in pendingInternalRequests'[c] :
                         r.id \leq nextMessageId'[c]
                    /\ \A r \in resolved'[c] : r.id \leq nextMessageId'[c]
  BY DEF IdsBounded
<1>0. /\ nextMessageId \in [Clients -> Nat]
      /\ pendingInternalRequests \in
           [Clients -> SUBSET [id : Nat, plugin : Plugins]]
      /\ resolved \in
           [Clients -> SUBSET [id : Nat, plugin : Plugins, data : Plugins]]
      /\ \A r \in pendingInternalRequests[c] :
           r.id \in Nat /\ r.id \leq nextMessageId[c]
      /\ \A r \in resolved[c] : r.id \in Nat /\ r.id \leq nextMessageId[c]
  BY DEF TypeOK, RequestInv, IdsBounded
<1>1. CASE UNCHANGED requestVars
  BY <1>0, <1>1 DEF requestVars
<1>2. ASSUME NEW p \in Plugins, SendInternalRequest(p)
      PROVE  /\ \A r \in pendingInternalRequests'[c] :
                   r.id \leq nextMessageId'[c]
             /\ \A r \in resolved'[c] : r.id \leq nextMessageId'[c]
  <2> DEFINE new == [id |-> nextMessageId[readerRemote] + 1, plugin |-> p]
  <2>1. resolved' = resolved
    BY <1>2, SendEffect DEF RequestInv
  <2>2. CASE c = readerRemote
    <3>1. nextMessageId'[c] = nextMessageId[c] + 1
      BY <1>0, <1>2, <2>2, SendEffect DEF RequestInv
    <3>2. pendingInternalRequests'[c] = pendingInternalRequests[c] \cup {new}
      BY <1>0, <1>2, <2>2, SendEffect DEF RequestInv
    <3>3. nextMessageId[c] \in Nat
      BY <1>0
    <3> QED BY <1>0, <2>1, <2>2, <3>1, <3>2, <3>3
  <2>3. CASE c # readerRemote
    <3>1. nextMessageId'[c] = nextMessageId[c]
      BY <1>0, <1>2, <2>3, SendEffect DEF RequestInv
    <3>2. pendingInternalRequests'[c] = pendingInternalRequests[c]
      BY <1>0, <1>2, <2>3, SendEffect DEF RequestInv
    <3> QED BY <1>0, <2>1, <3>1, <3>2
  <2> QED BY <2>2, <2>3
<1>3. ASSUME NEW s \in Sockets, NEW q \in pendingInternalRequests[Owner(s)],
             nextMessageId' = nextMessageId,
             pendingInternalRequests' = [pendingInternalRequests EXCEPT
               ![Owner(s)] = @ \ {q}],
             resolved' = [resolved EXCEPT
               ![Owner(s)] = @ \cup {[id |-> q.id, plugin |-> q.plugin,
                                      data |-> q.plugin]}]
      PROVE  /\ \A r \in pendingInternalRequests'[c] :
                   r.id \leq nextMessageId'[c]
             /\ \A r \in resolved'[c] : r.id \leq nextMessageId'[c]
  <2>1. pendingInternalRequests'[c] \subseteq pendingInternalRequests[c]
    BY <1>0, <1>3
  <2>2. CASE c = Owner(s)
    <3>1. resolved'[c] = resolved[c] \cup {[id |-> q.id, plugin |-> q.plugin,
                                            data |-> q.plugin]}
      BY <1>0, <1>3, <2>2
    <3> QED BY <1>0, <1>3, <2>1, <2>2, <3>1
  <2>3. CASE c # Owner(s)
    <3>1. resolved'[c] = resolved[c]
      BY <1>0, <1>3, <2>3
    <3> QED BY <1>0, <1>3, <2>1, <3>1
  <2> QED BY <2>2, <2>3
<1> QED BY <1>1, <1>2, <1>3, OnlyRequestActions, ReceiveEffect

LEMMA PendingUniqueStep ==
  ASSUME TypeOK, RequestInv, [Next]_vars
  PROVE  PendingUnique'
<1> SUFFICES ASSUME NEW c \in Clients,
                    NEW r \in pendingInternalRequests'[c],
                    NEW q \in pendingInternalRequests'[c], r.id = q.id
             PROVE  r = q
  BY DEF PendingUnique
<1>0. /\ nextMessageId[c] \in Nat
      /\ pendingInternalRequests \in
           [Clients -> SUBSET [id : Nat, plugin : Plugins]]
      /\ \A a \in pendingInternalRequests[c] :
           a.id \in Nat /\ a.id \leq nextMessageId[c]
      /\ \A a, b \in pendingInternalRequests[c] : a.id = b.id => a = b
  BY DEF TypeOK, RequestInv, IdsBounded, PendingUnique
<1>1. CASE pendingInternalRequests'[c] \subseteq pendingInternalRequests[c]
  BY <1>0, <1>1
<1>2. ASSUME NEW p \in Plugins, SendInternalRequest(p), c = readerRemote
      PROVE  r = q
  <2> DEFINE new == [id |-> nextMessageId[c] + 1, plugin |-> p]
  <2>1. pendingInternalRequests'[c] = pendingInternalRequests[c] \cup {new}
    BY <1>0, <1>2, SendEffect DEF RequestInv
  <2>2. \A a \in pendingInternalRequests[c] : a.id # new.id
    BY <1>0
  <2> QED BY <1>0, <2>1, <2>2
<1>3. ASSUME NEW p \in Plugins, SendInternalRequest(p), c # readerRemote
      PROVE  pendingInternalRequests'[c] \subseteq pendingInternalRequests[c]
  BY <1>0, <1>3, SendEffect DEF RequestInv
<1>4. ASSUME NEW s \in Sockets, ReceiveResponse(s)
      PROVE  pendingInternalRequests'[c] \subseteq pendingInternalRequests[c]
  <2>1. CASE UNCHANGED requestVars
    BY <2>1 DEF requestVars
  <2>2. ASSUME NEW a \in pendingInternalRequests[Owner(s)],
               pendingInternalRequests' = [pendingInternalRequests EXCEPT
                 ![Owner(s)] = @ \ {a}]
        PROVE  pendingInternalRequests'[c] \subseteq pendingInternalRequests[c]
    BY <1>0, <2>2
  <2> QED BY <1>4, <2>1, <2>2, ReceiveEffect
<1>5. CASE UNCHANGED requestVars
  BY <1>1, <1>5 DEF requestVars
<1> QED BY <1>1, <1>2, <1>3, <1>4, <1>5, OnlyRequestActions

LEMMA RequestsConsistentStep ==
  ASSUME TypeOK, RequestInv, [Next]_vars
  PROVE  RequestsConsistent'
<1> SUFFICES ASSUME NEW s \in Sockets, NEW m \in ToSidecar,
                    InQueue(m, toSidecar'[s]), m.type = "request"
             PROVE  Consistent(Owner(s), m)'
  BY DEF RequestsConsistent
<1>0. Owner(s) \in Clients
  BY SocketEnds
<1>1. CASE InQueue(m, toSidecar[s])
  <2>1. Consistent(Owner(s), m)
    BY <1>1 DEF RequestInv, RequestsConsistent
  <2>2. m.id \in Nat
    BY DEF ToSidecar
  <2> QED BY <1>0, <2>1, <2>2, ConsistentStays
<1>2. ASSUME NEW p \in Plugins, SendInternalRequest(p),
             Owner(s) = readerRemote,
             m = [type |-> "request", id |-> nextMessageId[Owner(s)] + 1,
                  plugin |-> p]
      PROVE  Consistent(Owner(s), m)'
  <2> DEFINE c == Owner(s)
             new == [id |-> nextMessageId[c] + 1, plugin |-> p]
  <2>1. /\ nextMessageId \in [Clients -> Nat]
        /\ pendingInternalRequests \in
             [Clients -> SUBSET [id : Nat, plugin : Plugins]]
        /\ \A r \in pendingInternalRequests[c] :
             r.id \in Nat /\ r.id \leq nextMessageId[c]
    BY <1>0 DEF TypeOK, RequestInv, IdsBounded
  <2>2. nextMessageId'[c] = nextMessageId[c] + 1
    BY <1>0, <1>2, <2>1, SendEffect DEF RequestInv
  <2>3. pendingInternalRequests'[c] = pendingInternalRequests[c] \cup {new}
    BY <1>0, <1>2, <2>1, SendEffect DEF RequestInv
  <2>4. m.id = nextMessageId[c] + 1 /\ m.plugin = p
    BY <1>2
  <2>5. \A r \in pendingInternalRequests[c] : r.id # m.id
    BY <1>0, <2>1, <2>4
  <2>6. m.id \leq nextMessageId'[c]
    BY <1>0, <2>1, <2>2, <2>4
  <2>7. \A r \in pendingInternalRequests'[c] :
          r.id = m.id => r.plugin = m.plugin
    BY <2>3, <2>4, <2>5
  <2> QED BY <2>6, <2>7 DEF Consistent
<1> QED BY <1>1, <1>2, ToSidecarOrigin

LEMMA ResponsesConsistentStep ==
  ASSUME TypeOK, RequestInv, [Next]_vars
  PROVE  ResponsesConsistent'
<1> SUFFICES ASSUME NEW s \in Sockets, NEW m \in ToClient,
                    InQueue(m, toClient'[s]), m.type = "response"
             PROVE  Consistent(Owner(s), m)'
  BY DEF ResponsesConsistent
<1>0. Owner(s) \in Clients
  BY SocketEnds
<1>1. m.id \in Nat
  BY DEF ToClient
<1>2. CASE InQueue(m, toClient[s])
  <2>1. Consistent(Owner(s), m)
    BY <1>2 DEF RequestInv, ResponsesConsistent
  <2> QED BY <1>0, <1>1, <2>1, ConsistentStays
<1>3. ASSUME NEW r \in ToSidecar, InQueue(r, toSidecar[s]),
             r.type = "request",
             m = [type |-> "response", id |-> r.id, plugin |-> r.plugin]
      PROVE  Consistent(Owner(s), m)'
  <2>1. Consistent(Owner(s), r)
    BY <1>3 DEF RequestInv, RequestsConsistent
  <2>2. m.id = r.id /\ m.plugin = r.plugin
    BY <1>3
  <2>3. Consistent(Owner(s), m)
    BY <2>1, <2>2 DEF Consistent
  <2> QED BY <1>0, <1>1, <2>3, ConsistentStays
<1>4. m # [type |-> "metadata", plugins |-> deployed[Remote(s)]]
  OBVIOUS
<1> QED BY <1>2, <1>3, <1>4, ToClientOrigin

LEMMA RequestInvStep == TypeOK /\ RequestInv /\ [Next]_vars => RequestInv'
BY IdsBoundedStep, PendingUniqueStep, RequestsConsistentStep,
   ResponsesConsistentStep DEF RequestInv

\* Ids are issued once, and whatever travels on a socket about a pending
\* request is about the plugin that was asked for.
THEOREM RequestsMatched == Spec => []RequestInv
<1>1. Init => RequestInv
  BY InEmpty DEF Init, RequestInv, IdsBounded, PendingUnique,
                 RequestsConsistent, ResponsesConsistent
<1> QED BY <1>1, RequestInvStep, TypeCorrect, PTL DEF Spec

\* The request channel implements ResourceService, whatever breaks, restarts
\* or leaves: no answer reaches another request than its own.
THEOREM ResourceImplemented == Spec => ResourceRefinement
<1>1. Init => Resource!Init
  BY DEF Init, Resource!Init
<1>2. ASSUME TypeOK, RequestInv, [Next]_vars
      PROVE  [Resource!Next]_(Resource!rsVars)
  <2>1. CASE UNCHANGED requestVars
    BY <2>1 DEF requestVars, Resource!rsVars
  <2>2. ASSUME NEW p \in Plugins, SendInternalRequest(p)
        PROVE  Resource!Next
    <3> DEFINE c == readerRemote
               new == [id |-> nextMessageId[c] + 1, plugin |-> p]
    <3>1. /\ c \in Clients /\ nextMessageId[c] \in Nat
          /\ pendingInternalRequests' = [pendingInternalRequests EXCEPT
               ![c] = @ \cup {new}]
          /\ resolved' = resolved
      BY <1>2, <2>2, SendEffect DEF RequestInv
    <3>2. pendingInternalRequests \in
            [Clients -> SUBSET [id : Nat, plugin : Plugins]]
      BY <1>2 DEF TypeOK
    <3>3. new \in pendingInternalRequests'[c]
      BY <3>1, <3>2
    <3>4. \A q \in pendingInternalRequests[c] \cup resolved[c] :
            q.id \in Nat /\ q.id \leq nextMessageId[c]
      BY <1>2, <3>1 DEF TypeOK, RequestInv, IdsBounded
    <3>5. \A q \in pendingInternalRequests[c] \cup resolved[c] :
            q.id # new.id
      BY <3>1, <3>4
    <3>6. new.plugin \in Plugins
      OBVIOUS
    <3> HIDE DEF new
    <3>7. Resource!Ask(c)
      BY <3>1, <3>3, <3>5, <3>6 DEF Resource!Ask
    <3> QED BY <3>1, <3>7 DEF Resource!Next
  <2>3. ASSUME NEW s \in Sockets, ReceiveResponse(s)
        PROVE  [Resource!Next]_(Resource!rsVars)
    <3>1. Owner(s) \in Clients
      BY SocketEnds
    <3>2. CASE UNCHANGED requestVars
      BY <3>2, <2>1
    <3>3. ASSUME NEW r \in pendingInternalRequests[Owner(s)],
                 pendingInternalRequests' = [pendingInternalRequests EXCEPT
                   ![Owner(s)] = @ \ {r}],
                 resolved' = [resolved EXCEPT
                   ![Owner(s)] = @ \cup {[id |-> r.id, plugin |-> r.plugin,
                                          data |-> r.plugin]}]
          PROVE  Resource!Next
      BY <3>1, <3>3 DEF Resource!Next, Resource!Answer
    <3> QED BY <1>2, <2>3, <3>2, <3>3, ReceiveEffect
  <2> QED BY <1>2, <2>1, <2>2, <2>3, OnlyRequestActions
<1> QED BY <1>1, <1>2, TypeCorrect, RequestsMatched, PTL
        DEF Spec, ResourceRefinement, Resource!Spec
==============================================================================
