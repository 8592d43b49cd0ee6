--------------------------- MODULE ResourceService ---------------------------
(***************************************************************************)
(* What the plugin resource channel promises to its callers, without       *)
(* sockets, sidecars or message ids on the wire: every request carries an  *)
(* identity of its own, and is answered at most once, with a resource of   *)
(* the plugin it asked about.  A request may stay unanswered for ever: the *)
(* code has no timeout.  HostedPluginRemote implements this module.        *)
(***************************************************************************)
CONSTANTS Clients, Plugins

VARIABLES
  pending,    \* [Clients -> set of [id, plugin]]: promises still open
  resolved    \* [Clients -> set of [id, plugin, data]]: promises resolved

rsVars == <<pending, resolved>>

Init ==
  /\ pending = [c \in Clients |-> {}]
  /\ resolved = [c \in Clients |-> {}]

\* A request is made under an identity no request of that client ever had.
Ask(c) ==
  /\ \E r \in pending'[c] :
       /\ r.plugin \in Plugins
       /\ \A q \in pending[c] \cup resolved[c] : q.id # r.id
       /\ pending' = [pending EXCEPT ![c] = @ \cup {r}]
  /\ UNCHANGED resolved

\* An open promise is resolved with a resource of the plugin it asked about.
Answer(c) ==
  \E r \in pending[c] :
    /\ pending' = [pending EXCEPT ![c] = @ \ {r}]
    /\ resolved' = [resolved EXCEPT ![c] =
                      @ \cup {[id |-> r.id, plugin |-> r.plugin,
                               data |-> r.plugin]}]

Next == \E c \in Clients : Ask(c) \/ Answer(c)

Spec == Init /\ [][Next]_rsVars
==============================================================================
