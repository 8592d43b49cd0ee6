------------------------------ MODULE PortsPlugin ------------------------------
(***************************************************************************)
(* The ports plugin: a detector scans the listening sockets of the machine *)
(* and reports ports that opened or closed; the plugin asks the user       *)
(* whether a new port should be redirected, takes a redirect endpoint from *)
(* a pool when the answer is yes, and gives it back when the port closes.  *)
(* Prompts stay open while scans go on, and answers come in any order.     *)
(***************************************************************************)
EXTENDS Naturals, FiniteSets, SequencesExt

CONSTANTS
  Listeners,   \* sockets a process may open: [portNumber, interfaceListen]
  Silent,      \* ports never asked about: excluded, ephemeral, private
  InDevfile,   \* ports that are endpoints of the devfile
  Redirects,   \* sequence of the theia-redirect- endpoints
  None,
  Unreliable,  \* bound: the /proc/net tables a read may fail on
  MaxOpens     \* bound: sockets opened by the processes of the workspace

Interfaces == {"127.0.0.1", "::1", "0.0.0.0", "::"}
Ports == {l.portNumber : l \in Listeners}
Endpoints == ToSet(Redirects)
Tables == {"tcp", "tcp6"}

ASSUME PortsAssumption ==
  /\ IsFiniteSet(Listeners)
  /\ \A l \in Listeners : l.interfaceListen \in Interfaces
  /\ Redirects \in Seq(Endpoints)
  /\ IsInjective(Redirects)
  /\ None \notin Endpoints
  /\ Unreliable \subseteq Tables
  /\ MaxOpens \in Nat

VARIABLES
  listening,     \* the sockets listening now
  opens,
  detector,      \* "init", "timer" or "reading"
  fetched,       \* the tables still read: fetchIPV4, fetchIPV6
  read,          \* the /proc/net tables read so far by this scan
  scanPorts,     \* what they contained
  openedPorts,   \* the sockets of the last complete scan
  prompts,       \* questions of askRedirect without an answer, by port
  redirectPorts, \* the pool
  portForwards,  \* port -> redirect endpoint
  servers,       \* running PortForwardServers: <<endpoint, port>>
  shown,         \* the tree: ports and forwards it was last given
  undefinedUsed  \* history: a yes found the pool empty

machineVars == <<listening, opens>>
detectorVars == <<detector, fetched, read, scanPorts, openedPorts>>
redirectVars == <<redirectPorts, portForwards, servers, undefinedUsed>>
vars == <<machineVars, detectorVars, prompts, redirectVars, shown>>

TypeOK ==
  /\ listening \subseteq Listeners
  /\ opens \in 0..MaxOpens
  /\ detector \in {"init", "timer", "reading"}
  /\ fetched \subseteq Tables
  /\ read \subseteq Tables
  /\ scanPorts \subseteq Listeners
  /\ openedPorts \subseteq Listeners
  /\ prompts \in [Ports -> Nat]
  /\ redirectPorts \in Seq(Endpoints)
  /\ portForwards \in [Ports -> Endpoints \cup {None}]
  /\ servers \subseteq Endpoints \X Ports
  /\ shown \in [ports : SUBSET Ports,
                forwards : [Ports -> Endpoints \cup {None}]]
  /\ undefinedUsed \in BOOLEAN

NoForwards == [p \in Ports |-> None]

Init ==
  /\ listening \in SUBSET Listeners
  /\ opens = 0
  /\ detector = "init"
  /\ fetched = Tables
  /\ read = {}
  /\ scanPorts = {}
  /\ openedPorts = {}
  /\ prompts = [p \in Ports |-> 0]
  /\ redirectPorts = Redirects
  /\ portForwards = NoForwards
  /\ servers = {}
  /\ shown = [ports |-> {}, forwards |-> NoForwards]
  /\ undefinedUsed = FALSE

Numbers(L) == {l.portNumber : l \in L}

\* updateEndpoints has no await: it runs to its end when it is called.
Show(opened, forwards) ==
  shown' = [ports |-> Numbers(opened), forwards |-> forwards]

------------------------------------------------------------------------------
(* The processes of the workspace. *)

Listen(l) ==
  /\ opens < MaxOpens
  /\ l \notin listening
  /\ opens' = opens + 1
  /\ listening' = listening \cup {l}
  /\ UNCHANGED <<detectorVars, prompts, redirectVars, shown>>

Close(l) ==
  /\ l \in listening
  /\ listening' = listening \ {l}
  /\ UNCHANGED <<opens, detectorVars, prompts, redirectVars, shown>>

------------------------------------------------------------------------------
(* The detector. *)

Table(l) == IF l.interfaceListen \in {"::1", "::"} THEN "tcp6" ELSE "tcp"

Reads(t, found) ==
  /\ detector \in {"init", "reading"}
  /\ t \notin read
  /\ read' = read \cup {t}
  /\ scanPorts' = scanPorts \cup found
  /\ UNCHANGED <<machineVars, detector, openedPorts, prompts, redirectVars,
                 shown>>

\* getListeningPorts reads both tables, in either order; a table given up
\* earlier counts as empty.
ReadTable(t) ==
  /\ Reads(t, {l \in listening : Table(l) = t /\ t \in fetched})
  /\ UNCHANGED fetched

\* A read that fails once is not tried again in any later scan.
ReadFails(t) ==
  /\ t \in fetched \cap Unreliable
  /\ Reads(t, {})
  /\ fetched' = fetched \ {t}

\* The next scan starts from nothing.
NextScan(state) == detector' = state /\ read' = {} /\ scanPorts' = {}

\* start: the ports open already are not reported, the first check begins.
Started ==
  /\ detector = "init"
  /\ read = Tables
  /\ openedPorts' = scanPorts
  /\ NextScan("reading")
  /\ Show(openedPorts', portForwards)
  /\ UNCHANGED <<machineVars, fetched, prompts, redirectVars>>

NewOpened == {l \in scanPorts : l.portNumber \notin Numbers(openedPorts)}
NewClosed == Numbers(openedPorts) \ Numbers(scanPorts)

\* onOpenPort goes on to askRedirect.
AsksRedirect(l) ==
  /\ l.portNumber \notin Silent
  /\ l.interfaceListen \in {"0.0.0.0", "::"} => l.portNumber \notin InDevfile

KeepsEntries(closed) == portForwards

FreedEntries(closed) ==
  [p \in Ports |-> IF p \in closed THEN None ELSE portForwards[p]]

StoppedServers(closed) == {s \in servers :
  ~(s[2] \in closed /\ portForwards[s[2]] = s[1])}

\* Variant: whether the port has an entry is not asked.
FreedUnchecked(closed) == {portForwards[p] : p \in closed}

Freed(closed) == {portForwards[p] : p \in closed} \ {None}

\* freeRedirectPort of each closed port that has an entry, in any order.
FreeRedirectPorts(closed) ==
  /\ \E order \in SetToSeqs(Freed(closed)) :
       redirectPorts' = redirectPorts \o order
  /\ portForwards' = FreedEntries(closed)
  /\ servers' = StoppedServers(closed)
  /\ UNCHANGED undefinedUsed

ShowsPrevious(old, new) == old

ShowsScan(old, new) == new

StopsWhenIdle == IF NewOpened = {} THEN "stopped" ELSE "timer"

AfterMonitor == "timer"

\* monitor, with the callbacks of the plugin: questions for the new sockets,
\* which look at the pool before the closed ports give anything back, then
\* the closed ports.  The tree is only told when there was an event.
Monitor ==
  /\ detector = "reading"
  /\ read = Tables
  /\ openedPorts' = scanPorts
  /\ prompts' = IF redirectPorts = <<>> THEN prompts
                ELSE [p \in Ports |-> prompts[p] +
                       Cardinality({l \in NewOpened :
                                      l.portNumber = p /\ AsksRedirect(l)})]
  /\ FreeRedirectPorts(NewClosed)
  /\ IF NewOpened = {} /\ NewClosed = {}
     THEN UNCHANGED shown
     ELSE Show(ShowsScan(openedPorts, scanPorts), portForwards')
  /\ NextScan(AfterMonitor)
  /\ UNCHANGED <<machineVars, fetched>>

\* check: the WAIT timer starts the next scan.
Check ==
  /\ detector = "timer"
  /\ detector' = "reading"
  /\ UNCHANGED <<machineVars, fetched, read, scanPorts, openedPorts, prompts,
                 redirectVars, shown>>

------------------------------------------------------------------------------
(* The answers. *)

Answered(p) ==
  /\ prompts[p] > 0
  /\ prompts' = [prompts EXCEPT ![p] = @ - 1]
  /\ UNCHANGED <<machineVars, detectorVars>>

Decline(p) == Answered(p) /\ UNCHANGED <<redirectVars, shown>>

PeeksPool(pool) == pool

PopsPool(pool) == Front(pool)

\* yes: the last endpoint of the pool, whatever happened since the question;
\* an entry the port already has is overwritten, its server is not stopped.
Accept(p) ==
  LET endpoint == Last(redirectPorts) IN
  /\ Answered(p)
  /\ redirectPorts # <<>>
  /\ redirectPorts' = PopsPool(redirectPorts)
  /\ servers' = servers \cup {<<endpoint, p>>}
  /\ portForwards' = [portForwards EXCEPT ![p] = endpoint]
  /\ Show(openedPorts, portForwards')
  /\ UNCHANGED undefinedUsed

\* yes on an empty pool: pop returns undefined and reading its targetPort
\* throws, after which nothing more happens.
AcceptUndefined(p) ==
  /\ Answered(p)
  /\ redirectPorts = <<>>
  /\ undefinedUsed' = TRUE
  /\ UNCHANGED <<redirectPorts, portForwards, servers, shown>>

------------------------------------------------------------------------------
DetectorStep ==
  \/ \E t \in Tables : ReadTable(t) \/ ReadFails(t)
  \/ Started \/ Monitor \/ Check

Next ==
  \/ \E l \in Listeners : Listen(l) \/ Close(l)
  \/ DetectorStep
  \/ \E p \in Ports : Accept(p) \/ AcceptUndefined(p) \/ Decline(p)

Spec == Init /\ [][Next]_vars

\* Timers fire and reads end; nobody has to open a port or answer.
FairSpec == Spec /\ WF_vars(DetectorStep)

------------------------------------------------------------------------------
(* Properties. *)

Pooled(e) == {i \in 1..Len(redirectPorts) : redirectPorts[i] = e}
Served(e) == {s \in servers : s[1] = e}

\* Every redirect endpoint is in the pool, once, or has exactly one server
\* listening on it: an answer never starts a second server on a port in use,
\* whose 'error' event nobody handles.
RedirectFreeOrServed ==
  \A e \in Endpoints : Cardinality(Pooled(e)) + Cardinality(Served(e)) = 1

\* Whatever the tree shows as redirected is: the forward of a port has a
\* running server that leads to this port.
ForwardServed ==
  \A p \in Ports :
    portForwards[p] # None => <<portForwards[p], p>> \in servers

\* The tree is up to date with the last scan and with the forwards whenever
\* no callback runs, although only events refresh it.
ShownIsCurrent ==
  detector # "init" =>
    shown = [ports |-> Numbers(openedPorts), forwards |-> portForwards]

\* A port that stays open is shown while its table is read, and one that
\* stays closed is not: the scanning never stops.
ScansGoOn ==
  \A l \in Listeners :
    /\ l \in listening ~>
         \/ l \notin listening
         \/ Table(l) \notin fetched
         \/ l.portNumber \in shown.ports
    /\ l.portNumber \notin Numbers(listening) ~>
         l.portNumber \in Numbers(listening) \/ l.portNumber \notin shown.ports

\* "take the first available one [...] if no port is available [...] display
\* an error message": a yes never goes on without an endpoint.
YesFindsEndpoint == ~undefinedUsed
==============================================================================
