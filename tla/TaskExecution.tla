---------------------------- MODULE TaskExecution ----------------------------
(***************************************************************************)
(* How a "che" task runs, and how its end is told.                         *)
(*                                                                         *)
(* A tab of the browser opens a terminal and asks the backend to run the   *)
(* task (TaskConfigurationsService).  The backend's CheTaskService passes  *)
(* it to its first client, whichever tab asked; that tab's plugin host     *)
(* (CheTaskRunner) creates the process through the machine-exec server,    *)
(* over a ReconnectingWebSocket of its own.  The server tells every        *)
(* connection when a process ends; each plugin host tells the backend,     *)
(* which reports the end of the task to every tab, and the task plugin of  *)
(* the tab that has the terminal sets its icon.                            *)
(*                                                                         *)
(* The connection of a tab to the backend drops and returns: its plugin    *)
(* host and the calls on their way are lost, its terminals stay.  A tab    *)
(* that is closed is one that does not return.                             *)
(*                                                                         *)
(* The machine-exec server and the editor's task manager are modelled from *)
(* how they are used.  The id of a process is the call that asked for it.  *)
(***************************************************************************)
EXTENDS Naturals, Sequences, FiniteSets, SequencesExt

CONSTANTS Tabs,      \* tabs of the browser, each with its plugin host
          Calls,     \* tasks that are run
          Sockets,   \* bound: the sockets the plugin hosts may create
          MaxFaults, \* bound: sockets that break, connections that fail,
                     \* tabs that go
          None

ASSUME NoneAssumption == None \notin Tabs \cup Sockets

ASSUME CallsAssumption ==
  /\ IsFiniteSet(Tabs) /\ IsFiniteSet(Calls) /\ Tabs \cap Calls = {}

VARIABLES clients,     \* CheTaskServiceImpl.clients, oldest first
          endpoint,    \* plugin hosts that know the server's address
          connection,  \* MachineExecClient.connection of each
          socket,      \* the ReconnectingWebSockets
          down,        \* messages of the server on each socket
          run,         \* how far the run of each task, and the start of
                       \* each plugin host, has come
          ended,       \* tasks whose process ended
          up,          \* from a plugin host, through its tab, to the backend
          cheTasks,    \* CheTaskServiceImpl.cheTasks
          toTab,       \* from the backend to a tab
          statuses,    \* onDidEndTask of a tab's plugin host, and its answer
          terminal,    \* the terminal of each task
          icon,        \* its icon
          faults,
          reports,     \* history: how often the end of a task was reported
          cut,         \* history: tasks whose socket broke after they were
                       \* asked for
          overtaken,   \* history: tasks whose end overtook the answer
          early        \* history: tasks that ended when their terminal had
                       \* its id, and that it has neither lost nor opened
                       \* again since, in a tab that has stayed

client == <<endpoint, connection, socket>>
service == <<clients, cheTasks, reports>>
view == <<terminal, icon, statuses>>
history == <<cut, overtaken, early>>
vars == <<client, down, run, ended, up, toTab, service, view, faults, history>>

Callers == Tabs \cup Calls

Idle == [phase |-> "idle", tab |-> None, host |-> None, socket |-> None]
NoSocket == [state |-> "unused", tab |-> None]

Init ==
  /\ clients = <<>>
  /\ endpoint = {}
  /\ connection = [t \in Tabs |-> None]
  /\ socket = [k \in Sockets |-> NoSocket]
  /\ down = [k \in Sockets |-> <<>>]
  /\ run = [c \in Callers |-> Idle]
  /\ ended = {}
  /\ up = [t \in Tabs |-> <<>>] /\ toTab = [t \in Tabs |-> <<>>]
  /\ cheTasks = <<>> /\ reports = [c \in Calls |-> 0]
  /\ terminal = [c \in Calls |-> "none"]
  /\ icon = [c \in Calls |-> "none"]
  /\ statuses = [t \in Tabs |-> <<>>]
  /\ faults = 0
  /\ cut = {} /\ overtaken = {} /\ early = {}

Open(t) == t \in Range(clients)

Started(t) == Open(t) /\ run[t].phase # "idle"

\* A connection of the editor keeps the order of what is sent.
Send(queue, to, message) == [queue EXCEPT ![to] = Append(@, message)]

-----------------------------------------------------------------------------
(* The tab and the backend: a task is run *)

\* The connection of a tab is made, for the first time or again: setClient.
ConnectTab(t) ==
  /\ ~Open(t)
  /\ clients' = Append(clients, t)
  /\ UNCHANGED <<client, down, run, ended, up, toTab, cheTasks, reports, view, faults, history>>

\* Its plugin host starts: init() of MachineExecClient asks for a connection.
HostStarts(t) ==
  /\ Open(t) /\ ~Started(t)
  /\ run' = [run EXCEPT ![t] = [Idle EXCEPT !.phase = "fetching", !.host = t]]
  /\ UNCHANGED <<client, down, ended, up, toTab, service, view, faults, history>>

\* getConnection once the address is known: the socket is created here.
CreateConnection(c, asked) ==
  \E k \in Sockets :
    /\ socket[k] = NoSocket
    /\ socket' = [socket EXCEPT ![k] = [state |-> "connecting", tab |-> asked.host]]
    /\ run' = [run EXCEPT ![c] = [asked EXCEPT !.phase = "opening", !.socket = k]]
    /\ UNCHANGED connection

\* getConnection of the plugin host: a connection it has is used.
GetConnection(c, asked) ==
  IF connection[asked.host] # None
  THEN /\ run' = [run EXCEPT ![c] = [asked EXCEPT !.phase = "requested",
                                                  !.socket = connection[asked.host]]]
       /\ UNCHANGED <<connection, socket>>
  ELSE IF asked.host \in endpoint THEN CreateConnection(c, asked)
  ELSE /\ run' = [run EXCEPT ![c] = [asked EXCEPT !.phase = "fetching"]]
       /\ UNCHANGED <<connection, socket>>

\* runResolvedTask opens the terminal (onDidCreateTerminal), the backend's
\* runTask takes its first client, and the plugin host of that one runs
\* getConnection, which looks at the connection and then awaits.  A client
\* whose plugin host has not started yet has no handler and rejects.
RunTask(c, t) ==
  /\ run[c] = Idle /\ Started(t)
  /\ terminal' = [terminal EXCEPT ![c] = "created"]
  /\ icon' = [icon EXCEPT ![c] = "IN_PROGRESS"]
  /\ LET host == Head(clients)
         asked == [Idle EXCEPT !.tab = t, !.host = host]
     IN  IF ~Started(host)
         THEN /\ run' = [run EXCEPT ![c] = [asked EXCEPT !.phase = "over"]]
              /\ up' = Send(up, host, [kind |-> "failed", task |-> c])
              /\ UNCHANGED <<connection, socket>>
         ELSE /\ up' = up
              /\ GetConnection(c, asked)
  /\ UNCHANGED <<endpoint, down, ended, toTab, service, statuses, faults, history>>

\* fetchMachineExecServerURL answers.
EndpointFetched(c) ==
  /\ run[c].phase = "fetching"
  /\ CreateConnection(c, run[c])
  /\ endpoint' = endpoint \cup {run[c].host}
  /\ UNCHANGED <<down, ended, up, toTab, service, view, faults, history>>

\* What becomes of a run whose promise is rejected: the tab is told.
Reject(callers) ==
  /\ run' = [c \in Callers |-> IF c \in callers THEN [run[c] EXCEPT !.phase = "over"]
                               ELSE run[c]]
  /\ up' = [t \in Tabs |->
              up[t] \o SetToSeq({[kind |-> "failed", task |-> c] :
                                   c \in {d \in callers \cap Calls : run[d].host = t}})]

Fault == faults < MaxFaults /\ faults' = faults + 1

\* No machine-exec server is found.
EndpointMissing(c) ==
  /\ run[c].phase = "fetching" /\ Fault
  /\ Reject({c})
  /\ UNCHANGED <<client, down, ended, toTab, service, view, history>>

-----------------------------------------------------------------------------
(* ReconnectingWebSocket and MachineExecClient *)

OpeningOn(k) == {c \in Callers : run[c].phase = "opening" /\ run[c].socket = k}

\* onOpen: the handler sets the connection, the close handlers and the
\* watcher; who awaits this connection has it, and asks for its process.
SocketOpens(k) ==
  /\ socket[k].state = "connecting"
  /\ socket' = [socket EXCEPT ![k].state = "open"]
  /\ connection' = [connection EXCEPT ![socket[k].tab] = k]
  /\ run' = [c \in Callers |->
               IF c \notin OpeningOn(k) THEN run[c]
               ELSE [run[c] EXCEPT !.phase = IF c \in Calls THEN "requested" ELSE "over"]]
  /\ UNCHANGED <<endpoint, down, ended, up, toTab, service, view, faults, history>>

\* A refused connection is tried again; any other error rejects who awaits it
\* first, and the close that follows tries again.
SocketFails(k) ==
  /\ socket[k].state = "connecting" /\ Fault
  /\ socket' = [socket EXCEPT ![k].state = "waiting"]
  /\ \/ UNCHANGED <<run, up>>
     \/ Reject(OpeningOn(k))
  /\ UNCHANGED <<endpoint, connection, down, ended, toTab, service, view, history>>

\* Variant: no close handler is added.
KeepConnection(k) ==
  /\ socket[k].state = "open" /\ Fault
  /\ socket' = [socket EXCEPT ![k].state = "waiting"]
  /\ down' = [down EXCEPT ![k] = <<>>]
  /\ cut' = cut \cup {c \in Calls : run[c].socket = k}
  /\ UNCHANGED <<endpoint, connection, run, ended, up, toTab, service, view, overtaken, early>>

\* The close handlers of any connection clear the field, whichever connection
\* it holds.  Requests on their way are never answered.
SocketCloses(k) ==
  /\ socket[k].state = "open" /\ Fault
  /\ socket' = [socket EXCEPT ![k].state = "waiting"]
  /\ connection' = [connection EXCEPT ![socket[k].tab] = None]
  /\ down' = [down EXCEPT ![k] = <<>>]
  /\ run' = [c \in Callers |-> IF run[c].phase = "requested" /\ run[c].socket = k
                               THEN [run[c] EXCEPT !.phase = "over"] ELSE run[c]]
  /\ cut' = cut \cup {c \in Calls : run[c].socket = k}
  /\ UNCHANGED <<endpoint, ended, up, toTab, service, view, overtaken, early>>

\* The timer of reconnect().
Reopen(k) ==
  /\ socket[k].state = "waiting"
  /\ socket' = [socket EXCEPT ![k].state = "connecting"]
  /\ UNCHANGED <<endpoint, connection, down, run, ended, up, toTab, service, view,
                 faults, history>>

-----------------------------------------------------------------------------
(* The machine-exec server *)

\* The terminal has the id of its process: start() has attached to it.
HasId(c) == terminal[c] \in {"attached", "open", "unopened", "lost", "restarting"}

Create(c) ==
  /\ run[c].phase = "requested"
  /\ run' = [run EXCEPT ![c].phase = "created"]
  /\ down' = Send(down, run[c].socket, [kind |-> "created", task |-> c])
  /\ UNCHANGED <<client, ended, up, toTab, service, view, faults, history>>

\* onExecExit or onExecError, on every connection.
ProcessEnds(c) ==
  /\ run[c].phase \in {"created", "running"} /\ c \notin ended
  /\ ended' = ended \cup {c}
  /\ down' = [k \in Sockets |->
                IF socket[k].state # "open" THEN down[k]
                ELSE Append(down[k], [kind |-> "exit", task |-> c])]
  /\ early' = IF HasId(c) /\ Open(run[c].tab) THEN early \cup {c} ELSE early
  /\ UNCHANGED <<client, run, up, toTab, service, view, faults, cut, overtaken>>

-----------------------------------------------------------------------------
(* The plugin host, and the backend *)

\* Variant: only the current connection is listened to.
HostReceivesCurrent(k) ==
  /\ down[k] # <<>>
  /\ down' = [down EXCEPT ![k] = Tail(@)]
  /\ LET message == Head(down[k])
     IN  IF message.kind = "created"
         THEN /\ up' = Send(up, socket[k].tab, [kind |-> "ran", task |-> message.task])
              /\ run' = [run EXCEPT ![message.task].phase = "running"]
         ELSE /\ up' = IF connection[socket[k].tab] = k
                       THEN Send(up, socket[k].tab, message) ELSE up
              /\ UNCHANGED run
  /\ UNCHANGED <<client, ended, toTab, service, view, faults, history>>

\* CheTaskRunner.run returns, or MachineExecWatcher fires.
HostReceives(k) ==
  /\ down[k] # <<>>
  /\ down' = [down EXCEPT ![k] = Tail(@)]
  /\ LET message == Head(down[k])
     IN  /\ up' = Send(up, socket[k].tab,
                       IF message.kind = "created"
                       THEN [kind |-> "ran", task |-> message.task] ELSE message)
         /\ run' = IF message.kind = "created"
                   THEN [run EXCEPT ![message.task].phase = "running"] ELSE run
  /\ UNCHANGED <<client, ended, toTab, service, view, faults, history>>

\* A tab that was away is told of ends again, but never gets the answer to a
\* call it made before.
Answer(message) ==
  LET c == message.task
  IN  toTab' = IF Open(run[c].tab) /\ (message.kind = "exit" \/ terminal[c] = "created")
               THEN Send(toTab, run[c].tab, message) ELSE toTab

\* runTask goes on with the client's answer: the task is recorded.
TaskRan(message) ==
  /\ message.kind = "ran"
  /\ cheTasks' = Append(cheTasks, message.task)
  /\ Answer(message)
  /\ UNCHANGED <<clients, reports>>

RunFailed(message) ==
  /\ message.kind = "failed"
  /\ Answer(message)
  /\ UNCHANGED service

\* Variant: a reported task is not forgotten.
FireAndKeep(message) ==
  /\ message.kind = "exit"
  /\ IF message.task \in Range(cheTasks)
     THEN reports' = [reports EXCEPT ![message.task] = @ + 1] /\ Answer(message)
     ELSE UNCHANGED <<reports, toTab>>
  /\ UNCHANGED <<clients, cheTasks>>

\* CheTaskServiceImpl.fireTaskExited: the task is reported and forgotten; an
\* exit of no recorded task is dropped.  Every tab is told, and only the one
\* that has the terminal finds it.
FireTaskExited(message) ==
  /\ message.kind = "exit"
  /\ LET c == message.task
     IN  IF c \in Range(cheTasks)
         THEN /\ reports' = [reports EXCEPT ![c] = @ + 1]
              /\ cheTasks' = RemoveFirst(cheTasks, c)
              /\ Answer(message)
         ELSE UNCHANGED <<reports, cheTasks, toTab>>
  /\ UNCHANGED clients

\* The answer of runTask passes more awaits in the plugin host and the tab than
\* $fireTaskExited does, so that an end which comes right behind it can arrive
\* first.
BackendReceives(t) ==
  \E i \in DOMAIN up[t] :
    /\ \A j \in 1..i - 1 : up[t][i].kind = "exit" /\ up[t][j].kind # "exit"
    /\ up' = [up EXCEPT ![t] = RemoveAt(@, i)]
    /\ LET message == up[t][i]
       IN  /\ TaskRan(message) \/ RunFailed(message) \/ FireTaskExited(message)
           /\ overtaken' = overtaken \cup {c \in {message.task} :
                                            \E j \in 1..i - 1 : up[t][j].task = c}
    /\ UNCHANGED <<client, down, run, ended, view, faults, cut, early>>

-----------------------------------------------------------------------------
(* The terminal and its icon *)

\* terminal.start(): what comes first is the server's check of the id.
StartTerminal(message) ==
  /\ message.kind = "ran"
  /\ terminal' = [terminal EXCEPT ![message.task] = "starting"]
  /\ UNCHANGED <<icon, statuses>>

\* Variant: the terminal is not compared by its id.
FailureOfAnyTerminal(t, message) ==
  /\ message.kind = "failed"
  /\ \E c \in {d \in Calls : run[d].tab = t} : icon' = [icon EXCEPT ![c] = "ERROR"]
  /\ UNCHANGED <<terminal, statuses>>

\* onDidStartTaskFailure looks for a terminal with the id of one not started:
\* it finds some such terminal of the tab.
StartTaskFailure(t, message) ==
  /\ message.kind = "failed"
  /\ \E c \in {d \in Calls : run[d].tab = t /\ ~HasId(d)} :
       icon' = [icon EXCEPT ![c] = "ERROR"]
  /\ UNCHANGED <<terminal, statuses>>

\* onTaskExit: the plugin host is told ($onDidEndTask).
TaskExit(t, message) ==
  /\ message.kind = "exit"
  /\ statuses' = Send(statuses, t, message.task)
  /\ UNCHANGED <<terminal, icon>>

TabReceives(t) ==
  /\ toTab[t] # <<>>
  /\ toTab' = [toTab EXCEPT ![t] = Tail(@)]
  /\ LET message == Head(toTab[t])
     IN  StartTerminal(message) \/ StartTaskFailure(t, message) \/ TaskExit(t, message)
  /\ UNCHANGED <<client, down, run, ended, up, service, faults, history>>

\* attachTerminal: the server knows the process, or does not any longer.
AttachTerminal(c) ==
  /\ terminal[c] = "starting"
  /\ \/ terminal' = [terminal EXCEPT ![c] = "attached"]
     \/ c \in ended /\ terminal' = [terminal EXCEPT ![c] = "detached"]
  /\ UNCHANGED <<client, down, run, ended, up, toTab, service, icon, statuses,
                 faults, history>>

\* onDidOpen, once the socket of the terminal is open; its status is "in
\* progress" then, whatever it was.
TerminalOpens(c) ==
  /\ terminal[c] \in {"attached", "unopened"}
  /\ terminal' = [terminal EXCEPT ![c] = IF @ = "attached" THEN "open" ELSE "lost"]
  /\ icon' = [icon EXCEPT ![c] = "IN_PROGRESS"]
  /\ early' = early \ {c}
  /\ UNCHANGED <<client, down, run, ended, up, toTab, service, statuses,
                 faults, cut, overtaken>>

\* The connection that the terminals of a tab share closes (termServer): they
\* wait for it to open.  The check of a start() is never answered, or fails;
\* a terminal that was waiting for its socket may open yet.
TerminalsDisconnect(t) ==
  /\ Fault
  /\ \E dead \in SUBSET {c \in Calls : run[c].tab = t /\ terminal[c] = "restarting"} :
       LET failing == dead \cup {c \in Calls : run[c].tab = t /\ terminal[c] = "starting"}
           waiting == {c \in Calls : run[c].tab = t /\ HasId(c)} \ dead
       IN  /\ failing \cup waiting # {}
           /\ terminal' = [c \in Calls |->
                             IF c \in failing THEN "detached"
                             ELSE IF c \notin waiting THEN terminal[c]
                             ELSE IF terminal[c] \in {"attached", "unopened"} THEN "unopened"
                             ELSE "lost"]
           /\ early' = early \ dead
  /\ UNCHANGED <<client, down, run, ended, up, toTab, service, icon, statuses,
                 cut, overtaken>>

\* reconnectTerminalProcess, once the connection is open again: the terminal is
\* started again when the server knows the process, and else left as it is.
ReconnectTerminal(c) ==
  /\ terminal[c] \in {"lost", "unopened"}
  /\ \/ terminal' = [terminal EXCEPT ![c] = "restarting"]
     \/ c \in ended /\ terminal' = [terminal EXCEPT ![c] = "open"]
  /\ UNCHANGED <<client, down, run, ended, up, toTab, service, icon, statuses,
                 faults, history>>

\* start() again: it attaches and onDidOpen fires again, or the id is lost.
RestartTerminal(c) ==
  /\ terminal[c] = "restarting"
  /\ \/ /\ terminal' = [terminal EXCEPT ![c] = "open"]
        /\ icon' = [icon EXCEPT ![c] = "IN_PROGRESS"]
     \/ /\ c \in ended
        /\ terminal' = [terminal EXCEPT ![c] = "detached"]
        /\ UNCHANGED icon
  /\ early' = early \ {c}
  /\ UNCHANGED <<client, down, run, ended, up, toTab, service, statuses,
                 faults, cut, overtaken>>

\* The plugin's onDidEndTask calls setTaskStatus, which finds the terminal by
\* the id of the process, or does nothing.  "ENDED" stands for the status
\* getTaskStatus makes of the exit code.
SetTaskStatus(t) ==
  /\ statuses[t] # <<>>
  /\ statuses' = [statuses EXCEPT ![t] = Tail(@)]
  /\ LET c == Head(statuses[t])
     IN  icon' = IF HasId(c) THEN [icon EXCEPT ![c] = "ENDED"] ELSE icon
  /\ UNCHANGED <<client, down, run, ended, up, toTab, service, terminal,
                 faults, history>>

\* The connection of a tab closes (disconnectClient), and its plugin host, with
\* its sockets, goes.
DisconnectTab(t) ==
  /\ Open(t) /\ Fault
  /\ clients' = RemoveFirst(clients, t)
  /\ LET mine == {k \in Sockets : socket[k].tab = t}
         lost == {c \in Calls : run[c].host = t}
     IN  /\ socket' = [k \in Sockets |-> IF k \in mine THEN [socket[k] EXCEPT !.state = "closed"]
                                         ELSE socket[k]]
         /\ down' = [k \in Sockets |-> IF k \in mine THEN <<>> ELSE down[k]]
         /\ run' = [c \in Callers |->
                      IF c = t THEN Idle
                      ELSE IF c \in lost /\ run[c].phase \notin {"created", "running"}
                      THEN [run[c] EXCEPT !.phase = "over"] ELSE run[c]]
         /\ cut' = cut \cup lost
  /\ terminal' = [c \in Calls |-> IF run[c].tab = t /\ terminal[c] = "created"
                                  THEN "detached" ELSE terminal[c]]
  /\ early' = {c \in early : run[c].tab # t}
  /\ endpoint' = endpoint \ {t}
  /\ connection' = [connection EXCEPT ![t] = None]
  /\ up' = [up EXCEPT ![t] = <<>>]
  /\ toTab' = [toTab EXCEPT ![t] = <<>>]
  /\ statuses' = [statuses EXCEPT ![t] = <<>>]
  /\ UNCHANGED <<ended, cheTasks, reports, icon, overtaken>>

-----------------------------------------------------------------------------

Coming ==
  \E t \in Tabs : ConnectTab(t) \/ HostStarts(t) \/ DisconnectTab(t)

Connecting ==
  \/ \E c \in Callers : EndpointFetched(c) \/ EndpointMissing(c)
  \/ \E k \in Sockets : SocketOpens(k) \/ SocketFails(k) \/ SocketCloses(k) \/ Reopen(k)

Running ==
  \E c \in Calls :
    \/ \E t \in Tabs : RunTask(c, t)
    \/ Create(c) \/ ProcessEnds(c)

Telling ==
  \/ \E k \in Sockets : HostReceives(k)
  \/ \E t \in Tabs : BackendReceives(t) \/ TabReceives(t) \/ SetTaskStatus(t)

Showing ==
  \/ \E c \in Calls : AttachTerminal(c) \/ TerminalOpens(c) \/ ReconnectTerminal(c)
                      \/ RestartTerminal(c)
  \/ \E t \in Tabs : TerminalsDisconnect(t)

Next == Coming \/ Connecting \/ Running \/ Telling \/ Showing

Spec == Init /\ [][Next]_vars

-----------------------------------------------------------------------------
(* Properties *)

\* The state has the shape the comments say; the connection a plugin host uses
\* is one of its own that is open.
TypeOK ==
  /\ Range(clients) \subseteq Tabs /\ endpoint \subseteq Tabs
  /\ \A t \in Tabs : connection[t] # None =>
       socket[connection[t]] = [state |-> "open", tab |-> t]
  /\ \A k \in Sockets : /\ socket[k].state \in {"unused", "connecting", "open", "waiting",
                                                "closed"}
                        /\ socket[k].state # "open" => down[k] = <<>>
  /\ \A c \in Callers : run[c].phase \in {"idle", "fetching", "opening",
                                          "requested", "created", "running", "over"}
  /\ Range(cheTasks) \subseteq Calls /\ ended \subseteq Calls
  /\ \A c \in Calls :
       /\ terminal[c] \in {"none", "created", "starting", "attached", "detached", "open",
                            "unopened", "lost", "restarting"}
       /\ icon[c] \in {"none", "IN_PROGRESS", "ENDED", "ERROR"}

\* Every connection of every plugin host tells of the same end, some before the
\* task is recorded and some after it was reported (MachineExecWatcher.init,
\* CheTaskServiceImpl.fireTaskExited): the editor hears of it once at most, and
\* only of processes that ended.
ReportedOnce ==
  \A c \in Calls : reports[c] <= 1 /\ (reports[c] = 1 => c \in ended)

Quiet ==
  /\ \A k \in Sockets : down[k] = <<>>
  /\ \A t \in Tabs : up[t] = <<>> /\ toTab[t] = <<>> /\ statuses[t] = <<>>

\* The exit of a task that ends before runTask has recorded it is dropped when
\* another connection tells it, and never lost: the connection that answered
\* the request tells it again, after the answer, as long as it does not break
\* and the end does not overtake the answer (MachineExecClient.getExecId,
\* CheTaskServiceImpl.registerTaskRunner).
ExitNotLost ==
  Quiet => \A c \in ended \ (cut \cup overtaken) : reports[c] = 1

\* A terminal that had attached to its process when it ended shows how it ended,
\* whatever the order in which tasks start, fail and end and connections close,
\* unless it opens later: the end icon does not outlive onDidOpen
\* (TaskStatusHandler).
IconSettles ==
  Quiet => \A c \in early \ (cut \cup overtaken) : icon[c] = "ENDED"

=============================================================================
