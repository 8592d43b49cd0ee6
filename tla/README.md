# Che-Theia: specifications, model checking and proofs

Che-Theia is the Eclipse Che edition of the Theia IDE: a set of Theia extensions
(`extensions/`) and plugins (`plugins/`) for an IDE whose backend runs in one
container of a workspace and whose VS Code extensions run in others, the
*plugin sidecars*. This directory holds TLA+ specifications of the parts of it
that are concurrent, their TLC configurations, and TLAPS proofs.
`PROJECT.json` maps every definition to the source lines it stands for and
lists components, hazards, runs, mutants, findings and theorems.

    tlc -workers 2 -config MCHostedPluginRemote.cfg MCHostedPluginRemote.tla
    tlapm HostedPluginRemoteProofs.tla

## The system

| Component | State it keeps | Operations | Interacts with | What is hard | What makes it correct |
|---|---|---|---|---|---|
| Plugin remote, backend side (`HostedPluginRemote`, `HostedPluginMapping`, `PluginReaderExtension`) | sockets by address, deployed plugins by address, pending requests (all per browser connection); plugin-to-endpoint map and the current remote (shared) | connect, discovery event, setClient, clientClosed, metadata, request, response, message | sidecars over web sockets; frontend over JSON-RPC; HTTP resource route | lost messages, reconnects, two tabs sharing one map, order of stop and close, restarts of sidecars | stable and truthful map, answers matched to requests, no sockets out of reach, stop before close, plugins of a sidecar learned |
| `Websocket` | one `ws` instance, a reconnect timer | open, send, close, reconnect | the remote and the network | close racing the handshake and the timer | reconnects only after failures |
| Sidecar (`PluginRemoteInit`, deployer) | deployed plugins, sessions, announced flag | message handler, deploy, announce | backend over sockets, plugin host | asked before it has deployed, restarts | announces a complete batch |
| Discovery (`PluginDiscovery`) | a UDP socket | announce, request | every backend connection and sidecar | loss, start-up order | a sidecar and a backend find each other |
| Cross-sidecar loading (`PluginRemoteNodeImpl`) | calls in flight, external plugins | load, activate, call exports | sidecars through the browser | waiting for registries | calls answered once |
| Activity tracker | a flag and a timer per tab, the same in the backend | activity, call, two timer callbacks | tabs, backend, workspace master | flags set between two timers, tabs closing, failed requests | no activity lost, requests throttled, no spurious request |
| Ports plugin | ports seen, questions open, redirect pool, forwards, servers, tree | scan, open, close, answer | processes of the workspace, user | answers that come long after the question, reopened ports | endpoints not given twice, forwards served, tree current |
| Workspace plugin (`WorkspaceProjectsManager`, `WorkspaceFolderUpdaterImpl`, `DevfileServiceImpl`) | imports under way, a promise chain each for folders and devfile, two watchers | import, add/remove folder, update/delete project | editor, disk, git, devfile | 7 s timeouts racing late events, two watchers that tell of one change, indices computed on a list that is old | folders and devfile follow the disk, the chain never stops |
| Devfile service (`CheServerDevfileServiceImpl`) | none | get, updateDevfile, with a conversion each way | Che server, all that changes the devfile | every save rewrites the whole devfile in another format | a save keeps what it was not about |
| Plugin view and service (`ChePluginManager`, `ChePluginServiceImpl`) | installed plugins, list items, registry cache, one client | install, remove, change version, update the cache, filter | registries, devfile, several tabs | read-modify-write without a lock, one cache refilled by several updates, a client that is gone | no change lost, a complete cache, a view that settles |
| Tasks (`MachineExecClient`, watcher, `CheTaskService`, `TaskStatusHandler`) | a JSON-RPC connection per plugin host, running tasks, icons | run, exit, reconnect | machine-exec server, tabs | exit before the task is recorded, several connections that tell of one end, notifications lost on reconnect | every end is reported once and shown |
| Terminals | a socket per widget | open, reconnect, close | machine-exec server | reconnection, closing while connecting | one process per widget |
| Git provisioner, user preferences | watched files | two synchronisations that write each other's source | file system, preferences | feedback between the two, watcher stopped during writes | they converge |
| Remote API implementations | none | REST and Kubernetes calls | Che server, Kubernetes | failures | out of scope: stateless |
| SSH, recommendations, resource monitor, welcome, containers, telemetry, about, logging, dashboard, mini-browser, generator, tools, images | little or none | commands and views | user | - | out of scope: see `PROJECT.json` |

## Modules

| Module | Kind |
|---|---|
| `ResourceService` | abstract specification of the plugin resource channel |
| `HostedPluginRemote` | browser connections, sockets, sidecars and their messages; implements `ResourceService` |
| `HostedPluginRemoteProofs`, `HostedPluginRemoteWireProofs` | theorems about it: data and messages; sockets and sessions |
| `ActivityTracker`, `ActivityTrackerProofs` | the two throttles; theorems about them |
| `PortsPlugin`, `PortsPluginProofs` | detector, prompts, redirect pool; theorems about them |
| `DevfileConversion` | the two conversions of a devfile, as operators, and what a round trip keeps |
| `DevfileWriters`, `DevfileWritersProofs` | plugin view, plugin service and devfile chain over one devfile; extends `DevfileConversion`; theorems about both |
| `WorkspaceProjects`, `WorkspaceProjectsProofs` | imports, folder updater, watchers and devfile chain of the workspace plugin; theorems about them |
| `TaskExecution`, `TaskExecutionProofs` | a task from the tab to the machine-exec server and its end on the way back; theorems about it |
| `PluginCache`, `PluginCacheProofs` | updates of the plugin cache, its client and the view; theorems about them |
| `MC...` | instances for TLC |

`DevfileConversion` is the only module whose subject is data: an object is a function
from the fields it has to their values. All others keep control and reduce data to what the
handlers branch on. Definitions marked *Variant* are not part of any
specification; they are the faulty code the properties are tried against.

### HostedPluginRemote

The variables carry the names of the fields of the code:
`pluginsEndpoints` (`HostedPluginMapping`, one for all connections),
`readerRemote` (`PluginReaderExtension.hostedPluginRemote`), and per browser
connection `endpointsSockets`, `pluginsDeployedPlugins`, `nextMessageId`,
`pendingInternalRequests`. `resolved` is history: the promises resolved, with their data.

A `Websocket` object is identified by its creator, an environment
variable or an announcement, because two variables may name one address and
then two objects exist for it while the map of the code keeps one. A socket is
`unused`, `connecting`, `open`, `closing` (close frame sent), `aborting`
(`close()` during the handshake), `waiting` (reconnect timer running) or `closed`
(normal end). `toSidecar` and `toClient` are the FIFO contents of its connection;
a close frame travels in the same queue as the data. Sends on a socket that is
not open are dropped, as `Websocket.send` and the `ws` library do. Messages are
reduced to what the handlers branch on; a resource is represented by the plugin
it belongs to.

Each handler is one action: `ClientConnects` (creation, `postConstruct` and the
`onActivation` of the container), `SetClient`, `ClientClosed`, `OnNewEndpoint`,
`OnMessage`, `SendInternalRequest`; `Open`, `Drop`, `AbortedClose`,
`Reconnect` for the socket; `Sidecar...` for the branches of the sidecar's
message handler (`SidecarStop` and `SidecarStopped` are the two sides of its
await); `Receive...` for the branches of the client's. `Deploy` is one turn of
the deployment loop, `Announce` its end, `Restart` the loss of a sidecar
container and of everything it held.

A response carries the file or nothing; both resolve the promise. A request for
a plugin the sidecar has not deployed makes its handler throw, so it is consumed
without a response. A discovery listener outlives its connection, so
`OnNewEndpoint` is also possible after `ClientClosed`.

### ActivityTracker

Time is discrete. `Tick` is possible when no timer is at 0 and no call is older
than `Delay`, so timers are punctual: what a loaded event loop adds to
`setTimeout` is outside the model. `isAnyActivity`, `isNewRequest` and the two
timers are the code's (`isTimerRunning` is "the timer is not off"). `calls[c]` holds
the ages of the calls on their way to the backend. The remaining variables are
history, each a saturating clock: time since the oldest unreported activity
of a tab, since the oldest unreported call, since the last activity, between
requests, since a failed request. A request to the master that fails changes
nothing else, because the promise it rejects is not awaited.
Both `sendRequestAndSetTimer` clear their flag after sending; the code between
is synchronous, so this is one step.

### PortsPlugin

`ReadTable` and `ReadFails` are the reads of `/proc/net/tcp` and `tcp6`; after a
failed read the scanner never reads that table again (`fetched`). `Started` is the end of
`start`, `Monitor` the end of a scan with all callbacks it triggers: up to their
first `await` they run without interruption, the questions first. A question
stays in `prompts` until `Accept`, `AcceptUndefined` (yes, but the pool is
empty) or `Decline`. `servers` are the `PortForwardServer`s that run; an
entry that is overwritten leaves its server running, as in the code. `Silent` and
`InDevfile` stand for the conditions of `onOpenPort` that end without a redirect
question; notifications that change no state are left out. The sockets the plugin
opens itself are `theia-redirect-` endpoints of the devfile, for which
`onOpenPort` does nothing, and are not listed among `Listeners`.

### DevfileConversion and DevfileWriters

One operator of `DevfileConversion` stands for one `...V1To...V2` or `...V2To...V1` method. `RoundTrip`
is what a save without a change does. `Kept` says in terms of version 1 alone what
survives it, and so lists what does not: the type `ide` of an endpoint, all actions of a command but the
first, all revisions of a source but one, preview URLs, sparse checkout directories,
`mountSources` of a plugin. No property claims these are preserved. `IsDevfile` is what the conversions rely on and
the code does not check, because the Che server accepts no other devfile: a plugin has an id or a reference, a project a
name and its source a type and a location, a command's actions a first one with a type, and the attribute that version 2 adds is
not there yet. TLC evaluates it on the instances' devfiles; the proofs show that every devfile a writer stores satisfies it again.

In `DevfileWriters` a list item of the plugin view calls `ChePluginManager` (`InstallPlugin`, `RemovePlugin`,
`VersionChanged`), the backend reads the devfile twice and saves once (`ListPlugins`,
`SetWorkspacePlugins`, `UpdateDevfile`), and `Succeed` or `Fail` is the answer. `Filter` gives the items
new plugin objects and lets them keep their status; `Remount` makes new items, so
that answers under way reach items that are gone. The promise chain of the workspace plugin is `Noticed`,
`GetDevfile`, `SaveProjects` and `JobFails`. `disturbed` records that a save crossed another one:
the code promises nothing then, since nobody locks the devfile, and the properties about saves speak of
those that crossed none. `unsure` does the same for lost answers and for two calls for one plugin
under way together, after which `installedPlugins` may be wrong. `InstalledIsThere` speaks of the plugins of the catalog:
one that the devfile names and no registry knows has no item and is nobody's to take off either list.
It speaks of their long keys. A devfile may name a plugin of another registry by its short key, with the registry beside it,
so the view knows a plugin by both (`KeysOf`); `remove` takes its long key off the list, so that a short one stays on it.

### WorkspaceProjects

`run` is the phase of `WorkspaceProjectsManager.run()`, `import` that of each missing project: a login, the question
after a failed one, the import, the folder. An operation in `chain` carries who awaits it (`by`), so that
`Settle` lets that one go on or rejects it. `requests` is what the editor was asked,
`roots` the list it has, `events` what it has not told yet and `known` the list the plugin knows: an index
is computed from `known` and used on `roots`. A handler of a watcher event occupies one of the `Slots` with its awaits
between: a change of a git project asks git twice, for the upstream branch (`UpstreamBranch`) and for the address of its
remote (`RemoteURL`), before the update is queued (`UpdateProject`). `jobs` is the devfile chain, whose saves are `DevfileWriters`.
`Timeout` may come at any time after the editor was asked: 7 s are long or short as the editor is busy.
`seen` remembers whose last change the watchers were there for; nothing is promised of others. `raced` remembers the
projects that were deleted after git's last answer and before the update made of it was queued: the deletion is told first and the update
brings the gone project back into the devfile. The code does that, and `DevfileFollowsDisk` leaves these projects out.

### TaskExecution

A plugin host per tab has its own `MachineExecClient`. `connection` is its field; sockets
that it created earlier go on reconnecting and telling. `run` follows the call of `runTask` through
`getConnection` (`fetching`, `opening`) to the server (`requested`, `created`, `running`); the same record serves
the connection that the constructor asks for. `down`, `up`, `toTab` and `statuses` are channels: server to
plugin host, plugin host to backend, backend to tab, tab to its plugin host. They keep the order of what is sent, except
that on `up` an exit may arrive before the answer to `runTask` that was given first (`BackendReceives`): the answer
passes awaits in the plugin host and the tab that the exit does not pass. The backend asks
`clients[0]` whichever tab wants the task, so the plugin host that runs it may belong to another tab than the
terminal. The id of a process is its call.

The connection of a tab comes, goes and returns (`ConnectTab`, `DisconnectTab`). With it go its plugin host and all calls on
their way; its terminals stay, and a new plugin host starts (`HostStarts`). The terminals of a tab share one connection to their server,
which can close too (`TerminalsDisconnect`): when it is open again, each asks whether its process is known and starts again
(`ReconnectTerminal`, `RestartTerminal`). `onDidOpen` fires then as it does the first time, and the icon says "in progress", over an end icon too.

`cut`, `overtaken` and `early` are history. The first two except the tasks whose socket or plugin host went, and those whose end
arrived before their record. `early` are the tasks that ended when their terminal had its id, and that it has neither lost nor
opened again since: of the others the code has no means to keep the icon right.

### PluginCache

`update` holds the calls of `updateCache`, first in the tab (`preparing`: the default registry and the devfile), then in the
service at one of its awaits: the default registry, a
list, a plugin, or the notification it awaits (`awaits`) in the tab that is the client. A tab that closes or whose connection breaks
answers no more; what waits for it is `hung`, and of a call that ended, one way or another, only its phase and tab are kept (`Ended`).
A tab may come back with the view as it was. `latest`, `missed` and `stale` are history: the update that cleared the cache last, what
an update could not load, and the tabs that came back and have not asked for plugins since. `asking` and `toTab` are the view's channels; the
answer of `getPlugins` is a copy of the cache at the moment the service handles the question.

## What the runs show

| Run | Properties | Instance | Result |
|---|---|---|---|
| `remote_safety` | `TypeOK`, `OrphansOnlyFromEnv`, `StopBeforeClose`, `MappingTruthful`, `FirstMappingWins`, `ResourceRefinement` | 1 connection, 2 sidecars of which both host p2 and one is named by the environment, 1 request, 1 plugin message, 1 broken connection, 1 restart; 3.6 million states | hold |
| `remote_liveness` | `DiscoveredPluginsLearned`, `RequestAnswered` | 2 connections, 1 discovered sidecar with 2 plugins, 1 request each, 1 broken connection; 0.2 million states | hold |
| `remote_close_reconnects` | `ReconnectOnlyAfterFailure` | as `remote_safety`, without failures | violated |
| `activity` | `TypeOK`, `ActivityReported`, `CallReported`, `OneRequestPerPeriod`, `NoRequestWhenIdle` | 3 page loads, Period 3, Delay 1; 1.5 million states | hold |
| `activity_retry` | `RetriedAfterError` | same | violated |
| `ports` | `TypeOK`, `RedirectFreeOrServed`, `ForwardServed`, `ShownIsCurrent`, `ScansGoOn` | ports on both loopbacks, on all interfaces, and in the devfile; 2 redirect endpoints, 3 openings after the start, tcp6 may fail; 0.2 million states | hold |
| `ports_prompt_race` | `YesFindsEndpoint` | same | violated |
| `devfile` | `TypeOK`, `SavesKeepTheRest`, `InstalledIsThere`, `LastChangeWins`, `SavesOneThing` | 2 devfiles that have something of everything the conversions tell apart, 2 plugins, one of them with 2 versions and one from another registry, 2 calls, 2 git changes; 0.43 million states | hold |
| `devfile_remove` | `RemovedFromConfiguration` | as `devfile`, 1 call, no git changes | violated |
| `workspace` | `TypeOK`, `RootsFollowDisk`, `DevfileFollowsDisk`, `ChainSettles` | 2 declared projects (behind a login; misplaced by its import) and 1 other, 2 handlers, 2 changes of the disk, 1 failure; 0.74 million states | hold |
| `tasks` | `TypeOK`, `ReportedOnce`, `ExitNotLost`, `IconSettles` | 2 tabs, 1 task over 3 sockets or 2 over 1, 3 failures; 3.3 million states up to symmetry | hold |
| `plugin_cache` | `TypeOK`, `CacheComplete`, `ViewShowsCache`, `ViewSettles` | 2 tabs, 2 updates, 2 registries, 2 filters, 1 event; 3.1 million states | hold |

Every property of a passing run is paired in `PROJECT.json` with a mutant of
the code's behaviour that breaks it.

**Bounds.** `MaxRequests`, `MaxRpc`, `MaxFaults`, `MaxRestarts` and `MaxOpens` cap
what the environment may do; `Unreliable` names the tables that may fail. A
broken connection and a restart may hit at any moment and in either order, and the first
metadata, a request, its response and the shutdown all fit in an
instance. Two sidecars that host the same plugin are needed for the mapping; two connections
for the shared mapping and `readerRemote`. `Period = 3` leaves instants strictly
between two timers' ticks, and three page loads are what it takes for a tab to be
throttled, another to be calling and a third to be gone. The time bounds
`Period + Delay` and `2 * Period + Delay` are tight: one less is violated. Two redirect endpoints
and four sockets exhaust the pool and let a port be asked about twice. Two calls of the plugin view (`MaxCalls`) are
what it takes for one to read between another's read and save, and two git changes (`MaxChanges`) for a change
to wait on the chain; the catalog has both kinds of keys. Two changes of the disk (`MaxDisk`) make a
directory go and come back while the first is still being handled, which two `Slots` allow, and `MaxFaults` lets a
timer run out, a folder be refused or a user remove one at the worst moment; a
timer that runs out afterwards is not bounded. In `tasks` three sockets give one plugin
host two connections beside one of the other tab's, and three failures (`MaxFaults`) break them, let a terminal lose its connection, reject a run
or disconnect tabs, which may return. What one task's terminal suffers from another's needs two tasks, and one socket is enough for it, so the
exploration stops where a second task and a second socket meet (the constraint `Explored`); both together with a failure are 11 million states for
one failure alone. In `plugin_cache` two updates
(`MaxUpdates`) overlap at any pair of their awaits, with lists of registries that differ; tabs go and return without a bound, and one
event (`MaxEvents`) fails a request or changes a filter. The proofs below have no bounds on the constants.

**Deadlock.** The activity tracker and the ports plugin never stop, since time and scans go on, and deadlock
is checked. In the others the environment may have done all its bounds allow, with every client closed,
every project in place or every task over: `CHECK_DEADLOCK FALSE` there.

**Fairness.** `remote_liveness`: weak fairness of the steps of each socket (its events
are dispatched, its timers fire, the sidecar handles its messages) and of deployment;
none for users, faults, announcements and closings. `ports`: weak fairness of the
detector (its reads end and its timer fires), none for processes and users. `workspace`: weak fairness of
the operation at the head of the chain (its promise goes on, or its timer fires), of the editor's actions and of
its events; none for users, disk and imports. `plugin_cache`: weak fairness of the service and the tabs together
(a request to a registry ends, well or not, and messages are handled); none for users, closings
and failures. The promises
of `ActivityTracker` are safety properties with time bounds and need none.

### Findings

- `remote_close_reconnects`: `Websocket.close()` during the handshake aborts it, which
  ends in a close event with code 1006, and the handler reconnects. Nothing closes the
  session that is opened then.
- `activity_retry`: the retry of `ActivityTrackerServiceImpl.sendRequest` is in a
  `catch` around a promise nobody awaits; it never runs.
- `ports_prompt_race`: the redirect pool is checked before the user answers and used
  after; a yes can find it empty, and the command fails on `undefined` where the plugin's
  README announces an error message.
- `devfile_remove`: `ChePluginManager.remove()` builds the key of the plugin by hand. For a plugin of another registry than the
  default one the devfile has a longer key: nothing is removed, and the user reads that it was.

## What is proved

All theorems hold for every value of the constants that satisfies the named
assumptions of the module, which TLC evaluates in every run: `RemoteAssumption`, `ActivityAssumption`, `PortsAssumption`,
`NoneAssumption`, `CallsAssumption`; `ImportAssumption` (there are finitely many projects, the declared ones are a list of them);
`CatalogAssumption` (each version is of one plugin and its keys are of no other version: `groupPlugins` makes one plugin of
the metadata that share publisher and name, and the rest of a key is the version and the address of a registry);
`DevfilesAssumption` (the devfile at the start is one the server accepts, its projects are cloned to directories of their own) and
`ChangesAssumption` (a change is an update or a deletion and names a directory below the projects root).

- **`HostedPluginRemoteProofs`.** `TypeCorrect` is inductive by itself.
  `MappingAlwaysTruthful` needs `MappingInv`: what a sidecar deployed is among what it
  hosts, so is what any metadata answer still in flight reports. `FirstMappingStays` follows
  from the guard on unmapped plugins. `RequestsMatched` is the invariant `RequestInv`: ids
  are bounded by the counter of their client, pending ids are unique, a request or
  response on any socket, however old, names the plugin under which its id is pending or
  was resolved, and it names it on sockets of that client only. With it `ResourceImplemented` maps
  each step to a step of `ResourceService` or a stutter.
- **`HostedPluginRemoteWireProofs`.** `StopAlwaysFirst` needs `FarewellInv`: a socket
  that is not connected has nothing in flight, a close frame on the way to the sidecar is
  behind a stop or the session is already stopping, and a close on its way back comes
  from such a session. `NoOrphanFromDiscovery` needs `LifeInv`: an absent client owns no
  connection, and a Websocket opened for an announcement is the one the map holds.
- **`ActivityTrackerProofs`.** `ActivityInv` adds to the types what the flags mean.
  Waiting activity is on its way: flagged in its tab with the timer running, in a call, or
  flagged in the backend; and while the backend's timer runs, the age of the activity and the time
  left on that timer do not exceed a period together. The same sum bounds the age of an unreported call,
  and similar sums along the path bound the time since the last activity, so
  that no flag outlives its cause. `NoActivityLost`, `NoCallLost`, `RequestsThrottled`
  and `IdleWorkspaceSilent` follow.

- **`PortsPluginProofs`.** `PoolInv` says without counting what `RedirectFreeOrServed` counts: the
  pool has no repetition, no two servers share an endpoint, none serves an endpoint of the
  pool, and nothing is lost. It is not inductive alone: that a closed port gives back an
  endpoint nobody holds needs `ForwardServed`, and that two closed ports never give back the same one
  needs both. `FreeKeeps` and `AcceptKeeps` treat the two steps that move endpoints;
  `RedirectsAccounted`, `ForwardsServed` and `TreeCurrent` follow.

- **`PluginCacheProofs`.** `CacheInv` adds `Maps` (the domains), `CallsInv` (the phase of an update
  says which of its lists are empty) and `LatestInv`: what the update that cleared the cache last has still
  to load, what it missed and what is cached cover the plugins of its registries. Other
  updates only add to the cache, or become the last one when they clear it, so every step
  keeps it; when nothing is left to load, it is `CacheComplete` (`LastUpdateCompletes`).
  `ViewShows` needs `ViewInv`: the view of the service's client, unless it came back and has not asked (`stale`), is
  `Informed`, which means that an update still fills the cache, that the news of its end is on the way, or that
  a question is, and that the answer to it will be of the cache as it is and of the filter as it is.
- **`TaskExecutionProofs`.** `TaskInv` is `TaskShape` (types, and `Links`: a request goes over an open socket of its host,
  only open sockets carry messages) and `Stages`: the answer that a process was created is
  in one place at a time, on the socket, then on its way to the backend, then in `cheTasks`, then reported, and each place excludes
  the others. The exit, in contrast, is told by any number of connections at any time, and `Stages` says nothing of
  it but that the process ended: `EndsReportedOnce` rests on the one answer. `OneTaken`
  and `OneAdded` are the lemmas on queues; a step that moves no answer is handled once for all
  (`UntoldStages`). For `EndsReported` the same places have an order: `EndsInv` says that for every living task that is not `Missed` (its socket broke, or
  its exit overtook the answer), the exit is behind the answer that created the process, on the one socket or on its way to the backend, or
  the task is recorded and the exit told, so none can be dropped for good. `IconsInv` continues the way to the tab: a
  terminal in `early` has its id and its tab is connected, and once the task is reported it shows the end or has a message coming that will
  make it (`IconsSettle`).
- **`WorkspaceProjectsProofs`.** `ProjectsTypeCorrect` rests on `Shape` (the types; no folder is twice in a list), `Asked` (each
  operation of the chain has one asker, who awaits it) and `Progress`. For the folders, `InStep` says that without a
  fault the editor is asked for, and tells of, exactly what the operation at the head of the chain waits for, so that an operation ends
  with the folders as it wanted them, although its index was computed on the plugin's own list. What the chain as a whole
  will make of the folders (`Target`) then changes only where an operation is queued. `Beforehand` holds until the root is watched,
  when only `run()` and the imports ask for folders; from then on `Following`: for each project in `seen`, `Target` agrees
  with the disk, or the disk will be looked at again. A second conjunct says the same for `recorded` with the
  devfile chain and the git watcher's events, where an update on its way can be overtaken by a deletion: while a handler holds git's last answer the project exists, or it is
  in `raced`, of which nothing is said. `FoldersFollow` and `DevfileFollows` are
  these invariants in a `Calm` state, where no chain, event or handler is left.

- **`DevfileWritersProofs`.** `RoundTripKeeps` compares the two conversions object by object, for objects with any fields: what
  `ComponentKept`, `CommandKept`, `ProjectKept` and `MetadataKept` say of one holds of a devfile, since lists are
  converted element by element. `AlwaysTypes` shows that the writers keep a devfile acceptable (`IsDevfile`) and their copies
  storable (`IsCopy`); `SavesKeep` needs no more. The type invariant bounds the saves by what can still cause one
  (`SavesBounded`): a call that has not saved yet, or a change on the chain.
  `Fresh` says what a writer holds that no save has crossed: the list and the copy of the devfile that is stored.
  For the plugins, `SetPluginsIds` and `Occurrences` follow `setWorkspacePlugins` where it uses up its list, one occurrence for one component;
  so an undisturbed call saves the ids it should (`CallSaves`). `Explained` then says of each plugin the browser lists that it is in the devfile or
  an answer on its way takes it off, and of each answer that puts one on the list that it is there. It is not inductive alone: another call for
  the same plugin could take away what an answer counts on, which `OnePerPlugin` excludes. `InstalledThere` follows.
  For the projects, `Distinct` holds also of copies that have crossed: no writer makes two projects share a directory, so that
  a deletion, which takes the first project it finds, leaves none. `FollowsOn` is what the two updaters do to
  the projects (`UpdateFollows`, `DeleteFollows`), and `Followed` that the last change of each path is recorded or still on the chain, as its path's
  last one there: `LastChange`. `Settled` is stronger than the property, since a project may name
  several revisions and a round trip keeps the first.
  `SavesOne` needs `Fresh` and `Distinct` of the state before the save. That plugins which were not asked about keep their components needs
  counting: they are on the new list as often as in the devfile (`CountListed`, `PluginStays`); that all else keeps its order, a
  correspondence of indices (`SameAt`).

All safety properties and action properties the passing runs check are proved. Only model-checked: the liveness properties
`DiscoveredPluginsLearned`, `RequestAnswered`, `ScansGoOn`, `ChainSettles` and `ViewSettles` (fairness is beyond the prover).

## Not modelled

- Payloads, wording, logging, views without state, REST clients, build tools, the traffic through a forward.
- Plugin remote: the exchange of announcements and requests by UDP (`PluginDiscovery`; an announcement is an event that may
  come or not), the search for a free port of a sidecar, keep-alive (a terminated socket is a
  `Drop`), undeploy, loading a plugin of another sidecar.
- Tasks: killing one, the registration of runners, the previews. Terminals that belong to no task.
- Plugin view: the filters `@installed` and `@builtin`, the installation of VS Code extensions, deferred
  installation and the restart of the workspace.
- Workspace plugin: the text of git commands, the SSH questions after a failed clone.
- Git configuration and user preferences, which write each other's source.
- Lateness of timers in `ActivityTracker`.

`PROJECT.json` has the full list with reasons.

## Plan

Done: the remote connection, its refinement of `ResourceService`, activity tracker and ports plugin with
proofs; devfile conversion and writers; workspace plugin, tasks and plugin cache, all with proofs. Left, in this order:

1. `PluginDiscovery`: announce and request datagrams with loss against start-up order,
   with the port search of the sidecar; composed with the deployer.
2. `SyncLoops`: git configuration and preferences writing each other's source.
3. Cross-sidecar loading, on top of `HostedPluginRemote`.
