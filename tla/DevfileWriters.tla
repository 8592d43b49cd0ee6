---------------------------- MODULE DevfileWriters ----------------------------
(***************************************************************************)
(* Who changes the devfile of a workspace, and how.  Nobody locks it: each *)
(* writer gets it, changes its copy and puts the whole of it back.         *)
(*                                                                         *)
(*  - The plugin view of the browser: a list item per plugin              *)
(*    (che-plugin-view-list.tsx) calls ChePluginManager, which calls       *)
(*    ChePluginServiceImpl in the backend, which reads the plugins of the  *)
(*    devfile, computes the new list, reads the devfile AGAIN, makes the   *)
(*    list true in that copy and saves it.                                 *)
(*  - The workspace plugin: DevfileServiceImpl records the git projects    *)
(*    under the projects directory, one change after another on a promise  *)
(*    chain of its own.                                                    *)
(*                                                                         *)
(* One browser tab.  A key of the catalog is the one that is written to    *)
(* the devfile: publisher/name/version for the default registry, the same  *)
(* after the registry's address for another one; shortKey is always the    *)
(* former.                                                                 *)
(***************************************************************************)
EXTENDS DevfileConversion, SequencesExt

CONSTANTS Calls,      \* calls of the manager that can be under way at once
          Catalog,    \* a plugin |-> the metadata of its versions, in order
          Devfiles,   \* the devfiles the workspace may start with
          Changes,    \* git changes the workspace plugin notices
          MaxCalls,   \* bound: calls made and list refreshes
          MaxChanges  \* bound: changes noticed

Metadata == UNION {Range(Catalog[p]) : p \in DOMAIN Catalog}

\* The directory of a project, under the projects directory.
PathOf(project) ==
  IF "clonePath" \in DOMAIN project THEN project.clonePath ELSE <<project.name>>

\* groupPlugins puts the metadata of one publisher and name in one plugin, one
\* entry per version, so the short keys tell all the versions apart; what is
\* before a long key is the address of a registry.
ASSUME CatalogAssumption ==
  /\ \A p \in DOMAIN Catalog : Catalog[p] \in Seq(Metadata) /\ Catalog[p] # <<>>
  /\ \A p, q \in DOMAIN Catalog : p # q => Range(Catalog[p]) \cap Range(Catalog[q]) = {}
  /\ \A m, n \in Metadata :
       m.key = n.key \/ m.shortKey = n.shortKey \/ m.key = n.shortKey => m = n
  /\ MaxCalls \in Nat /\ MaxChanges \in Nat

\* Projects are cloned to directories of their own.
ASSUME DevfilesAssumption ==
  \A d \in Devfiles :
    /\ IsDevfile(d)
    /\ \A i, j \in DOMAIN d.projects :
         PathOf(d.projects[i]) = PathOf(d.projects[j]) => i = j

ASSUME ChangesAssumption ==
  \A change \in Changes : /\ change.kind \in {"update", "delete"}
                          /\ IsList(change.path) /\ change.path # <<>>

Plugins == DOMAIN Catalog

VARIABLES devfile,    \* version 1, as the Che server has it
          version,    \* how many times it was saved
          installed,  \* ChePluginManager.installedPlugins
          item,       \* the list item of each plugin
          call,       \* the calls of the manager under way
          calls,      \* how many were made, refreshes included
          chain,      \* DevfileServiceImpl's promise chain
          job,        \* ... the change at its head, once it has its copy
          changes,    \* how many were put on the chain
          wanted,     \* path |-> the last change put on the chain for it
          disturbed,  \* history: a save crossed another one
          unsure      \* history: an answer was lost, or two calls for one
                      \* plugin were under way together

view == <<installed, item>>
backend == <<call, calls>>
workspacePlugin == <<chain, job, changes, wanted>>
ghosts == <<disturbed, unsure>>
vars == <<devfile, version, view, backend, workspacePlugin, ghosts>>

Idle == [phase |-> "idle"]

-----------------------------------------------------------------------------
(* ChePluginServiceImpl: the plugins of a devfile *)

\* A key with a registry in front of it.
IsUrl(key) == \E m \in Metadata : m.key = key /\ m.key # m.shortKey

MetaYaml(key) == <<key, "meta.yaml">>

\* Takes the file name off an address, if it is there.
NormalizeId(url) == url[1]

PluginId(component) ==
  IF "url" \in DOMAIN component.plugin THEN NormalizeId(component.plugin.url)
  ELSE component.plugin.id

\* The elements at some of a list's indices, in their order.
At(list, indices) ==
  LET Rank(i) == Cardinality({j \in indices : j <= i})
  IN  [k \in 1..Cardinality(indices) |-> list[CHOOSE i \in indices : Rank(i) = k]]

\* A list without one of its values.
Others(list, value) == At(list, {i \in DOMAIN list : list[i] # value})

IsPluginComponent(component) == "plugin" \in DOMAIN component

PluginComponents(components) ==
  At(components, {i \in DOMAIN components : IsPluginComponent(components[i])})

WorkspacePlugins(components) == Each(PluginComponents(components), PluginId)

CreatePluginComponent(key) ==
  [plugin |-> IF IsUrl(key) THEN [url |-> MetaYaml(key)] ELSE [id |-> key]]

Count(list, x) == Cardinality({i \in DOMAIN list : list[i] = x})

\* How many up to list[i] equal list[i].
Nth(list, i) == Cardinality({j \in DOMAIN list : j <= i /\ list[j] = list[i]})

\* Variant: all plugin components are made anew from the list.
RecreatePlugins(components, plugins) ==
  At(components, {i \in DOMAIN components : ~IsPluginComponent(components[i])})
    \o Each(plugins, CreatePluginComponent)

\* The list is consumed by the components that are there; those it does not
\* name (or not often enough) go, and what remains of it is appended.
SetPlugins(components, plugins) ==
  LET ids == [i \in {j \in DOMAIN components : IsPluginComponent(components[j])} |->
                PluginId(components[i])]
      kept == {i \in DOMAIN components :
                 i \in DOMAIN ids => Nth(ids, i) <= Count(plugins, ids[i])}
      added == {j \in DOMAIN plugins : Nth(plugins, j) > Count(ids, plugins[j])}
  IN  At(components, kept) \o Each(At(plugins, added), CreatePluginComponent)

\* The list addPlugin, removePlugin and updatePlugin ask for.
NewPlugins(kind, before, after, plugins) ==
  LET rest == Others(plugins, before)
  IN  CASE kind = "add" -> Append(plugins, after)
        [] kind = "remove" -> rest
        [] kind = "update" -> Append(rest, after)

-----------------------------------------------------------------------------
(* DevfileServiceImpl: the projects of a devfile *)

GitOf(change) ==
  [remotes |-> [origin |-> change.url],
   checkoutFrom |-> [revision |-> change.branch]]

\* Existing git information is overwritten in place, the rest of the project
\* kept; every project with that path is changed.
WithGit(project, change) ==
  (IF "git" \notin DOMAIN project THEN [git |-> GitOf(change)]
   ELSE [git |-> [remotes |-> [project.git.remotes EXCEPT !.origin = change.url],
                  checkoutFrom |-> [revision |-> change.branch]]]) ++ project

UpdateOrCreateGitProject(projects, change) ==
  IF \E i \in DOMAIN projects : PathOf(projects[i]) = change.path
  THEN [i \in DOMAIN projects |->
          IF PathOf(projects[i]) = change.path
          THEN WithGit(projects[i], change) ELSE projects[i]]
  ELSE Append(projects,
              [name |-> Last(change.path), git |-> GitOf(change)]
                ++ (IF Len(change.path) > 1 THEN [clonePath |-> change.path]
                    ELSE Empty))

\* Only the first project with that path goes.
DeleteGitProject(projects, path) ==
  LET there == {i \in DOMAIN projects : PathOf(projects[i]) = path}
  IN  IF there = {} THEN projects
      ELSE At(projects, DOMAIN projects \ {CHOOSE i \in there : \A j \in there : i <= j})

-----------------------------------------------------------------------------
(* The plugin view *)

\* A devfile may name a plugin of another registry by its short key, with the
\* registry beside it.
KeysOf(m) == {m.key, m.shortKey}

\* Variant: publishers and names are not compared.
AnyInstalled(p) ==
  At(installed, {i \in DOMAIN installed : \E m \in Metadata : installed[i] \in KeysOf(m)})

\* getInstalledPluginsInfo takes the registry off the installed keys, and
\* getAllPlugins compares publishers and names: the last installed key of a
\* plugin says which version is shown.  Versions that no registry has are left
\* out.
InstalledVersions(p) ==
  At(installed, {i \in DOMAIN installed :
                   \E m \in Range(Catalog[p]) : installed[i] \in KeysOf(m)})

Listed(p) ==
  LET keys == InstalledVersions(p)
  IN  [installed |-> keys # <<>>,
       version |-> IF keys = <<>> THEN Last(Catalog[p])
                   ELSE CHOOSE m \in Metadata : Last(keys) \in KeysOf(m)]

StatusOf(p) == IF Listed(p).installed THEN "installed" ELSE "not_installed"

Init ==
  /\ devfile \in Devfiles
  /\ version = 0
  /\ installed = WorkspacePlugins(DevfileV1toV2(devfile).components)
  /\ item = [p \in Plugins |-> Listed(p) ++ [status |-> StatusOf(p)]]
  /\ call = [c \in Calls |-> Idle]
  /\ calls = 0
  /\ chain = <<>>
  /\ job = Idle
  /\ changes = 0
  /\ wanted = Empty
  /\ disturbed = FALSE
  /\ unsure = FALSE

\* A call goes to the backend; the item shows what it waits for.
Start(c, p, kind, before, after, shown) ==
  /\ call[c] = Idle
  /\ calls < MaxCalls
  /\ call' = [call EXCEPT ![c] =
                [phase |-> "list", kind |-> kind, plugin |-> p,
                 before |-> before, after |-> after,
                 previous |-> item[p].status, shown |-> TRUE]]
  /\ calls' = calls + 1
  /\ item' = [item EXCEPT ![p] = shown]
  /\ unsure' = (unsure \/ \E d \in Calls : call[d] # Idle /\ call[d].plugin = p)
  /\ UNCHANGED <<devfile, version, installed, workspacePlugin, disturbed>>

InstallPlugin(c, p) ==
  /\ item[p].status = "not_installed"
  /\ LET metadata == item[p].version
     IN  Start(c, p, "add", metadata, metadata,
               [item[p] EXCEPT !.status = "installing"])

RemovePlugin(c, p) ==
  /\ item[p].status = "installed"
  /\ LET metadata == item[p].version
     IN  Start(c, p, "remove", metadata, metadata,
               [item[p] EXCEPT !.status = "removing"])

\* The version shown changes at once.  Whether the backend is asked depends on
\* what the plugin was when it was listed, not on the status shown.
VersionChanged(c, p, metadata) ==
  LET shown == [item[p] EXCEPT !.version = metadata]
  IN  /\ metadata # item[p].version
      /\ IF item[p].installed
         THEN Start(c, p, "update", item[p].version, metadata, shown)
         ELSE /\ item' = [item EXCEPT ![p] = shown]
              /\ UNCHANGED <<devfile, version, installed, backend,
                             workspacePlugin, ghosts>>

\* ChePluginWidget.filter: new plugin objects; the items keep their status.
Filter ==
  /\ item' = [p \in Plugins |-> Listed(p) ++ item[p]]
  /\ UNCHANGED <<devfile, version, installed, backend, workspacePlugin, ghosts>>

\* The list is hidden while the cache is updated and mounted again: the items
\* start from what is listed, and calls under way answer to items that are gone.
Remount ==
  /\ calls < MaxCalls
  /\ calls' = calls + 1
  /\ item' = [p \in Plugins |-> Listed(p) ++ [status |-> StatusOf(p)]]
  /\ call' = [c \in Calls |-> IF call[c] = Idle THEN Idle
                              ELSE [call[c] EXCEPT !.shown = FALSE]]
  /\ UNCHANGED <<devfile, version, installed, workspacePlugin, ghosts>>

-----------------------------------------------------------------------------
(* A call in the backend, and its answer *)

\* The keys the manager passes: remove() builds the short one by hand.
KeyBefore(request) ==
  IF request.kind = "remove" THEN request.before.shortKey ELSE request.before.key

\* getWorkspacePlugins, and the list the caller makes of it.
ListPlugins(c) ==
  /\ call[c].phase = "list"
  /\ LET plugins == WorkspacePlugins(DevfileV1toV2(devfile).components)
     IN  call' = [call EXCEPT ![c] =
                    [@ EXCEPT !.phase = "set"]
                      ++ [plugins |-> NewPlugins(@.kind, KeyBefore(@), @.after.key,
                                                 plugins),
                          since |-> version]]
  /\ UNCHANGED <<devfile, version, view, calls, workspacePlugin, ghosts>>

\* setWorkspacePlugins up to updateDevfile.
SetWorkspacePlugins(c) ==
  /\ call[c].phase = "set"
  /\ LET copy == DevfileV1toV2(devfile)
     IN  call' = [call EXCEPT ![c] =
                    [@ EXCEPT !.phase = "save"]
                      ++ [copy |-> [copy EXCEPT !.components =
                                      SetPlugins(@, call[c].plugins)]]]
  /\ UNCHANGED <<devfile, version, view, calls, workspacePlugin, ghosts>>

Save(copy, since) ==
  /\ devfile' = DevfileV2toV1(copy)
  /\ version' = version + 1
  /\ disturbed' = (disturbed \/ since # version)

UpdateDevfile(c) ==
  /\ call[c].phase = "save"
  /\ Save(call[c].copy, call[c].since)
  /\ call' = [call EXCEPT ![c] = [f \in DOMAIN @ \ {"plugins", "copy", "since"} |->
                                    IF f = "phase" THEN "answer" ELSE @[f]]]
  /\ UNCHANGED <<view, calls, workspacePlugin, unsure>>

\* What the item shows when the call has come back; changeVersion shows nothing.
Shows(c, status) ==
  item' = IF call[c].shown /\ call[c].kind # "update"
          THEN [item EXCEPT ![call[c].plugin].status = status] ELSE item

\* Variant: changeVersion forgets to take the old key off the list.
KeepOldVersion(c) ==
  LET request == call[c]
      rest == Others(installed, request.before.key)
  IN  /\ request.phase = "answer"
      /\ installed' = IF request.kind = "remove" THEN rest
                      ELSE Append(installed, request.after.key)
      /\ Shows(c, IF request.kind = "add" THEN "installed" ELSE "not_installed")
      /\ call' = [call EXCEPT ![c] = Idle]
      /\ UNCHANGED <<devfile, version, calls, workspacePlugin, ghosts>>

Succeed(c) ==
  LET request == call[c]
      rest == Others(installed, request.before.key)
  IN  /\ request.phase = "answer"
      /\ installed' = CASE request.kind = "add" -> Append(installed, request.after.key)
                        [] request.kind = "remove" -> rest
                        [] request.kind = "update" -> Append(rest, request.after.key)
      /\ Shows(c, IF request.kind = "add" THEN "installed" ELSE "not_installed")
      /\ call' = [call EXCEPT ![c] = Idle]
      /\ UNCHANGED <<devfile, version, calls, workspacePlugin, ghosts>>

\* A request to the Che server fails, or its answer is lost after the save.
Fail(c) ==
  /\ call[c] # Idle
  /\ Shows(c, call[c].previous)
  /\ call' = [call EXCEPT ![c] = Idle]
  /\ unsure' = (unsure \/ call[c].phase = "answer")
  /\ UNCHANGED <<devfile, version, installed, calls, workspacePlugin, disturbed>>

-----------------------------------------------------------------------------
(* The workspace plugin's promise chain *)

\* updateProject, deleteProject: behind whatever the chain still has to do.
Noticed(change) ==
  /\ changes < MaxChanges
  /\ changes' = changes + 1
  /\ chain' = Append(chain, change)
  /\ wanted' = Field(change.path, change) ++ wanted
  /\ UNCHANGED <<devfile, version, view, backend, job, ghosts>>

GetDevfile ==
  /\ job = Idle
  /\ chain # <<>>
  /\ job' = [phase |-> "save", copy |-> DevfileV1toV2(devfile), since |-> version]
  /\ UNCHANGED <<devfile, version, view, backend, chain, changes, wanted, ghosts>>

\* deleteProject saves nothing when it found no project.
SaveProjects ==
  /\ job # Idle
  /\ LET change == Head(chain)
         projects == IF change.kind = "delete"
                     THEN DeleteGitProject(job.copy.projects, change.path)
                     ELSE UpdateOrCreateGitProject(job.copy.projects, change)
     IN  IF change.kind = "delete" /\ projects = job.copy.projects
         THEN UNCHANGED <<devfile, version, disturbed>>
         ELSE Save([job.copy EXCEPT !.projects = projects], job.since)
  /\ chain' = Tail(chain)
  /\ job' = Idle
  /\ UNCHANGED <<view, backend, changes, wanted, unsure>>

\* Variant: without the catch, a rejection rejects all that was chained to it.
JobFailsAll ==
  /\ chain # <<>>
  /\ chain' = <<>>
  /\ job' = Idle
  /\ wanted' = LET path == Head(chain).path
               IN  IF \E i \in 2..Len(chain) : chain[i].path = path THEN wanted
                   ELSE Without(wanted, {path})
  /\ UNCHANGED <<devfile, version, view, backend, changes, ghosts>>

\* The rejection is logged by the next change of the chain, which goes on.
JobFails ==
  /\ chain # <<>>
  /\ chain' = Tail(chain)
  /\ job' = Idle
  /\ wanted' = LET path == Head(chain).path
               IN  IF \E i \in 2..Len(chain) : chain[i].path = path THEN wanted
                   ELSE Without(wanted, {path})
  /\ UNCHANGED <<devfile, version, view, backend, changes, ghosts>>

Next ==
  \/ \E c \in Calls, p \in Plugins :
       \/ InstallPlugin(c, p) \/ RemovePlugin(c, p)
       \/ \E metadata \in Range(Catalog[p]) : VersionChanged(c, p, metadata)
  \/ Filter \/ Remount
  \/ \E c \in Calls :
       \/ ListPlugins(c) \/ SetWorkspacePlugins(c) \/ UpdateDevfile(c)
       \/ Succeed(c) \/ Fail(c)
  \/ \E change \in Changes : Noticed(change)
  \/ GetDevfile \/ SaveProjects \/ JobFails

Spec == Init /\ [][Next]_vars

-----------------------------------------------------------------------------
(* Properties *)

\* The state has the shape the comments say.
TypeOK ==
  /\ version \in 0..(MaxCalls + MaxChanges)
  /\ calls \in 0..MaxCalls /\ changes \in 0..MaxChanges
  /\ \A p \in Plugins :
       /\ item[p].status \in {"not_installed", "installing", "installed", "removing"}
       /\ item[p].version \in Range(Catalog[p])
       /\ item[p].installed \in BOOLEAN
  /\ \A c \in Calls : call[c].phase \in {"idle", "list", "set", "save", "answer"}
  /\ Range(chain) \subseteq Changes /\ Len(chain) <= MaxChanges
  /\ job # Idle => chain # <<>> /\ job.since <= version
  /\ DOMAIN wanted \subseteq {change.path : change \in Changes}
  /\ disturbed \in BOOLEAN /\ unsure \in BOOLEAN

\* A save is a round trip of the whole devfile through version 2 and back
\* (get, updateDevfile), for a plugin or a project that is none of the others'
\* business: whatever the writers have made of the devfile by then, it drops
\* exactly what Kept drops, and rewrites exactly what Kept rewrites.
SavesKeepTheRest == RoundTrip(devfile) = Kept(devfile)

IdsOf(d) == {PluginId(c) : c \in Range(PluginComponents(DevfileV1toV2(d).components))}

\* One plugin call's effect on a devfile that has come back as `before`.
OnlyPlugins(request, before, after) ==
  LET old == IdsOf(before)
      gone == IF request.kind = "add" THEN {} ELSE {KeyBefore(request)}
      new == IF request.kind = "remove" THEN {} ELSE {request.after.key}
      others(d) == At(d.components, {i \in DOMAIN d.components : ~IsPlugin(d.components[i])})
  IN  /\ after = [before EXCEPT !.components = after.components]
      /\ others(after) = others(before)
      /\ IdsOf(after) = (old \ gone) \cup new
      /\ \A c \in Range(before.components) :
           IsPlugin(c) /\ IdsOf([before EXCEPT !.components = <<c>>])
                            \cap (gone \ new) = {}
             => c \in Range(after.components)

HasGit(project, change) ==
  /\ "source" \in DOMAIN project
  /\ project.source.type = "git" /\ project.source.location = change.url
  /\ \E i \in DOMAIN RevisionKinds :
       /\ RevisionKinds[i] \in DOMAIN project.source
       /\ project.source[RevisionKinds[i]] = change.branch

At_(d, path) == {p \in Range(d.projects) : PathOf(p) = path}

Recorded(d, change) ==
  IF change.kind = "delete" THEN At_(d, change.path) = {}
  ELSE At_(d, change.path) # {} /\ \A p \in At_(d, change.path) : HasGit(p, change)

OnlyProject(change, before, after) ==
  /\ after = [before EXCEPT !.projects = after.projects]
  /\ Recorded(after, change)
  /\ Range(after.projects) \ At_(after, change.path)
       = Range(before.projects) \ At_(before, change.path)

\* setWorkspacePlugins re-reads the devfile and makes an older list true in it;
\* DevfileServiceImpl changes projects of its own copy.  When no other save
\* landed since a writer began to read, its save changes what it was asked to
\* change and nothing else: other plugins keep their components and settings,
\* plugins leave projects alone and projects plugins.
SavesOneThing ==
  [][/\ \A c \in Calls :
          call[c].phase = "save" /\ call'[c].phase = "answer" /\ call[c].since = version
            => OnlyPlugins(call[c], Kept(devfile), devfile')
     /\ job # Idle /\ job' = Idle /\ version' # version /\ job.since = version
            => OnlyProject(Head(chain), Kept(devfile), devfile')]_vars

\* installedPlugins of the browser is a list of its own, changed after each
\* answer (install, remove, changeVersion): whatever was clicked while other
\* calls were under way, failed or were shown by items that are gone, it holds
\* no plugin of the catalog that the devfile does not have - unless two saves
\* crossed, two calls for one plugin overlapped (their answers may come in
\* either order) or an answer was lost, when nothing brings them together again.
InstalledIsThere ==
  ~disturbed /\ ~unsure /\ (\A c \in Calls : call[c].phase # "answer")
    => Range(installed) \cap {m.key : m \in Metadata} \subseteq IdsOf(devfile)

\* The chain of DevfileServiceImpl: when it is empty, the devfile says of each
\* project what the last change put on the chain said, past failures of earlier
\* ones and plugins that came and went meanwhile.
LastChangeWins ==
  ~disturbed /\ chain = <<>>
    => \A path \in DOMAIN wanted : Recorded(devfile, wanted[path])

\* che-plugin-manager.ts:470 "remove the plugin from workspace configuration":
\* when removePlugin has saved the devfile, the plugin is not in it.
RemovedFromConfiguration ==
  [][\A c \in Calls :
       call[c].phase = "save" /\ call'[c].phase = "answer" /\ call[c].kind = "remove"
         => call[c].before.key \notin IdsOf(devfile')]_vars

=============================================================================
