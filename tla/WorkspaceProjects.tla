--------------------------- MODULE WorkspaceProjects ---------------------------
(***************************************************************************)
(* The workspace plugin: it imports the projects of the devfile, makes     *)
(* every directory under the projects root a workspace folder, and keeps   *)
(* folders and devfile in step with the disk from then on.                 *)
(*                                                                         *)
(*  - WorkspaceProjectsManager.run() checks which projects are missing,    *)
(*    imports them all at once (theia-commands.ts), adds a folder for each *)
(*    and then installs two watchers;                                      *)
(*  - WorkspaceFolderUpdaterImpl performs one folder operation at a time   *)
(*    on a promise chain, and gives each 7 seconds for the editor's event; *)
(*  - DevfileServiceImpl records git projects on a chain of its own.       *)
(*    DevfileWriters models how it saves; here a save is one step.         *)
(*                                                                         *)
(* The editor is modelled from how it is used: it performs requests in     *)
(* order on its own list of folders, at the index the plugin computed from *)
(* the list the plugin knew, and reports what changed.                     *)
(***************************************************************************)
EXTENDS Naturals, Sequences, FiniteSets, SequencesExt

CONSTANTS Projects,   \* directories under the projects root
          Declared,   \* those of the devfile's projects, in order
          Import,     \* a declared one |-> [kind, secure, target]
          Upstream,   \* those with an upstream branch, once they are there
          MultiRoot,  \* metadata.attributes.multiRoot # 'off'
          Slots,      \* bound: handlers of events running at once
          MaxDisk,    \* bound: changes of the disk by the user
          MaxFaults   \* bound: operations that time out, are refused or fail,
                      \* folders the user removes

ASSUME ImportAssumption ==
  /\ IsFiniteSet(Projects) /\ Declared \in Seq(Projects)
  /\ \A p \in Range(Declared) :
       /\ Import[p].kind \in {"git", "zip"}
       /\ Import[p].secure \in BOOLEAN
       /\ Import[p].target \in Projects
  /\ MultiRoot \in BOOLEAN
  /\ MaxDisk \in Nat /\ MaxFaults \in Nat \ {0}

VARIABLES disk,       \* the directories that exist
          run,        \* how far run() has come
          toAdd,      \* declared projects run() has still to add
          import,     \* the import of each project
          chain,      \* folder operations; the first may be under way
          waiting,    \* it is: its listener and its timer are set
          known,      \* theia.workspace.workspaceFolders
          roots,      \* the editor's list
          requests,   \* updateWorkspaceFolders calls on their way
          events,     \* onDidChangeWorkspaceFolders events on their way
          fsEvents,   \* events of fs.watch on the projects root
          gitEvents,  \* events of the watcher of **/.git/{HEAD,config}
          handler,    \* handlers under way, one per slot
          jobs,       \* DevfileServiceImpl's chain
          recorded,   \* the projects the devfile has
          changes,    \* how often the disk changed
          faults,     \* how many faults there were
          seen,       \* history: the declared projects, and those whose last
                      \* change happened under the watch of fs.watch
          raced       \* history: those whose last change came between git's
                      \* last answer about them and the update it leads to

starting == <<run, toAdd, import>>
updater == <<chain, waiting>>
editor == <<known, roots, requests, events>>
watching == <<fsEvents, gitEvents, handler>>
service == <<jobs, recorded>>
bounds == <<changes, faults>>
history == <<seen, raced>>
vars == <<disk, starting, updater, editor, watching, service, bounds, history>>

Off == [phase |-> "off"]

AddFolder(p, by) == [kind |-> "add", path |-> p, by |-> by]
RemoveFolder(p, by) == [kind |-> "remove", path |-> p, by |-> by]

IsFolder(list, p) == \E i \in DOMAIN list : list[i] = p

\* The projects that exist when the workspace starts, and perhaps are folders.
Init ==
  /\ disk \in SUBSET Projects
  /\ roots \in {<<>>} \cup {SetToSeq(disk)}
  /\ known = roots
  /\ run = "start" /\ toAdd = <<>>
  /\ import = [p \in Range(Declared) |-> "none"]
  /\ chain = <<>> /\ waiting = FALSE
  /\ requests = <<>> /\ events = <<>>
  /\ fsEvents = <<>> /\ gitEvents = <<>>
  /\ handler = [s \in Slots |-> Off]
  /\ jobs = <<>>
  /\ recorded = Range(Declared)
  /\ changes = 0 /\ faults = 0
  /\ seen = Range(Declared) /\ raced = {}

Fault == faults < MaxFaults /\ faults' = faults + 1

-----------------------------------------------------------------------------
(* Importing (theia-commands.ts) *)

\* buildCloneCommands and the loop of executeCloneCommands: every import of a
\* missing project starts.  A secure address first needs a login that works.
BuildCloneCommands ==
  /\ run = "start"
  /\ import' = [p \in Range(Declared) |->
                  IF p \in disk THEN "none"
                  ELSE IF Import[p].secure THEN "login" ELSE "importing"]
  /\ run' = "importing"
  /\ UNCHANGED <<disk, toAdd, updater, editor, watching, service, bounds, history>>

SetImport(p, from, to) ==
  /\ import[p] = from
  /\ import' = [import EXCEPT ![p] = to]
  /\ UNCHANGED <<disk, run, toAdd, updater, editor, watching, service, history>>

\* TheiaGitCloneCommand.execute: the loop ends with a login, or when the user
\* closes the first question and skips in the second.
LoginSucceeds(p) == SetImport(p, "login", "importing") /\ UNCHANGED bounds
LoginFails(p) == SetImport(p, "login", "asking") /\ Fault /\ UNCHANGED changes
Retry(p) == SetImport(p, "asking", "login") /\ UNCHANGED bounds
Dismiss(p) == SetImport(p, "asking", "skipping") /\ UNCHANGED bounds
TryAgain(p) == SetImport(p, "skipping", "login") /\ UNCHANGED bounds
Skip(p) == SetImport(p, "skipping", "rejected") /\ UNCHANGED bounds

\* The path the command resolves to is that of the directory it made: a zip
\* goes to the project's name, whatever its clonePath.
ImportSucceeds(p) ==
  /\ import[p] = "importing"
  /\ Import[p].kind = "zip" => Import[p].target \notin disk   \* mkdirSync
  /\ disk' = disk \cup {Import[p].target}
  /\ IF MultiRoot
     THEN /\ chain' = Append(chain, AddFolder(Import[p].target, <<"import", p>>))
          /\ import' = [import EXCEPT ![p] = "adding"]
     ELSE /\ import' = [import EXCEPT ![p] = "done"]
          /\ UNCHANGED chain
  /\ UNCHANGED <<run, toAdd, waiting, editor, watching, service, bounds, history>>

\* A failed clone removes what it made.  A sparse checkout and a zip do not, nor
\* does a clone whose further remotes cannot be added (git is run in the projects
\* root, which is no repository).
ImportFails(p) ==
  /\ import[p] = "importing"
  /\ \/ Import[p].kind = "zip" /\ Import[p].target \in disk /\ UNCHANGED faults
     \/ Fault
  /\ import' = [import EXCEPT ![p] = "rejected"]
  /\ disk' \in {disk, disk \cup {Import[p].target}}
  /\ UNCHANGED <<run, toAdd, updater, editor, watching, service, changes, history>>

\* Promise.all: the first rejection rejects run(), which does nothing more.
ImportRejected ==
  /\ run = "importing"
  /\ \E p \in Range(Declared) : import[p] = "rejected"
  /\ run' = "rejected"
  /\ UNCHANGED <<disk, toAdd, import, updater, editor, watching, service, bounds, history>>

Imported ==
  /\ run = "importing"
  /\ \A p \in Range(Declared) : import[p] \in {"none", "done"}
  /\ run' = "adding"
  /\ toAdd' = IF MultiRoot THEN Declared ELSE <<>>
  /\ UNCHANGED <<disk, import, updater, editor, watching, service, bounds, history>>

\* The projects that were there already become folders, one after another.
AddExisting ==
  /\ run = "adding" /\ toAdd # <<>>
  /\ toAdd' = Tail(toAdd)
  /\ IF Head(toAdd) \in disk
     THEN /\ chain' = Append(chain, AddFolder(Head(toAdd), <<"run">>))
          /\ run' = "awaiting"
     ELSE UNCHANGED <<chain, run>>
  /\ UNCHANGED <<disk, import, waiting, editor, watching, service, bounds, history>>

\* watchWorkspaceProjects, then (after a look at the disk) watchMultiRootProjects.
WatchGit ==
  /\ run = "adding" /\ toAdd = <<>>
  /\ run' = IF MultiRoot THEN "watchingGit" ELSE "watching"
  /\ UNCHANGED <<disk, toAdd, import, updater, editor, watching, service, bounds, history>>

WatchRoot ==
  /\ run = "watchingGit"
  /\ run' = "watching"
  /\ UNCHANGED <<disk, toAdd, import, updater, editor, watching, service, bounds, history>>

GitWatched == run \in {"watchingGit", "watching"}
RootWatched == run = "watching" /\ MultiRoot

-----------------------------------------------------------------------------
(* WorkspaceFolderUpdaterImpl *)

\* The operation at the head of the chain is over; whoever awaits it goes on,
\* or is rejected: run() and an import reject, a handler ends.
Settle(ok) ==
  LET by == Head(chain).by
  IN  /\ chain' = Tail(chain)
      /\ waiting' = FALSE
      /\ run' = IF by = <<"run">> THEN IF ok THEN "adding" ELSE "rejected" ELSE run
      /\ import' = IF by[1] = "import"
                   THEN [import EXCEPT ![by[2]] = IF ok THEN "done" ELSE "rejected"]
                   ELSE import
      /\ IF by[1] # "event" THEN UNCHANGED <<handler, jobs>>
         ELSE IF ~ok
         THEN handler' = [handler EXCEPT ![by[2]] = Off] /\ UNCHANGED jobs
         ELSE IF Head(chain).kind = "add"
         THEN handler' = [handler EXCEPT ![by[2]].phase = "branch"] /\ UNCHANGED jobs
         ELSE /\ handler' = [handler EXCEPT ![by[2]] = Off]
              /\ jobs' = Append(jobs, [kind |-> "delete", path |-> Head(chain).path])
      /\ UNCHANGED <<disk, toAdd, fsEvents, gitEvents, recorded, changes, history>>

\* Nothing to do: the folder is there, or is not.
Needless(op) == IsFolder(known, op.path) = (op.kind = "add")

SkipOperation ==
  /\ chain # <<>> /\ ~waiting
  /\ Needless(Head(chain))
  /\ Settle(TRUE)
  /\ UNCHANGED <<editor, faults>>

\* The listener and the timer are set before the editor is asked.  The index is
\* that of the list the plugin knows; a new folder goes to its end.
Request(op) ==
  [kind |-> op.kind, path |-> op.path,
   index |-> IF op.kind = "add" THEN Len(known) + 1
             ELSE CHOOSE i \in DOMAIN known :
                    known[i] = op.path /\ \A j \in 1..(i - 1) : known[j] # op.path]

StartOperation ==
  /\ chain # <<>> /\ ~waiting
  /\ ~Needless(Head(chain))
  /\ waiting' = TRUE
  /\ requests' = Append(requests, Request(Head(chain)))
  /\ UNCHANGED <<disk, starting, chain, known, roots, events, watching, service,
                 bounds, history>>

\* Variant: the timer is left running.
RefuseLeavesTimer ==
  /\ chain # <<>> /\ ~waiting
  /\ ~Needless(Head(chain))
  /\ Fault
  /\ chain' = Tail(chain) /\ waiting' = TRUE
  /\ UNCHANGED <<disk, starting, editor, watching, service, changes, history>>

\* updateWorkspaceFolders returns false.
RefuseOperation ==
  /\ chain # <<>> /\ ~waiting
  /\ ~Needless(Head(chain))
  /\ Fault
  /\ Settle(FALSE)
  /\ UNCHANGED editor

\* Variant: the timer is cleared once the editor has taken the request.
TimeoutUntaken ==
  /\ waiting /\ requests # <<>>
  /\ faults' = IF faults < MaxFaults THEN faults + 1 ELSE faults
  /\ Settle(FALSE)
  /\ UNCHANGED editor

\* The timer: the listener is gone, what the editor was asked is not.  The
\* bound does not keep a timer from running out.
Timeout ==
  /\ waiting
  /\ faults' = IF faults < MaxFaults THEN faults + 1 ELSE faults
  /\ Settle(FALSE)
  /\ UNCHANGED editor

\* The event that tells of the operation's folder resolves it, whoever made it.
EventArrives ==
  /\ events # <<>>
  /\ known' = Head(events).roots
  /\ events' = Tail(events)
  /\ IF waiting /\ Head(chain).path \in Head(events)[Head(chain).kind]
     THEN Settle(TRUE) /\ UNCHANGED <<roots, requests, faults>>
     ELSE UNCHANGED <<disk, starting, updater, roots, requests, watching, service,
                      bounds, history>>

-----------------------------------------------------------------------------
(* The editor *)

Report(before, after) ==
  IF before = after THEN events
  ELSE Append(events, [roots |-> after,
                       add |-> Range(after) \ Range(before),
                       remove |-> Range(before) \ Range(after)])

\* spliceRoots at the requested index of the list as it is now; a folder that
\* is there already is not added twice.
EditorActs ==
  /\ requests # <<>>
  /\ LET request == Head(requests)
         at == IF request.index > Len(roots) THEN Len(roots) + 1 ELSE request.index
         after == CASE request.kind = "add" /\ ~IsFolder(roots, request.path) ->
                         InsertAt(roots, at, request.path)
                    [] request.kind = "remove" /\ request.index <= Len(roots) ->
                         RemoveAt(roots, request.index)
                    [] OTHER -> roots
     IN  /\ roots' = after
         /\ events' = Report(roots, after)
  /\ requests' = Tail(requests)
  /\ UNCHANGED <<disk, starting, updater, known, watching, service, bounds, history>>

UserRemovesFolder(p) ==
  /\ Fault
  /\ \E i \in DOMAIN roots : roots[i] = p /\ roots' = RemoveAt(roots, i)
  /\ events' = Report(roots, roots')
  /\ UNCHANGED <<disk, starting, updater, known, requests, watching, service,
                 changes, history>>

-----------------------------------------------------------------------------
(* The disk, and the watchers *)

Noticed(p, kind) ==
  /\ fsEvents' = IF RootWatched THEN Append(fsEvents, p) ELSE fsEvents
  /\ gitEvents' = IF GitWatched THEN Append(gitEvents, [kind |-> kind, path |-> p])
                  ELSE gitEvents
  /\ seen' = IF RootWatched THEN seen \cup {p} ELSE seen \ {p}
  /\ raced' = IF \E s \in Slots : handler[s].phase = "updating" /\ handler[s].path = p
              THEN raced \cup {p} ELSE raced \ {p}
  /\ changes' = changes + 1

CreateDirectory(p) ==
  /\ changes < MaxDisk /\ run # "start"
  /\ p \notin disk /\ \A q \in Range(Declared) :
                        Import[q].target = p => import[q] \in {"none", "done"}
  /\ disk' = disk \cup {p}
  /\ Noticed(p, "changed")
  /\ UNCHANGED <<starting, updater, editor, handler, service, faults>>

DeleteDirectory(p) ==
  /\ changes < MaxDisk /\ run # "start"
  /\ p \in disk
  /\ disk' = disk \ {p}
  /\ Noticed(p, "deleted")
  /\ UNCHANGED <<starting, updater, editor, handler, service, faults>>

\* Variant: an event of a path being handled is dropped.
FsEventOnce(s) ==
  /\ fsEvents # <<>> /\ handler[s] = Off
  /\ fsEvents' = Tail(fsEvents)
  /\ handler' = IF \E t \in Slots : handler[t] # Off /\ handler[t].path = Head(fsEvents)
                THEN handler
                ELSE [handler EXCEPT ![s] = [phase |-> "exists", path |-> Head(fsEvents)]]
  /\ UNCHANGED <<disk, starting, updater, editor, gitEvents, service, bounds, history>>

\* fs.watch: the handler starts with a look at the disk.
FsEvent(s) ==
  /\ fsEvents # <<>> /\ handler[s] = Off
  /\ fsEvents' = Tail(fsEvents)
  /\ handler' = [handler EXCEPT ![s] = [phase |-> "exists", path |-> Head(fsEvents)]]
  /\ UNCHANGED <<disk, starting, updater, editor, gitEvents, service, bounds, history>>

\* pathExists, and what follows at once when it says no.
Exists(s) ==
  LET p == handler[s].path
  IN  /\ handler[s].phase = "exists"
      /\ IF p \in disk
         THEN handler' = [handler EXCEPT ![s].phase = "directory"] /\ UNCHANGED chain
         ELSE /\ handler' = [handler EXCEPT ![s].phase = "removing"]
              /\ chain' = Append(chain, RemoveFolder(p, <<"event", s>>))
      /\ UNCHANGED <<disk, starting, waiting, editor, fsEvents, gitEvents, service,
                     bounds, history>>

\* lstat throws when the directory has gone meanwhile: an unhandled rejection.
IsDirectory(s) ==
  LET p == handler[s].path
  IN  /\ handler[s].phase = "directory"
      /\ IF p \in disk
         THEN /\ handler' = [handler EXCEPT ![s].phase = "adding"]
              /\ chain' = Append(chain, AddFolder(p, <<"event", s>>))
         ELSE handler' = [handler EXCEPT ![s] = Off] /\ UNCHANGED chain
      /\ UNCHANGED <<disk, starting, waiting, editor, fsEvents, gitEvents, service,
                     bounds, history>>

\* onDidCreate, onDidChange: onProjectChanged asks git first.  onDidDelete:
\* onProjectRemoved calls the devfile service at once.
GitEvent(s) ==
  /\ gitEvents # <<>>
  /\ gitEvents' = Tail(gitEvents)
  /\ LET event == Head(gitEvents)
     IN  IF event.kind = "deleted"
         THEN jobs' = Append(jobs, [kind |-> "delete", path |-> event.path])
              /\ UNCHANGED handler
         ELSE /\ handler[s] = Off
              /\ handler' = [handler EXCEPT ![s] = [phase |-> "branch", path |-> event.path]]
              /\ UNCHANGED jobs
  /\ UNCHANGED <<disk, starting, updater, editor, fsEvents, recorded, bounds, history>>

HandlerGoes(s, next) ==
  /\ handler' = [handler EXCEPT ![s] = next]
  /\ UNCHANGED <<disk, starting, updater, editor, fsEvents, gitEvents, service,
                 bounds, history>>

\* getUpstreamBranch asks git for the upstream branch.  Git fails where there
\* is no directory, and finds nothing where there is no upstream branch: the
\* devfile is left alone.
UpstreamBranch(s) ==
  LET p == handler[s].path
  IN  /\ handler[s].phase = "branch"
      /\ HandlerGoes(s, IF p \in disk \cap Upstream
                        THEN [phase |-> "remote", path |-> p] ELSE Off)

\* Variant: git's answer is taken for granted.
RemoteURLKnown(s) ==
  /\ handler[s].phase = "remote"
  /\ HandlerGoes(s, [phase |-> "updating", path |-> handler[s].path])

\* getRemoteURL asks a second time, and its failure is not caught: the handler
\* ends with it.
RemoteURL(s) ==
  LET p == handler[s].path
  IN  /\ handler[s].phase = "remote"
      /\ HandlerGoes(s, IF p \in disk THEN [phase |-> "updating", path |-> p] ELSE Off)

\* onProjectChanged goes on with git's answers, however old they are by now.
UpdateProject(s) ==
  /\ handler[s].phase = "updating"
  /\ handler' = [handler EXCEPT ![s] = Off]
  /\ jobs' = Append(jobs, [kind |-> "update", path |-> handler[s].path])
  /\ UNCHANGED <<disk, starting, updater, editor, fsEvents, gitEvents, recorded,
                 bounds, history>>

\* DevfileServiceImpl: the change at the head of its chain is saved, or fails.
UpdateDevfile ==
  /\ jobs # <<>>
  /\ jobs' = Tail(jobs)
  /\ \/ /\ recorded' = IF Head(jobs).kind = "update" THEN recorded \cup {Head(jobs).path}
                       ELSE recorded \ {Head(jobs).path}
        /\ UNCHANGED faults
     \/ Fault /\ UNCHANGED recorded
  /\ UNCHANGED <<disk, starting, updater, editor, watching, changes, history>>

-----------------------------------------------------------------------------

Importing ==
  \/ BuildCloneCommands \/ ImportRejected \/ Imported
  \/ \E p \in Range(Declared) :
       \/ LoginSucceeds(p) \/ LoginFails(p) \/ Retry(p) \/ Dismiss(p)
       \/ TryAgain(p) \/ Skip(p) \/ ImportSucceeds(p) \/ ImportFails(p)
  \/ AddExisting \/ WatchGit \/ WatchRoot

Updating == SkipOperation \/ StartOperation \/ RefuseOperation \/ Timeout

Handling ==
  \E s \in Slots : \/ FsEvent(s) \/ Exists(s) \/ IsDirectory(s)
                   \/ GitEvent(s) \/ UpstreamBranch(s) \/ RemoteURL(s)
                   \/ UpdateProject(s)

Next ==
  \/ Importing \/ Updating \/ EventArrives \/ EditorActs \/ Handling \/ UpdateDevfile
  \/ \E p \in Projects :
       UserRemovesFolder(p) \/ CreateDirectory(p) \/ DeleteDirectory(p)

\* What needs no user: callbacks and timers run, the editor and the disk
\* answer, and an import ends.
Spec ==
  /\ Init /\ [][Next]_vars
  /\ WF_vars(Updating) /\ WF_vars(EventArrives) /\ WF_vars(EditorActs)

-----------------------------------------------------------------------------
(* Properties *)

\* The state has the shape the comments say.
TypeOK ==
  /\ disk \subseteq Projects /\ recorded \subseteq Projects
  /\ seen \subseteq Projects /\ raced \subseteq Projects
  /\ run \in {"start", "importing", "adding", "awaiting", "watchingGit", "watching",
             "rejected"}
  /\ \A p \in Range(Declared) :
       import[p] \in {"none", "login", "asking", "skipping", "importing", "adding",
                     "done", "rejected"}
  /\ \A i \in DOMAIN chain : chain[i].kind \in {"add", "remove"}
                             /\ chain[i].path \in Projects
  /\ waiting => chain # <<>>
  /\ \A s \in Slots : handler[s].phase \in {"off", "exists", "directory", "adding",
                                           "removing", "branch", "remote", "updating"}
  /\ Range(roots) \cup Range(known) \cup Range(fsEvents) \subseteq Projects
  /\ changes \in 0..MaxDisk /\ faults \in 0..MaxFaults

\* Nothing is under way and nothing has gone wrong since the start.
Calm ==
  /\ run = "watching" /\ MultiRoot /\ faults = 0
  /\ chain = <<>> /\ requests = <<>> /\ events = <<>> /\ jobs = <<>>
  /\ fsEvents = <<>> /\ gitEvents = <<>>
  /\ \A s \in Slots : handler[s] = Off

\* Imports, the additions of run() and the handlers of fs.watch queue folder
\* operations while directories come and go under them, and each operation
\* computes its index late (watchMultiRootProjects, executeCloneCommands,
\* WorkspaceFolderUpdaterImpl).  Whatever the order, once all is quiet the
\* folders of the editor are the directories that exist.
RootsFollowDisk ==
  Calm => \A p \in seen : IsFolder(roots, p) <=> p \in disk

\* Where the import makes another directory than the project's path.
Misplaced == {p \in Range(Declared) : Import[p].target # p}

\* The same for the devfile, which is told by two watchers: fs.watch after the
\* folder operation and two answers of git, the git watcher directly
\* (onProjectChanged, getUpstreamBranch, onProjectRemoved).  A deletion told
\* late never erases a project that is back.  An update told late brings back
\* one that is gone only where the directory went after git's last answer and
\* before the update of that answer was queued: nothing looks at the disk again.
DevfileFollowsDisk ==
  Calm => \A p \in seen \ Misplaced :
            /\ p \notin disk \cup raced => p \notin recorded
            /\ p \in disk \cap Upstream => p \in recorded

\* WorkspaceFolderUpdaterImpl: no operation holds up the chain for ever, even
\* when the editor's answer is about another folder, because the list changed
\* while it was asked, or never comes.
ChainSettles == chain # <<>> ~> chain = <<>>

=============================================================================
