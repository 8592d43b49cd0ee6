----------------------------- MODULE PluginCache -----------------------------
(***************************************************************************)
(* The plugins view: the list of the plugins that can be installed.        *)
(*                                                                         *)
(* One ChePluginServiceImpl serves every tab.  It loads the plugins of the *)
(* registries into its cache, one HTTP request after another, and tells    *)
(* its client, the tab that connected last, how far it is.  Several        *)
(* updates may be under way, of one tab or of several; the cache is one.   *)
(* The view of a tab (ChePluginView) asks for an update through its        *)
(* ChePluginManager, waits for the notification that it is complete, and   *)
(* then asks for the plugins that match its filter.                        *)
(*                                                                         *)
(* The special filters @installed and @builtin are left out, and so is the *)
(* notification of sizes, which only a progress bar shows.                 *)
(***************************************************************************)
EXTENDS Naturals, Sequences, FiniteSets, SequencesExt

CONSTANTS Tabs,       \* tabs of the browser
          MaxUpdates, \* bound: updates of the cache
          Default,    \* the default registry
          Custom,     \* the registries of the preferences and of the
                      \* devfile's plugins, in order
          Content,    \* registry |-> the list of its plugins
          Filters,    \* filters the user types; the empty one is ""
          Matches,    \* filter |-> the plugins it lets pass, no editors
          MaxEvents,  \* bound: changes of a filter or of the workspace's
                      \* plugins, requests to a registry that fail
          None

ASSUME CatalogAssumption ==
  /\ Tabs # {} /\ None \notin Tabs
  /\ Custom \in Seq(Range(Custom)) /\ Default \notin Range(Custom)
  /\ \A r \in {Default} \cup Range(Custom) : Content[r] \in Seq(UNION {Range(Content[q]) :
                                               q \in {Default} \cup Range(Custom)})
  /\ "" \in Filters /\ MaxEvents \in Nat /\ MaxUpdates \in Nat

VARIABLES open,            \* tabs that are connected
          client,          \* ChePluginServiceImpl.client
          defaultRegistry, \* whether the service knows it
          cachedPlugins,   \* the cache
          update,          \* the calls of updateCache
          status,          \* of each view
          filterString,
          plugins,         \* what the view shows
          stale,           \* history: views of tabs that came back and have
                           \* not asked for plugins since
          asking,          \* filters of getPlugins calls on their way
          toTab,           \* notifications and answers on their way to a tab
          events,
          latest,          \* history: the update that cleared the cache last
          missed           \* history: plugins an update could not load

service == <<client, defaultRegistry, cachedPlugins>>
view == <<status, filterString, plugins, stale>>
channels == <<asking, toTab>>
history == <<latest, missed>>
vars == <<open, service, update, view, channels, events, history>>

Updates == 1..MaxUpdates

Idle == [phase |-> "idle", tab |-> None, registries |-> <<>>, todo |-> <<>>,
         list |-> <<>>, awaits |-> None]

\* One tab is connected.
Init ==
  /\ open = {CHOOSE t \in Tabs : TRUE} /\ client \in open
  /\ defaultRegistry = FALSE /\ cachedPlugins = <<>>
  /\ update = [u \in Updates |-> Idle]
  /\ status = [t \in Tabs |-> "updating_cache"]
  /\ filterString = [t \in Tabs |-> ""]
  /\ plugins = [t \in Tabs |-> <<>>] /\ stale = {}
  /\ asking = [t \in Tabs |-> <<>>] /\ toTab = [t \in Tabs |-> <<>>]
  /\ events = 0
  /\ latest = 0 /\ missed = [u \in Updates |-> {}]

Event == events < MaxEvents /\ events' = events + 1

-----------------------------------------------------------------------------
(* The tabs and ChePluginManager *)

\* setClient, for every connection; the view of a tab that comes back is as it
\* was.
ConnectTab(t) ==
  /\ t \notin open
  /\ open' = open \cup {t}
  /\ client' = t
  /\ UNCHANGED <<defaultRegistry, cachedPlugins, update, view, channels,
                 events, history>>

\* Variant: the service is not told.
CloseUnnoticed(t) ==
  /\ t \in open
  /\ open' = open \ {t}
  /\ asking' = [asking EXCEPT ![t] = <<>>]
  /\ toTab' = [toTab EXCEPT ![t] = <<>>]
  /\ stale' = stale \cup {t}
  /\ UNCHANGED <<service, update, status, filterString, plugins, events, history>>

\* What is left of a call that goes no further.
Ended(u, phase) == [Idle EXCEPT !.phase = phase, !.tab = update[u].tab]

Interrupted(u, t) ==
  \/ update[u].awaits = t
  \/ update[u].phase = "preparing" /\ update[u].tab = t

\* disconnectClient, whichever tab has gone: it was closed, or its connection
\* broke.  A call the service waits for in that tab is never answered, and no
\* answer reaches the tab.
CloseTab(t) ==
  /\ t \in open
  /\ open' = open \ {t}
  /\ client' = None
  /\ update' = [u \in Updates |->
                  [IF Interrupted(u, t) THEN Ended(u, "hung") ELSE update[u]
                     EXCEPT !.tab = IF @ = t THEN None ELSE @]]
  /\ asking' = [asking EXCEPT ![t] = <<>>]
  /\ toTab' = [toTab EXCEPT ![t] = <<>>]
  /\ stale' = stale \cup {t}
  /\ UNCHANGED <<defaultRegistry, cachedPlugins, status, filterString, plugins, events,
                 history>>

\* The view is shown for the first time, refreshed, or told that the list of
\* registries changed.
UpdateCache(u, t) ==
  /\ t \in open /\ update[u] = Idle /\ \A v \in 1..(u - 1) : update[v] # Idle
  /\ status' = [status EXCEPT ![t] = "updating_cache"]
  /\ update' = [update EXCEPT ![u] = [Idle EXCEPT !.phase = "preparing", !.tab = t]]
  /\ UNCHANGED <<open, service, filterString, plugins, stale, channels, events, history>>

\* ChePluginManager.registryList: the registries of the preferences are in it
\* once they are restored, and come and go with the preferences.
RegistryLists == {<<Default>>, <<Default>> \o Custom}

Reply(t, message) == IF t \in open THEN [toTab EXCEPT ![t] = Append(@, message)] ELSE toTab

\* The promise is rejected: the tab that asked is told.
Reject(u) ==
  /\ update' = [update EXCEPT ![u] = Ended(u, "rejected")]
  /\ toTab' = Reply(update[u].tab, [kind |-> "failed"])

\* ChePluginManager.updateCache asks for the default registry, unless it knows
\* it from a service that may have restarted since, and for the devfile; one of
\* them fails, or it sends the list.
Prepared(u) ==
  /\ update[u].phase = "preparing"
  /\ \/ /\ \E registries \in RegistryLists :
             update' = [update EXCEPT ![u].phase = "asked", ![u].registries = registries,
                                      ![u].todo = registries]
        /\ defaultRegistry' \in {defaultRegistry, TRUE}
        /\ UNCHANGED <<toTab, events>>
     \/ Event /\ Reject(u) /\ UNCHANGED defaultRegistry
  /\ UNCHANGED <<open, client, cachedPlugins, view, asking, history>>

-----------------------------------------------------------------------------
(* ChePluginServiceImpl.updateCache *)

\* A notification goes to the client of the moment, and is awaited.  Without a
\* client the call throws, and so do those of the handlers that catch it.
Notify(u, next) ==
  IF client = None THEN Reject(u)
  ELSE /\ update' = [update EXCEPT ![u] = [next EXCEPT !.awaits = client]]
       /\ toTab' = IF next.phase = "completing"
                   THEN [toTab EXCEPT ![client] = Append(@, [kind |-> "complete"])]
                   ELSE toTab

Loading(u) == [update[u] EXCEPT !.phase = "registries"]

\* The cache is cleared at once; without a client nothing is done.
Begin(u) ==
  /\ update[u].phase = "asked"
  /\ IF client = None
     THEN /\ update' = [update EXCEPT ![u] = Ended(u, "ignored")]
          /\ UNCHANGED <<cachedPlugins, toTab, latest>>
     ELSE /\ cachedPlugins' = <<>>
          /\ latest' = u
          /\ IF defaultRegistry THEN Notify(u, Loading(u))
             ELSE /\ update' = [update EXCEPT ![u].phase = "default"]
                  /\ UNCHANGED toTab
  /\ UNCHANGED <<open, client, defaultRegistry, view, asking, events,
                 missed>>

\* Variant: the cache is cleared after the await.
DefaultKnownThenClear(u) ==
  /\ update[u].phase = "default"
  /\ \/ /\ defaultRegistry' = TRUE /\ Notify(u, Loading(u))
        /\ cachedPlugins' = <<>> /\ UNCHANGED events
     \/ Event /\ Reject(u) /\ UNCHANGED <<defaultRegistry, cachedPlugins>>
  /\ UNCHANGED <<open, client, view, asking, history>>

\* getDefaultRegistry.
DefaultKnown(u) ==
  /\ update[u].phase = "default"
  /\ \/ defaultRegistry' = TRUE /\ Notify(u, Loading(u)) /\ UNCHANGED events
     \/ Event /\ Reject(u) /\ UNCHANGED defaultRegistry
  /\ UNCHANGED <<open, client, cachedPlugins, view, asking, history>>

Ready(u, phase) == update[u].phase = phase /\ update[u].awaits = None

\* The registry after this one.
NextRegistry(u) == [update[u] EXCEPT !.phase = "registries", !.todo = Tail(@), !.list = <<>>]

\* Variant: the update ends with an invalid registry.
LoadUntilInvalid(u) ==
  /\ Ready(u, "registries") /\ update[u].todo # <<>>
  /\ LET r == Head(update[u].todo)
     IN  \/ /\ Notify(u, IF Content[r] = <<>> THEN NextRegistry(u)
                         ELSE [update[u] EXCEPT !.phase = "plugins", !.list = Content[r]])
            /\ UNCHANGED <<events, missed>>
         \/ /\ Event
            /\ update' = [update EXCEPT ![u].phase = "complete"]
            /\ UNCHANGED <<toTab, missed>>
  /\ UNCHANGED <<open, service, view, asking, latest>>

\* loadPluginList; an invalid registry is notified, and skipped.
LoadPluginList(u) ==
  /\ Ready(u, "registries") /\ update[u].todo # <<>>
  /\ LET r == Head(update[u].todo)
     IN  \/ /\ Notify(u, IF Content[r] = <<>> THEN NextRegistry(u)
                         ELSE [update[u] EXCEPT !.phase = "plugins", !.list = Content[r]])
            /\ UNCHANGED <<events, missed>>
         \/ /\ Event
            /\ Notify(u, NextRegistry(u))
            /\ missed' = [missed EXCEPT ![u] = @ \cup Range(Content[r])]
  /\ UNCHANGED <<open, service, view, asking, latest>>

\* loadPluginMetadata; an invalid plugin is notified, and skipped.
LoadPluginMetadata(u) ==
  /\ Ready(u, "plugins")
  /\ LET p == Head(update[u].list)
         next == IF Len(update[u].list) = 1 THEN NextRegistry(u)
                 ELSE [update[u] EXCEPT !.list = Tail(@)]
     IN  /\ Notify(u, next)
         /\ \/ cachedPlugins' = Append(cachedPlugins, p) /\ UNCHANGED <<events, missed>>
            \/ /\ Event
               /\ missed' = [missed EXCEPT ![u] = @ \cup {p}]
               /\ UNCHANGED cachedPlugins
  /\ UNCHANGED <<open, client, defaultRegistry, view, asking, latest>>

CachingComplete(u) ==
  /\ Ready(u, "registries") /\ update[u].todo = <<>>
  /\ Notify(u, [update[u] EXCEPT !.phase = "completing"])
  /\ UNCHANGED <<open, service, view, asking, events, history>>

\* The tab answers a notification.
NotificationAnswered(u) ==
  /\ update[u].awaits # None /\ update[u].phase # "hung"
  /\ update' = [update EXCEPT ![u].awaits = None,
                              ![u].phase = IF @ = "completing" THEN "complete" ELSE @]
  /\ UNCHANGED <<open, service, view, channels, events, history>>

\* getPlugins: a copy of the cache as it is, filtered.
Matching(list, f) == SelectSeq(list, LAMBDA p : p \in Matches[f])

Filtered(f) == Matching(cachedPlugins, f)

GetPlugins(t) ==
  /\ asking[t] # <<>>
  /\ asking' = [asking EXCEPT ![t] = Tail(@)]
  /\ toTab' = [toTab EXCEPT ![t] = Append(@, [kind |-> "plugins",
                                              plugins |-> Filtered(Head(asking[t]))])]
  /\ UNCHANGED <<open, service, update, view, events, history>>

-----------------------------------------------------------------------------
(* ChePluginView *)

Filter(t, f) ==
  /\ asking' = [asking EXCEPT ![t] = Append(@, f)]
  /\ stale' = stale \ {t}

\* onFilterChanged remembers the text and filters only when it may.
FilterChanged(t, f) ==
  /\ t \in open /\ Event
  /\ filterString' = [filterString EXCEPT ![t] = f]
  /\ IF status[t] = "filtering" THEN Filter(t, f) ELSE UNCHANGED <<asking, stale>>
  /\ UNCHANGED <<open, service, update, status, plugins, toTab, history>>

\* onWorkspaceConfigurationChanged filters in any state.
ConfigurationChanged(t) ==
  /\ t \in open /\ Event
  /\ Filter(t, filterString[t])
  /\ UNCHANGED <<open, service, update, status, filterString, plugins, toTab, history>>

\* Variant: the text of the filter stays.
CompleteKeepsText(t, message) ==
  /\ message.kind = "complete"
  /\ status' = [status EXCEPT ![t] = "filtering"]
  /\ Filter(t, "")
  /\ UNCHANGED <<filterString, plugins>>

OnCachingComplete(t, message) ==
  /\ message.kind = "complete"
  /\ status' = [status EXCEPT ![t] = "filtering"]
  /\ filterString' = [filterString EXCEPT ![t] = ""]
  /\ Filter(t, "")
  /\ UNCHANGED plugins

OnFailed(t, message) ==
  /\ message.kind = "failed"
  /\ status' = [status EXCEPT ![t] = "failed"]
  /\ UNCHANGED <<filterString, plugins, asking, stale>>

OnPlugins(t, message) ==
  /\ message.kind = "plugins"
  /\ plugins' = [plugins EXCEPT ![t] = message.plugins]
  /\ UNCHANGED <<status, filterString, asking, stale>>

TabReceives(t) ==
  /\ toTab[t] # <<>>
  /\ toTab' = [toTab EXCEPT ![t] = Tail(@)]
  /\ LET message == Head(toTab[t])
     IN  OnCachingComplete(t, message) \/ OnFailed(t, message) \/ OnPlugins(t, message)
  /\ UNCHANGED <<open, service, update, events, history>>

-----------------------------------------------------------------------------

Serve(u) == \/ Prepared(u) \/ Begin(u) \/ DefaultKnown(u)
            \/ LoadPluginList(u) \/ LoadPluginMetadata(u)
            \/ CachingComplete(u) \/ NotificationAnswered(u)

Working ==
  \/ \E u \in Updates : Serve(u)
  \/ \E t \in Tabs : GetPlugins(t) \/ TabReceives(t)

Next ==
  \/ Working
  \/ \E t \in Tabs : \/ ConnectTab(t) \/ CloseTab(t) \/ ConfigurationChanged(t)
                     \/ \E f \in Filters : FilterChanged(t, f)
                     \/ \E u \in Updates : UpdateCache(u, t)

\* Requests to a registry end, well or not; tabs and the service answer.
Spec == Init /\ [][Next]_vars /\ WF_vars(Working)

-----------------------------------------------------------------------------
(* Properties *)

\* The state has the shape the comments say; the service's client is connected,
\* and it waits for nobody who is not.
TypeOK ==
  /\ open \subseteq Tabs /\ client \in open \cup {None}
  /\ \A u \in Updates :
       /\ update[u].phase \in {"idle", "preparing", "asked", "default", "registries",
                               "plugins", "completing", "complete", "rejected", "ignored",
                               "hung"}
       /\ update[u].phase = "plugins" => update[u].list # <<>>
       /\ update[u].awaits \notin open \cup {None} => update[u].phase = "hung"
  /\ \A t \in Tabs :
       /\ status[t] \in {"updating_cache", "filtering", "failed"}
       /\ filterString[t] \in Filters
       /\ toTab[t] # <<>> \/ asking[t] # <<>> => t \in open
  /\ stale \subseteq Tabs /\ events \in 0..MaxEvents

Plugins(registries) == UNION {Range(Content[r]) : r \in Range(registries)}

\* updateCache of several tabs clears and fills one cache, with an await after
\* every request.  Whatever they do to each other, the update that cleared the
\* cache last has everything it could load in it when it is complete.
CacheComplete ==
  latest # 0 /\ update[latest].phase = "complete" =>
    Plugins(update[latest].registries) \ missed[latest] \subseteq Range(cachedPlugins)

\* The view of the service's client shows the cache as its filter lets it pass,
\* once nothing is under way: no answer to an older question, and none that
\* was given while an update was filling the cache, is what it stays with
\* (onCachingComplete, filter).  A tab that came back shows what it showed until
\* it asks again.
ViewShowsCache ==
  \A t \in Tabs :
    /\ client = t /\ t \notin stale /\ status[t] = "filtering"
    /\ asking[t] = <<>> /\ toTab[t] = <<>>
    /\ \A u \in Updates : update[u].phase \in {"idle", "complete", "rejected", "ignored"}
    => plugins[t] = Filtered(filterString[t])

Waiting(t) ==
  /\ client = t /\ status[t] = "updating_cache"
  /\ \E u \in Updates : update[u].tab = t /\ update[u].phase # "idle"

\* The view of a tab that is the service's client from its question on does not
\* stay at "updating_cache", whatever fails and whoever else updates the cache.
ViewSettles == []<>(\A t \in Tabs : ~Waiting(t))

=============================================================================
