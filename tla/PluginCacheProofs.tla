--------------------------- MODULE PluginCacheProofs ---------------------------
(***************************************************************************)
(* However many tabs update the plugin cache at once, the update that      *)
(* cleared it last leaves in it all it could load, for any registries; and *)
(* what the views ask and are told ends with the cache in the view of the  *)
(* service's client, for any registries and filters.                       *)
(***************************************************************************)
EXTENDS PluginCache, SequenceTheorems, TLAPS

Registries == {Default} \cup Range(Custom)

Universe == UNION {Range(Content[q]) : q \in Registries}

Phases == {"idle", "preparing", "asked", "default", "registries", "plugins", "completing",
           "complete", "rejected", "ignored", "hung"}

Call == [phase : Phases, tab : Tabs \cup {None}, registries : Seq(Registries),
         todo : Seq(Registries), list : Seq(Universe), awaits : Tabs \cup {None}]

\* What the phase of a call says of its lists.
Shape(q) ==
  /\ q.phase \in {"asked", "default"} => q.todo = q.registries
  /\ q.phase \in {"preparing", "asked", "default", "registries"} => q.list = <<>>
  /\ q.phase = "plugins" => q.list # <<>> /\ q.todo # <<>>
  /\ q.phase \in {"completing", "complete"} => q.todo = <<>> /\ q.list = <<>>

\* Functions that are changed at one place, whatever they hold.
Maps ==
  /\ status = [t \in Tabs |-> status[t]] /\ filterString = [t \in Tabs |-> filterString[t]]
  /\ asking = [t \in Tabs |-> asking[t]] /\ toTab = [t \in Tabs |-> toTab[t]]
  /\ missed = [u \in Updates |-> missed[u]]

CallsInv ==
  /\ update \in [Updates -> Call] /\ \A u \in Updates : Shape(update[u])
  /\ cachedPlugins \in Seq(Universe)

\* What a call has still to load.
Pending(q) ==
  Range(q.list) \cup Plugins(IF q.phase = "plugins" THEN Tail(q.todo) ELSE q.todo)

Progressing == {"default", "registries", "plugins", "completing", "complete"}

\* CacheComplete, said of an update that is still on its way.
Covered(u) ==
  update[u].phase \in Progressing =>
    Plugins(update[u].registries) \subseteq
      missed[u] \cup Range(cachedPlugins) \cup Pending(update[u])

LatestInv == latest \in Updates \cup {0} /\ (latest # 0 => Covered(latest))

CacheInv == TypeOK /\ Maps /\ CallsInv /\ LatestInv

------------------------------------------------------------------------------
(* Sequences. *)

LEMMA RangeAppend ==
  ASSUME NEW S, NEW s \in Seq(S), NEW x \in S
  PROVE  Append(s, x) \in Seq(S) /\ Range(Append(s, x)) = Range(s) \cup {x}
<1>1. Append(s, x) \in Seq(S) /\ Len(Append(s, x)) = Len(s) + 1 /\ Len(s) \in Nat
  OBVIOUS
<1>2. \A i \in 1..Len(s) : Append(s, x)[i] = s[i]
  OBVIOUS
<1>3. Append(s, x)[Len(s) + 1] = x
  OBVIOUS
<1>4. DOMAIN Append(s, x) = 1..(Len(s) + 1) /\ DOMAIN s = 1..Len(s)
  BY <1>1
<1>5. ASSUME NEW y \in Range(Append(s, x)) PROVE y \in Range(s) \cup {x}
  <2>1. PICK i \in 1..(Len(s) + 1) : y = Append(s, x)[i]
    BY <1>4 DEF Range
  <2>2. i \in 1..Len(s) \/ i = Len(s) + 1
    BY <1>1
  <2> QED BY <2>1, <2>2, <1>2, <1>3, <1>4 DEF Range
<1>6. ASSUME NEW y \in Range(s) \cup {x} PROVE y \in Range(Append(s, x))
  <2>1. CASE y \in Range(s)
    <3>1. PICK i \in 1..Len(s) : y = s[i]
      BY <2>1, <1>4 DEF Range
    <3>2. i \in 1..(Len(s) + 1)
      BY <1>1
    <3> QED BY <3>1, <3>2, <1>2, <1>4 DEF Range
  <2>2. CASE y = x
    <3>1. Len(s) + 1 \in 1..(Len(s) + 1)
      BY <1>1
    <3> QED BY <2>2, <3>1, <1>3, <1>4 DEF Range
  <2> QED BY <2>1, <2>2
<1> QED BY <1>1, <1>5, <1>6

LEMMA RangeTail ==
  ASSUME NEW S, NEW s \in Seq(S), s # <<>>
  PROVE  /\ Head(s) \in S /\ Tail(s) \in Seq(S)
         /\ Range(s) = {Head(s)} \cup Range(Tail(s))
<1>1. Len(s) \in Nat \ {0} /\ DOMAIN s = 1..Len(s)
  OBVIOUS
<1>2. /\ Head(s) \in S /\ Tail(s) \in Seq(S) /\ Head(s) = s[1]
      /\ Len(Tail(s)) = Len(s) - 1
      /\ DOMAIN Tail(s) = 1..(Len(s) - 1)
      /\ \A i \in 1..(Len(s) - 1) : Tail(s)[i] = s[i + 1]
  OBVIOUS
<1>3. ASSUME NEW y \in Range(s) PROVE y \in {Head(s)} \cup Range(Tail(s))
  <2>1. PICK i \in 1..Len(s) : y = s[i]
    BY <1>1 DEF Range
  <2>2. CASE i = 1
    BY <2>1, <2>2, <1>2
  <2>3. CASE i # 1
    <3>1. i - 1 \in 1..(Len(s) - 1) /\ i - 1 + 1 = i
      BY <1>1, <2>3
    <3>2. Tail(s)[i - 1] = s[i]
      BY <3>1, <1>2
    <3> QED BY <2>1, <3>1, <3>2, <1>2 DEF Range
  <2> QED BY <2>2, <2>3
<1>4. ASSUME NEW y \in {Head(s)} \cup Range(Tail(s)) PROVE y \in Range(s)
  <2>1. CASE y = Head(s)
    <3>1. 1 \in 1..Len(s)
      BY <1>1
    <3> QED BY <2>1, <3>1, <1>1, <1>2 DEF Range
  <2>2. CASE y \in Range(Tail(s))
    <3>1. PICK i \in 1..(Len(s) - 1) : y = Tail(s)[i]
      BY <2>2, <1>2 DEF Range
    <3>2. i + 1 \in 1..Len(s)
      BY <1>1
    <3> QED BY <3>1, <3>2, <1>1, <1>2 DEF Range
  <2> QED BY <2>1, <2>2
<1> QED BY <1>2, <1>3, <1>4

LEMMA LastOfList ==
  ASSUME NEW S, NEW s \in Seq(S), s # <<>>
  PROVE  Len(s) = 1 <=> Tail(s) = <<>>
<1>1. Len(s) \in Nat \ {0} /\ Tail(s) \in Seq(S) /\ Len(Tail(s)) = Len(s) - 1
  BY HeadTailProperties, EmptySeq
<1>2. Tail(s) = <<>> => Len(Tail(s)) = 0
  BY EmptySeq
<1>3. Tail(s) # <<>> => Len(Tail(s)) \in Nat \ {0}
  BY <1>1, EmptySeq
<1> QED BY <1>1, <1>2, <1>3

LEMMA SeqOfMore ==
  ASSUME NEW S, NEW T, NEW s \in Seq(S), S \subseteq T
  PROVE  s \in Seq(T)
<1>1. s \in [1..Len(s) -> S] /\ Len(s) \in Nat
  OBVIOUS
<1>2. s \in [1..Len(s) -> T]
  BY <1>1
<1> QED BY <1>1, <1>2

LEMMA RangeEmpty == Range(<<>>) = {}
BY DEF Range

\* The plugins of a list of registries are those of its head and of the rest.
LEMMA PluginsTail ==
  ASSUME NEW todo \in Seq(Registries), todo # <<>>
  PROVE  /\ Head(todo) \in Registries /\ Tail(todo) \in Seq(Registries)
         /\ Plugins(todo) = Range(Content[Head(todo)]) \cup Plugins(Tail(todo))
<1>1. /\ Head(todo) \in Registries /\ Tail(todo) \in Seq(Registries)
      /\ Range(todo) = {Head(todo)} \cup Range(Tail(todo))
  BY RangeTail
<1>2. \A p : p \in Plugins(todo) <=> \E r \in Range(todo) : p \in Range(Content[r])
  BY DEF Plugins
<1>3. \A p : p \in Plugins(Tail(todo)) <=>
               \E r \in Range(Tail(todo)) : p \in Range(Content[r])
  BY DEF Plugins
<1> QED BY <1>1, <1>2, <1>3

LEMMA ContentType ==
  ASSUME NEW r \in Registries
  PROVE  Content[r] \in Seq(Universe)
BY CatalogAssumption DEF Universe, Registries

------------------------------------------------------------------------------
(* What a step of one call has to show. *)

LEMMA ServedTypes ==
  ASSUME CacheInv, NEW u \in Updates, NEW q \in Call, Shape(q),
         q.awaits \in open \cup {None} \/ q.phase = "hung",
         update' = [update EXCEPT ![u] = q],
         UNCHANGED <<open, client, status, filterString, asking, stale>>,
         toTab' = [t \in Tabs |-> toTab'[t]],
         \A t \in Tabs : toTab'[t] # <<>> => t \in open,
         events' \in 0..MaxEvents,
         missed' = [v \in Updates |-> missed'[v]],
         cachedPlugins' \in Seq(Universe)
  PROVE  TypeOK' /\ Maps' /\ CallsInv'
<1>1. \A v \in Updates : update'[v] = IF v = u THEN q ELSE update[v]
  BY DEF CacheInv, CallsInv
<1>2. update' \in [Updates -> Call]
  BY DEF CacheInv, CallsInv
<1>3. CallsInv'
  BY <1>1, <1>2 DEF CacheInv, CallsInv, Shape
<1>4. Maps'
  BY DEF CacheInv, Maps
<1>5. TypeOK'
  <2>1. /\ open' \subseteq Tabs /\ client' \in open' \cup {None}
        /\ stale' \subseteq Tabs
    BY DEF CacheInv, TypeOK
  <2>2. ASSUME NEW v \in Updates
        PROVE  /\ update'[v].phase \in Phases
               /\ update'[v].phase = "plugins" => update'[v].list # <<>>
               /\ update'[v].awaits \notin open' \cup {None} => update'[v].phase = "hung"
    <3>1. CASE v = u
      BY <1>1, <3>1 DEF Shape, Call
    <3>2. CASE v # u
      BY <1>1, <3>2 DEF CacheInv, TypeOK, CallsInv, Call
    <3> QED BY <3>1, <3>2
  <2>3. ASSUME NEW t \in Tabs
        PROVE  /\ status'[t] \in {"updating_cache", "filtering", "failed"}
               /\ filterString'[t] \in Filters
               /\ toTab'[t] # <<>> \/ asking'[t] # <<>> => t \in open'
    BY DEF CacheInv, TypeOK
  <2> QED BY <2>1, <2>2, <2>3 DEF TypeOK, Phases
<1> QED BY <1>3, <1>4, <1>5

LEMMA ServedCovered ==
  ASSUME CacheInv, NEW u \in Updates, NEW q \in Call,
         update' = [update EXCEPT ![u] = q], latest' = latest,
         Range(cachedPlugins) \subseteq Range(cachedPlugins'),
         \A v \in Updates : missed[v] \subseteq missed'[v],
         q.phase \in Progressing =>
           /\ update[u].phase \in Progressing /\ q.registries = update[u].registries
           /\ missed[u] \cup Range(cachedPlugins) \cup Pending(update[u])
                \subseteq missed'[u] \cup Range(cachedPlugins') \cup Pending(q)
  PROVE  LatestInv'
<1>1. \A v \in Updates : update'[v] = IF v = u THEN q ELSE update[v]
  BY DEF CacheInv, CallsInv
<1>2. ASSUME latest # 0 PROVE Covered(latest)'
  <2>1. latest \in Updates /\ Covered(latest)
    BY <1>2 DEF CacheInv, LatestInv
  <2>2. CASE latest = u
    <3> HIDE DEF Progressing
    <3>1. update'[latest] = q
      BY <1>1, <2>1, <2>2
    <3> QED BY <2>1, <2>2, <3>1 DEF Covered, Pending, Plugins
  <2>3. CASE latest # u
    <3>1. update'[latest] = update[latest]
      BY <1>1, <2>1, <2>3
    <3>2. missed[latest] \subseteq missed'[latest]
      BY <2>1
    <3> QED BY <2>1, <3>1, <3>2 DEF Covered, Pending, Plugins
  <2> QED BY <2>2, <2>3
<1> QED BY <1>2 DEF CacheInv, LatestInv

LEMMA IdleType ==
  Idle \in Call /\ Idle.phase = "idle" /\ Idle.list = <<>> /\ Idle.awaits = None
<1>1. <<>> \in Seq(Registries) /\ <<>> \in Seq(Universe)
  BY EmptySeq
<1>2. "idle" \in Phases /\ None \in Tabs \cup {None}
  BY DEF Phases
<1> QED BY <1>1, <1>2 DEF Idle, Call

\* What is left of a call that goes no further.
LEMMA EndedType ==
  ASSUME CacheInv, NEW u \in Updates, NEW phase \in {"rejected", "ignored", "hung"}
  PROVE  /\ Ended(u, phase) \in Call /\ Shape(Ended(u, phase))
         /\ Ended(u, phase).phase = phase /\ Ended(u, phase).awaits = None
<1>1. update[u] \in Call
  BY DEF CacheInv, CallsInv
<1>2. Ended(u, phase) \in Call
  BY <1>1, IdleType DEF Ended, Call, Phases
<1>3. Ended(u, phase).phase = phase /\ Ended(u, phase).awaits = None
  BY IdleType DEF Ended, Call
<1> QED BY <1>2, <1>3 DEF Shape

\* A notification, or its failure.
LEMMA Notified ==
  ASSUME CacheInv, NEW u \in Updates, NEW next \in Call, Shape(next),
         update[u].phase # "hung", Notify(u, next), open' = open
  PROVE  \E q \in Call :
           /\ Shape(q) /\ q.awaits \in open \cup {None}
           /\ update' = [update EXCEPT ![u] = q]
           /\ q.phase = "rejected" \/ /\ q.phase = next.phase /\ q.todo = next.todo
                                      /\ q.list = next.list
                                      /\ q.registries = next.registries
           /\ toTab' = [t \in Tabs |-> toTab'[t]]
           /\ \A t \in Tabs : toTab'[t] # <<>> => t \in open
<1>1. CASE client = None
  <2> DEFINE q == Ended(u, "rejected")
  <2>2. q \in Call /\ Shape(q) /\ q.phase = "rejected" /\ q.awaits = None
    BY EndedType
  <2>3. update' = [update EXCEPT ![u] = q]
    BY <1>1 DEF Notify, Reject
  <2>4. toTab' = Reply(update[u].tab, [kind |-> "failed"])
    BY <1>1 DEF Notify, Reject
  <2>5. toTab' = [t \in Tabs |-> toTab'[t]] /\ \A t \in Tabs : toTab'[t] # <<>> => t \in open
    BY <2>4 DEF Reply, CacheInv, Maps, TypeOK
  <2> HIDE DEF q
  <2> QED BY <2>2, <2>3, <2>5
<1>2. CASE client # None
  <2> DEFINE q == [next EXCEPT !.awaits = client]
  <2>1. client \in open /\ client \in Tabs
    BY <1>2 DEF CacheInv, TypeOK
  <2>2. /\ q \in Call /\ q.awaits = client /\ q.phase = next.phase /\ q.todo = next.todo
        /\ q.list = next.list /\ q.registries = next.registries
    BY <2>1 DEF Call
  <2>3. update' = [update EXCEPT ![u] = q]
    BY <1>2 DEF Notify
  <2>4. \/ toTab' = [toTab EXCEPT ![client] = Append(@, [kind |-> "complete"])]
        \/ toTab' = toTab
    BY <1>2 DEF Notify
  <2>5. toTab' = [t \in Tabs |-> toTab'[t]] /\ \A t \in Tabs : toTab'[t] # <<>> => t \in open
    BY <2>1, <2>4 DEF CacheInv, Maps, TypeOK
  <2>6. Shape(q)
    BY <2>2 DEF Shape
  <2> HIDE DEF q
  <2> QED BY <2>1, <2>2, <2>3, <2>5, <2>6
<1> QED BY <1>1, <1>2

\* An update that is rejected.
LEMMA Rejected ==
  ASSUME CacheInv, NEW u \in Updates, update[u].phase # "hung", Reject(u)
  PROVE  \E q \in Call :
           /\ Shape(q) /\ q.awaits \in open \cup {None} /\ q.phase = "rejected"
           /\ update' = [update EXCEPT ![u] = q]
           /\ toTab' = [t \in Tabs |-> toTab'[t]]
           /\ \A t \in Tabs : toTab'[t] # <<>> => t \in open
<1> DEFINE q == Ended(u, "rejected")
<1>2. q \in Call /\ Shape(q) /\ q.phase = "rejected" /\ q.awaits = None
  BY EndedType
<1>3. update' = [update EXCEPT ![u] = q]
  BY DEF Reject
<1>4. toTab' = [t \in Tabs |-> toTab'[t]] /\ \A t \in Tabs : toTab'[t] # <<>> => t \in open
  BY DEF Reject, Reply, CacheInv, Maps, TypeOK
<1> HIDE DEF q
<1> QED BY <1>2, <1>3, <1>4

------------------------------------------------------------------------------
(* Every step keeps the invariant. *)

LEMMA Bounds == MaxEvents \in Nat
BY CatalogAssumption, Zenon

LEMMA NoFilter == "" \in Filters
BY CatalogAssumption, Zenon

LEMMA InitKeeps ==
  ASSUME Init
  PROVE  CacheInv
<1>1. open \subseteq Tabs /\ client \in open
  BY CatalogAssumption DEF Init
<1>2. update = [u \in Updates |-> Idle]
  BY DEF Init
<1>3. \A u \in Updates : Shape(update[u])
  BY <1>2, IdleType DEF Shape
<1>4. Maps
  BY DEF Init, Maps
<1>5. TypeOK
  <2>1. \A u \in Updates :
          /\ update[u].phase \in Phases
          /\ update[u].phase = "plugins" => update[u].list # <<>>
          /\ update[u].awaits \notin open \cup {None} => update[u].phase = "hung"
    BY <1>2, IdleType DEF Call
  <2>2. \A t \in Tabs :
          /\ status[t] \in {"updating_cache", "filtering", "failed"}
          /\ filterString[t] \in Filters
          /\ toTab[t] # <<>> \/ asking[t] # <<>> => t \in open
    BY NoFilter DEF Init
  <2>3. stale \subseteq Tabs /\ events \in 0..MaxEvents
    <3>1. events = 0 /\ stale = {}
      BY DEF Init
    <3> QED BY <3>1, Bounds
  <2> QED BY <1>1, <2>1, <2>2, <2>3 DEF TypeOK, Phases
<1>6. CallsInv /\ LatestInv
  <2>1. update \in [Updates -> Call] /\ cachedPlugins \in Seq(Universe)
    BY <1>2, IdleType, EmptySeq DEF Init
  <2> QED BY <1>3, <2>1 DEF Init, CallsInv, LatestInv
<1> QED BY <1>4, <1>5, <1>6 DEF CacheInv

LEMMA EventBound ==
  ASSUME CacheInv, Event
  PROVE  events' \in 0..MaxEvents
BY Bounds DEF CacheInv, TypeOK, Event

LEMMA BeginKeeps ==
  ASSUME CacheInv, NEW u \in Updates, Begin(u)
  PROVE  CacheInv'
<1>1. update[u] \in Call /\ update[u].phase = "asked" /\ Shape(update[u])
      /\ update[u].awaits \in open \cup {None} /\ update[u].todo = update[u].registries
  BY DEF Begin, CacheInv, CallsInv, TypeOK, Shape
<1>2. open' = open /\ events' \in 0..MaxEvents /\ missed' = [v \in Updates |-> missed'[v]]
      /\ \A v \in Updates : missed'[v] = missed[v]
  BY DEF Begin, view, CacheInv, TypeOK, Maps
<1>3. CASE client = None
  <2> DEFINE q == Ended(u, "ignored")
  <2>1. q \in Call /\ Shape(q) /\ q.phase = "ignored" /\ q.awaits \in open \cup {None}
    BY EndedType
  <2>2. update' = [update EXCEPT ![u] = q] /\ cachedPlugins' = cachedPlugins
        /\ toTab' = toTab /\ latest' = latest
    BY <1>3 DEF Begin
  <2> HIDE DEF q
  <2>3. TypeOK' /\ Maps' /\ CallsInv'
    <3>1. cachedPlugins' \in Seq(Universe) /\ toTab' = [t \in Tabs |-> toTab'[t]]
          /\ \A t \in Tabs : toTab'[t] # <<>> => t \in open
      BY <2>2 DEF CacheInv, CallsInv, Maps, TypeOK
    <3> QED BY <2>1, <2>2, <3>1, <1>2, ServedTypes DEF Begin, view
  <2>4. LatestInv'
    BY <2>1, <2>2, <1>2, ServedCovered DEF Progressing
  <2> QED BY <2>3, <2>4 DEF CacheInv
<1>4. CASE client # None
  <2>1. cachedPlugins' = <<>> /\ latest' = u
    BY <1>4 DEF Begin
  <2>2. PICK q \in Call :
          /\ Shape(q) /\ q.awaits \in open \cup {None}
          /\ update' = [update EXCEPT ![u] = q]
          /\ q.phase \in {"rejected", "registries", "default"}
          /\ q.phase # "rejected" => q.todo = update[u].todo /\ q.registries = update[u].registries
          /\ toTab' = [t \in Tabs |-> toTab'[t]]
          /\ \A t \in Tabs : toTab'[t] # <<>> => t \in open
    <3>1. CASE defaultRegistry
      <4>1. Notify(u, Loading(u))
        BY <1>4, <3>1 DEF Begin
      <4>2. /\ Loading(u) \in Call /\ Loading(u).phase = "registries"
            /\ Loading(u).todo = update[u].todo
            /\ Loading(u).registries = update[u].registries
        BY <1>1 DEF Loading, Call, Phases
      <4>3. Shape(Loading(u))
        <5>1. Loading(u).list = <<>>
          BY <1>1 DEF Loading, Shape, Call
        <5> QED BY <4>2, <5>1 DEF Shape
      <4> QED BY <1>1, <1>2, <4>1, <4>2, <4>3, Notified
    <3>2. CASE ~defaultRegistry
      <4> DEFINE q == [update[u] EXCEPT !.phase = "default"]
      <4>1. q \in Call /\ q.phase = "default" /\ q.awaits = update[u].awaits
            /\ q.todo = update[u].todo /\ q.registries = update[u].registries
        BY <1>1 DEF Call, Phases
      <4>2. Shape(q)
        BY <1>1, <4>1 DEF Shape
      <4>3. update' = [update EXCEPT ![u] = q] /\ toTab' = toTab
        BY <1>4, <3>2 DEF Begin
      <4>4. toTab' = [t \in Tabs |-> toTab'[t]]
            /\ \A t \in Tabs : toTab'[t] # <<>> => t \in open
        BY <4>3 DEF CacheInv, Maps, TypeOK
      <4> HIDE DEF q
      <4> QED BY <1>1, <4>1, <4>2, <4>3, <4>4
    <3> QED BY <3>1, <3>2
  <2>3. TypeOK' /\ Maps' /\ CallsInv'
    <3>1. cachedPlugins' \in Seq(Universe)
      BY <2>1
    <3> QED BY <2>2, <3>1, <1>2, ServedTypes DEF Begin, view
  <2>4. LatestInv'
    <3>1. update'[u] = q
      BY <2>2 DEF CacheInv, CallsInv
    <3>2. q.phase \in Progressing => Plugins(q.registries) \subseteq Pending(q)
      BY <2>2, <1>1 DEF Pending, Progressing
    <3>3. Covered(u)'
      BY <3>1, <3>2 DEF Covered, Pending, Plugins
    <3> QED BY <2>1, <3>3 DEF LatestInv
  <2> QED BY <2>3, <2>4 DEF CacheInv
<1> QED BY <1>3, <1>4

LEMMA DefaultKnownKeeps ==
  ASSUME CacheInv, NEW u \in Updates, DefaultKnown(u)
  PROVE  CacheInv'
<1>1. update[u] \in Call /\ update[u].phase = "default" /\ Shape(update[u])
  BY DEF DefaultKnown, CacheInv, CallsInv
<1>2. PICK q \in Call :
        /\ Shape(q) /\ q.awaits \in open \cup {None}
        /\ update' = [update EXCEPT ![u] = q]
        /\ q.phase \in {"rejected", "registries"}
        /\ q.phase # "rejected" => /\ q.todo = update[u].todo /\ q.list = update[u].list
                                   /\ q.registries = update[u].registries
        /\ toTab' = [t \in Tabs |-> toTab'[t]]
        /\ \A t \in Tabs : toTab'[t] # <<>> => t \in open
  <2>1. CASE Notify(u, Loading(u))
    <3>1. /\ Loading(u) \in Call /\ Loading(u).phase = "registries"
          /\ Loading(u).todo = update[u].todo /\ Loading(u).list = update[u].list
          /\ Loading(u).registries = update[u].registries
      BY <1>1 DEF Loading, Call, Phases
    <3>2. Loading(u).list = <<>> /\ open' = open
      BY <1>1, <3>1 DEF Shape, DefaultKnown
    <3>3. Shape(Loading(u))
      BY <3>1, <3>2 DEF Shape
    <3> QED BY <1>1, <2>1, <3>1, <3>2, <3>3, Notified
  <2>2. CASE Reject(u)
    <3> QED BY <1>1, <2>2, Rejected
  <2> QED BY <2>1, <2>2 DEF DefaultKnown
<1>3. events' \in 0..MaxEvents
  BY EventBound DEF DefaultKnown, CacheInv, TypeOK
<1>4. /\ cachedPlugins' = cachedPlugins /\ latest' = latest /\ missed' = missed
      /\ UNCHANGED <<open, client, status, filterString, asking, stale>>
  BY DEF DefaultKnown, view, history
<1>5. cachedPlugins' \in Seq(Universe) /\ missed' = [v \in Updates |-> missed'[v]]
  BY <1>4 DEF CacheInv, CallsInv, Maps
<1>6. TypeOK' /\ Maps' /\ CallsInv'
  BY <1>2, <1>3, <1>4, <1>5, ServedTypes
<1>7. LatestInv'
  <2>1. q.phase \in Progressing => Pending(q) = Pending(update[u])
    BY <1>1, <1>2 DEF Pending, Progressing
  <2> QED BY <1>1, <1>2, <1>4, <2>1, ServedCovered DEF Progressing
<1> QED BY <1>6, <1>7 DEF CacheInv

\* The rest of the loop over the registries.
LEMMA NextRegistryType ==
  ASSUME CacheInv, NEW u \in Updates, update[u].todo # <<>>
  PROVE  /\ NextRegistry(u) \in Call /\ Shape(NextRegistry(u))
         /\ NextRegistry(u).phase = "registries" /\ NextRegistry(u).list = <<>>
         /\ NextRegistry(u).todo = Tail(update[u].todo)
         /\ NextRegistry(u).registries = update[u].registries
<1>1. update[u] \in Call
  BY DEF CacheInv, CallsInv
<1>2. Tail(update[u].todo) \in Seq(Registries)
  BY <1>1, PluginsTail DEF Call
<1>3. <<>> \in Seq(Universe)
  OBVIOUS
<1> QED BY <1>1, <1>2, <1>3 DEF NextRegistry, Call, Phases, Shape

LEMMA LoadListKeeps ==
  ASSUME CacheInv, NEW u \in Updates, LoadPluginList(u)
  PROVE  CacheInv'
<1> DEFINE r == Head(update[u].todo)
           loaded == [update[u] EXCEPT !.phase = "plugins", !.list = Content[r]]
           next == IF Content[r] = <<>> THEN NextRegistry(u) ELSE loaded
<1>1. /\ update[u] \in Call /\ update[u].phase = "registries" /\ update[u].todo # <<>>
      /\ Shape(update[u])
  BY DEF LoadPluginList, Ready, CacheInv, CallsInv
<1>2. /\ r \in Registries /\ Content[r] \in Seq(Universe)
      /\ Plugins(update[u].todo) = Range(Content[r]) \cup Plugins(Tail(update[u].todo))
  BY <1>1, PluginsTail, ContentType DEF Call
<1>3. /\ NextRegistry(u) \in Call /\ Shape(NextRegistry(u))
      /\ NextRegistry(u).phase = "registries" /\ NextRegistry(u).list = <<>>
      /\ NextRegistry(u).todo = Tail(update[u].todo)
      /\ NextRegistry(u).registries = update[u].registries
  BY <1>1, NextRegistryType
<1>4. Pending(NextRegistry(u)) = Plugins(Tail(update[u].todo))
  BY <1>3, RangeEmpty DEF Pending
<1>5. /\ loaded \in Call /\ loaded.phase = "plugins" /\ loaded.list = Content[r]
      /\ loaded.todo = update[u].todo /\ loaded.registries = update[u].registries
  BY <1>1, <1>2 DEF Call, Phases
<1>6. Pending(update[u]) = Plugins(update[u].todo)
  BY <1>1, RangeEmpty DEF Pending, Shape
<1>7. PICK q \in Call :
        /\ Shape(q) /\ q.awaits \in open \cup {None}
        /\ update' = [update EXCEPT ![u] = q]
        /\ q.phase # "rejected" => q.registries = update[u].registries
        /\ q.phase \in {"rejected", "registries", "plugins"}
        /\ q.phase # "rejected" =>
             Range(Content[r]) \cup Plugins(Tail(update[u].todo))
               \subseteq missed'[u] \cup Pending(q)
        /\ toTab' = [t \in Tabs |-> toTab'[t]]
        /\ \A t \in Tabs : toTab'[t] # <<>> => t \in open
        /\ \A v \in Updates : missed[v] \subseteq missed'[v]
        /\ missed' = [v \in Updates |-> missed'[v]]
        /\ events' \in 0..MaxEvents
  <2>1. CASE Notify(u, next) /\ UNCHANGED <<events, missed>>
    <3>1. next \in Call /\ Shape(next) /\ next.registries = update[u].registries
          /\ next.phase \in {"registries", "plugins"}
      BY <1>1, <1>3, <1>5 DEF Shape
    <3>2. Range(Content[r]) \cup Plugins(Tail(update[u].todo)) \subseteq Pending(next)
      <4>1. CASE Content[r] = <<>>
        BY <4>1, <1>4, RangeEmpty
      <4>2. CASE Content[r] # <<>>
        BY <4>2, <1>5 DEF Pending
      <4> QED BY <4>1, <4>2
    <3> HIDE DEF next
    <3>3. PICK q \in Call :
            /\ Shape(q) /\ q.awaits \in open \cup {None}
            /\ update' = [update EXCEPT ![u] = q]
            /\ q.phase = "rejected" \/ /\ q.phase = next.phase /\ q.todo = next.todo
                                       /\ q.list = next.list
                                       /\ q.registries = next.registries
            /\ toTab' = [t \in Tabs |-> toTab'[t]]
            /\ \A t \in Tabs : toTab'[t] # <<>> => t \in open
      <4>1. update[u].phase # "hung" /\ open' = open
        BY <1>1 DEF LoadPluginList
      <4> QED BY <2>1, <3>1, <4>1, Notified
    <3>4. q.phase # "rejected" => Pending(q) = Pending(next)
      BY <3>3 DEF Pending
    <3>5. missed' = missed /\ missed' = [v \in Updates |-> missed'[v]]
          /\ events' \in 0..MaxEvents
      BY <2>1 DEF CacheInv, Maps, TypeOK
    <3> QED BY <3>1, <3>2, <3>3, <3>4, <3>5
  <2>2. CASE /\ Event /\ Notify(u, NextRegistry(u))
             /\ missed' = [missed EXCEPT ![u] = @ \cup Range(Content[r])]
    <3>1. PICK q \in Call :
            /\ Shape(q) /\ q.awaits \in open \cup {None}
            /\ update' = [update EXCEPT ![u] = q]
            /\ q.phase = "rejected" \/ /\ q.phase = NextRegistry(u).phase
                                       /\ q.todo = NextRegistry(u).todo
                                       /\ q.list = NextRegistry(u).list
                                       /\ q.registries = NextRegistry(u).registries
            /\ toTab' = [t \in Tabs |-> toTab'[t]]
            /\ \A t \in Tabs : toTab'[t] # <<>> => t \in open
      <4>1. update[u].phase # "hung" /\ open' = open
        BY <1>1 DEF LoadPluginList
      <4> QED BY <1>3, <2>2, <4>1, Notified
    <3>2. q.phase # "rejected" => Pending(q) = Plugins(Tail(update[u].todo))
      BY <3>1, <1>3, <1>4 DEF Pending
    <3>3. /\ \A v \in Updates : missed[v] \subseteq missed'[v]
          /\ Range(Content[r]) \subseteq missed'[u]
          /\ missed' = [v \in Updates |-> missed'[v]]
      BY <2>2 DEF CacheInv, Maps
    <3>4. events' \in 0..MaxEvents
      BY <2>2, EventBound
    <3> QED BY <1>3, <3>1, <3>2, <3>3, <3>4
  <2> QED BY <2>1, <2>2 DEF LoadPluginList
<1>8. /\ cachedPlugins' = cachedPlugins /\ latest' = latest
      /\ UNCHANGED <<open, client, status, filterString, asking, stale>>
  BY DEF LoadPluginList, service, view
<1>9. cachedPlugins' \in Seq(Universe)
  BY <1>8 DEF CacheInv, CallsInv
<1>10. TypeOK' /\ Maps' /\ CallsInv'
  BY <1>7, <1>8, <1>9, ServedTypes
<1>11. LatestInv'
  <2>1. q.phase \in Progressing =>
          missed[u] \cup Range(cachedPlugins) \cup Pending(update[u])
            \subseteq missed'[u] \cup Range(cachedPlugins') \cup Pending(q)
    <3>1. q.phase \in Progressing => q.phase # "rejected"
      BY DEF Progressing
    <3>2. missed[u] \subseteq missed'[u]
      BY <1>7
    <3>3. Pending(update[u]) = Range(Content[r]) \cup Plugins(Tail(update[u].todo))
      BY <1>2, <1>6
    <3> HIDE DEF r
    <3> QED BY <1>7, <1>8, <3>1, <3>2, <3>3
  <2> QED BY <1>1, <1>7, <1>8, <2>1, ServedCovered DEF Progressing
<1> QED BY <1>10, <1>11 DEF CacheInv

LEMMA LoadMetadataKeeps ==
  ASSUME CacheInv, NEW u \in Updates, LoadPluginMetadata(u)
  PROVE  CacheInv'
<1> DEFINE p == Head(update[u].list)
           rest == [update[u] EXCEPT !.list = Tail(@)]
           next == IF Len(update[u].list) = 1 THEN NextRegistry(u) ELSE rest
<1>1. /\ update[u] \in Call /\ update[u].phase = "plugins" /\ update[u].todo # <<>>
      /\ update[u].list \in Seq(Universe) /\ update[u].list # <<>>
  BY DEF LoadPluginMetadata, Ready, CacheInv, CallsInv, Shape, Call
<1>2. /\ p \in Universe /\ Tail(update[u].list) \in Seq(Universe)
      /\ Range(update[u].list) = {p} \cup Range(Tail(update[u].list))
  BY <1>1, RangeTail
<1>3. /\ NextRegistry(u) \in Call /\ Shape(NextRegistry(u))
      /\ NextRegistry(u).phase = "registries" /\ NextRegistry(u).list = <<>>
      /\ NextRegistry(u).todo = Tail(update[u].todo)
      /\ NextRegistry(u).registries = update[u].registries
  BY <1>1, NextRegistryType
<1>4. /\ rest \in Call /\ rest.phase = "plugins" /\ rest.list = Tail(update[u].list)
      /\ rest.todo = update[u].todo /\ rest.registries = update[u].registries
  BY <1>1, <1>2 DEF Call
<1>5. Pending(update[u]) = {p} \cup Range(Tail(update[u].list)) \cup Plugins(Tail(update[u].todo))
  BY <1>1, <1>2 DEF Pending
<1>6. /\ next \in Call /\ Shape(next) /\ next.registries = update[u].registries
      /\ next.phase \in {"registries", "plugins"}
      /\ Pending(update[u]) \subseteq {p} \cup Pending(next)
  <2>1. CASE Len(update[u].list) = 1
    <3>1. Tail(update[u].list) = <<>>
      BY <1>1, <2>1, LastOfList
    <3>2. Pending(NextRegistry(u)) = Plugins(Tail(update[u].todo))
      BY <1>3, RangeEmpty DEF Pending
    <3> QED BY <2>1, <3>1, <3>2, <1>3, <1>5, RangeEmpty
  <2>2. CASE Len(update[u].list) # 1
    <3>1. Tail(update[u].list) # <<>>
      BY <1>1, <2>2, LastOfList
    <3>2. Pending(rest) = Range(Tail(update[u].list)) \cup Plugins(Tail(update[u].todo))
      BY <1>4 DEF Pending
    <3> QED BY <2>2, <3>1, <3>2, <1>1, <1>4, <1>5 DEF Shape
  <2> QED BY <2>1, <2>2
<1>7. Notify(u, next) /\ open' = open /\ update[u].phase # "hung"
  BY <1>1 DEF LoadPluginMetadata
<1> HIDE DEF next
<1>8. PICK q \in Call :
        /\ Shape(q) /\ q.awaits \in open \cup {None}
        /\ update' = [update EXCEPT ![u] = q]
        /\ q.phase = "rejected" \/ /\ q.phase = next.phase /\ q.todo = next.todo
                                   /\ q.list = next.list
                                   /\ q.registries = next.registries
        /\ toTab' = [t \in Tabs |-> toTab'[t]]
        /\ \A t \in Tabs : toTab'[t] # <<>> => t \in open
  BY <1>6, <1>7, Notified
<1>9. q.phase # "rejected" => Pending(q) = Pending(next)
  BY <1>8 DEF Pending
<1>10. /\ latest' = latest
       /\ UNCHANGED <<open, client, status, filterString, asking, stale>>
  BY DEF LoadPluginMetadata, view
<1>11. /\ cachedPlugins' \in Seq(Universe) /\ Range(cachedPlugins) \subseteq Range(cachedPlugins')
       /\ \A v \in Updates : missed[v] \subseteq missed'[v]
       /\ missed' = [v \in Updates |-> missed'[v]]
       /\ p \in missed'[u] \cup Range(cachedPlugins')
       /\ events' \in 0..MaxEvents
  <2>1. cachedPlugins \in Seq(Universe) /\ missed = [v \in Updates |-> missed[v]]
        /\ events \in 0..MaxEvents
    BY DEF CacheInv, CallsInv, Maps, TypeOK
  <2>2. CASE cachedPlugins' = Append(cachedPlugins, p) /\ UNCHANGED <<events, missed>>
    BY <1>2, <2>1, <2>2, RangeAppend
  <2>3. CASE Event /\ missed' = [missed EXCEPT ![u] = @ \cup {p}] /\ UNCHANGED cachedPlugins
    BY <2>1, <2>3, EventBound
  <2> QED BY <2>2, <2>3 DEF LoadPluginMetadata
<1>12. TypeOK' /\ Maps' /\ CallsInv'
  BY <1>8, <1>10, <1>11, ServedTypes
<1>13. LatestInv'
  <2>1. q.phase \in Progressing =>
          /\ update[u].phase \in Progressing /\ q.registries = update[u].registries
          /\ missed[u] \cup Range(cachedPlugins) \cup Pending(update[u])
               \subseteq missed'[u] \cup Range(cachedPlugins') \cup Pending(q)
    BY <1>1, <1>6, <1>8, <1>9, <1>11 DEF Progressing
  <2> QED BY <1>8, <1>10, <1>11, <2>1, ServedCovered
<1> QED BY <1>12, <1>13 DEF CacheInv

LEMMA CompleteKeeps ==
  ASSUME CacheInv, NEW u \in Updates, CachingComplete(u)
  PROVE  CacheInv'
<1> DEFINE next == [update[u] EXCEPT !.phase = "completing"]
<1>1. /\ update[u] \in Call /\ update[u].phase = "registries" /\ update[u].todo = <<>>
      /\ update[u].list = <<>>
  BY DEF CachingComplete, Ready, CacheInv, CallsInv, Shape
<1>2. /\ next \in Call /\ next.phase = "completing" /\ next.todo = <<>> /\ next.list = <<>>
      /\ next.registries = update[u].registries
  BY <1>1 DEF Call, Phases
<1>3. Shape(next)
  BY <1>2 DEF Shape
<1>4. Notify(u, next) /\ open' = open /\ update[u].phase # "hung"
  BY <1>1 DEF CachingComplete, service
<1> HIDE DEF next
<1>5. PICK q \in Call :
        /\ Shape(q) /\ q.awaits \in open \cup {None}
        /\ update' = [update EXCEPT ![u] = q]
        /\ q.phase = "rejected" \/ /\ q.phase = next.phase /\ q.todo = next.todo
                                   /\ q.list = next.list
                                   /\ q.registries = next.registries
        /\ toTab' = [t \in Tabs |-> toTab'[t]]
        /\ \A t \in Tabs : toTab'[t] # <<>> => t \in open
  BY <1>2, <1>3, <1>4, Notified
<1>6. /\ latest' = latest /\ cachedPlugins' = cachedPlugins /\ missed' = missed
      /\ events' = events
      /\ UNCHANGED <<open, client, status, filterString, asking, stale>>
  BY DEF CachingComplete, service, view, history
<1>7. /\ cachedPlugins' \in Seq(Universe) /\ missed' = [v \in Updates |-> missed'[v]]
      /\ events' \in 0..MaxEvents
  BY <1>6 DEF CacheInv, CallsInv, Maps, TypeOK
<1>8. TypeOK' /\ Maps' /\ CallsInv'
  BY <1>5, <1>6, <1>7, ServedTypes
<1>9. LatestInv'
  <2>1. q.phase \in Progressing => Pending(update[u]) \subseteq Pending(q)
    BY <1>1, <1>2, <1>5 DEF Pending, Progressing
  <2>2. q.phase \in Progressing =>
          update[u].phase \in Progressing /\ q.registries = update[u].registries
    BY <1>1, <1>2, <1>5 DEF Progressing
  <2> QED BY <1>5, <1>6, <2>1, <2>2, ServedCovered
<1> QED BY <1>8, <1>9 DEF CacheInv

LEMMA AnsweredKeeps ==
  ASSUME CacheInv, NEW u \in Updates, NotificationAnswered(u)
  PROVE  CacheInv'
<1> DEFINE q == [update[u] EXCEPT !.awaits = None,
                                  !.phase = IF @ = "completing" THEN "complete" ELSE @]
<1>1. update[u] \in Call /\ Shape(update[u]) /\ update[u].phase # "hung"
  BY DEF NotificationAnswered, CacheInv, CallsInv
<1>2. /\ q \in Call /\ q.awaits = None /\ q.list = update[u].list /\ q.todo = update[u].todo
      /\ q.phase = IF update[u].phase = "completing" THEN "complete" ELSE update[u].phase
      /\ q.registries = update[u].registries
  BY <1>1 DEF Call, Phases
<1>3. update' = [update EXCEPT ![u] = q]
  BY <1>1 DEF NotificationAnswered, CacheInv, CallsInv
<1>4. Shape(q)
  BY <1>1, <1>2 DEF Shape
<1> HIDE DEF q
<1>5. /\ latest' = latest /\ cachedPlugins' = cachedPlugins /\ missed' = missed
      /\ events' = events /\ toTab' = toTab
      /\ UNCHANGED <<open, client, status, filterString, asking, stale>>
  BY DEF NotificationAnswered, service, view, channels, history
<1>6. /\ cachedPlugins' \in Seq(Universe) /\ missed' = [v \in Updates |-> missed'[v]]
      /\ events' \in 0..MaxEvents /\ toTab' = [t \in Tabs |-> toTab'[t]]
      /\ \A t \in Tabs : toTab'[t] # <<>> => t \in open
  BY <1>5 DEF CacheInv, CallsInv, Maps, TypeOK
<1>7. TypeOK' /\ Maps' /\ CallsInv'
  BY <1>2, <1>3, <1>4, <1>5, <1>6, ServedTypes
<1>8. LatestInv'
  <2>1. q.phase \in Progressing => update[u].phase \in Progressing
    BY <1>1, <1>2 DEF Progressing
  <2>2. Pending(q) = Pending(update[u])
    BY <1>2 DEF Pending
  <2> QED BY <1>2, <1>3, <1>5, <2>1, <2>2, ServedCovered
<1> QED BY <1>7, <1>8 DEF CacheInv

LEMMA UpdateCacheKeeps ==
  ASSUME CacheInv, NEW u \in Updates, NEW t \in Tabs, UpdateCache(u, t)
  PROVE  CacheInv'
<1> DEFINE q == [Idle EXCEPT !.phase = "preparing", !.tab = t]
<1>3. q \in Call /\ q.phase = "preparing" /\ q.awaits = None /\ q.list = <<>>
  BY IdleType DEF Call, Phases
<1>4. Shape(q)
  BY <1>3 DEF Shape
<1>5. update' = [update EXCEPT ![u] = q]
  BY DEF UpdateCache
<1> HIDE DEF q
<1>6. /\ latest' = latest /\ cachedPlugins' = cachedPlugins /\ missed' = missed
      /\ events' = events /\ toTab' = toTab
      /\ status' = [status EXCEPT ![t] = "updating_cache"]
      /\ UNCHANGED <<open, client, filterString, asking, stale>>
  BY DEF UpdateCache, service, channels, history
<1>7. LatestInv'
  BY <1>3, <1>5, <1>6, ServedCovered DEF Progressing
<1>8. \A v \in Updates : update'[v] = IF v = u THEN q ELSE update[v]
  BY <1>5 DEF CacheInv, CallsInv
<1>9. CallsInv'
  BY <1>3, <1>4, <1>5, <1>6, <1>8 DEF CacheInv, CallsInv, Shape
<1>10. Maps'
  BY <1>6 DEF CacheInv, Maps
<1>11. TypeOK'
  BY <1>3, <1>6, <1>8 DEF CacheInv, TypeOK, Maps
<1> QED BY <1>7, <1>9, <1>10, <1>11 DEF CacheInv

LEMMA RegistryListsType == RegistryLists \subseteq Seq(Registries)
<1>1. Custom \in Seq(Registries)
  <2>1. Custom \in Seq(Range(Custom)) /\ Range(Custom) \subseteq Registries
    BY CatalogAssumption DEF Registries
  <2> QED BY <2>1, SeqOfMore
<1>2. Default \in Registries
  BY DEF Registries
<1>3. <<Default>> \in Seq(Registries)
  BY <1>2
<1>4. <<Default>> \o Custom \in Seq(Registries)
  BY <1>1, <1>3
<1> QED BY <1>3, <1>4 DEF RegistryLists

LEMMA PreparedKeeps ==
  ASSUME CacheInv, NEW u \in Updates, Prepared(u)
  PROVE  CacheInv'
<1>1. /\ update[u] \in Call /\ update[u].phase = "preparing" /\ Shape(update[u])
      /\ update[u].awaits \in open \cup {None} /\ update[u].list = <<>>
  BY DEF Prepared, CacheInv, CallsInv, TypeOK, Shape
<1>2. /\ latest' = latest /\ cachedPlugins' = cachedPlugins /\ missed' = missed
      /\ UNCHANGED <<open, client, status, filterString, asking, stale>>
  BY DEF Prepared, view, history
<1>3. events' \in 0..MaxEvents
  BY EventBound DEF Prepared, CacheInv, TypeOK
<1>4. PICK q \in Call :
        /\ Shape(q) /\ q.awaits \in open \cup {None} /\ q.phase \in {"asked", "rejected"}
        /\ update' = [update EXCEPT ![u] = q]
        /\ toTab' = [t \in Tabs |-> toTab'[t]]
        /\ \A t \in Tabs : toTab'[t] # <<>> => t \in open
  <2>1. CASE \E registries \in RegistryLists :
               /\ update' = [update EXCEPT ![u].phase = "asked",
                                           ![u].registries = registries,
                                           ![u].todo = registries]
               /\ UNCHANGED toTab
    <3>1. PICK registries \in RegistryLists :
               /\ update' = [update EXCEPT ![u].phase = "asked",
                                           ![u].registries = registries,
                                           ![u].todo = registries]
               /\ UNCHANGED toTab
      BY <2>1
    <3> DEFINE q == [update[u] EXCEPT !.phase = "asked", !.registries = registries,
                                      !.todo = registries]
    <3>2. registries \in Seq(Registries)
      BY RegistryListsType
    <3>3. /\ q \in Call /\ q.phase = "asked" /\ q.awaits = update[u].awaits
          /\ q.todo = q.registries /\ q.list = <<>>
      BY <1>1, <3>2 DEF Call, Phases
    <3>4. update' = [update EXCEPT ![u] = q]
      BY <3>1 DEF CacheInv, CallsInv
    <3> HIDE DEF q
    <3>5. Shape(q)
      BY <3>3 DEF Shape
    <3>6. /\ toTab' = [t \in Tabs |-> toTab'[t]]
          /\ \A t \in Tabs : toTab'[t] # <<>> => t \in open
      BY <3>1 DEF CacheInv, Maps, TypeOK
    <3> QED BY <1>1, <3>3, <3>4, <3>5, <3>6
  <2>2. CASE Reject(u)
    BY <1>1, <2>2, Rejected
  <2> QED BY <2>1, <2>2 DEF Prepared
<1>5. cachedPlugins' \in Seq(Universe) /\ missed' = [v \in Updates |-> missed'[v]]
  BY <1>2 DEF CacheInv, CallsInv, Maps
<1>6. TypeOK' /\ Maps' /\ CallsInv'
  BY <1>2, <1>3, <1>4, <1>5, ServedTypes
<1>7. LatestInv'
  BY <1>2, <1>4, ServedCovered DEF Progressing
<1> QED BY <1>6, <1>7 DEF CacheInv

\* A call that waits for the tab is at its end, another goes on.
LEMMA Closed ==
  ASSUME CacheInv, NEW t \in Tabs, CloseTab(t), NEW u \in Updates
  PROVE  \/ /\ update'[u] \in Call /\ update'[u].phase = "hung" /\ update'[u].awaits = None
         \/ /\ update[u].awaits # t
            /\ update'[u] \in Call /\ update'[u].phase = update[u].phase
            /\ update'[u].awaits = update[u].awaits /\ update'[u].list = update[u].list
            /\ update'[u].todo = update[u].todo
            /\ update'[u].registries = update[u].registries
<1>1. CASE Interrupted(u, t)
  <2>1. update'[u] = [Ended(u, "hung") EXCEPT !.tab = IF @ = t THEN None ELSE @]
    BY <1>1 DEF CloseTab
  <2>2. /\ Ended(u, "hung") \in Call /\ Ended(u, "hung").phase = "hung"
        /\ Ended(u, "hung").awaits = None
    BY EndedType
  <2> QED BY <2>1, <2>2 DEF Call
<1>2. CASE ~Interrupted(u, t)
  <2>1. update'[u] = [update[u] EXCEPT !.tab = IF @ = t THEN None ELSE @]
    BY <1>2 DEF CloseTab
  <2>2. update[u] \in Call
    BY DEF CacheInv, CallsInv
  <2> QED BY <1>2, <2>1, <2>2 DEF Call, Interrupted
<1> QED BY <1>1, <1>2

LEMMA CloseKeeps ==
  ASSUME CacheInv, NEW t \in Tabs, CloseTab(t)
  PROVE  CacheInv'
<1>1. \A u \in Updates :
        \/ /\ update'[u] \in Call /\ update'[u].phase = "hung" /\ update'[u].awaits = None
        \/ /\ update[u].awaits # t
           /\ update'[u] \in Call /\ update'[u].phase = update[u].phase
           /\ update'[u].awaits = update[u].awaits /\ update'[u].list = update[u].list
           /\ update'[u].todo = update[u].todo
           /\ update'[u].registries = update[u].registries
  BY Closed
<1>2. update' = [u \in Updates |-> update'[u]]
  BY DEF CloseTab
<1>3. CallsInv'
  <2>1. update' \in [Updates -> Call]
    BY <1>1, <1>2
  <2>2. \A u \in Updates : Shape(update'[u])
    BY <1>1, <1>2 DEF Shape, CacheInv, CallsInv
  <2> QED BY <2>1, <2>2 DEF CloseTab, CacheInv, CallsInv
<1>4. Maps'
  BY DEF CloseTab, CacheInv, Maps, history
<1>5. LatestInv'
  <2>1. latest' = latest /\ missed' = missed /\ cachedPlugins' = cachedPlugins
    BY DEF CloseTab, history
  <2>2. \A u \in Updates : update'[u].phase \in Progressing =>
          /\ update'[u].phase = update[u].phase /\ update'[u].list = update[u].list
          /\ update'[u].todo = update[u].todo
          /\ update'[u].registries = update[u].registries
    BY <1>1, <1>2 DEF Progressing
  <2>3. ASSUME latest # 0 PROVE Covered(latest)'
    <3>1. latest \in Updates /\ Covered(latest)
      BY <2>3 DEF CacheInv, LatestInv
    <3> QED BY <2>1, <2>2, <3>1 DEF Covered, Pending, Plugins
  <2> QED BY <2>1, <2>3 DEF CacheInv, LatestInv
<1>6. TypeOK'
  <2>1. \A u \in Updates :
          /\ update'[u].phase \in Phases
          /\ update'[u].phase = "plugins" => update'[u].list # <<>>
          /\ update'[u].awaits \notin open' \cup {None} => update'[u].phase = "hung"
    BY <1>1, <1>2 DEF CloseTab, CacheInv, TypeOK, CallsInv, Call
  <2>2. \A s \in Tabs :
          /\ status'[s] \in {"updating_cache", "filtering", "failed"}
          /\ filterString'[s] \in Filters
          /\ toTab'[s] # <<>> \/ asking'[s] # <<>> => s \in open'
    BY CatalogAssumption DEF CloseTab, CacheInv, TypeOK, Maps
  <2>3. /\ open' \subseteq Tabs /\ client' \in open' \cup {None}
        /\ stale' \subseteq Tabs /\ events' \in 0..MaxEvents
    BY DEF CloseTab, CacheInv, TypeOK, history
  <2> QED BY <2>1, <2>2, <2>3 DEF TypeOK, Phases
<1> QED BY <1>3, <1>4, <1>5, <1>6 DEF CacheInv

\* Steps of a tab alone: no call of updateCache moves.
LEMMA TabKeeps ==
  ASSUME CacheInv, NEW t \in Tabs,
         \/ ConnectTab(t) \/ ConfigurationChanged(t)
         \/ \E f \in Filters : FilterChanged(t, f)
         \/ GetPlugins(t) \/ TabReceives(t)
  PROVE  CacheInv'
<1>1. UNCHANGED <<cachedPlugins, update, history>> /\ stale' \subseteq stale
  BY DEF ConnectTab, ConfigurationChanged, FilterChanged, GetPlugins, TabReceives, service,
         view, Filter, OnCachingComplete, OnFailed, OnPlugins
<1>2. CallsInv' /\ LatestInv'
  BY <1>1 DEF CacheInv, CallsInv, LatestInv, Covered, Pending, Plugins, history
<1>3. /\ open \subseteq open' /\ open' \subseteq Tabs /\ client' \in open' \cup {None}
      /\ events' \in 0..MaxEvents
  <2>1. CASE ConnectTab(t)
    BY <2>1 DEF ConnectTab, CacheInv, TypeOK
  <2>2. CASE ConfigurationChanged(t) \/ \E f \in Filters : FilterChanged(t, f)
    BY <2>2, EventBound DEF ConfigurationChanged, FilterChanged, CacheInv, TypeOK, service
  <2>3. CASE GetPlugins(t) \/ TabReceives(t)
    BY <2>3 DEF GetPlugins, TabReceives, CacheInv, TypeOK, service
  <2> QED BY <2>1, <2>2, <2>3
<1>4. /\ Maps'
      /\ \A s \in Tabs :
           /\ status'[s] \in {"updating_cache", "filtering", "failed"}
           /\ filterString'[s] \in Filters
           /\ toTab'[s] # <<>> \/ asking'[s] # <<>> => s \in open'
  <2>1. CASE ConnectTab(t)
    BY <2>1, <1>3 DEF ConnectTab, view, channels, history, CacheInv, Maps, TypeOK
  <2>2. CASE ConfigurationChanged(t)
    BY <2>2 DEF ConfigurationChanged, Filter, view, history, CacheInv, Maps, TypeOK
  <2>3. CASE \E f \in Filters : FilterChanged(t, f)
    BY <2>3 DEF FilterChanged, Filter, history, CacheInv, Maps, TypeOK
  <2>4. CASE GetPlugins(t)
    BY <2>4 DEF GetPlugins, view, history, CacheInv, Maps, TypeOK
  <2>5. CASE TabReceives(t)
    <3>1. t \in open /\ open' = open /\ missed' = missed
      BY <2>5 DEF TabReceives, CacheInv, TypeOK, history
    <3>2. toTab' = [toTab EXCEPT ![t] = Tail(@)]
      BY <2>5 DEF TabReceives
    <3>3. PICK message : \/ OnCachingComplete(t, message) \/ OnFailed(t, message)
                         \/ OnPlugins(t, message)
      BY <2>5 DEF TabReceives
    <3>4. /\ status' = [s \in Tabs |-> status'[s]]
          /\ filterString' = [s \in Tabs |-> filterString'[s]]
          /\ asking' = [s \in Tabs |-> asking'[s]]
          /\ \A s \in Tabs :
               /\ status'[s] \in {"updating_cache", "filtering", "failed"}
               /\ filterString'[s] \in Filters
               /\ asking'[s] # <<>> => s = t \/ asking[s] # <<>>
      BY <3>3, CatalogAssumption
         DEF OnCachingComplete, OnFailed, OnPlugins, Filter, CacheInv, Maps, TypeOK
    <3> QED BY <3>1, <3>2, <3>4 DEF CacheInv, Maps, TypeOK
  <2> QED BY <2>1, <2>2, <2>3, <2>4, <2>5
<1>5. TypeOK'
  BY <1>1, <1>3, <1>4 DEF CacheInv, TypeOK
<1> QED BY <1>2, <1>4, <1>5 DEF CacheInv

LEMMA StepKeeps ==
  ASSUME CacheInv, [Next]_vars
  PROVE  CacheInv'
<1>1. CASE \E u \in Updates : Serve(u)
  BY <1>1, PreparedKeeps, BeginKeeps, DefaultKnownKeeps, LoadListKeeps, LoadMetadataKeeps, CompleteKeeps,
     AnsweredKeeps DEF Serve
<1>2. CASE \E t \in Tabs : \E u \in Updates : UpdateCache(u, t)
  BY <1>2, UpdateCacheKeeps
<1>3. CASE \E t \in Tabs : CloseTab(t)
  BY <1>3, CloseKeeps
<1>4. CASE \E t \in Tabs : \/ ConnectTab(t) \/ ConfigurationChanged(t)
                           \/ \E f \in Filters : FilterChanged(t, f)
                           \/ GetPlugins(t) \/ TabReceives(t)
  BY <1>4, TabKeeps
<1>5. CASE UNCHANGED vars
  BY <1>5 DEF vars, service, view, channels, history, CacheInv, TypeOK, Maps, CallsInv,
              LatestInv, Covered, Pending, Plugins
<1> QED BY <1>1, <1>2, <1>3, <1>4, <1>5 DEF Next, Working

------------------------------------------------------------------------------

LEMMA CacheInvHolds == Spec => []CacheInv
<1>1. Init => CacheInv
  BY InitKeeps
<1>2. CacheInv /\ [Next]_vars => CacheInv'
  BY StepKeeps
<1> QED BY <1>1, <1>2, PTL DEF Spec

\* The service never waits for the answer of a tab that is gone, and its client
\* is a tab that is connected (setClient, disconnectClient).
THEOREM CacheTypeCorrect == Spec => []TypeOK
<1>1. CacheInv => TypeOK
  BY DEF CacheInv
<1> QED BY <1>1, CacheInvHolds, PTL

\* Whatever other updates do between its requests, the update that cleared the
\* cache last completes with everything it could load in it (updateCache).
THEOREM LastUpdateCompletes == Spec => []CacheComplete
<1>1. CacheInv => CacheComplete
  <2> SUFFICES ASSUME CacheInv, latest # 0, update[latest].phase = "complete"
               PROVE  Plugins(update[latest].registries) \ missed[latest]
                        \subseteq Range(cachedPlugins)
    BY DEF CacheComplete
  <2>1. latest \in Updates /\ Covered(latest) /\ Shape(update[latest])
    BY DEF CacheInv, LatestInv, CallsInv
  <2>2. Pending(update[latest]) = {}
    <3>1. update[latest].todo = <<>> /\ update[latest].list = <<>>
      BY <2>1 DEF Shape
    <3>2. Plugins(<<>>) = {}
      BY RangeEmpty DEF Plugins
    <3> QED BY <3>1, <3>2, RangeEmpty DEF Pending
  <2> QED BY <2>1, <2>2 DEF Covered, Progressing
<1> QED BY <1>1, CacheInvHolds, PTL

------------------------------------------------------------------------------
(* The view: what is under way ends with the cache as the filter lets it    *)
(* pass.                                                                     *)

IsSeq(q) == Len(q) \in Nat /\ q = [i \in 1..Len(q) |-> q[i]]

Channels ==
  /\ \A t \in Tabs : IsSeq(toTab[t]) /\ IsSeq(asking[t])
  /\ plugins = [t \in Tabs |-> plugins[t]]

Holding(queue, kind) == \E i \in 1..Len(queue) : queue[i].kind = kind

\* The last answer in a queue is this one.
LastAnswer(queue, answer) ==
  \E i \in 1..Len(queue) :
    /\ queue[i].kind = "plugins" /\ queue[i].plugins = answer
    /\ \A j \in (i + 1)..Len(queue) : queue[j].kind # "plugins"

\* What is under way ends with the cache as the view's filter lets it pass.
Settling(t) ==
  IF asking[t] # <<>> THEN asking[t][Len(asking[t])] = filterString[t]
  ELSE IF Holding(toTab[t], "plugins") THEN LastAnswer(toTab[t], Filtered(filterString[t]))
  ELSE plugins[t] = Filtered(filterString[t])

Filling == {"registries", "plugins"}

\* Before the default registry is known nothing was loaded, and no tab was told
\* of a complete cache.
Unknown ==
  /\ \A u \in Updates : update[u].phase \notin Filling \cup {"completing"}
  /\ \A t \in Tabs : status[t] # "filtering" /\ ~Holding(toTab[t], "complete")

\* The view awaits an update that fills the cache, the news that it is
\* complete, or the answers to its questions.
Informed(t) ==
  \/ \E u \in Updates : update[u].phase \in Filling
  \/ Holding(toTab[t], "complete")
  \/ status[t] # "filtering"
  \/ Settling(t)

ViewInv ==
  /\ Channels
  /\ \A t \in Tabs \ open : t \in stale \/ status[t] = "updating_cache"
  /\ ~defaultRegistry => Unknown
  /\ client \notin stale \cup {None} => Informed(client)

LEMMA NoSeq == IsSeq(<<>>) /\ \A kind : ~Holding(<<>>, kind)
BY DEF IsSeq, Holding

LEMMA AppendSeq ==
  ASSUME NEW q, IsSeq(q), NEW x
  PROVE  /\ IsSeq(Append(q, x)) /\ Append(q, x) # <<>>
         /\ Len(q) \in Nat /\ Len(Append(q, x)) = Len(q) + 1
         /\ \A i \in 1..Len(q) : Append(q, x)[i] = q[i]
         /\ Append(q, x)[Len(q) + 1] = x
<1> DEFINE S == {q[i] : i \in 1..Len(q)} \cup {x}
<1>1. q \in Seq(S) /\ x \in S
  BY DEF IsSeq
<1> HIDE DEF S
<1>2. Append(q, x) \in Seq(S)
  BY <1>1
<1>3. IsSeq(Append(q, x))
  BY <1>2, LenProperties DEF IsSeq
<1> QED BY <1>1, <1>3

LEMMA TailSeq ==
  ASSUME NEW q, IsSeq(q), q # <<>>
  PROVE  /\ IsSeq(Tail(q)) /\ Len(q) \in Nat \ {0} /\ Len(Tail(q)) = Len(q) - 1
         /\ Head(q) = q[1] /\ (Len(q) = 1 <=> Tail(q) = <<>>)
         /\ \A i \in 1..(Len(q) - 1) : Tail(q)[i] = q[i + 1]
<1> DEFINE S == {q[i] : i \in 1..Len(q)}
<1>1. q \in Seq(S)
  BY DEF IsSeq
<1> HIDE DEF S
<1>2. Tail(q) \in Seq(S)
  BY <1>1
<1>3. IsSeq(Tail(q))
  BY <1>2, LenProperties DEF IsSeq
<1>4. Len(q) = 1 <=> Tail(q) = <<>>
  BY <1>1, LastOfList
<1> QED BY <1>1, <1>3, <1>4

LEMMA AppendHolds ==
  ASSUME NEW q, IsSeq(q), NEW m
  PROVE  /\ Holding(Append(q, m), m.kind)
         /\ \A kind : Holding(q, kind) => Holding(Append(q, m), kind)
         /\ \A kind : Holding(Append(q, m), kind) => Holding(q, kind) \/ m.kind = kind
<1>1. /\ Len(q) \in Nat /\ Len(Append(q, m)) = Len(q) + 1
      /\ \A i \in 1..Len(q) : Append(q, m)[i] = q[i]
      /\ Append(q, m)[Len(q) + 1] = m
  BY AppendSeq
<1>2. \A i : i \in 1..(Len(q) + 1) <=> i \in 1..Len(q) \/ i = Len(q) + 1
  BY <1>1
<1> HIDE DEF IsSeq
<1> QED BY <1>1, <1>2 DEF Holding

LEMMA AppendNews ==
  ASSUME NEW q, IsSeq(q), NEW m, m.kind # "plugins", NEW answer, LastAnswer(q, answer)
  PROVE  LastAnswer(Append(q, m), answer)
<1>1. /\ Len(q) \in Nat /\ Len(Append(q, m)) = Len(q) + 1
      /\ \A i \in 1..Len(q) : Append(q, m)[i] = q[i]
      /\ Append(q, m)[Len(q) + 1] = m
  BY AppendSeq
<1>2. PICK i \in 1..Len(q) :
        /\ q[i].kind = "plugins" /\ q[i].plugins = answer
        /\ \A j \in (i + 1)..Len(q) : q[j].kind # "plugins"
  BY DEF LastAnswer
<1>3. \A j \in (i + 1)..(Len(q) + 1) : Append(q, m)[j].kind # "plugins"
  <2> SUFFICES ASSUME NEW j \in (i + 1)..(Len(q) + 1)
               PROVE  Append(q, m)[j].kind # "plugins"
    OBVIOUS
  <2>1. j = Len(q) + 1 \/ (j \in (i + 1)..Len(q) /\ j \in 1..Len(q))
    BY <1>1
  <2> QED BY <1>1, <1>2, <2>1
<1>4. i \in 1..(Len(q) + 1) /\ Append(q, m)[i] = q[i]
  BY <1>1
<1> QED BY <1>1, <1>2, <1>3, <1>4 DEF LastAnswer

LEMMA AppendAnswer ==
  ASSUME NEW q, IsSeq(q), NEW m, m.kind = "plugins"
  PROVE  LastAnswer(Append(q, m), m.plugins)
<1>1. /\ Len(q) \in Nat /\ Len(Append(q, m)) = Len(q) + 1
      /\ Append(q, m)[Len(q) + 1] = m
  BY AppendSeq
<1>2. Len(q) + 1 \in 1..(Len(q) + 1) /\ (Len(q) + 1 + 1)..(Len(q) + 1) = {}
  BY <1>1
<1> QED BY <1>1, <1>2 DEF LastAnswer

LEMMA TailHolds ==
  ASSUME NEW q, IsSeq(q), q # <<>>
  PROVE  /\ Holding(q, Head(q).kind)
         /\ \A kind : Holding(Tail(q), kind) => Holding(q, kind)
         /\ \A kind : Holding(q, kind) => Head(q).kind = kind \/ Holding(Tail(q), kind)
<1>1. /\ Len(q) \in Nat \ {0} /\ Len(Tail(q)) = Len(q) - 1 /\ Head(q) = q[1]
      /\ \A i \in 1..(Len(q) - 1) : Tail(q)[i] = q[i + 1]
  BY TailSeq
<1>2. Holding(q, Head(q).kind)
  <2>1. 1 \in 1..Len(q)
    BY <1>1
  <2> QED BY <1>1, <2>1 DEF Holding
<1>3. ASSUME NEW kind, Holding(Tail(q), kind) PROVE Holding(q, kind)
  <2>1. PICK i \in 1..(Len(q) - 1) : Tail(q)[i].kind = kind
    BY <1>1, <1>3 DEF Holding
  <2>2. i + 1 \in 1..Len(q) /\ q[i + 1].kind = kind
    BY <1>1, <2>1
  <2> QED BY <2>2 DEF Holding
<1>4. ASSUME NEW kind, Holding(q, kind) PROVE Head(q).kind = kind \/ Holding(Tail(q), kind)
  <2>1. PICK i \in 1..Len(q) : q[i].kind = kind
    BY <1>4 DEF Holding
  <2>2. CASE i = 1
    BY <1>1, <2>1, <2>2
  <2>3. CASE i # 1
    <3>1. i - 1 \in 1..(Len(q) - 1) /\ i - 1 + 1 = i
      BY <1>1, <2>3
    <3>2. Tail(q)[i - 1] = q[i]
      BY <1>1, <3>1
    <3> QED BY <1>1, <2>1, <3>1, <3>2 DEF Holding
  <2> QED BY <2>2, <2>3
<1> QED BY <1>2, <1>3, <1>4

\* The last answer stays the last one, or was the only one and is taken.
LEMMA TailAnswer ==
  ASSUME NEW q, IsSeq(q), q # <<>>, NEW answer, LastAnswer(q, answer)
  PROVE  \/ LastAnswer(Tail(q), answer) /\ Holding(Tail(q), "plugins")
         \/ /\ ~Holding(Tail(q), "plugins")
            /\ Head(q).kind = "plugins" /\ Head(q).plugins = answer
<1>1. /\ Len(q) \in Nat \ {0} /\ Len(Tail(q)) = Len(q) - 1 /\ Head(q) = q[1]
      /\ \A i \in 1..(Len(q) - 1) : Tail(q)[i] = q[i + 1]
  BY TailSeq
<1>2. PICK i \in 1..Len(q) :
        /\ q[i].kind = "plugins" /\ q[i].plugins = answer
        /\ \A j \in (i + 1)..Len(q) : q[j].kind # "plugins"
  BY DEF LastAnswer
<1>3. CASE i = 1
  <2>1. ASSUME NEW j \in 1..(Len(q) - 1) PROVE Tail(q)[j].kind # "plugins"
    <3>1. j + 1 \in (i + 1)..Len(q)
      BY <1>1, <1>3
    <3> QED BY <1>1, <1>2, <3>1
  <2> QED BY <1>1, <1>2, <1>3, <2>1 DEF Holding
<1>4. CASE i # 1
  <2>1. i - 1 \in 1..(Len(q) - 1) /\ i - 1 + 1 = i
    BY <1>1, <1>4
  <2>2. Tail(q)[i - 1] = q[i]
    BY <1>1, <2>1
  <2>3. ASSUME NEW j \in (i - 1 + 1)..(Len(q) - 1) PROVE Tail(q)[j].kind # "plugins"
    <3>1. j + 1 \in (i + 1)..Len(q) /\ j \in 1..(Len(q) - 1)
      BY <1>1, <2>1
    <3> QED BY <1>1, <1>2, <3>1
  <2> QED BY <1>1, <1>2, <2>1, <2>2, <2>3 DEF Holding, LastAnswer
<1> QED BY <1>3, <1>4

\* What a step of one call has to show to the views: it appends at most one
\* notification, and when it changes the cache it is still filling it.
LEMMA ServedView ==
  ASSUME CacheInv, ViewInv, NEW u \in Updates, NEW q,
         update' = [update EXCEPT ![u] = q],
         UNCHANGED <<open, client, status, filterString, plugins, asking, stale>>,
         \/ toTab' = toTab
         \/ \E t \in Tabs, m \in [kind : {"failed", "complete"}] :
              /\ toTab' = [toTab EXCEPT ![t] = Append(@, m)]
              /\ m.kind = "complete" => defaultRegistry',
         defaultRegistry => defaultRegistry',
         ~defaultRegistry' => q.phase \notin Filling \cup {"completing"},
         \/ client = None \/ ~defaultRegistry' \/ q.phase \in Filling
         \/ Holding(toTab'[client], "complete")
         \/ update[u].phase \notin Filling /\ cachedPlugins' = cachedPlugins
  PROVE  ViewInv'
<1>1. \A v \in Updates : update'[v] = IF v = u THEN q ELSE update[v]
  BY DEF CacheInv, CallsInv
<1>2. ASSUME NEW t \in Tabs
      PROVE  /\ IsSeq(toTab'[t])
             /\ Holding(toTab[t], "complete") => Holding(toTab'[t], "complete")
             /\ Holding(toTab'[t], "plugins") <=> Holding(toTab[t], "plugins")
             /\ \A answer : LastAnswer(toTab[t], answer) => LastAnswer(toTab'[t], answer)
             /\ ~defaultRegistry' => (Holding(toTab'[t], "complete")
                                        => Holding(toTab[t], "complete"))
  <2>1. IsSeq(toTab[t])
    BY DEF ViewInv, Channels
  <2>2. CASE toTab'[t] = toTab[t]
    BY <2>1, <2>2
  <2>3. CASE \E m \in [kind : {"failed", "complete"}] :
               /\ toTab'[t] = Append(toTab[t], m)
               /\ m.kind = "complete" => defaultRegistry'
    <3>1. PICK m \in [kind : {"failed", "complete"}] :
               /\ toTab'[t] = Append(toTab[t], m)
               /\ m.kind = "complete" => defaultRegistry'
      BY <2>3
    <3>2. m.kind \in {"failed", "complete"}
      OBVIOUS
    <3> HIDE DEF IsSeq, Holding, LastAnswer
    <3>3. IsSeq(toTab'[t])
      BY <2>1, <3>1, AppendSeq
    <3>4. /\ \A kind : Holding(toTab[t], kind) => Holding(toTab'[t], kind)
          /\ \A kind : Holding(toTab'[t], kind) => Holding(toTab[t], kind) \/ m.kind = kind
      BY <2>1, <3>1, AppendHolds
    <3>5. \A answer : LastAnswer(toTab[t], answer) => LastAnswer(toTab'[t], answer)
      BY <2>1, <3>1, <3>2, AppendNews
    <3> QED BY <3>1, <3>2, <3>3, <3>4, <3>5
  <2>4. toTab'[t] = toTab[t] \/ \E m \in [kind : {"failed", "complete"}] :
               /\ toTab'[t] = Append(toTab[t], m)
               /\ m.kind = "complete" => defaultRegistry'
    BY DEF CacheInv, Maps
  <2> QED BY <2>2, <2>3, <2>4
<1>3. Channels'
  BY <1>2 DEF ViewInv, Channels
<1>4. \A t \in Tabs \ open' : t \in stale' \/ status'[t] = "updating_cache"
  BY DEF ViewInv
<1>5. ASSUME ~defaultRegistry' PROVE Unknown'
  <2>1. Unknown
    BY <1>5 DEF ViewInv
  <2> QED BY <1>1, <1>2, <1>5, <2>1 DEF Unknown
<1>6. ASSUME client \notin stale \cup {None} PROVE Informed(client)'
  <2>0. client \in Tabs /\ client' = client
    BY <1>6 DEF CacheInv, TypeOK
  <2>1. CASE ~defaultRegistry'
    BY <1>5, <2>0, <2>1 DEF Unknown, Informed
  <2>2. CASE q.phase \in Filling
    BY <1>1, <2>2 DEF Informed
  <2>3. CASE Holding(toTab'[client], "complete")
    BY <2>0, <2>3 DEF Informed
  <2>4. CASE update[u].phase \notin Filling /\ cachedPlugins' = cachedPlugins
    <3>1. Informed(client)
      BY <1>6 DEF ViewInv
    <3>2. CASE \E v \in Updates : update[v].phase \in Filling
      BY <1>1, <2>4, <3>2 DEF Informed
    <3>3. CASE Holding(toTab[client], "complete")
      BY <1>2, <2>0, <3>3 DEF Informed
    <3>4. CASE status[client] # "filtering"
      BY <2>0, <3>4 DEF Informed
    <3>5. CASE Settling(client)
      <4>1. Filtered(filterString[client])' = Filtered(filterString[client])
        BY <2>0, <2>4 DEF Filtered
      <4> HIDE DEF Filtered
      <4>2. /\ asking'[client'] = asking[client] /\ plugins'[client'] = plugins[client]
            /\ filterString'[client'] = filterString[client]
        BY <2>0
      <4>3. /\ Holding(toTab'[client], "plugins") <=> Holding(toTab[client], "plugins")
            /\ \A answer : LastAnswer(toTab[client], answer)
                             => LastAnswer(toTab'[client], answer)
        BY <1>2, <2>0
      <4>4. Settling(client)'
        BY <3>5, <2>0, <4>1, <4>2, <4>3 DEF Settling
      <4> QED BY <4>4 DEF Informed
    <3> QED BY <3>1, <3>2, <3>3, <3>4, <3>5 DEF Informed
  <2> QED BY <1>6, <2>1, <2>2, <2>3, <2>4
<1> QED BY <1>3, <1>4, <1>5, <1>6 DEF ViewInv

\* A notification: the client is told when the next phase is "completing".
LEMMA RejectedView ==
  ASSUME CacheInv, NEW u \in Updates, Reject(u)
  PROVE  \E q \in Call :
           /\ update' = [update EXCEPT ![u] = q] /\ q.phase = "rejected"
           /\ \/ toTab' = toTab
              \/ \E t \in Tabs :
                   toTab' = [toTab EXCEPT ![t] = Append(@, [kind |-> "failed"])]
<1> DEFINE q == Ended(u, "rejected")
<1>2. q \in Call /\ q.phase = "rejected"
  BY EndedType
<1>3. update' = [update EXCEPT ![u] = q]
  BY DEF Reject
<1> HIDE DEF q
<1>4. \/ toTab' = toTab
      \/ \E t \in Tabs : toTab' = [toTab EXCEPT ![t] = Append(@, [kind |-> "failed"])]
  BY DEF Reject, Reply, CacheInv, TypeOK
<1> QED BY <1>2, <1>3, <1>4

LEMMA NotifiedView ==
  ASSUME CacheInv, NEW u \in Updates, NEW next \in Call, Notify(u, next)
  PROVE  \E q \in Call :
           /\ update' = [update EXCEPT ![u] = q]
           /\ client = None => q.phase = "rejected"
           /\ client # None => q.phase = next.phase
           /\ \/ toTab' = toTab
              \/ \E t \in Tabs :
                   toTab' = [toTab EXCEPT ![t] = Append(@, [kind |-> "failed"])]
              \/ /\ client # None /\ next.phase = "completing"
                 /\ toTab' = [toTab EXCEPT ![client] = Append(@, [kind |-> "complete"])]
           /\ client # None /\ next.phase = "completing" =>
                toTab' = [toTab EXCEPT ![client] = Append(@, [kind |-> "complete"])]
<1>1. CASE client = None
  <2>1. Reject(u)
    BY <1>1 DEF Notify
  <2> QED BY <1>1, <2>1, RejectedView
<1>2. CASE client # None
  <2> DEFINE q == [next EXCEPT !.awaits = client]
  <2>1. q \in Call /\ q.phase = next.phase
    BY <1>2 DEF CacheInv, TypeOK, Call
  <2>2. update' = [update EXCEPT ![u] = q]
    BY <1>2 DEF Notify
  <2>3. toTab' = IF next.phase = "completing"
                 THEN [toTab EXCEPT ![client] = Append(@, [kind |-> "complete"])] ELSE toTab
    BY <1>2 DEF Notify
  <2> HIDE DEF q
  <2> QED BY <1>2, <2>1, <2>2, <2>3
<1> QED BY <1>1, <1>2

LEMMA LoadingType ==
  ASSUME CacheInv, NEW u \in Updates
  PROVE  Loading(u) \in Call /\ Loading(u).phase = "registries"
<1>1. update[u] \in Call
  BY DEF CacheInv, CallsInv
<1> QED BY <1>1 DEF Loading, Call, Phases

\* A notification that is not the last one: the update is loading.
LEMMA LoadingView ==
  ASSUME CacheInv, ViewInv, NEW u \in Updates, NEW next \in Call, Notify(u, next),
         next.phase \in Filling, defaultRegistry',
         UNCHANGED <<open, client, status, filterString, plugins, asking, stale>>
  PROVE  ViewInv'
<1>1. PICK q \in Call :
         /\ update' = [update EXCEPT ![u] = q]
         /\ client = None => q.phase = "rejected"
         /\ client # None => q.phase = next.phase
         /\ \/ toTab' = toTab
            \/ \E t \in Tabs :
                 toTab' = [toTab EXCEPT ![t] = Append(@, [kind |-> "failed"])]
            \/ next.phase = "completing"
  BY NotifiedView
<1>2. \/ toTab' = toTab
      \/ \E t \in Tabs, m \in [kind : {"failed", "complete"}] :
           /\ toTab' = [toTab EXCEPT ![t] = Append(@, m)]
           /\ m.kind = "complete" => defaultRegistry'
  BY <1>1 DEF Filling
<1> HIDE DEF Filling
<1> QED BY <1>1, <1>2, ServedView

LEMMA RejectView ==
  ASSUME CacheInv, ViewInv, NEW u \in Updates, Reject(u), update[u].phase \notin Filling,
         UNCHANGED <<open, client, defaultRegistry, cachedPlugins, status, filterString,
                     plugins, asking, stale>>
  PROVE  ViewInv'
<1>1. PICK q \in Call :
           /\ update' = [update EXCEPT ![u] = q] /\ q.phase = "rejected"
           /\ \/ toTab' = toTab
              \/ \E t \in Tabs :
                   toTab' = [toTab EXCEPT ![t] = Append(@, [kind |-> "failed"])]
  BY RejectedView
<1>2. \/ toTab' = toTab
      \/ \E t \in Tabs, m \in [kind : {"failed", "complete"}] :
           /\ toTab' = [toTab EXCEPT ![t] = Append(@, m)]
           /\ m.kind = "complete" => defaultRegistry'
  <2>1. [kind |-> "failed"] \in [kind : {"failed", "complete"}]
    OBVIOUS
  <2> QED BY <1>1, <2>1
<1>3. q.phase \notin Filling \cup {"completing"}
  BY <1>1 DEF Filling
<1> QED BY <1>1, <1>2, <1>3, ServedView

LEMMA PreparedView ==
  ASSUME CacheInv, ViewInv, NEW u \in Updates, Prepared(u)
  PROVE  ViewInv'
<1>1. /\ UNCHANGED <<open, client, cachedPlugins, status, filterString, plugins, asking, stale>>
      /\ update[u].phase = "preparing" /\ update[u] \in Call
  BY DEF Prepared, view, CacheInv, CallsInv
<1>2. CASE Reject(u) /\ UNCHANGED defaultRegistry
  BY <1>1, <1>2, RejectView DEF Filling
<1>3. ASSUME NEW registries \in RegistryLists,
             update' = [update EXCEPT ![u].phase = "asked", ![u].registries = registries,
                                      ![u].todo = registries],
             defaultRegistry' \in {defaultRegistry, TRUE}, UNCHANGED toTab
      PROVE  ViewInv'
  <2> DEFINE q == [update[u] EXCEPT !.phase = "asked", !.registries = registries,
                                    !.todo = registries]
  <2>1. update' = [update EXCEPT ![u] = q] /\ q.phase = "asked"
    BY <1>1, <1>3 DEF Call, CacheInv, CallsInv
  <2> HIDE DEF q
  <2>2. q.phase \notin Filling \cup {"completing"} /\ update[u].phase \notin Filling
    BY <1>1, <2>1 DEF Filling
  <2>3. defaultRegistry => defaultRegistry'
    BY <1>3
  <2> QED BY <1>1, <1>3, <2>1, <2>2, <2>3, ServedView
<1> QED BY <1>2, <1>3 DEF Prepared

LEMMA BeginView ==
  ASSUME CacheInv, ViewInv, NEW u \in Updates, Begin(u)
  PROVE  ViewInv'
<1>1. /\ UNCHANGED <<open, client, defaultRegistry, status, filterString, plugins, asking,
                     stale>>
      /\ update[u].phase = "asked" /\ update[u] \in Call
  BY DEF Begin, view, CacheInv, CallsInv
<1>2. CASE client # None /\ defaultRegistry
  BY <1>1, <1>2, LoadingType, LoadingView DEF Begin, Filling
<1>3. CASE client = None \/ ~defaultRegistry
  <2> DEFINE q == IF client = None THEN Ended(u, "ignored")
                  ELSE [update[u] EXCEPT !.phase = "default"]
  <2>1. update' = [update EXCEPT ![u] = q] /\ toTab' = toTab
    BY <1>1, <1>3 DEF Begin
  <2>2. q.phase \in {"ignored", "default"}
    BY <1>1, EndedType DEF Call
  <2> HIDE DEF q
  <2>3. q.phase \notin Filling \cup {"completing"}
    BY <2>2 DEF Filling
  <2>4. \/ client = None \/ ~defaultRegistry'
    BY <1>1, <1>3
  <2> QED BY <1>1, <2>1, <2>3, <2>4, ServedView
<1> QED BY <1>2, <1>3

LEMMA DefaultKnownView ==
  ASSUME CacheInv, ViewInv, NEW u \in Updates, DefaultKnown(u)
  PROVE  ViewInv'
<1>1. /\ UNCHANGED <<open, client, cachedPlugins, status, filterString, plugins, asking, stale>>
      /\ update[u].phase = "default"
  BY DEF DefaultKnown, view
<1>2. CASE defaultRegistry' = TRUE /\ Notify(u, Loading(u))
  BY <1>1, <1>2, LoadingType, LoadingView DEF Filling
<1>3. CASE Reject(u) /\ UNCHANGED defaultRegistry
  BY <1>1, <1>3, RejectView DEF Filling
<1> QED BY <1>2, <1>3 DEF DefaultKnown

\* Nothing is loaded before the default registry is known.
LEMMA KnownWhenFilling ==
  ASSUME ViewInv, NEW u \in Updates, update[u].phase \in Filling
  PROVE  defaultRegistry
BY DEF ViewInv, Unknown

LEMMA LoadListView ==
  ASSUME CacheInv, ViewInv, NEW u \in Updates, LoadPluginList(u)
  PROVE  ViewInv'
<1> DEFINE r == Head(update[u].todo)
           loading == [update[u] EXCEPT !.phase = "plugins", !.list = Content[r]]
<1>1. /\ UNCHANGED <<open, client, defaultRegistry, status, filterString, plugins, asking,
                     stale>>
      /\ update[u].phase = "registries" /\ update[u].todo # <<>>
      /\ update[u] \in Call
  BY DEF LoadPluginList, Ready, view, service, CacheInv, CallsInv
<1>2. /\ r \in Registries /\ Tail(update[u].todo) \in Seq(Registries)
      /\ Content[r] \in Seq(Universe)
  BY <1>1, RangeTail, ContentType DEF Call
<1>3. NextRegistry(u) \in Call /\ NextRegistry(u).phase = "registries"
  <2>1. <<>> \in Seq(Universe)
    BY EmptySeq
  <2> QED BY <1>1, <1>2, <2>1 DEF NextRegistry, Call, Phases
<1>4. loading \in Call /\ loading.phase = "plugins"
  BY <1>1, <1>2 DEF Call, Phases
<1>5. Notify(u, NextRegistry(u)) \/ Notify(u, loading)
  BY DEF LoadPluginList
<1>6. defaultRegistry'
  BY <1>1, KnownWhenFilling DEF Filling
<1> HIDE DEF r, loading
<1> QED BY <1>1, <1>3, <1>4, <1>5, <1>6, LoadingView DEF Filling

LEMMA LoadMetadataView ==
  ASSUME CacheInv, ViewInv, NEW u \in Updates, LoadPluginMetadata(u)
  PROVE  ViewInv'
<1> DEFINE more == [update[u] EXCEPT !.list = Tail(@)]
<1>1. /\ UNCHANGED <<open, client, defaultRegistry, status, filterString, plugins, asking,
                     stale>>
      /\ update[u].phase = "plugins" /\ update[u].todo # <<>> /\ update[u].list # <<>>
      /\ update[u] \in Call
  BY DEF LoadPluginMetadata, Ready, view, CacheInv, CallsInv, Shape
<1>2. /\ Tail(update[u].todo) \in Seq(Registries) /\ Tail(update[u].list) \in Seq(Universe)
  BY <1>1, RangeTail DEF Call
<1>3. NextRegistry(u) \in Call /\ NextRegistry(u).phase = "registries"
  <2>1. <<>> \in Seq(Universe)
    BY EmptySeq
  <2> QED BY <1>1, <1>2, <2>1 DEF NextRegistry, Call, Phases
<1>4. more \in Call /\ more.phase = "plugins"
  BY <1>1, <1>2 DEF Call
<1>5. Notify(u, NextRegistry(u)) \/ Notify(u, more)
  BY DEF LoadPluginMetadata
<1>6. defaultRegistry'
  BY <1>1, KnownWhenFilling DEF Filling
<1> HIDE DEF more
<1> QED BY <1>1, <1>3, <1>4, <1>5, <1>6, LoadingView DEF Filling

LEMMA CompleteView ==
  ASSUME CacheInv, ViewInv, NEW u \in Updates, CachingComplete(u)
  PROVE  ViewInv'
<1> DEFINE next == [update[u] EXCEPT !.phase = "completing"]
<1>1. /\ UNCHANGED <<open, client, defaultRegistry, status, filterString, plugins, asking,
                     stale>>
      /\ update[u].phase = "registries" /\ update[u] \in Call
  BY DEF CachingComplete, Ready, view, service, CacheInv, CallsInv
<1>2. next \in Call /\ next.phase = "completing" /\ Notify(u, next)
  BY <1>1 DEF CachingComplete, Call, Phases
<1>3. defaultRegistry'
  BY <1>1, KnownWhenFilling DEF Filling
<1> HIDE DEF next
<1>4. PICK q \in Call :
        /\ update' = [update EXCEPT ![u] = q]
        /\ \/ toTab' = toTab
           \/ \E t \in Tabs :
                toTab' = [toTab EXCEPT ![t] = Append(@, [kind |-> "failed"])]
           \/ /\ client # None
              /\ toTab' = [toTab EXCEPT ![client] = Append(@, [kind |-> "complete"])]
        /\ client # None =>
             toTab' = [toTab EXCEPT ![client] = Append(@, [kind |-> "complete"])]
  BY <1>2, NotifiedView
<1>5. \/ toTab' = toTab
      \/ \E t \in Tabs, m \in [kind : {"failed", "complete"}] :
           /\ toTab' = [toTab EXCEPT ![t] = Append(@, m)]
           /\ m.kind = "complete" => defaultRegistry'
  <2>1. /\ [kind |-> "failed"] \in [kind : {"failed", "complete"}]
        /\ [kind |-> "complete"] \in [kind : {"failed", "complete"}]
    OBVIOUS
  <2>2. client # None => client \in Tabs
    BY DEF CacheInv, TypeOK
  <2> QED BY <1>3, <1>4, <2>1, <2>2
<1>6. client # None => Holding(toTab'[client], "complete")
  <2>1. SUFFICES ASSUME client # None PROVE Holding(toTab'[client], "complete")
    OBVIOUS
  <2>2. client \in Tabs
    BY <2>1 DEF CacheInv, TypeOK
  <2>3. toTab'[client] = Append(toTab[client], [kind |-> "complete"])
    BY <1>4, <2>1, <2>2 DEF CacheInv, Maps
  <2>4. IsSeq(toTab[client])
    BY <2>2 DEF ViewInv, Channels
  <2> QED BY <2>3, <2>4, AppendHolds
<1> QED BY <1>1, <1>3, <1>4, <1>5, <1>6, ServedView

LEMMA AnsweredView ==
  ASSUME CacheInv, ViewInv, NEW u \in Updates, NotificationAnswered(u)
  PROVE  ViewInv'
<1> DEFINE q == [update[u] EXCEPT !.awaits = None,
                                  !.phase = IF @ = "completing" THEN "complete" ELSE @]
<1>1. /\ UNCHANGED <<open, client, defaultRegistry, cachedPlugins, status, filterString,
                     plugins, asking, stale, toTab>>
      /\ update[u] \in Call
  BY DEF NotificationAnswered, view, service, channels, CacheInv, CallsInv
<1>2. /\ update' = [update EXCEPT ![u] = q]
      /\ q.phase = IF update[u].phase = "completing" THEN "complete" ELSE update[u].phase
  BY <1>1 DEF NotificationAnswered, Call, CacheInv, CallsInv
<1> HIDE DEF q
<1>3. ~defaultRegistry' => q.phase \notin Filling \cup {"completing"}
  BY <1>1, <1>2 DEF ViewInv, Unknown, Filling
<1>4. q.phase \in Filling \/ update[u].phase \notin Filling
  BY <1>2 DEF Filling
<1> QED BY <1>1, <1>2, <1>3, <1>4, ServedView

\* A step of one tab: the other views see nothing of it.
LEMMA TabView ==
  ASSUME CacheInv, ViewInv, NEW t \in Tabs, t \in open,
         UNCHANGED <<open, client, defaultRegistry, cachedPlugins>>,
         \A u \in Updates : update'[u] = update[u],
         \A s \in Tabs \ {t} : /\ status'[s] = status[s]
                               /\ filterString'[s] = filterString[s]
                               /\ plugins'[s] = plugins[s] /\ asking'[s] = asking[s]
                               /\ toTab'[s] = toTab[s],
         plugins' = [s \in Tabs |-> plugins'[s]],
         IsSeq(toTab'[t]), IsSeq(asking'[t]),
         ~defaultRegistry /\ Unknown =>
           status'[t] # "filtering" /\ ~Holding(toTab'[t], "complete"),
         \/ stale' = stale /\ (Informed(t) => Informed(t)')
         \/ stale' = stale \ {t} /\ Informed(t)'
  PROVE  ViewInv'
<1> HIDE DEF IsSeq, Holding
<1>1. Channels'
  BY DEF ViewInv, Channels
<1>2. \A s \in Tabs \ open' : s \in stale' \/ status'[s] = "updating_cache"
  BY DEF ViewInv
<1>3. ASSUME ~defaultRegistry' PROVE Unknown'
  <2>1. Unknown
    BY <1>3 DEF ViewInv
  <2>2. \A s \in Tabs : status'[s] # "filtering" /\ ~Holding(toTab'[s], "complete")
    BY <1>3, <2>1 DEF Unknown
  <2> QED BY <2>1, <2>2 DEF Unknown
<1>4. ASSUME client' \notin stale' \cup {None} PROVE Informed(client)'
  <2>1. /\ client \in Tabs /\ client' = client
        /\ client \notin stale => Informed(client)
        /\ client # t => client \notin stale
    BY <1>4 DEF CacheInv, TypeOK, ViewInv
  <2>2. CASE client = t
    <3>1. Informed(t)'
      BY <1>4, <2>1, <2>2
    <3> QED BY <2>1, <2>2, <3>1 DEF Informed, Settling, Filtered
  <2>3. CASE client # t
    <3>1. Filtered(filterString[client])' = Filtered(filterString[client])
      BY <2>1, <2>3 DEF Filtered
    <3> HIDE DEF Filtered, LastAnswer
    <3> QED BY <2>1, <2>3, <3>1 DEF Informed, Settling
  <2> QED BY <2>2, <2>3
<1> QED BY <1>1, <1>2, <1>3, <1>4 DEF ViewInv

LEMMA GetPluginsView ==
  ASSUME CacheInv, ViewInv, NEW t \in Tabs, GetPlugins(t)
  PROVE  ViewInv'
<1> DEFINE f == Head(asking[t])
           m == [kind |-> "plugins", plugins |-> Filtered(f)]
<1>1. /\ UNCHANGED <<open, client, defaultRegistry, cachedPlugins, update, status,
                     filterString, plugins, stale>>
      /\ t \in open /\ asking[t] # <<>>
      /\ asking' = [asking EXCEPT ![t] = Tail(@)]
      /\ toTab' = [toTab EXCEPT ![t] = Append(@, m)]
  BY DEF GetPlugins, service, view, CacheInv, TypeOK
<1>2. asking'[t] = Tail(asking[t]) /\ toTab'[t] = Append(toTab[t], m)
  BY <1>1 DEF CacheInv, Maps
<1>3. /\ m.kind = "plugins" /\ m.plugins = Filtered(f)
  OBVIOUS
<1> HIDE DEF m
<1>4. /\ IsSeq(toTab[t]) /\ IsSeq(asking[t])
      /\ plugins' = [s \in Tabs |-> plugins'[s]]
  BY <1>1 DEF ViewInv, Channels
<1>5. /\ IsSeq(toTab'[t]) /\ LastAnswer(toTab'[t], Filtered(f))
      /\ Holding(toTab'[t], "plugins")
      /\ Holding(toTab'[t], "complete") <=> Holding(toTab[t], "complete")
  <2>1. IsSeq(toTab'[t]) /\ LastAnswer(toTab'[t], Filtered(f))
    BY <1>2, <1>3, <1>4, AppendSeq, AppendAnswer
  <2>2. Holding(toTab'[t], "plugins")
    BY <1>2, <1>3, <1>4, AppendHolds
  <2>3. Holding(toTab'[t], "complete") <=> Holding(toTab[t], "complete")
    BY <1>2, <1>3, <1>4, AppendHolds
  <2> QED BY <2>1, <2>2, <2>3
<1>6. /\ IsSeq(asking'[t]) /\ Len(asking[t]) \in Nat \ {0}
      /\ Len(asking'[t]) = Len(asking[t]) - 1
      /\ f = asking[t][1] /\ (Len(asking[t]) = 1 <=> asking'[t] = <<>>)
      /\ \A i \in 1..(Len(asking[t]) - 1) : asking'[t][i] = asking[t][i + 1]
  BY <1>1, <1>2, <1>4, TailSeq
<1>7. Filtered(filterString[t])' = Filtered(filterString[t])
  BY <1>1 DEF Filtered
<1> HIDE DEF f, Filtered
<1>8. ASSUME Settling(t) PROVE Settling(t)'
  <2>1. asking[t][Len(asking[t])] = filterString[t]
    BY <1>1, <1>8 DEF Settling
  <2>2. CASE asking'[t] = <<>>
    <3>1. f = filterString[t]
      BY <1>6, <2>1, <2>2
    <3> QED BY <1>5, <1>7, <2>2, <3>1 DEF Settling
  <2>3. CASE asking'[t] # <<>>
    <3>1. Len(asking'[t]) \in 1..(Len(asking[t]) - 1)
      BY <1>6, <2>3
    <3>2. asking'[t][Len(asking'[t])] = asking[t][Len(asking[t])]
      BY <1>6, <3>1
    <3> QED BY <1>1, <2>1, <2>3, <3>2 DEF Settling
  <2> QED BY <2>2, <2>3
<1>9. Informed(t) => Informed(t)'
  BY <1>1, <1>5, <1>8 DEF Informed
<1>10. Unknown => status'[t] # "filtering" /\ ~Holding(toTab'[t], "complete")
  BY <1>1, <1>5 DEF Unknown
<1>11. \A s \in Tabs \ {t} : asking'[s] = asking[s] /\ toTab'[s] = toTab[s]
  BY <1>1 DEF CacheInv, Maps
<1> QED BY <1>1, <1>4, <1>5, <1>6, <1>9, <1>10, <1>11, TabView

\* A view that asks with the text it shows is settling.
LEMMA Asked ==
  ASSUME CacheInv, ViewInv, NEW t \in Tabs, NEW f, Filter(t, f), filterString'[t] = f
  PROVE  /\ IsSeq(asking'[t]) /\ Settling(t)'
         /\ \A s \in Tabs \ {t} : asking'[s] = asking[s]
<1>1. asking'[t] = Append(asking[t], f) /\ \A s \in Tabs \ {t} : asking'[s] = asking[s]
  BY DEF Filter, CacheInv, Maps
<1>2. IsSeq(asking[t])
  BY DEF ViewInv, Channels
<1>3. /\ IsSeq(asking'[t]) /\ asking'[t] # <<>>
      /\ asking'[t][Len(asking'[t])] = f
  BY <1>1, <1>2, AppendSeq
<1> QED BY <1>1, <1>3 DEF Settling

LEMMA FilterChangedView ==
  ASSUME CacheInv, ViewInv, NEW t \in Tabs, NEW f \in Filters, FilterChanged(t, f)
  PROVE  ViewInv'
<1>1. /\ UNCHANGED <<open, client, defaultRegistry, cachedPlugins, update, status,
                     plugins, toTab>>
      /\ t \in open /\ filterString'[t] = f
      /\ \A s \in Tabs \ {t} : filterString'[s] = filterString[s]
      /\ IF status[t] = "filtering" THEN Filter(t, f) ELSE UNCHANGED <<asking, stale>>
  BY DEF FilterChanged, service, CacheInv, Maps
<1>2. /\ IsSeq(toTab'[t]) /\ IsSeq(asking[t])
      /\ plugins' = [s \in Tabs |-> plugins'[s]]
  BY <1>1 DEF ViewInv, Channels
<1>3. /\ IsSeq(asking'[t]) /\ (status[t] = "filtering" => Settling(t)')
      /\ \A s \in Tabs \ {t} : asking'[s] = asking[s]
  <2>1. CASE status[t] = "filtering"
    BY <1>1, <2>1, Asked
  <2>2. CASE status[t] # "filtering"
    BY <1>1, <1>2, <2>2
  <2> QED BY <2>1, <2>2
<1>4. Informed(t)'
  BY <1>1, <1>3 DEF Informed
<1>5. Unknown => status'[t] # "filtering" /\ ~Holding(toTab'[t], "complete")
  BY <1>1 DEF Unknown
<1>6. stale' = stale \/ stale' = stale \ {t}
  BY <1>1 DEF Filter
<1> QED BY <1>1, <1>2, <1>3, <1>4, <1>5, <1>6, TabView

LEMMA ConfigurationView ==
  ASSUME CacheInv, ViewInv, NEW t \in Tabs, ConfigurationChanged(t)
  PROVE  ViewInv'
<1>1. /\ UNCHANGED <<open, client, defaultRegistry, cachedPlugins, update, status,
                     filterString, plugins, toTab>>
      /\ t \in open /\ Filter(t, filterString[t]) /\ stale' = stale \ {t}
  BY DEF ConfigurationChanged, service, Filter
<1>2. IsSeq(toTab'[t]) /\ plugins' = [s \in Tabs |-> plugins'[s]]
  BY <1>1 DEF ViewInv, Channels
<1>3. /\ IsSeq(asking'[t]) /\ Settling(t)'
      /\ \A s \in Tabs \ {t} : asking'[s] = asking[s]
  BY <1>1, Asked
<1>4. Informed(t)'
  BY <1>3 DEF Informed
<1>5. Unknown => status'[t] # "filtering" /\ ~Holding(toTab'[t], "complete")
  BY <1>1 DEF Unknown
<1> QED BY <1>1, <1>2, <1>3, <1>4, <1>5, TabView

LEMMA TabReceivesView ==
  ASSUME CacheInv, ViewInv, NEW t \in Tabs, TabReceives(t)
  PROVE  ViewInv'
<1> DEFINE message == Head(toTab[t])
<1>1. /\ UNCHANGED <<open, client, defaultRegistry, cachedPlugins, update>>
      /\ t \in open /\ toTab[t] # <<>> /\ toTab'[t] = Tail(toTab[t])
      /\ \A s \in Tabs \ {t} : toTab'[s] = toTab[s]
      /\ IsSeq(toTab[t]) /\ IsSeq(asking[t])
      /\ plugins = [s \in Tabs |-> plugins[s]]
  BY DEF TabReceives, service, CacheInv, TypeOK, Maps, ViewInv, Channels
<1>2. /\ IsSeq(toTab'[t])
      /\ Holding(toTab[t], message.kind)
      /\ \A kind : Holding(toTab'[t], kind) => Holding(toTab[t], kind)
      /\ \A kind : Holding(toTab[t], kind) => message.kind = kind \/ Holding(toTab'[t], kind)
  BY <1>1, TailSeq, TailHolds
<1>3. OnCachingComplete(t, message) \/ OnFailed(t, message) \/ OnPlugins(t, message)
  BY DEF TabReceives
<1> HIDE DEF message
<1>4. CASE OnCachingComplete(t, message)
  <2>1. /\ message.kind = "complete" /\ Filter(t, "") /\ filterString'[t] = ""
        /\ plugins' = plugins /\ stale' = stale \ {t}
        /\ \A s \in Tabs \ {t} : /\ status'[s] = status[s]
                                 /\ filterString'[s] = filterString[s]
    BY <1>4 DEF OnCachingComplete, Filter, CacheInv, Maps
  <2>2. /\ IsSeq(asking'[t]) /\ Settling(t)'
        /\ \A s \in Tabs \ {t} : asking'[s] = asking[s]
    BY <2>1, Asked
  <2>3. Informed(t)'
    BY <2>2 DEF Informed
  <2>4. ~Unknown
    BY <1>2, <2>1 DEF Unknown
  <2> QED BY <1>1, <1>2, <2>1, <2>2, <2>3, <2>4, TabView
<1>5. CASE OnFailed(t, message)
  <2>1. /\ status'[t] = "failed" /\ UNCHANGED <<filterString, plugins, asking, stale>>
        /\ \A s \in Tabs \ {t} : status'[s] = status[s]
    BY <1>5 DEF OnFailed, CacheInv, Maps
  <2>2. Informed(t)'
    BY <2>1 DEF Informed
  <2>3. Unknown => status'[t] # "filtering" /\ ~Holding(toTab'[t], "complete")
    BY <1>2, <2>1 DEF Unknown
  <2> QED BY <1>1, <1>2, <2>1, <2>2, <2>3, TabView
<1>6. CASE OnPlugins(t, message)
  <2>1. /\ message.kind = "plugins" /\ UNCHANGED <<status, filterString, asking, stale>>
        /\ plugins' = [s \in Tabs |-> plugins'[s]] /\ plugins'[t] = message.plugins
        /\ \A s \in Tabs \ {t} : plugins'[s] = plugins[s]
    BY <1>1, <1>6 DEF OnPlugins
  <2>2. Filtered(filterString[t])' = Filtered(filterString[t])
    BY <1>1, <2>1 DEF Filtered
  <2>3. \A answer : LastAnswer(toTab[t], answer) =>
              \/ LastAnswer(toTab'[t], answer) /\ Holding(toTab'[t], "plugins")
              \/ ~Holding(toTab'[t], "plugins") /\ message.plugins = answer
    BY <1>1, TailAnswer DEF message
  <2>4. Holding(toTab[t], "plugins")
    BY <1>2, <2>1
  <2> HIDE DEF Filtered
  <2>5. Settling(t) => Settling(t)'
    BY <2>1, <2>2, <2>3, <2>4 DEF Settling
  <2>6. Holding(toTab[t], "complete") => Holding(toTab'[t], "complete")
    BY <1>2, <2>1
  <2>7. Informed(t) => Informed(t)'
    BY <1>1, <2>1, <2>5, <2>6 DEF Informed
  <2>8. Unknown => status'[t] # "filtering" /\ ~Holding(toTab'[t], "complete")
    BY <1>2, <2>1 DEF Unknown
  <2> QED BY <1>1, <1>2, <2>1, <2>7, <2>8, TabView
<1> QED BY <1>3, <1>4, <1>5, <1>6

LEMMA ConnectView ==
  ASSUME CacheInv, ViewInv, NEW t \in Tabs, ConnectTab(t)
  PROVE  ViewInv'
<1>1. /\ UNCHANGED <<defaultRegistry, cachedPlugins, update, status, filterString, plugins,
                     stale, asking, toTab>>
      /\ t \notin open /\ client' = t /\ open' = open \cup {t}
  BY DEF ConnectTab, view, channels
<1>2. ASSUME t \notin stale PROVE Informed(client)'
  <2>1. status[t] # "filtering"
    BY <1>1, <1>2 DEF ViewInv
  <2> QED BY <1>1, <2>1 DEF Informed
<1>3. Channels' /\ \A s \in Tabs \ open' : s \in stale' \/ status'[s] = "updating_cache"
  BY <1>1 DEF ViewInv, Channels
<1>4. ~defaultRegistry' => Unknown'
  BY <1>1 DEF ViewInv, Unknown
<1> QED BY <1>1, <1>2, <1>3, <1>4 DEF ViewInv

LEMMA CloseView ==
  ASSUME CacheInv, ViewInv, NEW t \in Tabs, CloseTab(t)
  PROVE  ViewInv'
<1>1. /\ client' = None /\ defaultRegistry' = defaultRegistry /\ open' = open \ {t}
      /\ status' = status /\ plugins' = plugins /\ stale' = stale \cup {t}
  BY DEF CloseTab
<1>2. \A s \in Tabs : /\ toTab'[s] = IF s = t THEN <<>> ELSE toTab[s]
                      /\ asking'[s] = IF s = t THEN <<>> ELSE asking[s]
  BY DEF CloseTab, CacheInv, Maps
<1>3. Channels'
  <2>1. plugins' = [s \in Tabs |-> plugins'[s]]
    BY <1>1 DEF ViewInv, Channels
  <2>2. \A s \in Tabs : IsSeq(toTab'[s]) /\ IsSeq(asking'[s])
    BY <1>2, NoSeq DEF ViewInv, Channels
  <2> QED BY <2>1, <2>2 DEF Channels
<1>4. \A s \in Tabs \ open' : s \in stale' \/ status'[s] = "updating_cache"
  BY <1>1 DEF ViewInv
<1>5. ASSUME ~defaultRegistry' PROVE Unknown'
  <2>1. Unknown
    BY <1>1, <1>5 DEF ViewInv
  <2>2. \A u \in Updates : update'[u].phase = "hung" \/ update'[u].phase = update[u].phase
    BY Closed
  <2>3. \A u \in Updates : update'[u].phase \notin Filling \cup {"completing"}
    BY <2>1, <2>2 DEF Unknown, Filling
  <2>4. \A s \in Tabs : status'[s] # "filtering" /\ ~Holding(toTab'[s], "complete")
    BY <1>1, <1>2, <2>1, NoSeq DEF Unknown
  <2> QED BY <2>3, <2>4 DEF Unknown
<1> QED BY <1>1, <1>3, <1>4, <1>5 DEF ViewInv

LEMMA UpdateCacheView ==
  ASSUME CacheInv, ViewInv, NEW u \in Updates, NEW t \in Tabs, UpdateCache(u, t)
  PROVE  ViewInv'
<1>1. /\ UNCHANGED <<open, client, defaultRegistry, cachedPlugins, filterString, plugins,
                     stale, asking, toTab>>
      /\ t \in open /\ status'[t] = "updating_cache"
      /\ \A s \in Tabs \ {t} : status'[s] = status[s]
      /\ update[u].phase = "idle"
      /\ \A v \in Updates : v # u => update'[v] = update[v]
  BY IdleType DEF UpdateCache, service, channels, CacheInv, CallsInv, Maps
<1>2. update'[u].phase = "preparing"
  BY DEF UpdateCache, CacheInv, CallsInv, Idle
<1>3. Channels' /\ \A s \in Tabs \ open' : s \in stale' \/ status'[s] = "updating_cache"
  BY <1>1 DEF ViewInv, Channels
<1>4. ASSUME ~defaultRegistry' PROVE Unknown'
  <2>1. Unknown
    BY <1>1, <1>4 DEF ViewInv
  <2>2. \A v \in Updates : update'[v].phase \notin Filling \cup {"completing"}
    BY <1>1, <1>2, <2>1 DEF Unknown, Filling
  <2>3. \A s \in Tabs : status'[s] # "filtering" /\ ~Holding(toTab'[s], "complete")
    BY <1>1, <2>1 DEF Unknown
  <2> QED BY <2>2, <2>3 DEF Unknown
<1>5. ASSUME client \notin stale \cup {None} PROVE Informed(client)'
  <2>1. client \in Tabs /\ client' = client /\ Informed(client)
    BY <1>1, <1>5 DEF CacheInv, TypeOK, ViewInv
  <2>2. CASE client = t
    BY <1>1, <2>1, <2>2 DEF Informed
  <2>3. CASE client # t
    <3>1. Filtered(filterString[client])' = Filtered(filterString[client])
      BY <1>1, <2>1 DEF Filtered
    <3>2. (\E v \in Updates : update[v].phase \in Filling)
            => \E v \in Updates : update'[v].phase \in Filling
      BY <1>1 DEF Filling
    <3> HIDE DEF Filtered
    <3>3. Settling(client) => Settling(client)'
      BY <1>1, <2>1, <3>1 DEF Settling
    <3> QED BY <1>1, <2>1, <2>3, <3>2, <3>3 DEF Informed
  <2> QED BY <2>2, <2>3
<1> QED BY <1>1, <1>3, <1>4, <1>5 DEF ViewInv

LEMMA StepView ==
  ASSUME CacheInv, ViewInv, [Next]_vars
  PROVE  ViewInv'
<1>1. CASE \E u \in Updates : Serve(u)
  BY <1>1, PreparedView, BeginView, DefaultKnownView, LoadListView, LoadMetadataView, CompleteView,
     AnsweredView DEF Serve
<1>2. CASE \E t \in Tabs : \E u \in Updates : UpdateCache(u, t)
  BY <1>2, UpdateCacheView
<1>3. CASE \E t \in Tabs : \/ ConnectTab(t) \/ CloseTab(t) \/ ConfigurationChanged(t)
                           \/ \E f \in Filters : FilterChanged(t, f)
                           \/ GetPlugins(t) \/ TabReceives(t)
  BY <1>3, ConnectView, CloseView, ConfigurationView, FilterChangedView, GetPluginsView,
     TabReceivesView
<1>4. CASE UNCHANGED vars
  <2>1. UNCHANGED <<open, client, defaultRegistry, cachedPlugins, update, status,
                    filterString, plugins, stale, asking, toTab>>
    BY <1>4 DEF vars, service, view, channels
  <2> QED BY <2>1 DEF ViewInv, Channels, Unknown, Informed, Settling, Filtered
<1> QED BY <1>1, <1>2, <1>3, <1>4 DEF Next, Working

\* Once nothing is under way, the view of the service's client shows the cache
\* as its filter lets it pass (onCachingComplete, onFilterChanged, filter).
THEOREM ViewShows == Spec => []ViewShowsCache
<1>1. Init => ViewInv
  <2> SUFFICES ASSUME Init PROVE ViewInv
    OBVIOUS
  <2>1. Channels
    BY NoSeq DEF Init, Channels
  <2>2. \A t \in Tabs : status[t] = "updating_cache" /\ ~Holding(toTab[t], "complete")
    BY NoSeq DEF Init
  <2>3. client \in Tabs
    BY CatalogAssumption DEF Init
  <2>4. \A u \in Updates : update[u].phase = "idle"
    BY IdleType DEF Init
  <2>5. Unknown
    BY <2>2, <2>4 DEF Unknown, Filling
  <2>6. Informed(client)
    BY <2>2, <2>3 DEF Informed
  <2> QED BY <2>1, <2>2, <2>5, <2>6 DEF ViewInv
<1>2. CacheInv /\ ViewInv /\ [Next]_vars => ViewInv'
  BY StepView
<1>3. CacheInv /\ ViewInv => ViewShowsCache
  <2> SUFFICES ASSUME CacheInv, ViewInv, NEW t \in Tabs,
                      client = t, t \notin stale, status[t] = "filtering", asking[t] = <<>>, toTab[t] = <<>>,
                      \A u \in Updates :
                        update[u].phase \in {"idle", "complete", "rejected", "ignored"}
               PROVE  plugins[t] = Filtered(filterString[t])
    BY DEF ViewShowsCache
  <2>1. Informed(t)
    BY CatalogAssumption DEF ViewInv
  <2>2. ~Holding(toTab[t], "complete") /\ ~Holding(toTab[t], "plugins")
    BY NoSeq
  <2>3. \A u \in Updates : update[u].phase \notin Filling
    BY DEF Filling
  <2> QED BY <2>1, <2>2, <2>3 DEF Informed, Settling
<1> QED BY <1>1, <1>2, <1>3, CacheInvHolds, PTL DEF Spec

=============================================================================
