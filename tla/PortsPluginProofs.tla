--------------------------- MODULE PortsPluginProofs ---------------------------
(***************************************************************************)
(* The redirect pool of the ports plugin never gives an endpoint twice and *)
(* every forward is served, for every set of ports and of endpoints.       *)
(***************************************************************************)
EXTENDS PortsPlugin, FiniteSetTheorems, TLAPS

InPool(e) == \E i \in 1..Len(redirectPorts) : redirectPorts[i] = e

\* RedirectFreeOrServed without counting.
PoolInv ==
  /\ \A i, j \in 1..Len(redirectPorts) :
       redirectPorts[i] = redirectPorts[j] => i = j
  /\ \A s, t \in servers : s[1] = t[1] => s = t
  /\ \A s \in servers : ~InPool(s[1])
  /\ \A e \in Endpoints : InPool(e) \/ \E s \in servers : s[1] = e

PortsInv == TypeOK /\ PoolInv /\ ForwardServed /\ ShownIsCurrent

------------------------------------------------------------------------------
(* Sequences. *)

\* An order of a finite set is a sequence of its elements, each once.
LEMMA Orders ==
  ASSUME NEW S, IsFiniteSet(S), NEW o \in SetToSeqs(S)
  PROVE  /\ o \in Seq(S)
         /\ \A i, j \in 1..Len(o) : o[i] = o[j] => i = j
         /\ \A e \in S : \E i \in 1..Len(o) : o[i] = e
<1> DEFINE n == Cardinality(S)
<1>1. n \in Nat
  BY FS_CardinalityType
<1>2. o \in [1..n -> S] /\ \A i, j \in 1..n : i # j => o[i] # o[j]
  BY DEF SetToSeqs
<1>3. o \in Seq(S) /\ Len(o) = n
  <2> HIDE DEF n
  <2> QED BY <1>1, <1>2
<1>4. o \in Injection(1..n, S)
  BY <1>2 DEF Injection, IsInjective
<1>5. IsFiniteSet(1..n) /\ Cardinality(1..n) = n
  <2> HIDE DEF n
  <2>1. ~(1 > n) \/ n = 0
    BY <1>1
  <2> QED BY <1>1, <2>1, FS_Interval
<1>6. o \in Surjection(1..n, S)
  BY <1>4, <1>5, FS_Injection
<1> QED
  <2> HIDE DEF n
  <2> QED BY <1>2, <1>3, <1>6 DEF Surjection

LEMMA PoolFront ==
  ASSUME NEW S, NEW s \in Seq(S), s # <<>>
  PROVE  /\ Front(s) \in Seq(S)
         /\ Len(Front(s)) = Len(s) - 1
         /\ \A i \in 1..Len(s) - 1 : Front(s)[i] = s[i]
         /\ Len(s) \in 1..Len(s) /\ Last(s) = s[Len(s)] /\ Last(s) \in S
<1>1. Len(s) \in Nat \ {0}
  OBVIOUS
<1>2. Front(s) = [i \in 1..Len(s) - 1 |-> s[i]]
  <2>1. Front(s) = SubSeq(s, 1, Len(s) - 1)
    BY DEF Front
  <2>2. SubSeq(s, 1, Len(s) - 1) = [i \in 1..(1 + (Len(s) - 1) - 1) |-> s[i + 1 - 1]]
    BY <1>1
  <2> QED BY <1>1, <2>1, <2>2
<1>3. \A i \in 1..Len(s) - 1 : s[i] \in S
  BY <1>1
<1>4. Len(s) - 1 \in Nat
  BY <1>1
<1>5. Front(s) \in Seq(S) /\ Len(Front(s)) = Len(s) - 1
  BY <1>2, <1>3, <1>4
<1> QED BY <1>1, <1>2, <1>5 DEF Last

LEMMA FreedFinite ==
  ASSUME PortsInv, NEW C \in SUBSET Ports
  PROVE  Freed(C) \subseteq Endpoints /\ IsFiniteSet(Freed(C))
<1>1. Freed(C) \subseteq Endpoints
  BY DEF PortsInv, TypeOK, Freed
<1>2. IsFiniteSet(Endpoints)
  <2> DEFINE n == Len(Redirects)
  <2>1. n \in Nat /\ Redirects \in [1..n -> Endpoints]
    BY PortsAssumption
  <2>2. Redirects \in Surjection(1..n, Endpoints)
    BY <2>1 DEF Surjection, Endpoints, ToSet
  <2>3. IsFiniteSet(1..n)
    <3> HIDE DEF n
    <3> QED BY <2>1, FS_Interval
  <2> QED BY <2>2, <2>3, FS_Surjection
<1> QED BY <1>1, <1>2, FS_Subset

------------------------------------------------------------------------------
(* The steps that touch the pool, the servers or the forwards. *)

\* A port gives back what it was given, and nobody else holds it.
LEMMA FreeKeeps ==
  ASSUME PortsInv, NEW C \in SUBSET Ports, FreeRedirectPorts(C)
  PROVE  /\ redirectPorts' \in Seq(Endpoints)
         /\ portForwards' \in [Ports -> Endpoints \cup {None}]
         /\ servers' \subseteq Endpoints \X Ports
         /\ undefinedUsed' \in BOOLEAN
         /\ PoolInv' /\ ForwardServed'
<1> USE DEF PortsInv
<1>1. PICK o \in SetToSeqs(Freed(C)) : redirectPorts' = redirectPorts \o o
  BY DEF FreeRedirectPorts
<1>2. portForwards' = FreedEntries(C) /\ servers' = StoppedServers(C)
      /\ undefinedUsed' = undefinedUsed
  BY DEF FreeRedirectPorts
<1>3. /\ o \in Seq(Freed(C)) /\ o \in Seq(Endpoints)
      /\ \A i, j \in 1..Len(o) : o[i] = o[j] => i = j
      /\ \A e \in Freed(C) : \E i \in 1..Len(o) : o[i] = e
  <2>1. Freed(C) \subseteq Endpoints /\ IsFiniteSet(Freed(C))
    BY FreedFinite
  <2>2. /\ o \in Seq(Freed(C))
        /\ \A i, j \in 1..Len(o) : o[i] = o[j] => i = j
        /\ \A e \in Freed(C) : \E i \in 1..Len(o) : o[i] = e
    BY <1>1, <2>1, Orders
  <2>3. o \in Seq(Endpoints)
    BY <2>1, <2>2
  <2> QED BY <2>2, <2>3
<1>4. redirectPorts \in Seq(Endpoints) /\ redirectPorts' \in Seq(Endpoints)
  BY <1>1, <1>3 DEF TypeOK
<1>5. /\ portForwards' \in [Ports -> Endpoints \cup {None}]
      /\ servers' \subseteq servers
      /\ servers' \subseteq Endpoints \X Ports
      /\ undefinedUsed' \in BOOLEAN
  BY <1>2 DEF TypeOK, FreedEntries, StoppedServers
<1>6. \A e \in Freed(C) : \E p \in C :
        portForwards[p] = e /\ e # None /\ <<e, p>> \in servers
  BY DEF Freed, ForwardServed
<1>7. \A s \in servers : s \in servers' <=> s[1] \notin Freed(C)
  <2>1. ASSUME NEW s \in servers, s[1] \in Freed(C) PROVE s \notin servers'
    <3>1. PICK p \in C : portForwards[p] = s[1] /\ <<s[1], p>> \in servers
      BY <1>6, <2>1
    <3>2. s = <<s[1], p>>
      BY <3>1 DEF PoolInv
    <3> QED BY <1>2, <3>1, <3>2 DEF StoppedServers
  <2>2. ASSUME NEW s \in servers, s \notin servers' PROVE s[1] \in Freed(C)
    <3>1. s[2] \in C /\ portForwards[s[2]] = s[1]
      BY <1>2, <2>2 DEF StoppedServers
    <3>2. s[1] # None
      BY PortsAssumption DEF TypeOK
    <3> QED BY <3>1, <3>2 DEF Freed
  <2> QED BY <2>1, <2>2
<1>8. \A i \in 1..Len(redirectPorts') :
        \/ i \in 1..Len(redirectPorts) /\ redirectPorts'[i] = redirectPorts[i]
        \/ /\ i - Len(redirectPorts) \in 1..Len(o)
           /\ redirectPorts'[i] = o[i - Len(redirectPorts)]
           /\ redirectPorts'[i] \in Freed(C)
  <2> SUFFICES ASSUME NEW i \in 1..Len(redirectPorts'),
                      ~(i \in 1..Len(redirectPorts))
               PROVE  /\ i - Len(redirectPorts) \in 1..Len(o)
                      /\ redirectPorts'[i] = o[i - Len(redirectPorts)]
                      /\ redirectPorts'[i] \in Freed(C)
    <3>1. ASSUME NEW i \in 1..Len(redirectPorts)
          PROVE  redirectPorts'[i] = redirectPorts[i]
      BY <1>1, <1>3, <1>4
    <3> QED BY <3>1
  <2>1. /\ Len(redirectPorts) \in Nat /\ Len(o) \in Nat
        /\ Len(redirectPorts') = Len(redirectPorts) + Len(o)
    BY <1>1, <1>3, <1>4
  <2>2. i - Len(redirectPorts) \in 1..Len(o)
    BY <2>1
  <2>3. redirectPorts'[i] = o[i - Len(redirectPorts)]
    BY <1>1, <1>3, <1>4, <2>1
  <2>4. o[i - Len(redirectPorts)] \in Freed(C)
    BY <1>3, <2>2
  <2> QED BY <2>2, <2>3, <2>4
<1>9. \A e \in Endpoints : InPool(e)' <=> InPool(e) \/ e \in Freed(C)
  <2>1. ASSUME NEW e \in Endpoints, InPool(e)' PROVE InPool(e) \/ e \in Freed(C)
    BY <1>8, <2>1 DEF InPool
  <2>2. ASSUME NEW e \in Endpoints, InPool(e) PROVE InPool(e)'
    BY <1>1, <1>3, <1>4, <2>2 DEF InPool
  <2>3. ASSUME NEW e \in Endpoints, e \in Freed(C) PROVE InPool(e)'
    <3>1. PICK i \in 1..Len(o) : o[i] = e
      BY <1>3, <2>3
    <3>2. /\ Len(redirectPorts) + i \in 1..Len(redirectPorts')
          /\ redirectPorts'[Len(redirectPorts) + i] = e
      <4>1. Len(redirectPorts) \in Nat /\ Len(o) \in Nat
        BY <1>3, <1>4
      <4>2. Len(redirectPorts') = Len(redirectPorts) + Len(o)
        BY <1>1, <1>3, <1>4
      <4>3. redirectPorts'[Len(redirectPorts) + i] = o[i]
        BY <1>1, <1>3, <1>4
      <4> QED BY <3>1, <4>1, <4>2, <4>3
    <3> QED BY <3>2 DEF InPool
  <2> QED BY <2>1, <2>2, <2>3
<1>10. \A i \in 1..Len(redirectPorts) : redirectPorts[i] \notin Freed(C)
  BY <1>6 DEF PoolInv, InPool
<1>11. PoolInv'
  <2>1. \A i, j \in 1..Len(redirectPorts') :
          redirectPorts'[i] = redirectPorts'[j] => i = j
    <3> SUFFICES ASSUME NEW i \in 1..Len(redirectPorts'),
                        NEW j \in 1..Len(redirectPorts'),
                        redirectPorts'[i] = redirectPorts'[j]
                 PROVE  i = j
      OBVIOUS
    <3>1. CASE redirectPorts'[i] \in Freed(C)
      <4>1. /\ i - Len(redirectPorts) \in 1..Len(o)
            /\ j - Len(redirectPorts) \in 1..Len(o)
            /\ o[i - Len(redirectPorts)] = o[j - Len(redirectPorts)]
        BY <1>8, <1>10, <3>1
      <4>2. i - Len(redirectPorts) = j - Len(redirectPorts)
        BY <1>3, <4>1
      <4> QED BY <1>4, <4>2
    <3>2. CASE redirectPorts'[i] \notin Freed(C)
      BY <1>8, <3>2 DEF PoolInv
    <3> QED BY <3>1, <3>2
  <2>2. \A s, t \in servers' : s[1] = t[1] => s = t
    BY <1>5 DEF PoolInv
  <2>3. \A s \in servers' : ~InPool(s[1])'
    BY <1>5, <1>7, <1>9 DEF PoolInv
  <2>4. \A e \in Endpoints : InPool(e)' \/ \E s \in servers' : s[1] = e
    BY <1>7, <1>9 DEF PoolInv
  <2> QED BY <2>1, <2>2, <2>3, <2>4 DEF PoolInv
<1>12. ForwardServed'
  <2> SUFFICES ASSUME NEW p \in Ports, portForwards'[p] # None
               PROVE  <<portForwards'[p], p>> \in servers'
    BY DEF ForwardServed
  <2>1. p \notin C /\ portForwards'[p] = portForwards[p]
    BY <1>2 DEF FreedEntries
  <2>2. <<portForwards[p], p>> \in servers
    BY <2>1 DEF ForwardServed
  <2> QED BY <1>2, <2>1, <2>2 DEF StoppedServers
<1> QED BY <1>4, <1>5, <1>11, <1>12

\* A yes moves the last endpoint of the pool to a server.
LEMMA AcceptKeeps ==
  ASSUME PortsInv, NEW p \in Ports, Accept(p)
  PROVE  /\ redirectPorts' \in Seq(Endpoints)
         /\ portForwards' \in [Ports -> Endpoints \cup {None}]
         /\ servers' \subseteq Endpoints \X Ports
         /\ PoolInv' /\ ForwardServed'
<1> USE DEF PortsInv
<1> DEFINE n == Len(redirectPorts)
           endpoint == Last(redirectPorts)
<1>1. /\ redirectPorts # <<>> /\ redirectPorts' = Front(redirectPorts)
      /\ servers' = servers \cup {<<endpoint, p>>}
      /\ portForwards' = [portForwards EXCEPT ![p] = endpoint]
  BY DEF Accept, PopsPool
<1>2. /\ redirectPorts' \in Seq(Endpoints)
      /\ n \in 1..n /\ endpoint = redirectPorts[n] /\ endpoint \in Endpoints
      /\ Len(redirectPorts') = n - 1
      /\ \A i \in 1..n - 1 : redirectPorts'[i] = redirectPorts[i]
  BY <1>1, PoolFront DEF TypeOK
<1>3. /\ portForwards' \in [Ports -> Endpoints \cup {None}]
      /\ servers' \subseteq Endpoints \X Ports
  BY <1>1, <1>2 DEF TypeOK
<1>4. n \in Nat /\ 1..n - 1 \subseteq 1..n /\ 1..n = (1..n - 1) \cup {n}
      /\ n \notin 1..n - 1
  BY <1>2 DEF TypeOK
<1> HIDE DEF n, endpoint
<1>5. InPool(endpoint) /\ \A s \in servers : s[1] # endpoint
  BY <1>2 DEF PoolInv, InPool, n
<1>6. \A e \in Endpoints : InPool(e)' <=> InPool(e) /\ e # endpoint
  <2>1. ASSUME NEW e \in Endpoints, InPool(e)' PROVE InPool(e) /\ e # endpoint
    <3>1. PICK i \in 1..n - 1 : redirectPorts'[i] = e
      BY <1>2, <2>1 DEF InPool
    <3>2. i \in 1..n /\ redirectPorts[i] = e /\ i # n
      BY <1>2, <1>4, <3>1
    <3> QED BY <1>2, <3>2 DEF InPool, PoolInv, n
  <2>2. ASSUME NEW e \in Endpoints, InPool(e), e # endpoint PROVE InPool(e)'
    <3>1. PICK i \in 1..n : redirectPorts[i] = e
      BY <2>2 DEF InPool, n
    <3>2. i \in 1..n - 1
      BY <1>2, <1>4, <2>2, <3>1
    <3> QED BY <1>2, <3>1, <3>2 DEF InPool
  <2> QED BY <2>1, <2>2
<1>7. PoolInv'
  <2>1. \A i, j \in 1..Len(redirectPorts') :
          redirectPorts'[i] = redirectPorts'[j] => i = j
    BY <1>2, <1>4 DEF PoolInv, n
  <2>2. \A s, t \in servers' : s[1] = t[1] => s = t
    BY <1>1, <1>5 DEF PoolInv
  <2>3. \A s \in servers' : ~InPool(s[1])'
    <3> SUFFICES ASSUME NEW s \in servers' PROVE ~InPool(s[1])'
      OBVIOUS
    <3>1. s[1] \in Endpoints
      BY <1>3
    <3>2. CASE s \in servers
      BY <1>6, <3>1, <3>2 DEF PoolInv
    <3>3. CASE s = <<endpoint, p>>
      BY <1>6, <3>1, <3>3
    <3> QED BY <1>1, <3>2, <3>3
  <2>4. \A e \in Endpoints : InPool(e)' \/ \E s \in servers' : s[1] = e
    <3> SUFFICES ASSUME NEW e \in Endpoints
                 PROVE  InPool(e)' \/ \E s \in servers' : s[1] = e
      OBVIOUS
    <3>1. CASE e = endpoint
      <4>1. <<endpoint, p>> \in servers' /\ <<endpoint, p>>[1] = e
        BY <1>1, <3>1
      <4> QED BY <4>1
    <3>2. CASE e # endpoint
      BY <1>1, <1>6, <3>2 DEF PoolInv
    <3> QED BY <3>1, <3>2
  <2> QED BY <2>1, <2>2, <2>3, <2>4 DEF PoolInv
<1>8. ForwardServed'
  BY <1>1 DEF ForwardServed, TypeOK
<1> QED BY <1>2, <1>3, <1>7, <1>8

------------------------------------------------------------------------------
(* The inductive invariant. *)

LEMMA RedirectUntouched ==
  ASSUME PoolInv, ForwardServed, UNCHANGED redirectVars
  PROVE  PoolInv' /\ ForwardServed'
BY DEF PoolInv, InPool, ForwardServed, redirectVars

LEMMA NewPrompts ==
  ASSUME PortsInv, NEW p \in Ports
  PROVE  Cardinality({l \in NewOpened : l.portNumber = p /\ AsksRedirect(l)}) \in Nat
<1> DEFINE L == {l \in NewOpened : l.portNumber = p /\ AsksRedirect(l)}
<1>1. L \in SUBSET Listeners
  BY DEF NewOpened, PortsInv, TypeOK
<1>2. IsFiniteSet(Listeners)
  BY PortsAssumption
<1> HIDE DEF L
<1>3. IsFiniteSet(L)
  BY <1>1, <1>2, FS_Subset
<1>4. Cardinality(L) \in Nat
  BY <1>3, FS_CardinalityType
<1> QED BY <1>4 DEF L

LEMMA InitPorts == Init => PortsInv
<1> SUFFICES ASSUME Init PROVE PortsInv
  OBVIOUS
<1>1. Len(Redirects) \in Nat /\ DOMAIN Redirects = 1..Len(Redirects)
  BY PortsAssumption
<1>2. TypeOK
  <2>1. NoForwards \in [Ports -> Endpoints \cup {None}]
    BY DEF NoForwards
  <2>2. [p \in Ports |-> 0] \in [Ports -> Nat]
    OBVIOUS
  <2>3. listening \subseteq Listeners /\ opens \in 0..MaxOpens
    BY PortsAssumption DEF Init
  <2>4. redirectPorts \in Seq(Endpoints)
    BY PortsAssumption DEF Init
  <2>5. shown \in [ports : SUBSET Ports,
                   forwards : [Ports -> Endpoints \cup {None}]]
    BY <2>1 DEF Init
  <2> QED BY <2>1, <2>2, <2>3, <2>4, <2>5 DEF Init, TypeOK
<1>3. PoolInv
  <2>1. \A i, j \in 1..Len(redirectPorts) :
          redirectPorts[i] = redirectPorts[j] => i = j
    BY <1>1, PortsAssumption DEF Init, IsInjective
  <2>2. \A e \in Endpoints : InPool(e)
    BY <1>1 DEF Init, InPool, Endpoints, ToSet
  <2>3. servers = {}
    BY DEF Init
  <2> QED BY <2>1, <2>2, <2>3 DEF PoolInv
<1>4. ForwardServed
  BY DEF Init, ForwardServed, NoForwards
<1>5. ShownIsCurrent
  BY DEF Init, ShownIsCurrent
<1> QED BY <1>2, <1>3, <1>4, <1>5 DEF PortsInv

LEMMA NextPorts == PortsInv /\ [Next]_vars => PortsInv'
<1> SUFFICES ASSUME PortsInv, [Next]_vars PROVE PortsInv'
  OBVIOUS
<1> USE DEF PortsInv
<1>1. ASSUME NEW l \in Listeners, Listen(l) PROVE PortsInv'
  <2>1. TypeOK'
    BY <1>1, PortsAssumption
    DEF Listen, TypeOK, detectorVars, redirectVars
  <2>2. PoolInv' /\ ForwardServed'
    BY <1>1, RedirectUntouched DEF Listen
  <2>3. ShownIsCurrent'
    BY <1>1 DEF Listen, ShownIsCurrent, detectorVars, redirectVars
  <2> QED BY <2>1, <2>2, <2>3
<1>2. ASSUME NEW l \in Listeners, Close(l) PROVE PortsInv'
  <2>1. TypeOK'
    BY <1>2 DEF Close, TypeOK, detectorVars, redirectVars
  <2>2. PoolInv' /\ ForwardServed'
    BY <1>2, RedirectUntouched DEF Close
  <2>3. ShownIsCurrent'
    BY <1>2 DEF Close, ShownIsCurrent, detectorVars, redirectVars
  <2> QED BY <2>1, <2>2, <2>3
<1>3. ASSUME NEW t \in Tables, NEW found \in SUBSET Listeners,
             Reads(t, found), fetched' \subseteq Tables
      PROVE  PortsInv'
  <2>1. TypeOK'
    BY <1>3 DEF Reads, TypeOK, machineVars, redirectVars
  <2>2. PoolInv' /\ ForwardServed'
    BY <1>3, RedirectUntouched DEF Reads
  <2>3. ShownIsCurrent'
    BY <1>3 DEF Reads, ShownIsCurrent, redirectVars
  <2> QED BY <2>1, <2>2, <2>3
<1>4. ASSUME NEW t \in Tables, ReadTable(t) PROVE PortsInv'
  <2>1. {l \in listening : Table(l) = t /\ t \in fetched} \in SUBSET Listeners
    BY DEF TypeOK
  <2>2. fetched' \subseteq Tables
    BY <1>4 DEF ReadTable, TypeOK
  <2> QED BY <1>3, <1>4, <2>1, <2>2 DEF ReadTable
<1>5. ASSUME NEW t \in Tables, ReadFails(t) PROVE PortsInv'
  BY <1>3, <1>5 DEF ReadFails, TypeOK
<1>6. ASSUME Started PROVE PortsInv'
  <2>1. TypeOK'
    BY <1>6 DEF Started, NextScan, Show, Numbers, Ports, TypeOK, machineVars,
                redirectVars
  <2>2. PoolInv' /\ ForwardServed'
    BY <1>6, RedirectUntouched DEF Started
  <2>3. ShownIsCurrent'
    BY <1>6 DEF Started, Show, ShownIsCurrent, redirectVars
  <2> QED BY <2>1, <2>2, <2>3
<1>7. ASSUME Monitor PROVE PortsInv'
  <2>1. FreeRedirectPorts(NewClosed) /\ NewClosed \in SUBSET Ports
    BY <1>7 DEF Monitor, NewClosed, Numbers, Ports, TypeOK
  <2>2. /\ redirectPorts' \in Seq(Endpoints)
        /\ portForwards' \in [Ports -> Endpoints \cup {None}]
        /\ servers' \subseteq Endpoints \X Ports
        /\ undefinedUsed' \in BOOLEAN
        /\ PoolInv' /\ ForwardServed'
    BY <2>1, FreeKeeps
  <2>3. prompts' \in [Ports -> Nat]
    BY <1>7, NewPrompts DEF Monitor, TypeOK
  <2>4. shown' \in [ports : SUBSET Ports,
                    forwards : [Ports -> Endpoints \cup {None}]]
    BY <1>7, <2>2 DEF Monitor, Show, ShowsScan, Numbers, Ports, TypeOK
  <2>5. TypeOK'
    BY <1>7, <2>2, <2>3, <2>4 DEF Monitor, NextScan, AfterMonitor, TypeOK,
       machineVars
  <2>6. ShownIsCurrent'
    <3>1. CASE NewOpened = {} /\ NewClosed = {}
      <4>1. Numbers(openedPorts') = Numbers(openedPorts)
        BY <1>7, <3>1 DEF Monitor, NewOpened, NewClosed, Numbers
      <4>2. portForwards' = portForwards
        BY <2>1, <3>1 DEF FreeRedirectPorts, FreedEntries, TypeOK
      <4>3. shown' = shown /\ detector # "init"
        BY <1>7, <3>1 DEF Monitor
      <4> QED BY <4>1, <4>2, <4>3 DEF ShownIsCurrent
    <3>2. CASE ~(NewOpened = {} /\ NewClosed = {})
      BY <1>7, <3>2 DEF Monitor, Show, ShowsScan, ShownIsCurrent
    <3> QED BY <3>1, <3>2
  <2> QED BY <2>2, <2>5, <2>6
<1>8. ASSUME Check PROVE PortsInv'
  <2>1. TypeOK'
    BY <1>8 DEF Check, TypeOK, machineVars, redirectVars
  <2>2. PoolInv' /\ ForwardServed'
    BY <1>8, RedirectUntouched DEF Check
  <2>3. ShownIsCurrent'
    BY <1>8 DEF Check, ShownIsCurrent, redirectVars
  <2> QED BY <2>1, <2>2, <2>3
<1>9. ASSUME NEW p \in Ports, Answered(p) PROVE prompts' \in [Ports -> Nat]
  <2>1. prompts[p] - 1 \in Nat
    BY <1>9 DEF Answered, TypeOK
  <2> QED BY <1>9, <2>1 DEF Answered, TypeOK
<1>10. ASSUME NEW p \in Ports, Accept(p) PROVE PortsInv'
  <2>1. Answered(p) /\ prompts' \in [Ports -> Nat]
    BY <1>9, <1>10 DEF Accept
  <2>2. /\ redirectPorts' \in Seq(Endpoints)
        /\ portForwards' \in [Ports -> Endpoints \cup {None}]
        /\ servers' \subseteq Endpoints \X Ports
        /\ PoolInv' /\ ForwardServed'
    BY <1>10, AcceptKeeps
  <2>3. shown' = [ports |-> Numbers(openedPorts), forwards |-> portForwards']
        /\ undefinedUsed' = undefinedUsed
    BY <1>10 DEF Accept, Show
  <2>4. shown' \in [ports : SUBSET Ports,
                    forwards : [Ports -> Endpoints \cup {None}]]
    BY <2>2, <2>3 DEF Numbers, Ports, TypeOK
  <2>5. TypeOK'
    BY <2>1, <2>2, <2>3, <2>4 DEF Answered, TypeOK, machineVars, detectorVars
  <2>6. ShownIsCurrent'
    BY <2>1, <2>3 DEF Answered, ShownIsCurrent, detectorVars
  <2> QED BY <2>2, <2>5, <2>6
<1>11. ASSUME NEW p \in Ports, AcceptUndefined(p) \/ Decline(p) PROVE PortsInv'
  <2>1. Answered(p) /\ prompts' \in [Ports -> Nat]
    BY <1>9, <1>11 DEF AcceptUndefined, Decline
  <2>2. /\ UNCHANGED <<redirectPorts, portForwards, servers, shown>>
        /\ undefinedUsed' \in BOOLEAN
    BY <1>11 DEF AcceptUndefined, Decline, redirectVars, TypeOK
  <2>3. TypeOK'
    BY <2>1, <2>2 DEF Answered, TypeOK, machineVars, detectorVars
  <2>4. PoolInv' /\ ForwardServed'
    BY <2>2 DEF PoolInv, InPool, ForwardServed
  <2>5. ShownIsCurrent'
    BY <2>1, <2>2 DEF Answered, ShownIsCurrent, detectorVars
  <2> QED BY <2>3, <2>4, <2>5
<1>12. CASE UNCHANGED vars
  <2>1. TypeOK'
    BY <1>12 DEF TypeOK, vars, machineVars, detectorVars, redirectVars
  <2>2. PoolInv' /\ ForwardServed'
    BY <1>12, RedirectUntouched DEF vars
  <2>3. ShownIsCurrent'
    BY <1>12 DEF ShownIsCurrent, vars, detectorVars, redirectVars
  <2> QED BY <2>1, <2>2, <2>3
<1> QED
  BY <1>1, <1>2, <1>4, <1>5, <1>6, <1>7, <1>8, <1>10, <1>11, <1>12
  DEF Next, DetectorStep

LEMMA PortsInvariant == Spec => []PortsInv
BY InitPorts, NextPorts, PTL DEF Spec

------------------------------------------------------------------------------
(* The theorems. *)

\* Counting: an endpoint is in the pool once and unserved, or the reverse.
LEMMA FreeOrServed == PortsInv => RedirectFreeOrServed
<1> SUFFICES ASSUME PortsInv, NEW e \in Endpoints
             PROVE  Cardinality(Pooled(e)) + Cardinality(Served(e)) = 1
  BY DEF RedirectFreeOrServed
<1> USE DEF PortsInv
<1>1. CASE InPool(e)
  <2>1. PICK i \in 1..Len(redirectPorts) : redirectPorts[i] = e
    BY <1>1 DEF InPool
  <2>2. Pooled(e) = {i}
    BY <2>1 DEF Pooled, PoolInv
  <2>3. Served(e) = {}
    BY <1>1 DEF Served, PoolInv
  <2>4. Cardinality(Pooled(e)) = 1 /\ Cardinality(Served(e)) = 0
    BY <2>2, <2>3, FS_Singleton, FS_EmptySet
  <2> QED BY <2>4
<1>2. CASE ~InPool(e)
  <2>1. PICK s \in servers : s[1] = e
    BY <1>2 DEF PoolInv
  <2>2. Served(e) = {s}
    BY <2>1 DEF Served, PoolInv
  <2>3. Pooled(e) = {}
    BY <1>2 DEF Pooled, InPool
  <2>4. Cardinality(Pooled(e)) = 0 /\ Cardinality(Served(e)) = 1
    BY <2>2, <2>3, FS_Singleton, FS_EmptySet
  <2> QED BY <2>4
<1> QED BY <1>1, <1>2

\* The variables of the ports plugin keep their types.
THEOREM PortsTypeCorrect == Spec => []TypeOK
<1>1. PortsInv => TypeOK
  BY DEF PortsInv
<1> QED BY <1>1, PortsInvariant, PTL

\* Every redirect endpoint is in the pool once or has exactly one server:
\* askRedirect and freeRedirectPort never give one twice nor lose one.
THEOREM RedirectsAccounted == Spec => []RedirectFreeOrServed
BY FreeOrServed, PortsInvariant, PTL

\* Every forward in portForwards has a running server leading to its port.
THEOREM ForwardsServed == Spec => []ForwardServed
<1>1. PortsInv => ForwardServed
  BY DEF PortsInv
<1> QED BY <1>1, PortsInvariant, PTL

\* Between callbacks the tree shows the last scan and the current forwards.
THEOREM TreeCurrent == Spec => []ShownIsCurrent
<1>1. PortsInv => ShownIsCurrent
  BY DEF PortsInv
<1> QED BY <1>1, PortsInvariant, PTL
=============================================================================
