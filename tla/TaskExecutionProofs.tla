-------------------------- MODULE TaskExecutionProofs --------------------------
(***************************************************************************)
(* For any tabs, tasks, sockets and faults: however many connections tell  *)
(* of it, the end of a task is reported to the editor once at most; it is  *)
(* reported whenever the socket of the task did not break and the end did  *)
(* not overtake the answer; and the icon of a terminal that had its id     *)
(* then shows it, unless the terminal opens later.                         *)
(***************************************************************************)
EXTENDS TaskExecution, FiniteSetTheorems, SequenceTheorems, TLAPS

Phases == {"idle", "fetching", "opening", "requested", "created", "running", "over"}

States == {"unused", "connecting", "open", "waiting", "closed"}

Run == [phase : Phases, tab : Tabs \cup {None}, host : Tabs \cup {None},
        socket : Sockets \cup {None}]

Down == [kind : {"created", "exit"}, task : Calls]

Up == [kind : {"ran", "failed", "exit"}, task : Calls]

Once(s) == \A i, j \in 1..Len(s) : s[i] = s[j] => i = j

\* The types of the variables that connections and runs are made of.
Connected ==
  /\ clients \in Seq(Tabs) /\ Once(clients) /\ endpoint \subseteq Tabs
  /\ connection \in [Tabs -> Sockets \cup {None}]
  /\ socket \in [Sockets -> [state : States, tab : Tabs \cup {None}]]
  /\ run \in [Callers -> Run]

\* The types of what is told, and of what is shown.
Told ==
  /\ down \in [Sockets -> Seq(Down)] /\ up \in [Tabs -> Seq(Up)]
  /\ toTab \in [Tabs -> Seq(Up)] /\ statuses \in [Tabs -> Seq(Calls)]
  /\ cheTasks \in Seq(Calls) /\ reports \in [Calls -> Nat] /\ ended \subseteq Calls
  /\ terminal \in [Calls -> {"none", "created", "starting", "attached", "detached", "open",
                             "unopened", "lost", "restarting"}]
  /\ icon \in [Calls -> {"none", "IN_PROGRESS", "ENDED", "ERROR"}]

\* A run goes over a socket of its host, which is open when a process is asked
\* for; only open sockets have messages on them.
Links ==
  /\ \A t \in Tabs : connection[t] # None =>
       socket[connection[t]] = [state |-> "open", tab |-> t]
  /\ \A k \in Sockets : socket[k].state # "open" => down[k] = <<>>
  /\ \A k \in Sockets : socket[k].state # "unused" => socket[k].tab \in Tabs
  /\ \A c \in Callers : run[c].phase = "fetching" => run[c].host \in Tabs
  /\ \A c \in Callers : run[c].phase \in {"opening", "requested"} =>
       /\ run[c].socket \in Sockets
       /\ socket[run[c].socket].tab = run[c].host
       /\ socket[run[c].socket].state # "unused"
  /\ \A c \in Callers : run[c].phase = "requested" =>
       c \in Calls /\ socket[run[c].socket].state = "open"

TaskShape == Connected /\ Told /\ Links

\* An answer is nowhere twice.
OnlyOne(q) ==
  \A k, l \in DOMAIN q : \A i \in 1..Len(q[k]), j \in 1..Len(q[l]) :
    q[k][i].kind \in {"created", "ran"} /\ q[l][j] = q[k][i] => k = l /\ i = j

\* The answer that a process was created is told once, recorded once and
\* reported once, and is at one of these stages at a time; an end is only told
\* of processes that ended.
Stages ==
  /\ OnlyOne(down) /\ OnlyOne(up) /\ Once(cheTasks)
  /\ \A k \in Sockets : \A i \in 1..Len(down[k]) :
       IF down[k][i].kind = "created" THEN run[down[k][i].task].phase = "created"
       ELSE down[k][i].task \in ended
  /\ \A t \in Tabs : \A i \in 1..Len(up[t]) :
       /\ up[t][i].kind = "exit" => up[t][i].task \in ended
       /\ up[t][i].kind = "ran" =>
            /\ run[up[t][i].task].phase = "running" /\ reports[up[t][i].task] = 0
            /\ \A j \in 1..Len(cheTasks) : cheTasks[j] # up[t][i].task
  /\ \A j \in 1..Len(cheTasks) :
       run[cheTasks[j]].phase = "running" /\ reports[cheTasks[j]] = 0
  /\ \A c \in Calls : reports[c] \in {0, 1}
                      /\ (reports[c] = 1 => c \in ended /\ run[c].phase = "running")

TaskInv == TaskShape /\ Stages

------------------------------------------------------------------------------
(* Sequences. *)

LEMMA AppendAt ==
  ASSUME NEW S, NEW s \in Seq(S), NEW x \in S
  PROVE  /\ Append(s, x) \in Seq(S) /\ Len(Append(s, x)) = Len(s) + 1 /\ Len(s) \in Nat
         /\ \A i \in 1..Len(s) + 1 : Append(s, x)[i] = IF i = Len(s) + 1 THEN x ELSE s[i]
OBVIOUS

LEMMA TailAt ==
  ASSUME NEW S, NEW s \in Seq(S), s # <<>>
  PROVE  /\ Tail(s) \in Seq(S) /\ Len(Tail(s)) = Len(s) - 1 /\ Len(s) \in Nat \ {0}
         /\ \A i \in 1..Len(s) - 1 : Tail(s)[i] = s[i + 1]
         /\ Head(s) \in S /\ Head(s) = s[1]
OBVIOUS

LEMMA InRange ==
  ASSUME NEW S, NEW s \in Seq(S), NEW e
  PROVE  e \in Range(s) <=> \E i \in 1..Len(s) : s[i] = e
<1>1. DOMAIN s = 1..Len(s)
  OBVIOUS
<1> QED BY <1>1 DEF Range

LEMMA RemovedAt ==
  ASSUME NEW S, NEW s \in Seq(S), NEW m \in 1..Len(s)
  PROVE  /\ RemoveAt(s, m) \in Seq(S) /\ Len(RemoveAt(s, m)) = Len(s) - 1
         /\ \A i \in 1..Len(s) - 1 : RemoveAt(s, m)[i] = IF i < m THEN s[i] ELSE s[i + 1]
<1>1. Len(s) \in Nat \ {0} /\ m \in Nat \ {0} /\ m <= Len(s)
  OBVIOUS
<1> DEFINE a == SubSeq(s, 1, m - 1)
           b == SubSeq(s, m + 1, Len(s))
<1>2. a \in Seq(S) /\ Len(a) = m - 1 /\ \A i \in 1..m - 1 : a[i] = s[i]
  BY <1>1
<1>3. b \in Seq(S) /\ Len(b) = Len(s) - m /\ \A i \in 1..Len(s) - m : b[i] = s[i + m]
  BY <1>1
<1> HIDE DEF a, b
<1>4. /\ a \o b \in Seq(S) /\ Len(a \o b) = Len(s) - 1
      /\ \A i \in 1..Len(s) - 1 : (a \o b)[i] = IF i <= m - 1 THEN a[i] ELSE b[i - (m - 1)]
  <2>1. /\ a \o b \in Seq(S) /\ Len(a \o b) = Len(a) + Len(b)
        /\ \A i \in 1..Len(a) + Len(b) :
             (a \o b)[i] = IF i <= Len(a) THEN a[i] ELSE b[i - Len(a)]
    BY <1>2, <1>3, ConcatProperties
  <2>2. Len(a) + Len(b) = Len(s) - 1
    BY <1>1, <1>2, <1>3
  <2> QED BY <2>1, <2>2, <1>2
<1>5. ASSUME NEW i \in 1..Len(s) - 1
      PROVE  (a \o b)[i] = IF i < m THEN s[i] ELSE s[i + 1]
  <2>1. CASE i < m
    BY <1>1, <1>2, <1>4, <2>1
  <2>2. CASE ~(i < m)
    <3>1. i - (m - 1) \in 1..Len(s) - m /\ i - (m - 1) + m = i + 1
      BY <1>1, <2>2
    <3>2. b[i - (m - 1)] = s[i + 1]
      BY <3>1, <1>3
    <3> QED BY <1>1, <1>4, <2>2, <3>2
  <2> QED BY <2>1, <2>2
<1> QED BY <1>4, <1>5 DEF RemoveAt, a, b

\* RemoveFirst, where nothing is twice.
LEMMA RemovedOnce ==
  ASSUME NEW S, NEW s \in Seq(S), Once(s), NEW e, \E i \in 1..Len(s) : s[i] = e
  PROVE  /\ RemoveFirst(s, e) \in Seq(S) /\ Once(RemoveFirst(s, e))
         /\ \A i \in 1..Len(RemoveFirst(s, e)) :
              RemoveFirst(s, e)[i] # e /\ \E j \in 1..Len(s) : s[j] = RemoveFirst(s, e)[i]
<1>1. PICK m \in 1..Len(s) : s[m] = e
  OBVIOUS
<1>2. {i \in 1..Len(s) : s[i] = e} = {m}
  BY <1>1 DEF Once
<1>3. Min({m}) = m
  BY DEF Min
<1>4. RemoveFirst(s, e) = RemoveAt(s, m)
  BY <1>1, <1>2, <1>3 DEF RemoveFirst, SelectInSeq
<1> DEFINE r == RemoveAt(s, m)
<1>5. /\ r \in Seq(S) /\ Len(r) = Len(s) - 1 /\ Len(s) \in Nat /\ m \in 1..Len(s)
      /\ \A i \in 1..Len(s) - 1 : r[i] = IF i < m THEN s[i] ELSE s[i + 1]
  BY RemovedAt
<1> HIDE DEF r
<1>6. \A i \in 1..Len(r) : r[i] # e /\ \E j \in 1..Len(s) : s[j] = r[i]
  <2> TAKE i \in 1..Len(r)
  <2>1. PICK j \in 1..Len(s) : r[i] = s[j] /\ j # m
    <3>1. CASE i < m
      BY <1>5, <3>1
    <3>2. CASE ~(i < m)
      <4>1. i + 1 \in 1..Len(s) /\ i + 1 # m
        BY <1>5, <3>2
      <4> QED BY <1>5, <3>2, <4>1
    <3> QED BY <3>1, <3>2
  <2> QED BY <1>1, <2>1 DEF Once
<1>7. Once(r)
  <2> SUFFICES ASSUME NEW i \in 1..Len(r), NEW j \in 1..Len(r), r[i] = r[j]
               PROVE  i = j
    BY DEF Once
  <2>1. i \in 1..Len(s) - 1 /\ j \in 1..Len(s) - 1
    BY <1>5
  <2>2. i \in 1..Len(s) /\ i + 1 \in 1..Len(s) /\ j \in 1..Len(s) /\ j + 1 \in 1..Len(s)
    BY <1>5
  <2>3. \A a, b \in 1..Len(s) : s[a] = s[b] => a = b
    BY DEF Once
  <2>4. CASE i < m /\ j < m
    BY <1>5, <2>1, <2>2, <2>3, <2>4
  <2>5. CASE i < m /\ ~(j < m)
    <3>1. s[i] = s[j + 1]
      BY <1>5, <2>1, <2>5
    <3>2. i = j + 1
      BY <2>2, <2>3, <3>1
    <3> QED BY <3>2, <2>5, <2>1, <1>5
  <2>6. CASE ~(i < m) /\ j < m
    <3>1. s[i + 1] = s[j]
      BY <1>5, <2>1, <2>6
    <3>2. i + 1 = j
      BY <2>2, <2>3, <3>1
    <3> QED BY <3>2, <2>6, <2>1, <1>5
  <2>7. CASE ~(i < m) /\ ~(j < m)
    <3>1. s[i + 1] = s[j + 1]
      BY <1>5, <2>1, <2>7
    <3>2. i + 1 = j + 1
      BY <2>2, <2>3, <3>1
    <3> QED BY <3>2, <2>1
  <2> QED BY <2>4, <2>5, <2>6, <2>7
<1> QED BY <1>4, <1>5, <1>6, <1>7 DEF r

LEMMA OrderOf ==
  ASSUME NEW S, IsFiniteSet(S)
  PROVE  SetToSeq(S) \in Seq(S) /\ Once(SetToSeq(S))
<1> DEFINE n == Cardinality(S)
<1>1. n \in Nat /\ ExistsBijection(1..n, S)
  BY FS_CardinalityType
<1>2. PICK f \in Bijection(1..n, S) : TRUE
  BY <1>1 DEF ExistsBijection
<1>3. f \in [1..n -> S] /\ IsInjective(f)
  BY <1>2 DEF Bijection, Injection, IsInjective
<1>4. SetToSeq(S) \in [1..n -> S] /\ IsInjective(SetToSeq(S))
  BY <1>3 DEF SetToSeq
<1> HIDE DEF n
<1>5. SetToSeq(S) \in Seq(S) /\ Len(SetToSeq(S)) = n
  BY <1>1, <1>4
<1> QED BY <1>4, <1>5 DEF Once, IsInjective

------------------------------------------------------------------------------
(* The types. *)

LEMMA PhaseSet ==
  ASSUME NEW r \in Run, NEW ph \in Phases
  PROVE  LET s == [r EXCEPT !.phase = ph]
         IN  /\ s \in Run /\ s.phase = ph /\ s.tab = r.tab /\ s.host = r.host
             /\ s.socket = r.socket
BY DEF Run

\* The one message on its way that a rejection adds.
OldOr(q, r, kind) ==
  \A k \in DOMAIN q : \A i \in 1..Len(r[k]) :
    r[k][i].kind = kind \/ (i \in 1..Len(q[k]) /\ r[k][i] = q[k][i])

\* What was in the queues is in them where it was.
Extends(q, r) ==
  \A k \in DOMAIN q : \A i \in 1..Len(q[k]) : i \in 1..Len(r[k]) /\ r[k][i] = q[k][i]

LEMMA Rejected ==
  ASSUME TaskShape, NEW callers, Reject(callers)
  PROVE  /\ run' \in [Callers -> Run]
         /\ \A c \in Callers : /\ run'[c].phase = IF c \in callers THEN "over" ELSE run[c].phase
                               /\ run'[c].socket = run[c].socket
                               /\ run'[c].host = run[c].host
         /\ up' \in [Tabs -> Seq(Up)]
         /\ OldOr(up, up', "failed") /\ Extends(up, up')
<1>1. /\ run \in [Callers -> Run] /\ up \in [Tabs -> Seq(Up)]
      /\ run' = [c \in Callers |-> IF c \in callers THEN [run[c] EXCEPT !.phase = "over"]
                                   ELSE run[c]]
  BY DEF TaskShape, Connected, Told, Reject
<1>2. \A c \in Callers : /\ run'[c] \in Run
                         /\ run'[c].phase = IF c \in callers THEN "over" ELSE run[c].phase
                         /\ run'[c].socket = run[c].socket
                         /\ run'[c].host = run[c].host
  <2> TAKE c \in Callers
  <2>1. run[c] \in Run /\ "over" \in Phases
    BY <1>1 DEF Phases
  <2>2. CASE c \in callers
    BY <1>1, <2>1, <2>2, PhaseSet
  <2>3. CASE c \notin callers
    BY <1>1, <2>1, <2>3
  <2> QED BY <2>2, <2>3
<1>3. run' \in [Callers -> Run]
  BY <1>1, <1>2
<1> DEFINE D(t) == {d \in callers \cap Calls : run[d].host = t}
           F(t) == {[kind |-> "failed", task |-> c] : c \in D(t)}
           S(t) == SetToSeq(F(t))
<1>4. up' = [t \in Tabs |-> up[t] \o S(t)]
  BY DEF Reject
<1>5. \A t \in Tabs : S(t) \in Seq(F(t)) /\ F(t) \subseteq Up
  <2> TAKE t \in Tabs
  <2>1. IsFiniteSet(D(t))
    BY CallsAssumption, FS_Subset
  <2>2. [c \in D(t) |-> [kind |-> "failed", task |-> c]] \in Surjection(D(t), F(t))
    BY DEF Surjection
  <2>3. IsFiniteSet(F(t))
    BY <2>1, <2>2, FS_Surjection
  <2>4. F(t) \subseteq Up
    BY DEF Up
  <2> QED BY <2>3, <2>4, OrderOf
<1>6. \A t \in Tabs : /\ up'[t] \in Seq(Up)
                      /\ \A i \in 1..Len(up'[t]) :
                           up'[t][i].kind = "failed" \/ (i \in 1..Len(up[t]) /\ up'[t][i] = up[t][i])
                      /\ \A i \in 1..Len(up[t]) : i \in 1..Len(up'[t]) /\ up'[t][i] = up[t][i]
  <2> TAKE t \in Tabs
  <2> HIDE DEF S
  <2>1. up[t] \in Seq(Up) /\ S(t) \in Seq(Up) /\ up'[t] = up[t] \o S(t)
    <3>1. S(t) \in Seq(F(t)) /\ F(t) \subseteq Up
      BY <1>5
    <3>2. S(t) \in Seq(Up)
      <4> HIDE DEF F
      <4> QED BY <3>1, SeqMonotonic
    <3> QED BY <1>1, <1>4, <3>2
  <2>2. \A i \in 1..Len(S(t)) : S(t)[i].kind = "failed"
    <3>1. S(t) \in Seq(F(t))
      BY <1>5
    <3>2. \A i \in 1..Len(S(t)) : S(t)[i] \in F(t)
      <4> HIDE DEF F
      <4> QED BY <3>1
    <3> QED BY <3>2
  <2>3. /\ up'[t] \in Seq(Up) /\ Len(up'[t]) = Len(up[t]) + Len(S(t))
        /\ \A i \in 1..Len(up[t]) + Len(S(t)) :
             up'[t][i] = IF i <= Len(up[t]) THEN up[t][i] ELSE S(t)[i - Len(up[t])]
    BY <2>1, ConcatProperties
  <2>4. Len(up[t]) \in Nat /\ Len(S(t)) \in Nat
    BY <2>1
  <2>5. ASSUME NEW i \in 1..Len(up'[t])
        PROVE  up'[t][i].kind = "failed" \/ (i \in 1..Len(up[t]) /\ up'[t][i] = up[t][i])
    <3>1. CASE i <= Len(up[t])
      BY <2>3, <2>4, <3>1
    <3>2. CASE ~(i <= Len(up[t]))
      <4>1. i - Len(up[t]) \in 1..Len(S(t)) /\ up'[t][i] = S(t)[i - Len(up[t])]
        BY <2>3, <2>4, <3>2
      <4> QED BY <4>1, <2>2
    <3> QED BY <3>1, <3>2
  <2>6. \A i \in 1..Len(up[t]) : i \in 1..Len(up'[t]) /\ up'[t][i] = up[t][i]
    BY <2>3, <2>4
  <2> QED BY <2>3, <2>5, <2>6
<1>7. up' \in [Tabs -> Seq(Up)] /\ DOMAIN up = Tabs
  BY <1>1, <1>4, <1>6
<1> QED BY <1>2, <1>3, <1>6, <1>7 DEF OldOr, Extends

\* What a step leaves alone that neither creates a process nor tells of one.
Untold ==
  /\ \A c \in Calls : run[c].phase \in {"created", "running"} => run'[c].phase = run[c].phase
  /\ \A k \in Sockets : \A i \in 1..Len(down'[k]) :
       \/ i \in 1..Len(down[k]) /\ down'[k][i] = down[k][i]
       \/ down'[k][i].kind = "exit" /\ down'[k][i].task \in ended'
  /\ OldOr(up, up', "failed")
  /\ ended \subseteq ended' /\ cheTasks' = cheTasks /\ reports' = reports

LEMMA SocketCreated ==
  ASSUME TaskShape, NEW c \in Callers, run[c].phase \in {"idle", "fetching"},
         NEW asked \in Run, asked.host \in Tabs, CreateConnection(c, asked), down' = down
  PROVE  /\ connection' \in [Tabs -> Sockets \cup {None}]
         /\ socket' \in [Sockets -> [state : States, tab : Tabs \cup {None}]]
         /\ run' \in [Callers -> Run]
         /\ \A d \in Callers : run[d].phase \in {"created", "running"} => run'[d] = run[d]
         /\ Links'
<1>1. PICK k \in Sockets :
        /\ socket[k] = NoSocket
        /\ socket' = [socket EXCEPT ![k] = [state |-> "connecting", tab |-> asked.host]]
        /\ run' = [run EXCEPT ![c] = [asked EXCEPT !.phase = "opening", !.socket = k]]
        /\ connection' = connection
  BY DEF CreateConnection
<1> DEFINE new == [asked EXCEPT !.phase = "opening", !.socket = k]
<1>2. new \in Run /\ new.phase = "opening" /\ new.socket = k /\ new.host = asked.host
  BY DEF Run, Phases
<1>3. /\ run \in [Callers -> Run] /\ socket \in [Sockets -> [state : States, tab : Tabs \cup {None}]]
      /\ connection \in [Tabs -> Sockets \cup {None}]
  BY DEF TaskShape, Connected
<1>4. run' = [run EXCEPT ![c] = new]
  BY <1>1
<1> HIDE DEF new
<1>5. \A d \in Callers : run'[d] = IF d = c THEN new ELSE run[d]
  BY <1>3, <1>4
<1>6. \A l \in Sockets : socket'[l] = IF l = k THEN [state |-> "connecting", tab |-> asked.host]
                                      ELSE socket[l]
  BY <1>1, <1>3
<1>7. run' \in [Callers -> Run]
  BY <1>2, <1>3, <1>4
<1>8. socket' \in [Sockets -> [state : States, tab : Tabs \cup {None}]]
  BY <1>1, <1>3 DEF States
<1>9. Links'
  <2>1. socket[k].state = "unused"
    BY <1>1 DEF NoSocket
  <2>2. ASSUME NEW t \in Tabs, connection'[t] # None
        PROVE  socket'[connection'[t]] = [state |-> "open", tab |-> t]
    <3>1. connection[t] \in Sockets /\ socket[connection[t]] = [state |-> "open", tab |-> t]
      BY <1>1, <1>3, <2>2 DEF TaskShape, Links
    <3> QED BY <1>1, <1>6, <2>1, <3>1
  <2>3. \A l \in Sockets : /\ socket'[l].state # "open" => down'[l] = <<>>
                           /\ socket'[l].state # "unused" => socket'[l].tab \in Tabs
    BY <1>6, <2>1 DEF TaskShape, Links
  <2>4. ASSUME NEW d \in Callers
        PROVE  /\ run'[d].phase = "fetching" => run'[d].host \in Tabs
               /\ run'[d].phase \in {"opening", "requested"} =>
                    /\ run'[d].socket \in Sockets
                    /\ socket'[run'[d].socket].tab = run'[d].host
                    /\ socket'[run'[d].socket].state # "unused"
               /\ run'[d].phase = "requested" =>
                    d \in Calls /\ socket'[run'[d].socket].state = "open"
    <3>1. CASE d = c
      BY <1>2, <1>5, <1>6, <3>1
    <3>2. CASE d # c
      BY <1>5, <1>6, <2>1, <3>2 DEF TaskShape, Links
    <3> QED BY <3>1, <3>2
  <2> QED BY <2>2, <2>3, <2>4 DEF Links
<1> QED BY <1>1, <1>3, <1>5, <1>7, <1>8, <1>9

LEMMA FirstClient ==
  ASSUME TaskShape, NEW t \in Tabs, Open(t)
  PROVE  Head(clients) \in Tabs
<1>1. clients \in Seq(Tabs)
  BY DEF TaskShape, Connected
<1>2. clients # <<>>
  BY DEF Open, Range
<1> QED BY <1>1, <1>2

LEMMA ConnectTabShape ==
  ASSUME TaskShape, NEW t \in Tabs, ConnectTab(t)
  PROVE  TaskShape' /\ Untold
<1>1. /\ ~Open(t) /\ clients' = Append(clients, t)
      /\ UNCHANGED <<endpoint, connection, socket, down, run, ended, up, toTab, cheTasks, reports,
                     terminal, icon, statuses>>
  BY DEF ConnectTab, client, view
<1>2. clients \in Seq(Tabs) /\ Once(clients)
  BY DEF TaskShape, Connected
<1>3. \A i \in 1..Len(clients) : clients[i] # t
  BY <1>1, <1>2, InRange DEF Open
<1>4. /\ clients' \in Seq(Tabs) /\ Len(clients') = Len(clients) + 1 /\ Len(clients) \in Nat
      /\ \A i \in 1..Len(clients) + 1 :
           clients'[i] = IF i = Len(clients) + 1 THEN t ELSE clients[i]
  BY <1>1, <1>2, AppendAt
<1>5. Once(clients')
  BY <1>2, <1>3, <1>4 DEF Once
<1>6. Connected' /\ Told' /\ Links'
  BY <1>1, <1>4, <1>5 DEF TaskShape, Connected, Told, Links
<1>7. Untold
  BY <1>1 DEF Untold, OldOr
<1> QED BY <1>6, <1>7 DEF TaskShape

LEMMA HostStartsShape ==
  ASSUME TaskShape, NEW t \in Tabs, HostStarts(t)
  PROVE  TaskShape' /\ Untold
<1> DEFINE new == [Idle EXCEPT !.phase = "fetching", !.host = t]
<1>1. /\ run' = [run EXCEPT ![t] = new] /\ t \in Callers /\ t \notin Calls
      /\ UNCHANGED <<endpoint, connection, socket, down, ended, up, toTab, clients, cheTasks, reports,
                     terminal, icon, statuses>>
  BY CallsAssumption DEF HostStarts, client, service, view, Callers
<1>2. new \in Run /\ new.phase = "fetching" /\ new.host = t
  BY DEF Idle, Run, Phases
<1> HIDE DEF new
<1>3. /\ run' \in [Callers -> Run] /\ Calls \subseteq Callers
      /\ \A d \in Callers : run'[d] = IF d = t THEN new ELSE run[d]
  BY <1>1, <1>2 DEF TaskShape, Connected, Callers
<1>4. Links'
  BY <1>1, <1>2, <1>3 DEF TaskShape, Links
<1>5. Connected' /\ Told'
  BY <1>1, <1>3 DEF TaskShape, Connected, Told, Once
<1>6. Untold
  BY <1>1, <1>3 DEF Untold, OldOr
<1> QED BY <1>4, <1>5, <1>6 DEF TaskShape

\* A run that starts, at a client without a handler or with one.
LEMMA RunTaskShape ==
  ASSUME TaskShape, NEW c \in Calls, NEW t \in Tabs, RunTask(c, t)
  PROVE  TaskShape' /\ Untold
<1> DEFINE host == Head(clients)
           asked == [Idle EXCEPT !.tab = t, !.host = host]
           ready == [asked EXCEPT !.phase = "requested", !.socket = connection[host]]
           waits == [asked EXCEPT !.phase = "fetching"]
           over == [asked EXCEPT !.phase = "over"]
           failed == [kind |-> "failed", task |-> c]
<1>1. run[c] = Idle /\ host \in Tabs /\ c \in Callers
  BY FirstClient DEF RunTask, Callers, Started
<1>2. /\ run \in [Callers -> Run] /\ socket \in [Sockets -> [state : States, tab : Tabs \cup {None}]]
      /\ connection \in [Tabs -> Sockets \cup {None}] /\ up \in [Tabs -> Seq(Up)]
  BY DEF TaskShape, Connected, Told
<1>3. asked \in Run /\ asked.host = host /\ asked.tab = t
  BY <1>1 DEF Idle, Run, Phases
<1>4. /\ waits \in Run /\ waits.phase = "fetching" /\ waits.host = host
      /\ over \in Run /\ over.phase = "over"
  BY <1>1 DEF Idle, Run, Phases
<1>5. connection[host] # None => /\ ready \in Run /\ ready.phase = "requested"
                                 /\ ready.host = host /\ ready.socket = connection[host]
  BY <1>1, <1>2 DEF Idle, Run, Phases
<1>6. \/ /\ connection[host] # None /\ run' = [run EXCEPT ![c] = ready]
         /\ UNCHANGED <<connection, socket, up>>
      \/ CreateConnection(c, asked) /\ up' = up
      \/ run' = [run EXCEPT ![c] = waits] /\ UNCHANGED <<connection, socket, up>>
      \/ /\ run' = [run EXCEPT ![c] = over] /\ UNCHANGED <<connection, socket>>
         /\ up' = [up EXCEPT ![host] = Append(@, failed)]
  BY <1>3 DEF RunTask, GetConnection, Send
<1>7. down' = down /\ run[c].phase = "idle" /\ ended' = ended
      /\ cheTasks' = cheTasks /\ reports' = reports /\ toTab' = toTab
      /\ statuses' = statuses /\ clients' = clients /\ endpoint' = endpoint
  BY <1>1 DEF RunTask, service, Idle
<1>8. failed \in Up /\ failed.kind = "failed"
  BY DEF Up
<1> HIDE DEF host, asked, ready, waits, over, failed
<1>9. /\ connection' \in [Tabs -> Sockets \cup {None}]
      /\ socket' \in [Sockets -> [state : States, tab : Tabs \cup {None}]]
      /\ run' \in [Callers -> Run]
      /\ \A d \in Callers : run[d].phase \in {"created", "running"} => run'[d] = run[d]
      /\ Links'
  <2>1. CASE CreateConnection(c, asked)
    BY <1>1, <1>3, <1>7, <2>1, SocketCreated
  <2>2. CASE connection[host] # None /\ run' = [run EXCEPT ![c] = ready]
             /\ UNCHANGED <<connection, socket>>
    <3>1. \A d \in Callers : run'[d] = IF d = c THEN ready ELSE run[d]
      BY <1>1, <1>2, <2>2
    <3>2. socket[connection[host]] = [state |-> "open", tab |-> host] /\ connection[host] \in Sockets
      BY <1>1, <1>2, <2>2 DEF TaskShape, Links
    <3>3. Links'
      BY <1>5, <1>7, <2>2, <3>1, <3>2 DEF TaskShape, Links
    <3> QED BY <1>1, <1>2, <1>5, <1>7, <2>2, <3>1, <3>3
  <2>3. ASSUME NEW new \in Run, new.phase \in {"fetching", "over"},
               new.phase = "fetching" => new.host = host,
               run' = [run EXCEPT ![c] = new], UNCHANGED <<connection, socket>>
        PROVE  /\ run' \in [Callers -> Run]
               /\ \A d \in Callers : run[d].phase \in {"created", "running"} => run'[d] = run[d]
               /\ Links'
    <3>1. \A d \in Callers : run'[d] = IF d = c THEN new ELSE run[d]
      BY <1>1, <1>2, <2>3
    <3>2. Links'
      BY <1>1, <1>7, <2>3, <3>1 DEF TaskShape, Links
    <3> QED BY <1>1, <1>2, <1>7, <2>3, <3>1, <3>2
  <2> QED BY <1>2, <1>4, <1>6, <2>1, <2>2, <2>3
<1>10. /\ up' \in [Tabs -> Seq(Up)] /\ OldOr(up, up', "failed")
  <2>1. CASE up' = up
    BY <1>2, <2>1 DEF OldOr
  <2>2. CASE up' = [up EXCEPT ![host] = Append(@, failed)]
    <3>1. /\ Append(up[host], failed) \in Seq(Up) /\ Len(up[host]) \in Nat
          /\ Len(Append(up[host], failed)) = Len(up[host]) + 1
          /\ \A i \in 1..Len(up[host]) + 1 :
               Append(up[host], failed)[i] = IF i = Len(up[host]) + 1 THEN failed ELSE up[host][i]
      BY <1>1, <1>2, <1>8, AppendAt
    <3>2. \A k \in Tabs : up'[k] = IF k = host THEN Append(up[host], failed) ELSE up[k]
      BY <1>2, <2>2
    <3>3. up' \in [Tabs -> Seq(Up)]
      BY <1>2, <2>2, <3>1
    <3>4. DOMAIN up = Tabs
      BY <1>2
    <3>5. ASSUME NEW k \in Tabs, NEW i \in 1..Len(up'[k])
          PROVE  up'[k][i].kind = "failed" \/ (i \in 1..Len(up[k]) /\ up'[k][i] = up[k][i])
      <4>1. CASE k = host
        <5>1. i \in 1..Len(up[host]) + 1 /\ up'[k] = Append(up[host], failed)
          BY <3>1, <3>2, <3>5, <4>1
        <5>2. i = Len(up[host]) + 1 \/ i \in 1..Len(up[host])
          BY <3>1, <5>1
        <5> QED BY <1>8, <3>1, <4>1, <5>1, <5>2
      <4>2. CASE k # host
        BY <3>2, <3>5, <4>2
      <4> QED BY <4>1, <4>2
    <3> QED BY <3>3, <3>4, <3>5 DEF OldOr
  <2> QED BY <1>6, <2>1, <2>2
<1>11. Connected'
  BY <1>7, <1>9 DEF TaskShape, Connected, Once
<1>12. Told'
  BY <1>7, <1>10 DEF RunTask, TaskShape, Told
<1>13. Untold
  <2>1. Calls \subseteq Callers
    BY DEF Callers
  <2> QED BY <1>7, <1>9, <1>10, <2>1 DEF Untold
<1> QED BY <1>9, <1>11, <1>12, <1>13 DEF TaskShape

LEMMA EndpointShape ==
  ASSUME TaskShape, NEW c \in Callers, EndpointFetched(c)
  PROVE  TaskShape' /\ Untold
<1>1. /\ run[c] \in Run /\ run[c].phase = "fetching" /\ run[c].host \in Tabs
      /\ CreateConnection(c, run[c])
  BY DEF EndpointFetched, TaskShape, Connected, Links
<1>2. /\ UNCHANGED <<down, up, ended, cheTasks, reports, toTab, statuses, clients, terminal, icon>>
      /\ endpoint' = endpoint \cup {run[c].host}
  BY DEF EndpointFetched, service, view
<1>3. /\ connection' \in [Tabs -> Sockets \cup {None}]
      /\ socket' \in [Sockets -> [state : States, tab : Tabs \cup {None}]]
      /\ run' \in [Callers -> Run]
      /\ \A d \in Callers : run[d].phase \in {"created", "running"} => run'[d] = run[d]
      /\ Links'
  BY <1>1, <1>2, SocketCreated
<1>4. Connected'
  BY <1>1, <1>2, <1>3 DEF TaskShape, Connected, Once
<1>5. Told'
  BY <1>2 DEF TaskShape, Told
<1>6. Untold
  <2>1. Calls \subseteq Callers
    BY DEF Callers
  <2> QED BY <1>2, <1>3, <2>1 DEF Untold, OldOr
<1> QED BY <1>3, <1>4, <1>5, <1>6 DEF TaskShape

\* Runs that only go on to a phase without a link.
LEMMA LinksStay ==
  ASSUME TaskShape, connection' = connection, socket' = socket,
         \A k \in Sockets : socket[k].state # "open" => down'[k] = <<>>,
         \A c \in Callers : /\ run'[c].phase \in {run[c].phase, "over", "created", "running"}
                            /\ run'[c].socket = run[c].socket /\ run'[c].host = run[c].host
  PROVE  Links'
BY DEF TaskShape, Links

LEMMA MissingShape ==
  ASSUME TaskShape, NEW c \in Callers, EndpointMissing(c)
  PROVE  TaskShape' /\ Untold
<1>1. /\ run[c].phase = "fetching" /\ Reject({c})
      /\ UNCHANGED <<endpoint, connection, socket, down, ended, toTab, clients, cheTasks, reports,
                     terminal, icon, statuses>>
  BY DEF EndpointMissing, client, service, view
<1>2. /\ run' \in [Callers -> Run] /\ up' \in [Tabs -> Seq(Up)] /\ OldOr(up, up', "failed")
      /\ \A d \in Callers : /\ run'[d].phase = IF d \in {c} THEN "over" ELSE run[d].phase
                            /\ run'[d].socket = run[d].socket
                            /\ run'[d].host = run[d].host
  BY <1>1, Rejected
<1>3. Links'
  BY <1>1, <1>2, LinksStay DEF TaskShape, Links
<1>4. Connected' /\ Told'
  BY <1>1, <1>2 DEF TaskShape, Connected, Once, Told
<1>5. Untold
  <2>1. Calls \subseteq Callers
    BY DEF Callers
  <2> QED BY <1>1, <1>2, <2>1 DEF Untold
<1> QED BY <1>3, <1>4, <1>5 DEF TaskShape

LEMMA SocketSet ==
  ASSUME TaskShape, NEW k \in Sockets, NEW s \in States,
         socket' = [socket EXCEPT ![k].state = s]
  PROVE  /\ socket' \in [Sockets -> [state : States, tab : Tabs \cup {None}]]
         /\ socket'[k].state = s /\ socket'[k].tab = socket[k].tab
         /\ \A l \in Sockets : l # k => socket'[l] = socket[l]
         /\ s = "open" => socket'[k] = [state |-> "open", tab |-> socket[k].tab]
BY DEF TaskShape, Connected

LEMMA FailsShape ==
  ASSUME TaskShape, NEW k \in Sockets, SocketFails(k)
  PROVE  TaskShape' /\ Untold
<1>1. /\ socket[k].state = "connecting" /\ socket' = [socket EXCEPT ![k].state = "waiting"]
      /\ UNCHANGED <<endpoint, connection, down, ended, toTab, clients, cheTasks, reports,
                     terminal, icon, statuses>>
      /\ UNCHANGED <<run, up>> \/ Reject(OpeningOn(k))
  BY DEF SocketFails, service, view
<1>2. /\ socket' \in [Sockets -> [state : States, tab : Tabs \cup {None}]]
      /\ socket'[k].state = "waiting" /\ socket'[k].tab = socket[k].tab
      /\ \A l \in Sockets : l # k => socket'[l] = socket[l]
  <2>1. "waiting" \in States
    BY DEF States
  <2> QED BY <1>1, <2>1, SocketSet
<1>3. /\ run' \in [Callers -> Run] /\ up' \in [Tabs -> Seq(Up)] /\ OldOr(up, up', "failed")
      /\ \A d \in Callers :
           /\ run'[d].phase = run[d].phase \/ (run'[d].phase = "over" /\ run[d].phase = "opening")
           /\ run'[d].socket = run[d].socket /\ run'[d].host = run[d].host
  <2>1. CASE UNCHANGED <<run, up>>
    BY <2>1 DEF TaskShape, Connected, Told, OldOr
  <2>2. CASE Reject(OpeningOn(k))
    BY <2>2, Rejected DEF OpeningOn
  <2> QED BY <1>1, <2>1, <2>2
<1>4. Links'
  <2>1. \A t \in Tabs : connection'[t] # None =>
                          socket'[connection'[t]] = [state |-> "open", tab |-> t]
    BY <1>1, <1>2 DEF TaskShape, Connected, Links
  <2>2. \A l \in Sockets : /\ socket'[l].state # "open" => down'[l] = <<>>
                           /\ socket'[l].state # "unused" => socket'[l].tab \in Tabs
    BY <1>1, <1>2 DEF TaskShape, Links
  <2>3. \A c \in Callers :
          /\ run'[c].phase = "fetching" => run'[c].host \in Tabs
          /\ run'[c].phase \in {"opening", "requested"} =>
               /\ run'[c].socket \in Sockets
               /\ socket'[run'[c].socket].tab = run'[c].host
               /\ socket'[run'[c].socket].state # "unused"
          /\ run'[c].phase = "requested" =>
               c \in Calls /\ socket'[run'[c].socket].state = "open"
    BY <1>1, <1>2, <1>3 DEF TaskShape, Links
  <2> QED BY <2>1, <2>2, <2>3 DEF Links
<1>5. Connected' /\ Told'
  BY <1>1, <1>2, <1>3 DEF TaskShape, Connected, Once, Told
<1>6. Untold
  <2>1. Calls \subseteq Callers
    BY DEF Callers
  <2> QED BY <1>1, <1>3, <2>1 DEF Untold
<1> QED BY <1>4, <1>5, <1>6 DEF TaskShape

LEMMA OpensShape ==
  ASSUME TaskShape, NEW k \in Sockets, SocketOpens(k)
  PROVE  TaskShape' /\ Untold
<1>1. /\ socket[k].state = "connecting" /\ socket' = [socket EXCEPT ![k].state = "open"]
      /\ connection' = [connection EXCEPT ![socket[k].tab] = k]
      /\ UNCHANGED <<endpoint, down, ended, up, toTab, clients, cheTasks, reports,
                     terminal, icon, statuses>>
      /\ run' = [c \in Callers |->
                   IF c \notin OpeningOn(k) THEN run[c]
                   ELSE [run[c] EXCEPT !.phase = IF c \in Calls THEN "requested" ELSE "over"]]
  BY DEF SocketOpens, service, view
<1>2. /\ socket' \in [Sockets -> [state : States, tab : Tabs \cup {None}]]
      /\ socket'[k] = [state |-> "open", tab |-> socket[k].tab]
      /\ \A l \in Sockets : l # k => socket'[l] = socket[l]
  <2>1. "open" \in States
    BY DEF States
  <2> QED BY <1>1, <2>1, SocketSet
<1>3. socket[k].tab \in Tabs /\ connection \in [Tabs -> Sockets \cup {None}]
      /\ run \in [Callers -> Run]
  BY <1>1 DEF TaskShape, Connected, Links
<1>4. connection' \in [Tabs -> Sockets \cup {None}]
      /\ \A t \in Tabs : connection'[t] = IF t = socket[k].tab THEN k ELSE connection[t]
  BY <1>1, <1>3
<1>5. \A c \in Callers :
        /\ run'[c] \in Run /\ run'[c].socket = run[c].socket /\ run'[c].host = run[c].host
        /\ run'[c].phase = IF c \notin OpeningOn(k) THEN run[c].phase
                           ELSE IF c \in Calls THEN "requested" ELSE "over"
  <2> TAKE c \in Callers
  <2>1. run[c] \in Run /\ (IF c \in Calls THEN "requested" ELSE "over") \in Phases
    BY <1>3 DEF Phases
  <2>2. CASE c \in OpeningOn(k)
    BY <1>1, <2>1, <2>2, PhaseSet
  <2>3. CASE c \notin OpeningOn(k)
    BY <1>1, <2>1, <2>3
  <2> QED BY <2>2, <2>3
<1>6. run' \in [Callers -> Run]
  BY <1>1, <1>5
<1>7. Links'
  <2>1. ASSUME NEW t \in Tabs, connection'[t] # None
        PROVE  socket'[connection'[t]] = [state |-> "open", tab |-> t]
    <3>1. CASE t = socket[k].tab
      BY <1>2, <1>4, <3>1
    <3>2. CASE t # socket[k].tab
      <4>1. connection'[t] = connection[t] /\ connection[t] \in Sockets
        BY <1>4, <1>3, <2>1, <3>2
      <4>2. socket[connection[t]] = [state |-> "open", tab |-> t]
        BY <2>1, <4>1 DEF TaskShape, Links
      <4>3. connection[t] # k
        BY <4>2, <1>1
      <4> QED BY <4>1, <4>2, <4>3, <1>2
    <3> QED BY <3>1, <3>2
  <2>2. \A l \in Sockets : /\ socket'[l].state # "open" => down'[l] = <<>>
                           /\ socket'[l].state # "unused" => socket'[l].tab \in Tabs
    BY <1>1, <1>2, <1>3 DEF TaskShape, Links
  <2>3. ASSUME NEW c \in Callers
        PROVE  /\ run'[c].phase = "fetching" => run'[c].host \in Tabs
               /\ run'[c].phase \in {"opening", "requested"} =>
                    /\ run'[c].socket \in Sockets
                    /\ socket'[run'[c].socket].tab = run'[c].host
                    /\ socket'[run'[c].socket].state # "unused"
               /\ run'[c].phase = "requested" =>
                    c \in Calls /\ socket'[run'[c].socket].state = "open"
    <3>1. CASE c \in OpeningOn(k)
      <4>1. run[c].phase = "opening" /\ run[c].socket = k
        BY <3>1 DEF OpeningOn
      <4> QED BY <1>2, <1>5, <3>1, <4>1 DEF TaskShape, Links
    <3>2. CASE c \notin OpeningOn(k)
      <4>1. run'[c].phase = run[c].phase
        BY <1>5, <3>2
      <4> QED BY <1>2, <1>5, <4>1 DEF TaskShape, Links
    <3> QED BY <3>1, <3>2
  <2> QED BY <2>1, <2>2, <2>3 DEF Links
<1>8. Connected' /\ Told'
  BY <1>1, <1>2, <1>4, <1>6 DEF TaskShape, Connected, Once, Told
<1>9. Untold
  <2>1. Calls \subseteq Callers
    BY DEF Callers
  <2> QED BY <1>1, <1>5, <2>1 DEF Untold, OldOr, OpeningOn
<1> QED BY <1>7, <1>8, <1>9 DEF TaskShape

LEMMA ClosesShape ==
  ASSUME TaskShape, NEW k \in Sockets, SocketCloses(k)
  PROVE  TaskShape' /\ Untold
<1>1. /\ socket[k].state = "open" /\ socket' = [socket EXCEPT ![k].state = "waiting"]
      /\ connection' = [connection EXCEPT ![socket[k].tab] = None]
      /\ down' = [down EXCEPT ![k] = <<>>]
      /\ run' = [c \in Callers |-> IF run[c].phase = "requested" /\ run[c].socket = k
                                   THEN [run[c] EXCEPT !.phase = "over"] ELSE run[c]]
      /\ UNCHANGED <<endpoint, ended, up, toTab, clients, cheTasks, reports,
                     terminal, icon, statuses>>
  BY DEF SocketCloses, service, view
<1>2. /\ socket' \in [Sockets -> [state : States, tab : Tabs \cup {None}]]
      /\ socket'[k].state = "waiting" /\ socket'[k].tab = socket[k].tab
      /\ \A l \in Sockets : l # k => socket'[l] = socket[l]
  <2>1. "waiting" \in States
    BY DEF States
  <2> QED BY <1>1, <2>1, SocketSet
<1>3. socket[k].tab \in Tabs /\ connection \in [Tabs -> Sockets \cup {None}]
      /\ run \in [Callers -> Run] /\ down \in [Sockets -> Seq(Down)]
  BY <1>1 DEF TaskShape, Connected, Told, Links
<1>4. connection' \in [Tabs -> Sockets \cup {None}]
      /\ \A t \in Tabs : connection'[t] = IF t = socket[k].tab THEN None ELSE connection[t]
  BY <1>1, <1>3
<1>5. \A c \in Callers :
        /\ run'[c] \in Run /\ run'[c].socket = run[c].socket /\ run'[c].host = run[c].host
        /\ run'[c].phase = IF run[c].phase = "requested" /\ run[c].socket = k THEN "over"
                           ELSE run[c].phase
  <2> TAKE c \in Callers
  <2>1. run[c] \in Run /\ "over" \in Phases
    BY <1>3 DEF Phases
  <2>2. CASE run[c].phase = "requested" /\ run[c].socket = k
    BY <1>1, <2>1, <2>2, PhaseSet
  <2>3. CASE ~(run[c].phase = "requested" /\ run[c].socket = k)
    BY <1>1, <2>1, <2>3
  <2> QED BY <2>2, <2>3
<1>6. run' \in [Callers -> Run]
  BY <1>1, <1>5
<1>7. /\ down' \in [Sockets -> Seq(Down)] /\ down'[k] = <<>>
      /\ \A l \in Sockets : l # k => down'[l] = down[l]
  <2>1. <<>> \in Seq(Down)
    OBVIOUS
  <2> QED BY <1>1, <1>3, <2>1
<1>8. Links'
  <2>1. ASSUME NEW t \in Tabs, connection'[t] # None
        PROVE  socket'[connection'[t]] = [state |-> "open", tab |-> t]
    <3>1. t # socket[k].tab /\ connection'[t] = connection[t] /\ connection[t] \in Sockets
      BY <1>4, <1>3, <2>1
    <3>2. socket[connection[t]] = [state |-> "open", tab |-> t]
      BY <2>1, <3>1 DEF TaskShape, Links
    <3>3. connection[t] # k
      BY <3>1, <3>2
    <3> QED BY <3>1, <3>2, <3>3, <1>2
  <2>2. \A l \in Sockets : /\ socket'[l].state # "open" => down'[l] = <<>>
                           /\ socket'[l].state # "unused" => socket'[l].tab \in Tabs
    BY <1>2, <1>3, <1>7 DEF TaskShape, Links
  <2>3. \A c \in Callers :
          /\ run'[c].phase = "fetching" => run'[c].host \in Tabs
          /\ run'[c].phase \in {"opening", "requested"} =>
               /\ run'[c].socket \in Sockets
               /\ socket'[run'[c].socket].tab = run'[c].host
               /\ socket'[run'[c].socket].state # "unused"
          /\ run'[c].phase = "requested" =>
               c \in Calls /\ socket'[run'[c].socket].state = "open"
    BY <1>2, <1>5 DEF TaskShape, Links
  <2> QED BY <2>1, <2>2, <2>3 DEF Links
<1>9. Connected' /\ Told'
  BY <1>1, <1>2, <1>4, <1>6, <1>7 DEF TaskShape, Connected, Once, Told
<1>10. Untold
  <2>1. Calls \subseteq Callers
    BY DEF Callers
  <2>2. \A l \in Sockets : \A i \in 1..Len(down'[l]) :
          i \in 1..Len(down[l]) /\ down'[l][i] = down[l][i]
    BY <1>7
  <2> QED BY <1>1, <1>5, <2>1, <2>2 DEF Untold, OldOr
<1> QED BY <1>8, <1>9, <1>10 DEF TaskShape

LEMMA ReopenShape ==
  ASSUME TaskShape, NEW k \in Sockets, Reopen(k)
  PROVE  TaskShape' /\ Untold
<1>1. /\ socket[k].state = "waiting" /\ socket' = [socket EXCEPT ![k].state = "connecting"]
      /\ UNCHANGED <<endpoint, connection, down, run, ended, up, toTab, clients, cheTasks,
                     reports, terminal, icon, statuses>>
  BY DEF Reopen, service, view
<1>2. /\ socket' \in [Sockets -> [state : States, tab : Tabs \cup {None}]]
      /\ socket'[k].state = "connecting" /\ socket'[k].tab = socket[k].tab
      /\ \A l \in Sockets : l # k => socket'[l] = socket[l]
  <2>1. "connecting" \in States
    BY DEF States
  <2> QED BY <1>1, <2>1, SocketSet
<1>3. Links'
  BY <1>1, <1>2 DEF TaskShape, Connected, Links
<1>4. Connected' /\ Told'
  BY <1>1, <1>2 DEF TaskShape, Connected, Once, Told
<1>5. Untold
  BY <1>1 DEF Untold, OldOr
<1> QED BY <1>3, <1>4, <1>5 DEF TaskShape

LEMMA EndsShape ==
  ASSUME TaskShape, NEW c \in Calls, ProcessEnds(c)
  PROVE  TaskShape' /\ Untold
<1> DEFINE exit == [kind |-> "exit", task |-> c]
<1>1. /\ ended' = ended \cup {c}
      /\ down' = [k \in Sockets |-> IF socket[k].state # "open" THEN down[k]
                                    ELSE Append(down[k], exit)]
      /\ UNCHANGED <<endpoint, connection, socket, run, up, toTab, clients, cheTasks, reports,
                     terminal, icon, statuses>>
  BY DEF ProcessEnds, client, service, view
<1>2. exit \in Down /\ exit.kind = "exit" /\ exit.task = c
  BY DEF Down
<1> HIDE DEF exit
<1>3. ASSUME NEW k \in Sockets
      PROVE  /\ down'[k] \in Seq(Down)
             /\ socket[k].state # "open" => down'[k] = down[k]
             /\ \A i \in 1..Len(down'[k]) :
                  \/ i \in 1..Len(down[k]) /\ down'[k][i] = down[k][i]
                  \/ down'[k][i] = exit
  <2>1. down[k] \in Seq(Down)
    BY DEF TaskShape, Told
  <2>2. CASE socket[k].state # "open"
    BY <1>1, <2>1, <2>2
  <2>3. CASE socket[k].state = "open"
    <3>1. down'[k] = Append(down[k], exit)
      BY <1>1, <2>3
    <3> QED BY <1>2, <2>1, <2>3, <3>1, AppendAt
  <2> QED BY <2>2, <2>3
<1>4. down' \in [Sockets -> Seq(Down)]
  BY <1>1, <1>3
<1>5. Links'
  BY <1>1, <1>3 DEF TaskShape, Links
<1>6. Connected' /\ Told'
  BY <1>1, <1>4 DEF TaskShape, Connected, Once, Told
<1>7. Untold
  BY <1>1, <1>2, <1>3 DEF Untold, OldOr
<1> QED BY <1>5, <1>6, <1>7 DEF TaskShape

\* The steps of a tab's terminals and of its plugin host.
LEMMA ViewShape ==
  ASSUME TaskShape,
         (\E t \in Tabs : TabReceives(t) \/ SetTaskStatus(t)) \/ Showing
  PROVE  TaskShape' /\ Untold
<1>1. UNCHANGED <<endpoint, connection, socket, down, run, ended, up, clients, cheTasks, reports>>
  BY DEF TabReceives, SetTaskStatus, Showing, AttachTerminal, TerminalOpens, ReconnectTerminal,
         RestartTerminal, TerminalsDisconnect, client, service
<1>2. Connected' /\ Links'
  BY <1>1 DEF TaskShape, Connected, Once, Links
<1>3. Untold
  BY <1>1 DEF Untold, OldOr
<1>4. Told'
  <2>1. CASE \E t \in Tabs : TabReceives(t)
    <3>1. PICK t \in Tabs : TabReceives(t)
      BY <2>1
    <3> DEFINE message == Head(toTab[t])
    <3>2. toTab \in [Tabs -> Seq(Up)] /\ statuses \in [Tabs -> Seq(Calls)] /\ toTab[t] # <<>>
      BY <3>1 DEF TabReceives, TaskShape, Told
    <3>3. message \in Up /\ Tail(toTab[t]) \in Seq(Up)
      BY <3>2, TailAt
    <3>4. toTab' \in [Tabs -> Seq(Up)]
      BY <3>1, <3>2, <3>3 DEF TabReceives
    <3> HIDE DEF message
    <3>5. message.task \in Calls
      BY <3>3 DEF Up
    <3>6. StartTerminal(message) \/ StartTaskFailure(t, message) \/ TaskExit(t, message)
      BY <3>1 DEF TabReceives, message
    <3>7. CASE StartTerminal(message)
      BY <1>1, <3>4, <3>5, <3>7 DEF StartTerminal, TaskShape, Told
    <3>8. CASE StartTaskFailure(t, message)
      BY <1>1, <3>4, <3>5, <3>8 DEF StartTaskFailure, TaskShape, Told
    <3>9. CASE TaskExit(t, message)
      <4>1. Append(statuses[t], message.task) \in Seq(Calls)
        BY <3>2, <3>5
      <4>2. statuses' \in [Tabs -> Seq(Calls)]
        BY <3>2, <3>9, <4>1 DEF TaskExit, Send
      <4> QED BY <1>1, <3>4, <3>9, <4>2 DEF TaskExit, TaskShape, Told
    <3> QED BY <3>6, <3>7, <3>8, <3>9
  <2>2. CASE \E t \in Tabs : SetTaskStatus(t)
    <3>1. PICK t \in Tabs : SetTaskStatus(t)
      BY <2>2
    <3>2. statuses \in [Tabs -> Seq(Calls)] /\ statuses[t] # <<>>
      BY <3>1 DEF SetTaskStatus, TaskShape, Told
    <3>3. Tail(statuses[t]) \in Seq(Calls)
      BY <3>2, TailAt
    <3>4. statuses' \in [Tabs -> Seq(Calls)]
      BY <3>1, <3>2, <3>3 DEF SetTaskStatus
    <3> QED BY <1>1, <3>1, <3>4 DEF SetTaskStatus, TaskShape, Told
  <2>3. CASE Showing
    BY <1>1, <2>3 DEF Showing, AttachTerminal, TerminalOpens, ReconnectTerminal,
                      RestartTerminal, TerminalsDisconnect, TaskShape, Told
  <2> QED BY <2>1, <2>2, <2>3
<1> QED BY <1>2, <1>3, <1>4 DEF TaskShape

LEMMA DisconnectTabShape ==
  ASSUME TaskShape, NEW t \in Tabs, DisconnectTab(t)
  PROVE  TaskShape' /\ Untold
<1> DEFINE over(c) == c \in Calls /\ run[c].host = t
                      /\ run[c].phase \notin {"created", "running"}
<1>1. /\ clients' = RemoveFirst(clients, t) /\ Open(t)
      /\ socket' = [k \in Sockets |-> IF socket[k].tab = t
                                      THEN [socket[k] EXCEPT !.state = "closed"] ELSE socket[k]]
      /\ down' = [k \in Sockets |-> IF socket[k].tab = t THEN <<>> ELSE down[k]]
      /\ run' = [c \in Callers |-> IF c = t THEN Idle
                                   ELSE IF over(c) THEN [run[c] EXCEPT !.phase = "over"] ELSE run[c]]
      /\ terminal' = [c \in Calls |-> IF run[c].tab = t /\ terminal[c] = "created"
                                      THEN "detached" ELSE terminal[c]]
      /\ connection' = [connection EXCEPT ![t] = None] /\ endpoint' = endpoint \ {t}
      /\ up' = [up EXCEPT ![t] = <<>>] /\ toTab' = [toTab EXCEPT ![t] = <<>>]
      /\ statuses' = [statuses EXCEPT ![t] = <<>>]
      /\ UNCHANGED <<ended, cheTasks, reports, icon>>
  BY DEF DisconnectTab
<1>2. /\ clients \in Seq(Tabs) /\ Once(clients) /\ connection \in [Tabs -> Sockets \cup {None}]
      /\ socket \in [Sockets -> [state : States, tab : Tabs \cup {None}]]
      /\ run \in [Callers -> Run]
      /\ down \in [Sockets -> Seq(Down)] /\ up \in [Tabs -> Seq(Up)]
      /\ toTab \in [Tabs -> Seq(Up)] /\ statuses \in [Tabs -> Seq(Calls)]
  BY DEF TaskShape, Connected, Told
<1>3. clients' \in Seq(Tabs) /\ Once(clients')
  <2>1. \E i \in 1..Len(clients) : clients[i] = t
    BY <1>1, <1>2, InRange DEF Open
  <2> QED BY <1>1, <1>2, <2>1, RemovedOnce
<1>4. \A k \in Sockets :
        /\ socket'[k] \in [state : States, tab : Tabs \cup {None}]
        /\ socket'[k].tab = socket[k].tab
        /\ socket[k].tab # t => socket'[k] = socket[k] /\ down'[k] = down[k]
        /\ socket[k].tab = t => socket'[k].state = "closed" /\ down'[k] = <<>>
  BY <1>1, <1>2 DEF States
<1>5. socket' \in [Sockets -> [state : States, tab : Tabs \cup {None}]]
  BY <1>1, <1>4
<1>6. \A c \in Callers : IF c = t THEN run'[c] \in Run /\ run'[c].phase = "idle"
                          ELSE /\ run'[c] \in Run
                               /\ run'[c].socket = run[c].socket /\ run'[c].host = run[c].host
                               /\ run'[c].phase = IF over(c) THEN "over" ELSE run[c].phase
  <2> TAKE c \in Callers
  <2>1. run[c] \in Run /\ "over" \in Phases
    BY <1>2 DEF Phases
  <2>2. CASE c # t /\ over(c)
    BY <1>1, <2>1, <2>2, PhaseSet
  <2>3. CASE c # t /\ ~over(c)
    BY <1>1, <2>1, <2>3
  <2>4. CASE c = t
    BY <1>1, <2>4 DEF Idle, Run, Phases
  <2> QED BY <2>2, <2>3, <2>4
<1>7. run' \in [Callers -> Run]
  <2> HIDE DEF over
  <2> QED BY <1>1, <1>6
<1>8. connection' \in [Tabs -> Sockets \cup {None}]
      /\ \A s \in Tabs : connection'[s] = IF s = t THEN None ELSE connection[s]
  BY <1>1, <1>2
<1>9. /\ down' \in [Sockets -> Seq(Down)] /\ up' \in [Tabs -> Seq(Up)]
      /\ toTab' \in [Tabs -> Seq(Up)] /\ statuses' \in [Tabs -> Seq(Calls)]
  <2>1. <<>> \in Seq(Down) /\ <<>> \in Seq(Up) /\ <<>> \in Seq(Calls)
    OBVIOUS
  <2> QED BY <1>1, <1>2, <2>1
<1>10. Links'
  <2>1. ASSUME NEW s \in Tabs, connection'[s] # None
        PROVE  socket'[connection'[s]] = [state |-> "open", tab |-> s]
    <3>1. s # t /\ connection'[s] = connection[s] /\ connection[s] \in Sockets
      BY <1>2, <1>8, <2>1
    <3>2. socket[connection[s]] = [state |-> "open", tab |-> s]
      BY <2>1, <3>1 DEF TaskShape, Links
    <3> QED BY <3>1, <3>2, <1>4
  <2>2. \A l \in Sockets : /\ socket'[l].state # "open" => down'[l] = <<>>
                           /\ socket'[l].state # "unused" => socket'[l].tab \in Tabs
    BY <1>4 DEF TaskShape, Links
  <2>3. ASSUME NEW c \in Callers
        PROVE  /\ run'[c].phase = "fetching" => run'[c].host \in Tabs
               /\ run'[c].phase \in {"opening", "requested"} =>
                    /\ run'[c].socket \in Sockets
                    /\ socket'[run'[c].socket].tab = run'[c].host
                    /\ socket'[run'[c].socket].state # "unused"
               /\ run'[c].phase = "requested" =>
                    c \in Calls /\ socket'[run'[c].socket].state = "open"
    BY <1>4, <1>6 DEF TaskShape, Links
  <2> QED BY <2>1, <2>2, <2>3 DEF Links
<1>11. Connected' /\ Told'
  BY <1>1, <1>3, <1>5, <1>7, <1>8, <1>9 DEF TaskShape, Connected, Told
<1>12. Untold
  <2>1. ASSUME NEW c \in Calls, run[c].phase \in {"created", "running"}
        PROVE  run'[c].phase = run[c].phase
    <3>1. c \in Callers /\ c # t
      BY CallsAssumption DEF Callers
    <3> QED BY <1>6, <2>1, <3>1
  <2>2. \A l \in Sockets : \A i \in 1..Len(down'[l]) :
          i \in 1..Len(down[l]) /\ down'[l][i] = down[l][i]
    BY <1>4
  <2>3. \A s \in Tabs : \A i \in 1..Len(up'[s]) :
          i \in 1..Len(up[s]) /\ up'[s][i] = up[s][i]
    BY <1>1, <1>2
  <2> QED BY <1>1, <1>2, <2>1, <2>2, <2>3 DEF Untold, OldOr
<1> QED BY <1>10, <1>11, <1>12 DEF TaskShape

LEMMA CreateShape ==
  ASSUME TaskShape, NEW c \in Calls, Create(c)
  PROVE  TaskShape'
<1> DEFINE message == [kind |-> "created", task |-> c]
           k == run[c].socket
<1>1. /\ run[c].phase = "requested" /\ run' = [run EXCEPT ![c].phase = "created"]
      /\ down' = [down EXCEPT ![k] = Append(@, message)] /\ c \in Callers
      /\ UNCHANGED <<endpoint, connection, socket, up, ended, toTab, clients, cheTasks, reports,
                     terminal, icon, statuses>>
  BY DEF Create, Send, client, service, view, Callers
<1>2. /\ run \in [Callers -> Run] /\ down \in [Sockets -> Seq(Down)] /\ k \in Sockets
      /\ socket[k].state = "open"
  BY <1>1 DEF TaskShape, Connected, Told, Links
<1>3. message \in Down
  BY DEF Down
<1> HIDE DEF message, k
<1>4. down' \in [Sockets -> Seq(Down)] /\ \A l \in Sockets : l # k => down'[l] = down[l]
  <2>1. Append(down[k], message) \in Seq(Down)
    BY <1>2, <1>3
  <2> QED BY <1>1, <1>2, <2>1
<1>5. /\ run' \in [Callers -> Run]
      /\ \A d \in Callers : /\ run'[d].phase \in {run[d].phase, "over", "created", "running"}
                            /\ run'[d].socket = run[d].socket /\ run'[d].host = run[d].host
  <2>1. run[c] \in Run /\ "created" \in Phases
    BY <1>1, <1>2 DEF Phases
  <2>2. run' = [run EXCEPT ![c] = [run[c] EXCEPT !.phase = "created"]]
    BY <1>1
  <2> QED BY <1>1, <1>2, <2>1, <2>2, PhaseSet
<1>6. Links'
  <2>1. \A l \in Sockets : socket[l].state # "open" => down'[l] = <<>>
    BY <1>2, <1>4 DEF TaskShape, Links
  <2> QED BY <1>1, <1>5, <2>1, LinksStay
<1>7. Connected' /\ Told'
  BY <1>1, <1>4, <1>5 DEF TaskShape, Connected, Once, Told
<1> QED BY <1>6, <1>7 DEF TaskShape

\* What HostReceives passes on.
Passed(message) ==
  IF message.kind = "created" THEN [kind |-> "ran", task |-> message.task] ELSE message

LEMMA HostShape ==
  ASSUME TaskShape, NEW k \in Sockets, HostReceives(k)
  PROVE  /\ TaskShape' /\ socket[k].tab \in Tabs
         /\ Head(down[k]) \in Down /\ Passed(Head(down[k])) \in Up
         /\ Head(down[k]).kind = "created" =>
              run' = [run EXCEPT ![Head(down[k]).task].phase = "running"]
         /\ Head(down[k]).kind # "created" => run' = run
<1> DEFINE message == Head(down[k])
           t == socket[k].tab
<1>1. /\ down[k] # <<>> /\ down' = [down EXCEPT ![k] = Tail(@)]
      /\ up' = [up EXCEPT ![t] = Append(@, Passed(message))]
      /\ run' = IF message.kind = "created"
                THEN [run EXCEPT ![message.task].phase = "running"] ELSE run
      /\ UNCHANGED <<endpoint, connection, socket, ended, toTab, clients, cheTasks, reports,
                     terminal, icon, statuses>>
  BY DEF HostReceives, Send, Passed, client, service, view
<1>2. /\ run \in [Callers -> Run] /\ down \in [Sockets -> Seq(Down)] /\ up \in [Tabs -> Seq(Up)]
      /\ socket \in [Sockets -> [state : States, tab : Tabs \cup {None}]]
  BY DEF TaskShape, Connected, Told
<1>3. message \in Down /\ Tail(down[k]) \in Seq(Down)
  BY <1>1, <1>2, TailAt
<1>4. t \in Tabs
  BY <1>1 DEF TaskShape, Links
<1> HIDE DEF t, message
<1>5. Passed(message) \in Up /\ message.task \in Calls /\ message.task \in Callers
  BY <1>3 DEF Passed, Down, Up, Callers
<1>6. down' \in [Sockets -> Seq(Down)] /\ \A l \in Sockets : down[l] = <<>> => down'[l] = <<>>
  BY <1>1, <1>2, <1>3
<1>7. up' \in [Tabs -> Seq(Up)]
  <2>1. Append(up[t], Passed(message)) \in Seq(Up)
    BY <1>2, <1>4, <1>5
  <2> QED BY <1>1, <1>2, <2>1
<1>8. /\ run' \in [Callers -> Run]
      /\ \A d \in Callers : /\ run'[d].phase \in {run[d].phase, "over", "created", "running"}
                            /\ run'[d].socket = run[d].socket /\ run'[d].host = run[d].host
  <2>1. CASE message.kind = "created"
    <3>1. run[message.task] \in Run /\ "running" \in Phases
      BY <1>2, <1>5 DEF Phases
    <3>2. run' = [run EXCEPT ![message.task] = [run[message.task] EXCEPT !.phase = "running"]]
      BY <1>1, <2>1
    <3> QED BY <1>2, <1>5, <3>1, <3>2, PhaseSet
  <2>2. CASE message.kind # "created"
    BY <1>1, <1>2, <2>2
  <2> QED BY <2>1, <2>2
<1>9. Links'
  <2>1. \A l \in Sockets : socket[l].state # "open" => down'[l] = <<>>
    BY <1>6 DEF TaskShape, Links
  <2> QED BY <1>1, <1>8, <2>1, LinksStay
<1>10. Connected' /\ Told'
  BY <1>1, <1>6, <1>7, <1>8 DEF TaskShape, Connected, Once, Told
<1> QED BY <1>1, <1>3, <1>4, <1>5, <1>9, <1>10 DEF TaskShape, message, t

LEMMA BackendShape ==
  ASSUME TaskShape, Once(cheTasks), NEW t \in Tabs, BackendReceives(t)
  PROVE  TaskShape'
<1>a. PICK n \in DOMAIN up[t] :
        /\ up' = [up EXCEPT ![t] = RemoveAt(@, n)]
        /\ TaskRan(up[t][n]) \/ RunFailed(up[t][n]) \/ FireTaskExited(up[t][n])
        /\ UNCHANGED <<endpoint, connection, socket, down, run, ended, terminal, icon, statuses>>
  BY DEF BackendReceives, client, view
<1> DEFINE message == up[t][n]
           c == message.task
<1>1. /\ up' = [up EXCEPT ![t] = RemoveAt(@, n)]
      /\ TaskRan(message) \/ RunFailed(message) \/ FireTaskExited(message)
      /\ UNCHANGED <<endpoint, connection, socket, down, run, ended, terminal, icon, statuses>>
  BY <1>a
<1>2. /\ up \in [Tabs -> Seq(Up)] /\ toTab \in [Tabs -> Seq(Up)] /\ cheTasks \in Seq(Calls)
      /\ reports \in [Calls -> Nat]
  BY DEF TaskShape, Told
<1>3. message \in Up /\ RemoveAt(up[t], n) \in Seq(Up)
  <2>1. up[t] \in Seq(Up) /\ n \in 1..Len(up[t])
    BY <1>2
  <2> QED BY <2>1, RemovedAt
<1> HIDE DEF message
<1>4. c \in Calls
  BY <1>3 DEF Up
<1>5. up' \in [Tabs -> Seq(Up)]
  BY <1>1, <1>2, <1>3
<1>6. clients' = clients
  BY <1>1 DEF TaskRan, RunFailed, FireTaskExited, service
<1>7. toTab' \in [Tabs -> Seq(Up)]
  <2>1. CASE Answer(message)
    <3>1. toTab' = toTab \/ toTab' = [toTab EXCEPT ![run[c].tab] = Append(@, message)]
      BY <2>1 DEF Answer, Send
    <3>2. \A s \in Tabs : Append(toTab[s], message) \in Seq(Up)
      BY <1>2, <1>3
    <3>3. ASSUME NEW s, toTab' = [toTab EXCEPT ![s] = Append(@, message)]
          PROVE  toTab' \in [Tabs -> Seq(Up)]
      BY <1>2, <3>2, <3>3
    <3> QED BY <1>2, <3>1, <3>3
  <2>2. CASE toTab' = toTab
    BY <1>2, <2>2
  <2> QED BY <1>1, <2>1, <2>2 DEF TaskRan, RunFailed, FireTaskExited
<1>8. cheTasks' \in Seq(Calls) /\ reports' \in [Calls -> Nat]
  <2>1. CASE TaskRan(message)
    BY <1>2, <1>4, <2>1 DEF TaskRan
  <2>2. CASE RunFailed(message)
    BY <1>2, <2>2 DEF RunFailed, service
  <2>3. CASE FireTaskExited(message)
    <3>1. CASE c \in Range(cheTasks)
      <4>1. \E i \in 1..Len(cheTasks) : cheTasks[i] = c
        BY <1>2, <3>1, InRange
      <4>2. RemoveFirst(cheTasks, c) \in Seq(Calls)
        BY <1>2, <4>1, RemovedOnce
      <4>3. /\ cheTasks' = RemoveFirst(cheTasks, c)
            /\ reports' = [reports EXCEPT ![c] = reports[c] + 1]
        BY <2>3, <3>1 DEF FireTaskExited
      <4>4. reports[c] + 1 \in Nat
        BY <1>2, <1>4
      <4> QED BY <1>2, <4>2, <4>3, <4>4
    <3>2. CASE c \notin Range(cheTasks)
      BY <1>2, <2>3, <3>2 DEF FireTaskExited
    <3> QED BY <3>1, <3>2
  <2> QED BY <1>1, <2>1, <2>2, <2>3
<1>9. Links' /\ Connected' /\ Told'
  BY <1>1, <1>5, <1>6, <1>7, <1>8 DEF TaskShape, Connected, Once, Told, Links
<1> QED BY <1>9 DEF TaskShape

------------------------------------------------------------------------------
(* Every end is reported once. *)

\* A message that is taken off a queue was there once.
LEMMA OneTaken ==
  ASSUME NEW D, NEW S, NEW q \in [D -> Seq(S)], NEW k \in D, NEW n \in 1..Len(q[k]),
         NEW r, DOMAIN r = D, r[k] = RemoveAt(q[k], n), \A l \in D : l # k => r[l] = q[l],
         OnlyOne(q)
  PROVE  /\ OnlyOne(r)
         /\ \A l \in D : \A i \in 1..Len(r[l]) :
              /\ \E j \in 1..Len(q[l]) : r[l][i] = q[l][j]
              /\ q[k][n].kind \in {"created", "ran"} => r[l][i] # q[k][n]
<1> DEFINE at(l, i) == IF l = k /\ ~(i < n) THEN i + 1 ELSE i
<1>1. /\ Len(q[k]) \in Nat /\ n \in Nat \ {0} /\ n <= Len(q[k])
      /\ Len(RemoveAt(q[k], n)) = Len(q[k]) - 1
      /\ \A i \in 1..Len(q[k]) - 1 :
           RemoveAt(q[k], n)[i] = IF i < n THEN q[k][i] ELSE q[k][i + 1]
  <2>1. q[k] \in Seq(S) /\ Len(q[k]) \in Nat
    OBVIOUS
  <2>2. n \in Nat \ {0} /\ n <= Len(q[k])
    BY <2>1
  <2> HIDE DEF at
  <2>3. /\ Len(RemoveAt(q[k], n)) = Len(q[k]) - 1
        /\ \A i \in 1..Len(q[k]) - 1 :
             RemoveAt(q[k], n)[i] = IF i < n THEN q[k][i] ELSE q[k][i + 1]
    BY <2>1, RemovedAt
  <2> QED BY <2>1, <2>2, <2>3
<1>2. DOMAIN r = D /\ r[k] = RemoveAt(q[k], n) /\ \A l \in D : l # k => r[l] = q[l]
  OBVIOUS
<1>3. \A l \in D : \A i \in 1..Len(r[l]) :
        /\ at(l, i) \in 1..Len(q[l]) /\ r[l][i] = q[l][at(l, i)]
        /\ l = k => at(l, i) # n
  <2> TAKE l \in D
  <2> TAKE i \in 1..Len(r[l])
  <2>1. CASE l = k
    <3>1. i \in 1..Len(q[k]) - 1
      BY <1>1, <1>2, <2>1
    <3> QED BY <1>1, <1>2, <2>1, <3>1
  <2>2. CASE l # k
    BY <1>2, <2>2
  <2> QED BY <2>1, <2>2
<1>4. \A l \in D : \A i, j \in 1..Len(r[l]) : at(l, i) = at(l, j) => i = j
  <2> TAKE l \in D
  <2> TAKE i, j \in 1..Len(r[l])
  <2>1. i \in Int /\ j \in Int
    OBVIOUS
  <2> QED BY <1>1, <2>1
<1>5. OnlyOne(r)
  <2> SUFFICES ASSUME NEW l \in D, NEW m \in D, NEW i \in 1..Len(r[l]), NEW j \in 1..Len(r[m]),
                      r[l][i].kind \in {"created", "ran"}, r[m][j] = r[l][i]
               PROVE  l = m /\ i = j
    BY <1>2 DEF OnlyOne
  <2> HIDE DEF at
  <2>1. /\ at(l, i) \in 1..Len(q[l]) /\ at(m, j) \in 1..Len(q[m])
        /\ q[l][at(l, i)].kind \in {"created", "ran"} /\ q[m][at(m, j)] = q[l][at(l, i)]
    BY <1>3
  <2>2. l = m /\ at(l, i) = at(m, j)
    BY <2>1 DEF OnlyOne
  <2> QED BY <1>4, <2>2
<1>6. ASSUME NEW l \in D, NEW i \in 1..Len(r[l]), r[l][i] = q[k][n],
              q[k][n].kind \in {"created", "ran"}
      PROVE  FALSE
  <2> HIDE DEF at
  <2>1. at(l, i) \in 1..Len(q[l]) /\ q[l][at(l, i)] = q[k][n] /\ (l = k => at(l, i) # n)
    BY <1>3, <1>6
  <2>2. k = l /\ n = at(l, i)
    BY <1>6, <2>1 DEF OnlyOne
  <2> QED BY <2>1, <2>2
<1>7. \A l \in D : \A i \in 1..Len(r[l]) : \E j \in 1..Len(q[l]) : r[l][i] = q[l][j]
  <2> HIDE DEF at
  <2> QED BY <1>3
<1> QED BY <1>5, <1>6, <1>7

\* The oldest message of a queue.
LEMMA TailTaken ==
  ASSUME NEW S, NEW s \in Seq(S), s # <<>>
  PROVE  /\ 1 \in 1..Len(s) /\ Head(s) = s[1] /\ RemoveAt(s, 1) = Tail(s)
<1>1. Len(s) \in Nat \ {0} /\ 1 \in 1..Len(s) /\ Head(s) = s[1]
  BY TailAt
<1>2. SubSeq(s, 1, 1 - 1) = <<>>
  BY <1>1
<1>3. SubSeq(s, 1 + 1, Len(s)) = Tail(s) /\ Tail(s) \in Seq(S)
  BY <1>1
<1>4. <<>> \o Tail(s) = Tail(s)
  BY <1>3
<1> QED BY <1>1, <1>2, <1>3, <1>4 DEF RemoveAt

\* A message that is added was nowhere, or is of another kind.
LEMMA OneAdded ==
  ASSUME NEW D, NEW S, NEW q \in [D -> Seq(S)], NEW k \in D, NEW x \in S,
         NEW r, r = [q EXCEPT ![k] = Append(@, x)], OnlyOne(q),
         x.kind \in {"created", "ran"} => \A l \in D : \A i \in 1..Len(q[l]) : q[l][i] # x
  PROVE  /\ OnlyOne(r)
         /\ \A l \in D : \A i \in 1..Len(r[l]) :
              r[l][i] = x \/ (i \in 1..Len(q[l]) /\ r[l][i] = q[l][i])
<1>1. /\ Len(q[k]) \in Nat /\ Len(Append(q[k], x)) = Len(q[k]) + 1
      /\ \A i \in 1..Len(q[k]) + 1 :
           Append(q[k], x)[i] = IF i = Len(q[k]) + 1 THEN x ELSE q[k][i]
  BY AppendAt
<1>2. DOMAIN r = D /\ r[k] = Append(q[k], x) /\ \A l \in D : l # k => r[l] = q[l]
  OBVIOUS
<1>3. \A l \in D : \A i \in 1..Len(r[l]) :
        \/ l = k /\ i = Len(q[k]) + 1 /\ r[l][i] = x
        \/ i \in 1..Len(q[l]) /\ r[l][i] = q[l][i]
  <2> TAKE l \in D
  <2> TAKE i \in 1..Len(r[l])
  <2>1. CASE l = k
    BY <1>1, <1>2, <2>1
  <2>2. CASE l # k
    BY <1>2, <2>2
  <2> QED BY <2>1, <2>2
<1>4. ASSUME NEW l \in D, NEW m \in D, NEW i \in 1..Len(r[l]), NEW j \in 1..Len(r[m]),
             r[l][i].kind \in {"created", "ran"}, r[m][j] = r[l][i]
      PROVE  l = m /\ i = j
  <2>1. CASE x.kind \in {"created", "ran"} /\ r[l][i] = x
    <3>1. l = k /\ i = Len(q[k]) + 1
      BY <1>3, <1>4, <2>1
    <3>2. m = k /\ j = Len(q[k]) + 1
      BY <1>3, <1>4, <2>1
    <3> QED BY <3>1, <3>2
  <2>2. CASE r[l][i] # x
    <3>1. i \in 1..Len(q[l]) /\ r[l][i] = q[l][i]
      BY <1>3, <1>4, <2>2
    <3>2. j \in 1..Len(q[m]) /\ r[m][j] = q[m][j]
      BY <1>3, <1>4, <2>2
    <3> QED BY <1>4, <3>1, <3>2 DEF OnlyOne
  <2>3. r[l][i] = x => x.kind \in {"created", "ran"}
    BY <1>4
  <2> QED BY <2>1, <2>2, <2>3
<1>5. OnlyOne(r)
  BY <1>2, <1>4 DEF OnlyOne
<1> QED BY <1>3, <1>5

LEMMA UntoldStages ==
  ASSUME TaskInv, TaskShape', Untold
  PROVE  Stages'
<1>1. /\ DOMAIN down = Sockets /\ DOMAIN down' = Sockets /\ DOMAIN up = Tabs /\ DOMAIN up' = Tabs
  BY DEF TaskInv, TaskShape, Told
<1>2. OnlyOne(down')
  BY <1>1 DEF TaskInv, Stages, Untold, OnlyOne
<1>3. OnlyOne(up')
  BY <1>1 DEF TaskInv, Stages, Untold, OldOr, OnlyOne
<1>4. ASSUME NEW k \in Sockets, NEW i \in 1..Len(down'[k])
      PROVE  IF down'[k][i].kind = "created" THEN run'[down'[k][i].task].phase = "created"
             ELSE down'[k][i].task \in ended'
  <2>1. CASE i \in 1..Len(down[k]) /\ down'[k][i] = down[k][i]
    <3>1. down[k][i] \in Down
      BY <2>1 DEF TaskInv, TaskShape, Told
    <3>2. down[k][i].task \in Calls
      BY <3>1 DEF Down
    <3> QED BY <2>1, <3>2 DEF TaskInv, Stages, Untold
  <2>2. CASE down'[k][i].kind = "exit" /\ down'[k][i].task \in ended'
    BY <2>2
  <2> QED BY <2>1, <2>2 DEF Untold
<1>5. ASSUME NEW t \in Tabs, NEW i \in 1..Len(up'[t])
      PROVE  /\ up'[t][i].kind = "exit" => up'[t][i].task \in ended'
             /\ up'[t][i].kind = "ran" =>
                  /\ run'[up'[t][i].task].phase = "running" /\ reports'[up'[t][i].task] = 0
                  /\ \A j \in 1..Len(cheTasks') : cheTasks'[j] # up'[t][i].task
  <2>1. CASE i \in 1..Len(up[t]) /\ up'[t][i] = up[t][i]
    <3>1. up[t][i] \in Up
      BY <2>1 DEF TaskInv, TaskShape, Told
    <3>2. up[t][i].task \in Calls
      BY <3>1 DEF Up
    <3> QED BY <2>1, <3>2 DEF TaskInv, Stages, Untold
  <2>2. CASE up'[t][i].kind = "failed"
    BY <2>2
  <2> QED BY <1>1, <2>1, <2>2 DEF Untold, OldOr
<1>6. /\ Once(cheTasks')
      /\ \A j \in 1..Len(cheTasks') :
           run'[cheTasks'[j]].phase = "running" /\ reports'[cheTasks'[j]] = 0
  <2>1. \A j \in 1..Len(cheTasks) : cheTasks[j] \in Calls
    BY DEF TaskInv, TaskShape, Told
  <2> QED BY <2>1 DEF TaskInv, Stages, Untold, Once
<1>7. \A c \in Calls : reports'[c] \in {0, 1}
                       /\ (reports'[c] = 1 => c \in ended' /\ run'[c].phase = "running")
  BY DEF TaskInv, Stages, Untold
<1> QED BY <1>2, <1>3, <1>4, <1>5, <1>6, <1>7 DEF Stages

LEMMA CreateStages ==
  ASSUME TaskInv, NEW c \in Calls, Create(c)
  PROVE  Stages'
<1> DEFINE message == [kind |-> "created", task |-> c]
           k == run[c].socket
<1>1. /\ run[c].phase = "requested" /\ run' = [run EXCEPT ![c].phase = "created"]
      /\ down' = [down EXCEPT ![k] = Append(@, message)] /\ c \in Callers
      /\ UNCHANGED <<up, ended, cheTasks, reports>>
  BY DEF Create, Send, service, Callers
<1>2. /\ run \in [Callers -> Run] /\ down \in [Sockets -> Seq(Down)] /\ k \in Sockets
      /\ up \in [Tabs -> Seq(Up)] /\ cheTasks \in Seq(Calls)
  BY <1>1 DEF TaskInv, TaskShape, Connected, Told, Links
<1>3. message \in Down /\ message.kind = "created" /\ message.task = c
  BY DEF Down
<1>4. /\ run'[c].phase = "created" /\ \A d \in Callers : d # c => run'[d] = run[d]
  <2>1. run[c] \in Run /\ "created" \in Phases
    BY <1>1, <1>2 DEF Phases
  <2>2. run' = [run EXCEPT ![c] = [run[c] EXCEPT !.phase = "created"]]
    BY <1>1
  <2> QED BY <1>1, <1>2, <2>1, <2>2, PhaseSet
<1> HIDE DEF message, k
<1>5. \A l \in Sockets : \A i \in 1..Len(down[l]) : down[l][i] # message
  BY <1>1, <1>3 DEF TaskInv, Stages
<1>6. /\ OnlyOne(down')
      /\ \A l \in Sockets : \A i \in 1..Len(down'[l]) :
           down'[l][i] = message \/ (i \in 1..Len(down[l]) /\ down'[l][i] = down[l][i])
  <2>1. OnlyOne(down)
    BY DEF TaskInv, Stages
  <2> QED BY <1>1, <1>2, <1>3, <1>5, <2>1, OneAdded DEF OnlyOne
<1>7. ASSUME NEW l \in Sockets, NEW i \in 1..Len(down'[l])
      PROVE  IF down'[l][i].kind = "created" THEN run'[down'[l][i].task].phase = "created"
             ELSE down'[l][i].task \in ended'
  <2>1. CASE down'[l][i] = message
    BY <1>3, <1>4, <2>1
  <2>2. CASE i \in 1..Len(down[l]) /\ down'[l][i] = down[l][i]
    <3>1. down[l][i] \in Down
      BY <1>2, <2>2
    <3>2. down[l][i].task \in Callers
      BY <3>1 DEF Down, Callers
    <3> QED BY <1>1, <1>4, <2>2, <3>2 DEF TaskInv, Stages
  <2> QED BY <1>6, <2>1, <2>2
<1>8. \A d \in Calls : run[d].phase = "running" => run'[d].phase = "running"
  BY <1>1, <1>4 DEF Callers
<1>9. \A t \in Tabs : \A i \in 1..Len(up[t]) : up[t][i].task \in Calls
  <2>1. \A t \in Tabs : \A i \in 1..Len(up[t]) : up[t][i] \in Up
    BY <1>2
  <2> QED BY <2>1 DEF Up
<1>10. \A j \in 1..Len(cheTasks) : cheTasks[j] \in Calls
  BY <1>2
<1> QED BY <1>1, <1>6, <1>7, <1>8, <1>9, <1>10 DEF TaskInv, Stages

LEMMA HostStages ==
  ASSUME TaskInv, NEW k \in Sockets, HostReceives(k)
  PROVE  Stages'
<1> DEFINE message == Head(down[k])
           t == socket[k].tab
           c == message.task
           x == Passed(message)
<1>1. /\ down[k] # <<>> /\ down' = [down EXCEPT ![k] = Tail(@)]
      /\ up' = [up EXCEPT ![t] = Append(@, x)]
      /\ UNCHANGED <<ended, cheTasks, reports>>
  BY DEF HostReceives, Send, Passed, service
<1>2. /\ run \in [Callers -> Run] /\ down \in [Sockets -> Seq(Down)]
      /\ up \in [Tabs -> Seq(Up)] /\ cheTasks \in Seq(Calls)
  BY DEF TaskInv, TaskShape, Connected, Told
<1>3. /\ message \in Down /\ x \in Up /\ t \in Tabs
      /\ message.kind = "created" => run' = [run EXCEPT ![c].phase = "running"]
      /\ message.kind # "created" => run' = run
  BY HostShape DEF TaskInv
<1>4. /\ c \in Calls /\ c \in Callers /\ x.task = c
      /\ x.kind = IF message.kind = "created" THEN "ran" ELSE "exit"
  BY <1>3 DEF Down, Callers, Passed
<1>5. IF message.kind = "created" THEN run[c].phase = "created" ELSE c \in ended
  <2>1. 1 \in 1..Len(down[k]) /\ message = down[k][1]
    BY <1>1, <1>2, TailAt
  <2> QED BY <2>1 DEF TaskInv, Stages
<1>6. message.kind = "created" =>
        /\ reports[c] = 0 /\ \A j \in 1..Len(cheTasks) : cheTasks[j] # c
        /\ \A s \in Tabs : \A i \in 1..Len(up[s]) : up[s][i].kind = "ran" => up[s][i].task # c
  BY <1>4, <1>5 DEF TaskInv, Stages
<1>7. /\ \A d \in Callers : d # c => run'[d] = run[d]
      /\ run'[c].phase = IF message.kind = "created" THEN "running" ELSE run[c].phase
  <2>1. CASE message.kind = "created"
    <3>1. run[c] \in Run /\ "running" \in Phases
      BY <1>2, <1>4 DEF Phases
    <3>2. run' = [run EXCEPT ![c] = [run[c] EXCEPT !.phase = "running"]]
      BY <1>3, <2>1
    <3> QED BY <1>2, <1>4, <2>1, <3>1, <3>2, PhaseSet
  <2>2. CASE message.kind # "created"
    BY <1>3, <2>2
  <2> QED BY <2>1, <2>2
<1>8. /\ OnlyOne(down')
      /\ \A l \in Sockets : \A i \in 1..Len(down'[l]) :
           /\ \E j \in 1..Len(down[l]) : down'[l][i] = down[l][j]
           /\ message.kind = "created" => down'[l][i] # message
  <2>1. OnlyOne(down)
    BY DEF TaskInv, Stages
  <2>2. down[k] \in Seq(Down)
    BY <1>2
  <2>3. PICK n \in 1..Len(down[k]) : message = down[k][n] /\ RemoveAt(down[k], n) = Tail(down[k])
    BY <1>1, <2>2, TailTaken
  <2>4. /\ DOMAIN down' = Sockets /\ down'[k] = RemoveAt(down[k], n)
        /\ \A l \in Sockets : l # k => down'[l] = down[l]
    BY <1>1, <1>2, <2>3
  <2> HIDE DEF message
  <2>5. /\ OnlyOne(down')
        /\ \A l \in Sockets : \A i \in 1..Len(down'[l]) :
             /\ \E j \in 1..Len(down[l]) : down'[l][i] = down[l][j]
             /\ down[k][n].kind \in {"created", "ran"} => down'[l][i] # down[k][n]
    <3>1. n \in 1..Len(down[k]) /\ down \in [Sockets -> Seq(Down)]
      BY <1>2, <2>3
    <3> QED BY <2>1, <2>4, <3>1, OneTaken
  <2> QED BY <2>3, <2>5
<1> HIDE DEF message, t, x
<1>9. /\ OnlyOne(up')
      /\ \A s \in Tabs : \A i \in 1..Len(up'[s]) :
           up'[s][i] = x \/ (i \in 1..Len(up[s]) /\ up'[s][i] = up[s][i])
  <2>1. x.kind \in {"created", "ran"} => \A s \in Tabs : \A i \in 1..Len(up[s]) : up[s][i] # x
    BY <1>4, <1>6
  <2>2. OnlyOne(up)
    BY DEF TaskInv, Stages
  <2> QED BY <1>1, <1>2, <1>3, <2>1, <2>2, OneAdded DEF OnlyOne
<1>10. ASSUME NEW l \in Sockets, NEW i \in 1..Len(down'[l])
       PROVE  IF down'[l][i].kind = "created" THEN run'[down'[l][i].task].phase = "created"
              ELSE down'[l][i].task \in ended'
  <2>1. PICK j \in 1..Len(down[l]) : down'[l][i] = down[l][j]
    BY <1>8
  <2>2. down[l][j] \in Down
    BY <1>2
  <2>3. down[l][j].task \in Callers
    BY <2>2 DEF Down, Callers
  <2>4. CASE down'[l][i].kind = "created" /\ down'[l][i].task = c /\ message.kind = "created"
    <3>1. down'[l][i] = message
      BY <1>3, <2>1, <2>2, <2>4 DEF Down
    <3> QED BY <1>8, <2>4, <3>1
  <2>5. CASE ~(down'[l][i].kind = "created" /\ down'[l][i].task = c /\ message.kind = "created")
    <3>1. IF down[l][j].kind = "created" THEN run[down[l][j].task].phase = "created"
          ELSE down[l][j].task \in ended
      BY DEF TaskInv, Stages
    <3> QED BY <1>1, <1>7, <2>1, <2>3, <2>5, <3>1
  <2> QED BY <2>4, <2>5
<1>11. \A d \in Calls : run[d].phase = "running" => run'[d].phase = "running"
  BY <1>7 DEF Callers
<1>12. ASSUME NEW s \in Tabs, NEW i \in 1..Len(up'[s])
       PROVE  /\ up'[s][i].kind = "exit" => up'[s][i].task \in ended'
              /\ up'[s][i].kind = "ran" =>
                   /\ run'[up'[s][i].task].phase = "running" /\ reports'[up'[s][i].task] = 0
                   /\ \A j \in 1..Len(cheTasks') : cheTasks'[j] # up'[s][i].task
  <2>1. CASE up'[s][i] = x
    BY <1>1, <1>4, <1>5, <1>6, <1>7, <2>1
  <2>2. CASE i \in 1..Len(up[s]) /\ up'[s][i] = up[s][i]
    <3>1. up[s][i] \in Up
      BY <1>2, <2>2
    <3>2. up[s][i].task \in Calls
      BY <3>1 DEF Up
    <3> QED BY <1>1, <1>11, <2>2, <3>2 DEF TaskInv, Stages
  <2> QED BY <1>9, <2>1, <2>2
<1>13. \A j \in 1..Len(cheTasks) : cheTasks[j] \in Calls
  BY <1>2
<1> QED BY <1>1, <1>8, <1>9, <1>10, <1>11, <1>12, <1>13 DEF TaskInv, Stages

LEMMA BackendStages ==
  ASSUME TaskInv, NEW t \in Tabs, BackendReceives(t)
  PROVE  Stages'
<1>a. PICK n \in DOMAIN up[t] :
        /\ up' = [up EXCEPT ![t] = RemoveAt(@, n)]
        /\ TaskRan(up[t][n]) \/ RunFailed(up[t][n]) \/ FireTaskExited(up[t][n])
        /\ UNCHANGED <<down, run, ended>>
  BY DEF BackendReceives, client, view
<1> DEFINE message == up[t][n]
           c == message.task
<1>1. /\ up' = [up EXCEPT ![t] = RemoveAt(@, n)]
      /\ TaskRan(message) \/ RunFailed(message) \/ FireTaskExited(message)
      /\ UNCHANGED <<down, run, ended>>
  BY <1>a
<1>2. /\ up \in [Tabs -> Seq(Up)] /\ cheTasks \in Seq(Calls) /\ reports \in [Calls -> Nat]
      /\ n \in 1..Len(up[t])
  <2>1. /\ up \in [Tabs -> Seq(Up)] /\ cheTasks \in Seq(Calls) /\ reports \in [Calls -> Nat]
    BY DEF TaskInv, TaskShape, Told
  <2> QED BY <2>1
<1>3. /\ message \in Up /\ c \in Calls
      /\ message.kind = "exit" => c \in ended
      /\ message.kind = "ran" =>
           /\ run[c].phase = "running" /\ reports[c] = 0
           /\ \A j \in 1..Len(cheTasks) : cheTasks[j] # c
  <2>1. message \in Up
    BY <1>2
  <2> QED BY <1>2, <2>1 DEF TaskInv, Stages, Up
<1>4. /\ OnlyOne(up')
      /\ \A s \in Tabs : \A i \in 1..Len(up'[s]) :
           /\ \E j \in 1..Len(up[s]) : up'[s][i] = up[s][j]
           /\ message.kind = "ran" => up'[s][i] # message
  <2>1. OnlyOne(up)
    BY DEF TaskInv, Stages
  <2>2. /\ DOMAIN up' = Tabs /\ up'[t] = RemoveAt(up[t], n)
        /\ \A l \in Tabs : l # t => up'[l] = up[l]
    BY <1>1, <1>2
  <2>3. /\ OnlyOne(up')
        /\ \A l \in Tabs : \A i \in 1..Len(up'[l]) :
             /\ \E j \in 1..Len(up[l]) : up'[l][i] = up[l][j]
             /\ up[t][n].kind \in {"created", "ran"} => up'[l][i] # up[t][n]
    <3>1. up \in [Tabs -> Seq(Up)] /\ n \in 1..Len(up[t])
      BY <1>2
    <3> HIDE DEF message, c
    <3> QED BY <3>1, <2>1, <2>2, OneTaken
  <2> QED BY <2>3
<1> HIDE DEF message
<1>5. ASSUME NEW s \in Tabs, NEW i \in 1..Len(up'[s])
      PROVE  /\ up'[s][i] \in Up
             /\ up'[s][i].kind = "exit" => up'[s][i].task \in ended
             /\ up'[s][i].kind = "ran" =>
                  /\ run[up'[s][i].task].phase = "running" /\ reports[up'[s][i].task] = 0
                  /\ \A j \in 1..Len(cheTasks) : cheTasks[j] # up'[s][i].task
                  /\ message.kind = "ran" => up'[s][i].task # c
  <2>1. PICK j \in 1..Len(up[s]) : up'[s][i] = up[s][j]
    BY <1>4
  <2>2. up[s][j] \in Up
    BY <1>2
  <2>3. up'[s][i].kind = "ran" /\ message.kind = "ran" => up'[s][i].task # c
    <3>1. up'[s][i] # message \/ message.kind # "ran"
      BY <1>4
    <3> QED BY <1>3, <2>1, <2>2, <3>1 DEF Up
  <2> QED BY <2>1, <2>2, <2>3 DEF TaskInv, Stages
<1>6. ASSUME /\ Once(cheTasks')
             /\ \A j \in 1..Len(cheTasks') :
                  run[cheTasks'[j]].phase = "running" /\ reports'[cheTasks'[j]] = 0
             /\ \A d \in Calls : reports'[d] \in {0, 1}
                                 /\ (reports'[d] = 1 => d \in ended /\ run[d].phase = "running")
             /\ \A s \in Tabs : \A i \in 1..Len(up'[s]) : up'[s][i].kind = "ran" =>
                  /\ reports'[up'[s][i].task] = 0
                  /\ \A j \in 1..Len(cheTasks') : cheTasks'[j] # up'[s][i].task
      PROVE  Stages'
  BY <1>1, <1>4, <1>5, <1>6 DEF TaskInv, Stages
<1>7. CASE TaskRan(message)
  <2>1. /\ message.kind = "ran" /\ cheTasks' = Append(cheTasks, c) /\ reports' = reports
    BY <1>7 DEF TaskRan
  <2>2. /\ Len(cheTasks') = Len(cheTasks) + 1 /\ Len(cheTasks) \in Nat
        /\ \A i \in 1..Len(cheTasks) + 1 :
             cheTasks'[i] = IF i = Len(cheTasks) + 1 THEN c ELSE cheTasks[i]
    BY <1>2, <1>3, <2>1, AppendAt
  <2>3. \A i \in 1..Len(cheTasks') :
          \/ i = Len(cheTasks) + 1 /\ cheTasks'[i] = c
          \/ i \in 1..Len(cheTasks) /\ cheTasks'[i] = cheTasks[i] /\ cheTasks[i] # c
    BY <1>3, <2>1, <2>2
  <2>4. Once(cheTasks')
    BY <2>3 DEF Once, TaskInv, Stages
  <2>5. \A j \in 1..Len(cheTasks') :
          run[cheTasks'[j]].phase = "running" /\ reports'[cheTasks'[j]] = 0
    BY <1>3, <2>1, <2>3 DEF TaskInv, Stages
  <2>6. \A s \in Tabs : \A i \in 1..Len(up'[s]) : up'[s][i].kind = "ran" =>
          /\ reports'[up'[s][i].task] = 0
          /\ \A j \in 1..Len(cheTasks') : cheTasks'[j] # up'[s][i].task
    BY <1>5, <2>1, <2>3
  <2> QED BY <1>6, <2>1, <2>4, <2>5, <2>6 DEF TaskInv, Stages
<1>8. CASE UNCHANGED <<cheTasks, reports>>
  BY <1>5, <1>6, <1>8 DEF TaskInv, Stages, Once
<1>9. CASE FireTaskExited(message) /\ c \in Range(cheTasks)
  <2>1. /\ message.kind = "exit" /\ cheTasks' = RemoveFirst(cheTasks, c)
        /\ reports' = [reports EXCEPT ![c] = reports[c] + 1]
    BY <1>9 DEF FireTaskExited
  <2>2. PICK m \in 1..Len(cheTasks) : cheTasks[m] = c
    BY <1>2, <1>9, InRange
  <2>3. run[c].phase = "running" /\ reports[c] = 0 /\ c \in ended
    BY <1>3, <2>1, <2>2 DEF TaskInv, Stages
  <2>4. \A d \in Calls : reports'[d] = IF d = c THEN 1 ELSE reports[d]
    BY <1>2, <1>3, <2>1, <2>3
  <2>5. /\ Once(cheTasks')
        /\ \A i \in 1..Len(cheTasks') :
             cheTasks'[i] # c /\ \E j \in 1..Len(cheTasks) : cheTasks[j] = cheTasks'[i]
    BY <1>2, <2>1, <2>2, RemovedOnce DEF TaskInv, Stages
  <2>6. \A j \in 1..Len(cheTasks) : cheTasks[j] \in Calls
    BY <1>2
  <2>7. \A j \in 1..Len(cheTasks') :
          run[cheTasks'[j]].phase = "running" /\ reports'[cheTasks'[j]] = 0
    BY <2>4, <2>5, <2>6 DEF TaskInv, Stages
  <2>8. ASSUME NEW s \in Tabs, NEW i \in 1..Len(up'[s]), up'[s][i].kind = "ran"
        PROVE  /\ reports'[up'[s][i].task] = 0
               /\ \A j \in 1..Len(cheTasks') : cheTasks'[j] # up'[s][i].task
    <3>1. up'[s][i].task \in Calls /\ up'[s][i].task # c /\ reports[up'[s][i].task] = 0
      BY <1>5, <2>2, <2>8 DEF Up
    <3>2. reports'[up'[s][i].task] = 0
      BY <2>4, <3>1
    <3>3. ASSUME NEW j \in 1..Len(cheTasks') PROVE cheTasks'[j] # up'[s][i].task
      <4>1. PICK l \in 1..Len(cheTasks) : cheTasks[l] = cheTasks'[j]
        BY <2>5
      <4> QED BY <1>5, <2>8, <4>1
    <3> QED BY <3>2, <3>3
  <2>9. \A d \in Calls : reports'[d] \in {0, 1}
                         /\ (reports'[d] = 1 => d \in ended /\ run[d].phase = "running")
    BY <2>3, <2>4 DEF TaskInv, Stages
  <2> QED BY <1>6, <2>5, <2>7, <2>8, <2>9
<1> QED BY <1>1, <1>7, <1>8, <1>9 DEF RunFailed, FireTaskExited, service

LEMMA InitTasks == Init => TaskInv
<1> SUFFICES ASSUME Init PROVE TaskInv
  OBVIOUS
<1>1. clients \in Seq(Tabs) /\ Once(clients)
  BY DEF Init, Once
<1>2. \A c \in Callers : run[c] \in Run /\ run[c].phase = "idle"
  BY DEF Init, Idle, Run, Phases
<1>3. run \in [Callers -> Run]
  BY <1>2 DEF Init
<1>4. /\ socket \in [Sockets -> [state : States, tab : Tabs \cup {None}]]
      /\ \A k \in Sockets : socket[k].state = "unused"
  BY DEF Init, NoSocket, States
<1>5. Connected
  BY <1>1, <1>3, <1>4 DEF Init, Connected
<1>6. /\ \A k \in Sockets : down[k] = <<>>
      /\ \A t \in Tabs : up[t] = <<>> /\ toTab[t] = <<>> /\ statuses[t] = <<>>
      /\ cheTasks = <<>> /\ DOMAIN down = Sockets /\ DOMAIN up = Tabs
      /\ \A c \in Calls : reports[c] = 0
  BY DEF Init
<1>7. Told
  <2>1. <<>> \in Seq(Down) /\ <<>> \in Seq(Up) /\ <<>> \in Seq(Calls)
    OBVIOUS
  <2> QED BY <2>1 DEF Init, Told
<1>8. Links
  BY <1>2, <1>4, <1>6 DEF Init, Links
<1>9. Len(<<>>) = 0 /\ 1..0 = {}
  OBVIOUS
<1>10. Stages
  BY <1>6, <1>9 DEF Stages, OnlyOne, Once
<1> QED BY <1>5, <1>7, <1>8, <1>10 DEF TaskInv, TaskShape

LEMMA NextTasks == TaskInv /\ [Next]_vars => TaskInv'
<1> SUFFICES ASSUME TaskInv, [Next]_vars PROVE TaskInv'
  OBVIOUS
<1>1. TaskShape /\ Once(cheTasks)
  BY DEF TaskInv, Stages
<1>2. CASE TaskShape' /\ Untold
  BY <1>2, UntoldStages DEF TaskInv
<1>3. CASE \E c \in Calls : Create(c)
  BY <1>1, <1>3, CreateShape, CreateStages DEF TaskInv
<1>4. CASE \E k \in Sockets : HostReceives(k)
  BY <1>1, <1>4, HostShape, HostStages DEF TaskInv
<1>5. CASE \E t \in Tabs : BackendReceives(t)
  BY <1>1, <1>5, BackendShape, BackendStages DEF TaskInv
<1>6. CASE Connecting
  BY <1>1, <1>2, <1>6, EndpointShape, MissingShape, OpensShape, FailsShape, ClosesShape,
     ReopenShape DEF Connecting
<1>7. CASE Running
  BY <1>1, <1>2, <1>3, <1>7, RunTaskShape, EndsShape DEF Running
<1>8. CASE Telling \/ Showing
  BY <1>1, <1>2, <1>4, <1>5, <1>8, ViewShape DEF Telling
<1>9. CASE Coming
  BY <1>1, <1>2, <1>9, ConnectTabShape, HostStartsShape, DisconnectTabShape DEF Coming
<1>10. CASE UNCHANGED vars
  <2>1. UNCHANGED <<clients, endpoint, connection, socket, down, run, ended, up, toTab, cheTasks,
                    reports, terminal, icon, statuses>>
    BY <1>10 DEF vars, client, service, view
  <2> QED BY <2>1 DEF TaskInv, TaskShape, Connected, Told, Links, Stages, OnlyOne, Once
<1> QED BY <1>6, <1>7, <1>8, <1>9, <1>10 DEF Next

LEMMA TasksHold == Spec => []TaskInv
BY InitTasks, NextTasks, PTL DEF Spec

\* Connections, runs and messages have their types: a plugin host's connection
\* is an open one of its own (MachineExecClient.getConnection).
THEOREM TasksTypeCorrect == Spec => []TypeOK
<1>1. TaskInv => TypeOK
  <2> SUFFICES ASSUME TaskInv PROVE TypeOK
    OBVIOUS
  <2>1. Connected /\ Told /\ Links
    BY DEF TaskInv, TaskShape
  <2>2. Range(clients) \subseteq Tabs
    BY <2>1, InRange DEF Connected
  <2>3. Range(cheTasks) \subseteq Calls
    <3>1. cheTasks \in Seq(Calls)
      BY <2>1 DEF Told
    <3> QED BY <3>1, InRange
  <2>4. \A k \in Sockets : socket[k].state \in States
    BY <2>1 DEF Connected
  <2>5. \A c \in Callers : run[c].phase \in Phases
    BY <2>1 DEF Connected, Run
  <2> QED BY <2>1, <2>2, <2>3, <2>4, <2>5 DEF TypeOK, Connected, Told, Links, States, Phases
<1> QED BY <1>1, TasksHold, PTL

\* However many connections tell of the end of a process, before or after its
\* task is recorded, the editor hears of it once at most (fireTaskExited).
THEOREM EndsReportedOnce == Spec => []ReportedOnce
<1>1. TaskInv => ReportedOnce
  BY DEF TaskInv, Stages, ReportedOnce
<1> QED BY <1>1, TasksHold, PTL

------------------------------------------------------------------------------
(* Every end arrives: the server answers the request for a process before it  *)
(* tells of its end on the same socket, so the end comes after the record.    *)

Message(kind, c) == [kind |-> kind, task |-> c]

Holds(q, m) == \E i \in 1..Len(q) : q[i] = m

Then(q, m, n) == \E i, j \in 1..Len(q) : i < j /\ q[i] = m /\ q[j] = n

Recorded(c) == Holds(cheTasks, c)

\* Tasks whose end may not arrive.
Missed == cut \cup overtaken

\* The answer to the request of a task that runs is on its way, or recorded.
Answering(c) ==
  \/ Holds(down[run[c].socket], Message("created", c))
  \/ Holds(up[run[c].host], Message("ran", c))
  \/ Recorded(c)

\* The end of a task was reported, or is on its way behind the answer.
Ending(c) ==
  \/ reports[c] = 1
  \/ Then(down[run[c].socket], Message("created", c), Message("exit", c))
  \/ /\ Holds(down[run[c].socket], Message("exit", c))
     /\ Holds(up[run[c].host], Message("ran", c)) \/ Recorded(c)
  \/ Then(up[run[c].host], Message("ran", c), Message("exit", c))
  \/ Holds(up[run[c].host], Message("exit", c)) /\ Recorded(c)

OnItsWay(c) ==
  /\ run[c].socket \in Sockets /\ run[c].host \in Tabs
  /\ socket[run[c].socket] = [state |-> "open", tab |-> run[c].host]
  /\ IF c \in ended THEN Ending(c) ELSE Answering(c)

Alive == {"created", "running"}

EndsInv ==
  /\ \A c \in ended : run[c].phase \in Alive
  /\ \A c \in Calls \ Missed : run[c].phase \in Alive => OnItsWay(c)

\* The icon of a terminal that had its id at the end, or what will set it.
IconTold(c) ==
  \/ icon[c] = "ENDED" \/ reports[c] = 0
  \/ Holds(toTab[run[c].tab], Message("exit", c))
  \/ Holds(statuses[run[c].tab], c)

\* The backend recorded the task.
Known(c) == Recorded(c) \/ reports[c] = 1

\* A terminal is started once, by the answer that recorded its task; a terminal
\* of a task that ended early has its id, and its tab is there to be told.
IconsInv ==
  /\ OnlyOne(toTab)
  /\ \A t \in Tabs, c \in Calls : Holds(toTab[t], Message("ran", c)) =>
       terminal[c] = "created" /\ Known(c) /\ run[c].tab = t
  /\ early \subseteq ended
  /\ \A c \in early : HasId(c) /\ Open(run[c].tab) /\ (c \notin Missed => IconTold(c))

LEMMA MessageParts ==
  ASSUME NEW kind, NEW c
  PROVE  Message(kind, c).kind = kind /\ Message(kind, c).task = c
BY DEF Message

LEMMA EmptyHolds == \A m : ~Holds(<<>>, m) /\ \A n : ~Then(<<>>, m, n)
BY DEF Holds, Then

\* What a queue holds, and in which order, when messages are added to it.
LEMMA HoldsMore ==
  ASSUME NEW q, NEW r, \A i \in 1..Len(q) : i \in 1..Len(r) /\ r[i] = q[i]
  PROVE  /\ \A m : Holds(q, m) => Holds(r, m)
         /\ \A m, n : Then(q, m, n) => Then(r, m, n)
<1>1. \A m : Holds(q, m) => Holds(r, m)
  BY DEF Holds
<1>2. ASSUME NEW m, NEW n, Then(q, m, n) PROVE Then(r, m, n)
  <2>1. PICK i, j \in 1..Len(q) : i < j /\ q[i] = m /\ q[j] = n
    BY <1>2 DEF Then
  <2>2. i \in 1..Len(r) /\ j \in 1..Len(r) /\ r[i] = m /\ r[j] = n
    BY <2>1
  <2> QED BY <2>1, <2>2 DEF Then
<1> QED BY <1>1, <1>2

LEMMA AppendHolds ==
  ASSUME NEW S, NEW q \in Seq(S), NEW x \in S
  PROVE  /\ Holds(Append(q, x), x)
         /\ \A m : Holds(q, m) => Holds(Append(q, x), m) /\ Then(Append(q, x), m, x)
         /\ \A m, n : Then(q, m, n) => Then(Append(q, x), m, n)
         /\ \A m : Holds(Append(q, x), m) => Holds(q, m) \/ m = x
<1>1. /\ Len(Append(q, x)) = Len(q) + 1 /\ Len(q) \in Nat
      /\ \A i \in 1..Len(q) + 1 : Append(q, x)[i] = IF i = Len(q) + 1 THEN x ELSE q[i]
  BY AppendAt
<1> DEFINE r == Append(q, x)
<1>2. \A i \in 1..Len(q) : i \in 1..Len(r) /\ r[i] = q[i] /\ i < Len(q) + 1
  BY <1>1
<1>3. Len(q) + 1 \in 1..Len(r) /\ r[Len(q) + 1] = x
  BY <1>1
<1>4. \A i \in 1..Len(r) : i = Len(q) + 1 \/ i \in 1..Len(q)
  BY <1>1
<1> HIDE DEF r
<1>5. /\ \A m : Holds(q, m) => Holds(r, m)
      /\ \A m, n : Then(q, m, n) => Then(r, m, n)
  BY <1>2, HoldsMore
<1>6. Holds(r, x)
  BY <1>3 DEF Holds
<1>7. ASSUME NEW m, Holds(q, m) PROVE Then(r, m, x)
  <2>1. PICK i \in 1..Len(q) : q[i] = m
    BY <1>7 DEF Holds
  <2> QED BY <1>2, <1>3, <2>1 DEF Then
<1>8. ASSUME NEW m, Holds(r, m) PROVE Holds(q, m) \/ m = x
  BY <1>2, <1>3, <1>4, <1>8 DEF Holds
<1> QED BY <1>5, <1>6, <1>7, <1>8 DEF r

LEMMA TailHolds ==
  ASSUME NEW S, NEW q \in Seq(S), q # <<>>
  PROVE  /\ \A m : Holds(q, m) => Head(q) = m \/ Holds(Tail(q), m)
         /\ \A m : Holds(Tail(q), m) => Holds(q, m)
         /\ \A m, n : Then(q, m, n) =>
              (Head(q) = m /\ Holds(Tail(q), n)) \/ Then(Tail(q), m, n)
<1>1. /\ Len(Tail(q)) = Len(q) - 1 /\ Len(q) \in Nat \ {0}
      /\ \A i \in 1..Len(q) - 1 : Tail(q)[i] = q[i + 1]
      /\ Head(q) = q[1]
  BY TailAt
<1>2. \A i \in 1..Len(q) : i # 1 => i - 1 \in 1..Len(Tail(q)) /\ Tail(q)[i - 1] = q[i]
  <2> TAKE i \in 1..Len(q)
  <2> HAVE i # 1
  <2>1. i - 1 \in 1..Len(q) - 1 /\ i - 1 + 1 = i
    BY <1>1
  <2> QED BY <1>1, <2>1
<1>3. \A i \in 1..Len(Tail(q)) : i + 1 \in 1..Len(q) /\ Tail(q)[i] = q[i + 1]
  BY <1>1
<1>4. \A m : Holds(q, m) => Head(q) = m \/ Holds(Tail(q), m)
  BY <1>1, <1>2 DEF Holds
<1>5. \A m : Holds(Tail(q), m) => Holds(q, m)
  BY <1>3 DEF Holds
<1>6. ASSUME NEW m, NEW n, Then(q, m, n)
      PROVE  (Head(q) = m /\ Holds(Tail(q), n)) \/ Then(Tail(q), m, n)
  <2>1. PICK i, j \in 1..Len(q) : i < j /\ q[i] = m /\ q[j] = n
    BY <1>6 DEF Then
  <2>2. j - 1 \in 1..Len(Tail(q)) /\ Tail(q)[j - 1] = n
    BY <1>2, <2>1
  <2>3. CASE i = 1
    BY <1>1, <2>1, <2>2, <2>3 DEF Holds
  <2>4. CASE i # 1
    <3>1. i - 1 \in 1..Len(Tail(q)) /\ Tail(q)[i - 1] = m /\ i - 1 < j - 1
      BY <1>2, <2>1, <2>4
    <3> QED BY <2>2, <3>1 DEF Then
  <2> QED BY <2>3, <2>4
<1> QED BY <1>4, <1>5, <1>6

\* What a queue holds, and in which order, when one message is taken off it.
LEMMA RemovedHolds ==
  ASSUME NEW S, NEW q \in Seq(S), NEW n \in 1..Len(q)
  PROVE  /\ \A m : Holds(q, m) => q[n] = m \/ Holds(RemoveAt(q, n), m)
         /\ \A m : Holds(RemoveAt(q, n), m) => Holds(q, m)
         /\ \A m, l : Then(q, m, l) =>
              \/ Then(RemoveAt(q, n), m, l)
              \/ q[n] = m /\ Holds(RemoveAt(q, n), l)
              \/ q[n] = l /\ \E j \in 1..n - 1 : q[j] = m
<1> DEFINE r == RemoveAt(q, n)
           at(i) == IF i < n THEN i ELSE i - 1
<1>1. /\ Len(r) = Len(q) - 1 /\ Len(q) \in Nat /\ n \in 1..Len(q)
      /\ \A i \in 1..Len(q) - 1 : r[i] = IF i < n THEN q[i] ELSE q[i + 1]
  <2> HIDE DEF at
  <2>1. /\ Len(RemoveAt(q, n)) = Len(q) - 1
        /\ \A i \in 1..Len(q) - 1 : RemoveAt(q, n)[i] = IF i < n THEN q[i] ELSE q[i + 1]
    BY RemovedAt
  <2>2. Len(q) \in Nat
    OBVIOUS
  <2> QED BY <2>1, <2>2
<1> HIDE DEF r
<1>2. \A i \in 1..Len(q) : i # n => at(i) \in 1..Len(r) /\ r[at(i)] = q[i]
  <2> TAKE i \in 1..Len(q)
  <2> HAVE i # n
  <2>1. CASE i < n
    BY <1>1, <2>1
  <2>2. CASE ~(i < n)
    <3>1. i - 1 \in 1..Len(q) - 1 /\ ~(i - 1 < n) /\ i - 1 + 1 = i
      BY <1>1, <2>2
    <3> QED BY <1>1, <2>2, <3>1
  <2> QED BY <2>1, <2>2
<1>3. \A i \in 1..Len(r) : \E j \in 1..Len(q) : r[i] = q[j]
  <2> TAKE i \in 1..Len(r)
  <2>1. i \in 1..Len(q) /\ i + 1 \in 1..Len(q)
    BY <1>1
  <2> QED BY <1>1, <2>1
<1>4. \A m : Holds(q, m) => q[n] = m \/ Holds(r, m)
  <2> HIDE DEF at
  <2> QED BY <1>2 DEF Holds
<1>5. \A m : Holds(r, m) => Holds(q, m)
  BY <1>3 DEF Holds
<1>6. ASSUME NEW m, NEW l, Then(q, m, l)
      PROVE  \/ Then(r, m, l)
             \/ q[n] = m /\ Holds(r, l)
             \/ q[n] = l /\ \E j \in 1..n - 1 : q[j] = m
  <2>1. PICK i, j \in 1..Len(q) : i < j /\ q[i] = m /\ q[j] = l
    BY <1>6 DEF Then
  <2>2. CASE i = n
    <3>1. at(j) \in 1..Len(r) /\ r[at(j)] = l
      BY <1>1, <1>2, <2>1, <2>2
    <3> HIDE DEF at
    <3> QED BY <2>1, <2>2, <3>1 DEF Holds
  <2>3. CASE j = n
    <3>1. i \in 1..n - 1
      BY <1>1, <2>1, <2>3
    <3> QED BY <2>1, <2>3, <3>1
  <2>4. CASE i # n /\ j # n
    <3>1. at(i) < at(j)
      BY <1>1, <2>1, <2>4
    <3> HIDE DEF at
    <3> QED BY <1>2, <2>1, <2>4, <3>1 DEF Then
  <2> QED BY <2>2, <2>3, <2>4
<1> QED BY <1>4, <1>5, <1>6 DEF r

\* RemoveFirst leaves the others.
LEMMA RemovedKeeps ==
  ASSUME NEW S, NEW s \in Seq(S), Once(s), NEW e, Holds(s, e)
  PROVE  \A d : d # e /\ Holds(s, d) => Holds(RemoveFirst(s, e), d)
<1>1. PICK m \in 1..Len(s) : s[m] = e
  BY DEF Holds
<1>2. {i \in 1..Len(s) : s[i] = e} = {m}
  BY <1>1 DEF Once
<1>3. Min({m}) = m
  BY DEF Min
<1>4. RemoveFirst(s, e) = RemoveAt(s, m)
  BY <1>1, <1>2, <1>3 DEF RemoveFirst, SelectInSeq
<1> DEFINE r == RemoveAt(s, m)
<1>5. /\ Len(r) = Len(s) - 1 /\ Len(s) \in Nat
      /\ \A i \in 1..Len(s) - 1 : r[i] = IF i < m THEN s[i] ELSE s[i + 1]
  BY RemovedAt
<1> HIDE DEF r
<1>6. ASSUME NEW d, d # e, Holds(s, d) PROVE Holds(r, d)
  <2>1. PICK j \in 1..Len(s) : s[j] = d
    BY <1>6 DEF Holds
  <2>2. j # m
    BY <1>1, <1>6, <2>1
  <2>3. CASE j < m
    <3>1. j \in 1..Len(s) - 1
      BY <1>5, <2>3
    <3> QED BY <1>5, <2>1, <2>3, <3>1 DEF Holds
  <2>4. CASE ~(j < m)
    <3>1. j - 1 \in 1..Len(s) - 1 /\ ~(j - 1 < m) /\ j - 1 + 1 = j
      BY <1>5, <2>2, <2>4
    <3> QED BY <1>5, <2>1, <3>1 DEF Holds
  <2> QED BY <2>3, <2>4
<1> QED BY <1>4, <1>6 DEF r

\* What a step does not do that neither creates nor ends a process nor passes on
\* a message of the server.
Still ==
  /\ Missed \subseteq Missed' /\ ended' = ended /\ cheTasks' = cheTasks /\ reports' = reports
  /\ \A c \in Calls : run[c].phase \in Alive => run'[c] \in Run /\ run'[c].phase = run[c].phase
  /\ \A c \in Calls \ Missed' : run'[c].phase \in Alive =>
       /\ run'[c] = run[c]
       /\ \A k \in Sockets : run[c].socket = k /\ socket[k] = [state |-> "open", tab |-> run[c].host]
            => socket'[k] = socket[k] /\ down'[k] = down[k]
       /\ \A t \in Tabs : run[c].host = t =>
            \A i \in 1..Len(up[t]) : i \in 1..Len(up'[t]) /\ up'[t][i] = up[t][i]

LEMMA StillEnds ==
  ASSUME TaskInv, EndsInv, Still
  PROVE  EndsInv'
<1>1. ended \subseteq Calls
  BY DEF TaskInv, TaskShape, Told
<1>2. \A c \in ended' : run'[c].phase \in Alive
  BY <1>1 DEF Still, EndsInv
<1>3. ASSUME NEW c \in Calls \ Missed', run'[c].phase \in Alive PROVE OnItsWay(c)'
  <2> DEFINE k == run[c].socket
             t == run[c].host
  <2>1. c \notin Missed /\ run'[c] = run[c] /\ OnItsWay(c)
    BY <1>3 DEF Still, EndsInv
  <2>2. k \in Sockets /\ t \in Tabs /\ socket[k] = [state |-> "open", tab |-> t]
    BY <2>1 DEF OnItsWay
  <2>3. socket'[k] = socket[k] /\ down'[k] = down[k]
    BY <1>3, <2>2 DEF Still
  <2>4. \A i \in 1..Len(up[t]) : i \in 1..Len(up'[t]) /\ up'[t][i] = up[t][i]
    BY <1>3, <2>2 DEF Still
  <2>5. /\ \A m : Holds(up[t], m) => Holds(up'[t], m)
        /\ \A m, n : Then(up[t], m, n) => Then(up'[t], m, n)
    <3> HIDE DEF t
    <3>1. ASSUME NEW q, q = up[t], NEW r, r = up'[t]
          PROVE  /\ \A m : Holds(q, m) => Holds(r, m)
                 /\ \A m, n : Then(q, m, n) => Then(r, m, n)
      BY <2>4, <3>1, HoldsMore
    <3> QED BY <3>1
  <2>6. ended' = ended /\ cheTasks' = cheTasks /\ reports' = reports
    BY DEF Still
  <2> HIDE DEF Holds, Then, Message
  <2> QED BY <2>1, <2>2, <2>3, <2>5, <2>6 DEF OnItsWay, Ending, Answering, Recorded
<1> QED BY <1>2, <1>3 DEF EndsInv

\* A new socket, of a run that waited for the address or starts.
LEMMA CreatedStill ==
  ASSUME TaskInv, NEW c \in Callers, run[c].phase \in {"idle", "fetching"},
         NEW asked \in Run, CreateConnection(c, asked),
         UNCHANGED <<down, up, ended, cheTasks, reports, Missed>>
  PROVE  Still
<1>1. PICK k \in Sockets :
        /\ socket[k] = NoSocket
        /\ socket' = [socket EXCEPT ![k] = [state |-> "connecting", tab |-> asked.host]]
        /\ run' = [run EXCEPT ![c] = [asked EXCEPT !.phase = "opening", !.socket = k]]
  BY DEF CreateConnection
<1> DEFINE new == [asked EXCEPT !.phase = "opening", !.socket = k]
<1>2. new.phase = "opening"
  BY DEF Run, Phases
<1>3. run' = [run EXCEPT ![c] = new]
  BY <1>1
<1> HIDE DEF new
<1>4. /\ run \in [Callers -> Run] /\ Calls \subseteq Callers
      /\ socket \in [Sockets -> [state : States, tab : Tabs \cup {None}]]
  BY DEF TaskInv, TaskShape, Connected, Callers
<1>5. \A d \in Callers : run'[d] = IF d = c THEN new ELSE run[d]
  BY <1>3, <1>4
<1>6. \A l \in Sockets : socket[l].state = "open" => socket'[l] = socket[l]
  BY <1>1, <1>4 DEF NoSocket
<1>7. \A d \in Calls : run[d].phase \in Alive => d # c
  BY DEF Alive
<1>8. \A d \in Calls : run'[d].phase \in Alive => run'[d] = run[d]
  BY <1>2, <1>4, <1>5 DEF Alive
<1> QED BY <1>4, <1>5, <1>6, <1>7, <1>8 DEF Still

LEMMA RunTaskStill ==
  ASSUME TaskInv, NEW c \in Calls, NEW t \in Tabs, RunTask(c, t)
  PROVE  Still
<1> DEFINE host == Head(clients)
           asked == [Idle EXCEPT !.tab = t, !.host = host]
           ready == [asked EXCEPT !.phase = "requested", !.socket = connection[host]]
           waits == [asked EXCEPT !.phase = "fetching"]
           over == [asked EXCEPT !.phase = "over"]
           failed == [kind |-> "failed", task |-> c]
<1>1. /\ c \in Callers /\ run[c].phase = "idle" /\ host \in Tabs
      /\ UNCHANGED <<down, ended, cheTasks, reports, Missed>>
  BY FirstClient DEF RunTask, Started, Callers, Idle, TaskInv, service, history, Missed
<1>2. asked \in Run /\ up \in [Tabs -> Seq(Up)] /\ failed \in Up
  BY <1>1 DEF Idle, Run, Phases, Up, TaskInv, TaskShape, Told
<1>3. ready.phase = "requested" /\ waits.phase = "fetching" /\ over.phase = "over"
  BY DEF Idle
<1>4. \/ run' = [run EXCEPT ![c] = ready] /\ UNCHANGED <<socket, up>>
      \/ CreateConnection(c, asked) /\ UNCHANGED up
      \/ run' = [run EXCEPT ![c] = waits] /\ UNCHANGED <<socket, up>>
      \/ /\ run' = [run EXCEPT ![c] = over] /\ UNCHANGED socket
         /\ up' = [up EXCEPT ![host] = Append(@, failed)]
  BY DEF RunTask, GetConnection, Send, Idle
<1> HIDE DEF host, asked, ready, waits, over, failed
<1>5. CASE CreateConnection(c, asked) /\ UNCHANGED up
  BY <1>1, <1>2, <1>5, CreatedStill
<1>6. ASSUME NEW new, new.phase \in {"requested", "fetching", "over"},
             run' = [run EXCEPT ![c] = new], socket' = socket, Extends(up, up')
      PROVE  Still
  <2>1. run \in [Callers -> Run] /\ Calls \subseteq Callers /\ DOMAIN up = Tabs
    BY <1>2 DEF TaskInv, TaskShape, Connected, Callers
  <2>2. \A d \in Callers : run'[d] = IF d = c THEN new ELSE run[d]
    BY <1>6, <2>1
  <2>3. \A d \in Calls : run[d].phase \in Alive => d # c
    BY <1>1 DEF Alive
  <2>4. \A d \in Calls : run'[d].phase \in Alive => run'[d] = run[d]
    BY <1>6, <2>1, <2>2 DEF Alive
  <2>5. \A s \in Tabs : \A i \in 1..Len(up[s]) : i \in 1..Len(up'[s]) /\ up'[s][i] = up[s][i]
    BY <1>6, <2>1 DEF Extends
  <2> QED BY <1>1, <1>6, <2>1, <2>2, <2>3, <2>4, <2>5 DEF Still
<1>7. up' = up => Extends(up, up')
  BY DEF Extends
<1>8. up' = [up EXCEPT ![host] = Append(@, failed)] => Extends(up, up')
  <2> HAVE up' = [up EXCEPT ![host] = Append(@, failed)]
  <2>1. /\ Len(up[host]) \in Nat /\ Len(Append(up[host], failed)) = Len(up[host]) + 1
        /\ \A i \in 1..Len(up[host]) + 1 :
             Append(up[host], failed)[i] = IF i = Len(up[host]) + 1 THEN failed ELSE up[host][i]
    BY <1>1, <1>2, AppendAt
  <2>2. \A k \in Tabs : up'[k] = IF k = host THEN Append(up[host], failed) ELSE up[k]
    BY <1>2
  <2> QED BY <1>2, <2>1, <2>2 DEF Extends
<1> QED BY <1>3, <1>4, <1>5, <1>6, <1>7, <1>8

\* Runs that end, or go on to ask for a process, at most.
LEMMA RunsStill ==
  ASSUME TaskInv, UNCHANGED <<ended, cheTasks, reports>>, Missed \subseteq Missed',
         \A c \in Calls : run[c].phase \in Alive => run'[c] = run[c],
         \A c \in Calls \ Missed' : run'[c].phase \in Alive => run'[c] = run[c],
         \A c \in Calls \ Missed' : \A k \in Sockets :
           run[c].socket = k /\ socket[k] = [state |-> "open", tab |-> run[c].host]
             => socket'[k] = socket[k] /\ down'[k] = down[k],
         \A c \in Calls \ Missed' : \A t \in Tabs : run[c].host = t =>
           \A i \in 1..Len(up[t]) : i \in 1..Len(up'[t]) /\ up'[t][i] = up[t][i]
  PROVE  Still
<1>1. \A c \in Calls : run[c] \in Run
  BY DEF TaskInv, TaskShape, Connected, Callers
<1> QED BY <1>1 DEF Still

LEMMA RejectStill ==
  ASSUME TaskInv, NEW callers, Reject(callers), \A c \in callers : run[c].phase \notin Alive,
         UNCHANGED <<down, ended, cheTasks, reports, Missed>>,
         \A k \in Sockets : socket[k].state = "open" => socket'[k] = socket[k]
  PROVE  Still
<1>1. /\ run \in [Callers -> Run] /\ Calls \subseteq Callers /\ DOMAIN up = Tabs
      /\ run' = [c \in Callers |-> IF c \in callers THEN [run[c] EXCEPT !.phase = "over"]
                                   ELSE run[c]]
  BY DEF TaskInv, TaskShape, Connected, Told, Reject, Callers
<1>2. \A c \in Calls : run[c].phase \in Alive => run'[c] = run[c]
  BY <1>1
<1>3. \A c \in Callers : run'[c].phase = IF c \in callers THEN "over" ELSE run[c].phase
  BY Rejected DEF TaskInv
<1>4. \A c \in Calls : run'[c].phase \in Alive => run'[c] = run[c]
  BY <1>1, <1>3 DEF Alive
<1>5. \A t \in Tabs : \A i \in 1..Len(up[t]) : i \in 1..Len(up'[t]) /\ up'[t][i] = up[t][i]
  BY <1>1, Rejected DEF TaskInv, Extends
<1> QED BY <1>2, <1>4, <1>5, RunsStill

LEMMA OpensStill ==
  ASSUME TaskInv, NEW k \in Sockets, SocketOpens(k)
  PROVE  Still
<1>1. /\ socket[k].state = "connecting" /\ socket' = [socket EXCEPT ![k].state = "open"]
      /\ UNCHANGED <<down, ended, up, cheTasks, reports, Missed>>
      /\ run' = [c \in Callers |->
                   IF c \notin OpeningOn(k) THEN run[c]
                   ELSE [run[c] EXCEPT !.phase = IF c \in Calls THEN "requested" ELSE "over"]]
  BY DEF SocketOpens, service, history, Missed
<1>2. /\ run \in [Callers -> Run] /\ Calls \subseteq Callers
      /\ socket \in [Sockets -> [state : States, tab : Tabs \cup {None}]]
  BY DEF TaskInv, TaskShape, Connected, Callers
<1>3. \A c \in Calls : c \in OpeningOn(k) =>
        run[c].phase = "opening" /\ run'[c].phase = "requested"
  BY <1>1, <1>2 DEF OpeningOn, Run
<1>4. \A c \in Calls : c \notin OpeningOn(k) => run'[c] = run[c]
  BY <1>1, <1>2
<1>5. \A l \in Sockets : socket[l].state = "open" => socket'[l] = socket[l]
  BY <1>1, <1>2
<1> QED BY <1>1, <1>3, <1>4, <1>5, RunsStill DEF Alive

LEMMA FailsStill ==
  ASSUME TaskInv, NEW k \in Sockets, SocketFails(k)
  PROVE  Still
<1>1. /\ socket[k].state = "connecting" /\ socket' = [socket EXCEPT ![k].state = "waiting"]
      /\ UNCHANGED <<down, ended, cheTasks, reports, Missed>>
      /\ UNCHANGED <<run, up>> \/ Reject(OpeningOn(k))
  BY DEF SocketFails, service, history, Missed
<1>2. socket \in [Sockets -> [state : States, tab : Tabs \cup {None}]]
  BY DEF TaskInv, TaskShape, Connected
<1>3. \A l \in Sockets : socket[l].state = "open" => socket'[l] = socket[l]
  BY <1>1, <1>2
<1>4. CASE UNCHANGED <<run, up>>
  BY <1>1, <1>3, <1>4, RunsStill
<1>5. CASE Reject(OpeningOn(k))
  <2>1. \A c \in OpeningOn(k) : run[c].phase \notin Alive
    BY DEF OpeningOn, Alive
  <2> QED BY <1>1, <1>3, <1>5, <2>1, RejectStill
<1> QED BY <1>1, <1>4, <1>5

LEMMA ClosesStill ==
  ASSUME TaskInv, NEW k \in Sockets, SocketCloses(k)
  PROVE  Still
<1>1. /\ socket' = [socket EXCEPT ![k].state = "waiting"] /\ down' = [down EXCEPT ![k] = <<>>]
      /\ run' = [c \in Callers |-> IF run[c].phase = "requested" /\ run[c].socket = k
                                   THEN [run[c] EXCEPT !.phase = "over"] ELSE run[c]]
      /\ Missed' = Missed \cup {c \in Calls : run[c].socket = k}
      /\ UNCHANGED <<ended, up, cheTasks, reports>>
  BY DEF SocketCloses, service, Missed
<1>2. /\ run \in [Callers -> Run] /\ Calls \subseteq Callers
      /\ socket \in [Sockets -> [state : States, tab : Tabs \cup {None}]]
      /\ down \in [Sockets -> Seq(Down)]
  BY DEF TaskInv, TaskShape, Connected, Told, Callers
<1>3. \A c \in Calls : run'[c] = run[c] \/ (run[c].phase = "requested" /\ run[c].socket = k)
  BY <1>1, <1>2
<1>4. \A l \in Sockets : l # k => socket'[l] = socket[l] /\ down'[l] = down[l]
  BY <1>1, <1>2
<1> QED BY <1>1, <1>3, <1>4, RunsStill DEF Alive

LEMMA DisconnectTabStill ==
  ASSUME TaskInv, NEW t \in Tabs, DisconnectTab(t)
  PROVE  Still
<1>1. /\ socket' = [k \in Sockets |-> IF socket[k].tab = t
                                      THEN [socket[k] EXCEPT !.state = "closed"] ELSE socket[k]]
      /\ down' = [k \in Sockets |-> IF socket[k].tab = t THEN <<>> ELSE down[k]]
      /\ run' = [c \in Callers |->
                   IF c = t THEN Idle
                   ELSE IF c \in Calls /\ run[c].host = t
                           /\ run[c].phase \notin {"created", "running"}
                   THEN [run[c] EXCEPT !.phase = "over"] ELSE run[c]]
      /\ up' = [up EXCEPT ![t] = <<>>]
      /\ Missed' = Missed \cup {c \in Calls : run[c].host = t}
      /\ UNCHANGED <<ended, cheTasks, reports>>
  BY DEF DisconnectTab, Missed
<1>2. /\ run \in [Callers -> Run] /\ Calls \subseteq Callers /\ t \notin Calls
      /\ up \in [Tabs -> Seq(Up)]
  BY CallsAssumption DEF TaskInv, TaskShape, Connected, Told, Callers
<1>3. \A c \in Calls : \/ run'[c] = run[c]
                       \/ run[c].host = t /\ run[c].phase \notin {"created", "running"}
  BY <1>1, <1>2
<1>4. \A k \in Sockets : socket[k].tab # t => socket'[k] = socket[k] /\ down'[k] = down[k]
  BY <1>1
<1>5. \A s \in Tabs : s # t => up'[s] = up[s]
  BY <1>1, <1>2
<1>6. \A c \in Calls : c \notin Missed' => run[c].host # t
  BY <1>1
<1>7. ASSUME NEW c \in Calls \ Missed'
      PROVE  /\ run'[c] = run[c]
             /\ \A k \in Sockets :
                  run[c].socket = k /\ socket[k] = [state |-> "open", tab |-> run[c].host]
                    => socket'[k] = socket[k] /\ down'[k] = down[k]
             /\ \A s \in Tabs : run[c].host = s =>
                  \A i \in 1..Len(up[s]) : i \in 1..Len(up'[s]) /\ up'[s][i] = up[s][i]
  <2>1. run[c].host # t
    BY <1>6
  <2>2. \A k \in Sockets : socket[k] = [state |-> "open", tab |-> run[c].host]
                            => socket[k].tab # t
    BY <2>1
  <2> QED BY <1>3, <1>4, <1>5, <2>1, <2>2
<1>8. \A c \in Calls : run[c].phase \in Alive => run'[c] = run[c]
  BY <1>3 DEF Alive
<1> QED BY <1>1, <1>7, <1>8, RunsStill

LEMMA StepsStill ==
  ASSUME TaskInv,
         \/ Connecting
         \/ \E c \in Calls, t \in Tabs : RunTask(c, t)
         \/ \E t \in Tabs : TabReceives(t) \/ SetTaskStatus(t)
         \/ Coming \/ Showing \/ UNCHANGED vars
  PROVE  Still
<1>1. CASE \E c \in Callers : EndpointFetched(c)
  <2>1. PICK c \in Callers : EndpointFetched(c)
    BY <1>1
  <2>2. run[c] \in Run
    BY DEF TaskInv, TaskShape, Connected
  <2> QED BY <2>1, <2>2, CreatedStill DEF EndpointFetched, service, history, Missed
<1>2. CASE \E c \in Callers : EndpointMissing(c)
  <2>1. PICK c \in Callers : EndpointMissing(c)
    BY <1>2
  <2>2. /\ Reject({c}) /\ \A d \in {c} : run[d].phase \notin Alive
        /\ UNCHANGED <<socket, down, ended, cheTasks, reports, Missed>>
    BY <2>1 DEF EndpointMissing, client, service, Alive, history, Missed
  <2> QED BY <2>2, RejectStill
<1>3. CASE \E k \in Sockets : Reopen(k)
  <2>1. PICK k \in Sockets : Reopen(k)
    BY <1>3
  <2>2. /\ socket[k].state = "waiting" /\ socket' = [socket EXCEPT ![k].state = "connecting"]
        /\ UNCHANGED <<down, run, ended, up, cheTasks, reports, Missed>>
    BY <2>1 DEF Reopen, service, history, Missed
  <2>3. \A l \in Sockets : socket[l].state = "open" => socket'[l] = socket[l]
    BY <2>2 DEF TaskInv, TaskShape, Connected
  <2> QED BY <2>2, <2>3, RunsStill
<1>4. CASE \/ \E t \in Tabs : TabReceives(t) \/ SetTaskStatus(t) \/ ConnectTab(t)
           \/ Showing \/ UNCHANGED vars
  <2>1. UNCHANGED <<socket, down, run, ended, up, cheTasks, reports, Missed>>
    BY <1>4 DEF TabReceives, SetTaskStatus, ConnectTab, Showing, AttachTerminal, TerminalOpens,
                ReconnectTerminal, RestartTerminal, TerminalsDisconnect, client, service, vars,
                history, Missed
  <2> QED BY <2>1, RunsStill
<1>5. CASE \E t \in Tabs : HostStarts(t)
  <2>1. PICK t \in Tabs : HostStarts(t)
    BY <1>5
  <2>2. /\ run' = [run EXCEPT ![t] = [Idle EXCEPT !.phase = "fetching", !.host = t]]
        /\ UNCHANGED <<socket, down, ended, up, cheTasks, reports, Missed>>
    BY <2>1 DEF HostStarts, client, service, history, Missed
  <2>3. \A c \in Calls : run'[c] = run[c]
    BY <2>2, CallsAssumption DEF TaskInv, TaskShape, Connected, Callers
  <2> QED BY <2>2, <2>3, RunsStill
<1> QED BY <1>1, <1>2, <1>3, <1>4, <1>5, RunTaskStill, OpensStill, FailsStill, ClosesStill,
           DisconnectTabStill DEF Connecting, Coming

LEMMA ProcessEndsEnds ==
  ASSUME TaskInv, EndsInv, NEW d \in Calls, ProcessEnds(d)
  PROVE  EndsInv'
<1> DEFINE exit == Message("exit", d)
<1>1. /\ run[d].phase \in Alive /\ d \notin ended /\ ended' = ended \cup {d}
      /\ down' = [k \in Sockets |-> IF socket[k].state # "open" THEN down[k]
                                    ELSE Append(down[k], exit)]
      /\ UNCHANGED <<socket, run, up, cheTasks, reports, Missed>>
  BY DEF ProcessEnds, client, service, Alive, Message, Missed
<1>2. exit \in Down /\ down \in [Sockets -> Seq(Down)]
  BY DEF Message, Down, TaskInv, TaskShape, Told
<1>3. \A c \in ended' : run'[c].phase \in Alive
  BY <1>1 DEF EndsInv
<1>4. ASSUME NEW c \in Calls \ Missed', run'[c].phase \in Alive PROVE OnItsWay(c)'
  <2> DEFINE k == run[c].socket
             t == run[c].host
  <2>1. OnItsWay(c) /\ run'[c] = run[c]
    BY <1>1, <1>4 DEF EndsInv
  <2>2. k \in Sockets /\ t \in Tabs /\ socket[k] = [state |-> "open", tab |-> t]
    BY <2>1 DEF OnItsWay
  <2>3. down'[k] = Append(down[k], exit)
    BY <1>1, <2>2
  <2> HIDE DEF exit
  <2>4. /\ Holds(down'[k], exit)
        /\ \A m : Holds(down[k], m) => Holds(down'[k], m) /\ Then(down'[k], m, exit)
        /\ \A m, n : Then(down[k], m, n) => Then(down'[k], m, n)
    BY <1>2, <2>2, <2>3, AppendHolds
  <2> HIDE DEF k, t
  <2>5. CASE c \in ended
    <3>1. c \in ended' /\ Ending(c)
      BY <1>1, <2>1, <2>5 DEF OnItsWay
    <3>2. Ending(c)'
      BY <1>1, <2>1, <2>4, <3>1 DEF Ending, Recorded, k
    <3> QED BY <1>1, <2>1, <2>2, <3>1, <3>2 DEF OnItsWay, k, t
  <2>6. CASE c = d
    <3>1. c \in ended' /\ Answering(c)
      BY <1>1, <2>1, <2>6 DEF OnItsWay
    <3>2. Ending(c)'
      BY <1>1, <2>1, <2>4, <2>6, <3>1 DEF Ending, Answering, Recorded, k, exit
    <3> QED BY <1>1, <2>1, <2>2, <3>1, <3>2 DEF OnItsWay, k, t
  <2>7. CASE c # d /\ c \notin ended
    <3>1. c \notin ended' /\ Answering(c)
      BY <1>1, <2>1, <2>7 DEF OnItsWay
    <3>2. Answering(c)'
      BY <1>1, <2>1, <2>4, <3>1 DEF Answering, Recorded, k
    <3> QED BY <1>1, <2>1, <2>2, <3>1, <3>2 DEF OnItsWay, k, t
  <2> QED BY <2>5, <2>6, <2>7
<1> QED BY <1>3, <1>4 DEF EndsInv

LEMMA CreateEnds ==
  ASSUME TaskInv, EndsInv, NEW d \in Calls, Create(d)
  PROVE  EndsInv'
<1> DEFINE message == Message("created", d)
           l == run[d].socket
<1>1. /\ run[d].phase = "requested" /\ run' = [run EXCEPT ![d].phase = "created"]
      /\ down' = [down EXCEPT ![l] = Append(@, message)] /\ d \in Callers
      /\ UNCHANGED <<socket, up, ended, cheTasks, reports, Missed>>
  BY DEF Create, Send, client, service, Message, Callers, history, Missed
<1>2. /\ run \in [Callers -> Run] /\ down \in [Sockets -> Seq(Down)] /\ l \in Sockets
      /\ socket \in [Sockets -> [state : States, tab : Tabs \cup {None}]]
      /\ socket[l].state = "open" /\ socket[l].tab = run[d].host /\ run[d].host \in Tabs
      /\ ended \subseteq Calls /\ Calls \subseteq Callers
  BY <1>1 DEF TaskInv, TaskShape, Connected, Told, Links, Callers
<1>3. message \in Down
  BY DEF Message, Down
<1>4. /\ \A c \in Callers : c # d => run'[c] = run[c]
      /\ run'[d].phase = "created" /\ run'[d].socket = l /\ run'[d].host = run[d].host
  BY <1>1, <1>2, PhaseSet DEF Run
<1>5. d \notin ended
  BY <1>1 DEF EndsInv, Alive
<1>6. \A c \in ended' : run'[c].phase \in Alive
  BY <1>1, <1>2, <1>4, <1>5 DEF EndsInv
<1> HIDE DEF message
<1>7. /\ down'[l] = Append(down[l], message) /\ \A k \in Sockets : k # l => down'[k] = down[k]
      /\ Holds(down'[l], message)
      /\ \A m : Holds(down[l], m) => Holds(down'[l], m)
      /\ \A m, n : Then(down[l], m, n) => Then(down'[l], m, n)
  <2> HIDE DEF l
  <2>1. down'[l] = Append(down[l], message) /\ \A k \in Sockets : k # l => down'[k] = down[k]
    BY <1>1, <1>2
  <2> QED BY <1>2, <1>3, <2>1, AppendHolds
<1>8. ASSUME NEW c \in Calls \ Missed', run'[c].phase \in Alive PROVE OnItsWay(c)'
  <2>1. CASE c = d
    <3>1. Answering(c)'
      BY <1>4, <1>7, <2>1 DEF Answering, message
    <3>2. socket[l] = [state |-> "open", tab |-> run[d].host]
      BY <1>2
    <3> QED BY <1>1, <1>2, <1>4, <1>5, <2>1, <3>1, <3>2 DEF OnItsWay
  <2>2. CASE c # d
    <3>1. run'[c] = run[c] /\ OnItsWay(c)
      BY <1>1, <1>2, <1>4, <1>8, <2>2 DEF EndsInv
    <3>2. /\ \A m : Holds(down[run[c].socket], m) => Holds(down'[run[c].socket], m)
          /\ \A m, n : Then(down[run[c].socket], m, n) => Then(down'[run[c].socket], m, n)
      <4>1. run[c].socket \in Sockets
        BY <3>1 DEF OnItsWay
      <4> QED BY <1>7, <4>1
    <3>3. Answering(c) => Answering(c)'
      BY <1>1, <3>1, <3>2 DEF Answering, Recorded
    <3>4. Ending(c) => Ending(c)'
      BY <1>1, <3>1, <3>2 DEF Ending, Recorded
    <3> QED BY <1>1, <3>1, <3>3, <3>4 DEF OnItsWay
  <2> QED BY <2>1, <2>2
<1> QED BY <1>6, <1>8 DEF EndsInv

LEMMA HostEnds ==
  ASSUME TaskInv, EndsInv, NEW l \in Sockets, HostReceives(l)
  PROVE  EndsInv'
<1> DEFINE message == Head(down[l])
           s == socket[l].tab
           x == Passed(message)
           d == message.task
<1>1. /\ down[l] # <<>> /\ down' = [down EXCEPT ![l] = Tail(@)]
      /\ up' = [up EXCEPT ![s] = Append(@, x)]
      /\ UNCHANGED <<socket, ended, cheTasks, reports, Missed>>
  BY DEF HostReceives, Send, Passed, client, service, history, Missed
<1>2. /\ run \in [Callers -> Run] /\ down \in [Sockets -> Seq(Down)]
      /\ up \in [Tabs -> Seq(Up)] /\ ended \subseteq Calls /\ Calls \subseteq Callers
  BY DEF TaskInv, TaskShape, Connected, Told, Callers
<1>3. /\ message \in Down /\ x \in Up /\ s \in Tabs
      /\ message.kind = "created" => run' = [run EXCEPT ![d].phase = "running"]
      /\ message.kind # "created" => run' = run
  BY HostShape DEF TaskInv
<1>4. d \in Callers /\ (message.kind = "created" => run[d].phase = "created")
  <2>1. 1 \in 1..Len(down[l]) /\ message = down[l][1]
    BY <1>1, <1>2, TailAt
  <2> QED BY <1>2, <1>3, <2>1 DEF TaskInv, Stages, Down
<1>5. /\ \A c : message = Message("created", c) => x = Message("ran", c)
      /\ \A c : message = Message("exit", c) => x = Message("exit", c)
  BY DEF Passed, Message
<1> HIDE DEF message, x, s, d
<1>6. \A c \in Callers :
        /\ run'[c].phase \in Alive <=> run[c].phase \in Alive
        /\ run'[c].socket = run[c].socket /\ run'[c].host = run[c].host
  <2>1. CASE message.kind = "created"
    <3>1. run' = [run EXCEPT ![d] = [run[d] EXCEPT !.phase = "running"]] /\ run[d] \in Run
      BY <1>2, <1>3, <1>4, <2>1
    <3>2. "running" \in Phases
      BY DEF Phases
    <3> QED BY <1>2, <1>4, <2>1, <3>1, <3>2, PhaseSet DEF Alive
  <2>2. CASE message.kind # "created"
    BY <1>3, <2>2
  <2> QED BY <2>1, <2>2
<1>7. \A c \in ended' : run'[c].phase \in Alive
  BY <1>1, <1>2, <1>6 DEF EndsInv
<1>8. /\ \A t \in Tabs : \A m : Holds(up[t], m) => Holds(up'[t], m)
      /\ \A t \in Tabs : \A m, n : Then(up[t], m, n) => Then(up'[t], m, n)
      /\ Holds(up'[s], x) /\ \A m : Holds(up[s], m) => Then(up'[s], m, x)
  <2>1. up'[s] = Append(up[s], x) /\ \A t \in Tabs : t # s => up'[t] = up[t]
    BY <1>1, <1>2, <1>3
  <2>2. up[s] \in Seq(Up)
    BY <1>2, <1>3
  <2>3. /\ Holds(up'[s], x) /\ \A m : Holds(up[s], m) => Holds(up'[s], m) /\ Then(up'[s], m, x)
        /\ \A m, n : Then(up[s], m, n) => Then(up'[s], m, n)
    BY <1>3, <2>1, <2>2, AppendHolds
  <2>4. ASSUME NEW t \in Tabs
        PROVE  /\ \A m : Holds(up[t], m) => Holds(up'[t], m)
               /\ \A m, n : Then(up[t], m, n) => Then(up'[t], m, n)
    <3>1. CASE t = s
      BY <2>3, <3>1
    <3>2. CASE t # s
      BY <2>1, <3>2
    <3> QED BY <3>1, <3>2
  <2> QED BY <2>3, <2>4
<1>9. /\ \A k \in Sockets : k # l => down'[k] = down[k]
      /\ \A m : Holds(down[l], m) => message = m \/ Holds(down'[l], m)
      /\ \A m, n : Then(down[l], m, n) =>
           (message = m /\ Holds(down'[l], n)) \/ Then(down'[l], m, n)
  <2>1. down'[l] = Tail(down[l]) /\ \A k \in Sockets : k # l => down'[k] = down[k]
    BY <1>1, <1>2
  <2>2. down[l] \in Seq(Down)
    BY <1>2
  <2> QED BY <1>1, <2>1, <2>2, TailHolds DEF message
<1>10. ASSUME NEW c \in Calls \ Missed', run'[c].phase \in Alive PROVE OnItsWay(c)'
  <2> DEFINE k == run[c].socket
             t == run[c].host
  <2>1. /\ OnItsWay(c) /\ run'[c].socket = k /\ run'[c].host = t
    BY <1>1, <1>2, <1>6, <1>10 DEF EndsInv
  <2>2. k \in Sockets /\ t \in Tabs /\ socket[k] = [state |-> "open", tab |-> t]
    BY <2>1 DEF OnItsWay
  <2>3. k = l => t = s
    BY <2>2 DEF s
  <2>4. /\ Holds(down[k], Message("created", c)) =>
             Holds(up'[t], Message("ran", c)) \/ Holds(down'[k], Message("created", c))
        /\ Holds(down[k], Message("exit", c)) =>
             \/ Holds(down'[k], Message("exit", c))
             \/ /\ Holds(up'[t], Message("exit", c))
                /\ Holds(up[t], Message("ran", c)) =>
                     Then(up'[t], Message("ran", c), Message("exit", c))
        /\ Then(down[k], Message("created", c), Message("exit", c)) =>
             \/ Holds(up'[t], Message("ran", c)) /\ Holds(down'[k], Message("exit", c))
             \/ Then(down'[k], Message("created", c), Message("exit", c))
    <3>1. CASE k = l
      BY <1>5, <1>8, <1>9, <2>3, <3>1
    <3>2. CASE k # l
      BY <1>9, <2>2, <3>2
    <3> QED BY <3>1, <3>2
  <2>5. /\ \A m : Holds(up[t], m) => Holds(up'[t], m)
        /\ \A m, n : Then(up[t], m, n) => Then(up'[t], m, n)
    BY <1>8, <2>2
  <2>6. Recorded(c)' <=> Recorded(c)
    BY <1>1 DEF Recorded
  <2> HIDE DEF Recorded
  <2>7. Answering(c) => Answering(c)'
    BY <2>1, <2>4, <2>5, <2>6 DEF Answering
  <2>8. Ending(c) => Ending(c)'
    BY <1>1, <2>1, <2>4, <2>5, <2>6 DEF Ending
  <2> QED BY <1>1, <2>1, <2>2, <2>7, <2>8 DEF OnItsWay
<1> QED BY <1>7, <1>10 DEF EndsInv

\* What the backend does with a message, said of one task.
LEMMA BackendRecords ==
  ASSUME TaskInv, NEW message \in Up, NEW c \in Calls,
         TaskRan(message) \/ RunFailed(message) \/ FireTaskExited(message)
  PROVE  /\ reports[c] = 1 => reports'[c] = 1
         /\ Recorded(c) => \/ Recorded(c)' /\ reports'[c] = reports[c]
                           \/ reports'[c] = 1 /\ message = Message("exit", c)
         /\ message = Message("ran", c) => Recorded(c)'
         /\ message = Message("exit", c) /\ Recorded(c) => reports'[c] = 1
<1> DEFINE d == message.task
<1>2. /\ cheTasks \in Seq(Calls) /\ reports \in [Calls -> Nat] /\ Once(cheTasks)
  BY DEF TaskInv, TaskShape, Told, Stages
<1>4. d \in Calls
  BY DEF Up
<1>5. Message("ran", c).kind = "ran" /\ Message("exit", c).kind = "exit"
      /\ Message("ran", c).task = c /\ Message("exit", c).task = c
  BY MessageParts
<1>6. CASE TaskRan(message)
  <2>1. /\ message.kind = "ran" /\ cheTasks' = Append(cheTasks, d) /\ reports' = reports
    BY <1>6 DEF TaskRan
  <2>2. Holds(cheTasks', d) /\ \A m : Holds(cheTasks, m) => Holds(cheTasks', m)
    BY <1>2, <1>4, <2>1, AppendHolds
  <2> QED BY <1>5, <2>1, <2>2 DEF Recorded
<1>7. CASE RunFailed(message)
  <2>1. message.kind = "failed" /\ UNCHANGED <<cheTasks, reports>>
    BY <1>7 DEF RunFailed, service
  <2> QED BY <1>5, <2>1 DEF Recorded
<1>8. CASE FireTaskExited(message) /\ d \notin Range(cheTasks)
  <2>1. message.kind = "exit" /\ UNCHANGED <<cheTasks, reports>>
    BY <1>8 DEF FireTaskExited
  <2>2. ~Recorded(d)
    BY <1>2, <1>8, InRange DEF Recorded, Holds
  <2> QED BY <1>5, <2>1, <2>2 DEF Recorded
<1>9. CASE FireTaskExited(message) /\ d \in Range(cheTasks)
  <2>1. /\ message.kind = "exit" /\ cheTasks' = RemoveFirst(cheTasks, d)
        /\ reports' = [reports EXCEPT ![d] = reports[d] + 1]
    BY <1>9 DEF FireTaskExited
  <2>2. Holds(cheTasks, d)
    BY <1>2, <1>9, InRange DEF Holds
  <2>3. reports[d] = 0
    BY <2>2 DEF Holds, TaskInv, Stages
  <2>4. reports'[d] = 1 /\ \A e \in Calls : e # d => reports'[e] = reports[e]
    BY <1>2, <1>4, <2>1, <2>3
  <2>5. \A e : e # d /\ Holds(cheTasks, e) => Holds(cheTasks', e)
    BY <1>2, <2>1, <2>2, RemovedKeeps
  <2>6. message = Message("exit", d)
    BY <2>1 DEF Message, Up
  <2> QED BY <1>5, <2>1, <2>3, <2>4, <2>5, <2>6 DEF Recorded
<1> QED BY <1>6, <1>7, <1>8, <1>9

LEMMA BackendEnds ==
  ASSUME TaskInv, EndsInv, NEW t \in Tabs, BackendReceives(t)
  PROVE  EndsInv'
<1>a. PICK n \in DOMAIN up[t] :
        /\ up' = [up EXCEPT ![t] = RemoveAt(@, n)]
        /\ TaskRan(up[t][n]) \/ RunFailed(up[t][n]) \/ FireTaskExited(up[t][n])
        /\ overtaken' = overtaken \cup {c \in {up[t][n].task} :
                                         \E j \in 1..n - 1 : up[t][j].task = c}
        /\ UNCHANGED <<socket, down, run, ended, cut>>
  BY DEF BackendReceives, client
<1> DEFINE message == up[t][n]
<1>1. /\ up' = [up EXCEPT ![t] = RemoveAt(@, n)]
      /\ TaskRan(message) \/ RunFailed(message) \/ FireTaskExited(message)
      /\ UNCHANGED <<socket, down, run, ended>>
      /\ Missed \subseteq Missed'
      /\ \A j \in 1..n - 1 : up[t][j].task = message.task => message.task \in Missed'
  BY <1>a DEF Missed
<1>2. up \in [Tabs -> Seq(Up)] /\ ended \subseteq Calls
  BY DEF TaskInv, TaskShape, Told
<1>3. \A c \in ended' : run'[c].phase \in Alive
  BY <1>1 DEF EndsInv
<1>4. up[t] \in Seq(Up) /\ n \in 1..Len(up[t]) /\ message \in Up
  BY <1>2
<1>5. /\ \A s \in Tabs : s # t => up'[s] = up[s]
      /\ \A m : Holds(up[t], m) => message = m \/ Holds(up'[t], m)
      /\ \A m, l : Then(up[t], m, l) =>
           \/ Then(up'[t], m, l)
           \/ message = m /\ Holds(up'[t], l)
           \/ message = l /\ \E j \in 1..n - 1 : up[t][j] = m
  <2>1. up'[t] = RemoveAt(up[t], n) /\ \A s \in Tabs : s # t => up'[s] = up[s]
    BY <1>1, <1>2
  <2> QED BY <1>4, <2>1, RemovedHolds
<1>6. ASSUME NEW c \in Calls \ Missed', run'[c].phase \in Alive PROVE OnItsWay(c)'
  <2> DEFINE k == run[c].socket
             h == run[c].host
  <2>1. OnItsWay(c) /\ run'[c] = run[c] /\ h \in Tabs
    BY <1>1, <1>6 DEF EndsInv, OnItsWay
  <2>2. /\ reports[c] = 1 => reports'[c] = 1
        /\ Recorded(c) => \/ Recorded(c)' /\ reports'[c] = reports[c]
                          \/ reports'[c] = 1 /\ message = Message("exit", c)
        /\ message = Message("ran", c) => Recorded(c)'
        /\ message = Message("exit", c) /\ Recorded(c) => reports'[c] = 1
    BY <1>1, <1>4, BackendRecords
  <2>3. message = Message("exit", c) => c \in ended
    <3>1. Message("exit", c).kind = "exit" /\ Message("exit", c).task = c
      BY MessageParts
    <3> QED BY <1>2, <3>1 DEF TaskInv, Stages
  <2>4. \A m : Holds(up[h], m) => message = m \/ Holds(up'[h], m)
    BY <1>5, <2>1
  <2>5. Then(up[h], Message("ran", c), Message("exit", c)) =>
          \/ Then(up'[h], Message("ran", c), Message("exit", c))
          \/ message = Message("ran", c) /\ Holds(up'[h], Message("exit", c))
    <3>1. ~(message = Message("exit", c) /\ \E j \in 1..n - 1 : up[t][j] = Message("ran", c))
      <4>1. Message("exit", c).task = c /\ Message("ran", c).task = c
        BY MessageParts
      <4> QED BY <1>1, <1>6, <4>1
    <3>2. CASE h = t
      BY <1>5, <3>1, <3>2
    <3>3. CASE h # t
      BY <1>5, <2>1, <3>3
    <3> QED BY <3>2, <3>3
  <2> HIDE DEF Recorded, h, k, message
  <2>6. c \notin ended /\ Answering(c) => Answering(c)'
    BY <1>1, <2>1, <2>2, <2>3, <2>4 DEF Answering, h, k
  <2>7. Ending(c) => Ending(c)'
    BY <1>1, <2>1, <2>2, <2>4, <2>5 DEF Ending, h, k
  <2> QED BY <1>1, <2>1, <2>6, <2>7 DEF OnItsWay, h, k
<1> QED BY <1>3, <1>6 DEF EndsInv

LEMMA NextEnds == TaskInv /\ EndsInv /\ [Next]_vars => EndsInv'
<1> SUFFICES ASSUME TaskInv, EndsInv, [Next]_vars PROVE EndsInv'
  OBVIOUS
<1>1. CASE Still
  BY <1>1, StillEnds
<1> QED BY <1>1, StepsStill, ProcessEndsEnds, CreateEnds, HostEnds, BackendEnds
        DEF Next, Running, Telling

LEMMA InitEnds == Init => EndsInv
<1> SUFFICES ASSUME Init PROVE EndsInv
  OBVIOUS
<1>1. \A c \in Callers : run[c].phase \in {"idle", "fetching"}
  BY DEF Init, Idle
<1>2. ended = {} /\ Calls \subseteq Callers
  BY DEF Init, Callers
<1>3. \A c \in Calls : run[c].phase \notin Alive
  BY <1>1, <1>2 DEF Alive
<1> QED BY <1>2, <1>3 DEF EndsInv

LEMMA EndsHold == Spec => []EndsInv
BY InitEnds, NextEnds, TasksHold, PTL DEF Spec

\* Once nothing is on its way, the end of every task was reported whose socket
\* did not break after it was asked for and whose end did not overtake the
\* answer, also of one that ends before runTask has recorded it
\* (MachineExecClient.getExecId, fireTaskExited).
THEOREM EndsReported == Spec => []ExitNotLost
<1>1. TaskInv /\ EndsInv => ExitNotLost
  <2> SUFFICES ASSUME TaskInv, EndsInv, Quiet, NEW c \in ended \ Missed PROVE reports[c] = 1
    BY DEF ExitNotLost, Missed
  <2>1. c \in Calls /\ run[c].phase \in Alive
    BY DEF TaskInv, TaskShape, Told, EndsInv
  <2>2. OnItsWay(c)
    BY <2>1 DEF EndsInv
  <2>3. Ending(c) /\ down[run[c].socket] = <<>> /\ up[run[c].host] = <<>>
    BY <2>2 DEF OnItsWay, Quiet
  <2> QED BY <2>3, EmptyHolds DEF Ending
<1> QED BY <1>1, TasksHold, EndsHold, PTL

------------------------------------------------------------------------------
(* The icons. *)

\* What a step leaves alone that neither records, ends nor reports a task, and
\* ends no connection of a tab.
Unheard ==
  /\ UNCHANGED <<cheTasks, reports, toTab, statuses, ended>>
  /\ early' \subseteq early /\ Missed \subseteq Missed'
  /\ \A s : Open(s) => Open(s)'
  /\ \A c \in Calls : run[c].phase \in Alive => run'[c].tab = run[c].tab

LEMMA KnownAlive ==
  ASSUME TaskInv, EndsInv
  PROVE  /\ \A c \in Calls : Known(c) => run[c].phase \in Alive
         /\ \A c \in ended : c \in Calls /\ run[c].phase \in Alive
<1>1. ended \subseteq Calls
  BY DEF TaskInv, TaskShape, Told
<1>2. \A c \in Calls : Known(c) => run[c].phase = "running"
  BY DEF TaskInv, Stages, Known, Recorded, Holds
<1> QED BY <1>1, <1>2 DEF EndsInv, Alive

\* A step that shows nothing of the tasks that ended early.
LEMMA ShownIcons ==
  ASSUME TaskInv, EndsInv, IconsInv, Unheard,
         \A c \in Calls : Known(c) /\ terminal[c] = "created" => terminal'[c] = "created",
         \A c \in early' : HasId(c)' /\ icon'[c] = icon[c]
  PROVE  IconsInv'
<1>1. \A c : Known(c)' <=> Known(c)
  BY DEF Unheard, Known, Recorded, Holds
<1>2. OnlyOne(toTab)'
  BY DEF IconsInv, Unheard, OnlyOne
<1>3. \A t \in Tabs, c \in Calls : Holds(toTab[t], Message("ran", c))' =>
        terminal'[c] = "created" /\ Known(c)' /\ run'[c].tab = t
  <2> SUFFICES ASSUME NEW t \in Tabs, NEW c \in Calls, Holds(toTab[t], Message("ran", c))'
               PROVE  terminal'[c] = "created" /\ Known(c)' /\ run'[c].tab = t
    OBVIOUS
  <2>1. Holds(toTab[t], Message("ran", c))
    BY DEF Unheard, Holds, Message
  <2>2. terminal[c] = "created" /\ Known(c) /\ run[c].tab = t
    BY <2>1 DEF IconsInv
  <2> QED BY <1>1, <2>2, KnownAlive DEF Unheard
<1>4. early' \subseteq ended'
  BY DEF Unheard, IconsInv
<1>5. ASSUME NEW c \in early'
      PROVE  HasId(c)' /\ Open(run[c].tab)' /\ (c \notin Missed' => IconTold(c)')
  <2>1. c \in early /\ c \in ended
    BY <1>5 DEF Unheard, IconsInv
  <2>2. run'[c].tab = run[c].tab
    BY <2>1, KnownAlive DEF Unheard
  <2>3. Open(run[c].tab)'
    BY <2>1, <2>2 DEF Unheard, IconsInv, Open
  <2>4. ASSUME c \notin Missed' PROVE IconTold(c)'
    <3>1. c \notin Missed
      BY <2>4 DEF Unheard
    <3>2. IconTold(c)
      BY <2>1, <3>1 DEF IconsInv
    <3> QED BY <1>5, <2>2, <3>2 DEF Unheard, IconTold, Holds, Message
  <2> QED BY <1>5, <2>3, <2>4
<1> QED BY <1>2, <1>3, <1>4, <1>5 DEF IconsInv

\* A step that shows nothing.
LEMMA UnseenIcons ==
  ASSUME TaskInv, EndsInv, IconsInv, UNCHANGED <<toTab, ended, cheTasks, reports, view, early>>,
         Missed \subseteq Missed', \A s : Open(s) => Open(s)',
         \A c \in Calls : run[c].phase \in Alive => run'[c].tab = run[c].tab
  PROVE  IconsInv'
<1>1. Unheard /\ UNCHANGED <<terminal, icon>>
  BY DEF Unheard, view
<1>2. \A c \in early' : HasId(c)' /\ icon'[c] = icon[c]
  BY <1>1 DEF Unheard, IconsInv, HasId
<1> QED BY <1>1, <1>2, ShownIcons

LEMMA ConnectingIcons ==
  ASSUME TaskInv, EndsInv, IconsInv, Connecting
  PROVE  IconsInv'
<1>1. run \in [Callers -> Run] /\ Calls \subseteq Callers
  BY DEF TaskInv, TaskShape, Connected, Callers
<1>2. UNCHANGED <<clients, toTab, ended, cheTasks, reports, view, early>> /\ Missed \subseteq Missed'
  BY DEF Connecting, EndpointFetched, EndpointMissing, SocketOpens, SocketFails, SocketCloses,
         Reopen, service, history, Missed
<1>3. \A c \in Calls : run[c].phase \in Alive => run'[c].tab = run[c].tab
  <2>1. CASE \E d \in Callers : EndpointFetched(d)
    BY <1>1, <2>1 DEF EndpointFetched, CreateConnection, Alive
  <2>2. CASE (\E d \in Callers : EndpointMissing(d)) \/ \E k \in Sockets : SocketFails(k)
    BY <1>1, <2>2 DEF EndpointMissing, SocketFails, Reject, OpeningOn, Run, client
  <2>3. CASE \E k \in Sockets : SocketOpens(k) \/ SocketCloses(k)
    BY <1>1, <2>3 DEF SocketOpens, SocketCloses, Run
  <2>4. CASE \E k \in Sockets : Reopen(k)
    BY <2>4 DEF Reopen
  <2> QED BY <2>1, <2>2, <2>3, <2>4 DEF Connecting
<1>4. \A s : Open(s) => Open(s)'
  BY <1>2 DEF Open
<1> QED BY <1>2, <1>3, <1>4, UnseenIcons

LEMMA CreateIcons ==
  ASSUME TaskInv, EndsInv, IconsInv, NEW c \in Calls, Create(c)
  PROVE  IconsInv'
<1>1. run \in [Callers -> Run] /\ Calls \subseteq Callers
  BY DEF TaskInv, TaskShape, Connected, Callers
<1>2. UNCHANGED <<clients, toTab, ended, cheTasks, reports, view, early, Missed>>
  BY DEF Create, service, client, history, Missed
<1>3. \A d \in Calls : run'[d].tab = run[d].tab
  BY <1>1 DEF Create, Run
<1>4. \A s : Open(s) => Open(s)'
  BY <1>2 DEF Open
<1> QED BY <1>2, <1>3, <1>4, UnseenIcons

LEMMA HostIcons ==
  ASSUME TaskInv, EndsInv, IconsInv, NEW k \in Sockets, HostReceives(k)
  PROVE  IconsInv'
<1>1. run \in [Callers -> Run] /\ Calls \subseteq Callers
  BY DEF TaskInv, TaskShape, Connected, Callers
<1>2. UNCHANGED <<clients, toTab, ended, cheTasks, reports, view, early, Missed>>
  BY DEF HostReceives, service, client, history, Missed
<1> DEFINE message == Head(down[k])
           c == message.task
<1>3. /\ message \in Down
      /\ message.kind = "created" => run' = [run EXCEPT ![c].phase = "running"]
      /\ message.kind # "created" => run' = run
  BY HostShape DEF TaskInv
<1> HIDE DEF message
<1>4. c \in Calls
  BY <1>3 DEF Down
<1>5. \A d \in Calls : run'[d].tab = run[d].tab
  <2>1. CASE message.kind = "created"
    <3>1. run' = [run EXCEPT ![c] = [run[c] EXCEPT !.phase = "running"]]
      BY <1>3, <2>1
    <3>2. run[c] \in Run /\ "running" \in Phases
      BY <1>1, <1>4 DEF Phases
    <3> QED BY <1>1, <3>1, <3>2, PhaseSet
  <2>2. CASE message.kind # "created"
    BY <1>3, <2>2
  <2> QED BY <2>1, <2>2
<1>6. \A s : Open(s) => Open(s)'
  BY <1>2 DEF Open
<1> QED BY <1>2, <1>5, <1>6, UnseenIcons

\* A tab that connects, and a plugin host that starts, show nothing.
LEMMA ComingIcons ==
  ASSUME TaskInv, EndsInv, IconsInv, NEW t \in Tabs, ConnectTab(t) \/ HostStarts(t)
  PROVE  IconsInv'
<1>1. UNCHANGED <<toTab, ended, cheTasks, reports, view, early, Missed>>
  BY DEF ConnectTab, HostStarts, service, history, Missed
<1>2. \A c \in Calls : run'[c] = run[c]
  BY CallsAssumption DEF ConnectTab, HostStarts, TaskInv, TaskShape, Connected, Callers
<1>3. \A s : Open(s) => Open(s)'
  <2>1. CASE clients' = clients
    BY <2>1 DEF Open
  <2>2. CASE clients' = Append(clients, t)
    <3>1. clients \in Seq(Tabs) /\ clients' \in Seq(Tabs)
      BY <2>2 DEF TaskInv, TaskShape, Connected
    <3>2. \A i \in 1..Len(clients) : i \in 1..Len(clients') /\ clients'[i] = clients[i]
      BY <2>2, <3>1, AppendAt
    <3>3. /\ \A s : s \in Range(clients) <=> \E i \in 1..Len(clients) : clients[i] = s
          /\ \A s : s \in Range(clients') <=> \E i \in 1..Len(clients') : clients'[i] = s
      BY <3>1, InRange
    <3> QED BY <3>2, <3>3 DEF Open
  <2> QED BY <2>1, <2>2 DEF ConnectTab, HostStarts, service
<1> QED BY <1>1, <1>2, <1>3, UnseenIcons

LEMMA RunTaskIcons ==
  ASSUME TaskInv, EndsInv, IconsInv, NEW c \in Calls, NEW t \in Tabs, RunTask(c, t)
  PROVE  IconsInv'
<1>1. /\ run[c].phase = "idle"
      /\ terminal' = [terminal EXCEPT ![c] = "created"]
      /\ icon' = [icon EXCEPT ![c] = "IN_PROGRESS"]
      /\ UNCHANGED <<clients, cheTasks, reports, toTab, statuses, ended, early, Missed>>
  BY DEF RunTask, service, Idle, history, Missed
<1>2. /\ run \in [Callers -> Run] /\ Calls \subseteq Callers /\ ended \subseteq Calls
      /\ DOMAIN terminal = Calls /\ DOMAIN icon = Calls
  BY DEF TaskInv, TaskShape, Connected, Told, Callers
<1>3. \A d \in Calls : d # c => /\ terminal'[d] = terminal[d] /\ icon'[d] = icon[d]
                                /\ run'[d] = run[d]
  BY <1>1, <1>2 DEF RunTask, GetConnection, CreateConnection
<1>4. c \notin early
  BY <1>1 DEF EndsInv, Alive, IconsInv
<1>5. Unheard
  BY <1>1, <1>3 DEF Unheard, Alive, Open
<1>6. \A d \in Calls : Known(d) /\ terminal[d] = "created" => terminal'[d] = "created"
  BY <1>1, <1>2, <1>3
<1>7. \A d \in early' : HasId(d)' /\ icon'[d] = icon[d]
  BY <1>1, <1>2, <1>3, <1>4 DEF IconsInv, HasId
<1> QED BY <1>5, <1>6, <1>7, ShownIcons

\* What the terminals of a tab do changes no icon of a task that ended early,
\* except of those that open again.
LEMMA TerminalIcons ==
  ASSUME TaskInv, EndsInv, IconsInv, Showing
  PROVE  IconsInv'
<1>1. UNCHANGED <<clients, cheTasks, reports, toTab, statuses, ended, Missed, run>>
  BY DEF Showing, AttachTerminal, TerminalOpens, ReconnectTerminal, RestartTerminal,
         TerminalsDisconnect, service, client, history, Missed
<1>2. /\ DOMAIN terminal = Calls /\ DOMAIN icon = Calls /\ early \subseteq Calls
  BY DEF IconsInv, TaskInv, TaskShape, Told
<1>3. /\ early' \subseteq early
      /\ \A d \in Calls : terminal[d] = "created" => terminal'[d] = "created"
      /\ \A d \in early' : HasId(d)' /\ icon'[d] = icon[d]
  <2>1. CASE \E c \in Calls : AttachTerminal(c)
    BY <1>2, <2>1 DEF AttachTerminal, history, IconsInv, HasId
  <2>2. CASE \E c \in Calls : TerminalOpens(c)
    BY <1>2, <2>2 DEF TerminalOpens, IconsInv, HasId
  <2>3. CASE \E c \in Calls : ReconnectTerminal(c)
    BY <1>2, <2>3 DEF ReconnectTerminal, history, IconsInv, HasId
  <2>4. CASE \E c \in Calls : RestartTerminal(c)
    BY <1>2, <2>4 DEF RestartTerminal, IconsInv, HasId
  <2>5. CASE \E t \in Tabs : TerminalsDisconnect(t)
    BY <1>2, <2>5 DEF TerminalsDisconnect, IconsInv, HasId
  <2> QED BY <2>1, <2>2, <2>3, <2>4, <2>5 DEF Showing
<1>4. Unheard
  BY <1>1, <1>3 DEF Unheard, Open
<1> QED BY <1>3, <1>4, ShownIcons

LEMMA ProcessEndsIcons ==
  ASSUME TaskInv, IconsInv, NEW c \in Calls, ProcessEnds(c)
  PROVE  IconsInv'
<1>1. /\ c \notin ended /\ ended' = ended \cup {c}
      /\ early' = IF HasId(c) /\ Open(run[c].tab) THEN early \cup {c} ELSE early
      /\ UNCHANGED <<clients, cheTasks, reports, toTab, statuses, run, terminal, icon, Missed>>
  BY DEF ProcessEnds, service, view, client, Missed
<1>2. OnlyOne(toTab)'
  BY <1>1 DEF IconsInv, OnlyOne
<1>3. \A d : Known(d)' <=> Known(d)
  BY <1>1 DEF Known, Recorded, Holds
<1>4. \A t \in Tabs, d \in Calls : Holds(toTab[t], Message("ran", d))' =>
        terminal'[d] = "created" /\ Known(d)' /\ run'[d].tab = t
  BY <1>1, <1>3 DEF IconsInv, Holds, Message
<1>5. early' \subseteq ended'
  BY <1>1 DEF IconsInv
<1>6. reports[c] = 0
  BY <1>1 DEF TaskInv, Stages
<1>7. ASSUME NEW d \in early'
      PROVE  HasId(d)' /\ Open(run[d].tab)' /\ (d \notin Missed' => IconTold(d)')
  <2>1. CASE d = c
    BY <1>1, <1>6, <1>7, <2>1 DEF IconTold, IconsInv, HasId, Open
  <2>2. CASE d # c
    BY <1>1, <1>7, <2>2 DEF IconsInv, IconTold, Open, HasId, Holds, Message
  <2> QED BY <2>1, <2>2
<1> QED BY <1>2, <1>4, <1>5, <1>7 DEF IconsInv

LEMMA OpenTabs ==
  ASSUME TaskInv
  PROVE  \A s : Open(s) => s \in Tabs
<1>1. clients \in Seq(Tabs)
  BY DEF TaskInv, TaskShape, Connected
<1>2. \A s : s \in Range(clients) <=> \E i \in 1..Len(clients) : clients[i] = s
  BY <1>1, InRange
<1> QED BY <1>1, <1>2 DEF Open

LEMMA StatusIcons ==
  ASSUME TaskInv, IconsInv, NEW t \in Tabs, SetTaskStatus(t)
  PROVE  IconsInv'
<1> DEFINE c == Head(statuses[t])
<1>1. /\ statuses[t] # <<>> /\ statuses' = [statuses EXCEPT ![t] = Tail(@)]
      /\ icon' = IF HasId(c) THEN [icon EXCEPT ![c] = "ENDED"] ELSE icon
      /\ UNCHANGED <<clients, cheTasks, reports, toTab, ended, early, run, terminal, Missed>>
  BY DEF SetTaskStatus, service, client, history, Missed
<1>2. statuses \in [Tabs -> Seq(Calls)] /\ DOMAIN icon = Calls /\ ended \subseteq Calls
  BY DEF TaskInv, TaskShape, Told
<1>3. OnlyOne(toTab)'
  BY <1>1 DEF IconsInv, OnlyOne
<1>4. \A d : Known(d)' <=> Known(d)
  BY <1>1 DEF Known, Recorded, Holds
<1>5. \A s \in Tabs, d \in Calls : Holds(toTab[s], Message("ran", d))' =>
        terminal'[d] = "created" /\ Known(d)' /\ run'[d].tab = s
  BY <1>1, <1>4 DEF IconsInv, Holds, Message
<1>6. early' \subseteq ended'
  BY <1>1 DEF IconsInv
<1>7. ASSUME NEW d \in early'
      PROVE  HasId(d)' /\ Open(run[d].tab)' /\ (d \notin Missed' => IconTold(d)')
  <2> HIDE DEF c
  <2>1. d \in early /\ d \in Calls /\ HasId(d) /\ Open(run[d].tab)
    BY <1>1, <1>2, <1>7 DEF IconsInv
  <2>2. HasId(d)' /\ Open(run[d].tab)'
    BY <1>1, <2>1 DEF HasId, Open
  <2>3. icon[d] = "ENDED" \/ c = d => icon'[d] = "ENDED"
    BY <1>1, <1>2, <2>1
  <2>4. \A s \in Tabs : Holds(statuses[s], d) => c = d \/ Holds(statuses'[s], d)
    <3> TAKE s \in Tabs
    <3>1. CASE s = t
      <4>1. statuses[t] \in Seq(Calls) /\ statuses'[t] = Tail(statuses[t])
        BY <1>1, <1>2
      <4> QED BY <1>1, <3>1, <4>1, TailHolds DEF c
    <3>2. CASE s # t
      BY <1>1, <1>2, <3>2
    <3> QED BY <3>1, <3>2
  <2>5. ASSUME d \notin Missed' PROVE IconTold(d)'
    <3>1. IconTold(d) /\ run[d].tab \in Tabs
      BY <1>1, <2>1, <2>5, OpenTabs DEF IconsInv
    <3> QED BY <1>1, <2>3, <2>4, <3>1 DEF IconTold
  <2> QED BY <2>2, <2>5
<1> QED BY <1>3, <1>5, <1>6, <1>7 DEF IconsInv

\* The tasks of a tab whose connection closes are no longer early.
LEMMA DisconnectTabIcons ==
  ASSUME TaskInv, IconsInv, NEW t \in Tabs, DisconnectTab(t)
  PROVE  IconsInv'
<1>1. /\ Open(t) /\ clients' = RemoveFirst(clients, t)
      /\ toTab' = [toTab EXCEPT ![t] = <<>>] /\ statuses' = [statuses EXCEPT ![t] = <<>>]
      /\ Missed \subseteq Missed' /\ early' = {c \in early : run[c].tab # t}
      /\ terminal' = [c \in Calls |-> IF run[c].tab = t /\ terminal[c] = "created"
                                      THEN "detached" ELSE terminal[c]]
      /\ UNCHANGED <<cheTasks, reports, ended, icon>>
  BY DEF DisconnectTab, Missed
<1>2. /\ clients \in Seq(Tabs) /\ Once(clients) /\ run \in [Callers -> Run]
      /\ DOMAIN toTab = Tabs /\ DOMAIN statuses = Tabs /\ ended \subseteq Calls
      /\ Calls \subseteq Callers /\ t \notin Calls
  BY CallsAssumption DEF TaskInv, TaskShape, Connected, Told, Callers
<1>3. \A s : Open(s) /\ s # t => Open(s)'
  <2>1. \A s : Open(s) <=> Holds(clients, s)
    BY <1>2, InRange DEF Open, Holds
  <2>a. Holds(clients, t) /\ \E i \in 1..Len(clients) : clients[i] = t
    BY <1>1, <2>1 DEF Holds
  <2>b. RemoveFirst(clients, t) \in Seq(Tabs)
    BY <1>2, <2>a, RemovedOnce
  <2>c. \A s : s # t /\ Holds(clients, s) => Holds(RemoveFirst(clients, t), s)
    BY <1>2, <2>a, RemovedKeeps
  <2>2. clients' \in Seq(Tabs) /\ \A s : Open(s) /\ s # t => Holds(clients', s)
    BY <1>1, <2>1, <2>b, <2>c
  <2> QED BY <2>2, InRange DEF Open, Holds
<1>4. \A d \in Calls : run'[d].tab = run[d].tab
  <2>1. \A d \in Calls : run'[d] = run[d] \/ run'[d] = [run[d] EXCEPT !.phase = "over"]
    BY <1>2 DEF DisconnectTab
  <2>2. \A d \in Calls : run[d] \in Run /\ "over" \in Phases
    BY <1>2 DEF Phases
  <2>3. \A d \in Calls : [run[d] EXCEPT !.phase = "over"].tab = run[d].tab
    BY <2>2, PhaseSet
  <2> QED BY <2>1, <2>3
<1>5. OnlyOne(toTab)'
  <2>1. DOMAIN toTab' = Tabs /\ toTab'[t] = <<>> /\ \A s \in Tabs : s # t => toTab'[s] = toTab[s]
    BY <1>1, <1>2
  <2>2. \A s \in Tabs : \A i \in 1..Len(toTab'[s]) : toTab'[s] = toTab[s]
    BY <2>1
  <2> QED BY <1>2, <2>1, <2>2 DEF IconsInv, OnlyOne
<1>6. \A d : Known(d)' <=> Known(d)
  BY <1>1 DEF Known, Recorded, Holds
<1>7. \A s \in Tabs : \A m : Holds(toTab'[s], m) => s # t /\ Holds(toTab[s], m)
  <2> TAKE s \in Tabs
  <2> TAKE m
  <2>1. CASE s = t
    BY <1>1, <1>2, <2>1, EmptyHolds
  <2>2. CASE s # t
    BY <1>1, <1>2, <2>2
  <2> QED BY <2>1, <2>2
<1>8. ASSUME NEW s \in Tabs, NEW d \in Calls, Holds(toTab'[s], Message("ran", d))
      PROVE  terminal'[d] = "created" /\ Known(d)' /\ run'[d].tab = s
  <2>1. s # t /\ terminal[d] = "created" /\ Known(d) /\ run[d].tab = s
    BY <1>7, <1>8 DEF IconsInv
  <2> QED BY <1>1, <1>4, <1>6, <2>1
<1>9. early' \subseteq ended'
  BY <1>1 DEF IconsInv
<1>10. ASSUME NEW d \in early'
       PROVE  HasId(d)' /\ Open(run[d].tab)' /\ (d \notin Missed' => IconTold(d)')
  <2> DEFINE s == run[d].tab
  <2>1. d \in early /\ d \in Calls /\ s # t /\ HasId(d) /\ Open(s) /\ run'[d].tab = s
    BY <1>1, <1>2, <1>4, <1>10 DEF IconsInv
  <2>2. HasId(d)'
    BY <1>1, <2>1 DEF HasId
  <2>3. Open(run[d].tab)'
    <3>1. Open(s)' => Open(run[d].tab)'
      BY <2>1 DEF Open
    <3> QED BY <1>3, <2>1, <3>1 DEF Open
  <2>4. ASSUME d \notin Missed' PROVE IconTold(d)'
    <3>1. s \in Tabs /\ IconTold(d)
      BY <1>1, <2>1, <2>4, OpenTabs DEF IconsInv
    <3>2. toTab'[s] = toTab[s] /\ statuses'[s] = statuses[s]
      BY <1>1, <1>2, <2>1, <3>1
    <3> QED BY <1>1, <2>1, <3>1, <3>2 DEF IconTold
  <2> QED BY <2>2, <2>3, <2>4
<1> QED BY <1>5, <1>8, <1>9, <1>10 DEF IconsInv

LEMMA TabIcons ==
  ASSUME TaskInv, IconsInv, NEW t \in Tabs, TabReceives(t)
  PROVE  IconsInv'
<1> DEFINE message == Head(toTab[t])
           c == message.task
<1>1. /\ toTab[t] # <<>> /\ toTab' = [toTab EXCEPT ![t] = Tail(@)]
      /\ StartTerminal(message) \/ StartTaskFailure(t, message) \/ TaskExit(t, message)
      /\ UNCHANGED <<clients, cheTasks, reports, ended, early, run, Missed>>
  BY DEF TabReceives, service, client, history, Missed
<1>2. /\ toTab \in [Tabs -> Seq(Up)] /\ statuses \in [Tabs -> Seq(Calls)]
      /\ DOMAIN icon = Calls /\ DOMAIN terminal = Calls /\ ended \subseteq Calls
      /\ clients \in Seq(Tabs)
  BY DEF TaskInv, TaskShape, Connected, Told
<1>3. toTab[t] \in Seq(Up) /\ message \in Up
  BY <1>1, <1>2, TailAt
<1>4. /\ OnlyOne(toTab')
      /\ \A s \in Tabs : \A i \in 1..Len(toTab'[s]) :
           message.kind = "ran" => toTab'[s][i] # message
  <2>1. OnlyOne(toTab)
    BY DEF IconsInv
  <2>2. PICK n \in 1..Len(toTab[t]) : message = toTab[t][n] /\ RemoveAt(toTab[t], n) = Tail(toTab[t])
    BY <1>1, <1>3, TailTaken
  <2>3. /\ DOMAIN toTab' = Tabs /\ toTab'[t] = RemoveAt(toTab[t], n)
        /\ \A l \in Tabs : l # t => toTab'[l] = toTab[l]
    BY <1>1, <1>2, <2>2
  <2> HIDE DEF message
  <2>4. /\ OnlyOne(toTab')
        /\ \A l \in Tabs : \A i \in 1..Len(toTab'[l]) :
             /\ \E j \in 1..Len(toTab[l]) : toTab'[l][i] = toTab[l][j]
             /\ toTab[t][n].kind \in {"created", "ran"} => toTab'[l][i] # toTab[t][n]
    <3>1. n \in 1..Len(toTab[t]) /\ toTab \in [Tabs -> Seq(Up)]
      BY <1>2, <2>2
    <3>2. ASSUME NEW r, r = toTab'
          PROVE  /\ OnlyOne(r)
                 /\ \A l \in Tabs : \A i \in 1..Len(r[l]) :
                      /\ \E j \in 1..Len(toTab[l]) : r[l][i] = toTab[l][j]
                      /\ toTab[t][n].kind \in {"created", "ran"} => r[l][i] # toTab[t][n]
      BY <2>1, <2>3, <3>1, <3>2, OneTaken
    <3> QED BY <3>2
  <2> QED BY <2>2, <2>4
<1>5. /\ toTab'[t] = Tail(toTab[t]) /\ \A s \in Tabs : s # t => toTab'[s] = toTab[s]
  BY <1>1, <1>2
<1>6. /\ \A m : Holds(toTab[t], m) => message = m \/ Holds(toTab'[t], m)
      /\ \A m : Holds(toTab'[t], m) => Holds(toTab[t], m)
  BY <1>1, <1>3, <1>5, TailHolds
<1>7. Holds(toTab[t], message)
  BY <1>1, <1>3, TailAt DEF Holds
<1> HIDE DEF message
<1>8. c \in Calls /\ message = Message(message.kind, c)
  BY <1>3 DEF Up, Message
<1>9. \A kind, d : Message(kind, d) = message => kind = message.kind /\ d = c
  BY MessageParts
<1>10. \A d : Known(d)' <=> Known(d)
  BY <1>1 DEF Known, Recorded, Holds
<1>11. message.kind = "ran" => terminal[c] = "created"
  BY <1>7, <1>8 DEF IconsInv
<1>12. \A d \in Calls : terminal'[d] = terminal[d] \/ (d = c /\ message.kind = "ran")
  BY <1>1, <1>2 DEF StartTerminal, StartTaskFailure, TaskExit
<1>13. ASSUME NEW s \in Tabs, NEW d \in Calls, Holds(toTab'[s], Message("ran", d))
       PROVE  terminal'[d] = "created" /\ Known(d)' /\ run'[d].tab = s
  <2>1. Holds(toTab[s], Message("ran", d))
    BY <1>5, <1>6, <1>13
  <2>2. terminal[d] = "created" /\ Known(d) /\ run[d].tab = s
    BY <2>1 DEF IconsInv
  <2>3. ~(d = c /\ message.kind = "ran")
    BY <1>4, <1>8, <1>13 DEF Holds
  <2> QED BY <1>1, <1>10, <1>12, <2>2, <2>3
<1>14. early' \subseteq ended'
  BY <1>1 DEF IconsInv
<1>15. ASSUME NEW d \in early'
       PROVE  HasId(d)' /\ Open(run[d].tab)' /\ (d \notin Missed' => IconTold(d)')
  <2> DEFINE s == run[d].tab
  <2>1. d \in early /\ d \in Calls /\ HasId(d) /\ Open(s) /\ s \in Tabs
    BY <1>1, <1>2, <1>15, OpenTabs DEF IconsInv
  <2>2. terminal'[d] = terminal[d]
    BY <1>11, <1>12, <2>1 DEF HasId
  <2>3. HasId(d)' /\ Open(run[d].tab)'
    BY <1>1, <2>1, <2>2 DEF HasId, Open
  <2>4. ASSUME d \notin Missed' PROVE IconTold(d)'
    <3>1. IconTold(d)
      BY <1>1, <2>1, <2>4 DEF IconsInv
    <3>2. icon[d] = "ENDED" => icon'[d] = "ENDED"
      BY <1>1, <1>2, <2>1 DEF StartTerminal, StartTaskFailure, TaskExit
    <3>3. /\ Holds(statuses[s], d) => Holds(statuses'[s], d)
          /\ message = Message("exit", d) /\ s = t => Holds(statuses'[s], d)
      <4>1. CASE message.kind = "exit"
        <5>1. statuses' = [statuses EXCEPT ![t] = Append(@, c)]
          BY <1>1, <4>1 DEF StartTerminal, StartTaskFailure, TaskExit, Send
        <5>2. statuses[t] \in Seq(Calls)
          BY <1>2
        <5> QED BY <1>2, <1>8, <1>9, <5>1, <5>2, AppendHolds
      <4>2. CASE message.kind # "exit"
        <5>1. statuses' = statuses
          BY <1>1, <4>2 DEF StartTerminal, StartTaskFailure, TaskExit
        <5> QED BY <1>9, <4>2, <5>1
      <4> QED BY <4>1, <4>2
    <3>4. \A m : Holds(toTab[s], m) => (s = t /\ message = m) \/ Holds(toTab'[s], m)
      BY <1>5, <1>6, <2>1
    <3> QED BY <1>1, <3>1, <3>2, <3>3, <3>4 DEF IconTold
  <2> QED BY <2>3, <2>4
<1> QED BY <1>4, <1>13, <1>14, <1>15 DEF IconsInv

LEMMA BackendIcons ==
  ASSUME TaskInv, IconsInv, NEW t \in Tabs, BackendReceives(t)
  PROVE  IconsInv'
<1>a. PICK n \in DOMAIN up[t] :
        /\ TaskRan(up[t][n]) \/ RunFailed(up[t][n]) \/ FireTaskExited(up[t][n])
        /\ UNCHANGED <<ended, early, run, terminal, icon, statuses>>
  BY DEF BackendReceives, view
<1> DEFINE message == up[t][n]
           c == message.task
           s == run[c].tab
<1>1. /\ TaskRan(message) \/ RunFailed(message) \/ FireTaskExited(message)
      /\ UNCHANGED <<ended, early, run, terminal, icon, statuses>>
      /\ Missed \subseteq Missed'
  BY <1>a DEF BackendReceives, Missed
<1>2. /\ toTab \in [Tabs -> Seq(Up)] /\ up \in [Tabs -> Seq(Up)] /\ ended \subseteq Calls
      /\ clients \in Seq(Tabs) /\ cheTasks \in Seq(Calls) /\ reports \in [Calls -> Nat]
  BY DEF TaskInv, TaskShape, Connected, Told
<1>3. message \in Up /\ n \in 1..Len(up[t]) /\ up[t][n] = message
  BY <1>2
<1> HIDE DEF message
<1>4. c \in Calls /\ message = Message(message.kind, c)
  BY <1>3 DEF Up, Message
<1>5. \A kind, d : Message(kind, d) = message => kind = message.kind /\ d = c
  BY MessageParts
<1>6. clients' = clients
  BY <1>1 DEF TaskRan, RunFailed, FireTaskExited, service
<1>7. Open(s) => s \in Tabs
  BY OpenTabs
<1>8. \/ toTab' = toTab
      \/ /\ s \in Tabs /\ toTab' = [toTab EXCEPT ![s] = Append(@, message)]
         /\ message.kind = "exit" \/ terminal[c] = "created"
  BY <1>1, <1>7 DEF TaskRan, RunFailed, FireTaskExited, Answer, Send
<1>9. \A d \in Calls : /\ Known(d) => Known(d)'
                       /\ message = Message("ran", d) => Known(d)'
  BY <1>1, <1>3, BackendRecords DEF Known
<1>10. message.kind = "ran" => ~Known(c)
  BY <1>3 DEF TaskInv, Stages, Known, Recorded, Holds
<1>11. \A d \in Calls : reports'[d] = reports[d] \/
         (message = Message("exit", d) /\ (Open(s) => Holds(toTab'[s], message)))
  <2> TAKE d \in Calls
  <2>1. CASE message.kind # "exit"
    BY <1>1, <2>1 DEF TaskRan, RunFailed, FireTaskExited, service
  <2>2. CASE message.kind = "exit"
    <3>1. FireTaskExited(message)
      BY <1>1, <2>2 DEF TaskRan, RunFailed
    <3>2. CASE c \notin Range(cheTasks)
      BY <3>1, <3>2 DEF FireTaskExited
    <3>3. CASE c \in Range(cheTasks)
      <4>1. reports' = [reports EXCEPT ![c] = @ + 1] /\ Answer(message)
        BY <3>1, <3>3 DEF FireTaskExited
      <4>2. ASSUME Open(s) PROVE Holds(toTab'[s], message)
        <5>1. toTab[s] \in Seq(Up) /\ toTab'[s] = Append(toTab[s], message)
          BY <1>2, <1>7, <2>2, <4>1, <4>2 DEF Answer, Send
        <5> QED BY <1>3, <5>1, AppendHolds
      <4> QED BY <1>2, <1>4, <2>2, <4>1, <4>2
    <3> QED BY <3>2, <3>3
  <2> QED BY <2>1, <2>2
<1>12. \A r \in Tabs : /\ \A m : Holds(toTab[r], m) => Holds(toTab'[r], m)
                       /\ \A m : Holds(toTab'[r], m) => Holds(toTab[r], m) \/ m = message
  <2> TAKE r \in Tabs
  <2>1. toTab'[r] = toTab[r] \/ toTab'[r] = Append(toTab[r], message)
    BY <1>2, <1>8
  <2>2. toTab[r] \in Seq(Up)
    BY <1>2
  <2>3. CASE toTab'[r] = Append(toTab[r], message)
    BY <1>3, <2>2, <2>3, AppendHolds
  <2> QED BY <2>1, <2>3
<1>13. message.kind = "ran" => \A r \in Tabs : ~Holds(toTab[r], message)
  BY <1>4, <1>10 DEF IconsInv
<1>14. OnlyOne(toTab')
  <2>1. message.kind \in {"created", "ran"} =>
          \A r \in Tabs : \A i \in 1..Len(toTab[r]) : toTab[r][i] # message
    BY <1>3, <1>13 DEF Holds, Up
  <2>2. OnlyOne(toTab)
    BY DEF IconsInv
  <2>3. CASE s \in Tabs /\ toTab' = [toTab EXCEPT ![s] = Append(@, message)]
    <3>1. toTab \in [Tabs -> Seq(Up)] /\ message \in Up
      BY <1>2, <1>3
    <3> HIDE DEF s, message
    <3>2. ASSUME NEW q, q = toTab, NEW r, r = [q EXCEPT ![s] = Append(@, message)] PROVE OnlyOne(r)
      <4>1. OnlyOne(q) /\ q \in [Tabs -> Seq(Up)] /\ s \in Tabs /\ message \in Up
        BY <2>2, <2>3, <3>1, <3>2
      <4>2. message.kind \in {"created", "ran"} =>
              \A l \in Tabs : \A i \in 1..Len(q[l]) : q[l][i] # message
        BY <2>1, <3>2
      <4> QED BY <3>2, <4>1, <4>2, OneAdded DEF OnlyOne
    <3> QED BY <2>3, <3>2
  <2>4. CASE toTab' = toTab
    <3> HIDE DEF message
    <3> QED BY <2>2, <2>4 DEF OnlyOne
  <2> QED BY <1>8, <2>3, <2>4
<1>15. ASSUME NEW r \in Tabs, NEW d \in Calls, Holds(toTab'[r], Message("ran", d))
       PROVE  terminal'[d] = "created" /\ Known(d)' /\ run'[d].tab = r
  <2>1. CASE Holds(toTab[r], Message("ran", d))
    BY <1>1, <1>9, <2>1 DEF IconsInv
  <2>2. CASE message = Message("ran", d) /\ ~Holds(toTab[r], Message("ran", d))
    <3>1. toTab'[r] # toTab[r] /\ d = c /\ message.kind = "ran"
      BY <1>5, <1>15, <2>2
    <3>2. r = s /\ terminal[c] = "created"
      BY <1>2, <1>8, <3>1
    <3> QED BY <1>1, <1>9, <2>2, <3>1, <3>2
  <2> QED BY <1>12, <1>15, <2>1, <2>2
<1>16. early' \subseteq ended'
  BY <1>1 DEF IconsInv
<1>17. ASSUME NEW d \in early'
       PROVE  HasId(d)' /\ Open(run[d].tab)' /\ (d \notin Missed' => IconTold(d)')
  <2>1. d \in early /\ d \in Calls /\ HasId(d) /\ Open(run[d].tab) /\ run[d].tab \in Tabs
    BY <1>1, <1>2, <1>17, OpenTabs DEF IconsInv
  <2>2. HasId(d)' /\ Open(run[d].tab)'
    BY <1>1, <1>6, <2>1 DEF HasId, Open
  <2>3. ASSUME d \notin Missed' PROVE IconTold(d)'
    <3>1. IconTold(d)
      BY <1>1, <2>1, <2>3 DEF IconsInv
    <3>2. reports'[d] = reports[d] \/ Holds(toTab'[run[d].tab], Message("exit", d))
      BY <1>5, <1>11, <2>1
    <3>3. \A m : Holds(toTab[run[d].tab], m) => Holds(toTab'[run[d].tab], m)
      BY <1>12, <2>1
    <3> QED BY <1>1, <3>1, <3>2, <3>3 DEF IconTold
  <2> QED BY <2>2, <2>3
<1> QED BY <1>14, <1>15, <1>16, <1>17 DEF IconsInv

LEMMA NextIcons == TaskInv /\ EndsInv /\ IconsInv /\ [Next]_vars => IconsInv'
<1> SUFFICES ASSUME TaskInv, EndsInv, IconsInv, [Next]_vars PROVE IconsInv'
  OBVIOUS
<1>1. CASE UNCHANGED vars
  <2>1. /\ UNCHANGED <<toTab, ended, cheTasks, reports, view, early, Missed, run, clients>>
    BY <1>1 DEF vars, service, history, Missed
  <2>2. \A s : Open(s) => Open(s)'
    BY <2>1 DEF Open
  <2> QED BY <2>1, <2>2, UnseenIcons
<1>2. CASE Running
  BY <1>2, RunTaskIcons, CreateIcons, ProcessEndsIcons DEF Running
<1>3. CASE Telling
  BY <1>3, HostIcons, BackendIcons, TabIcons, StatusIcons DEF Telling
<1>4. CASE Coming
  BY <1>4, ComingIcons, DisconnectTabIcons DEF Coming
<1> QED BY <1>1, <1>2, <1>3, <1>4, ConnectingIcons, TerminalIcons DEF Next

LEMMA InitIcons == Init => IconsInv
<1> SUFFICES ASSUME Init PROVE IconsInv
  OBVIOUS
<1>1. toTab = [t \in Tabs |-> <<>>] /\ early = {}
  BY DEF Init
<1>2. \A t \in Tabs : toTab[t] = <<>>
  BY <1>1
<1>3. OnlyOne(toTab)
  BY <1>1 DEF OnlyOne
<1> QED BY <1>1, <1>2, <1>3, EmptyHolds DEF IconsInv

LEMMA IconsHold == Spec => []IconsInv
BY InitIcons, NextIcons, TasksHold, EndsHold, PTL DEF Spec

\* Once nothing is on its way, a terminal that had attached to its process when
\* it ended shows the end, unless the socket of the task broke, its end overtook
\* the answer, or the terminal opened later (TaskStatusHandler): no failure of
\* another task and no connection of terminals that comes and goes overwrites it.
THEOREM IconsSettle == Spec => []IconSettles
<1>1. TaskInv /\ IconsInv /\ ExitNotLost => IconSettles
  <2> SUFFICES ASSUME TaskInv, IconsInv, ExitNotLost, Quiet, NEW c \in early \ Missed
               PROVE  icon[c] = "ENDED"
    BY DEF IconSettles, Missed
  <2>1. c \in ended /\ IconTold(c) /\ Open(run[c].tab)
    BY DEF IconsInv
  <2>2. reports[c] = 1
    BY <2>1 DEF ExitNotLost, Missed
  <2>3. run[c].tab \in Tabs
    BY <2>1, OpenTabs
  <2>4. toTab[run[c].tab] = <<>> /\ statuses[run[c].tab] = <<>>
    BY <2>3 DEF Quiet
  <2> QED BY <2>1, <2>2, <2>4, EmptyHolds DEF IconTold
<1> QED BY <1>1, TasksHold, IconsHold, EndsReported, PTL
=============================================================================
