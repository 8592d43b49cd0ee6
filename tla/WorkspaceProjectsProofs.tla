------------------------ MODULE WorkspaceProjectsProofs ------------------------
(***************************************************************************)
(* For any projects, imports, handlers and bounds: the types of the        *)
(* workspace plugin's state, and that folders and devfile follow the disk. *)
(*                                                                         *)
(* The argument for the second.  Without a fault the editor is asked for,  *)
(* and tells of, exactly what the operation at the head of the chain waits *)
(* for (InStep), so an operation ends with the folders as it wanted them,  *)
(* and what the chain as a whole will make of them (Target) changes only   *)
(* when something is added to it.  Once the root is watched, for every     *)
(* project that changed under the watch either Target agrees with the disk *)
(* or the disk will be looked at again (Following); the same holds for the *)
(* devfile with its own chain and the git watcher's events.  Until then    *)
(* run() and the imports alone ask for folders (Beforehand).               *)
(***************************************************************************)
EXTENDS WorkspaceProjects, FiniteSetTheorems, SequenceTheorems, TLAPS

Runs == {"start", "importing", "adding", "awaiting", "watchingGit", "watching", "rejected"}

Imports_ == {"none", "login", "asking", "skipping", "importing", "adding", "done", "rejected"}

Askers == {<<"run">>} \cup ({"import"} \X Range(Declared)) \cup ({"event"} \X Slots)

Operation == [kind : {"add", "remove"}, path : Projects, by : Askers]

Asking == {"branch", "remote", "updating"}

Handler == [phase : {"exists", "directory", "adding", "removing"} \cup Asking, path : Projects]

Asks == [kind : {"add", "remove"}, path : Projects, index : Nat \ {0}]

GitEvents == [kind : {"changed", "deleted"}, path : Projects]

Job == [kind : {"update", "delete"}, path : Projects]

Once(s) == \A i, j \in 1..Len(s) : s[i] = s[j] => i = j

\* No folder is in a list twice.
Folders == {list \in Seq(Projects) : Once(list)}

Event == [roots : Folders, add : SUBSET Projects, remove : SUBSET Projects]

Shape ==
  /\ disk \subseteq Projects /\ recorded \subseteq Projects
  /\ seen \subseteq Projects /\ raced \subseteq Projects
  /\ run \in Runs /\ toAdd \in Seq(Projects) /\ import \in [Range(Declared) -> Imports_]
  /\ chain \in Seq(Operation) /\ waiting \in BOOLEAN /\ (waiting => chain # <<>>)
  /\ known \in Folders /\ roots \in Folders
  /\ requests \in Seq(Asks)
  /\ events \in Seq(Event)
  /\ fsEvents \in Seq(Projects)
  /\ gitEvents \in Seq(GitEvents)
  /\ handler \in [Slots -> {Off} \cup Handler]
  /\ jobs \in Seq(Job)
  /\ changes \in 0..MaxDisk /\ faults \in 0..MaxFaults

\* What is on the chain is awaited, by one who asked for nothing else.
Asked ==
  /\ \A i, j \in 1..Len(chain) : chain[i].by = chain[j].by => i = j
  /\ \A i \in 1..Len(chain) :
       /\ chain[i].by = <<"run">> => run = "awaiting"
       /\ \A p \in Range(Declared) : chain[i].by = <<"import", p>> => import[p] = "adding"
       /\ \A s \in Slots : chain[i].by = <<"event", s>> =>
            /\ handler[s].phase = IF chain[i].kind = "add" THEN "adding" ELSE "removing"
            /\ handler[s].path = chain[i].path

\* No import starts early or ends late.
Progress ==
  /\ run = "start" => \A p \in Range(Declared) : import[p] = "none"
  /\ run \in {"adding", "awaiting", "watchingGit", "watching"} =>
       \A p \in Range(Declared) : import[p] \in {"none", "done"}
  /\ run \in {"watchingGit", "watching"} => toAdd = <<>>

ProjectsInv == Shape /\ Asked /\ Progress

------------------------------------------------------------------------------
(* Sequences. *)

LEMMA AppendAt ==
  ASSUME NEW S, NEW s \in Seq(S), NEW x \in S
  PROVE  /\ Append(s, x) \in Seq(S) /\ Len(Append(s, x)) = Len(s) + 1 /\ Len(s) \in Nat
         /\ \A i \in 1..Len(s) + 1 : Append(s, x)[i] = IF i = Len(s) + 1 THEN x ELSE s[i]
OBVIOUS

LEMMA TailAt ==
  ASSUME NEW S, NEW s \in Seq(S), s # <<>>
  PROVE  /\ Tail(s) \in Seq(S) /\ Len(Tail(s)) = Len(s) - 1 /\ Len(s) \in Nat \ {0}
         /\ \A i \in 1..Len(s) - 1 : Tail(s)[i] = s[i + 1]
         /\ Head(s) \in S /\ Head(s) = s[1]
OBVIOUS

LEMMA InRange ==
  ASSUME NEW S, NEW s \in Seq(S), NEW e
  PROVE  e \in Range(s) <=> \E i \in 1..Len(s) : s[i] = e
<1>1. DOMAIN s = 1..Len(s)
  OBVIOUS
<1> QED BY <1>1 DEF Range

LEMMA RangeIn ==
  ASSUME NEW S, NEW s \in Seq(S)
  PROVE  Range(s) \subseteq S
<1>1. DOMAIN s = 1..Len(s) /\ \A i \in 1..Len(s) : s[i] \in S
  OBVIOUS
<1> QED BY <1>1 DEF Range

LEMMA RemovedAt ==
  ASSUME NEW S, NEW s \in Seq(S), NEW m \in 1..Len(s)
  PROVE  /\ RemoveAt(s, m) \in Seq(S) /\ Len(RemoveAt(s, m)) = Len(s) - 1
         /\ \A i \in 1..Len(s) - 1 : RemoveAt(s, m)[i] = IF i < m THEN s[i] ELSE s[i + 1]
<1>1. Len(s) \in Nat \ {0} /\ m \in Nat \ {0} /\ m <= Len(s)
  OBVIOUS
<1> DEFINE a == SubSeq(s, 1, m - 1)
           b == SubSeq(s, m + 1, Len(s))
<1>2. a \in Seq(S) /\ Len(a) = m - 1 /\ \A i \in 1..m - 1 : a[i] = s[i]
  BY <1>1
<1>3. b \in Seq(S) /\ Len(b) = Len(s) - m /\ \A i \in 1..Len(s) - m : b[i] = s[i + m]
  BY <1>1
<1> HIDE DEF a, b
<1>4. /\ a \o b \in Seq(S) /\ Len(a \o b) = Len(s) - 1
      /\ \A i \in 1..Len(s) - 1 : (a \o b)[i] = IF i <= m - 1 THEN a[i] ELSE b[i - (m - 1)]
  <2>1. /\ a \o b \in Seq(S) /\ Len(a \o b) = Len(a) + Len(b)
        /\ \A i \in 1..Len(a) + Len(b) :
             (a \o b)[i] = IF i <= Len(a) THEN a[i] ELSE b[i - Len(a)]
    BY <1>2, <1>3, ConcatProperties
  <2>2. Len(a) + Len(b) = Len(s) - 1
    BY <1>1, <1>2, <1>3
  <2> QED BY <2>1, <2>2, <1>2
<1>5. ASSUME NEW i \in 1..Len(s) - 1
      PROVE  (a \o b)[i] = IF i < m THEN s[i] ELSE s[i + 1]
  <2>1. CASE i < m
    BY <1>1, <1>2, <1>4, <2>1
  <2>2. CASE ~(i < m)
    <3>1. i - (m - 1) \in 1..Len(s) - m /\ i - (m - 1) + m = i + 1
      BY <1>1, <2>2
    <3>2. b[i - (m - 1)] = s[i + 1]
      BY <3>1, <1>3
    <3> QED BY <1>1, <1>4, <2>2, <3>2
  <2> QED BY <2>1, <2>2
<1> QED BY <1>4, <1>5 DEF RemoveAt, a, b

LEMMA InsertedAt ==
  ASSUME NEW S, NEW s \in Seq(S), NEW m \in 1..Len(s) + 1, NEW x \in S
  PROVE  /\ InsertAt(s, m, x) \in Seq(S) /\ Len(InsertAt(s, m, x)) = Len(s) + 1
         /\ \A i \in 1..Len(s) + 1 : InsertAt(s, m, x)[i] =
              IF i < m THEN s[i] ELSE IF i = m THEN x ELSE s[i - 1]
<1>1. Len(s) \in Nat /\ m \in Nat \ {0} /\ m <= Len(s) + 1
  OBVIOUS
<1> DEFINE a == SubSeq(s, 1, m - 1)
           b == SubSeq(s, m, Len(s))
           c == Append(a, x)
<1>2. a \in Seq(S) /\ Len(a) = m - 1 /\ \A i \in 1..m - 1 : a[i] = s[i]
  BY <1>1
<1>3. b \in Seq(S) /\ Len(b) = Len(s) - m + 1 /\ \A i \in 1..Len(s) - m + 1 : b[i] = s[i + m - 1]
  BY <1>1
<1> HIDE DEF a, b
<1>4. c \in Seq(S) /\ Len(c) = m /\ \A i \in 1..m : c[i] = IF i = m THEN x ELSE a[i]
  BY <1>1, <1>2, AppendAt
<1>5. a \o <<x>> = c
  BY <1>2
<1> HIDE DEF c
<1>6. /\ c \o b \in Seq(S) /\ Len(c \o b) = Len(c) + Len(b)
      /\ \A i \in 1..Len(c) + Len(b) : (c \o b)[i] = IF i <= Len(c) THEN c[i] ELSE b[i - Len(c)]
  BY <1>3, <1>4, ConcatProperties
<1>7. Len(c) + Len(b) = Len(s) + 1
  BY <1>1, <1>3, <1>4
<1>8. ASSUME NEW i \in 1..Len(s) + 1
      PROVE  (c \o b)[i] = IF i < m THEN s[i] ELSE IF i = m THEN x ELSE s[i - 1]
  <2>1. CASE i <= m
    <3>1. (c \o b)[i] = c[i] /\ i \in 1..m
      BY <1>1, <1>4, <1>6, <1>7, <2>1
    <3>2. i # m => i \in 1..m - 1 /\ a[i] = s[i]
      BY <1>1, <1>2, <2>1
    <3> QED BY <1>1, <1>4, <2>1, <3>1, <3>2
  <2>2. CASE ~(i <= m)
    <3>1. i - m \in 1..Len(s) - m + 1 /\ i - m + m - 1 = i - 1
      BY <1>1, <2>2
    <3>2. b[i - m] = s[i - 1]
      BY <3>1, <1>3
    <3> QED BY <1>1, <1>4, <1>6, <1>7, <2>2, <3>2
  <2> QED BY <2>1, <2>2
<1>9. InsertAt(s, m, x) = c \o b
  <2>1. InsertAt(s, m, x) = a \o <<x>> \o b
    BY DEF InsertAt, a, b
  <2> QED BY <1>5, <2>1
<1> QED BY <1>6, <1>7, <1>8, <1>9

LEMMA OrderOf ==
  ASSUME NEW S, IsFiniteSet(S)
  PROVE  SetToSeq(S) \in Seq(S) /\ Once(SetToSeq(S))
<1> DEFINE n == Cardinality(S)
<1>1. n \in Nat /\ ExistsBijection(1..n, S)
  BY FS_CardinalityType
<1>2. PICK f \in Bijection(1..n, S) : TRUE
  BY <1>1 DEF ExistsBijection
<1>3. f \in [1..n -> S] /\ IsInjective(f)
  BY <1>2 DEF Bijection, Injection, IsInjective
<1>4. SetToSeq(S) \in [1..n -> S] /\ IsInjective(SetToSeq(S))
  BY <1>3 DEF SetToSeq
<1> HIDE DEF n
<1>5. SetToSeq(S) \in Seq(S) /\ Len(SetToSeq(S)) = n
  BY <1>1, <1>4
<1> QED BY <1>4, <1>5 DEF Once, IsInjective

------------------------------------------------------------------------------
(* The types. *)

LEMMA AskerKinds ==
  ASSUME NEW by \in Askers
  PROVE  \/ by = <<"run">> /\ by[1] = "run"
         \/ \E p \in Range(Declared) : /\ by = <<"import", p>> /\ by # <<"run">>
                                       /\ by[1] = "import" /\ by[2] = p
         \/ \E s \in Slots : /\ by = <<"event", s>> /\ by # <<"run">>
                             /\ by[1] = "event" /\ by[2] = s
BY DEF Askers

LEMMA AskersDiffer ==
  ASSUME NEW p, NEW s
  PROVE  /\ <<"run">> # <<"import", p>> /\ <<"run">> # <<"event", s>>
         /\ <<"import", p>> # <<"event", s>>
         /\ \A q : <<"import", p>> = <<"import", q>> => p = q
         /\ \A r : <<"event", s>> = <<"event", r>> => s = r
<1>1. /\ <<"run">>[1] = "run" /\ <<"import", p>>[1] = "import" /\ <<"event", s>>[1] = "event"
  OBVIOUS
<1>2. \A q : <<"import", q>>[2] = q /\ <<"event", q>>[2] = q
  OBVIOUS
<1> QED BY <1>1, <1>2

\* What the end of an operation does for whoever asked for it.
Answers(op, ok) ==
  \/ /\ op.by = <<"run">> /\ run = "awaiting"
     /\ run' = IF ok THEN "adding" ELSE "rejected"
     /\ UNCHANGED <<import, handler, jobs>>
  \/ \E p \in Range(Declared) :
       /\ op.by = <<"import", p>> /\ import[p] = "adding"
       /\ import' = [import EXCEPT ![p] = IF ok THEN "done" ELSE "rejected"]
       /\ UNCHANGED <<run, handler, jobs>>
  \/ \E s \in Slots :
       /\ op.by = <<"event", s>> /\ handler[s].path = op.path
       /\ handler[s].phase = IF op.kind = "add" THEN "adding" ELSE "removing"
       /\ handler' = [handler EXCEPT ![s] = IF ok /\ op.kind = "add"
                                            THEN [phase |-> "branch", path |-> op.path] ELSE Off]
       /\ jobs' = IF ok /\ op.kind = "remove"
                  THEN Append(jobs, [kind |-> "delete", path |-> op.path]) ELSE jobs
       /\ UNCHANGED <<run, import>>

LEMMA HandlerPhase ==
  ASSUME NEW h \in {Off} \cup Handler, h.phase # "off"
  PROVE  h \in Handler
BY DEF Off

LEMMA Settled ==
  ASSUME Shape, Asked, chain # <<>>, NEW ok \in BOOLEAN, Settle(ok)
  PROVE  /\ Head(chain) \in Operation /\ chain' = Tail(chain) /\ ~waiting'
         /\ Answers(Head(chain), ok)
         /\ UNCHANGED <<disk, toAdd, fsEvents, gitEvents, recorded, changes, seen, raced>>
<1> DEFINE op == Head(chain)
<1>1. /\ chain \in Seq(Operation) /\ handler \in [Slots -> {Off} \cup Handler]
      /\ import \in [Range(Declared) -> Imports_]
  BY DEF Shape
<1>2. op \in Operation /\ op = chain[1] /\ 1 \in 1..Len(chain)
  BY <1>1, TailAt
<1>3. /\ chain' = Tail(chain) /\ waiting' = FALSE
      /\ run' = IF op.by = <<"run">> THEN IF ok THEN "adding" ELSE "rejected" ELSE run
      /\ import' = IF op.by[1] = "import"
                   THEN [import EXCEPT ![op.by[2]] = IF ok THEN "done" ELSE "rejected"]
                   ELSE import
      /\ UNCHANGED <<disk, toAdd, fsEvents, gitEvents, recorded, changes, seen, raced>>
      /\ op.by[1] # "event" => UNCHANGED <<handler, jobs>>
      /\ op.by[1] = "event" =>
           /\ ~ok => handler' = [handler EXCEPT ![op.by[2]] = Off] /\ UNCHANGED jobs
           /\ ok /\ op.kind = "add" =>
                handler' = [handler EXCEPT ![op.by[2]].phase = "branch"] /\ UNCHANGED jobs
           /\ ok /\ op.kind # "add" =>
                /\ handler' = [handler EXCEPT ![op.by[2]] = Off]
                /\ jobs' = Append(jobs, [kind |-> "delete", path |-> op.path])
  BY DEF Settle, history
<1>4. /\ op.by = <<"run">> => run = "awaiting"
      /\ \A p \in Range(Declared) : op.by = <<"import", p>> => import[p] = "adding"
      /\ \A s \in Slots : op.by = <<"event", s>> =>
            /\ handler[s].phase = IF op.kind = "add" THEN "adding" ELSE "removing"
            /\ handler[s].path = op.path
  BY <1>2 DEF Asked
<1> HIDE DEF op
<1>5. op.by \in Askers /\ op.kind \in {"add", "remove"}
  BY <1>2 DEF Operation
<1>6. ASSUME op.by = <<"run">>, op.by[1] = "run" PROVE Answers(op, ok)
  BY <1>3, <1>4, <1>6 DEF Answers
<1>7. ASSUME NEW p \in Range(Declared), op.by = <<"import", p>>, op.by # <<"run">>,
             op.by[1] = "import", op.by[2] = p
      PROVE  Answers(op, ok)
  BY <1>3, <1>4, <1>7 DEF Answers
<1>8. ASSUME NEW s \in Slots, op.by = <<"event", s>>, op.by # <<"run">>,
             op.by[1] = "event", op.by[2] = s
      PROVE  Answers(op, ok)
  <2>1. /\ handler[s].phase = IF op.kind = "add" THEN "adding" ELSE "removing"
        /\ handler[s].path = op.path
    BY <1>4, <1>8
  <2>2. handler[s] \in Handler
    BY <1>1, <2>1, HandlerPhase
  <2>3. [handler[s] EXCEPT !.phase = "branch"] = [phase |-> "branch", path |-> op.path]
    BY <2>1, <2>2 DEF Handler
  <2>4. ok /\ op.kind = "add" =>
          handler' = [handler EXCEPT ![s] = [handler[s] EXCEPT !.phase = "branch"]] /\ jobs' = jobs
    BY <1>3, <1>8
  <2>5. handler' = [handler EXCEPT ![s] = IF ok /\ op.kind = "add"
                                          THEN [phase |-> "branch", path |-> op.path] ELSE Off]
    BY <1>3, <1>5, <1>8, <2>3, <2>4
  <2>6. jobs' = IF ok /\ op.kind = "remove"
                THEN Append(jobs, [kind |-> "delete", path |-> op.path]) ELSE jobs
    BY <1>3, <1>5, <1>8
  <2> QED BY <1>3, <1>8, <2>1, <2>5, <2>6 DEF Answers
<1> QED BY <1>2, <1>3, <1>5, <1>6, <1>7, <1>8, AskerKinds DEF op

\* The end of an operation leaves those who wait for others alone.
LEMMA SettledAsked ==
  ASSUME Shape, Asked, Progress, chain # <<>>, NEW ok \in BOOLEAN, Settle(ok)
  PROVE  Asked' /\ Progress'
<1> DEFINE op == Head(chain)
<1>1. /\ op \in Operation /\ chain' = Tail(chain) /\ Answers(op, ok) /\ UNCHANGED toAdd
  BY Settled
<1>2. /\ chain \in Seq(Operation) /\ handler \in [Slots -> {Off} \cup Handler]
      /\ import \in [Range(Declared) -> Imports_]
  BY DEF Shape
<1>3. /\ Len(chain') = Len(chain) - 1 /\ Len(chain) \in Nat \ {0} /\ op = chain[1]
      /\ \A i \in 1..Len(chain) - 1 : chain'[i] = chain[i + 1]
  BY <1>1, <1>2, TailAt
<1> HIDE DEF op
<1>4. \A i \in 1..Len(chain') : i + 1 \in 1..Len(chain) /\ chain'[i] = chain[i + 1]
  BY <1>3
<1>5. \A i, j \in 1..Len(chain') : chain'[i].by = chain'[j].by => i = j
  <2> SUFFICES ASSUME NEW i \in 1..Len(chain'), NEW j \in 1..Len(chain'),
                      chain'[i].by = chain'[j].by
               PROVE  i = j
    OBVIOUS
  <2>1. \A k, l \in 1..Len(chain) : chain[k].by = chain[l].by => k = l
    BY DEF Asked
  <2>2. /\ i + 1 \in 1..Len(chain) /\ chain'[i] = chain[i + 1]
        /\ j + 1 \in 1..Len(chain) /\ chain'[j] = chain[j + 1]
    BY <1>4
  <2>3. i + 1 = j + 1
    BY <2>1, <2>2
  <2> QED BY <2>3
<1>6. \A i \in 1..Len(chain') : chain'[i].by # op.by
  <2> TAKE i \in 1..Len(chain')
  <2>1. 1 \in 1..Len(chain) /\ i + 1 # 1
    BY <1>3
  <2> QED BY <1>3, <1>4, <2>1 DEF Asked
<1>7. ASSUME NEW i \in 1..Len(chain')
      PROVE  /\ chain'[i].by = <<"run">> => run' = "awaiting"
             /\ \A p \in Range(Declared) : chain'[i].by = <<"import", p>> => import'[p] = "adding"
             /\ \A s \in Slots : chain'[i].by = <<"event", s>> =>
                  /\ handler'[s].phase = IF chain'[i].kind = "add" THEN "adding" ELSE "removing"
                  /\ handler'[s].path = chain'[i].path
  <2>1. /\ chain'[i].by = <<"run">> => run = "awaiting"
        /\ \A p \in Range(Declared) : chain'[i].by = <<"import", p>> => import[p] = "adding"
        /\ \A s \in Slots : chain'[i].by = <<"event", s>> =>
             /\ handler[s].phase = IF chain'[i].kind = "add" THEN "adding" ELSE "removing"
             /\ handler[s].path = chain'[i].path
    BY <1>4 DEF Asked
  <2>2. chain'[i].by # op.by
    BY <1>6
  <2>3. chain'[i].by = <<"run">> => run' = "awaiting"
    BY <1>1, <2>1, <2>2 DEF Answers
  <2>4. ASSUME NEW p \in Range(Declared), chain'[i].by = <<"import", p>>
        PROVE  import'[p] = "adding"
    BY <1>1, <1>2, <2>1, <2>2, <2>4 DEF Answers
  <2>5. ASSUME NEW s \in Slots, chain'[i].by = <<"event", s>>
        PROVE  handler'[s] = handler[s]
    BY <1>1, <1>2, <2>2, <2>5 DEF Answers
  <2> QED BY <2>1, <2>3, <2>4, <2>5
<1>8. Progress'
  <2>1. ASSUME NEW p \in Range(Declared), import[p] = "adding", run' = run,
               import' = [import EXCEPT ![p] = IF ok THEN "done" ELSE "rejected"]
        PROVE  Progress'
    <3>1. run \notin {"start", "adding", "awaiting", "watchingGit", "watching"}
      BY <2>1 DEF Progress
    <3> QED BY <1>1, <2>1, <3>1 DEF Progress
  <2> QED BY <1>1, <2>1 DEF Answers, Progress
<1> QED BY <1>5, <1>7, <1>8 DEF Asked

LEMMA SettledShape ==
  ASSUME Shape, Asked, chain # <<>>, NEW ok \in BOOLEAN, Settle(ok),
         known' \in Folders, roots' \in Folders,
         requests' \in Seq(Asks),
         events' \in Seq(Event), faults' \in 0..MaxFaults
  PROVE  Shape'
<1> DEFINE op == Head(chain)
<1>1. /\ op \in Operation /\ chain' = Tail(chain) /\ Answers(op, ok) /\ ~waiting'
      /\ UNCHANGED <<disk, toAdd, fsEvents, gitEvents, recorded, changes, seen, raced>>
  BY Settled
<1>2. /\ chain \in Seq(Operation) /\ handler \in [Slots -> {Off} \cup Handler]
      /\ import \in [Range(Declared) -> Imports_] /\ run \in Runs
      /\ jobs \in Seq(Job)
  BY DEF Shape
<1>3. chain' \in Seq(Operation) /\ waiting' = FALSE
  <2>1. chain' \in Seq(Operation)
    BY <1>1, <1>2
  <2>2. waiting' = FALSE
    BY DEF Settle
  <2> QED BY <2>1, <2>2
<1> HIDE DEF op
<1>4. op.path \in Projects
  BY <1>1 DEF Operation
<1>5. run' \in Runs /\ import' \in [Range(Declared) -> Imports_]
  BY <1>1, <1>2 DEF Answers, Runs, Imports_
<1>6. handler' \in [Slots -> {Off} \cup Handler]
  <2>1. [phase |-> "branch", path |-> op.path] \in Handler
    BY <1>4 DEF Handler, Asking
  <2> QED BY <1>1, <1>2, <2>1 DEF Answers
<1>7. jobs' \in Seq(Job)
  <2>1. [kind |-> "delete", path |-> op.path] \in Job
    BY <1>4 DEF Job
  <2>2. jobs' = jobs \/ jobs' = Append(jobs, [kind |-> "delete", path |-> op.path])
    BY <1>1 DEF Answers
  <2> HIDE DEF Job
  <2>3. Append(jobs, [kind |-> "delete", path |-> op.path]) \in Seq(Job)
    BY <1>2, <2>1, AppendAt
  <2> QED BY <1>2, <2>2, <2>3
<1> QED BY <1>1, <1>3, <1>5, <1>6, <1>7 DEF Shape

LEMMA AskedStays ==
  ASSUME Asked, chain' = chain, run = "awaiting" => run' = "awaiting",
         \A p \in Range(Declared) : import[p] = "adding" => import'[p] = "adding",
         \A s \in Slots : handler[s].phase \in {"adding", "removing"} => handler'[s] = handler[s]
  PROVE  Asked'
<1>1. \A i, j \in 1..Len(chain') : chain'[i].by = chain'[j].by => i = j
  BY DEF Asked
<1>2. ASSUME NEW i \in 1..Len(chain')
      PROVE  /\ chain'[i].by = <<"run">> => run' = "awaiting"
             /\ \A p \in Range(Declared) : chain'[i].by = <<"import", p>> => import'[p] = "adding"
             /\ \A s \in Slots : chain'[i].by = <<"event", s>> =>
                  /\ handler'[s].phase = IF chain'[i].kind = "add" THEN "adding" ELSE "removing"
                  /\ handler'[s].path = chain'[i].path
  BY DEF Asked
<1> QED BY <1>1, <1>2 DEF Asked

LEMMA AppendAsked ==
  ASSUME Shape, Asked, NEW op \in Operation, chain' = Append(chain, op),
         run = "awaiting" => run' = "awaiting",
         \A p \in Range(Declared) : import[p] = "adding" => import'[p] = "adding",
         \A s \in Slots : handler[s].phase \in {"adding", "removing"} => handler'[s] = handler[s],
         \A i \in 1..Len(chain) : chain[i].by # op.by,
         op.by = <<"run">> => run' = "awaiting",
         \A p \in Range(Declared) : op.by = <<"import", p>> => import'[p] = "adding",
         \A s \in Slots : op.by = <<"event", s>> =>
           /\ handler'[s].phase = IF op.kind = "add" THEN "adding" ELSE "removing"
           /\ handler'[s].path = op.path
  PROVE  Asked' /\ chain' \in Seq(Operation) /\ chain' # <<>>
<1>1. chain \in Seq(Operation)
  BY DEF Shape
<1>2. /\ chain' \in Seq(Operation) /\ Len(chain') = Len(chain) + 1 /\ Len(chain) \in Nat
      /\ \A i \in 1..Len(chain) + 1 : chain'[i] = IF i = Len(chain) + 1 THEN op ELSE chain[i]
  BY <1>1, AppendAt
<1>3. chain' # <<>>
  BY <1>2
<1>4. \A i \in 1..Len(chain') : \/ i = Len(chain) + 1 /\ chain'[i] = op
                                \/ i \in 1..Len(chain) /\ chain'[i] = chain[i]
  BY <1>2
<1>5. \A i, j \in 1..Len(chain') : chain'[i].by = chain'[j].by => i = j
  BY <1>4 DEF Asked
<1>6. ASSUME NEW i \in 1..Len(chain')
      PROVE  /\ chain'[i].by = <<"run">> => run' = "awaiting"
             /\ \A p \in Range(Declared) : chain'[i].by = <<"import", p>> => import'[p] = "adding"
             /\ \A s \in Slots : chain'[i].by = <<"event", s>> =>
                  /\ handler'[s].phase = IF chain'[i].kind = "add" THEN "adding" ELSE "removing"
                  /\ handler'[s].path = chain'[i].path
  <2>1. CASE chain'[i] = op
    BY <2>1
  <2>2. CASE i \in 1..Len(chain) /\ chain'[i] = chain[i]
    BY <2>2 DEF Asked
  <2> QED BY <1>4, <2>1, <2>2
<1> QED BY <1>2, <1>3, <1>5, <1>6 DEF Asked

------------------------------------------------------------------------------
(* Every step keeps the types. *)

LEMMA ImportTypes ==
  /\ Declared \in Seq(Projects) /\ Range(Declared) \subseteq Projects
  /\ \A p \in Range(Declared) : Import[p].target \in Projects
BY ImportAssumption, RangeIn

LEMMA ImportingTypes ==
  ASSUME ProjectsInv,
         \/ BuildCloneCommands \/ ImportRejected \/ Imported \/ WatchGit \/ WatchRoot
         \/ \E p \in Range(Declared) :
              \/ LoginSucceeds(p) \/ LoginFails(p) \/ Retry(p) \/ Dismiss(p)
              \/ TryAgain(p) \/ Skip(p) \/ ImportFails(p)
  PROVE  ProjectsInv'
<1>1. Shape /\ Asked /\ Progress
  BY DEF ProjectsInv
<1>2. /\ UNCHANGED <<updater, editor, watching, service, seen, raced, changes>>
      /\ run = "awaiting" => run' = run
  BY DEF BuildCloneCommands, ImportRejected, Imported, WatchGit, WatchRoot, LoginSucceeds,
         LoginFails, Retry, Dismiss, TryAgain, Skip, ImportFails, SetImport, bounds, history
<1>3. import \in [Range(Declared) -> Imports_] /\ run \in Runs /\ MultiRoot \in BOOLEAN
  BY <1>1, ImportAssumption DEF Shape
<1>4. CASE BuildCloneCommands
  <2>1. /\ run = "start" /\ run' = "importing" /\ UNCHANGED <<disk, toAdd, faults>>
        /\ import' = [p \in Range(Declared) |->
                        IF p \in disk THEN "none"
                        ELSE IF Import[p].secure THEN "login" ELSE "importing"]
    BY <1>4 DEF BuildCloneCommands, bounds
  <2>2. import' \in [Range(Declared) -> Imports_]
    BY <2>1 DEF Imports_
  <2>3. \A p \in Range(Declared) : import[p] # "adding"
    BY <1>1, <2>1 DEF Progress
  <2>4. Asked'
    BY <1>1, <1>2, <2>1, <2>3, AskedStays DEF updater, watching
  <2>5. Shape'
    BY <1>1, <1>2, <2>1, <2>2 DEF Shape, updater, editor, watching, service, Runs
  <2>6. Progress'
    BY <2>1 DEF Progress
  <2> QED BY <2>4, <2>5, <2>6 DEF ProjectsInv
<1>5. CASE ImportRejected \/ Imported \/ WatchGit \/ WatchRoot
  <2>1. /\ UNCHANGED <<disk, import, faults>> /\ run' \in Runs /\ run # "awaiting" /\ run' # "start"
        /\ toAdd' \in {toAdd, Declared, <<>>}
    BY <1>5 DEF ImportRejected, Imported, WatchGit, WatchRoot, bounds, Runs
  <2>2. toAdd' \in Seq(Projects)
    <3>1. toAdd \in Seq(Projects) /\ <<>> \in Seq(Projects)
      BY <1>1 DEF Shape
    <3> QED BY <2>1, <3>1, ImportTypes
  <2>3. Asked'
    BY <1>1, <1>2, <2>1, AskedStays DEF updater, watching
  <2>4. Shape'
    BY <1>1, <1>2, <2>1, <2>2 DEF Shape, updater, editor, watching, service
  <2>5. Progress'
    BY <1>1, <1>5, <2>1 DEF Progress, ImportRejected, Imported, WatchGit, WatchRoot
  <2> QED BY <2>3, <2>4, <2>5 DEF ProjectsInv
<1>6. ASSUME NEW p \in Range(Declared),
             \/ LoginSucceeds(p) \/ LoginFails(p) \/ Retry(p) \/ Dismiss(p)
             \/ TryAgain(p) \/ Skip(p) \/ ImportFails(p)
      PROVE  ProjectsInv'
  <2>1. /\ import[p] \in {"login", "asking", "skipping", "importing"}
        /\ UNCHANGED <<run, toAdd>>
        /\ \E to \in Imports_ \ {"none"} : import' = [import EXCEPT ![p] = to]
        /\ disk' \in {disk, disk \cup {Import[p].target}}
        /\ faults' = faults \/ (faults < MaxFaults /\ faults' = faults + 1)
    BY <1>6 DEF LoginSucceeds, LoginFails, Retry, Dismiss, TryAgain, Skip, ImportFails,
                SetImport, bounds, Fault, Imports_
  <2>2. disk' \subseteq Projects
    BY <1>1, <2>1, ImportTypes DEF Shape
  <2>3. import' \in [Range(Declared) -> Imports_]
    BY <1>3, <2>1
  <2>4. faults' \in 0..MaxFaults
    BY <1>1, <2>1, ImportAssumption DEF Shape
  <2>5. Asked'
    <3>1. \A q \in Range(Declared) : import[q] = "adding" => import'[q] = "adding"
      BY <1>3, <2>1
    <3> QED BY <1>1, <1>2, <2>1, <3>1, AskedStays DEF updater, watching
  <2>6. Shape'
    BY <1>1, <1>2, <2>1, <2>2, <2>3, <2>4 DEF Shape, updater, editor, watching, service
  <2>7. run \notin {"start", "adding", "awaiting", "watchingGit", "watching"}
    BY <1>1, <2>1 DEF Progress
  <2>8. Progress'
    BY <2>1, <2>7 DEF Progress
  <2> QED BY <2>5, <2>6, <2>8 DEF ProjectsInv
<1> QED BY <1>4, <1>5, <1>6

LEMMA ImportSucceedsTypes ==
  ASSUME ProjectsInv, NEW p \in Range(Declared), ImportSucceeds(p)
  PROVE  ProjectsInv'
<1> DEFINE op == AddFolder(Import[p].target, <<"import", p>>)
<1>1. Shape /\ Asked /\ Progress
  BY DEF ProjectsInv
<1>2. /\ import[p] = "importing" /\ disk' = disk \cup {Import[p].target}
      /\ import' = [import EXCEPT ![p] = IF MultiRoot THEN "adding" ELSE "done"]
      /\ chain' = IF MultiRoot THEN Append(chain, op) ELSE chain
      /\ UNCHANGED <<run, toAdd, waiting, editor, watching, service, bounds, seen, raced>>
  BY DEF ImportSucceeds, history
<1>3. import \in [Range(Declared) -> Imports_] /\ chain \in Seq(Operation)
  BY <1>1 DEF Shape
<1>4. disk' \subseteq Projects /\ import' \in [Range(Declared) -> Imports_]
  BY <1>1, <1>2, <1>3, ImportTypes DEF Shape, Imports_
<1>5. op.by = <<"import", p>> /\ op \in Operation
  BY ImportTypes DEF AddFolder, Operation, Askers
<1>6. Asked' /\ chain' \in Seq(Operation) /\ (waiting' => chain' # <<>>)
  <2>1. \A q \in Range(Declared) : import[q] = "adding" => import'[q] = "adding"
    BY <1>2, <1>3
  <2>2. run' = run /\ handler' = handler /\ waiting' = waiting
    BY <1>2 DEF watching
  <2>3. CASE MultiRoot
    <3> HIDE DEF op
    <3>1. \A i \in 1..Len(chain) : chain[i].by # op.by
      BY <1>1, <1>2, <1>5 DEF Asked
    <3>2. \A q \in Range(Declared) : op.by = <<"import", q>> => import'[q] = "adding"
      BY <1>2, <1>3, <1>5, <2>3, AskersDiffer
    <3>3. op.by # <<"run">> /\ \A s \in Slots : op.by # <<"event", s>>
      BY <1>5, AskersDiffer
    <3>4. chain' = Append(chain, op)
      BY <1>2, <2>3
    <3> QED BY <1>1, <1>5, <2>1, <2>2, <3>1, <3>2, <3>3, <3>4, AppendAsked
  <2>4. CASE ~MultiRoot
    BY <1>1, <1>2, <1>3, <2>1, <2>2, <2>4, AskedStays DEF Shape
  <2> QED BY <2>3, <2>4
<1>7. Shape'
  BY <1>1, <1>2, <1>4, <1>6 DEF Shape, editor, watching, service, bounds
<1>8. Progress'
  <2>1. run \notin {"start", "adding", "awaiting", "watchingGit", "watching"}
    BY <1>1, <1>2 DEF Progress
  <2> QED BY <1>2, <2>1 DEF Progress
<1> QED BY <1>6, <1>7, <1>8 DEF ProjectsInv

LEMMA AddExistingTypes ==
  ASSUME ProjectsInv, AddExisting
  PROVE  ProjectsInv'
<1> DEFINE op == AddFolder(Head(toAdd), <<"run">>)
<1>1. Shape /\ Asked /\ Progress
  BY DEF ProjectsInv
<1>2. /\ run = "adding" /\ toAdd # <<>> /\ toAdd' = Tail(toAdd)
      /\ IF Head(toAdd) \in disk THEN chain' = Append(chain, op) /\ run' = "awaiting"
         ELSE UNCHANGED <<chain, run>>
      /\ UNCHANGED <<disk, import, waiting, editor, watching, service, bounds, seen, raced>>
  BY DEF AddExisting, history
<1>3. toAdd \in Seq(Projects) /\ chain \in Seq(Operation)
  BY <1>1 DEF Shape
<1>4. toAdd' \in Seq(Projects) /\ Head(toAdd) \in Projects
  BY <1>2, <1>3, TailAt
<1>5. op.by = <<"run">> /\ op \in Operation
  BY <1>4 DEF AddFolder, Operation, Askers
<1>6. Asked' /\ chain' \in Seq(Operation) /\ (waiting' => chain' # <<>>) /\ run' \in Runs
  <2>1. import' = import /\ handler' = handler /\ waiting' = waiting
    BY <1>2 DEF watching
  <2>2. CASE Head(toAdd) \in disk
    <3> HIDE DEF op
    <3>1. \A i \in 1..Len(chain) : chain[i].by # op.by
      BY <1>1, <1>2, <1>5 DEF Asked
    <3>2. chain' = Append(chain, op) /\ run' = "awaiting"
      BY <1>2, <2>2
    <3>3. /\ \A q \in Range(Declared) : op.by # <<"import", q>>
          /\ \A s \in Slots : op.by # <<"event", s>>
      BY <1>5, AskersDiffer
    <3> QED BY <1>1, <1>5, <2>1, <3>1, <3>2, <3>3, AppendAsked DEF Runs
  <2>3. CASE Head(toAdd) \notin disk
    BY <1>1, <1>2, <1>3, <2>1, <2>3, AskedStays DEF Shape
  <2> QED BY <2>2, <2>3
<1>7. Shape'
  BY <1>1, <1>2, <1>4, <1>6 DEF Shape, editor, watching, service, bounds
<1>8. Progress'
  BY <1>1, <1>2 DEF Progress
<1> QED BY <1>6, <1>7, <1>8 DEF ProjectsInv

LEMMA NeedlessMeans ==
  \A op : Needless(op) <=> (IsFolder(known, op.path) <=> op.kind = "add")
BY DEF Needless, IsFolder

\* The folder is in the list once, so its index is that of the first.
LEMMA Requested ==
  ASSUME Shape, chain # <<>>, ~Needless(Head(chain))
  PROVE  LET op == Head(chain)
         IN  /\ Request(op) \in Asks /\ Request(op).kind = op.kind /\ Request(op).path = op.path
             /\ op.kind = "add" => Request(op).index = Len(known) + 1
             /\ op.kind # "add" => /\ Request(op).index \in 1..Len(known)
                                   /\ known[Request(op).index] = op.path
<1> DEFINE op == Head(chain)
           First(i) == known[i] = op.path /\ \A j \in 1..(i - 1) : known[j] # op.path
<1>1. op \in Operation /\ known \in Seq(Projects) /\ Once(known)
  BY TailAt DEF Shape, Folders
<1> HIDE DEF op
<1>2. op.kind \in {"add", "remove"} /\ op.path \in Projects
  BY <1>1 DEF Operation
<1>3. DOMAIN known = 1..Len(known) /\ Len(known) \in Nat
  BY <1>1
<1>4. /\ Request(op).kind = op.kind /\ Request(op).path = op.path
      /\ Request(op) = [kind |-> op.kind, path |-> op.path, index |-> Request(op).index]
      /\ Request(op).index = IF op.kind = "add" THEN Len(known) + 1
                             ELSE CHOOSE i \in DOMAIN known : First(i)
  BY DEF Request
<1>5. op.kind # "add" => Request(op).index \in 1..Len(known) /\ known[Request(op).index] = op.path
  <2> SUFFICES ASSUME op.kind # "add"
               PROVE  Request(op).index \in 1..Len(known) /\ known[Request(op).index] = op.path
    OBVIOUS
  <2>1. IsFolder(known, op.path)
    BY NeedlessMeans DEF op
  <2>2. PICK i \in 1..Len(known) : known[i] = op.path
    BY <1>3, <2>1 DEF IsFolder
  <2>3. \A j \in 1..(i - 1) : known[j] # op.path
    BY <1>1, <1>3, <2>2 DEF Once
  <2>4. \E k \in DOMAIN known : First(k)
    BY <1>3, <2>2, <2>3
  <2> HIDE DEF First
  <2>5. Request(op).index \in DOMAIN known /\ First(Request(op).index)
    BY <1>4, <2>4
  <2> QED BY <1>3, <2>5 DEF First
<1>6. Request(op) \in Asks
  <2> HIDE DEF First
  <2>1. Request(op).index \in Nat \ {0}
    <3>1. CASE op.kind = "add"
      <4>1. Request(op).index = Len(known) + 1
        BY <1>4, <3>1
      <4> QED BY <1>3, <4>1
    <3>2. CASE op.kind # "add"
      BY <1>3, <1>5, <3>2
    <3> QED BY <3>1, <3>2
  <2>2. \A n \in Nat \ {0} : [kind |-> op.kind, path |-> op.path, index |-> n] \in Asks
    BY <1>2 DEF Asks
  <2> QED BY <1>4, <2>1, <2>2
<1> QED BY <1>4, <1>5, <1>6 DEF op

LEMMA UpdatingTypes ==
  ASSUME ProjectsInv, Updating
  PROVE  ProjectsInv'
<1>1. Shape /\ Asked /\ Progress
  BY DEF ProjectsInv
<1>2. /\ faults \in 0..MaxFaults /\ MaxFaults \in Nat
      /\ faults' = faults \/ (faults < MaxFaults /\ faults' = faults + 1) => faults' \in 0..MaxFaults
  BY <1>1, ImportAssumption DEF Shape
<1>3. CASE SkipOperation \/ RefuseOperation \/ Timeout
  <2>1. /\ chain # <<>> /\ \E ok \in BOOLEAN : Settle(ok)
        /\ UNCHANGED editor
        /\ faults' = faults \/ (faults < MaxFaults /\ faults' = faults + 1)
    BY <1>1, <1>3 DEF SkipOperation, RefuseOperation, Timeout, Fault, Shape
  <2>2. PICK ok \in BOOLEAN : Settle(ok)
    BY <2>1
  <2>3. Shape'
    <3>1. /\ known' \in Folders /\ roots' \in Folders
          /\ requests' \in Seq(Asks) /\ events' \in Seq(Event)
      BY <1>1, <2>1 DEF Shape, editor
    <3> QED BY <1>1, <1>2, <2>1, <2>2, <3>1, SettledShape
  <2> QED BY <1>1, <2>1, <2>2, <2>3, SettledAsked DEF ProjectsInv
<1>4. CASE StartOperation
  <2>1. /\ chain # <<>> /\ ~Needless(Head(chain)) /\ waiting' = TRUE
        /\ requests' = Append(requests, Request(Head(chain)))
        /\ UNCHANGED <<disk, starting, chain, known, roots, events, watching, service,
                       bounds, seen, raced>>
    BY <1>4 DEF StartOperation, history
  <2>2. requests' \in Seq(Asks)
    <3>1. Request(Head(chain)) \in Asks /\ requests \in Seq(Asks)
      BY <1>1, <2>1, Requested DEF Shape
    <3> QED BY <2>1, <3>1, AppendAt
  <2>3. Shape'
    BY <1>1, <2>1, <2>2 DEF Shape, starting, watching, service, bounds
  <2>4. Asked'
    BY <1>1, <2>1, AskedStays DEF starting, watching
  <2>5. Progress'
    BY <1>1, <2>1 DEF Progress, starting
  <2> QED BY <2>3, <2>4, <2>5 DEF ProjectsInv
<1> QED BY <1>3, <1>4 DEF Updating

LEMMA EventTypes ==
  ASSUME ProjectsInv, EventArrives
  PROVE  ProjectsInv'
<1>1. Shape /\ Asked /\ Progress
  BY DEF ProjectsInv
<1>2. /\ events # <<>> /\ known' = Head(events).roots /\ events' = Tail(events)
      /\ UNCHANGED <<roots, requests, faults>>
      /\ \/ chain # <<>> /\ Settle(TRUE)
         \/ UNCHANGED <<disk, starting, updater, watching, service, changes, seen, raced>>
  BY <1>1 DEF EventArrives, bounds, Shape, history
<1>3. events \in Seq(Event)
  BY <1>1 DEF Shape
<1>4. events' \in Seq(Event) /\ Head(events) \in Event
  BY <1>2, <1>3, TailAt
<1>5. known' \in Folders
  BY <1>2, <1>4 DEF Event
<1>6. CASE chain # <<>> /\ Settle(TRUE)
  <2>1. roots' \in Folders /\ requests' \in Seq(Asks) /\ faults' \in 0..MaxFaults
    BY <1>1, <1>2 DEF Shape
  <2>2. Shape'
    BY <1>1, <1>4, <1>5, <1>6, <2>1, SettledShape
  <2>3. Asked' /\ Progress'
    BY <1>1, <1>6, SettledAsked
  <2> QED BY <2>2, <2>3 DEF ProjectsInv
<1>7. CASE UNCHANGED <<disk, starting, updater, watching, service, changes, seen, raced>>
  <2>1. Shape'
    BY <1>1, <1>2, <1>4, <1>5, <1>7 DEF Shape, starting, updater, watching, service
  <2>2. Asked'
    BY <1>1, <1>7, AskedStays DEF starting, updater, watching
  <2>3. Progress'
    BY <1>1, <1>7 DEF Progress, starting
  <2> QED BY <2>1, <2>2, <2>3 DEF ProjectsInv
<1> QED BY <1>2, <1>6, <1>7

LEMMA ReportTypes ==
  ASSUME Shape, NEW after \in Folders
  PROVE  Report(roots, after) \in Seq(Event)
<1> DEFINE e == [roots |-> after, add |-> Range(after) \ Range(roots),
                 remove |-> Range(roots) \ Range(after)]
<1>1. events \in Seq(Event) /\ roots \in Seq(Projects) /\ after \in Seq(Projects)
  BY DEF Shape, Folders
<1>2. Range(after) \subseteq Projects /\ Range(roots) \subseteq Projects
  BY <1>1, RangeIn
<1>3. e \in Event
  BY <1>2 DEF Event
<1>4. Report(roots, after) = IF roots = after THEN events ELSE Append(events, e)
  BY DEF Report
<1> HIDE DEF e
<1> QED BY <1>1, <1>3, <1>4, AppendAt

\* What the editor makes of a request.
LEMMA Inserted ==
  ASSUME NEW list \in Folders, NEW p \in Projects, ~IsFolder(list, p),
         NEW m \in 1..Len(list) + 1
  PROVE  /\ InsertAt(list, m, p) \in Folders /\ IsFolder(InsertAt(list, m, p), p)
         /\ \A q : q # p => (IsFolder(InsertAt(list, m, p), q) <=> IsFolder(list, q))
<1> DEFINE r == InsertAt(list, m, p)
<1>1. list \in Seq(Projects) /\ Once(list) /\ Len(list) \in Nat /\ m \in Nat \ {0}
      /\ DOMAIN list = 1..Len(list)
  BY DEF Folders
<1>2. /\ r \in Seq(Projects) /\ Len(r) = Len(list) + 1
      /\ \A i \in 1..Len(list) + 1 :
           r[i] = IF i < m THEN list[i] ELSE IF i = m THEN p ELSE list[i - 1]
  <2> HIDE DEF r
  <2>1. list \in Seq(Projects) /\ p \in Projects /\ m \in 1..Len(list) + 1
    BY <1>1
  <2>2. /\ InsertAt(list, m, p) \in Seq(Projects) /\ Len(InsertAt(list, m, p)) = Len(list) + 1
        /\ \A i \in 1..Len(list) + 1 : InsertAt(list, m, p)[i] =
             IF i < m THEN list[i] ELSE IF i = m THEN p ELSE list[i - 1]
    <3>1. InsertAt(list, m, p) \in Seq(Projects)
      BY <2>1, InsertedAt
    <3>2. Len(InsertAt(list, m, p)) = Len(list) + 1
      BY <2>1, InsertedAt
    <3>3. \A i \in 1..Len(list) + 1 : InsertAt(list, m, p)[i] =
            IF i < m THEN list[i] ELSE IF i = m THEN p ELSE list[i - 1]
      BY <2>1, InsertedAt
    <3> QED BY <3>1, <3>2, <3>3
  <2> QED BY <2>2 DEF r
<1> HIDE DEF r
<1>3. DOMAIN r = 1..Len(r)
  BY <1>2
<1>4. \A i \in 1..Len(list) : list[i] # p
  BY <1>1 DEF IsFolder
<1> DEFINE at(i) == IF i < m THEN i ELSE i - 1
<1>5. \A i \in 1..Len(r) : \/ i = m /\ r[i] = p
                           \/ i # m /\ at(i) \in 1..Len(list) /\ r[i] = list[at(i)]
  BY <1>1, <1>2
<1>6. \A i, j \in 1..Len(r) : i # m /\ j # m /\ at(i) = at(j) => i = j
  BY <1>1, <1>2
<1>7. \A i \in 1..Len(list) : \E j \in 1..Len(r) : r[j] = list[i]
  <2> TAKE i \in 1..Len(list)
  <2>1. CASE i < m
    BY <1>1, <1>2, <2>1
  <2>2. CASE ~(i < m)
    <3>1. i + 1 \in 1..Len(r) /\ ~(i + 1 < m) /\ i + 1 # m /\ i + 1 - 1 = i
      BY <1>1, <1>2, <2>2
    <3>2. r[i + 1] = list[i + 1 - 1]
      BY <1>2, <3>1
    <3> QED BY <3>1, <3>2
  <2> QED BY <2>1, <2>2
<1>8. m \in 1..Len(r) /\ r[m] = p
  BY <1>1, <1>2
<1> HIDE DEF at
<1>9. Once(r)
  BY <1>1, <1>4, <1>5, <1>6 DEF Once
<1>10. r \in Folders
  BY <1>2, <1>9 DEF Folders
<1>11. IsFolder(r, p)
  BY <1>3, <1>8 DEF IsFolder
<1>12. ASSUME NEW q, q # p PROVE IsFolder(r, q) <=> IsFolder(list, q)
  BY <1>1, <1>3, <1>5, <1>7, <1>12 DEF IsFolder
<1> QED BY <1>10, <1>11, <1>12 DEF r

LEMMA Removed ==
  ASSUME NEW list \in Folders, NEW m \in 1..Len(list)
  PROVE  /\ RemoveAt(list, m) \in Folders /\ ~IsFolder(RemoveAt(list, m), list[m])
         /\ \A q : q # list[m] => (IsFolder(RemoveAt(list, m), q) <=> IsFolder(list, q))
<1> DEFINE r == RemoveAt(list, m)
<1>1. list \in Seq(Projects) /\ Once(list) /\ Len(list) \in Nat /\ m \in Nat \ {0}
      /\ DOMAIN list = 1..Len(list)
  BY DEF Folders
<1>2. /\ r \in Seq(Projects) /\ Len(r) = Len(list) - 1
      /\ \A i \in 1..Len(list) - 1 : r[i] = IF i < m THEN list[i] ELSE list[i + 1]
  BY <1>1, RemovedAt
<1> HIDE DEF r
<1>3. DOMAIN r = 1..Len(r)
  BY <1>2
<1> DEFINE at(i) == IF i < m THEN i ELSE i + 1
<1>4. \A i \in 1..Len(r) : at(i) \in 1..Len(list) /\ at(i) # m /\ r[i] = list[at(i)]
  BY <1>1, <1>2
<1>5. \A i, j \in 1..Len(r) : at(i) = at(j) => i = j
  BY <1>1, <1>2
<1>6. \A i \in 1..Len(list) : i # m => \E j \in 1..Len(r) : r[j] = list[i]
  <2> SUFFICES ASSUME NEW i \in 1..Len(list), i # m PROVE \E j \in 1..Len(r) : r[j] = list[i]
    OBVIOUS
  <2>1. CASE i < m
    BY <1>1, <1>2, <2>1
  <2>2. CASE ~(i < m)
    <3>1. i - 1 \in 1..Len(r) /\ ~(i - 1 < m) /\ i - 1 + 1 = i
      BY <1>1, <1>2, <2>2
    <3> QED BY <1>2, <3>1
  <2> QED BY <2>1, <2>2
<1> HIDE DEF at
<1>7. Once(r)
  BY <1>1, <1>4, <1>5 DEF Once
<1>8. r \in Folders
  BY <1>2, <1>7 DEF Folders
<1>9. ~IsFolder(r, list[m])
  BY <1>1, <1>3, <1>4 DEF IsFolder, Once
<1>10. ASSUME NEW q, q # list[m] PROVE IsFolder(r, q) <=> IsFolder(list, q)
  BY <1>1, <1>3, <1>4, <1>6, <1>10 DEF IsFolder
<1> QED BY <1>8, <1>9, <1>10 DEF r

LEMMA EditorTypes ==
  ASSUME ProjectsInv, EditorActs \/ \E p \in Projects : UserRemovesFolder(p)
  PROVE  ProjectsInv'
<1>1. Shape /\ Asked /\ Progress
  BY DEF ProjectsInv
<1>2. /\ UNCHANGED <<disk, starting, updater, known, watching, service, seen, raced, changes>>
      /\ faults' = faults \/ (faults < MaxFaults /\ faults' = faults + 1)
  BY DEF EditorActs, UserRemovesFolder, Fault, bounds, history
<1>3. faults' \in 0..MaxFaults
  BY <1>1, <1>2, ImportAssumption DEF Shape
<1>4. roots \in Folders /\ requests \in Seq(Asks)
  BY <1>1 DEF Shape
<1>5. roots \in Seq(Projects) /\ DOMAIN roots = 1..Len(roots) /\ Len(roots) \in Nat
  BY <1>4 DEF Folders
<1>6. roots' \in Folders /\ events' = Report(roots, roots') /\ requests' \in Seq(Asks)
  <2>1. CASE EditorActs
    <3> DEFINE request == Head(requests)
               at == IF request.index > Len(roots) THEN Len(roots) + 1 ELSE request.index
    <3>1. /\ requests # <<>> /\ requests' = Tail(requests) /\ events' = Report(roots, roots')
          /\ roots' = CASE request.kind = "add" /\ ~IsFolder(roots, request.path) ->
                              InsertAt(roots, at, request.path)
                        [] request.kind = "remove" /\ request.index <= Len(roots) ->
                              RemoveAt(roots, request.index)
                        [] OTHER -> roots
      BY <2>1 DEF EditorActs
    <3>2. request \in Asks /\ requests' \in Seq(Asks)
      BY <1>4, <3>1, TailAt
    <3> HIDE DEF request
    <3>3. request.path \in Projects /\ request.index \in Nat \ {0}
          /\ request.kind \in {"add", "remove"}
      BY <3>2 DEF Asks
    <3>4. at \in 1..Len(roots) + 1
      BY <1>5, <3>3
    <3> HIDE DEF at
    <3>5. CASE request.kind = "add" /\ ~IsFolder(roots, request.path)
      <4>1. roots' = InsertAt(roots, at, request.path)
        BY <3>1, <3>5
      <4> QED BY <1>4, <3>1, <3>2, <3>3, <3>4, <3>5, <4>1, Inserted
    <3>6. CASE request.kind = "remove" /\ request.index <= Len(roots)
      <4>1. roots' = RemoveAt(roots, request.index)
        BY <3>1, <3>6
      <4>2. request.index \in 1..Len(roots)
        BY <1>5, <3>3, <3>6
      <4> QED BY <1>4, <3>1, <3>2, <4>1, <4>2, Removed
    <3>7. CASE /\ ~(request.kind = "add" /\ ~IsFolder(roots, request.path))
               /\ ~(request.kind = "remove" /\ request.index <= Len(roots))
      BY <1>4, <3>1, <3>2, <3>7
    <3> QED BY <3>5, <3>6, <3>7
  <2>2. ASSUME NEW p \in Projects, UserRemovesFolder(p)
        PROVE  roots' \in Folders /\ events' = Report(roots, roots') /\ requests' \in Seq(Asks)
    <3>1. PICK m \in 1..Len(roots) : roots' = RemoveAt(roots, m)
      BY <1>5, <2>2 DEF UserRemovesFolder
    <3>2. events' = Report(roots, roots') /\ requests' = requests
      BY <2>2 DEF UserRemovesFolder
    <3> QED BY <1>4, <3>1, <3>2, Removed
  <2> QED BY <2>1, <2>2
<1>7. events' \in Seq(Event)
  BY <1>1, <1>6, ReportTypes
<1>8. Shape'
  BY <1>1, <1>2, <1>3, <1>6, <1>7 DEF Shape, starting, updater, watching, service
<1>9. Asked'
  BY <1>1, <1>2, AskedStays DEF starting, updater, watching
<1>10. Progress'
  BY <1>1, <1>2 DEF Progress, starting
<1> QED BY <1>8, <1>9, <1>10 DEF ProjectsInv

LEMMA DiskTypes ==
  ASSUME ProjectsInv, NEW p \in Projects, CreateDirectory(p) \/ DeleteDirectory(p)
  PROVE  ProjectsInv'
<1>1. Shape /\ Asked /\ Progress
  BY DEF ProjectsInv
<1>2. /\ UNCHANGED <<starting, updater, editor, handler, service, faults>>
      /\ disk' \in {disk \cup {p}, disk \ {p}} /\ changes < MaxDisk /\ changes' = changes + 1
      /\ fsEvents' \in {Append(fsEvents, p), fsEvents} /\ seen' \in {seen \cup {p}, seen \ {p}}
      /\ raced' \in {raced \cup {p}, raced \ {p}}
      /\ \E kind \in {"changed", "deleted"} :
           gitEvents' \in {Append(gitEvents, [kind |-> kind, path |-> p]), gitEvents}
  BY DEF CreateDirectory, DeleteDirectory, Noticed
<1>3. fsEvents' \in Seq(Projects)
  <2>1. fsEvents \in Seq(Projects)
    BY <1>1 DEF Shape
  <2>2. Append(fsEvents, p) \in Seq(Projects)
    BY <2>1, AppendAt
  <2> QED BY <1>2, <2>1, <2>2
<1>4. gitEvents' \in Seq(GitEvents)
  <2>1. PICK kind \in {"changed", "deleted"} :
          gitEvents' \in {Append(gitEvents, [kind |-> kind, path |-> p]), gitEvents}
    BY <1>2
  <2>2. [kind |-> kind, path |-> p] \in GitEvents
    BY DEF GitEvents
  <2>3. gitEvents \in Seq(GitEvents)
    BY <1>1 DEF Shape
  <2> QED BY <2>1, <2>2, <2>3, AppendAt
<1>5. changes' \in 0..MaxDisk
  BY <1>1, <1>2, ImportAssumption DEF Shape
<1>6. disk' \subseteq Projects /\ seen' \subseteq Projects /\ raced' \subseteq Projects
  BY <1>1, <1>2 DEF Shape
<1>7. Shape'
  BY <1>1, <1>2, <1>3, <1>4, <1>5, <1>6 DEF Shape, starting, updater, editor, service
<1>8. Asked'
  BY <1>1, <1>2, AskedStays DEF starting, updater
<1>9. Progress'
  BY <1>1, <1>2 DEF Progress, starting
<1> QED BY <1>7, <1>8, <1>9 DEF ProjectsInv

\* Steps of the handlers that ask the chain for nothing.
LEMMA HandlerTypes ==
  ASSUME ProjectsInv, NEW s \in Slots, FsEvent(s) \/ GitEvent(s) \/ UpstreamBranch(s)
                                \/ RemoteURL(s) \/ UpdateProject(s)
  PROVE  ProjectsInv'
<1>1. Shape /\ Asked /\ Progress
  BY DEF ProjectsInv
<1>2. /\ handler \in [Slots -> {Off} \cup Handler] /\ fsEvents \in Seq(Projects)
      /\ gitEvents \in Seq(GitEvents) /\ jobs \in Seq(Job)
  BY <1>1 DEF Shape
<1>3. UNCHANGED <<disk, starting, updater, editor, recorded, bounds, seen, raced>>
  BY DEF FsEvent, GitEvent, UpstreamBranch, RemoteURL, UpdateProject, HandlerGoes, service, history
<1>4. /\ handler[s].phase \notin {"adding", "removing"} \/ handler' = handler
      /\ \A r \in Slots : r # s => handler'[r] = handler[r]
  BY <1>2 DEF FsEvent, GitEvent, UpstreamBranch, RemoteURL, UpdateProject, HandlerGoes, Off
<1>5. /\ fsEvents' \in Seq(Projects) /\ gitEvents' \in Seq(GitEvents) /\ jobs' \in Seq(Job)
      /\ handler' \in [Slots -> {Off} \cup Handler]
  <2>1. CASE FsEvent(s)
    <3>1. /\ fsEvents # <<>> /\ fsEvents' = Tail(fsEvents) /\ UNCHANGED <<gitEvents, jobs>>
          /\ handler' = [handler EXCEPT ![s] = [phase |-> "exists", path |-> Head(fsEvents)]]
      BY <2>1 DEF FsEvent, service
    <3>2. fsEvents' \in Seq(Projects) /\ Head(fsEvents) \in Projects
      BY <1>2, <3>1, TailAt
    <3>3. [phase |-> "exists", path |-> Head(fsEvents)] \in Handler
      BY <3>2 DEF Handler
    <3> QED BY <1>2, <3>1, <3>2, <3>3
  <2>2. CASE GitEvent(s)
    <3> DEFINE event == Head(gitEvents)
    <3>1. /\ gitEvents # <<>> /\ gitEvents' = Tail(gitEvents) /\ UNCHANGED fsEvents
          /\ \/ jobs' = Append(jobs, [kind |-> "delete", path |-> event.path]) /\ UNCHANGED handler
             \/ /\ handler' = [handler EXCEPT ![s] = [phase |-> "branch", path |-> event.path]]
                /\ UNCHANGED jobs
      BY <2>2 DEF GitEvent
    <3>2. gitEvents' \in Seq(GitEvents) /\ event \in GitEvents
      BY <1>2, <3>1, TailAt
    <3> HIDE DEF event
    <3>3. /\ [kind |-> "delete", path |-> event.path] \in Job
          /\ [phase |-> "branch", path |-> event.path] \in Handler
      BY <3>2 DEF GitEvents, Job, Handler, Asking
    <3>4. Append(jobs, [kind |-> "delete", path |-> event.path]) \in Seq(Job)
      BY <1>2, <3>3, AppendAt
    <3> QED BY <1>2, <3>1, <3>2, <3>3, <3>4
  <2>3. CASE UpstreamBranch(s) \/ RemoteURL(s)
    <3> DEFINE p == handler[s].path
    <3>1. /\ handler[s].phase \in Asking /\ UNCHANGED <<fsEvents, gitEvents, jobs>>
          /\ \E h \in {Off, [phase |-> "remote", path |-> p], [phase |-> "updating", path |-> p]} :
               handler' = [handler EXCEPT ![s] = h]
      BY <2>3 DEF UpstreamBranch, RemoteURL, HandlerGoes, service, Asking
    <3>2. handler[s] \in Handler
      BY <1>2, <3>1, HandlerPhase DEF Asking
    <3>3. \A h \in {Off, [phase |-> "remote", path |-> p], [phase |-> "updating", path |-> p]} :
            h \in {Off} \cup Handler
      BY <3>2 DEF Handler, Asking
    <3> HIDE DEF p
    <3> QED BY <1>2, <3>1, <3>3
  <2>4. CASE UpdateProject(s)
    <3> DEFINE p == handler[s].path
               job == [kind |-> "update", path |-> p]
    <3>1. /\ handler[s].phase = "updating" /\ UNCHANGED <<fsEvents, gitEvents>>
          /\ handler' = [handler EXCEPT ![s] = Off] /\ jobs' = Append(jobs, job)
      BY <2>4 DEF UpdateProject
    <3>2. handler[s] \in Handler
      BY <1>2, <3>1, HandlerPhase
    <3>3. job \in Job
      BY <3>2 DEF Handler, Job
    <3> HIDE DEF p, job
    <3> QED BY <1>2, <3>1, <3>3, AppendAt
  <2> QED BY <2>1, <2>2, <2>3, <2>4
<1>6. Shape'
  BY <1>1, <1>3, <1>5 DEF Shape, starting, updater, editor, bounds
<1>7. Asked'
  <2>1. \A r \in Slots : handler[r].phase \in {"adding", "removing"} => handler'[r] = handler[r]
    BY <1>4
  <2> QED BY <1>1, <1>3, <2>1, AskedStays DEF starting, updater
<1>8. Progress'
  BY <1>1, <1>3 DEF Progress, starting
<1> QED BY <1>6, <1>7, <1>8 DEF ProjectsInv

\* The two looks of a handler of fs.watch at the disk.
LEMMA LookTypes ==
  ASSUME ProjectsInv, NEW s \in Slots, Exists(s) \/ IsDirectory(s)
  PROVE  /\ ProjectsInv' /\ handler[s] \in Handler
         /\ \A r \in Slots : r # s => handler'[r] = handler[r]
<1> DEFINE p == handler[s].path
           add == AddFolder(p, <<"event", s>>)
           remove == RemoveFolder(p, <<"event", s>>)
<1>1. Shape /\ Asked /\ Progress
  BY DEF ProjectsInv
<1>2. handler \in [Slots -> {Off} \cup Handler] /\ chain \in Seq(Operation)
  BY <1>1 DEF Shape
<1>3. /\ handler[s].phase \in {"exists", "directory"}
      /\ UNCHANGED <<disk, starting, waiting, editor, fsEvents, gitEvents, service, bounds, seen, raced>>
      /\ \A r \in Slots : r # s => handler'[r] = handler[r]
      /\ \/ /\ handler' = [handler EXCEPT ![s].phase = "directory"] /\ UNCHANGED chain
         \/ handler' = [handler EXCEPT ![s] = Off] /\ UNCHANGED chain
         \/ /\ handler' = [handler EXCEPT ![s].phase = "removing"]
            /\ chain' = Append(chain, remove)
         \/ /\ handler' = [handler EXCEPT ![s].phase = "adding"]
            /\ chain' = Append(chain, add)
  BY <1>2 DEF Exists, IsDirectory, history
<1>4. handler[s] \in Handler
  BY <1>2, <1>3, HandlerPhase
<1>5. \A ph \in {"directory", "removing", "adding"} :
        /\ [handler[s] EXCEPT !.phase = ph] \in Handler
        /\ [handler[s] EXCEPT !.phase = ph].phase = ph
        /\ [handler[s] EXCEPT !.phase = ph].path = p
  BY <1>4 DEF Handler
<1>6. p \in Projects
  BY <1>4 DEF Handler
<1>7. /\ add.by = <<"event", s>> /\ add.kind = "add" /\ add.path = p /\ add \in Operation
      /\ remove.by = <<"event", s>> /\ remove.kind = "remove" /\ remove.path = p
      /\ remove \in Operation
  BY <1>6 DEF AddFolder, RemoveFolder, Operation, Askers
<1>8. \A i \in 1..Len(chain) : chain[i].by # <<"event", s>>
  BY <1>1, <1>3 DEF Asked
<1> HIDE DEF p, add, remove
<1>9. handler' \in [Slots -> {Off} \cup Handler]
  BY <1>2, <1>3, <1>5
<1>10. \A r \in Slots : handler[r].phase \in {"adding", "removing"} => handler'[r] = handler[r]
  BY <1>3
<1>11. Asked' /\ chain' \in Seq(Operation) /\ (waiting' => chain' # <<>>)
  <2>1. ASSUME NEW op \in Operation, op.by = <<"event", s>>, chain' = Append(chain, op),
               handler'[s].phase = IF op.kind = "add" THEN "adding" ELSE "removing",
               handler'[s].path = op.path
        PROVE  Asked' /\ chain' \in Seq(Operation) /\ chain' # <<>>
    <3>1. /\ op.by # <<"run">> /\ \A q \in Range(Declared) : op.by # <<"import", q>>
          /\ \A r \in Slots : op.by = <<"event", r>> => r = s
      BY <2>1, AskersDiffer
    <3>2. \A r \in Slots : op.by = <<"event", r>> =>
            /\ handler'[r].phase = IF op.kind = "add" THEN "adding" ELSE "removing"
            /\ handler'[r].path = op.path
      BY <2>1, <3>1
    <3>3. \A i \in 1..Len(chain) : chain[i].by # op.by
      BY <1>8, <2>1
    <3>4. run' = run /\ import' = import
      BY <1>3 DEF starting
    <3> QED BY <1>1, <1>10, <2>1, <3>1, <3>2, <3>3, <3>4, AppendAsked
  <2>2. CASE chain' = chain
    <3>1. Asked'
      BY <1>1, <1>3, <1>10, <2>2, AskedStays DEF starting
    <3> QED BY <1>1, <1>2, <1>3, <2>2, <3>1 DEF Shape
  <2>3. CASE handler' = [handler EXCEPT ![s].phase = "removing"] /\ chain' = Append(chain, remove)
    <3>1. handler'[s].phase = "removing" /\ handler'[s].path = remove.path
      BY <1>2, <1>5, <1>7, <2>3
    <3> QED BY <1>7, <2>1, <2>3, <3>1
  <2>4. CASE handler' = [handler EXCEPT ![s].phase = "adding"] /\ chain' = Append(chain, add)
    <3>1. handler'[s].phase = "adding" /\ handler'[s].path = add.path
      BY <1>2, <1>5, <1>7, <2>4
    <3> QED BY <1>7, <2>1, <2>4, <3>1
  <2> QED BY <1>3, <2>2, <2>3, <2>4
<1>12. Shape'
  BY <1>1, <1>3, <1>9, <1>11 DEF Shape, starting, editor, service, bounds
<1>13. Progress'
  BY <1>1, <1>3 DEF Progress, starting
<1> QED BY <1>3, <1>4, <1>11, <1>12, <1>13 DEF ProjectsInv

LEMMA DevfileTypes ==
  ASSUME ProjectsInv, UpdateDevfile
  PROVE  ProjectsInv'
<1>1. Shape /\ Asked /\ Progress
  BY DEF ProjectsInv
<1>2. /\ jobs # <<>> /\ jobs' = Tail(jobs)
      /\ recorded' \in {recorded, recorded \cup {Head(jobs).path}, recorded \ {Head(jobs).path}}
      /\ faults' = faults \/ (faults < MaxFaults /\ faults' = faults + 1)
      /\ UNCHANGED <<disk, starting, updater, editor, watching, changes, seen, raced>>
  BY DEF UpdateDevfile, Fault, history
<1>3. jobs' \in Seq(Job) /\ Head(jobs) \in Job
  BY <1>1, <1>2, TailAt DEF Shape
<1>4. recorded' \subseteq Projects
  BY <1>1, <1>2, <1>3 DEF Job, Shape
<1>5. faults' \in 0..MaxFaults
  BY <1>1, <1>2, ImportAssumption DEF Shape
<1>6. Shape'
  BY <1>1, <1>2, <1>3, <1>4, <1>5 DEF Shape, starting, updater, editor, watching
<1>7. Asked'
  BY <1>1, <1>2, AskedStays DEF starting, updater, watching
<1>8. Progress'
  BY <1>1, <1>2 DEF Progress, starting
<1> QED BY <1>6, <1>7, <1>8 DEF ProjectsInv

LEMMA NextProjects == ProjectsInv /\ [Next]_vars => ProjectsInv'
<1> SUFFICES ASSUME ProjectsInv, [Next]_vars PROVE ProjectsInv'
  OBVIOUS
<1>1. CASE UNCHANGED vars
  <2>1. Shape /\ Asked /\ Progress
    BY DEF ProjectsInv
  <2>2. Shape'
    BY <1>1, <2>1 DEF vars, Shape, starting, updater, editor, watching, service, bounds, history
  <2>3. Asked' /\ Progress'
    BY <1>1, <2>1, AskedStays DEF vars, starting, updater, watching, Progress
  <2> QED BY <2>2, <2>3 DEF ProjectsInv
<1>2. CASE Importing
  BY <1>2, ImportingTypes, ImportSucceedsTypes, AddExistingTypes DEF Importing
<1>3. CASE Handling
  BY <1>3, HandlerTypes, LookTypes DEF Handling
<1>4. CASE \E p \in Projects : UserRemovesFolder(p) \/ CreateDirectory(p) \/ DeleteDirectory(p)
  BY <1>4, EditorTypes, DiskTypes
<1> QED BY <1>1, <1>2, <1>3, <1>4, UpdatingTypes, EventTypes, EditorTypes, DevfileTypes DEF Next

LEMMA InitProjects == Init => ProjectsInv
<1> SUFFICES ASSUME Init PROVE ProjectsInv
  OBVIOUS
<1>1. roots \in Folders
  <2>1. <<>> \in Folders
    BY DEF Folders, Once
  <2>2. SetToSeq(disk) \in Folders
    <3>1. disk \subseteq Projects
      BY DEF Init
    <3>2. IsFiniteSet(disk)
      BY <3>1, ImportAssumption, FS_Subset
    <3>3. SetToSeq(disk) \in Seq(disk) /\ Once(SetToSeq(disk))
      BY <3>2, OrderOf
    <3>4. SetToSeq(disk) \in Seq(Projects)
      BY <3>1, <3>3, SeqMonotonic
    <3> QED BY <3>3, <3>4 DEF Folders
  <2> QED BY <2>1, <2>2 DEF Init
<1>2. /\ disk \subseteq Projects /\ Range(Declared) \subseteq Projects
      /\ run = "start" /\ toAdd = <<>> /\ chain = <<>> /\ waiting = FALSE /\ requests = <<>>
      /\ events = <<>> /\ fsEvents = <<>> /\ gitEvents = <<>> /\ jobs = <<>> /\ known = roots
      /\ recorded = Range(Declared) /\ seen = Range(Declared) /\ raced = {} /\ changes = 0 /\ faults = 0
      /\ import = [p \in Range(Declared) |-> "none"] /\ handler = [s \in Slots |-> Off]
  BY RangeIn, ImportAssumption DEF Init
<1>3. \A S : <<>> \in Seq(S)
  OBVIOUS
<1>4. 0 \in 0..MaxDisk /\ 0 \in 0..MaxFaults
  BY ImportAssumption
<1>5. import \in [Range(Declared) -> Imports_] /\ handler \in [Slots -> {Off} \cup Handler]
  BY <1>2 DEF Imports_
<1>6. Shape
  BY <1>1, <1>2, <1>3, <1>4, <1>5 DEF Shape, Runs
<1>7. Asked /\ Progress
  BY <1>2 DEF Asked, Progress
<1> QED BY <1>6, <1>7 DEF ProjectsInv

LEMMA ProjectsHold == Spec => []ProjectsInv
BY InitProjects, NextProjects, PTL DEF Spec

\* Every reachable state of imports, folders, watchers and chains has its type.
THEOREM ProjectsTypeCorrect == Spec => []TypeOK
<1>1. ProjectsInv => TypeOK
  <2> SUFFICES ASSUME Shape PROVE TypeOK
    BY DEF ProjectsInv
  <2>1. \A i \in DOMAIN chain : chain[i].kind \in {"add", "remove"} /\ chain[i].path \in Projects
    <3>1. chain \in Seq(Operation)
      BY DEF Shape
    <3>2. \A i \in DOMAIN chain : chain[i] \in Operation
      BY <3>1
    <3> QED BY <3>2 DEF Operation
  <2>2. \A s \in Slots : handler[s].phase \in {"off", "exists", "directory", "adding",
                                              "removing", "branch", "remote", "updating"}
    BY DEF Shape, Handler, Off, Asking
  <2>3. roots \in Seq(Projects) /\ known \in Seq(Projects) /\ fsEvents \in Seq(Projects)
    BY DEF Shape, Folders
  <2>4. Range(roots) \cup Range(known) \cup Range(fsEvents) \subseteq Projects
    BY <2>3, RangeIn
  <2> QED BY <2>1, <2>2, <2>4 DEF Shape, TypeOK, Runs, Imports_
<1> QED BY <1>1, ProjectsHold, PTL
------------------------------------------------------------------------------
(* A queue's last word on a path. *)

Silent(q, p) == \A i \in 1..Len(q) : q[i].path # p

LastIs(q, p, kind) ==
  \E i \in 1..Len(q) : /\ q[i].path = p /\ q[i].kind = kind
                       /\ \A j \in 1..Len(q) : j > i => q[j].path # p

LEMMA WordsOfAppend ==
  ASSUME NEW S, NEW q \in Seq(S), NEW x \in S
  PROVE  \A p :
           /\ Silent(Append(q, x), p) <=> x.path # p /\ Silent(q, p)
           /\ \A kind : LastIs(Append(q, x), p, kind) <=>
                          IF x.path = p THEN x.kind = kind ELSE LastIs(q, p, kind)
<1> DEFINE a == Append(q, x)
           n == Len(q)
<1>1. /\ Len(a) = n + 1 /\ n \in Nat
      /\ \A i \in 1..n + 1 : a[i] = IF i = n + 1 THEN x ELSE q[i]
  BY AppendAt
<1> HIDE DEF a, n
<1>2. /\ a[n + 1] = x /\ n + 1 \in 1..Len(a)
      /\ \A i \in 1..n : i \in 1..Len(a) /\ a[i] = q[i] /\ n + 1 > i
      /\ \A i \in 1..Len(a) : i \in 1..n \/ i = n + 1
      /\ \A i \in 1..Len(a) : ~(i > n + 1)
  BY <1>1
<1> SUFFICES ASSUME NEW p
             PROVE  /\ Silent(a, p) <=> x.path # p /\ Silent(q, p)
                    /\ \A kind : LastIs(a, p, kind) <=>
                                   IF x.path = p THEN x.kind = kind ELSE LastIs(q, p, kind)
  BY DEF a
<1>3. Silent(a, p) <=> x.path # p /\ Silent(q, p)
  BY <1>2 DEF Silent, n
<1>4. ASSUME NEW kind
      PROVE  LastIs(a, p, kind) <=> IF x.path = p THEN x.kind = kind ELSE LastIs(q, p, kind)
  <2>1. CASE x.path = p
    BY <1>2, <2>1 DEF LastIs
  <2>2. CASE x.path # p
    <3>1. LastIs(a, p, kind) => LastIs(q, p, kind)
      <4> SUFFICES ASSUME LastIs(a, p, kind) PROVE LastIs(q, p, kind)
        OBVIOUS
      <4>1. PICK i \in 1..Len(a) : /\ a[i].path = p /\ a[i].kind = kind
                                   /\ \A j \in 1..Len(a) : j > i => a[j].path # p
        BY DEF LastIs
      <4>2. i \in 1..n
        BY <1>2, <2>2, <4>1
      <4>3. q[i].path = p /\ q[i].kind = kind /\ \A j \in 1..n : j > i => q[j].path # p
        BY <1>2, <4>1, <4>2
      <4> QED BY <4>2, <4>3 DEF LastIs, n
    <3>2. LastIs(q, p, kind) => LastIs(a, p, kind)
      <4> SUFFICES ASSUME LastIs(q, p, kind) PROVE LastIs(a, p, kind)
        OBVIOUS
      <4>1. PICK i \in 1..n : /\ q[i].path = p /\ q[i].kind = kind
                              /\ \A j \in 1..n : j > i => q[j].path # p
        BY DEF LastIs, n
      <4>2. a[i].path = p /\ a[i].kind = kind /\ \A j \in 1..Len(a) : j > i => a[j].path # p
        BY <1>2, <2>2, <4>1
      <4> QED BY <1>2, <4>1, <4>2 DEF LastIs
    <3> QED BY <2>2, <3>1, <3>2
  <2> QED BY <2>1, <2>2
<1> QED BY <1>3, <1>4

LEMMA WordsOfTail ==
  ASSUME NEW S, NEW q \in Seq(S), q # <<>>
  PROVE  \A p :
           /\ Silent(q, p) <=> Head(q).path # p /\ Silent(Tail(q), p)
           /\ \A kind : LastIs(q, p, kind) <=>
                \/ LastIs(Tail(q), p, kind)
                \/ Silent(Tail(q), p) /\ Head(q).path = p /\ Head(q).kind = kind
<1> DEFINE t == Tail(q)
           h == Head(q)
           n == Len(q)
<1>1. /\ Len(t) = n - 1 /\ n \in Nat \ {0} /\ h = q[1]
      /\ \A i \in 1..n - 1 : t[i] = q[i + 1]
  BY TailAt
<1> HIDE DEF t, h, n
<1>2. /\ 1 \in 1..n
      /\ \A i \in 1..Len(t) : i + 1 \in 1..n /\ t[i] = q[i + 1] /\ i + 1 > 1
      /\ \A i \in 1..n : i # 1 => i - 1 \in 1..Len(t) /\ t[i - 1] = q[i]
      /\ \A i \in 1..n : i # 1 => i > 1
      /\ \A i \in 1..Len(t), j \in 1..n : j > i + 1 => j - 1 \in 1..Len(t) /\ j - 1 > i /\ t[j - 1] = q[j]
      /\ \A i, j \in 1..Len(t) : j > i => j + 1 > i + 1
      /\ \A i \in 1..n, j \in 1..Len(t) : i # 1 /\ j > i - 1 => j + 1 > i
  BY <1>1
<1> SUFFICES ASSUME NEW p
             PROVE  /\ Silent(q, p) <=> h.path # p /\ Silent(t, p)
                    /\ \A kind : LastIs(q, p, kind) <=>
                         \/ LastIs(t, p, kind)
                         \/ Silent(t, p) /\ h.path = p /\ h.kind = kind
  BY DEF t, h
<1>3. Silent(q, p) <=> h.path # p /\ Silent(t, p)
  <2>1. Silent(q, p) => h.path # p /\ Silent(t, p)
    BY <1>1, <1>2 DEF Silent, n
  <2>2. h.path # p /\ Silent(t, p) => Silent(q, p)
    <3> SUFFICES ASSUME h.path # p, Silent(t, p), NEW i \in 1..n PROVE q[i].path # p
      BY DEF Silent, n
    <3> QED BY <1>1, <1>2 DEF Silent
  <2> QED BY <2>1, <2>2
<1>4. ASSUME NEW kind
      PROVE  LastIs(q, p, kind) <=> \/ LastIs(t, p, kind)
                                    \/ Silent(t, p) /\ h.path = p /\ h.kind = kind
  <2>1. ASSUME LastIs(q, p, kind)
        PROVE  LastIs(t, p, kind) \/ (Silent(t, p) /\ h.path = p /\ h.kind = kind)
    <3>1. PICK i \in 1..n : /\ q[i].path = p /\ q[i].kind = kind
                            /\ \A j \in 1..n : j > i => q[j].path # p
      BY <2>1 DEF LastIs, n
    <3>2. CASE i = 1
      BY <1>1, <1>2, <3>1, <3>2 DEF Silent
    <3>3. CASE i # 1
      <4>1. /\ i - 1 \in 1..Len(t) /\ t[i - 1].path = p /\ t[i - 1].kind = kind
            /\ \A j \in 1..Len(t) : j > i - 1 => t[j].path # p
        BY <1>2, <3>1, <3>3
      <4> QED BY <4>1 DEF LastIs
    <3> QED BY <3>2, <3>3
  <2>2. ASSUME LastIs(t, p, kind) PROVE LastIs(q, p, kind)
    <3>1. PICK i \in 1..Len(t) : /\ t[i].path = p /\ t[i].kind = kind
                                 /\ \A j \in 1..Len(t) : j > i => t[j].path # p
      BY <2>2 DEF LastIs
    <3>2. /\ i + 1 \in 1..n /\ q[i + 1].path = p /\ q[i + 1].kind = kind
          /\ \A j \in 1..n : j > i + 1 => q[j].path # p
      BY <1>2, <3>1
    <3> QED BY <3>2 DEF LastIs, n
  <2>3. ASSUME Silent(t, p), h.path = p, h.kind = kind PROVE LastIs(q, p, kind)
    <3>1. \A j \in 1..n : j > 1 => q[j].path # p
      BY <1>1, <1>2, <2>3 DEF Silent
    <3> QED BY <1>1, <1>2, <2>3, <3>1 DEF LastIs, n
  <2> QED BY <2>1, <2>2, <2>3
<1> QED BY <1>3, <1>4

LEMMA LastWord ==
  ASSUME NEW q, NEW p, NEW kind, LastIs(q, p, kind)
  PROVE  ~Silent(q, p)
BY DEF LastIs, Silent

------------------------------------------------------------------------------
(* Without a fault the editor is asked for, and tells of, what the chain     *)
(* waits for.                                                                *)

Idle == ~waiting /\ requests = <<>> /\ events = <<>> /\ known = roots

Requesting ==
  /\ waiting /\ requests = <<Request(Head(chain))>> /\ events = <<>> /\ known = roots
  /\ ~Needless(Head(chain))

Telling ==
  /\ waiting /\ requests = <<>> /\ Len(events) = 1 /\ events[1].roots = roots
  /\ Head(chain).path \in events[1][Head(chain).kind]
  /\ IsFolder(roots, Head(chain).path) <=> Head(chain).kind = "add"

InStep == faults = 0 => Idle \/ Requesting \/ Telling

\* The operation at the head has come to its end: the folders are as it wants.
Done ==
  /\ chain # <<>> /\ Settle(TRUE) /\ UNCHANGED <<roots, faults>>
  /\ IsFolder(roots, Head(chain).path) <=> Head(chain).kind = "add"

\* The editor changes the folder the operation at the head is about.
Acts ==
  /\ chain # <<>> /\ UNCHANGED <<disk, starting, updater, watching, service, changes, seen, raced, faults>>
  /\ \A p : p # Head(chain).path => (IsFolder(roots', p) <=> IsFolder(roots, p))

LEMMA OnlyElement ==
  ASSUME NEW S, NEW s \in Seq(S), Len(s) = 1
  PROVE  Head(s) = s[1] /\ Tail(s) = <<>> /\ s # <<>>
<1>1. s # <<>>
  BY EmptySeq
<1>2. Tail(s) \in Seq(S) /\ Len(Tail(s)) = 0
  BY <1>1, TailAt
<1>3. Tail(s) = <<>>
  BY <1>2, EmptySeq
<1> QED BY <1>1, <1>3

LEMMA NoFault ==
  ASSUME Shape, faults' = 0
  PROVE  /\ ~Timeout /\ ~Fault /\ ~RefuseOperation
         /\ \A p : ~UserRemovesFolder(p) /\ ~LoginFails(p)
<1>1. faults \in Nat /\ 0 < MaxFaults
  BY ImportAssumption DEF Shape
<1>2. ~Fault
  BY <1>1 DEF Fault
<1>3. ~Timeout
  <2> SUFFICES ASSUME Timeout PROVE FALSE
    OBVIOUS
  <2>1. faults' = IF faults < MaxFaults THEN faults + 1 ELSE faults
    BY DEF Timeout
  <2> QED BY <1>1, <2>1
<1> QED BY <1>2, <1>3 DEF RefuseOperation, UserRemovesFolder, LoginFails

LEMMA Started ==
  ASSUME ProjectsInv, Idle, StartOperation
  PROVE  Requesting'
<1>1. /\ chain # <<>> /\ ~Needless(Head(chain)) /\ waiting' = TRUE
      /\ requests' = Append(requests, Request(Head(chain)))
      /\ UNCHANGED <<chain, known, roots, events>>
  BY DEF StartOperation
<1>2. requests' = <<Request(Head(chain))>>
  BY <1>1 DEF Idle
<1>3. Request(Head(chain))' = Request(Head(chain)) /\ (Needless(Head(chain))' <=> Needless(Head(chain)))
  BY <1>1 DEF Request, Needless
<1> QED BY <1>1, <1>2, <1>3 DEF Idle, Requesting

LEMMA Told ==
  ASSUME ProjectsInv, Requesting, EditorActs, faults' = faults
  PROVE  Telling' /\ Acts
<1> DEFINE op == Head(chain)
           request == Request(op)
           e == [roots |-> roots', add |-> Range(roots') \ Range(roots),
                 remove |-> Range(roots) \ Range(roots')]
<1>1. Shape
  BY DEF ProjectsInv
<1>2. /\ chain # <<>> /\ op \in Operation /\ ~Needless(op) /\ known = roots
      /\ roots \in Folders /\ requests = <<request>> /\ events = <<>> /\ waiting
  BY <1>1, TailAt DEF Requesting, Shape
<1>3. /\ op.kind \in {"add", "remove"} /\ op.path \in Projects
      /\ ~(IsFolder(roots, op.path) <=> op.kind = "add")
  BY <1>2, NeedlessMeans DEF Operation
<1>4. /\ request \in Asks /\ request.kind = op.kind /\ request.path = op.path
      /\ op.kind = "add" => request.index = Len(roots) + 1
      /\ op.kind # "add" => /\ request.index \in 1..Len(roots)
                            /\ roots[request.index] = op.path
  BY <1>1, <1>2, Requested
<1>5. Head(requests) = request /\ Tail(requests) = <<>>
  BY <1>2
<1>6. DOMAIN roots = 1..Len(roots) /\ Len(roots) \in Nat /\ roots \in Seq(Projects)
  BY <1>2 DEF Folders
<1> HIDE DEF op, request
<1>7. /\ events' = Report(roots, roots') /\ requests' = Tail(requests)
      /\ UNCHANGED <<disk, starting, updater, known, watching, service, bounds, seen, raced>>
      /\ \E at : /\ request.kind = "add" /\ ~IsFolder(roots, request.path) =>
                      /\ roots' = InsertAt(roots, at, request.path)
                      /\ at = IF request.index > Len(roots) THEN Len(roots) + 1 ELSE request.index
                 /\ request.kind = "remove" /\ request.index <= Len(roots) =>
                      roots' = RemoveAt(roots, request.index)
  <2>1. CASE request.kind = "add"
    BY <1>5, <2>1 DEF EditorActs, history
  <2>2. CASE request.kind # "add"
    BY <1>5, <2>2 DEF EditorActs, history
  <2> QED BY <2>1, <2>2
<1>8. /\ roots' \in Folders /\ (IsFolder(roots', op.path) <=> op.kind = "add")
      /\ \A p : p # op.path => (IsFolder(roots', p) <=> IsFolder(roots, p))
  <2>1. CASE op.kind = "add"
    <3>1. ~IsFolder(roots, op.path)
      BY <1>3, <2>1
    <3>2. Len(roots) + 1 > Len(roots) /\ Len(roots) + 1 \in 1..Len(roots) + 1
      BY <1>6
    <3>3. roots' = InsertAt(roots, Len(roots) + 1, op.path)
      BY <1>4, <1>7, <2>1, <3>1, <3>2
    <3> QED BY <1>2, <1>3, <2>1, <3>1, <3>2, <3>3, Inserted
  <2>2. CASE op.kind # "add"
    <3>1. request.kind = "remove" /\ request.index <= Len(roots)
      BY <1>3, <1>4, <1>6, <2>2
    <3>2. roots' = RemoveAt(roots, request.index)
      BY <1>7, <3>1
    <3> QED BY <1>2, <1>4, <2>2, <3>2, Removed
  <2> QED BY <2>1, <2>2
<1>9. /\ op.kind = "add" => op.path \in Range(roots') \ Range(roots)
      /\ op.kind # "add" => op.path \in Range(roots) \ Range(roots')
  <2>1. DOMAIN roots' = 1..Len(roots') /\ roots' \in Seq(Projects)
    BY <1>8 DEF Folders
  <2>2. /\ IsFolder(roots, op.path) <=> op.path \in Range(roots)
        /\ IsFolder(roots', op.path) <=> op.path \in Range(roots')
    BY DEF IsFolder, Range
  <2> QED BY <1>3, <1>8, <2>2
<1>10. events' = <<e>>
  <2>1. roots # roots'
    BY <1>9
  <2>2. Report(roots, roots') = Append(events, e)
    BY <2>1 DEF Report
  <2> HIDE DEF e
  <2> QED BY <1>2, <1>7, <2>2
<1>11. /\ Len(events') = 1 /\ events'[1].roots = roots'
       /\ op.path \in events'[1][op.kind]
  BY <1>3, <1>9, <1>10
<1>12. chain' = chain /\ waiting' = waiting /\ requests' = <<>>
  BY <1>5, <1>7 DEF updater
<1>13. Telling'
  BY <1>2, <1>8, <1>11, <1>12 DEF Telling, op
<1>14. Acts
  BY <1>2, <1>7, <1>8 DEF Acts, op, bounds
<1> QED BY <1>13, <1>14

LEMMA Finished ==
  ASSUME ProjectsInv, faults' = 0, InStep, SkipOperation \/ EventArrives
  PROVE  Idle' /\ Done
<1>1. Shape
  BY DEF ProjectsInv
<1>2. CASE SkipOperation
  <2>1. /\ chain # <<>> /\ ~waiting /\ Needless(Head(chain)) /\ Settle(TRUE)
        /\ UNCHANGED <<editor, faults>>
    BY <1>2 DEF SkipOperation
  <2>2. faults = 0 /\ Idle
    BY <2>1 DEF InStep, Requesting, Telling
  <2>3. waiting' = FALSE
    BY <2>1 DEF Settle
  <2>4. Idle'
    BY <2>1, <2>2, <2>3 DEF Idle, editor
  <2> QED BY <2>1, <2>2, <2>4, NeedlessMeans DEF Done, Idle, editor
<1>3. CASE EventArrives
  <2>1. events # <<>> /\ known' = Head(events).roots /\ events' = Tail(events)
    BY <1>3 DEF EventArrives
  <2>2. faults' = faults
    BY <1>3 DEF EventArrives, bounds
  <2>3. Telling
    BY <2>1, <2>2 DEF InStep, Idle, Requesting
  <2>4. events \in Seq(Event) /\ Len(events) = 1
    BY <1>1, <2>3 DEF Shape, Telling
  <2>5. Head(events) = events[1] /\ Tail(events) = <<>>
    BY <2>4, OnlyElement
  <2>6. Settle(TRUE) /\ UNCHANGED <<roots, requests>>
    BY <1>3, <2>3, <2>5 DEF EventArrives, Telling
  <2>7. waiting' = FALSE
    BY <2>6 DEF Settle
  <2>8. chain # <<>>
    BY <1>1, <2>3 DEF Shape, Telling
  <2>9. Idle'
    BY <2>1, <2>3, <2>5, <2>6, <2>7 DEF Idle, Telling
  <2> QED BY <2>2, <2>3, <2>6, <2>8, <2>9 DEF Done, Telling
<1> QED BY <1>2, <1>3

\* Whoever asks the chain for more leaves its head alone.
LEMMA InStepStays ==
  ASSUME ProjectsInv, InStep, faults' = 0 => faults = 0, UNCHANGED <<waiting, editor>>,
         chain' = chain \/ \E op : chain' = Append(chain, op)
  PROVE  InStep'
<1> SUFFICES ASSUME faults' = 0 PROVE (Idle \/ Requesting \/ Telling)'
  BY DEF InStep
<1>1. Idle \/ Requesting \/ Telling
  BY DEF InStep
<1>2. UNCHANGED <<known, roots, requests, events, waiting>>
  BY DEF editor
<1>3. waiting => Head(chain') = Head(chain)
  <2>1. chain \in Seq(Operation) /\ (waiting => chain # <<>>)
    BY DEF ProjectsInv, Shape
  <2>2. ASSUME waiting, NEW op, chain' = Append(chain, op)
        PROVE  Head(chain') = Head(chain)
    <3> DEFINE S == Operation \cup {op}
    <3>1. chain \in Seq(S) /\ op \in S /\ chain # <<>>
      BY <2>1, <2>2, SeqMonotonic
    <3> HIDE DEF S
    <3>2. Append(chain, op)[1] = chain[1] /\ Append(chain, op) # <<>>
      BY <3>1, AppendAt, EmptySeq
    <3>3. Append(chain, op) \in Seq(S)
      BY <3>1, AppendAt
    <3>4. Head(Append(chain, op)) = Append(chain, op)[1] /\ Head(chain) = chain[1]
      BY <3>1, <3>2, <3>3, TailAt
    <3> QED BY <2>2, <3>2, <3>4
  <2> QED BY <2>2
<1>4. CASE Idle
  BY <1>2, <1>4 DEF Idle
<1>5. CASE Requesting
  <2>1. Head(chain') = Head(chain)
    BY <1>3, <1>5 DEF Requesting
  <2>2. \A op : Request(op)' = Request(op) /\ (Needless(op)' <=> Needless(op))
    BY <1>2 DEF Request, Needless
  <2> QED BY <1>2, <1>5, <2>1, <2>2 DEF Requesting
<1>6. CASE Telling
  <2>1. Head(chain') = Head(chain)
    BY <1>3, <1>6 DEF Telling
  <2> QED BY <1>2, <1>6, <2>1 DEF Telling
<1> QED BY <1>1, <1>4, <1>5, <1>6

LEMMA Faultless ==
  ASSUME ProjectsInv, [Next]_vars, faults' = 0
  PROVE  faults = 0
<1>1. faults \in Nat
  BY ImportAssumption DEF ProjectsInv, Shape
<1>2. \/ faults' = faults \/ faults' = faults + 1
  <2>1. CASE UNCHANGED vars
    BY <2>1 DEF vars, bounds
  <2>2. CASE Importing
    BY <2>2 DEF Importing, BuildCloneCommands, ImportRejected, Imported, LoginSucceeds, LoginFails,
                Retry, Dismiss, TryAgain, Skip, ImportSucceeds, ImportFails, SetImport, AddExisting,
                WatchGit, WatchRoot, bounds, Fault
  <2>3. CASE Updating
    BY <2>3 DEF Updating, SkipOperation, StartOperation, RefuseOperation, Timeout, bounds, Fault
  <2>4. CASE EventArrives \/ EditorActs \/ Handling \/ UpdateDevfile
    BY <2>4 DEF EventArrives, EditorActs, Handling, FsEvent, Exists, IsDirectory, GitEvent,
                UpstreamBranch, RemoteURL, UpdateProject, HandlerGoes, UpdateDevfile, bounds, Fault
  <2>5. CASE \E p \in Projects : UserRemovesFolder(p) \/ CreateDirectory(p) \/ DeleteDirectory(p)
    BY <2>5 DEF UserRemovesFolder, CreateDirectory, DeleteDirectory, Fault
  <2> QED BY <2>1, <2>2, <2>3, <2>4, <2>5 DEF Next
<1> QED BY <1>1, <1>2

LEMMA NextInStep ==
  ASSUME ProjectsInv, InStep, [Next]_vars
  PROVE  InStep'
<1>1. Shape
  BY DEF ProjectsInv
<1> SUFFICES ASSUME faults' = 0 PROVE InStep'
  BY DEF InStep
<1>2. faults = 0 /\ (Idle \/ Requesting \/ Telling)
  BY Faultless DEF InStep
<1>3. CASE UNCHANGED vars
  BY <1>2, <1>3, InStepStays DEF vars, updater
<1>4. CASE Importing
  <2>1. UNCHANGED <<waiting, editor>> /\ (chain' = chain \/ \E op : chain' = Append(chain, op))
    BY <1>4 DEF Importing, BuildCloneCommands, ImportRejected, Imported, LoginSucceeds, LoginFails,
                Retry, Dismiss, TryAgain, Skip, ImportSucceeds, ImportFails, SetImport, AddExisting,
                WatchGit, WatchRoot, updater
  <2> QED BY <1>2, <2>1, InStepStays
<1>5. CASE Handling \/ UpdateDevfile
  <2>1. UNCHANGED <<waiting, editor>> /\ (chain' = chain \/ \E op : chain' = Append(chain, op))
    BY <1>5 DEF Handling, FsEvent, Exists, IsDirectory, GitEvent, UpstreamBranch, RemoteURL,
                UpdateProject, HandlerGoes, UpdateDevfile, updater
  <2> QED BY <1>2, <2>1, InStepStays
<1>6. CASE \E p \in Projects : CreateDirectory(p) \/ DeleteDirectory(p)
  <2>1. UNCHANGED <<waiting, editor>> /\ chain' = chain
    BY <1>6 DEF CreateDirectory, DeleteDirectory, updater
  <2> QED BY <1>2, <2>1, InStepStays
<1>7. CASE SkipOperation \/ EventArrives
  BY <1>7, Finished DEF InStep
<1>8. CASE StartOperation
  <2>1. Idle
    BY <1>2, <1>8 DEF StartOperation, Requesting, Telling
  <2> QED BY <1>8, <2>1, Started DEF InStep
<1>9. CASE EditorActs
  <2>1. Requesting
    BY <1>2, <1>9 DEF EditorActs, Idle, Telling
  <2> QED BY <1>2, <1>9, <2>1, Told DEF InStep
<1> QED BY <1>1, <1>3, <1>4, <1>5, <1>6, <1>7, <1>8, <1>9, NoFault DEF Next, Updating

------------------------------------------------------------------------------
(* What the queues will make of folders and devfile, when nothing goes wrong. *)

Has(q, p, kind) == \E i \in 1..Len(q) : q[i].path = p /\ q[i].kind = kind

\* p is a folder once the chain has run; p is in the devfile once its chain has.
Target(p) == LastIs(chain, p, "add") \/ (Silent(chain, p) /\ IsFolder(roots, p))
Records(p) == LastIs(jobs, p, "update") \/ (Silent(jobs, p) /\ p \in recorded)

\* The disk is still to be looked at for p; git is asked about p, or has answered.
Pending(p) ==
  \/ p \in Range(fsEvents)
  \/ \E s \in Slots : /\ handler[s].path = p
                      /\ handler[s].phase = "exists" \/ (handler[s].phase = "directory" /\ p \in disk)
Branch(p) == \E s \in Slots : handler[s].phase \in Asking /\ handler[s].path = p
Answered(p) == \E s \in Slots : handler[s].phase = "updating" /\ handler[s].path = p

\* Before the root is watched: nothing but the imports and run() touches folders,
\* and nobody the projects' place in the devfile.
Unwatched ==
  /\ fsEvents = <<>> /\ seen \subseteq Range(Declared)
  /\ \A s \in Slots : handler[s].phase \in {"off"} \cup Asking

Missing(p) ==
  /\ ~IsFolder(roots, p) /\ Silent(chain, p)
  /\ p \in Misplaced \/ run = "start" \/ import[p] \notin {"none", "done", "adding"}

Untold(p) == p \in recorded /\ Silent(jobs, p) /\ Silent(gitEvents, p) /\ ~Branch(p)

Present(p) ==
  MultiRoot /\ run \in {"adding", "awaiting", "watchingGit"} => p \in Range(toAdd) \/ Target(p)

BeforeAt(p) == Untold(p) /\ (p \notin disk => Missing(p)) /\ (p \in disk => Present(p))

\* From then on.
Followed(p) == (Target(p) <=> p \in disk) \/ Pending(p)

Added(p) ==
  /\ Silent(gitEvents, p) \/ LastIs(gitEvents, p, "changed")
  /\ p \in Upstream => \/ Pending(p) \/ LastIs(chain, p, "add")
                       \/ LastIs(gitEvents, p, "changed") \/ Branch(p) \/ Records(p)

Erased(p) ==
  p \notin Misplaced \cup raced =>
    ~Answered(p) /\ (~Records(p) \/ Has(gitEvents, p, "deleted"))

AfterAt(p) == Followed(p) /\ (p \in disk => Added(p)) /\ (p \notin disk => Erased(p))

Beforehand == ~RootWatched /\ Unwatched /\ \A p \in seen : BeforeAt(p)

Following == RootWatched /\ \A p \in seen : AfterAt(p)

FollowInv == faults = 0 => Beforehand \/ Following

------------------------------------------------------------------------------
(* What steps do to that. *)

LEMMA HasOfTail ==
  ASSUME NEW S, NEW q \in Seq(S), q # <<>>, NEW p, NEW kind, Has(q, p, kind)
  PROVE  Has(Tail(q), p, kind) \/ (Head(q).path = p /\ Head(q).kind = kind)
<1> DEFINE t == Tail(q)
           h == Head(q)
<1>1. PICK i \in 1..Len(q) : q[i].path = p /\ q[i].kind = kind
  BY DEF Has
<1>2. h = q[1] /\ Len(q) \in Nat /\ Len(t) = Len(q) - 1 /\ \A j \in 1..Len(q) - 1 : t[j] = q[j + 1]
  BY TailAt
<1> HIDE DEF t, h
<1>3. CASE i = 1
  BY <1>1, <1>2, <1>3 DEF h
<1>4. CASE i # 1
  <2>1. i - 1 \in 1..Len(t) /\ t[i - 1] = q[i]
    BY <1>1, <1>2, <1>4
  <2>2. Has(t, p, kind)
    BY <1>1, <2>1 DEF Has
  <2> QED BY <2>2 DEF t
<1> QED BY <1>3, <1>4

LEMMA HasOfAppend ==
  ASSUME NEW S, NEW q \in Seq(S), NEW x \in S
  PROVE  /\ Has(Append(q, x), x.path, x.kind)
         /\ \A p, kind : Has(q, p, kind) => Has(Append(q, x), p, kind)
<1> DEFINE a == Append(q, x)
<1>1. Len(q) \in Nat /\ Len(a) = Len(q) + 1
      /\ \A i \in 1..Len(q) + 1 : a[i] = IF i = Len(q) + 1 THEN x ELSE q[i]
  BY AppendAt
<1> HIDE DEF a
<1>2. /\ Len(q) + 1 \in 1..Len(a) /\ a[Len(q) + 1] = x
      /\ \A i \in 1..Len(q) : i \in 1..Len(a) /\ a[i] = q[i]
  BY <1>1
<1>3. Has(a, x.path, x.kind)
  BY <1>2 DEF Has
<1>4. \A p, kind : Has(q, p, kind) => Has(a, p, kind)
  BY <1>2 DEF Has
<1> QED BY <1>3, <1>4 DEF a

LEMMA RangeOfTail ==
  ASSUME NEW S, NEW q \in Seq(S), q # <<>>
  PROVE  Range(q) = Range(Tail(q)) \cup {Head(q)}
<1> DEFINE t == Tail(q)
           h == Head(q)
<1>1. /\ h = q[1] /\ Len(q) \in Nat \ {0} /\ Len(t) = Len(q) - 1 /\ t \in Seq(S)
      /\ \A j \in 1..Len(q) - 1 : t[j] = q[j + 1]
  BY TailAt
<1> HIDE DEF t, h
<1>2. /\ 1 \in 1..Len(q) /\ \A j \in 1..Len(t) : j + 1 \in 1..Len(q) /\ t[j] = q[j + 1]
      /\ \A j \in 1..Len(q) : j # 1 => j - 1 \in 1..Len(t) /\ t[j - 1] = q[j]
  BY <1>1
<1>3. \A e : e \in Range(q) <=> \E i \in 1..Len(q) : q[i] = e
  BY InRange
<1>4. \A e : e \in Range(t) <=> \E i \in 1..Len(t) : t[i] = e
  BY <1>1, InRange
<1>5. \A e : e \in Range(q) <=> e \in Range(t) \/ e = h
  BY <1>1, <1>2, <1>3, <1>4
<1> QED BY <1>5 DEF t, h

LEMMA RangeOfAppend ==
  ASSUME NEW S, NEW q \in Seq(S), NEW x \in S
  PROVE  Range(Append(q, x)) = Range(q) \cup {x}
<1> DEFINE a == Append(q, x)
<1>1. /\ Len(q) \in Nat /\ Len(a) = Len(q) + 1 /\ a \in Seq(S)
      /\ \A i \in 1..Len(q) + 1 : a[i] = IF i = Len(q) + 1 THEN x ELSE q[i]
  BY AppendAt
<1> HIDE DEF a
<1>2. /\ Len(q) + 1 \in 1..Len(a) /\ a[Len(q) + 1] = x
      /\ \A i \in 1..Len(q) : i \in 1..Len(a) /\ a[i] = q[i]
      /\ \A i \in 1..Len(a) : i # Len(q) + 1 => i \in 1..Len(q)
  BY <1>1
<1>3. \A e : e \in Range(q) <=> \E i \in 1..Len(q) : q[i] = e
  BY InRange
<1>4. \A e : e \in Range(a) <=> \E i \in 1..Len(a) : a[i] = e
  BY <1>1, InRange
<1>5. \A e : e \in Range(a) <=> e \in Range(q) \/ e = x
  BY <1>2, <1>3, <1>4
<1> QED BY <1>5 DEF a

\* One handler goes on.
LEMMA OneHandler ==
  ASSUME NEW s \in Slots, UNCHANGED <<disk, fsEvents>>,
         \A r \in Slots : r # s => handler'[r] = handler[r]
  PROVE  \A p :
           /\ (handler'[s].path = p => handler'[s].phase \notin {"exists", "directory"})
              => (Pending(p)' => Pending(p))
           /\ (handler[s].path = p => handler[s].phase \notin {"exists", "directory"})
              => (Pending(p) => Pending(p)')
           /\ (handler'[s].path = p => handler'[s].phase \notin Asking)
              => (Branch(p)' => Branch(p))
           /\ (handler[s].path = p => handler[s].phase \notin Asking)
              => (Branch(p) => Branch(p)')
           /\ (handler'[s].path = p => handler'[s].phase # "updating")
              => (Answered(p)' => Answered(p))
<1> TAKE p
<1>1. Range(fsEvents') = Range(fsEvents) /\ disk' = disk
  OBVIOUS
<1>2. ASSUME handler'[s].path = p => handler'[s].phase \notin {"exists", "directory"}, Pending(p)'
      PROVE  Pending(p)
  BY <1>1, <1>2 DEF Pending
<1>3. ASSUME handler[s].path = p => handler[s].phase \notin {"exists", "directory"}, Pending(p)
      PROVE  Pending(p)'
  BY <1>1, <1>3 DEF Pending
<1>4. ASSUME handler'[s].path = p => handler'[s].phase \notin Asking, Branch(p)' PROVE Branch(p)
  BY <1>4 DEF Branch
<1>5. ASSUME handler[s].path = p => handler[s].phase \notin Asking, Branch(p) PROVE Branch(p)'
  BY <1>5 DEF Branch
<1>6. ASSUME handler'[s].path = p => handler'[s].phase # "updating", Answered(p)'
      PROVE  Answered(p)
  BY <1>6 DEF Answered
<1> QED BY <1>2, <1>3, <1>4, <1>5, <1>6

LEMMA SameHandlers ==
  ASSUME UNCHANGED <<disk, fsEvents, handler>>
  PROVE  \A p : /\ Pending(p)' <=> Pending(p)
                /\ Branch(p)' <=> Branch(p)
                /\ Answered(p)' <=> Answered(p)
BY DEF Pending, Branch, Answered

\* An operation ends as it should: the folders to come are the same.
LEMMA DoneKeepsTarget ==
  ASSUME ProjectsInv, Done
  PROVE  LET op == Head(chain)
         IN  \A p : /\ Target(p)' <=> Target(p)
                    /\ Silent(chain, p) => Silent(chain', p)
                    /\ LastIs(chain, p, "add") =>
                         LastIs(chain', p, "add") \/ (op.path = p /\ op.kind = "add")
                    /\ Target(p) /\ op.path = p /\ op.kind # "add" => LastIs(chain', p, "add")
<1> DEFINE op == Head(chain)
<1>1. /\ chain # <<>> /\ chain' = Tail(chain) /\ roots' = roots /\ chain \in Seq(Operation)
      /\ IsFolder(roots, op.path) <=> op.kind = "add"
  BY DEF Done, Settle, ProjectsInv, Shape
<1> HIDE DEF op
<1>2. \A p : /\ Silent(chain, p) <=> op.path # p /\ Silent(chain', p)
             /\ LastIs(chain, p, "add") <=>
                  LastIs(chain', p, "add") \/ (Silent(chain', p) /\ op.path = p /\ op.kind = "add")
  BY <1>1, WordsOfTail DEF op
<1>3. \A p : LastIs(chain', p, "add") => ~Silent(chain', p)
  BY LastWord
<1>4. ASSUME NEW p
      PROVE  /\ Target(p)' <=> Target(p)
             /\ Silent(chain, p) => Silent(chain', p)
             /\ LastIs(chain, p, "add") =>
                  LastIs(chain', p, "add") \/ (op.path = p /\ op.kind = "add")
             /\ Target(p) /\ op.path = p /\ op.kind # "add" => LastIs(chain', p, "add")
  <2>1. Target(p)' <=> LastIs(chain', p, "add") \/ (Silent(chain', p) /\ IsFolder(roots, p))
    BY <1>1 DEF Target
  <2>2. Target(p) <=> LastIs(chain, p, "add") \/ (Silent(chain, p) /\ IsFolder(roots, p))
    BY DEF Target
  <2>3. CASE op.path = p
    BY <1>1, <1>2, <1>3, <2>1, <2>2, <2>3
  <2>4. CASE op.path # p
    BY <1>1, <1>2, <1>3, <2>1, <2>2, <2>4
  <2> QED BY <2>3, <2>4
<1> QED BY <1>4 DEF op

\* The editor changes the folder of the operation at the head: the last word
\* on it is still to come.
LEMMA ActsKeepsTarget ==
  ASSUME ProjectsInv, Acts
  PROVE  \A p : /\ Target(p)' <=> Target(p)
                /\ Silent(chain, p) => (IsFolder(roots', p) <=> IsFolder(roots, p))
<1>1. /\ chain # <<>> /\ chain' = chain /\ chain \in Seq(Operation)
      /\ \A p : p # Head(chain).path => (IsFolder(roots', p) <=> IsFolder(roots, p))
  BY DEF Acts, updater, ProjectsInv, Shape
<1>2. \A p : Silent(chain, p) => p # Head(chain).path
  BY <1>1, WordsOfTail
<1> QED BY <1>1, <1>2 DEF Target

\* One more operation.
LEMMA AppendTarget ==
  ASSUME ProjectsInv, ProjectsInv', NEW op, chain' = Append(chain, op), UNCHANGED roots
  PROVE  /\ op \in Operation
         /\ op.kind = "add" => LastIs(chain', op.path, "add") /\ Target(op.path)'
         /\ op.kind # "add" => ~Target(op.path)'
         /\ \A p : p # op.path => /\ Target(p)' <=> Target(p)
                                  /\ LastIs(chain', p, "add") <=> LastIs(chain, p, "add")
                                  /\ Silent(chain', p) <=> Silent(chain, p)
<1>1. chain \in Seq(Operation) /\ chain' \in Seq(Operation)
  BY DEF ProjectsInv, Shape
<1>2. op \in Operation
  <2> DEFINE S == Operation \cup {op}
  <2>1. chain \in Seq(S) /\ op \in S
    BY <1>1, SeqMonotonic
  <2> HIDE DEF S
  <2>2. /\ Len(chain) \in Nat /\ Len(chain') = Len(chain) + 1 /\ chain'[Len(chain) + 1] = op
    BY <2>1, AppendAt
  <2>3. Len(chain) + 1 \in 1..Len(chain')
    BY <2>2
  <2> QED BY <1>1, <2>2, <2>3, ElementOfSeq
<1>3. \A p : /\ Silent(chain', p) <=> op.path # p /\ Silent(chain, p)
             /\ LastIs(chain', p, "add") <=>
                  IF op.path = p THEN op.kind = "add" ELSE LastIs(chain, p, "add")
  BY <1>1, <1>2, WordsOfAppend
<1> QED BY <1>2, <1>3 DEF Target

LEMMA AppendRecords ==
  ASSUME ProjectsInv, NEW x \in Job, jobs' = Append(jobs, x), UNCHANGED recorded
  PROVE  \A p : /\ Records(p)' <=> IF x.path = p THEN x.kind = "update" ELSE Records(p)
                /\ Silent(jobs', p) <=> x.path # p /\ Silent(jobs, p)
<1>1. jobs \in Seq(Job)
  BY DEF ProjectsInv, Shape
<1>2. \A p : /\ Silent(jobs', p) <=> x.path # p /\ Silent(jobs, p)
             /\ LastIs(jobs', p, "update") <=>
                  IF x.path = p THEN x.kind = "update" ELSE LastIs(jobs, p, "update")
  BY <1>1, WordsOfAppend
<1> QED BY <1>2 DEF Records

\* A change of the devfile that is saved was the next to come.
LEMMA SavedRecords ==
  ASSUME ProjectsInv, UpdateDevfile, ~Fault
  PROVE  \A p : /\ Records(p)' <=> Records(p)
                /\ Silent(jobs, p) => Silent(jobs', p) /\ (p \in recorded' <=> p \in recorded)
<1> DEFINE job == Head(jobs)
<1>1. /\ jobs \in Seq(Job) /\ jobs # <<>> /\ jobs' = Tail(jobs)
      /\ recorded' = IF job.kind = "update" THEN recorded \cup {job.path} ELSE recorded \ {job.path}
  BY DEF ProjectsInv, Shape, UpdateDevfile
<1> HIDE DEF job
<1>2. \A p : /\ Silent(jobs, p) <=> job.path # p /\ Silent(jobs', p)
             /\ LastIs(jobs, p, "update") <=>
                  \/ LastIs(jobs', p, "update")
                  \/ Silent(jobs', p) /\ job.path = p /\ job.kind = "update"
  BY <1>1, WordsOfTail DEF job
<1>3. \A p : LastIs(jobs', p, "update") => ~Silent(jobs', p)
  BY LastWord
<1>4. \A p : p \in recorded' <=> IF job.path = p THEN job.kind = "update" ELSE p \in recorded
  BY <1>1
<1> QED BY <1>2, <1>3, <1>4 DEF Records

LEMMA DoneAnswers ==
  ASSUME ProjectsInv, Done
  PROVE  LET op == Head(chain)
         IN  /\ op \in Operation /\ Answers(op, TRUE) /\ op = chain[1] /\ 1 \in 1..Len(chain)
             /\ UNCHANGED <<disk, toAdd, fsEvents, gitEvents, recorded, seen, raced, roots>>
<1>1. Shape /\ Asked /\ chain # <<>> /\ Settle(TRUE) /\ roots' = roots
  BY DEF ProjectsInv, Done
<1>2. chain \in Seq(Operation)
  BY <1>1 DEF Shape
<1>3. Head(chain) = chain[1] /\ 1 \in 1..Len(chain)
  BY <1>1, <1>2, TailAt
<1> QED BY <1>1, <1>3, Settled

LEMMA DoneTells ==
  ASSUME ProjectsInv, Done
  PROVE  LET op == Head(chain)
         IN  \A p : /\ Pending(p)' <=> Pending(p)
                    /\ Branch(p) => Branch(p)'
                    /\ Answered(p)' => Answered(p)
                    /\ op.path = p /\ op.kind = "add" /\ RootWatched => Branch(p)'
                    /\ Records(p)' => Records(p)
                    /\ Records(p) => Records(p)' \/ (op.path = p /\ op.kind # "add")
<1> DEFINE op == Head(chain)
<1>1. /\ op \in Operation /\ Answers(op, TRUE) /\ op = chain[1] /\ 1 \in 1..Len(chain)
      /\ UNCHANGED <<disk, toAdd, fsEvents, gitEvents, recorded, seen, raced>>
  BY DoneAnswers
<1>2. /\ Shape /\ Asked /\ Progress /\ handler \in [Slots -> {Off} \cup Handler]
  BY DEF ProjectsInv, Shape
<1> HIDE DEF op
<1> SUFFICES ASSUME NEW p
             PROVE  /\ Pending(p)' <=> Pending(p)
                    /\ Branch(p) => Branch(p)'
                    /\ Answered(p)' => Answered(p)
                    /\ op.path = p /\ op.kind = "add" /\ RootWatched => Branch(p)'
                    /\ Records(p)' => Records(p)
                    /\ Records(p) => Records(p)' \/ (op.path = p /\ op.kind # "add")
  BY DEF op
<1>3. CASE UNCHANGED <<handler, jobs>> /\ ~RootWatched
  BY <1>1, <1>3, SameHandlers DEF Records
<1>4. CASE UNCHANGED <<handler, jobs>> /\ \A s \in Slots : op.by # <<"event", s>>
  <2>1. ~RootWatched
    <3>1. op.by = <<"run">> => run = "awaiting"
      BY <1>1, <1>2 DEF Asked
    <3>2. \A q \in Range(Declared) : op.by = <<"import", q>> => import[q] = "adding"
      BY <1>1, <1>2 DEF Asked
    <3>3. op.by \in Askers
      BY <1>1 DEF Operation
    <3>4. run # "watching"
      BY <1>2, <1>4, <3>1, <3>2, <3>3, AskerKinds DEF Progress
    <3> QED BY <3>4 DEF RootWatched
  <2> QED BY <1>3, <1>4, <2>1
<1>5. ASSUME NEW s \in Slots, op.by = <<"event", s>>, handler[s].path = op.path,
             handler[s].phase = IF op.kind = "add" THEN "adding" ELSE "removing",
             handler' = [handler EXCEPT ![s] = IF op.kind = "add"
                                               THEN [phase |-> "branch", path |-> op.path] ELSE Off],
             jobs' = IF op.kind = "remove"
                     THEN Append(jobs, [kind |-> "delete", path |-> op.path]) ELSE jobs
      PROVE  /\ Pending(p)' <=> Pending(p)
             /\ Branch(p) => Branch(p)'
             /\ Answered(p)' => Answered(p)
             /\ op.path = p /\ op.kind = "add" => Branch(p)'
             /\ Records(p)' => Records(p)
             /\ Records(p) => Records(p)' \/ (op.path = p /\ op.kind # "add")
  <2>1. \A r \in Slots : r # s => handler'[r] = handler[r]
    BY <1>2, <1>5
  <2>2. /\ handler'[s] = IF op.kind = "add" THEN [phase |-> "branch", path |-> op.path] ELSE Off
        /\ handler[s].phase \in {"adding", "removing"}
    BY <1>2, <1>5
  <2>3. handler'[s].phase \in {"branch", "off"}
    BY <2>2 DEF Off
  <2>4. op.kind = "add" => handler'[s].phase = "branch" /\ handler'[s].path = op.path
    BY <2>2
  <2>5. /\ Pending(p)' <=> Pending(p)
        /\ Branch(p) => Branch(p)'
        /\ Answered(p)' => Answered(p)
    BY <1>1, <2>1, <2>2, <2>3, OneHandler DEF Asking
  <2>6. op.path = p /\ op.kind = "add" => Branch(p)'
    BY <2>4 DEF Branch, Asking
  <2>7. CASE op.kind = "remove"
    <3> DEFINE job == [kind |-> "delete", path |-> op.path]
    <3>1. job \in Job /\ job.kind # "update" /\ job.path = op.path
      BY <1>1 DEF Job, Operation
    <3>2. jobs' = Append(jobs, job)
      BY <1>5, <2>7
    <3> HIDE DEF job
    <3>3. Records(p)' <=> IF job.path = p THEN job.kind = "update" ELSE Records(p)
      BY <1>1, <3>1, <3>2, AppendRecords
    <3> QED BY <2>5, <2>7, <3>1, <3>3
  <2>8. CASE op.kind # "remove"
    BY <1>1, <1>5, <2>5, <2>6, <2>8 DEF Records
  <2> QED BY <2>7, <2>8
<1>6. CASE op.by = <<"run">> /\ UNCHANGED <<handler, jobs>>
  BY <1>4, <1>6, AskersDiffer
<1>7. ASSUME NEW q \in Range(Declared), op.by = <<"import", q>>, UNCHANGED <<handler, jobs>>
      PROVE  UNCHANGED <<handler, jobs>> /\ \A s \in Slots : op.by # <<"event", s>>
  BY <1>7, AskersDiffer
<1> QED BY <1>1, <1>4, <1>5, <1>6, <1>7 DEF Answers

------------------------------------------------------------------------------
(* Once the root is watched, folders and devfile follow the disk. *)

\* What leaves the queues and the disk alone.
LEMMA AfterSame ==
  ASSUME Following, UNCHANGED <<disk, run, chain, roots, fsEvents, gitEvents, handler, service, seen, raced>>
  PROVE  Following'
BY SameHandlers DEF Following, RootWatched, AfterAt, Followed, Added, Erased, Target, Records, service

LEMMA AfterDone ==
  ASSUME ProjectsInv, Following, Done
  PROVE  Following'
<1> DEFINE op == Head(chain)
<1>1. /\ Answers(op, TRUE) /\ UNCHANGED <<disk, gitEvents, seen, raced>>
  BY DoneAnswers
<1>2. RootWatched'
  BY <1>1 DEF Answers, RootWatched, Following
<1>3. \A p : /\ Target(p)' <=> Target(p)
             /\ LastIs(chain, p, "add") =>
                  LastIs(chain', p, "add") \/ (op.path = p /\ op.kind = "add")
             /\ Target(p) /\ op.path = p /\ op.kind # "add" => LastIs(chain', p, "add")
  BY DoneKeepsTarget
<1>4. \A p : /\ Pending(p)' <=> Pending(p)
             /\ Branch(p) => Branch(p)'
             /\ Answered(p)' => Answered(p)
             /\ op.path = p /\ op.kind = "add" => Branch(p)'
             /\ Records(p)' => Records(p)
             /\ Records(p) => Records(p)' \/ (op.path = p /\ op.kind # "add")
  BY DoneTells DEF Following
<1> HIDE DEF op
<1>5. ASSUME NEW p \in seen PROVE AfterAt(p)'
  <2>1. AfterAt(p)
    BY DEF Following
  <2>2. Followed(p)'
    BY <1>1, <1>3, <1>4, <2>1 DEF AfterAt, Followed
  <2>3. ASSUME p \in disk PROVE Added(p)'
    BY <1>1, <1>3, <1>4, <2>1, <2>3 DEF AfterAt, Followed, Added
  <2>4. ASSUME p \notin disk PROVE Erased(p)'
    BY <1>1, <1>4, <2>1, <2>4 DEF AfterAt, Erased
  <2> QED BY <1>1, <2>2, <2>3, <2>4 DEF AfterAt
<1> QED BY <1>1, <1>2, <1>5 DEF Following

LEMMA AfterActs ==
  ASSUME ProjectsInv, Following, Acts
  PROVE  Following'
<1>1. UNCHANGED <<disk, run, chain, fsEvents, gitEvents, handler, jobs, recorded, seen, raced>>
  BY DEF Acts, starting, updater, watching, service
<1>2. \A p : (Target(p)' <=> Target(p)) /\ (Records(p)' <=> Records(p))
             /\ (Pending(p)' <=> Pending(p)) /\ (Branch(p)' <=> Branch(p))
             /\ (Answered(p)' <=> Answered(p))
  BY <1>1, ActsKeepsTarget, SameHandlers DEF Records
<1> QED BY <1>1, <1>2 DEF Following, RootWatched, AfterAt, Followed, Added, Erased

LEMMA AfterFsEvent ==
  ASSUME ProjectsInv, Following, NEW s \in Slots, FsEvent(s)
  PROVE  Following'
<1>1. /\ fsEvents # <<>> /\ handler[s] = Off /\ fsEvents' = Tail(fsEvents)
      /\ handler' = [handler EXCEPT ![s] = [phase |-> "exists", path |-> Head(fsEvents)]]
      /\ UNCHANGED <<disk, run, chain, roots, gitEvents, jobs, recorded, seen, raced>>
  BY DEF FsEvent, starting, updater, editor, service, history
<1>2. handler \in [Slots -> {Off} \cup Handler] /\ fsEvents \in Seq(Projects)
  BY DEF ProjectsInv, Shape
<1>3. Range(fsEvents) = Range(fsEvents') \cup {Head(fsEvents)}
  BY <1>1, <1>2, RangeOfTail
<1>4. /\ handler'[s].phase = "exists" /\ handler'[s].path = Head(fsEvents)
      /\ handler[s].phase = "off" /\ \A r \in Slots : r # s => handler'[r] = handler[r]
  BY <1>1, <1>2 DEF Off
<1>5. ASSUME NEW p PROVE Pending(p) => Pending(p)'
  BY <1>1, <1>3, <1>4 DEF Pending
<1>6. ASSUME NEW p PROVE (Branch(p) => Branch(p)') /\ (Answered(p)' => Answered(p))
  BY <1>4 DEF Branch, Answered, Asking
<1>7. \A p : (Target(p)' <=> Target(p)) /\ (Records(p)' <=> Records(p))
  BY <1>1 DEF Target, Records
<1>8. ASSUME NEW p \in seen PROVE AfterAt(p)'
  <2>1. AfterAt(p)
    BY DEF Following
  <2> QED BY <1>1, <1>5, <1>6, <1>7, <2>1 DEF AfterAt, Followed, Added, Erased
<1> QED BY <1>1, <1>8 DEF Following, RootWatched

\* A look at the disk ends in an operation that follows it, or in another look.
LEMMA AfterLook ==
  ASSUME ProjectsInv, ProjectsInv', Following, NEW s \in Slots, Exists(s) \/ IsDirectory(s)
  PROVE  Following'
<1> SUFFICES ASSUME NEW p, p = handler[s].path PROVE Following'
  OBVIOUS
<1>1. /\ handler[s].phase \in {"exists", "directory"} /\ handler[s] \in Handler
      /\ UNCHANGED <<disk, run, roots, fsEvents, gitEvents, jobs, recorded, seen, raced>>
      /\ \A r \in Slots : r # s => handler'[r] = handler[r]
  BY LookTypes DEF Exists, IsDirectory, starting, editor, service, history
<1>2. handler \in [Slots -> {Off} \cup Handler]
  BY DEF ProjectsInv, Shape
<1>3. \A ph \in {"directory", "removing", "adding"} :
        /\ [handler[s] EXCEPT !.phase = ph].phase = ph
        /\ [handler[s] EXCEPT !.phase = ph].path = p
  BY <1>1 DEF Handler
<1>4. \/ p \in disk /\ handler'[s].phase = "directory" /\ handler'[s].path = p /\ chain' = chain
      \/ p \notin disk /\ handler'[s] = Off /\ chain' = chain /\ handler[s].phase = "directory"
      \/ /\ p \notin disk /\ handler'[s].phase = "removing"
         /\ chain' = Append(chain, RemoveFolder(p, <<"event", s>>))
      \/ /\ p \in disk /\ handler'[s].phase = "adding"
         /\ chain' = Append(chain, AddFolder(p, <<"event", s>>))
  <2>1. CASE Exists(s)
    BY <1>2, <1>3, <2>1 DEF Exists
  <2>2. CASE IsDirectory(s)
    BY <1>2, <1>3, <2>2 DEF IsDirectory
  <2> QED BY <2>1, <2>2
<1>5. \A q : q # p => (Pending(q) => Pending(q)') /\ (Branch(q) => Branch(q)')
  <2>1. \A q : q # p => ~(handler[s].path = q)
    OBVIOUS
  <2> QED BY <1>1, <2>1, OneHandler DEF Asking
<1>6. \A q : /\ Branch(q) => Branch(q)'
             /\ Answered(q)' => Answered(q)
             /\ Records(q)' <=> Records(q)
  <2>1. handler[s].phase \notin Asking /\ handler'[s].phase # "updating"
    BY <1>1, <1>4 DEF Asking, Off
  <2> QED BY <1>1, <2>1, OneHandler DEF Records
<1>7. ASSUME chain' = chain PROVE \A q : Target(q)' <=> Target(q)
  BY <1>1, <1>7 DEF Target
<1>8. ASSUME NEW q \in seen, q # p PROVE AfterAt(q)'
  <2>1. AfterAt(q)
    BY DEF Following
  <2>2. (Target(q)' <=> Target(q)) /\ (LastIs(chain', q, "add") <=> LastIs(chain, q, "add"))
    <3>1. ASSUME NEW op, op.path = p, chain' = Append(chain, op)
          PROVE  (Target(q)' <=> Target(q)) /\ (LastIs(chain', q, "add") <=> LastIs(chain, q, "add"))
      BY <1>1, <1>8, <3>1, AppendTarget
    <3> QED BY <1>4, <1>7, <3>1 DEF AddFolder, RemoveFolder
  <2> QED BY <1>1, <1>5, <1>6, <1>8, <2>1, <2>2 DEF AfterAt, Followed, Added, Erased
<1>9. ASSUME p \in seen PROVE AfterAt(p)'
  <2>1. AfterAt(p)
    BY <1>9 DEF Following
  <2>2. CASE p \in disk /\ handler'[s].phase = "directory" /\ handler'[s].path = p /\ chain' = chain
    <3>1. Pending(p)'
      BY <1>1, <2>2 DEF Pending
    <3> QED BY <1>1, <1>6, <2>1, <2>2, <3>1 DEF AfterAt, Followed, Added, Erased
  <2>3. CASE p \notin disk /\ handler'[s] = Off /\ chain' = chain /\ handler[s].phase = "directory"
    <3>1. Pending(p) => Pending(p)'
      <4>1. \A r \in Slots : r # s => handler'[r] = handler[r]
        BY <1>1
      <4>2. handler[s].phase # "exists"
        BY <2>3
      <4> QED BY <1>1, <2>3, <4>1, <4>2 DEF Pending
    <3> QED BY <1>1, <1>6, <1>7, <2>1, <2>3, <3>1 DEF AfterAt, Followed, Added, Erased
  <2>4. CASE p \notin disk /\ chain' = Append(chain, RemoveFolder(p, <<"event", s>>))
    <3>1. ~Target(p)'
      <4>1. RemoveFolder(p, <<"event", s>>).path = p /\ RemoveFolder(p, <<"event", s>>).kind # "add"
        BY DEF RemoveFolder
      <4> HIDE DEF RemoveFolder
      <4> QED BY <1>1, <2>4, <4>1, AppendTarget
    <3> QED BY <1>1, <1>6, <2>1, <2>4, <3>1 DEF AfterAt, Followed, Erased
  <2>5. CASE p \in disk /\ chain' = Append(chain, AddFolder(p, <<"event", s>>))
    <3>1. Target(p)' /\ LastIs(chain', p, "add")
      <4>1. AddFolder(p, <<"event", s>>).path = p /\ AddFolder(p, <<"event", s>>).kind = "add"
        BY DEF AddFolder
      <4> HIDE DEF AddFolder
      <4> QED BY <1>1, <2>5, <4>1, AppendTarget
    <3> QED BY <1>1, <1>6, <2>1, <2>5, <3>1 DEF AfterAt, Followed, Added
  <2> QED BY <1>4, <2>2, <2>3, <2>4, <2>5
<1> QED BY <1>1, <1>8, <1>9 DEF Following, RootWatched

LEMMA AfterGitEvent ==
  ASSUME ProjectsInv, Following, NEW s \in Slots, GitEvent(s)
  PROVE  Following'
<1> DEFINE e == Head(gitEvents)
           job == [kind |-> "delete", path |-> e.path]
<1>1. /\ gitEvents # <<>> /\ gitEvents' = Tail(gitEvents) /\ gitEvents \in Seq(GitEvents)
      /\ UNCHANGED <<disk, run, chain, roots, fsEvents, recorded, seen, raced>>
      /\ \/ e.kind = "deleted" /\ jobs' = Append(jobs, job) /\ UNCHANGED handler
         \/ /\ e.kind # "deleted" /\ handler[s] = Off /\ UNCHANGED jobs
            /\ handler' = [handler EXCEPT ![s] = [phase |-> "branch", path |-> e.path]]
  BY DEF ProjectsInv, Shape, GitEvent, starting, updater, editor, history
<1>2. e \in GitEvents /\ handler \in [Slots -> {Off} \cup Handler]
  BY <1>1, TailAt DEF ProjectsInv, Shape
<1>3. job \in Job /\ job.kind # "update" /\ job.path = e.path
  BY <1>2 DEF GitEvents, Job
<1>4. \A p : /\ Silent(gitEvents, p) <=> e.path # p /\ Silent(gitEvents', p)
             /\ LastIs(gitEvents, p, "changed") <=>
                  \/ LastIs(gitEvents', p, "changed")
                  \/ Silent(gitEvents', p) /\ e.path = p /\ e.kind = "changed"
             /\ Has(gitEvents, p, "deleted") =>
                  Has(gitEvents', p, "deleted") \/ (e.path = p /\ e.kind = "deleted")
  BY <1>1, WordsOfTail, HasOfTail
<1> HIDE DEF e, job
<1>5. \A p : (Target(p)' <=> Target(p)) /\ (LastIs(chain', p, "add") <=> LastIs(chain, p, "add"))
  BY <1>1 DEF Target
<1>6. CASE e.kind = "deleted"
  <2>1. jobs' = Append(jobs, job) /\ UNCHANGED handler
    BY <1>1, <1>6
  <2>2. \A p : Records(p)' <=> IF e.path = p THEN FALSE ELSE Records(p)
    BY <1>1, <1>3, <2>1, AppendRecords
  <2>3. \A p : /\ Pending(p)' <=> Pending(p)
               /\ Branch(p)' <=> Branch(p)
               /\ Answered(p)' <=> Answered(p)
    BY <1>1, <2>1, SameHandlers
  <2>4. ASSUME NEW p \in seen PROVE AfterAt(p)'
    <3>1. AfterAt(p)
      BY DEF Following
    <3>2. Followed(p)'
      BY <1>1, <1>5, <2>3, <3>1 DEF AfterAt, Followed
    <3>3. ASSUME p \in disk PROVE Added(p)'
      BY <1>4, <1>5, <1>6, <2>2, <2>3, <3>1, <3>3 DEF AfterAt, Added
    <3>4. ASSUME p \notin disk PROVE Erased(p)'
      BY <1>1, <1>4, <2>2, <2>3, <3>1, <3>4 DEF AfterAt, Erased
    <3> QED BY <1>1, <3>2, <3>3, <3>4 DEF AfterAt
  <2> QED BY <1>1, <2>4 DEF Following, RootWatched
<1>7. CASE e.kind # "deleted"
  <2>1. /\ handler[s] = Off /\ UNCHANGED jobs
        /\ handler' = [handler EXCEPT ![s] = [phase |-> "branch", path |-> e.path]]
    BY <1>1, <1>7
  <2>2. /\ handler[s].phase = "off" /\ handler'[s].phase = "branch" /\ handler'[s].path = e.path
        /\ \A r \in Slots : r # s => handler'[r] = handler[r]
    BY <1>2, <2>1 DEF Off
  <2>3. \A p : /\ Pending(p)' <=> Pending(p)
               /\ Branch(p) => Branch(p)'
               /\ Answered(p)' => Answered(p)
    BY <1>1, <2>2, OneHandler DEF Asking
  <2>4. \A p : e.path = p => Branch(p)'
    BY <2>2 DEF Branch, Asking
  <2>5. \A p : Records(p)' <=> Records(p)
    BY <1>1, <2>1 DEF Records
  <2>6. ASSUME NEW p \in seen PROVE AfterAt(p)'
    <3>1. AfterAt(p)
      BY DEF Following
    <3>2. Followed(p)'
      BY <1>1, <1>5, <2>3, <3>1 DEF AfterAt, Followed
    <3>3. ASSUME p \in disk PROVE Added(p)'
      BY <1>4, <1>5, <2>3, <2>4, <2>5, <3>1, <3>3 DEF AfterAt, Added
    <3>4. ASSUME p \notin disk PROVE Erased(p)'
      BY <1>1, <1>4, <1>7, <2>3, <2>5, <3>1, <3>4 DEF AfterAt, Erased
    <3> QED BY <1>1, <3>2, <3>3, <3>4 DEF AfterAt
  <2> QED BY <1>1, <2>6 DEF Following, RootWatched
<1> QED BY <1>6, <1>7

\* Git answers nothing about a directory that is gone.
LEMMA AfterGit ==
  ASSUME ProjectsInv, Following, NEW s \in Slots, UpstreamBranch(s) \/ RemoteURL(s)
  PROVE  Following'
<1> SUFFICES ASSUME NEW b, b = handler[s].path PROVE Following'
  OBVIOUS
<1>1. /\ handler[s].phase \in Asking
      /\ \/ handler' = [handler EXCEPT ![s] = Off] /\ b \notin disk \cap Upstream
         \/ handler' = [handler EXCEPT ![s] = [phase |-> "remote", path |-> b]]
         \/ handler' = [handler EXCEPT ![s] = [phase |-> "updating", path |-> b]] /\ b \in disk
      /\ UNCHANGED <<disk, run, chain, roots, fsEvents, gitEvents, jobs, recorded, seen, raced>>
  BY DEF UpstreamBranch, RemoteURL, HandlerGoes, starting, updater, editor, service, history, Asking
<1>2. handler \in [Slots -> {Off} \cup Handler]
  BY DEF ProjectsInv, Shape
<1>3. /\ \A r \in Slots : r # s => handler'[r] = handler[r]
      /\ \/ handler'[s].phase = "off" /\ b \notin disk \cap Upstream
         \/ handler'[s].phase = "remote" /\ handler'[s].path = b
         \/ handler'[s].phase = "updating" /\ handler'[s].path = b /\ b \in disk
  BY <1>1, <1>2 DEF Off
<1>4. \A p : /\ Pending(p)' <=> Pending(p)
             /\ p # b => (Branch(p) => Branch(p)')
             /\ p \notin disk => (Answered(p)' => Answered(p))
  BY <1>1, <1>3, OneHandler DEF Asking
<1>5. b \in disk \cap Upstream => Branch(b)'
  BY <1>3 DEF Branch, Asking
<1>6. \A p : (Target(p)' <=> Target(p)) /\ (Records(p)' <=> Records(p))
  BY <1>1 DEF Target, Records
<1>7. ASSUME NEW p \in seen PROVE AfterAt(p)'
  <2>1. AfterAt(p)
    BY DEF Following
  <2>2. p \in disk \cap Upstream => (Branch(p) => Branch(p)')
    BY <1>4, <1>5
  <2> QED BY <1>1, <1>4, <1>6, <2>1, <2>2 DEF AfterAt, Followed, Added, Erased
<1> QED BY <1>1, <1>7 DEF Following, RootWatched

\* An update of a project that went after git's answer is an update of a raced one.
LEMMA AfterUpdate ==
  ASSUME ProjectsInv, Following, NEW s \in Slots, UpdateProject(s)
  PROVE  Following'
<1> DEFINE b == handler[s].path
           job == [kind |-> "update", path |-> b]
<1>1. /\ handler[s].phase = "updating" /\ handler' = [handler EXCEPT ![s] = Off]
      /\ jobs' = Append(jobs, job)
      /\ UNCHANGED <<disk, run, chain, roots, fsEvents, gitEvents, recorded, seen, raced>>
  BY DEF UpdateProject, starting, updater, editor, history
<1>2. handler \in [Slots -> {Off} \cup Handler]
  BY DEF ProjectsInv, Shape
<1>3. handler[s] \in Handler
  BY <1>1, <1>2, HandlerPhase
<1>4. job \in Job /\ job.kind = "update" /\ job.path = b
  BY <1>3 DEF Handler, Job
<1>5. handler'[s].phase = "off" /\ \A r \in Slots : r # s => handler'[r] = handler[r]
  BY <1>1, <1>2 DEF Off
<1>6. \A p : /\ Pending(p)' <=> Pending(p)
             /\ p # b => (Branch(p) => Branch(p)')
             /\ Answered(p)' => Answered(p)
  <2>1. \A p : p # b => ~(handler[s].path = p)
    OBVIOUS
  <2> HIDE DEF b
  <2> QED BY <1>1, <1>5, <2>1, OneHandler DEF Asking
<1>7. Answered(b)
  BY <1>1 DEF Answered
<1> HIDE DEF b, job
<1>8. \A p : Records(p)' <=> IF b = p THEN TRUE ELSE Records(p)
  BY <1>1, <1>4, AppendRecords
<1>9. \A p : Target(p)' <=> Target(p)
  BY <1>1 DEF Target
<1>10. ASSUME NEW p \in seen PROVE AfterAt(p)'
  <2>1. AfterAt(p)
    BY DEF Following
  <2> QED BY <1>1, <1>6, <1>7, <1>8, <1>9, <2>1 DEF AfterAt, Followed, Added, Erased
<1> QED BY <1>1, <1>10 DEF Following, RootWatched

LEMMA AfterDevfile ==
  ASSUME ProjectsInv, Following, UpdateDevfile, ~Fault
  PROVE  Following'
<1>1. UNCHANGED <<disk, run, chain, roots, fsEvents, gitEvents, handler, seen, raced>>
  BY DEF UpdateDevfile, starting, updater, editor, watching, history
<1>2. \A p : (Target(p)' <=> Target(p)) /\ (Records(p)' <=> Records(p))
             /\ (Pending(p)' <=> Pending(p)) /\ (Branch(p)' <=> Branch(p))
             /\ (Answered(p)' <=> Answered(p))
  BY <1>1, SavedRecords, SameHandlers DEF Target
<1> QED BY <1>1, <1>2 DEF Following, RootWatched, AfterAt, Followed, Added, Erased

\* A change of the disk is told to both watchers.
LEMMA AfterDisk ==
  ASSUME ProjectsInv, Following, NEW p \in Projects, CreateDirectory(p) \/ DeleteDirectory(p)
  PROVE  Following'
<1> DEFINE kind == IF p \in disk THEN "deleted" ELSE "changed"
           e == [kind |-> kind, path |-> p]
<1>1. /\ UNCHANGED <<run, chain, roots, handler, jobs, recorded>>
      /\ disk' = IF p \in disk THEN disk \ {p} ELSE disk \cup {p}
      /\ fsEvents' = Append(fsEvents, p) /\ gitEvents' = Append(gitEvents, e)
      /\ seen' = seen \cup {p}
      /\ raced' = IF Answered(p) THEN raced \cup {p} ELSE raced \ {p}
  BY DEF CreateDirectory, DeleteDirectory, Noticed, Following, RootWatched, GitWatched,
         starting, updater, editor, service, Answered
<1>2. e \in GitEvents /\ e.path = p /\ e.kind = kind
  BY DEF GitEvents
<1>3. fsEvents \in Seq(Projects) /\ gitEvents \in Seq(GitEvents)
  BY DEF ProjectsInv, Shape
<1> HIDE DEF e
<1>4. Range(fsEvents') = Range(fsEvents) \cup {p}
  BY <1>1, <1>3, RangeOfAppend
<1>5. \A q : /\ Silent(gitEvents', q) <=> p # q /\ Silent(gitEvents, q)
             /\ LastIs(gitEvents', q, "changed") <=>
                  IF p = q THEN kind = "changed" ELSE LastIs(gitEvents, q, "changed")
  BY <1>1, <1>2, <1>3, WordsOfAppend
<1>6. Has(gitEvents', p, kind) /\ \A q : Has(gitEvents, q, "deleted") => Has(gitEvents', q, "deleted")
  BY <1>1, <1>2, <1>3, HasOfAppend
<1>7. \A q : q # p => (q \in disk' <=> q \in disk)
  BY <1>1
<1>8. Pending(p)'
  BY <1>4 DEF Pending
<1>9. \A q : q # p => (Pending(q) => Pending(q)')
  BY <1>1, <1>4, <1>7 DEF Pending
<1>10. \A q : /\ (Target(q)' <=> Target(q)) /\ (Records(q)' <=> Records(q))
              /\ (Branch(q)' <=> Branch(q)) /\ (Answered(q)' <=> Answered(q))
  BY <1>1 DEF Target, Records, Branch, Answered
<1>11. ASSUME NEW q \in seen, q # p PROVE AfterAt(q)'
  <2>1. AfterAt(q)
    BY DEF Following
  <2> QED BY <1>1, <1>5, <1>6, <1>7, <1>9, <1>10, <1>11, <2>1 DEF AfterAt, Followed, Added, Erased
<1>12. AfterAt(p)'
  BY <1>1, <1>5, <1>6, <1>8, <1>10 DEF AfterAt, Followed, Added, Erased
<1> QED BY <1>1, <1>11, <1>12 DEF Following, RootWatched

------------------------------------------------------------------------------
(* Before the root is watched. *)

LEMMA BeforeSame ==
  ASSUME Beforehand,
         UNCHANGED <<disk, starting, chain, roots, fsEvents, gitEvents, handler, service, seen, raced>>
  PROVE  Beforehand'
BY SameHandlers DEF Beforehand, RootWatched, Unwatched, BeforeAt, Untold, Missing, Present, Target,
                    service, starting, history

\* The imports, while no folder is asked for.
LEMMA BeforeImporting ==
  ASSUME ProjectsInv, Beforehand,
         \/ BuildCloneCommands \/ ImportRejected \/ Imported \/ WatchGit
         \/ \E p \in Range(Declared) :
              \/ LoginSucceeds(p) \/ LoginFails(p) \/ Retry(p) \/ Dismiss(p)
              \/ TryAgain(p) \/ Skip(p) \/ ImportFails(p)
  PROVE  Beforehand'
<1>1. /\ UNCHANGED <<chain, roots, fsEvents, gitEvents, handler, jobs, recorded, seen, raced>>
      /\ ~RootWatched'
  BY DEF BuildCloneCommands, ImportRejected, Imported, WatchGit, LoginSucceeds, LoginFails, Retry,
         Dismiss, TryAgain, Skip, ImportFails, SetImport, updater, editor, watching, service,
         Beforehand, RootWatched, history
<1>2. Unwatched'
  BY <1>1 DEF Unwatched, Beforehand
<1>3. ASSUME NEW p PROVE (Target(p)' <=> Target(p)) /\ (Branch(p)' <=> Branch(p))
  BY <1>1 DEF Target, Branch
<1>4. ASSUME NEW p \in seen PROVE Untold(p)'
  BY <1>1, <1>3 DEF Untold, Beforehand, BeforeAt
<1>5. import \in [Range(Declared) -> Imports_] /\ Progress
  BY DEF ProjectsInv, Shape
<1>6. \A p \in seen : p \in Range(Declared)
  BY DEF Beforehand, Unwatched
<1>7. CASE BuildCloneCommands
  <2>1. /\ disk' = disk /\ run' = "importing"
        /\ import' = [p \in Range(Declared) |->
                        IF p \in disk THEN "none"
                        ELSE IF Import[p].secure THEN "login" ELSE "importing"]
    BY <1>7 DEF BuildCloneCommands
  <2>2. ASSUME NEW p \in seen PROVE BeforeAt(p)'
    <3>1. BeforeAt(p)
      BY DEF Beforehand
    <3>2. p \notin disk => import'[p] \in {"login", "importing"}
      BY <1>6, <2>1
    <3>3. p \notin disk' => Missing(p)'
      BY <1>1, <2>1, <3>1, <3>2 DEF Missing, BeforeAt
    <3> QED BY <1>4, <2>1, <3>3 DEF BeforeAt, Present
  <2> QED BY <1>1, <1>2, <2>2 DEF Beforehand
<1>8. CASE ImportRejected \/ Imported \/ WatchGit
  <2>1. /\ disk' = disk /\ import' = import /\ run # "start"
        /\ \/ run' = "rejected"
           \/ run' = "adding" /\ (MultiRoot => toAdd' = Declared)
           \/ run' \in {"watchingGit", "watching"} /\ run = "adding" /\ toAdd' = toAdd
    BY <1>8 DEF ImportRejected, Imported, WatchGit
  <2>2. ASSUME NEW p \in seen PROVE BeforeAt(p)'
    <3>1. BeforeAt(p)
      BY DEF Beforehand
    <3>2. p \notin disk' => Missing(p)'
      BY <1>1, <2>1, <3>1 DEF Missing, BeforeAt
    <3>3. p \in disk' => Present(p)'
      BY <1>3, <1>6, <2>1, <3>1 DEF Present, BeforeAt
    <3> QED BY <1>4, <3>2, <3>3 DEF BeforeAt
  <2> QED BY <1>1, <1>2, <2>2 DEF Beforehand
<1>9. ASSUME NEW q \in Range(Declared),
             \/ LoginSucceeds(q) \/ LoginFails(q) \/ Retry(q) \/ Dismiss(q)
             \/ TryAgain(q) \/ Skip(q) \/ ImportFails(q)
      PROVE  Beforehand'
  <2>1. /\ import[q] \in {"login", "asking", "skipping", "importing"} /\ UNCHANGED run
        /\ disk' \in {disk, disk \cup {Import[q].target}}
        /\ \E to \in {"login", "asking", "skipping", "importing", "rejected"} :
             import' = [import EXCEPT ![q] = to]
    BY <1>9 DEF LoginSucceeds, LoginFails, Retry, Dismiss, TryAgain, Skip, ImportFails, SetImport
  <2>2. run \notin {"start", "adding", "awaiting", "watchingGit", "watching"}
    BY <1>5, <2>1 DEF Progress
  <2>3. \A p \in Range(Declared) : import[p] \notin {"none", "done", "adding"} =>
                                     import'[p] \notin {"none", "done", "adding"}
    BY <1>5, <2>1
  <2>4. ASSUME NEW p \in seen PROVE BeforeAt(p)'
    <3>1. BeforeAt(p)
      BY DEF Beforehand
    <3>2. p \notin disk' => Missing(p)'
      BY <1>1, <1>6, <2>1, <2>2, <2>3, <3>1 DEF Missing, BeforeAt
    <3> QED BY <1>4, <2>1, <2>2, <3>2 DEF BeforeAt, Present
  <2> QED BY <1>1, <1>2, <2>4 DEF Beforehand
<1> QED BY <1>7, <1>8, <1>9

LEMMA BeforeWatchRoot ==
  ASSUME ProjectsInv, Beforehand, WatchRoot
  PROVE  (Beforehand \/ Following)'
<1>1. /\ run = "watchingGit" /\ run' = "watching"
      /\ UNCHANGED <<disk, toAdd, import, chain, roots, fsEvents, gitEvents, handler, jobs,
                     recorded, seen, raced>>
  BY DEF WatchRoot, updater, editor, watching, service, history
<1>2. toAdd = <<>> /\ \A p \in Range(Declared) : import[p] \in {"none", "done"}
  BY <1>1 DEF ProjectsInv, Progress
<1>3. seen \subseteq Range(Declared)
  BY DEF Beforehand, Unwatched
<1>4. ASSUME NEW p
      PROVE  /\ Target(p)' <=> Target(p)
             /\ Records(p)' <=> Records(p)
             /\ Branch(p)' <=> Branch(p)
  BY <1>1 DEF Target, Records, Branch
<1>5. CASE MultiRoot
  <2>1. ASSUME NEW p \in seen PROVE AfterAt(p)'
    <3>1. BeforeAt(p)
      BY DEF Beforehand
    <3>2. \A e : e \notin Range(toAdd)
      <4>1. toAdd \in Seq(Projects) /\ Len(toAdd) = 0
        BY <1>2, EmptySeq DEF ProjectsInv, Shape
      <4>2. \A e : e \in Range(toAdd) <=> \E i \in 1..Len(toAdd) : toAdd[i] = e
        BY <4>1, InRange
      <4> QED BY <4>1, <4>2
    <3>3. p \in disk => Target(p)
      BY <1>1, <1>5, <3>1, <3>2 DEF BeforeAt, Present
    <3>4. p \notin disk => ~Target(p) /\ p \in Misplaced
      BY <1>1, <1>2, <1>3, <3>1, LastWord DEF BeforeAt, Missing, Target
    <3>5. Records(p) /\ Silent(gitEvents, p)
      BY <3>1 DEF BeforeAt, Untold, Records
    <3> QED BY <1>1, <1>4, <3>3, <3>4, <3>5 DEF AfterAt, Followed, Added, Erased
  <2> QED BY <1>1, <1>5, <2>1 DEF Following, RootWatched
<1>6. CASE ~MultiRoot
  <2>1. ASSUME NEW p \in seen PROVE BeforeAt(p)'
    <3>1. BeforeAt(p)
      BY DEF Beforehand
    <3> QED BY <1>1, <1>4, <1>6, <3>1 DEF BeforeAt, Untold, Missing, Present
  <2> QED BY <1>1, <1>6, <2>1 DEF Beforehand, Unwatched, RootWatched
<1> QED BY <1>5, <1>6

\* An import that made another directory than its project's leaves the project missing.
LEMMA BeforeImportSucceeds ==
  ASSUME ProjectsInv, ProjectsInv', Beforehand, NEW q \in Range(Declared), ImportSucceeds(q)
  PROVE  Beforehand'
<1> DEFINE to == Import[q].target
           op == AddFolder(to, <<"import", q>>)
<1>1. /\ import[q] = "importing" /\ disk' = disk \cup {to}
      /\ \/ MultiRoot /\ chain' = Append(chain, op) /\ import' = [import EXCEPT ![q] = "adding"]
         \/ ~MultiRoot /\ chain' = chain /\ import' = [import EXCEPT ![q] = "done"]
      /\ UNCHANGED <<run, toAdd, roots, fsEvents, gitEvents, handler, jobs, recorded, seen, raced>>
  BY DEF ImportSucceeds, editor, watching, service, history
<1>2. op.path = to
  BY DEF AddFolder
<1> HIDE DEF op
<1>3. import \in [Range(Declared) -> Imports_] /\ Progress
  BY DEF ProjectsInv, Shape
<1>4. run \notin {"start", "adding", "awaiting", "watchingGit", "watching"}
  BY <1>1, <1>3 DEF Progress
<1>5. \A p : p # to => (Silent(chain, p) => Silent(chain', p))
  BY <1>1, <1>2, AppendTarget
<1>6. \A p \in Range(Declared) : p # q => import'[p] = import[p]
  BY <1>1, <1>3
<1>7. ASSUME NEW p \in seen PROVE BeforeAt(p)'
  <2>1. BeforeAt(p) /\ p \in Range(Declared)
    BY DEF Beforehand, Unwatched
  <2>2. Untold(p)'
    BY <1>1, <2>1 DEF BeforeAt, Untold, Branch
  <2>3. ASSUME p \notin disk' PROVE Missing(p)'
    <3>1. p \notin disk /\ p # to
      BY <1>1, <2>3
    <3>2. p = q => p \in Misplaced
      BY <3>1 DEF Misplaced
    <3> QED BY <1>1, <1>4, <1>5, <1>6, <2>1, <3>1, <3>2 DEF BeforeAt, Missing
  <2>4. Present(p)'
    BY <1>1, <1>4 DEF Present
  <2> QED BY <2>2, <2>3, <2>4 DEF BeforeAt
<1> QED BY <1>1, <1>7 DEF Beforehand, Unwatched, RootWatched

LEMMA BeforeAddExisting ==
  ASSUME ProjectsInv, ProjectsInv', Beforehand, AddExisting
  PROVE  Beforehand'
<1> SUFFICES ASSUME NEW h, h = Head(toAdd) PROVE Beforehand'
  OBVIOUS
<1> DEFINE op == AddFolder(h, <<"run">>)
<1>1. /\ run = "adding" /\ toAdd # <<>> /\ toAdd' = Tail(toAdd)
      /\ IF h \in disk THEN chain' = Append(chain, op) /\ run' = "awaiting"
         ELSE UNCHANGED <<chain, run>>
      /\ UNCHANGED <<disk, import, roots, fsEvents, gitEvents, handler, jobs, recorded, seen, raced>>
  BY DEF AddExisting, editor, watching, service, history
<1>2. op.path = h /\ op.kind = "add"
  BY DEF AddFolder
<1> HIDE DEF op
<1>3. Range(toAdd) = Range(toAdd') \cup {h}
  BY <1>1, RangeOfTail DEF ProjectsInv, Shape
<1>4. /\ h \in disk => Target(h)'
      /\ \A p : p # h => (Target(p)' <=> Target(p)) /\ (Silent(chain, p) => Silent(chain', p))
  <2>1. CASE h \in disk
    BY <1>1, <1>2, <2>1, AppendTarget
  <2>2. CASE h \notin disk
    BY <1>1, <2>2 DEF Target
  <2> QED BY <2>1, <2>2
<1>5. ASSUME NEW p \in seen PROVE BeforeAt(p)'
  <2>1. BeforeAt(p)
    BY DEF Beforehand
  <2>2. Untold(p)'
    BY <1>1, <2>1 DEF BeforeAt, Untold, Branch
  <2>3. ASSUME p \notin disk PROVE Missing(p)'
    <3>1. Silent(chain', p)
      BY <1>1, <1>4, <2>1, <2>3 DEF BeforeAt, Missing
    <3> QED BY <1>1, <2>1, <2>3, <3>1 DEF BeforeAt, Missing
  <2>4. ASSUME p \in disk PROVE Present(p)'
    BY <1>1, <1>3, <1>4, <2>1, <2>4 DEF BeforeAt, Present
  <2> QED BY <1>1, <2>2, <2>3, <2>4 DEF BeforeAt
<1> QED BY <1>1, <1>5 DEF Beforehand, Unwatched, RootWatched

LEMMA BeforeDone ==
  ASSUME ProjectsInv, Beforehand, Done
  PROVE  Beforehand'
<1> DEFINE op == Head(chain)
<1>1. /\ Answers(op, TRUE) /\ op = chain[1] /\ 1 \in 1..Len(chain)
      /\ UNCHANGED <<disk, toAdd, fsEvents, gitEvents, recorded, seen, raced, roots>>
  BY DoneAnswers
<1>2. \A p : (Target(p)' <=> Target(p)) /\ (Silent(chain, p) => Silent(chain', p))
  BY DoneKeepsTarget
<1> HIDE DEF op
<1>3. \A s \in Slots : handler[s].phase \notin {"adding", "removing"}
  BY DEF Beforehand, Unwatched, Asking
<1>4. UNCHANGED <<handler, jobs>>
  BY <1>1, <1>3 DEF Answers
<1>5. import \in [Range(Declared) -> Imports_] /\ Progress
  BY DEF ProjectsInv, Shape
<1>6. /\ run' = run \/ (run = "awaiting" /\ run' = "adding")
      /\ \A p \in Range(Declared) :
           \/ import'[p] = import[p]
           \/ import[p] = "adding" /\ run # "start" /\ run' = run
  BY <1>1, <1>3, <1>5 DEF Answers, Progress
<1>7. ASSUME NEW p \in seen PROVE BeforeAt(p)'
  <2>1. BeforeAt(p) /\ p \in Range(Declared)
    BY DEF Beforehand, Unwatched
  <2>2. Untold(p)'
    BY <1>1, <1>4, <2>1 DEF BeforeAt, Untold, Branch
  <2>3. ASSUME p \notin disk PROVE Missing(p)'
    <3>1. ~IsFolder(roots', p) /\ Silent(chain', p)
      BY <1>1, <1>2, <2>1, <2>3 DEF BeforeAt, Missing
    <3>2. run' = "start" <=> run = "start"
      BY <1>6
    <3> QED BY <1>6, <2>1, <2>3, <3>1, <3>2 DEF BeforeAt, Missing
  <2>4. ASSUME p \in disk PROVE Present(p)'
    BY <1>1, <1>2, <1>6, <2>1, <2>4 DEF BeforeAt, Present
  <2> QED BY <1>1, <2>2, <2>3, <2>4 DEF BeforeAt
<1> QED BY <1>1, <1>4, <1>6, <1>7 DEF Beforehand, Unwatched, RootWatched

LEMMA BeforeActs ==
  ASSUME ProjectsInv, Beforehand, Acts
  PROVE  Beforehand'
<1>1. UNCHANGED <<disk, run, toAdd, import, chain, fsEvents, gitEvents, handler, jobs, recorded, seen, raced>>
  BY DEF Acts, starting, updater, watching, service
<1>2. \A p : /\ Target(p)' <=> Target(p)
             /\ Branch(p)' <=> Branch(p)
             /\ Silent(chain, p) => (IsFolder(roots', p) <=> IsFolder(roots, p))
  BY <1>1, ActsKeepsTarget, SameHandlers
<1>3. ASSUME NEW p \in seen PROVE BeforeAt(p)'
  <2>1. BeforeAt(p)
    BY DEF Beforehand
  <2> QED BY <1>1, <1>2, <2>1 DEF BeforeAt, Untold, Missing, Present
<1> QED BY <1>1, <1>3 DEF Beforehand, Unwatched, RootWatched

\* The git watcher is there first; it has nothing to tell of these projects.
LEMMA BeforeHandler ==
  ASSUME ProjectsInv, Beforehand, NEW s \in Slots,
         \/ FsEvent(s) \/ Exists(s) \/ IsDirectory(s) \/ GitEvent(s)
         \/ UpstreamBranch(s) \/ RemoteURL(s) \/ UpdateProject(s)
  PROVE  Beforehand'
<1>1. fsEvents = <<>> /\ \A r \in Slots : handler[r].phase \in {"off"} \cup Asking
  BY DEF Beforehand, Unwatched
<1>2. GitEvent(s) \/ UpstreamBranch(s) \/ RemoteURL(s) \/ UpdateProject(s)
  BY <1>1 DEF FsEvent, Exists, IsDirectory, Asking
<1>3. UNCHANGED <<disk, run, toAdd, import, chain, roots, fsEvents, recorded, seen, raced>>
  BY <1>2 DEF GitEvent, UpstreamBranch, RemoteURL, UpdateProject, HandlerGoes, starting, updater,
              editor, service, history
<1>4. /\ handler \in [Slots -> {Off} \cup Handler] /\ gitEvents \in Seq(GitEvents)
      /\ jobs \in Seq(Job)
  BY DEF ProjectsInv, Shape
<1>5. /\ \A r \in Slots : handler'[r].phase \in {"off"} \cup Asking
      /\ \A p \in seen : Untold(p)'
  <2>1. CASE GitEvent(s)
    <3> SUFFICES ASSUME NEW e, e = Head(gitEvents)
                 PROVE  /\ \A r \in Slots : handler'[r].phase \in {"off"} \cup Asking
                        /\ \A p \in seen : Untold(p)'
      OBVIOUS
    <3> DEFINE job == [kind |-> "delete", path |-> e.path]
    <3>1. /\ gitEvents # <<>> /\ gitEvents' = Tail(gitEvents)
          /\ \/ jobs' = Append(jobs, job) /\ UNCHANGED handler
             \/ /\ UNCHANGED jobs
                /\ handler' = [handler EXCEPT ![s] = [phase |-> "branch", path |-> e.path]]
      BY <2>1 DEF GitEvent
    <3>2. e \in GitEvents /\ \A p : Silent(gitEvents, p) => e.path # p /\ Silent(gitEvents', p)
      BY <1>4, <3>1, TailAt, WordsOfTail
    <3>3. job \in Job /\ job.path = e.path
      BY <3>2 DEF Job, GitEvents
    <3> HIDE DEF job
    <3>4. CASE jobs' = Append(jobs, job) /\ UNCHANGED handler
      <4>1. \A p : Silent(jobs', p) <=> e.path # p /\ Silent(jobs, p)
        BY <1>3, <3>3, <3>4, AppendRecords
      <4> QED BY <1>1, <1>3, <3>2, <3>4, <4>1 DEF Beforehand, BeforeAt, Untold, Branch
    <3>5. CASE /\ UNCHANGED jobs
               /\ handler' = [handler EXCEPT ![s] = [phase |-> "branch", path |-> e.path]]
      <4>1. /\ handler'[s].phase = "branch" /\ handler'[s].path = e.path
            /\ \A r \in Slots : r # s => handler'[r] = handler[r]
        BY <1>4, <3>5
      <4>2. \A p : p # e.path => (Branch(p)' => Branch(p))
        BY <4>1 DEF Branch
      <4>3. \A r \in Slots : handler'[r].phase \in {"off"} \cup Asking
        BY <1>1, <4>1 DEF Asking
      <4> QED BY <1>3, <3>2, <3>5, <4>2, <4>3 DEF Beforehand, BeforeAt, Untold
    <3> QED BY <3>1, <3>4, <3>5
  <2>2. CASE UpstreamBranch(s) \/ RemoteURL(s) \/ UpdateProject(s)
    <3> SUFFICES ASSUME NEW b, b = handler[s].path
                 PROVE  /\ \A r \in Slots : handler'[r].phase \in {"off"} \cup Asking
                        /\ \A p \in seen : Untold(p)'
      OBVIOUS
    <3> DEFINE job == [kind |-> "update", path |-> b]
    <3>1. /\ handler[s].phase \in Asking /\ UNCHANGED gitEvents
          /\ \/ handler' = [handler EXCEPT ![s] = Off]
             \/ handler' = [handler EXCEPT ![s] = [phase |-> "remote", path |-> b]]
             \/ handler' = [handler EXCEPT ![s] = [phase |-> "updating", path |-> b]]
          /\ jobs' = Append(jobs, job) \/ jobs' = jobs
      BY <2>2 DEF UpstreamBranch, RemoteURL, UpdateProject, HandlerGoes, service, Asking
    <3>2. handler[s] \in Handler
      BY <1>4, <3>1, HandlerPhase DEF Asking
    <3>3. job \in Job /\ job.path = b
      BY <3>2 DEF Job, Handler
    <3> HIDE DEF job
    <3>4. \A p : p # b /\ Silent(jobs, p) => Silent(jobs', p)
      BY <1>3, <3>1, <3>3, AppendRecords
    <3>5. Branch(b)
      BY <3>1 DEF Branch
    <3>6. /\ \A r \in Slots : r # s => handler'[r] = handler[r]
          /\ \/ handler'[s].phase = "off"
             \/ handler'[s].phase \in Asking /\ handler'[s].path = b
      BY <1>4, <3>1 DEF Off, Asking
    <3>7. \A p : Branch(p)' => Branch(p)
      BY <3>5, <3>6 DEF Branch, Asking
    <3>8. \A r \in Slots : handler'[r].phase \in {"off"} \cup Asking
      BY <1>1, <3>6
    <3> QED BY <1>3, <3>1, <3>4, <3>5, <3>7, <3>8 DEF Beforehand, BeforeAt, Untold
  <2> QED BY <1>2, <2>1, <2>2
<1>6. ASSUME NEW p \in seen PROVE BeforeAt(p)'
  <2>1. BeforeAt(p) /\ Untold(p)'
    BY <1>5 DEF Beforehand
  <2>2. Target(p)' <=> Target(p)
    BY <1>3 DEF Target
  <2> QED BY <1>3, <2>1, <2>2 DEF BeforeAt, Missing, Present
<1> QED BY <1>3, <1>5, <1>6 DEF Beforehand, Unwatched, RootWatched

LEMMA BeforeDevfile ==
  ASSUME ProjectsInv, Beforehand, UpdateDevfile, ~Fault
  PROVE  Beforehand'
<1>1. UNCHANGED <<disk, run, toAdd, import, chain, roots, fsEvents, gitEvents, handler, seen, raced>>
  BY DEF UpdateDevfile, starting, updater, editor, watching, history
<1>2. \A p : Silent(jobs, p) => Silent(jobs', p) /\ (p \in recorded' <=> p \in recorded)
  BY SavedRecords
<1>3. ASSUME NEW p \in seen PROVE BeforeAt(p)'
  <2>1. BeforeAt(p)
    BY DEF Beforehand
  <2>2. (Target(p)' <=> Target(p)) /\ (Branch(p)' <=> Branch(p))
    BY <1>1 DEF Target, Branch
  <2> QED BY <1>1, <1>2, <2>1, <2>2 DEF BeforeAt, Untold, Missing, Present
<1> QED BY <1>1, <1>3 DEF Beforehand, Unwatched, RootWatched

\* A change nobody watches: nothing is promised for that project.
LEMMA BeforeDisk ==
  ASSUME ProjectsInv, Beforehand, NEW p \in Projects, CreateDirectory(p) \/ DeleteDirectory(p)
  PROVE  Beforehand'
<1>1. /\ UNCHANGED <<run, toAdd, import, chain, roots, handler, jobs, recorded, fsEvents>>
      /\ disk' \in {disk \cup {p}, disk \ {p}} /\ seen' = seen \ {p}
  BY DEF CreateDirectory, DeleteDirectory, Noticed, Beforehand, RootWatched, starting, updater,
         editor, service
<1>2. \A q : q # p => (Silent(gitEvents, q) => Silent(gitEvents', q))
  <2>1. gitEvents \in Seq(GitEvents)
    BY DEF ProjectsInv, Shape
  <2>2. ASSUME NEW kind \in {"changed", "deleted"},
               gitEvents' = Append(gitEvents, [kind |-> kind, path |-> p])
        PROVE  \A q : q # p => (Silent(gitEvents, q) => Silent(gitEvents', q))
    <3> DEFINE e == [kind |-> kind, path |-> p]
    <3>1. e \in GitEvents /\ e.path = p
      BY DEF GitEvents
    <3>2. gitEvents' = Append(gitEvents, e)
      BY <2>2
    <3> HIDE DEF e
    <3> QED BY <2>1, <3>1, <3>2, WordsOfAppend
  <2>3. gitEvents' = gitEvents \/ \E kind \in {"changed", "deleted"} :
                                    gitEvents' = Append(gitEvents, [kind |-> kind, path |-> p])
    BY DEF CreateDirectory, DeleteDirectory, Noticed
  <2> QED BY <2>2, <2>3
<1>3. ASSUME NEW q \in seen, q # p PROVE BeforeAt(q)'
  <2>1. BeforeAt(q)
    BY DEF Beforehand
  <2>2. (Target(q)' <=> Target(q)) /\ (Branch(q)' <=> Branch(q)) /\ (q \in disk' <=> q \in disk)
    BY <1>1, <1>3 DEF Target, Branch
  <2> QED BY <1>1, <1>2, <1>3, <2>1, <2>2 DEF BeforeAt, Untold, Missing, Present
<1> QED BY <1>1, <1>3 DEF Beforehand, Unwatched, RootWatched

------------------------------------------------------------------------------
(* Every step. *)

LEMMA InitFollows == Init => InStep /\ FollowInv
<1> SUFFICES ASSUME Init PROVE InStep /\ FollowInv
  OBVIOUS
<1>1. InStep
  BY DEF Init, InStep, Idle
<1>2. /\ disk \subseteq Projects /\ roots \in {<<>>, SetToSeq(disk)}
      /\ run = "start" /\ chain = <<>> /\ jobs = <<>> /\ fsEvents = <<>> /\ gitEvents = <<>>
      /\ handler = [s \in Slots |-> Off] /\ recorded = Range(Declared) /\ seen = Range(Declared) /\ raced = {}
  BY DEF Init
<1>3. \A s \in Slots : handler[s].phase = "off"
  BY <1>2 DEF Off
<1>4. \A p : Silent(<<>>, p)
  BY EmptySeq DEF Silent
<1>5. \A p : IsFolder(roots, p) => p \in disk
  <2>1. \A p : ~IsFolder(<<>>, p)
    BY DEF IsFolder
  <2>2. IsFiniteSet(disk)
    BY <1>2, ImportAssumption, FS_Subset
  <2>3. SetToSeq(disk) \in Seq(disk)
    BY <2>2, OrderOf
  <2>4. \A p : IsFolder(SetToSeq(disk), p) => p \in disk
    BY <2>3 DEF IsFolder
  <2> QED BY <1>2, <2>1, <2>4
<1>6. ASSUME NEW p \in seen PROVE BeforeAt(p)
  BY <1>2, <1>3, <1>4, <1>5 DEF BeforeAt, Untold, Missing, Present, Branch, Asking
<1>7. Beforehand
  BY <1>2, <1>3, <1>6 DEF Beforehand, Unwatched, RootWatched
<1> QED BY <1>1, <1>7 DEF FollowInv

\* When the root is watched, run() and the imports are over.
LEMMA ImportsOver ==
  ASSUME ProjectsInv, Following
  PROVE  ~Importing
<1>1. run = "watching" /\ \A p \in Range(Declared) : import[p] \in {"none", "done"}
  BY DEF Following, RootWatched, ProjectsInv, Progress
<1> QED BY <1>1 DEF Importing, BuildCloneCommands, ImportRejected, Imported, LoginSucceeds,
                    LoginFails, Retry, Dismiss, TryAgain, Skip, ImportSucceeds, ImportFails,
                    SetImport, AddExisting, WatchGit, WatchRoot

LEMMA NextFollows ==
  ASSUME ProjectsInv, InStep, FollowInv, [Next]_vars
  PROVE  FollowInv'
<1> SUFFICES ASSUME faults' = 0 PROVE (Beforehand \/ Following)'
  BY DEF FollowInv
<1>1. /\ Shape /\ ProjectsInv' /\ faults = 0 /\ (Beforehand \/ Following)
      /\ Idle \/ Requesting \/ Telling
  BY NextProjects, Faultless DEF ProjectsInv, FollowInv, InStep
<1>2. /\ ~Timeout /\ ~Fault /\ ~RefuseOperation
      /\ \A p : ~UserRemovesFolder(p) /\ ~LoginFails(p)
  BY <1>1, NoFault
<1>3. CASE UNCHANGED vars
  BY <1>1, <1>3, AfterSame, BeforeSame DEF vars, starting, updater, editor, watching, history
<1>4. CASE Importing
  <2>1. Beforehand
    BY <1>1, <1>4, ImportsOver
  <2> QED BY <1>1, <1>4, <2>1, BeforeImporting, BeforeWatchRoot, BeforeImportSucceeds,
             BeforeAddExisting DEF Importing
<1>5. CASE SkipOperation \/ EventArrives
  <2>1. Done
    BY <1>5, Finished
  <2> QED BY <1>1, <2>1, AfterDone, BeforeDone
<1>6. CASE StartOperation
  <2>1. UNCHANGED <<disk, starting, chain, roots, fsEvents, gitEvents, handler, service, seen, raced>>
    BY <1>6 DEF StartOperation, watching, history
  <2>2. run' = run
    BY <2>1 DEF starting
  <2> QED BY <1>1, <2>1, <2>2, AfterSame, BeforeSame
<1>7. CASE EditorActs
  <2>1. Requesting
    BY <1>1, <1>7 DEF EditorActs, Idle, Telling
  <2>2. Acts
    BY <1>1, <1>7, <2>1, Told
  <2> QED BY <1>1, <2>2, AfterActs, BeforeActs
<1>8. CASE Handling
  <2>1. PICK s \in Slots : \/ FsEvent(s) \/ Exists(s) \/ IsDirectory(s) \/ GitEvent(s)
                          \/ UpstreamBranch(s) \/ RemoteURL(s) \/ UpdateProject(s)
    BY <1>8 DEF Handling
  <2> QED BY <1>1, <2>1, BeforeHandler, AfterFsEvent, AfterLook, AfterGitEvent, AfterGit,
             AfterUpdate
<1>9. CASE UpdateDevfile
  BY <1>1, <1>2, <1>9, AfterDevfile, BeforeDevfile
<1>10. CASE \E p \in Projects : CreateDirectory(p) \/ DeleteDirectory(p)
  BY <1>1, <1>10, AfterDisk, BeforeDisk
<1> QED BY <1>2, <1>3, <1>4, <1>5, <1>6, <1>7, <1>8, <1>9, <1>10 DEF Next, Updating

LEMMA FollowHolds == Spec => [](ProjectsInv /\ InStep /\ FollowInv)
<1>1. Init => ProjectsInv /\ InStep /\ FollowInv
  BY InitProjects, InitFollows
<1>2. ProjectsInv /\ InStep /\ FollowInv /\ [Next]_vars => (ProjectsInv /\ InStep /\ FollowInv)'
  BY NextProjects, NextInStep, NextFollows
<1> QED BY <1>1, <1>2, PTL DEF Spec

\* When all is quiet, nothing is left to come.
LEMMA QuietFollows ==
  ASSUME ProjectsInv, FollowInv, Calm
  PROVE  \A p \in seen :
           /\ IsFolder(roots, p) <=> p \in disk
           /\ p \notin disk \cup Misplaced \cup raced => p \notin recorded
           /\ p \in disk \cap Upstream => p \in recorded
<1>1. /\ RootWatched /\ faults = 0 /\ chain = <<>> /\ jobs = <<>> /\ fsEvents = <<>>
      /\ gitEvents = <<>> /\ \A s \in Slots : handler[s] = Off
  BY DEF Calm, RootWatched
<1>2. Following
  BY <1>1 DEF FollowInv, Beforehand
<1>3. \A s \in Slots : handler[s].phase = "off"
  BY <1>1 DEF Off
<1>4. \A p, kind : Silent(<<>>, p) /\ ~LastIs(<<>>, p, kind) /\ ~Has(<<>>, p, kind)
  BY EmptySeq DEF Silent, LastIs, Has
<1>5. \A p : p \notin Range(fsEvents)
  <2>1. fsEvents \in Seq(Projects) /\ Len(fsEvents) = 0
    BY <1>1, EmptySeq DEF ProjectsInv, Shape
  <2>2. \A e : e \in Range(fsEvents) <=> \E i \in 1..Len(fsEvents) : fsEvents[i] = e
    BY <2>1, InRange
  <2> QED BY <2>1, <2>2
<1>6. \A p : ~Pending(p) /\ ~Branch(p)
  BY <1>3, <1>5 DEF Pending, Branch, Asking
<1>7. \A p : (Target(p) <=> IsFolder(roots, p)) /\ (Records(p) <=> p \in recorded)
  BY <1>1, <1>4 DEF Target, Records
<1> QED BY <1>1, <1>2, <1>4, <1>6, <1>7 DEF Following, AfterAt, Followed, Added, Erased

\* However imports, handlers, the editor and the disk interleave, without a fault
\* and once all is quiet, the folders are the directories that exist.
THEOREM FoldersFollow == Spec => []RootsFollowDisk
<1>1. ProjectsInv /\ InStep /\ FollowInv => RootsFollowDisk
  BY QuietFollows DEF RootsFollowDisk
<1> QED BY <1>1, FollowHolds, PTL

\* And the devfile has the projects with an upstream branch that exist, and none
\* that does not, but for one deleted between git's last answer about it and the
\* update that answer leads to.
THEOREM DevfileFollows == Spec => []DevfileFollowsDisk
<1>1. ProjectsInv /\ InStep /\ FollowInv => DevfileFollowsDisk
  BY QuietFollows DEF DevfileFollowsDisk
<1> QED BY <1>1, FollowHolds, PTL
=============================================================================
