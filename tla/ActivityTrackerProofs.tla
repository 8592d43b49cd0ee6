------------------------- MODULE ActivityTrackerProofs -------------------------
(***************************************************************************)
(* The throttles of ActivityTracker lose nothing, repeat nothing and keep  *)
(* nothing alive, for every number of tabs, period and delay.              *)
(***************************************************************************)
EXTENDS ActivityTracker, TLAPS

\* The backend throttle: how its timer relates to the last request.
ServerInv ==
  /\ sinceRequest = IF serverTimer = Off THEN Period ELSE Period - serverTimer
  /\ gap = Period
  /\ isNewRequest => serverTimer # Off
  /\ asked # Off => isNewRequest /\ asked + serverTimer <= Period

\* Where the oldest activity of a tab is on its way to a request.
OnItsWay(c) ==
  \/ isAnyActivity[c] /\ waiting[c] + clientTimer[c] <= Period
  \/ \E i \in 1..Len(calls[c]) : waiting[c] <= Period + calls[c][i]
  \/ isNewRequest

WaitingInv ==
  \A c \in Clients :
    /\ isAnyActivity[c] => clientTimer[c] # Off
    /\ waiting[c] # Off =>
         /\ serverTimer # Off => waiting[c] + serverTimer <= Period
         /\ OnItsWay(c)

\* How old the last activity can be in each place a request comes from.
IdleInv ==
  /\ sinceActivity # Off
  /\ idleAtRequest <= Longest
  /\ isNewRequest => sinceActivity + serverTimer <= Longest
  /\ \A c \in Clients :
       /\ isAnyActivity[c] => sinceActivity + clientTimer[c] <= Period
       /\ \A i \in 1..Len(calls[c]) : sinceActivity <= Period + calls[c][i]

ActivityInv == TypeOK /\ ServerInv /\ WaitingInv /\ IdleInv

LEMMA Numbers ==
  /\ Period \in Nat /\ Period > 0 /\ Delay \in Nat /\ RetryPeriod \in 1..Period
  /\ Longest = 2 * Period + Delay /\ Longest \in Nat
BY ActivityAssumption DEF Longest

LEMMA InitActivity == Init => ActivityInv
<1> SUFFICES ASSUME Init PROVE ActivityInv
  OBVIOUS
<1>1. TypeOK
  <2>1. <<>> \in Seq(0..Delay)
    OBVIOUS
  <2>2. Off \in Timer /\ Off \in Age /\ 0 \in Age /\ Period \in 0..Period
    BY Numbers DEF Timer, Age
  <2> QED BY <2>1, <2>2 DEF Init, TypeOK
<1>2. ServerInv
  BY Numbers DEF Init, ServerInv, Off
<1>3. WaitingInv
  BY DEF Init, WaitingInv
<1>4. IdleInv
  BY Numbers DEF Init, IdleInv, Off
<1> QED BY <1>1, <1>2, <1>3, <1>4 DEF ActivityInv

LEMMA Ages ==
  ASSUME NEW T, NEW q \in Seq(T)
  PROVE  \A i \in 1..Len(q) : q[i] \in T
OBVIOUS

\* A call added at the end, and the first call taken.
LEMMA CallsGrow ==
  ASSUME NEW q \in Seq(0..Delay)
  PROVE  /\ Append(q, 0) \in Seq(0..Delay)
         /\ Len(Append(q, 0)) = Len(q) + 1
         /\ \A i \in 1..Len(q) : Append(q, 0)[i] = q[i]
         /\ Append(q, 0)[Len(q) + 1] = 0
BY ActivityAssumption

LEMMA CallsShrink ==
  ASSUME NEW q \in Seq(0..Delay), q # <<>>
  PROVE  /\ Tail(q) \in Seq(0..Delay)
         /\ Len(q) \in Nat \ {0}
         /\ 1 \in 1..Len(q) /\ q[1] \in 0..Delay
         /\ Len(Tail(q)) = Len(q) - 1
         /\ \A i \in 1..(Len(q) - 1) : Tail(q)[i] = q[i + 1]
<1>1. Len(q) \in Nat \ {0}
  OBVIOUS
<1>2. 1 \in 1..Len(q)
  BY <1>1
<1>3. q[1] \in 0..Delay
  BY <1>2, Ages
<1>4. /\ Tail(q) \in Seq(0..Delay)
      /\ Len(Tail(q)) = Len(q) - 1
      /\ \A i \in 1..(Len(q) - 1) : Tail(q)[i] = q[i + 1]
  OBVIOUS
<1> QED BY <1>1, <1>2, <1>3, <1>4

LEMMA CallsAge ==
  ASSUME NEW q \in Seq(0..Delay), \A i \in 1..Len(q) : q[i] < Delay
  PROVE  LET r == [i \in 1..Len(q) |-> q[i] + 1] IN
         /\ r \in Seq(0..Delay)
         /\ Len(r) = Len(q)
         /\ \A i \in 1..Len(q) : r[i] = q[i] + 1
<1> DEFINE r == [i \in 1..Len(q) |-> q[i] + 1]
<1>1. \A i \in 1..Len(q) : q[i] + 1 \in 0..Delay
  BY ActivityAssumption
<1>2. Len(q) \in Nat
  OBVIOUS
<1>3. r \in Seq(0..Delay)
  BY <1>1, <1>2
<1> QED BY <1>2, <1>3

------------------------------------------------------------------------------
(* One lemma per action. *)

LEMMA InitializeStep ==
  ASSUME ActivityInv, NEW c \in Clients, Initialize(c)
  PROVE  ActivityInv'
<1>0. /\ TypeOK /\ ServerInv /\ WaitingInv /\ IdleInv
      /\ calls[c] \in Seq(0..Delay)
      /\ calls' = [calls EXCEPT ![c] = Append(@, 0)]
      /\ isAnyActivity' = [isAnyActivity EXCEPT ![c] = FALSE]
      /\ clientTimer' = [clientTimer EXCEPT ![c] = Period]
      /\ waiting' = [waiting EXCEPT ![c] = Since(@)]
      /\ sinceActivity' = 0
      /\ UNCHANGED <<asked, requestHistory, serverVars>>
  BY DEF ActivityInv, TypeOK, Initialize, ClientSends, Active, TimerStart
<1>1. TypeOK'
  BY <1>0, CallsGrow, Numbers
     DEF TypeOK, Initialize, Timer, Age, Since, requestHistory, serverVars, Off
<1>2. ServerInv'
  BY <1>0 DEF ServerInv, requestHistory, serverVars
<1>3. WaitingInv'
  <2> SUFFICES ASSUME NEW d \in Clients
               PROVE  /\ isAnyActivity'[d] => clientTimer'[d] # Off
                      /\ waiting'[d] # Off =>
                           /\ serverTimer' # Off =>
                                waiting'[d] + serverTimer' <= Period
                           /\ OnItsWay(d)'
    BY DEF WaitingInv
  <2>1. CASE d = c
    <3>1. /\ ~isAnyActivity'[c]
          /\ waiting'[c] = Since(waiting[c])
          /\ calls'[c] = Append(calls[c], 0)
      BY <1>0 DEF TypeOK
    <3>2. calls'[c][Len(calls[c]) + 1] = 0 /\ Len(calls'[c]) = Len(calls[c]) + 1
      BY <1>0, <3>1, CallsGrow
    <3> QED BY <1>0, <2>1, <3>1, <3>2, CallsGrow, Numbers
            DEF WaitingInv, OnItsWay, Since, serverVars, TypeOK, Timer, Off, Age
  <2>2. CASE d # c
    BY <1>0, <2>2 DEF WaitingInv, OnItsWay, serverVars, TypeOK
  <2> QED BY <2>1, <2>2
<1>4. IdleInv'
  <2>1. /\ sinceActivity' # Off
        /\ idleAtRequest' <= Longest
        /\ isNewRequest' => sinceActivity' + serverTimer' <= Longest
    BY <1>0, Numbers
       DEF IdleInv, serverVars, requestHistory, TypeOK, Timer, Off
  <2>2. ASSUME NEW d \in Clients
        PROVE  /\ isAnyActivity'[d] => sinceActivity' + clientTimer'[d] <= Period
               /\ \A i \in 1..Len(calls'[d]) :
                    sinceActivity' <= Period + calls'[d][i]
    <3>1. clientTimer'[d] \in Timer /\ calls'[d] \in Seq(0..Delay)
      BY <1>1 DEF TypeOK
    <3>2. \A i \in 1..Len(calls'[d]) : calls'[d][i] \in 0..Delay
      BY <3>1, Ages
    <3> QED BY <1>0, <3>1, <3>2, Numbers DEF Timer, Off
  <2> QED BY <2>1, <2>2 DEF IdleInv
<1> QED BY <1>1, <1>2, <1>3, <1>4 DEF ActivityInv

LEMMA CloseTabStep ==
  ASSUME ActivityInv, NEW c \in Clients, CloseTab(c)
  PROVE  ActivityInv'
<1>0. TypeOK /\ ServerInv /\ WaitingInv /\ IdleInv
  BY DEF ActivityInv
<1>1. TypeOK'
  BY <1>0 DEF CloseTab, TypeOK, Timer, Age, serverVars, requestHistory
<1>2. ServerInv'
  BY <1>0 DEF CloseTab, ServerInv, serverVars, requestHistory
<1>3. WaitingInv'
  BY <1>0 DEF CloseTab, WaitingInv, OnItsWay, TypeOK, serverVars
<1>4. IdleInv'
  BY <1>0 DEF CloseTab, IdleInv, TypeOK, serverVars, requestHistory
<1> QED BY <1>1, <1>2, <1>3, <1>4 DEF ActivityInv

LEMMA OnAnyActivityStep ==
  ASSUME ActivityInv, NEW c \in Clients, OnAnyActivity(c)
  PROVE  ActivityInv'
<1>0. /\ TypeOK /\ ServerInv /\ WaitingInv /\ IdleInv
      /\ calls[c] \in Seq(0..Delay)
      /\ waiting' = [waiting EXCEPT ![c] = Since(@)]
      /\ sinceActivity' = 0
      /\ UNCHANGED <<tab, asked, requestHistory, serverVars>>
  BY DEF ActivityInv, TypeOK, OnAnyActivity, Active
<1>1. ASSUME clientTimer[c] = Off PROVE TypeOK' /\ WaitingInv'
  <2>0. /\ calls' = [calls EXCEPT ![c] = Append(@, 0)]
        /\ isAnyActivity' = [isAnyActivity EXCEPT ![c] = FALSE]
        /\ clientTimer' = [clientTimer EXCEPT ![c] = Period]
    BY <1>1 DEF OnAnyActivity, ClientSends, TimerStart
  <2>1. TypeOK'
    BY <1>0, <2>0, CallsGrow, Numbers
       DEF TypeOK, Timer, Age, Since, requestHistory, serverVars, Off
  <2>2. WaitingInv'
    <3> SUFFICES ASSUME NEW d \in Clients
                 PROVE  /\ isAnyActivity'[d] => clientTimer'[d] # Off
                        /\ waiting'[d] # Off =>
                             /\ serverTimer' # Off =>
                                  waiting'[d] + serverTimer' <= Period
                             /\ OnItsWay(d)'
      BY DEF WaitingInv
    <3>1. CASE d = c
      <4>1. /\ ~isAnyActivity'[c] /\ ~isAnyActivity[c]
            /\ waiting'[c] = Since(waiting[c])
            /\ calls'[c] = Append(calls[c], 0)
        BY <1>0, <1>1, <2>0 DEF TypeOK, WaitingInv
      <4>2. /\ calls'[c][Len(calls[c]) + 1] = 0
            /\ Len(calls'[c]) = Len(calls[c]) + 1
            /\ \A i \in 1..Len(calls[c]) : calls'[c][i] = calls[c][i]
            /\ Len(calls[c]) \in Nat
        BY <1>0, <4>1, CallsGrow
      <4>3. waiting[c] # Off => OnItsWay(c)
        BY <1>0 DEF WaitingInv
      <4>4. OnItsWay(c)'
        <5>1. CASE waiting[c] = Off
          BY <4>1, <4>2, <5>1, Numbers DEF OnItsWay, Since
        <5>2. CASE waiting[c] # Off
          BY <1>0, <4>1, <4>2, <4>3, <5>2 DEF OnItsWay, Since, serverVars
        <5> QED BY <5>1, <5>2
      <4>5. serverTimer' # Off => waiting'[c] + serverTimer' <= Period
        BY <1>0, <4>1, Numbers
           DEF WaitingInv, Since, serverVars, TypeOK, Timer, Off
      <4> QED BY <3>1, <4>1, <4>4, <4>5
    <3>2. CASE d # c
      BY <1>0, <2>0, <3>2 DEF WaitingInv, OnItsWay, serverVars, TypeOK
    <3> QED BY <3>1, <3>2
  <2> QED BY <2>1, <2>2
<1>2. ASSUME clientTimer[c] # Off PROVE TypeOK' /\ WaitingInv'
  <2>0. /\ isAnyActivity' = [isAnyActivity EXCEPT ![c] = TRUE]
        /\ UNCHANGED <<calls, clientTimer>>
    BY <1>2 DEF OnAnyActivity
  <2>1. TypeOK'
    BY <1>0, <2>0, Numbers
       DEF TypeOK, Age, Since, requestHistory, serverVars, Off
  <2>2. WaitingInv'
    <3> SUFFICES ASSUME NEW d \in Clients
                 PROVE  /\ isAnyActivity'[d] => clientTimer'[d] # Off
                        /\ waiting'[d] # Off =>
                             /\ serverTimer' # Off =>
                                  waiting'[d] + serverTimer' <= Period
                             /\ OnItsWay(d)'
      BY DEF WaitingInv
    <3>1. CASE d = c
      <4>1. /\ isAnyActivity'[c] = TRUE /\ clientTimer[c] \in 0..Period
            /\ waiting'[c] = Since(waiting[c])
        BY <1>0, <1>2, <2>0 DEF TypeOK, Timer
      <4>2. serverTimer' # Off => waiting'[c] + serverTimer' <= Period
        BY <1>0, <4>1, Numbers
           DEF WaitingInv, Since, serverVars, TypeOK, Timer, Off
      <4>3. OnItsWay(c)'
        <5>1. CASE waiting[c] = Off
          BY <2>0, <4>1, <5>1, Numbers DEF OnItsWay, Since
        <5>2. CASE waiting[c] # Off
          BY <1>0, <2>0, <4>1, <5>2
             DEF WaitingInv, OnItsWay, Since, serverVars
        <5> QED BY <5>1, <5>2
      <4> QED BY <1>2, <2>0, <3>1, <4>2, <4>3
    <3>2. CASE d # c
      BY <1>0, <2>0, <3>2 DEF WaitingInv, OnItsWay, serverVars, TypeOK
    <3> QED BY <3>1, <3>2
  <2> QED BY <2>1, <2>2
<1>3. TypeOK' /\ WaitingInv'
  BY <1>1, <1>2
<1>4. ServerInv'
  BY <1>0 DEF ServerInv, requestHistory, serverVars
<1>5. IdleInv'
  <2>1. /\ sinceActivity' # Off
        /\ idleAtRequest' <= Longest
        /\ isNewRequest' => sinceActivity' + serverTimer' <= Longest
    BY <1>0, Numbers
       DEF IdleInv, serverVars, requestHistory, TypeOK, Timer, Off
  <2>2. ASSUME NEW d \in Clients
        PROVE  /\ isAnyActivity'[d] => sinceActivity' + clientTimer'[d] <= Period
               /\ \A i \in 1..Len(calls'[d]) :
                    sinceActivity' <= Period + calls'[d][i]
    <3>1. clientTimer'[d] \in Timer /\ calls'[d] \in Seq(0..Delay)
      BY <1>3 DEF TypeOK
    <3>2. \A i \in 1..Len(calls'[d]) : calls'[d][i] \in 0..Delay
      BY <3>1, Ages
    <3> QED BY <1>0, <3>1, <3>2, Numbers DEF Timer, Off
  <2> QED BY <2>1, <2>2 DEF IdleInv
<1> QED BY <1>3, <1>4, <1>5 DEF ActivityInv

LEMMA CheckActivityStep ==
  ASSUME ActivityInv, NEW c \in Clients, CheckActivityTimerCallback(c)
  PROVE  ActivityInv'
<1>0. /\ TypeOK /\ ServerInv /\ WaitingInv /\ IdleInv
      /\ calls[c] \in Seq(0..Delay)
      /\ clientTimer[c] = 0
      /\ UNCHANGED <<tab, serverVars, history>>
  BY DEF ActivityInv, TypeOK, CheckActivityTimerCallback
<1>1. ASSUME isAnyActivity[c] PROVE TypeOK' /\ WaitingInv' /\ IdleInv'
  <2>0. /\ calls' = [calls EXCEPT ![c] = Append(@, 0)]
        /\ isAnyActivity' = [isAnyActivity EXCEPT ![c] = FALSE]
        /\ clientTimer' = [clientTimer EXCEPT ![c] = Period]
    BY <1>1 DEF CheckActivityTimerCallback, ClientSends, TimerStart
  <2>1. TypeOK'
    BY <1>0, <2>0, CallsGrow, Numbers
       DEF TypeOK, Timer, Age, history, requestHistory, serverVars, Off
  <2>2. /\ ~isAnyActivity'[c] /\ calls'[c] = Append(calls[c], 0)
        /\ clientTimer'[c] = Period
    BY <1>0, <2>0 DEF TypeOK
  <2>3. /\ calls'[c][Len(calls[c]) + 1] = 0
        /\ Len(calls'[c]) = Len(calls[c]) + 1
        /\ \A i \in 1..Len(calls[c]) : calls'[c][i] = calls[c][i]
        /\ Len(calls[c]) \in Nat
    BY <1>0, <2>2, CallsGrow
  <2>4. WaitingInv'
    <3> SUFFICES ASSUME NEW d \in Clients
                 PROVE  /\ isAnyActivity'[d] => clientTimer'[d] # Off
                        /\ waiting'[d] # Off =>
                             /\ serverTimer' # Off =>
                                  waiting'[d] + serverTimer' <= Period
                             /\ OnItsWay(d)'
      BY DEF WaitingInv
    <3>1. CASE d = c
      <4>1. waiting[c] # Off => waiting[c] \in Nat /\ OnItsWay(c)
        BY <1>0 DEF WaitingInv, TypeOK, Age, Off
      <4>2. ASSUME waiting[c] # Off PROVE OnItsWay(c)'
        <5>1. CASE waiting[c] <= Period
          <6> DEFINE k == Len(calls[c]) + 1
          <6>1. k \in 1..Len(calls'[c]) /\ calls'[c][k] = 0
            BY <2>3
          <6>2. waiting'[c] <= Period + calls'[c][k]
            BY <1>0, <4>1, <4>2, <5>1, <6>1, Numbers DEF history
          <6> QED BY <6>1, <6>2 DEF OnItsWay
        <5>2. ASSUME NEW i \in 1..Len(calls[c]),
                     waiting[c] <= Period + calls[c][i]
              PROVE  OnItsWay(c)'
          <6>1. i \in 1..Len(calls'[c]) /\ calls'[c][i] = calls[c][i]
            BY <2>3
          <6> QED BY <1>0, <5>2, <6>1 DEF OnItsWay, history
        <5>3. CASE isNewRequest
          BY <1>0, <5>3 DEF OnItsWay, serverVars
        <5> QED BY <1>0, <4>1, <4>2, <5>1, <5>2, <5>3 DEF OnItsWay
      <4> QED BY <1>0, <2>2, <3>1, <4>2 DEF WaitingInv, history, serverVars
    <3>2. CASE d # c
      BY <1>0, <2>0, <3>2 DEF WaitingInv, OnItsWay, serverVars, TypeOK, history
    <3> QED BY <3>1, <3>2
  <2>5. IdleInv'
    <3>1. /\ sinceActivity' # Off
          /\ idleAtRequest' <= Longest
          /\ isNewRequest' => sinceActivity' + serverTimer' <= Longest
      BY <1>0 DEF IdleInv, serverVars, history, requestHistory
    <3>2. ASSUME NEW d \in Clients
          PROVE  /\ isAnyActivity'[d] =>
                      sinceActivity' + clientTimer'[d] <= Period
                 /\ \A i \in 1..Len(calls'[d]) :
                      sinceActivity' <= Period + calls'[d][i]
      <4>1. sinceActivity' = sinceActivity /\ sinceActivity \in Nat
        BY <1>0 DEF IdleInv, TypeOK, Age, history, Off
      <4>2. sinceActivity <= Period
        BY <1>0, <1>1, <4>1, Numbers DEF IdleInv
      <4>3. CASE d = c
        <5>1. ASSUME NEW i \in 1..Len(calls'[c])
              PROVE  sinceActivity <= Period + calls'[c][i]
          <6>1. CASE i \in 1..Len(calls[c])
            BY <1>0, <2>3, <6>1 DEF IdleInv
          <6>2. CASE i = Len(calls[c]) + 1
            BY <2>3, <4>1, <4>2, <6>2, Numbers
          <6> QED BY <2>3, <6>1, <6>2
        <5> QED BY <2>2, <4>1, <4>3, <5>1
      <4>4. CASE d # c
        BY <1>0, <2>0, <4>1, <4>4 DEF IdleInv, TypeOK
      <4> QED BY <4>3, <4>4
    <3> QED BY <3>1, <3>2 DEF IdleInv
  <2> QED BY <2>1, <2>4, <2>5
<1>2. ASSUME ~isAnyActivity[c] PROVE TypeOK' /\ WaitingInv' /\ IdleInv'
  <2>0. /\ clientTimer' = [clientTimer EXCEPT ![c] = Off]
        /\ UNCHANGED <<calls, isAnyActivity>>
    BY <1>2 DEF CheckActivityTimerCallback
  <2>1. TypeOK'
    BY <1>0, <2>0 DEF TypeOK, Timer, history, requestHistory, serverVars
  <2>2. WaitingInv'
    BY <1>0, <1>2, <2>0
       DEF WaitingInv, OnItsWay, TypeOK, history, serverVars
  <2>3. IdleInv'
    BY <1>0, <1>2, <2>0
       DEF IdleInv, TypeOK, history, requestHistory, serverVars
  <2> QED BY <2>1, <2>2, <2>3
<1>3. ServerInv'
  BY <1>0 DEF ServerInv, history, requestHistory, serverVars
<1> QED BY <1>1, <1>2, <1>3 DEF ActivityInv

\* A request to the master leaves nothing waiting.  The calls under way may
\* have lost their first one.
LEMMA ServerSendsStep ==
  ASSUME ActivityInv, ServerSends, serverTimer \in {Off, 0},
         UNCHANGED clientVars,
         calls' \in [Clients -> Seq(0..Delay)],
         sinceActivity <= Longest,
         \A c \in Clients : \A i \in 1..Len(calls'[c]) :
           sinceActivity <= Period + calls'[c][i]
  PROVE  ActivityInv'
<1>0. TypeOK /\ ServerInv /\ WaitingInv /\ IdleInv
  BY DEF ActivityInv
<1>1. TypeOK'
  <2>1. /\ Period \in Timer /\ Off \in Age /\ 0 \in Age /\ 0 \in 0..Period
        /\ 0 \in {Off} \cup 0..(RetryPeriod + 1)
    BY Numbers DEF Timer, Age
  <2> QED BY <1>0, <2>1
          DEF TypeOK, ServerSends, ClearsFlag, TimerStart, clientVars
<1>2. ServerInv'
  BY <1>0, Numbers DEF ServerInv, ServerSends, ClearsFlag, TimerStart, Off
<1>3. WaitingInv'
  BY <1>0 DEF WaitingInv, ServerSends, clientVars
<1>4. IdleInv'
  BY <1>0 DEF IdleInv, ServerSends, ClearsFlag, clientVars
<1> QED BY <1>1, <1>2, <1>3, <1>4 DEF ActivityInv

LEMMA ResetTimeoutStep ==
  ASSUME ActivityInv, NEW c \in Clients, ResetTimeout(c)
  PROVE  ActivityInv'
<1>0. /\ TypeOK /\ ServerInv /\ WaitingInv /\ IdleInv
      /\ calls[c] \in Seq(0..Delay) /\ calls[c] # <<>>
      /\ calls' = [calls EXCEPT ![c] = Tail(@)]
      /\ UNCHANGED clientVars
  BY DEF ActivityInv, TypeOK, ResetTimeout
<1>1. /\ calls'[c] = Tail(calls[c])
      /\ Len(calls[c]) \in Nat \ {0}
      /\ Len(calls'[c]) = Len(calls[c]) - 1
      /\ \A i \in 1..(Len(calls[c]) - 1) : calls'[c][i] = calls[c][i + 1]
      /\ calls' \in [Clients -> Seq(0..Delay)]
  BY <1>0, CallsShrink DEF TypeOK
<1>2. sinceActivity \in Nat
  BY <1>0 DEF IdleInv, TypeOK, Age, Off
<1>3. \A d \in Clients : \A i \in 1..Len(calls'[d]) :
        sinceActivity <= Period + calls'[d][i]
  <2> SUFFICES ASSUME NEW d \in Clients, NEW i \in 1..Len(calls'[d])
               PROVE  sinceActivity <= Period + calls'[d][i]
    OBVIOUS
  <2>1. CASE d = c
    BY <1>0, <1>1, <2>1 DEF IdleInv
  <2>2. CASE d # c
    BY <1>0, <2>2 DEF IdleInv, TypeOK
  <2> QED BY <2>1, <2>2
<1>4. sinceActivity <= Longest
  <2>1. calls[c][1] \in 0..Delay /\ 1 \in 1..Len(calls[c])
    BY <1>0, CallsShrink
  <2>2. sinceActivity <= Period + calls[c][1]
    BY <1>0, <2>1 DEF IdleInv
  <2> QED BY <1>2, <2>1, <2>2, Numbers
<1>5. CASE serverTimer = Off
  <2>1. ServerSends
    BY <1>5 DEF ResetTimeout, IsTimerRunning
  <2> QED BY <1>0, <1>1, <1>3, <1>4, <1>5, <2>1, ServerSendsStep
<1>6. CASE serverTimer # Off
  <2>0. /\ isNewRequest' = TRUE
        /\ asked' = Since(asked)
        /\ UNCHANGED <<serverTimer, waiting, sinceActivity, requestHistory>>
    BY <1>6 DEF ResetTimeout, IsTimerRunning, NotesRequest
  <2>1. serverTimer \in 0..Period
    BY <1>0, <1>6 DEF TypeOK, Timer
  <2>2. TypeOK'
    BY <1>0, <1>1, <2>0, Numbers
       DEF TypeOK, clientVars, requestHistory, Age, Since, Off
  <2>3. ServerInv'
    BY <1>0, <1>6, <2>0, <2>1, Numbers DEF ServerInv, requestHistory, Since
  <2>4. WaitingInv'
    BY <1>0, <2>0 DEF WaitingInv, OnItsWay, clientVars
  <2>5. sinceActivity + serverTimer <= Longest
    <3>1. calls[c][1] \in 0..Delay /\ 1 \in 1..Len(calls[c])
      BY <1>0, CallsShrink
    <3>2. sinceActivity <= Period + calls[c][1]
      BY <1>0, <3>1 DEF IdleInv
    <3> QED BY <1>2, <2>1, <3>1, <3>2, Numbers
  <2>6. IdleInv'
    BY <1>0, <1>3, <2>0, <2>5 DEF IdleInv, requestHistory, clientVars
  <2> QED BY <2>2, <2>3, <2>4, <2>6 DEF ActivityInv
<1> QED BY <1>5, <1>6

LEMMA CheckNewRequestsStep ==
  ASSUME ActivityInv, CheckNewRequestsTimerCallback
  PROVE  ActivityInv'
<1>0. /\ TypeOK /\ ServerInv /\ WaitingInv /\ IdleInv
      /\ serverTimer = 0
      /\ UNCHANGED <<clientVars, calls>>
  BY DEF ActivityInv, CheckNewRequestsTimerCallback
<1>1. CASE isNewRequest
  <2>1. ServerSends
    BY <1>1 DEF CheckNewRequestsTimerCallback
  <2>2. sinceActivity \in Nat /\ sinceActivity <= Longest
    BY <1>0, <1>1, Numbers DEF IdleInv, TypeOK, Age, Off
  <2> QED BY <1>0, <2>1, <2>2, ServerSendsStep DEF IdleInv, TypeOK
<1>2. CASE ~isNewRequest
  <2>0. serverTimer' = Off /\ UNCHANGED <<isNewRequest, history>>
    BY <1>2 DEF CheckNewRequestsTimerCallback
  <2>1. TypeOK'
    BY <1>0, <2>0 DEF TypeOK, Timer, clientVars, history, requestHistory
  <2>2. ServerInv'
    BY <1>0, <1>2, <2>0, Numbers DEF ServerInv, history, requestHistory, Off
  <2>3. WaitingInv'
    BY <1>0, <1>2, <2>0 DEF WaitingInv, OnItsWay, clientVars, history
  <2>4. IdleInv'
    BY <1>0, <1>2, <2>0 DEF IdleInv, clientVars, history, requestHistory
  <2> QED BY <2>1, <2>2, <2>3, <2>4 DEF ActivityInv
<1> QED BY <1>1, <1>2

LEMMA TickStep ==
  ASSUME ActivityInv, Tick
  PROVE  ActivityInv'
<1>0. /\ TypeOK /\ ServerInv /\ WaitingInv /\ IdleInv
      /\ UNCHANGED <<tab, isAnyActivity, isNewRequest, idleAtRequest, gap>>
      /\ serverTimer # 0 /\ serverTimer \in Timer
      /\ serverTimer' = Countdown(serverTimer)
      /\ sinceRequest \in 0..Period
  BY DEF ActivityInv, Tick, TypeOK
<1>1. /\ serverTimer = Off => serverTimer' = Off
      /\ serverTimer # Off => /\ serverTimer \in 1..Period
                              /\ serverTimer' = serverTimer - 1
                              /\ serverTimer' \in 0..Period
  BY <1>0, Numbers DEF Countdown, Timer, Off
<1>2. ASSUME NEW c \in Clients
      PROVE  /\ clientTimer[c] = Off => clientTimer'[c] = Off
             /\ clientTimer[c] # Off => /\ clientTimer[c] \in 1..Period
                                        /\ clientTimer'[c] = clientTimer[c] - 1
                                        /\ clientTimer'[c] \in 0..Period
  <2>1. /\ clientTimer[c] \in Timer /\ clientTimer[c] # 0
        /\ clientTimer'[c] = Countdown(clientTimer[c])
    BY DEF Tick, ActivityInv, TypeOK
  <2> QED BY <2>1, Numbers DEF Countdown, Timer, Off
<1>3. ASSUME NEW c \in Clients
      PROVE  /\ calls'[c] \in Seq(0..Delay)
             /\ Len(calls'[c]) = Len(calls[c])
             /\ \A i \in 1..Len(calls[c]) : /\ calls[c][i] \in 0..Delay
                                            /\ calls'[c][i] = calls[c][i] + 1
  <2>1. calls[c] \in Seq(0..Delay) /\ \A i \in 1..Len(calls[c]) : calls[c][i] < Delay
    BY <1>0 DEF Tick, TypeOK
  <2>2. calls'[c] = [i \in 1..Len(calls[c]) |-> calls[c][i] + 1]
    BY DEF Tick
  <2>3. \A i \in 1..Len(calls[c]) : calls[c][i] \in 0..Delay
    BY <2>1, Ages
  <2> QED BY <2>1, <2>2, <2>3, CallsAge
<1>4. ASSUME NEW c \in Clients
      PROVE  /\ waiting[c] = Off => waiting'[c] = Off
             /\ waiting[c] # Off => /\ waiting[c] \in Nat
                                    /\ waiting'[c] \in Nat
                                    /\ waiting'[c] # Off
                                    /\ waiting'[c] <= waiting[c] + 1
             /\ waiting'[c] \in Age
  <2>1. waiting[c] \in Age /\ waiting'[c] = Older(waiting[c], Period + Delay + 1)
    BY <1>0 DEF Tick, TypeOK
  <2>2. waiting[c] # Off => waiting[c] <= Period + Delay
    <3>1. ASSUME waiting[c] # Off, isNewRequest PROVE waiting[c] <= Period
      BY <1>0, <1>1, <2>1, <3>1, Numbers DEF WaitingInv, ServerInv, Age, Off
    <3>2. ASSUME waiting[c] # Off, isAnyActivity[c],
                 waiting[c] + clientTimer[c] <= Period
          PROVE  waiting[c] <= Period
      BY <1>0, <1>2, <2>1, <3>2, Numbers DEF WaitingInv, Age, Off
    <3>3. ASSUME NEW i \in 1..Len(calls[c]), waiting[c] # Off,
                 waiting[c] <= Period + calls[c][i]
          PROVE  waiting[c] <= Period + Delay
      BY <1>3, <2>1, <3>3, Numbers DEF Age, Off
    <3> QED BY <1>0, <2>1, <3>1, <3>2, <3>3, Numbers
            DEF WaitingInv, OnItsWay, Age, Off
  <2> QED BY <2>1, <2>2, Numbers DEF Older, Age, Off
<1>5. /\ sinceActivity \in Nat /\ sinceActivity' \in Nat
      /\ sinceActivity' <= sinceActivity + 1
      /\ sinceActivity' \in Age
  <2>1. sinceActivity \in Age /\ sinceActivity # Off
    BY <1>0 DEF TypeOK, IdleInv
  <2>2. sinceActivity \in 0..(Longest + 1)
    BY <2>1, Numbers DEF Age
  <2>3. sinceActivity' = Older(sinceActivity, Longest + 1)
    BY DEF Tick
  <2> QED BY <2>2, <2>3, Numbers DEF Older, Age, Off
<1>6. /\ asked = Off => asked' = Off
      /\ asked # Off => asked' \in Nat /\ asked' <= asked + 1 /\ asked \in Nat
      /\ asked' \in Age
  <2>1. asked # Off => asked <= Period
    BY <1>0, <1>1, Numbers DEF ServerInv, TypeOK, Age, Off
  <2> QED BY <1>0, <2>1, Numbers DEF Tick, TypeOK, Older, Age, Off
<1>7. sinceFailure' \in {Off} \cup 0..(RetryPeriod + 1)
  <2>1. /\ sinceFailure \in {Off} \cup 0..(RetryPeriod + 1)
        /\ sinceFailure' = Older(sinceFailure, RetryPeriod + 1)
    BY <1>0 DEF Tick, TypeOK
  <2> QED BY <2>1, Numbers DEF Older, Off
<1>8. sinceRequest' =
        IF serverTimer' = Off THEN Period ELSE Period - serverTimer'
  BY <1>0, <1>1, Numbers DEF Tick, ServerInv, Older, Off
<1>9. ServerInv'
  BY <1>0, <1>1, <1>6, <1>8, Numbers DEF ServerInv, Off
<1>10. WaitingInv'
  <2> SUFFICES ASSUME NEW c \in Clients
               PROVE  /\ isAnyActivity'[c] => clientTimer'[c] # Off
                      /\ waiting'[c] # Off =>
                           /\ serverTimer' # Off =>
                                waiting'[c] + serverTimer' <= Period
                           /\ OnItsWay(c)'
    BY DEF WaitingInv
  <2>1. isAnyActivity'[c] => clientTimer'[c] # Off
    BY <1>0, <1>2, Numbers DEF WaitingInv, Off
  <2>2. ASSUME waiting'[c] # Off, serverTimer' # Off
        PROVE  waiting'[c] + serverTimer' <= Period
    BY <1>0, <1>1, <1>4, <2>2, Numbers DEF WaitingInv
  <2>3. ASSUME waiting'[c] # Off PROVE OnItsWay(c)'
    <3>1. waiting[c] # Off /\ OnItsWay(c)
      BY <1>0, <1>4, <2>3 DEF WaitingInv
    <3>2. CASE isAnyActivity[c] /\ waiting[c] + clientTimer[c] <= Period
      <4>1. clientTimer[c] # Off
        BY <1>0, <3>2 DEF WaitingInv
      <4>2. waiting'[c] + clientTimer'[c] <= Period
        BY <1>2, <1>4, <3>1, <3>2, <4>1, Numbers
      <4> QED BY <1>0, <3>2, <4>2 DEF OnItsWay
    <3>3. ASSUME NEW i \in 1..Len(calls[c]),
                 waiting[c] <= Period + calls[c][i]
          PROVE  OnItsWay(c)'
      <4>1. /\ i \in 1..Len(calls'[c])
            /\ calls'[c][i] = calls[c][i] + 1 /\ calls[c][i] \in 0..Delay
        BY <1>3
      <4>2. waiting'[c] <= Period + calls'[c][i]
        BY <1>4, <3>1, <3>3, <4>1, Numbers
      <4> QED BY <4>1, <4>2 DEF OnItsWay
    <3>4. CASE isNewRequest
      BY <1>0, <3>4 DEF OnItsWay
    <3> QED BY <3>1, <3>2, <3>3, <3>4 DEF OnItsWay
  <2> QED BY <2>1, <2>2, <2>3
<1>11. IdleInv'
  <2>1. sinceActivity' # Off /\ idleAtRequest' <= Longest
    BY <1>0, <1>5 DEF IdleInv, Off
  <2>2. isNewRequest' => sinceActivity' + serverTimer' <= Longest
    <3> SUFFICES ASSUME isNewRequest'
                 PROVE  sinceActivity' + serverTimer' <= Longest
      OBVIOUS
    <3>1. serverTimer # Off /\ sinceActivity + serverTimer <= Longest
      BY <1>0 DEF IdleInv, ServerInv
    <3> QED BY <1>1, <1>5, <3>1, Numbers
  <2>3. ASSUME NEW c \in Clients, isAnyActivity'[c]
        PROVE  sinceActivity' + clientTimer'[c] <= Period
    <3>1. clientTimer[c] # Off /\ sinceActivity + clientTimer[c] <= Period
      BY <1>0, <2>3 DEF IdleInv, WaitingInv
    <3> QED BY <1>2, <1>5, <3>1, Numbers
  <2>4. ASSUME NEW c \in Clients, NEW i \in 1..Len(calls'[c])
        PROVE  sinceActivity' <= Period + calls'[c][i]
    <3>1. i \in 1..Len(calls[c])
      BY <1>3
    <3>2. calls'[c][i] = calls[c][i] + 1 /\ calls[c][i] \in 0..Delay
      BY <1>3, <3>1
    <3>3. sinceActivity <= Period + calls[c][i]
      BY <1>0, <3>1 DEF IdleInv
    <3> QED BY <1>5, <3>2, <3>3, Numbers
  <2> QED BY <2>1, <2>2, <2>3, <2>4 DEF IdleInv
<1>12. TypeOK'
  <2>1. clientTimer' \in [Clients -> Timer]
    BY <1>2, Numbers DEF Tick, Timer
  <2>2. calls' \in [Clients -> Seq(0..Delay)]
    BY <1>3 DEF Tick
  <2>3. waiting' \in [Clients -> Age]
    BY <1>4 DEF Tick
  <2>4. sinceRequest' \in 0..Period
    BY <1>1, <1>8, Numbers
  <2> QED BY <1>0, <1>1, <1>5, <1>6, <1>7, <2>1, <2>2, <2>3, <2>4
          DEF TypeOK, Timer
<1> QED BY <1>9, <1>10, <1>11, <1>12 DEF ActivityInv

LEMMA ActivityStep == ActivityInv /\ [Next]_vars => ActivityInv'
<1> SUFFICES ASSUME ActivityInv, [Next]_vars PROVE ActivityInv'
  OBVIOUS
<1>1. CASE UNCHANGED vars
  BY <1>1 DEF vars, clientVars, serverVars, history, requestHistory,
              ActivityInv, TypeOK, ServerInv, WaitingInv, OnItsWay, IdleInv
<1> QED
  BY <1>1, InitializeStep, CloseTabStep, OnAnyActivityStep, CheckActivityStep,
     ResetTimeoutStep, CheckNewRequestsStep, TickStep DEF Next

------------------------------------------------------------------------------
LEMMA ActivityInvariant == Spec => []ActivityInv
BY InitActivity, ActivityStep, PTL DEF Spec

\* Timers, calls and ages stay what they are declared to be.
THEOREM ActivityTypes == Spec => []TypeOK
<1>1. ActivityInv => TypeOK
  BY DEF ActivityInv
<1> QED BY <1>1, ActivityInvariant, PTL

\* An activity whose tab stays open is followed by a request within a period
\* and the delay of one call, however the two throttles are phased.
THEOREM NoActivityLost == Spec => []ActivityReported
<1>1. ActivityInv => ActivityReported
  <2> SUFFICES ASSUME ActivityInv, NEW c \in Clients
               PROVE  waiting[c] <= Period + Delay
    BY DEF ActivityReported
  <2>0. /\ TypeOK
        /\ waiting[c] \in Age /\ calls[c] \in Seq(0..Delay)
        /\ serverTimer \in Timer /\ clientTimer[c] \in Timer
    BY DEF ActivityInv, TypeOK
  <2>1. CASE waiting[c] # Off /\ isNewRequest
    <3>1. serverTimer # Off
      BY <2>1 DEF ActivityInv, ServerInv
    <3>2. waiting[c] + serverTimer <= Period
      BY <2>1, <3>1 DEF ActivityInv, WaitingInv
    <3>3. serverTimer \in 0..Period
      BY <2>0, <3>1 DEF Timer
    <3>4. waiting[c] \in 0..(Longest + 1)
      BY <2>0, <2>1 DEF Age
    <3> QED BY <3>2, <3>3, <3>4, Numbers
  <2>2. CASE isAnyActivity[c] /\ waiting[c] + clientTimer[c] <= Period
    <3>1. clientTimer[c] # Off
      BY <2>2 DEF ActivityInv, WaitingInv
    <3>2. clientTimer[c] \in 0..Period
      BY <2>0, <3>1 DEF Timer
    <3>3. waiting[c] \in Int
      BY <2>0, Numbers DEF Age, Off
    <3> QED BY <2>2, <3>2, <3>3, Numbers
  <2>3. ASSUME NEW i \in 1..Len(calls[c]), waiting[c] <= Period + calls[c][i]
        PROVE  waiting[c] <= Period + Delay
    <3>1. calls[c][i] \in 0..Delay
      BY <2>0, Ages
    <3> QED BY <2>0, <2>3, <3>1, Numbers DEF Age, Off
  <2>4. CASE waiting[c] = Off
    BY <2>4, Numbers DEF Off
  <2> QED BY <2>1, <2>2, <2>3, <2>4 DEF ActivityInv, WaitingInv, OnItsWay
<1> QED BY <1>1, ActivityInvariant, PTL

\* A call that reached the backend is followed by a request within a period.
THEOREM NoCallLost == Spec => []CallReported
<1>1. ActivityInv => CallReported
  <2> SUFFICES ASSUME ActivityInv PROVE asked <= Period
    BY DEF CallReported
  <2>1. asked \in Age /\ serverTimer \in Timer
    BY DEF ActivityInv, TypeOK
  <2>2. CASE asked = Off
    BY <2>2, Numbers DEF Off
  <2>3. CASE asked # Off
    <3>1. serverTimer # Off /\ asked + serverTimer <= Period
      BY <2>3 DEF ActivityInv, ServerInv
    <3>2. serverTimer \in 0..Period /\ asked \in 0..(Longest + 1)
      BY <2>1, <2>3, <3>1 DEF Timer, Age
    <3> QED BY <3>1, <3>2, Numbers
  <2> QED BY <2>2, <2>3
<1> QED BY <1>1, ActivityInvariant, PTL

\* Requests to the master are at least a period apart, however many tabs call.
THEOREM RequestsThrottled == Spec => []OneRequestPerPeriod
<1>1. ActivityInv => OneRequestPerPeriod
  BY Numbers DEF ActivityInv, ServerInv, OneRequestPerPeriod
<1> QED BY <1>1, ActivityInvariant, PTL

\* No request is later than two periods and a delay after the last activity.
THEOREM IdleWorkspaceSilent == Spec => []NoRequestWhenIdle
<1>1. ActivityInv => NoRequestWhenIdle
  BY DEF ActivityInv, IdleInv, NoRequestWhenIdle
<1> QED BY <1>1, ActivityInvariant, PTL

==============================================================================
