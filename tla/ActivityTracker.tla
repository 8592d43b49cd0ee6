---------------------------- MODULE ActivityTracker ----------------------------
(***************************************************************************)
(* Two chained throttles keep a workspace alive: every browser tab turns   *)
(* the activity of one period into one call to the backend, and the        *)
(* backend turns the calls of one period into one request to the workspace *)
(* master.  Time is discrete; a timer fires in the instant it is due, and  *)
(* a call takes at most Delay to reach the backend.                        *)
(***************************************************************************)
EXTENDS Integers, Sequences

CONSTANTS
  Clients,      \* page loads: a reloaded tab is another client
  Period,       \* REQUEST_PERIOD_MS, the same at both ends
  RetryPeriod,  \* RETRY_REQUEST_PERIOD_MS
  Delay         \* bound: the time a call takes to the backend

ASSUME ActivityAssumption ==
  Period \in Nat \ {0} /\ RetryPeriod \in 1..Period /\ Delay \in Nat

Off == -1   \* no timer, no such event
Longest == 2 * Period + Delay

VARIABLES
  tab,              \* "new", "open" or "closed"
  isAnyActivity,
  clientTimer,      \* time left, Off when isTimerRunning is false
  calls,            \* resetTimeout calls under way, by age
  isNewRequest,
  serverTimer,
  \* history, each a time capped just above what the properties tell apart
  waiting,          \* since the oldest activity no request followed yet
  asked,            \* since the oldest call no request followed yet
  sinceActivity,    \* since the last activity or the opening of a tab
  idleAtRequest,    \* sinceActivity when the last request was sent
  sinceRequest,     \* since the last request to the master
  gap,              \* between the last two requests
  sinceFailure      \* since the last request, if it failed

clientVars == <<tab, isAnyActivity, clientTimer>>
serverVars == <<isNewRequest, serverTimer>>
requestHistory == <<idleAtRequest, sinceRequest, gap, sinceFailure>>
history == <<waiting, asked, sinceActivity, requestHistory>>
vars == <<clientVars, calls, serverVars, history>>

Timer == {Off} \cup 0..Period
Age == {Off} \cup 0..(Longest + 1)

TypeOK ==
  /\ tab \in [Clients -> {"new", "open", "closed"}]
  /\ isAnyActivity \in [Clients -> BOOLEAN]
  /\ clientTimer \in [Clients -> Timer]
  /\ calls \in [Clients -> Seq(0..Delay)]
  /\ isNewRequest \in BOOLEAN
  /\ serverTimer \in Timer
  /\ waiting \in [Clients -> Age]
  /\ {asked, sinceActivity, idleAtRequest} \subseteq Age
  /\ sinceFailure \in {Off} \cup 0..(RetryPeriod + 1)
  /\ {sinceRequest, gap} \subseteq 0..Period

Init ==
  /\ tab = [c \in Clients |-> "new"]
  /\ isAnyActivity = [c \in Clients |-> FALSE]
  /\ clientTimer = [c \in Clients |-> Off]
  /\ calls = [c \in Clients |-> <<>>]
  /\ isNewRequest = FALSE
  /\ serverTimer = Off
  /\ waiting = [c \in Clients |-> Off]
  /\ asked = Off
  /\ sinceActivity = 0
  /\ idleAtRequest = 0
  /\ sinceRequest = Period
  /\ gap = Period
  /\ sinceFailure = Off

LateStart == Period + 1

TimerStart == Period

\* The age of an event that may already be counting.
Since(age) == IF age = Off THEN 0 ELSE age

------------------------------------------------------------------------------
(* A browser tab. *)

\* sendRequestAndSetTimer of the tab.
ClientSends(c) ==
  /\ calls' = [calls EXCEPT ![c] = Append(@, 0)]
  /\ isAnyActivity' = [isAnyActivity EXCEPT ![c] = FALSE]
  /\ clientTimer' = [clientTimer EXCEPT ![c] = TimerStart]

Active(c) ==
  /\ waiting' = [waiting EXCEPT ![c] = Since(@)]
  /\ sinceActivity' = 0
  /\ UNCHANGED <<asked, requestHistory>>

\* initialize: opening a tab counts as activity.
Initialize(c) ==
  /\ tab[c] = "new"
  /\ tab' = [tab EXCEPT ![c] = "open"]
  /\ ClientSends(c)
  /\ Active(c)
  /\ UNCHANGED serverVars

\* The tab goes away, with its flag and its timer; calls under way arrive.
CloseTab(c) ==
  /\ tab[c] = "open"
  /\ tab' = [tab EXCEPT ![c] = "closed"]
  /\ isAnyActivity' = [isAnyActivity EXCEPT ![c] = FALSE]
  /\ clientTimer' = [clientTimer EXCEPT ![c] = Off]
  /\ waiting' = [waiting EXCEPT ![c] = Off]
  /\ UNCHANGED <<calls, serverVars, asked, sinceActivity, requestHistory>>

OnAnyActivity(c) ==
  /\ tab[c] = "open"
  /\ IF clientTimer[c] = Off
     THEN ClientSends(c)
     ELSE /\ isAnyActivity' = [isAnyActivity EXCEPT ![c] = TRUE]
          /\ UNCHANGED <<calls, clientTimer>>
  /\ Active(c)
  /\ UNCHANGED <<tab, serverVars>>

CheckActivityTimerCallback(c) ==
  /\ clientTimer[c] = 0
  /\ IF isAnyActivity[c]
     THEN ClientSends(c)
     ELSE /\ clientTimer' = [clientTimer EXCEPT ![c] = Off]
          /\ UNCHANGED <<calls, isAnyActivity>>
  /\ UNCHANGED <<tab, serverVars, history>>

------------------------------------------------------------------------------
(* The backend. *)

KeepsFlag(flag) == flag

ClearsFlag(flag) == FALSE

\* sendRequestAndSetTimer of the backend.  The request may fail: its promise
\* rejects, which the try block around the call does not see, so nothing
\* else happens.
ServerSends ==
  /\ isNewRequest' = ClearsFlag(isNewRequest)
  /\ serverTimer' = TimerStart
  /\ waiting' = [c \in Clients |-> Off]
  /\ asked' = Off
  /\ idleAtRequest' = sinceActivity
  /\ gap' = sinceRequest
  /\ sinceRequest' = 0
  /\ sinceFailure' \in {Off, 0}
  /\ UNCHANGED sinceActivity

NeverRunning(timer) == FALSE

IsTimerRunning(timer) == timer # Off

ForgetsRequest(flag) == flag

NotesRequest(flag) == TRUE

\* A call of the tab c arrives.
ResetTimeout(c) ==
  /\ calls[c] # <<>>
  /\ calls' = [calls EXCEPT ![c] = Tail(@)]
  /\ IF IsTimerRunning(serverTimer)
     THEN /\ isNewRequest' = NotesRequest(isNewRequest)
          /\ asked' = Since(asked)
          /\ UNCHANGED <<serverTimer, waiting, sinceActivity, requestHistory>>
     ELSE ServerSends
  /\ UNCHANGED clientVars

CheckNewRequestsTimerCallback ==
  /\ serverTimer = 0
  /\ IF isNewRequest
     THEN ServerSends
     ELSE /\ serverTimer' = Off
          /\ UNCHANGED <<isNewRequest, history>>
  /\ UNCHANGED <<clientVars, calls>>

------------------------------------------------------------------------------
Countdown(t) == IF t = Off THEN Off ELSE t - 1

Older(age, cap) == IF age \in {Off, cap} THEN age ELSE age + 1

\* Time passes when no timer and no call is due.
Tick ==
  /\ serverTimer # 0
  /\ \A c \in Clients : /\ clientTimer[c] # 0
                        /\ \A i \in 1..Len(calls[c]) : calls[c][i] < Delay
  /\ serverTimer' = Countdown(serverTimer)
  /\ clientTimer' = [c \in Clients |-> Countdown(clientTimer[c])]
  /\ calls' = [c \in Clients |->
                 [i \in 1..Len(calls[c]) |-> calls[c][i] + 1]]
  /\ waiting' = [c \in Clients |-> Older(waiting[c], Period + Delay + 1)]
  /\ asked' = Older(asked, Period + 1)
  /\ sinceActivity' = Older(sinceActivity, Longest + 1)
  /\ sinceRequest' = Older(sinceRequest, Period)
  /\ sinceFailure' = Older(sinceFailure, RetryPeriod + 1)
  /\ UNCHANGED <<tab, isAnyActivity, isNewRequest, idleAtRequest, gap>>

Next ==
  \/ \E c \in Clients :
       \/ Initialize(c) \/ CloseTab(c) \/ OnAnyActivity(c)
       \/ CheckActivityTimerCallback(c) \/ ResetTimeout(c)
  \/ CheckNewRequestsTimerCallback
  \/ Tick

Spec == Init /\ [][Next]_vars

------------------------------------------------------------------------------
(* Properties. *)

\* No activity is dropped between the two throttles: unless its tab closes, a
\* request follows it within one period and the delay of a call.  The second
\* throttle adds nothing: one that is running when the call comes was started
\* by a request that followed the activity too, or started before it and ends
\* within that period.
ActivityReported == \A c \in Clients : waiting[c] <= Period + Delay

\* A call the backend has received is followed by a request within a period,
\* even when its tab is gone.
CallReported == asked <= Period

\* However many tabs call, two requests are at least a period apart.
OneRequestPerPeriod == gap >= Period

\* The workspace is not kept alive by nothing: a request follows some
\* activity by no more than the two periods and the delay.
NoRequestWhenIdle == idleAtRequest <= Longest

\* "Time before resending request to workspace master if a network error
\* occurs": after a failure another request follows within RetryPeriod.
RetriedAfterError == sinceFailure <= RetryPeriod
==============================================================================
