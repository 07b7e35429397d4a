--------------------------- MODULE ActivityTimer ---------------------------
(***************************************************************************)
(* The inactivity timer of a connection: ActivityTimer                     *)
(* (common/signal/timer.go) and the task.Periodic it runs its check in     *)
(* (common/task/periodic.go).  The two directions of a relay call Update   *)
(* for every buffer and SetTimeout when they end, so that SetTimeout may   *)
(* run while the task of the earlier timeout does.                         *)
(*                                                                         *)
(* A task is named after the call of SetTimeout that makes it; First is    *)
(* the task of CancelAfterInactivity.  At most one goroutine is in a task  *)
(* at a time: the caller of Start, which is the caller of SetTimeout, and  *)
(* after it one callback of time.AfterFunc after the other.                *)
(***************************************************************************)
CONSTANTS
  Setters,       \* the calls of SetTimeout, one for each direction
  First          \* the task there is at the beginning

Tasks == Setters \cup {First}
NoTask == "no task"

VARIABLES
  pc,            \* pc[t]: where the caller that makes t, or the callback of t, is
  running,       \* running[t]: Periodic.running
  armed,         \* armed[t]: the time.Timer of t is set
  mu,            \* the task whose goroutine holds t.mu, or NoTask
  updated,       \* a value is in the channel t.updated
  consumed,      \* t.consumed
  once,          \* t.once: "new", "running" or "done"
  checkTask,     \* t.checkTask
  fired,         \* onTimeout has been called
  active         \* there will be more calls of Update

vars == <<pc, running, armed, mu, updated, consumed, once, checkTask, fired, active>>

\* CancelAfterInactivity has returned.
Init ==
  /\ pc = [t \in Tasks |-> IF t = First THEN "waiting" ELSE "calling"]
  /\ running = [t \in Tasks |-> t = First]
  /\ armed = [t \in Tasks |-> t = First]
  /\ mu = NoTask
  /\ updated = FALSE
  /\ consumed = FALSE
  /\ once = "new"
  /\ checkTask = First
  /\ fired = FALSE
  /\ active = TRUE

Goto(t, l) == pc' = [pc EXCEPT ![t] = l]

-----------------------------------------------------------------------------

\* Data passes; Stop is the last time it does.
Update ==
  /\ active
  /\ updated' = TRUE
  /\ UNCHANGED <<pc, running, armed, mu, consumed, once, checkTask, fired, active>>

Stop ==
  /\ active
  /\ active' = FALSE
  /\ UNCHANGED <<pc, running, armed, mu, updated, consumed, once, checkTask, fired>>

\* SetTimeout before it locks t.mu; a timeout of zero finishes at once.
SetTimeout(s) ==
  /\ pc[s] = "calling"
  /\ \/ consumed /\ Goto(s, "ended")
     \/ ~ consumed /\ (Goto(s, "finish") \/ Goto(s, "lock"))
  /\ UNCHANGED <<running, armed, mu, updated, consumed, once, checkTask, fired, active>>

\* Periodic.Close: a callback that has begun goes on.
Close(t) ==
  /\ running' = [running EXCEPT ![t] = FALSE]
  /\ armed' = [armed EXCEPT ![t] = FALSE]

\* Under t.mu: the old task is closed, unless the timer has been consumed.
ReplaceTask(s) ==
  /\ pc[s] = "lock" /\ mu = NoTask
  /\ \/ /\ consumed
        /\ Goto(s, "ended")
        /\ UNCHANGED <<mu, running, armed, checkTask>>
     \/ /\ ~ consumed
        /\ mu' = s
        /\ Close(checkTask)
        /\ checkTask' = s
        /\ Goto(s, "start")
  /\ UNCHANGED <<updated, consumed, once, fired, active>>

\* Update, and Start up to the first check.
StartTask(s) ==
  /\ pc[s] = "start"
  /\ updated' = TRUE
  /\ running' = [running EXCEPT ![s] = TRUE]
  /\ Goto(s, "hasClosed")
  /\ UNCHANGED <<armed, mu, consumed, once, checkTask, fired, active>>

\* The timer of a task runs out.
Fire(t) ==
  /\ armed[t] /\ pc[t] = "waiting"
  /\ armed' = [armed EXCEPT ![t] = FALSE]
  /\ Goto(t, "hasClosed")
  /\ UNCHANGED <<running, mu, updated, consumed, once, checkTask, fired, active>>

hasClosed(t) ==
  /\ pc[t] = "hasClosed"
  /\ Goto(t, IF running[t] THEN "check" ELSE "ended")
  /\ UNCHANGED <<running, armed, mu, updated, consumed, once, checkTask, fired, active>>

check(t) ==
  /\ pc[t] = "check"
  /\ updated' = FALSE
  /\ Goto(t, IF updated THEN "rearm" ELSE "finish")
  /\ UNCHANGED <<running, armed, mu, consumed, once, checkTask, fired, active>>

\* once.Do: the first caller goes in, the others wait for it.
finish(t) ==
  /\ pc[t] = "finish"
  /\ \/ /\ once = "new"
        /\ once' = "running" /\ consumed' = TRUE
        /\ Goto(t, "finishing")
     \/ /\ once = "done"
        /\ Goto(t, "rearm")
        /\ UNCHANGED <<once, consumed>>
  /\ UNCHANGED <<running, armed, mu, updated, checkTask, fired, active>>

\* The function of once.Do after it has stored consumed: it locks t.mu.
Finishing(t) ==
  /\ pc[t] = "finishing" /\ mu = NoTask
  /\ Close(checkTask)
  /\ fired' = TRUE
  /\ once' = "done"
  /\ Goto(t, "rearm")
  /\ UNCHANGED <<mu, updated, consumed, checkTask, active>>

\* The end of checkedExecute, or of SetTimeout(0), which has no task to go on
\* with; SetTimeout unlocks t.mu when Start returns.
Rearm(t) ==
  /\ pc[t] = "rearm"
  /\ armed' = [armed EXCEPT ![t] = running[t]]
  /\ mu' = IF mu = t THEN NoTask ELSE mu
  /\ Goto(t, IF running[t] THEN "waiting" ELSE "ended")
  /\ UNCHANGED <<running, updated, consumed, once, checkTask, fired, active>>

-----------------------------------------------------------------------------
Goroutine(t) ==
  \/ SetTimeout(t)
  \/ ReplaceTask(t)
  \/ StartTask(t)
  \/ Fire(t)
  \/ hasClosed(t)
  \/ check(t)
  \/ finish(t)
  \/ Finishing(t)
  \/ Rearm(t)

Next == Update \/ Stop \/ \E t \in Tasks : Goroutine(t)

\* Goroutines are scheduled and timers run out; data need not stop.
FairSpec == Init /\ [][Next]_vars /\ \A t \in Tasks : WF_vars(Goroutine(t))

-----------------------------------------------------------------------------

\* What TestActivityTimer and TestActivityTimerUpdate expect: once no more data
\* passes, the timeout function is called, with SetTimeout or without.  It is
\* not when the old task takes the value of the Update in SetTimeout before the
\* new task looks for it: the new task finishes the timer inside SetTimeout and
\* waits for the mutex that SetTimeout holds.
TimesOut == ~ active ~> fired
=============================================================================
