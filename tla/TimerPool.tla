----------------------------- MODULE TimerPool -----------------------------
(***************************************************************************)
(* The pool of timers, src/src/app/timer_pool.cpp and                      *)
(* src/include/notf/app/timer_pool.hpp.                                    *)
(*                                                                         *)
(* User threads start, stop and discard timers.  A started timer is pushed *)
(* into a bounded channel; on the thread of the pool one fiber, the loop,  *)
(* pops it and launches a fiber for it, which waits for the timeout of the *)
(* timer and fires it until the timer is over.  Fibers of one thread do    *)
(* not preempt each other: only one is busy at a time, until it waits,     *)
(* ends or blocks in the callback of its timer.                            *)
(*                                                                         *)
(* A time is abstracted to whether it has passed: due says that the next   *)
(* timeout of a timer lies in the past.                                    *)
(***************************************************************************)
EXTENDS Naturals, Sequences

CONSTANTS Timers,    \* every timer that is ever started
          Kinds,     \* the combinations of kinds of timers, see TimerKinds
          Infinite,  \* Timer::infinite, the largest number of repetitions
          Capacity   \* places in the channel, one less than its buffer size

\* repetitions: what the constructor of the Timer is given
\* oneshot:     a OneShotTimer; an IntervalTimer or VariableTimer otherwise
\* variable:    the function of a VariableTimer, which can throw
\* keep_alive, detached, ignore: m_keep_alive, m_is_detached, m_ignore_exceptions
\* blocks:      the callback waits for something on its fiber
\* slow:        the callback can outlast the interval
TimerKinds ==
  [repetitions : 0..Infinite, oneshot : BOOLEAN, variable : BOOLEAN,
   keep_alive : BOOLEAN, detached : BOOLEAN, ignore : BOOLEAN,
   blocks : BOOLEAN, slow : BOOLEAN]

ASSUME InfiniteAssumption == Infinite \in Nat \ {0}
ASSUME CapacityAssumption == Capacity \in Nat \ {0}
ASSUME KindsAssumption ==
  \A k \in Kinds :
    /\ k \in [Timers -> TimerKinds]
    /\ \A t \in Timers : k[t].oneshot => k[t].repetitions = Infinite

VARIABLES
  kind,    \* the kind of each timer, chosen at first
  buffer,  \* m_buffer
  closed,  \* the channel is closed: the destructor has begun
  pool,    \* the pool's thread, see PoolStates
  state,   \* m_state of each timer
  left,    \* m_repetitions_left of each timer
  owned,   \* timers that somebody outside of the pool holds
  at,      \* position of each timer, see Positions
  due,     \* timers whose next timeout has passed
  fired,   \* history: callbacks of each timer that is not infinite
  quit,    \* history: timers that the user stopped or gave up while running
  late,    \* history: callbacks of each timer after that
  failed   \* history: timers with an error that counted or was not ignored

users == <<kind, owned, quit>>
history == <<fired, late, failed>>
vars == <<kind, buffer, closed, pool, state, left, owned, at, due,
          fired, quit, late, failed>>

\* "over": the loop's fiber has ended; "gone": so has the thread's function,
\* and the mutex and the condition of all timers with it; "joined": the thread
PoolStates == {"loop", "over", "gone", "joined"}

States == {"UNSTARTED", "RUNNING", "FINISHED"}

\* Positions in which a fiber occupies the thread.
BusyPositions == {"check", "spin", "fire", "firing", "lambda"}
Positions == {"new", "pushing", "queued", "waiting", "blocked",
              "ended", "dropped", "undefined"} \cup BusyPositions

Active(t) == state[t] = "RUNNING"
Busy(t) == at[t] \in BusyPositions
Idle == \A t \in Timers : ~ Busy(t)

\* Somebody keeps the timer alive, as seen by the fiber that has let go of it.
Kept(t) == kind[t].detached \/ t \in owned

Go(t, position) == at' = [at EXCEPT ![t] = position]

Init ==
  /\ kind \in Kinds
  /\ buffer = <<>>
  /\ closed = FALSE
  /\ pool = "loop"
  /\ state = [t \in Timers |->
                IF kind[t].repetitions = 0 THEN "FINISHED" ELSE "UNSTARTED"]
  /\ left = [t \in Timers |-> kind[t].repetitions]
  /\ owned = Timers
  /\ at = [t \in Timers |-> "new"]
  /\ due = {}
  /\ fired = [t \in Timers |-> 0]
  /\ quit = {}
  /\ late = [t \in Timers |-> 0]
  /\ failed = {}

-----------------------------------------------------------------------------
(* The users *)

\* start, up to the push.  While the pool is being destroyed there is no
\* TheTimerPool: the call throws, and leaves the timer RUNNING.
Start(t) ==
  /\ at[t] = "new" /\ state[t] = "UNSTARTED"
  /\ state' = [state EXCEPT ![t] = "RUNNING"]
  /\ Go(t, IF closed THEN "dropped" ELSE "pushing")
  /\ UNCHANGED <<buffer, closed, pool, left, due, users, history>>

\* Mutant of Push: the channel has no limit.
PushUnbounded(t) ==
  /\ at[t] = "pushing"
  /\ buffer' = IF closed THEN buffer ELSE Append(buffer, t)
  /\ Go(t, IF closed THEN "dropped" ELSE "queued")
  /\ UNCHANGED <<closed, pool, state, left, due, users, history>>

\* schedule: refused by a closed channel, blocked by a full one.
Push(t) ==
  /\ at[t] = "pushing"
  /\ closed \/ Len(buffer) < Capacity
  /\ buffer' = IF closed THEN buffer ELSE Append(buffer, t)
  /\ Go(t, IF closed THEN "dropped" ELSE "queued")
  /\ UNCHANGED <<closed, pool, state, left, due, users, history>>

Stop(t) ==
  /\ Active(t)
  /\ state' = [state EXCEPT ![t] = "FINISHED"]
  /\ quit' = quit \cup {t}
  /\ UNCHANGED <<kind, buffer, closed, pool, left, owned, at, due, history>>

\* The last TimerPtr outside of the pool goes.  A call of start holds one.
Discard(t) ==
  /\ t \in owned /\ at[t] \notin {"new", "pushing"}
  /\ owned' = owned \ {t}
  /\ quit' = IF Active(t) /\ ~ kind[t].detached THEN quit \cup {t} ELSE quit
  /\ UNCHANGED <<kind, buffer, closed, pool, state, left, at, due, history>>

\* The destructor closes the channel before it joins the thread.
Close ==
  /\ ~ closed
  /\ closed' = TRUE
  /\ UNCHANGED <<buffer, pool, state, left, at, due, users, history>>

\* The next timeout passes.  Only a callback that is slow outlasts it.
Expire(t) ==
  /\ t \notin due
  /\ \/ at[t] \in {"queued", "waiting", "blocked", "spin"}
     \/ at[t] = "lambda" /\ kind[t].slow
  /\ due' = due \cup {t}
  /\ UNCHANGED <<buffer, closed, pool, state, left, at, users, history>>

-----------------------------------------------------------------------------
(* The fiber of a timer *)

\* Mutant of Wait: a closed channel ends only the timers that wait already.
WaitUnclosed(t) ==
  IF pool = "gone" THEN "undefined" ELSE IF closed THEN "spin" ELSE "waiting"

\* The wait locks a mutex that is gone when the loop's thread is, and does not
\* begin once the channel is closed: only a timer that keeps the pool alive
\* goes on then, without ever giving up the thread.
Wait(t) ==
  IF pool = "gone" THEN "undefined"
  ELSE IF ~ closed THEN "waiting"
  ELSE IF kind[t].keep_alive THEN "spin" ELSE "ended"

\* Mutant of Check: the fiber keeps the timer that it holds.
CheckHeld(t) ==
  /\ at[t] \in {"check", "spin"}
  /\ Go(t, IF ~ Active(t) THEN "ended" ELSE IF t \in due THEN "fire" ELSE Wait(t))
  /\ UNCHANGED <<buffer, closed, pool, state, left, due, users, history>>

\* Lets go of the timer, takes it again and, unless it is due, waits.
Check(t) ==
  /\ at[t] \in {"check", "spin"}
  /\ Go(t, IF ~ (Kept(t) /\ Active(t)) THEN "ended"
           ELSE IF t \in due THEN "fire" ELSE Wait(t))
  /\ UNCHANGED <<buffer, closed, pool, state, left, due, users, history>>

\* Mutant of Wake: a timer that is closed out does not ask for m_keep_alive.
WakeToEnd(t) ==
  /\ at[t] = "waiting" /\ Idle
  /\ t \in due \/ pool # "loop"
  /\ Go(t, IF closed THEN "ended" ELSE "check")
  /\ UNCHANGED <<buffer, closed, pool, state, left, due, users, history>>

\* wait_until returns, at the timeout or notified by the end of the loop, and
\* in either case tells whether the channel is closed.
Wake(t) ==
  /\ at[t] = "waiting" /\ Idle
  /\ t \in due \/ pool # "loop"
  /\ Go(t, IF closed /\ ~ kind[t].keep_alive THEN "ended" ELSE "check")
  /\ UNCHANGED <<buffer, closed, pool, state, left, due, users, history>>

\* fire tests again whether the timer is active.
Enter(t) ==
  /\ at[t] = "fire"
  /\ Go(t, IF Active(t) THEN "firing" ELSE "check")
  /\ UNCHANGED <<buffer, closed, pool, state, left, due, users, history>>

\* Timers whose end can be counted.
Counted(t) == kind[t].oneshot \/ kind[t].repetitions # Infinite

\* _fire, up to the callback: a OneShotTimer stops, any other resets its timeout.
Invoke(t) ==
  /\ at[t] = "firing"
  /\ state' = IF kind[t].oneshot THEN [state EXCEPT ![t] = "FINISHED"] ELSE state
  /\ due' = IF kind[t].oneshot THEN due ELSE due \ {t}
  /\ fired' = IF Counted(t) THEN [fired EXCEPT ![t] = @ + 1] ELSE fired
  /\ late' = IF t \in quit THEN [late EXCEPT ![t] = @ + 1] ELSE late
  /\ Go(t, "lambda")
  /\ UNCHANGED <<buffer, closed, pool, left, users, failed>>

\* Mutant of CountDown: stops one repetition late.
CountDownLate(t, stopped) ==
  /\ left' = IF left[t] \in {0, Infinite} THEN left ELSE [left EXCEPT ![t] = @ - 1]
  /\ state' = IF stopped \/ left[t] = 0
              THEN [state EXCEPT ![t] = "FINISHED"] ELSE state

\* The rest of fire: an error that is not ignored stops the timer, and so does
\* the last repetition.
CountDown(t, stopped) ==
  /\ left' = IF left[t] = Infinite THEN left ELSE [left EXCEPT ![t] = @ - 1]
  /\ state' = IF stopped \/ (left[t] # Infinite /\ left[t] = 1)
              THEN [state EXCEPT ![t] = "FINISHED"] ELSE state

Return(t) ==
  /\ at[t] = "lambda" \/ (at[t] = "blocked" /\ Idle)
  /\ CountDown(t, FALSE)
  /\ Go(t, "check")
  /\ UNCHANGED <<buffer, closed, pool, due, users, history>>

Throw(t) ==
  /\ at[t] = "lambda" \/ (at[t] = "blocked" /\ Idle)
  /\ CountDown(t, ~ kind[t].ignore)
  /\ failed' = IF kind[t].ignore THEN failed ELSE failed \cup {t}
  /\ Go(t, "check")
  /\ UNCHANGED <<buffer, closed, pool, due, users, fired, late>>

\* The function of a VariableTimer throws, or returns a time that has passed:
\* the callback does not run and the timer stays due, but a repetition counts.
Refuse(t) ==
  /\ at[t] = "firing" /\ kind[t].variable
  /\ CountDown(t, ~ kind[t].ignore)
  /\ failed' = failed \cup {t}
  /\ Go(t, "check")
  /\ UNCHANGED <<buffer, closed, pool, due, users, fired, late>>

Suspend(t) ==
  /\ at[t] = "lambda" /\ kind[t].blocks
  /\ Go(t, "blocked")
  /\ UNCHANGED <<buffer, closed, pool, state, left, due, users, history>>

Run(t) == \/ Check(t) \/ Enter(t) \/ Invoke(t) \/ Return(t) \/ Throw(t)
          \/ Refuse(t) \/ Suspend(t)

-----------------------------------------------------------------------------
(* The thread of the pool *)

\* The loop pops a timer and dispatches its fiber, which runs at once.
Launch ==
  /\ pool = "loop" /\ Idle
  /\ buffer # <<>>
  /\ buffer' = Tail(buffer)
  /\ Go(Head(buffer), "check")
  /\ UNCHANGED <<closed, pool, state, left, due, users, history>>

\* Mutant of LoopEnd: a closed channel is not emptied.
LoopEndAtOnce ==
  /\ pool = "loop" /\ Idle
  /\ closed
  /\ pool' = "over"
  /\ UNCHANGED <<buffer, closed, state, left, at, due, users, history>>

\* The channel is closed and empty.
LoopEnd ==
  /\ pool = "loop" /\ Idle
  /\ closed /\ buffer = <<>>
  /\ pool' = "over"
  /\ UNCHANGED <<buffer, closed, state, left, at, due, users, history>>

\* The fiber of the thread itself joins that of the loop and ends the function,
\* after those that were notified before it.
MainEnd ==
  /\ pool = "over" /\ Idle
  /\ \A t \in Timers : at[t] # "waiting"
  /\ pool' = "gone"
  /\ UNCHANGED <<buffer, closed, state, left, at, due, users, history>>

\* A thread ends when all of its fibers have, the detached ones included.
Join ==
  /\ pool = "gone" /\ Idle
  /\ \A t \in Timers : at[t] # "blocked"
  /\ pool' = "joined"
  /\ UNCHANGED <<buffer, closed, state, left, at, due, users, history>>

Thread == Launch \/ LoopEnd \/ MainEnd \/ Join

-----------------------------------------------------------------------------
\* A fiber has used the mutex that is gone: from here on anything can happen,
\* and no liveness is claimed.
Undefined == \E t \in Timers : at[t] = "undefined"

Next ==
  \/ \E t \in Timers : \/ Start(t) \/ Push(t) \/ Stop(t) \/ Discard(t)
                       \/ Expire(t) \/ Wake(t) \/ Run(t)
  \/ Close
  \/ Thread

\* The fiber on the thread goes on, a blocked push returns when it can, time
\* passes and what a callback waits for comes.  Fibers that are ready are taken
\* in turn (round_robin, the default of Boost.Fiber), hence SF where another
\* fiber can get the thread first.  Nobody needs to start, stop or close.
Fairness ==
  /\ \A t \in Timers :
       /\ WF_vars(Busy(t) /\ Run(t))
       /\ WF_vars(Push(t) \/ Expire(t))
       /\ SF_vars(Wake(t))
       /\ SF_vars(at[t] = "blocked" /\ Run(t))
  /\ SF_vars(Thread)

Spec == Init /\ [][Next]_vars /\ Fairness

-----------------------------------------------------------------------------
(* Properties *)

\* The variables have their types; the channel keeps its capacity.
TypeOK ==
  /\ kind \in Kinds
  /\ buffer \in Seq(Timers) /\ Len(buffer) <= Capacity
  /\ closed \in BOOLEAN
  /\ pool \in PoolStates
  /\ state \in [Timers -> States]
  /\ left \in [Timers -> 0..Infinite]
  /\ owned \in SUBSET Timers
  /\ at \in [Timers -> Positions]
  /\ due \in SUBSET Timers
  /\ fired \in [Timers -> Nat]
  /\ quit \in SUBSET Timers
  /\ late \in [Timers -> Nat]
  /\ failed \in SUBSET Timers

\* A timer that is stopped ("prevents it from firing again",
\* timer_pool.hpp:150) or given up fires once more at most: its fiber may be on
\* the way from its last test to the callback.
OneLateFiring == \A t \in Timers : late[t] <= 1

\* A timer never fires more often than it was told, and one that finishes by
\* itself has fired exactly that often, a OneShotTimer once.
FiresAsOften ==
  \A t \in Timers : Counted(t) =>
    LET n == IF kind[t].oneshot THEN 1 ELSE kind[t].repetitions
    IN  /\ fired[t] <= n
        /\ state[t] = "FINISHED" /\ t \notin quit \cup failed => fired[t] = n

\* A timer that keeps the pool alive is never ended by the pool: its fiber ends
\* when the timer has finished or nobody wants it any more.
KeepAliveIsKept ==
  \A t \in Timers : at[t] = "ended" /\ kind[t].keep_alive =>
    state[t] = "FINISHED" \/ t \in quit

\* A timer that the pool accepted and that has an end reaches it, unless the
\* user ends it first, or the pool is closed and the timer need not be kept.
RunsOut ==
  \A t \in Timers :
    (at[t] = "queued" /\ Counted(t)) ~>
      \/ state[t] = "FINISHED" \/ t \in quit
      \/ closed /\ ~ kind[t].keep_alive
      \/ Undefined

\* "Closes the Pool for new Timer and shuts down all running ones. Timers with
\* the "keep-alive" flag will block until they've finished on their own"
\* (timer_pool.hpp:39): the destructor returns.
CloseReturns == closed ~> pool = "joined" \/ Undefined
=============================================================================
