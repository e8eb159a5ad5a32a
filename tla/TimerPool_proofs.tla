-------------------------- MODULE TimerPool_proofs --------------------------
(***************************************************************************)
(* Proofs about TimerPool, for every set of timers, of any kinds, and every *)
(* capacity of the channel: how often a timer fires, also after it has been *)
(* stopped, and that a timer which keeps the pool alive is not cut off.    *)
(***************************************************************************)
EXTENDS TimerPool, TLAPS

\* On the way from the first test of is_active to the callback.
Bound(t) == at[t] \in {"fire", "firing"}

\* The callback has been called and has not returned.
Inside(t) == at[t] \in {"lambda", "blocked"}

\* A timer waits in the channel once, and is "queued" as long as it does.
Queue ==
  /\ \A i \in DOMAIN buffer : at[buffer[i]] = "queued"
  /\ \A i, j \in DOMAIN buffer : buffer[i] = buffer[j] => i = j

\* A timer that can fire has repetitions left.
Stock(t) ==
  /\ state[t] # "FINISHED" \/ at[t] = "firing" \/ Inside(t) => left[t] >= 1
  /\ left[t] <= kind[t].repetitions
  /\ kind[t].repetitions = Infinite => left[t] = Infinite

\* Who ended a timer: one that nobody keeps, or that is not active, stays so.
Ending(t) ==
  /\ state[t] = "UNSTARTED" => at[t] = "new"
  /\ t \in quit => state[t] = "FINISHED" \/ ~ Kept(t)
  /\ ~ Kept(t) => state[t] = "FINISHED" \/ t \in quit
  /\ t \notin owned => at[t] \notin {"new", "pushing"}
  /\ at[t] = "ended" /\ kind[t].keep_alive => state[t] = "FINISHED" \/ t \in quit

\* A late callback has been on its way when the timer was stopped.
Lateness(t) ==
  /\ Bound(t) => late[t] = 0
  /\ late[t] <= 1
  /\ late[t] # 0 => t \in quit

\* A timer that finished by itself.
Spent(t) == state[t] = "FINISHED" /\ t \notin quit \cup failed

\* The callbacks of a OneShotTimer.
Single(t) ==
  kind[t].oneshot =>
    /\ fired[t] <= 1
    /\ state[t] # "FINISHED" \/ Bound(t) => fired[t] = 0
    /\ Spent(t) => fired[t] = 1

\* Every repetition of another timer was a callback, unless one has failed.
Repeated(t) ==
  ~ kind[t].oneshot /\ kind[t].repetitions # Infinite =>
    LET n == kind[t].repetitions + (IF Inside(t) THEN 1 ELSE 0)
    IN  /\ fired[t] + left[t] <= n
        /\ t \notin failed => fired[t] + left[t] = n
        /\ Spent(t) => left[t] = 0 /\ ~ Bound(t) /\ ~ Inside(t)

Course(t) == Stock(t) /\ Ending(t) /\ Lateness(t) /\ Single(t) /\ Repeated(t)

IInv == TypeOK /\ Queue /\ \A t \in Timers : Course(t)

USE InfiniteAssumption, CapacityAssumption

\* Every timer has one of the TimerKinds.
LEMMA KindOf ==
  ASSUME TypeOK, NEW t \in Timers
  PROVE  /\ kind[t] \in TimerKinds
         /\ kind[t].oneshot => kind[t].repetitions = Infinite
         /\ kind[t].repetitions \in 0..Infinite
         /\ kind[t].oneshot \in BOOLEAN /\ kind[t].keep_alive \in BOOLEAN
         /\ kind[t].detached \in BOOLEAN /\ kind[t].ignore \in BOOLEAN
<1>1. kind \in [Timers -> TimerKinds] /\ (kind[t].oneshot => kind[t].repetitions = Infinite)
  BY KindsAssumption DEF TypeOK
<1>2. kind[t] \in TimerKinds
  BY <1>1
<1>3. QED
  BY <1>1, <1>2 DEF TimerKinds

LEMMA InitHolds == Init => IInv
<1> SUFFICES ASSUME Init
             PROVE  IInv
  OBVIOUS
<1>1. \A t \in Timers : kind[t] \in TimerKinds
  BY KindsAssumption DEF Init
<1>2. \A t \in Timers : kind[t].repetitions \in 0..Infinite
  BY <1>1 DEF TimerKinds
<1>3. TypeOK
  <2>1. buffer \in Seq(Timers) /\ Len(buffer) <= Capacity
    BY DEF Init
  <2>2. left \in [Timers -> 0..Infinite] /\ state \in [Timers -> States]
    BY <1>2 DEF Init, States
  <2>3. at \in [Timers -> Positions]
    BY DEF Init, Positions
  <2>4. QED
    BY <2>1, <2>2, <2>3 DEF Init, TypeOK, PoolStates
<1>4. Queue
  BY DEF Init, Queue
<1>5. ASSUME NEW t \in Timers
      PROVE  Course(t)
  <2>1. /\ kind[t].repetitions \in 0..Infinite
        /\ kind[t].oneshot => kind[t].repetitions = Infinite
        /\ left[t] = kind[t].repetitions /\ fired[t] = 0 /\ late[t] = 0
        /\ at[t] = "new" /\ t \in owned /\ t \notin quit
        /\ state[t] = IF kind[t].repetitions = 0 THEN "FINISHED" ELSE "UNSTARTED"
    BY <1>2, <1>3, KindOf DEF Init
  <2>2. QED
    BY <2>1 DEF Course, Stock, Ending, Lateness, Single, Repeated, Spent,
                Active, Bound, Inside, Kept
<1>6. QED
  BY <1>3, <1>4, <1>5 DEF IInv

-----------------------------------------------------------------------------
(* Types *)

\* What an action of t writes at most.
Writes(t) ==
  /\ kind' = kind
  /\ \E x \in States : state' = [state EXCEPT ![t] = x]
  /\ \E x \in 0..Infinite : left' = [left EXCEPT ![t] = x]
  /\ \E x \in Positions : at' = [at EXCEPT ![t] = x]
  /\ \E x \in Nat : fired' = [fired EXCEPT ![t] = x]
  /\ \E x \in Nat : late' = [late EXCEPT ![t] = x]
  /\ owned' \in SUBSET Timers /\ owned' \ {t} = owned \ {t}
  /\ quit' \in SUBSET Timers /\ quit' \ {t} = quit \ {t}
  /\ failed' \in SUBSET Timers /\ failed' \ {t} = failed \ {t}
  /\ due' \in SUBSET Timers

\* Another timer is not concerned.
LEMMA OthersStay ==
  ASSUME TypeOK, NEW t \in Timers, NEW u \in Timers, u # t, Writes(t), Course(u)
  PROVE  Course(u)'
<1>1. /\ state'[u] = state[u] /\ left'[u] = left[u] /\ at'[u] = at[u]
      /\ fired'[u] = fired[u] /\ late'[u] = late[u] /\ kind'[u] = kind[u]
  BY DEF Writes, TypeOK
<1>2. /\ u \in owned' <=> u \in owned
      /\ u \in quit' <=> u \in quit
      /\ u \in failed' <=> u \in failed
  BY DEF Writes
<1>3. Stock(u)' /\ Lateness(u)' /\ Single(u)' /\ Repeated(u)'
  BY <1>1, <1>2 DEF Course, Stock, Lateness, Single, Repeated, Spent,
                    Active, Bound, Inside
<1>4. Ending(u)'
  BY <1>1, <1>2 DEF Course, Ending, Kept
<1>5. QED
  BY <1>3, <1>4 DEF Course

\* The types, but for the channel.
LEMMA WritesTypes ==
  ASSUME TypeOK, NEW t \in Timers, Writes(t)
  PROVE  /\ kind' \in Kinds
         /\ state' \in [Timers -> States]
         /\ left' \in [Timers -> 0..Infinite]
         /\ owned' \in SUBSET Timers
         /\ at' \in [Timers -> Positions]
         /\ due' \in SUBSET Timers
         /\ fired' \in [Timers -> Nat]
         /\ quit' \in SUBSET Timers
         /\ late' \in [Timers -> Nat]
         /\ failed' \in SUBSET Timers
BY DEF TypeOK, Writes

\* The channel is the same, and no timer enters or leaves its place in it.
LEMMA QueueStays ==
  ASSUME TypeOK, Queue, NEW t \in Timers, Writes(t), buffer' = buffer,
         at'[t] = at[t] \/ at[t] # "queued"
  PROVE  Queue'
<1>1. ASSUME NEW i \in DOMAIN buffer
      PROVE  at'[buffer[i]] = "queued"
  <2>1. buffer[i] \in Timers /\ at[buffer[i]] = "queued"
    BY DEF TypeOK, Queue
  <2>2. QED
    BY <2>1 DEF TypeOK, Writes
<1>2. QED
  BY <1>1 DEF Queue

\* A step that writes at most what belongs to t, leaves the channel alone and
\* keeps the invariant of t keeps the whole invariant.
LEMMA StepOfOne ==
  ASSUME IInv, NEW t \in Timers, Writes(t), Course(t)',
         buffer' = buffer, closed' \in BOOLEAN, pool' \in PoolStates,
         at'[t] = at[t] \/ at[t] # "queued"
  PROVE  IInv'
<1>1. TypeOK'
  BY WritesTypes DEF IInv, TypeOK
<1>2. Queue'
  BY QueueStays DEF IInv
<1>3. ASSUME NEW u \in Timers
      PROVE  Course(u)'
  BY OthersStay DEF IInv
<1>4. QED
  BY <1>1, <1>2, <1>3 DEF IInv

\* A position that an action goes to.
LEMMA GoWrites ==
  ASSUME TypeOK, NEW t \in Timers, NEW p \in Positions, Go(t, p)
  PROVE  at' = [at EXCEPT ![t] = p] /\ at'[t] = p
BY DEF TypeOK, Go

-----------------------------------------------------------------------------
(* The users *)

\* The parts of the invariant, at t.
LEMMA At ==
  ASSUME IInv, NEW t \in Timers
  PROVE  /\ TypeOK /\ Queue /\ Course(t)
         /\ state[t] \in States /\ left[t] \in 0..Infinite /\ at[t] \in Positions
         /\ fired[t] \in Nat /\ late[t] \in Nat
BY DEF IInv, TypeOK

\* A variable that does not change is written with what it has.
LEMMA Unwritten ==
  ASSUME TypeOK, NEW t \in Timers
  PROVE  /\ state' = state => \E x \in States : state' = [state EXCEPT ![t] = x]
         /\ left' = left => \E x \in 0..Infinite : left' = [left EXCEPT ![t] = x]
         /\ at' = at => \E x \in Positions : at' = [at EXCEPT ![t] = x]
         /\ fired' = fired => \E x \in Nat : fired' = [fired EXCEPT ![t] = x]
         /\ late' = late => \E x \in Nat : late' = [late EXCEPT ![t] = x]
<1>1. /\ state = [state EXCEPT ![t] = state[t]]
      /\ left = [left EXCEPT ![t] = left[t]]
      /\ at = [at EXCEPT ![t] = at[t]]
      /\ fired = [fired EXCEPT ![t] = fired[t]]
      /\ late = [late EXCEPT ![t] = late[t]]
  BY DEF TypeOK
<1>2. /\ state[t] \in States /\ left[t] \in 0..Infinite /\ at[t] \in Positions
      /\ fired[t] \in Nat /\ late[t] \in Nat
  BY DEF TypeOK
<1> QED
  BY <1>1, <1>2

LEMMA StartKeeps ==
  ASSUME IInv, NEW t \in Timers, Start(t)
  PROVE  IInv'
<1> USE At, KindOf
<1>1. PICK p \in {"dropped", "pushing"} : Go(t, p)
  BY DEF Start
<1>2. at' = [at EXCEPT ![t] = p] /\ at'[t] = p /\ p \in Positions
  BY <1>1, GoWrites DEF Positions
<1>3. state' = [state EXCEPT ![t] = "RUNNING"] /\ state'[t] = "RUNNING"
  BY DEF Start, TypeOK
<1>4. Writes(t)
  BY <1>2, <1>3, Unwritten DEF Start, Writes, users, history, States, TypeOK
<1>5. Course(t)'
  BY <1>2, <1>3 DEF Start, users, history, Course, Stock, Ending, Lateness,
     Single, Repeated, Spent, Active, Bound, Inside, Kept, States
<1>6. QED
  BY <1>2, <1>4, <1>5, StepOfOne DEF Start, TypeOK

LEMMA StopKeeps ==
  ASSUME IInv, NEW t \in Timers, Stop(t)
  PROVE  IInv'
<1> USE At, KindOf
<1>1. state' = [state EXCEPT ![t] = "FINISHED"] /\ state'[t] = "FINISHED"
  BY DEF Stop, TypeOK
<1>2. Writes(t)
  BY <1>1, Unwritten DEF Stop, Writes, history, States, TypeOK
<1>3. Course(t)'
  BY <1>1 DEF Stop, history, Course, Stock, Ending, Lateness,
     Single, Repeated, Spent, Active, Bound, Inside, Kept, States
<1>4. QED
  BY <1>2, <1>3, StepOfOne DEF Stop, TypeOK

LEMMA DiscardKeeps ==
  ASSUME IInv, NEW t \in Timers, Discard(t)
  PROVE  IInv'
<1> USE At, KindOf
<1>1. Writes(t)
  BY Unwritten DEF Discard, Writes, history, TypeOK
<1>2. /\ t \notin owned'
      /\ t \in quit' <=> t \in quit \/ (Active(t) /\ ~ kind[t].detached)
  BY DEF Discard
<1>3. Stock(t)' /\ Single(t)' /\ Repeated(t)' /\ Lateness(t)'
  BY <1>2 DEF Discard, history, Course, Stock, Lateness,
     Single, Repeated, Spent, Active, Bound, Inside, States
<1>4. Ending(t)'
  BY <1>2 DEF Discard, history, Course, Ending, Active, Kept, States
<1>5. QED
  BY <1>1, <1>3, <1>4, StepOfOne DEF Discard, TypeOK, Course

\* A step that changes the pool, the channel's end or the time only.
LEMMA PoolKeeps ==
  ASSUME IInv, buffer' = buffer, closed' \in BOOLEAN, pool' \in PoolStates,
         due' \in SUBSET Timers,
         UNCHANGED <<state, left, at, users, history>>
  PROVE  IInv'
<1>1. TypeOK'
  BY DEF IInv, TypeOK, users, history
<1>2. Queue'
  BY DEF IInv, Queue
<1>3. ASSUME NEW t \in Timers
      PROVE  Course(t)'
  BY At DEF users, history, Course, Stock, Ending, Lateness,
     Single, Repeated, Spent, Active, Bound, Inside, Kept
<1>4. QED
  BY <1>1, <1>2, <1>3 DEF IInv

LEMMA CloseKeeps ==
  ASSUME IInv, Close
  PROVE  IInv'
BY PoolKeeps DEF IInv, Close, TypeOK

LEMMA ExpireKeeps ==
  ASSUME IInv, NEW t \in Timers, Expire(t)
  PROVE  IInv'
BY PoolKeeps DEF IInv, Expire, TypeOK

\* A started timer enters the channel behind the others, or is dropped.
LEMMA PushKeeps ==
  ASSUME IInv, NEW t \in Timers, Push(t)
  PROVE  IInv'
<1> USE At, KindOf
<1>1. PICK p \in {"dropped", "queued"} :
         /\ Go(t, p)
         /\ p = "queued" => buffer' = Append(buffer, t) /\ Len(buffer) < Capacity
         /\ p = "dropped" => buffer' = buffer
  BY DEF Push, TypeOK
<1>2. at' = [at EXCEPT ![t] = p] /\ at'[t] = p /\ p \in Positions
  BY <1>1, GoWrites DEF Positions
<1>3. Writes(t)
  BY <1>2, Unwritten DEF Push, Writes, users, history, TypeOK
<1>a. buffer \in Seq(Timers) /\ Len(buffer) \in Nat /\ Len(buffer) <= Capacity
  BY DEF TypeOK
<1>b. /\ Append(buffer, t) \in Seq(Timers)
      /\ Len(Append(buffer, t)) = Len(buffer) + 1
      /\ DOMAIN Append(buffer, t) = DOMAIN buffer \cup {Len(buffer) + 1}
      /\ \A i \in DOMAIN buffer : Append(buffer, t)[i] = buffer[i]
      /\ Append(buffer, t)[Len(buffer) + 1] = t
  BY <1>a
<1>4. buffer' \in Seq(Timers) /\ Len(buffer') <= Capacity
  <2>1. CASE p = "dropped"
    BY <1>1, <1>a, <2>1
  <2>2. CASE p = "queued"
    <3>1. buffer' = Append(buffer, t) /\ Len(buffer) + 1 <= Capacity
      BY <1>1, <1>a, <2>2
    <3>2. QED
      BY <1>b, <3>1
  <2>3. QED
    BY <2>1, <2>2
<1>5. TypeOK'
  BY <1>3, <1>4, WritesTypes DEF Push, TypeOK
<1>6. \A i \in DOMAIN buffer : buffer[i] \in Timers \ {t}
  BY DEF Push, Queue, TypeOK
<1>7. Queue'
  <2>1. CASE p = "dropped"
    BY <1>1, <1>2, <1>6, <2>1 DEF Queue, TypeOK
  <2>2. CASE p = "queued"
    <3>1. /\ DOMAIN buffer' = DOMAIN buffer \cup {Len(buffer) + 1}
          /\ \A i \in DOMAIN buffer : buffer'[i] = buffer[i]
          /\ buffer'[Len(buffer) + 1] = t
      BY <1>1, <1>b, <2>2
    <3>2. \A i \in DOMAIN buffer : at'[buffer[i]] = at[buffer[i]]
      BY <1>2, <1>6 DEF TypeOK
    <3>3. /\ \A i \in DOMAIN buffer : buffer[i] # t /\ at[buffer[i]] = "queued"
          /\ \A i, j \in DOMAIN buffer : buffer[i] = buffer[j] => i = j
      BY <1>6 DEF Queue
    <3>4. at'[t] = "queued"
      BY <1>2, <2>2
    <3>5. QED
      BY <3>1, <3>2, <3>3, <3>4 DEF Queue
  <2>3. QED
    BY <2>1, <2>2
<1>8. Course(t)'
  BY <1>2 DEF Push, users, history, Course, Stock, Ending, Lateness,
     Single, Repeated, Spent, Active, Bound, Inside, Kept, States
<1>9. ASSUME NEW u \in Timers
      PROVE  Course(u)'
  BY <1>3, <1>8, OthersStay
<1>10. QED
  BY <1>5, <1>7, <1>9 DEF IInv

-----------------------------------------------------------------------------
(* The fiber of a timer *)

LEMMA CheckKeeps ==
  ASSUME IInv, NEW t \in Timers, Check(t)
  PROVE  IInv'
<1> USE At, KindOf
<1>1. PICK p \in {"ended", "fire", "undefined", "waiting", "spin"} :
         /\ Go(t, p)
         /\ p = "fire" => Kept(t) /\ Active(t)
         /\ p = "ended" => ~ Kept(t) \/ ~ Active(t) \/ ~ kind[t].keep_alive
  BY DEF Check, Wait
<1>2. at' = [at EXCEPT ![t] = p] /\ at'[t] = p /\ p \in Positions
  BY <1>1, GoWrites DEF Positions, BusyPositions
<1>3. Writes(t)
  BY <1>2, Unwritten DEF Check, Writes, users, history, TypeOK
<1>4. Ending(t)'
  BY <1>1, <1>2 DEF Check, users, history, Course, Ending, Active, Kept, States
<1>5. p = "fire" => t \notin quit
  BY <1>1 DEF Course, Ending, Active
<1>6. Stock(t)' /\ Lateness(t)' /\ Single(t)' /\ Repeated(t)'
  BY <1>1, <1>2, <1>5 DEF Check, users, history, Course, Stock, Lateness,
     Single, Repeated, Spent, Active, Bound, Inside, States
<1>7. QED
  BY <1>2, <1>3, <1>4, <1>6, StepOfOne DEF Check, TypeOK, Course

LEMMA WakeKeeps ==
  ASSUME IInv, NEW t \in Timers, Wake(t)
  PROVE  IInv'
<1> USE At, KindOf
<1>1. PICK p \in {"ended", "check"} :
         /\ Go(t, p)
         /\ p = "ended" => ~ kind[t].keep_alive
  BY DEF Wake
<1>2. at' = [at EXCEPT ![t] = p] /\ at'[t] = p /\ p \in Positions
  BY <1>1, GoWrites DEF Positions, BusyPositions
<1>3. Writes(t)
  BY <1>2, Unwritten DEF Wake, Writes, users, history, TypeOK
<1>4. Course(t)'
  BY <1>1, <1>2 DEF Wake, users, history, Course, Stock, Ending, Lateness,
     Single, Repeated, Spent, Active, Bound, Inside, Kept, States
<1>5. QED
  BY <1>2, <1>3, <1>4, StepOfOne DEF Wake, TypeOK

LEMMA EnterKeeps ==
  ASSUME IInv, NEW t \in Timers, Enter(t)
  PROVE  IInv'
<1> USE At, KindOf
<1>1. PICK p \in {"firing", "check"} :
         /\ Go(t, p)
         /\ p = "firing" => Active(t)
  BY DEF Enter
<1>2. at' = [at EXCEPT ![t] = p] /\ at'[t] = p /\ p \in Positions
  BY <1>1, GoWrites DEF Positions, BusyPositions
<1>3. Writes(t)
  BY <1>2, Unwritten DEF Enter, Writes, users, history, TypeOK
<1>4. Course(t)'
  BY <1>1, <1>2 DEF Enter, users, history, Course, Stock, Ending, Lateness,
     Single, Repeated, Spent, Active, Bound, Inside, Kept, States
<1>5. QED
  BY <1>2, <1>3, <1>4, StepOfOne DEF Enter, TypeOK

LEMMA SuspendKeeps ==
  ASSUME IInv, NEW t \in Timers, Suspend(t)
  PROVE  IInv'
<1> USE At, KindOf
<1>1. at' = [at EXCEPT ![t] = "blocked"] /\ at'[t] = "blocked" /\ "blocked" \in Positions
  BY GoWrites DEF Suspend, Positions
<1>2. Writes(t)
  BY <1>1, Unwritten DEF Suspend, Writes, users, history, TypeOK
<1>3. Course(t)'
  BY <1>1 DEF Suspend, users, history, Course, Stock, Ending, Lateness,
     Single, Repeated, Spent, Active, Bound, Inside, Kept, States
<1>4. QED
  BY <1>1, <1>2, <1>3, StepOfOne DEF Suspend, TypeOK

LEMMA InvokeKeeps ==
  ASSUME IInv, NEW t \in Timers, Invoke(t)
  PROVE  IInv'
<1> USE At, KindOf
<1>1. at' = [at EXCEPT ![t] = "lambda"] /\ at'[t] = "lambda" /\ "lambda" \in Positions
  BY GoWrites DEF Invoke, Positions, BusyPositions
<1>2. PICK x \in States : /\ state' = [state EXCEPT ![t] = x]
                          /\ kind[t].oneshot => x = "FINISHED"
                          /\ ~ kind[t].oneshot => x = state[t]
  <2>1. CASE kind[t].oneshot
    BY <2>1 DEF Invoke, States
  <2>2. CASE ~ kind[t].oneshot
    <3>1. state = [state EXCEPT ![t] = state[t]] /\ state[t] \in States
      BY DEF TypeOK
    <3> QED
      BY <2>2, <3>1 DEF Invoke
  <2> QED
    BY <2>1, <2>2
<1>3. PICK f \in Nat : /\ fired' = [fired EXCEPT ![t] = f]
                       /\ Counted(t) => f = fired[t] + 1
  <2>1. CASE Counted(t)
    <3>1. fired' = [fired EXCEPT ![t] = fired[t] + 1] /\ fired[t] + 1 \in Nat
      BY <2>1 DEF Invoke
    <3>2. QED
      BY <3>1
  <2>2. CASE ~ Counted(t)
    BY <2>2, Unwritten DEF Invoke
  <2>3. QED
    BY <2>1, <2>2
<1>4. PICK n \in Nat : /\ late' = [late EXCEPT ![t] = n]
                       /\ n = IF t \in quit THEN late[t] + 1 ELSE late[t]
  <2>1. CASE t \in quit
    <3>1. late' = [late EXCEPT ![t] = late[t] + 1] /\ late[t] + 1 \in Nat
      BY <2>1 DEF Invoke
    <3>2. QED
      BY <2>1, <3>1
  <2>2. CASE t \notin quit
    <3>1. late = [late EXCEPT ![t] = late[t]] /\ late[t] \in Nat
      BY DEF TypeOK
    <3> QED
      BY <2>2, <3>1 DEF Invoke
  <2>3. QED
    BY <2>1, <2>2
<1>5. Writes(t)
  <2>1. due' \in SUBSET Timers
    BY DEF Invoke, TypeOK
  <2>2. left' = [left EXCEPT ![t] = left[t]]
    BY Unwritten DEF Invoke
  <2>3. /\ kind' = kind /\ owned' = owned /\ quit' = quit /\ failed' = failed
        /\ owned \in SUBSET Timers /\ quit \in SUBSET Timers /\ failed \in SUBSET Timers
    BY DEF Invoke, users, TypeOK
  <2>4. QED
    BY <1>1, <1>2, <1>3, <1>4, <2>1, <2>2, <2>3 DEF Writes
<1>6. state'[t] = x /\ fired'[t] = f /\ late'[t] = n
  BY <1>2, <1>3, <1>4 DEF TypeOK
<1>7. Stock(t)' /\ Ending(t)'
  BY <1>1, <1>2, <1>6 DEF Invoke, users, Course, Stock, Ending, Active, Inside,
     Kept, States
<1>8. Lateness(t)'
  BY <1>1, <1>4, <1>6 DEF Invoke, users, Course, Lateness, Bound
<1>9. Single(t)'
  BY <1>1, <1>2, <1>3, <1>6 DEF Invoke, users, Course, Single, Spent, Bound, Counted
<1>10. Repeated(t)'
  BY <1>1, <1>2, <1>3, <1>6 DEF Invoke, users, Course, Repeated, Spent, Bound,
     Inside, Counted
<1>11. QED
  BY <1>1, <1>5, <1>7, <1>8, <1>9, <1>10, StepOfOne DEF Invoke, TypeOK, Course

\* The end of fire, whichever way it went.
LEMMA CountDownKeeps ==
  ASSUME IInv, NEW t \in Timers, NEW stopped \in BOOLEAN,
         Inside(t) \/ at[t] = "firing",
         CountDown(t, stopped), Go(t, "check"),
         UNCHANGED <<buffer, closed, pool, due, users, fired, late>>,
         failed' = failed \/ failed' = failed \cup {t},
         stopped \/ ~ Inside(t) => t \in failed'
  PROVE  IInv'
<1> USE At, KindOf
<1>1. at' = [at EXCEPT ![t] = "check"] /\ at'[t] = "check" /\ "check" \in Positions
  BY GoWrites DEF Positions, BusyPositions
<1>2. left[t] >= 1
  BY DEF Course, Stock
<1>3. PICK l \in 0..Infinite :
         /\ left' = [left EXCEPT ![t] = l]
         /\ l = IF left[t] = Infinite THEN Infinite ELSE left[t] - 1
  <2>1. CASE left[t] = Infinite
    BY <2>1, Unwritten DEF CountDown
  <2>2. CASE left[t] # Infinite
    <3>1. left' = [left EXCEPT ![t] = left[t] - 1] /\ left[t] - 1 \in 0..Infinite
      BY <1>2, <2>2 DEF CountDown
    <3>2. QED
      BY <2>2, <3>1
  <2>3. QED
    BY <2>1, <2>2
<1>4. PICK x \in States :
         /\ state' = [state EXCEPT ![t] = x]
         /\ stopped \/ (left[t] # Infinite /\ l = 0) => x = "FINISHED"
         /\ ~ (stopped \/ (left[t] # Infinite /\ l = 0)) => x = state[t]
  <2>1. CASE stopped \/ (left[t] # Infinite /\ left[t] = 1)
    BY <1>2, <1>3, <2>1 DEF CountDown, States
  <2>2. CASE ~ (stopped \/ (left[t] # Infinite /\ left[t] = 1))
    BY <1>2, <1>3, <2>2, Unwritten DEF CountDown
  <2>3. QED
    BY <2>1, <2>2
<1>5. Writes(t)
  BY <1>1, <1>3, <1>4, Unwritten DEF Writes, users, TypeOK
<1>6. state'[t] = x /\ left'[t] = l
  BY <1>3, <1>4 DEF TypeOK
<1>7. Stock(t)' /\ Ending(t)'
  BY <1>1, <1>2, <1>3, <1>4, <1>6 DEF users, Course, Stock, Ending, Active, Inside,
     Kept, States
<1>8. Lateness(t)'
  BY <1>1 DEF users, Course, Lateness, Bound
<1>9. Single(t)'
  BY <1>1, <1>2, <1>3, <1>4, <1>6 DEF users, Course, Single, Stock, Spent, Bound, Inside
<1>10. Repeated(t)'
  BY <1>1, <1>2, <1>3, <1>4, <1>6 DEF users, Course, Repeated, Stock, Spent, Bound, Inside
<1>11. QED
  BY <1>1, <1>5, <1>7, <1>8, <1>9, <1>10, StepOfOne DEF TypeOK, Course, Inside

\* Whatever the fiber of a timer does on the thread.
LEMMA RunKeeps ==
  ASSUME IInv, NEW t \in Timers, Run(t)
  PROVE  IInv'
<1> USE At, KindOf
<1>1. CASE Check(t)
  BY <1>1, CheckKeeps
<1>2. CASE Enter(t)
  BY <1>2, EnterKeeps
<1>3. CASE Invoke(t)
  BY <1>3, InvokeKeeps
<1>4. CASE Return(t)
  <2>1. Inside(t) /\ CountDown(t, FALSE) /\ Go(t, "check")
    BY <1>4 DEF Return, Inside
  <2>2. UNCHANGED <<buffer, closed, pool, due, users, fired, late>> /\ failed' = failed
    BY <1>4 DEF Return, history
  <2>3. QED
    BY <2>1, <2>2, CountDownKeeps
<1>5. CASE Throw(t)
  <2> DEFINE stopped == ~ kind[t].ignore
  <2>1. Inside(t) /\ CountDown(t, stopped) /\ Go(t, "check")
    BY <1>5 DEF Throw, Inside
  <2>2. /\ UNCHANGED <<buffer, closed, pool, due, users, fired, late>>
        /\ failed' = failed \/ failed' = failed \cup {t}
        /\ stopped => t \in failed'
    BY <1>5 DEF Throw
  <2>3. stopped \in BOOLEAN
    OBVIOUS
  <2> HIDE DEF stopped
  <2>4. QED
    BY <2>1, <2>2, <2>3, CountDownKeeps
<1>6. CASE Refuse(t)
  <2> DEFINE stopped == ~ kind[t].ignore
  <2>1. at[t] = "firing" /\ CountDown(t, stopped) /\ Go(t, "check")
    BY <1>6 DEF Refuse
  <2>2. /\ UNCHANGED <<buffer, closed, pool, due, users, fired, late>>
        /\ failed' = failed \cup {t}
    BY <1>6 DEF Refuse
  <2>3. stopped \in BOOLEAN
    OBVIOUS
  <2> HIDE DEF stopped
  <2>4. QED
    BY <2>1, <2>2, <2>3, CountDownKeeps
<1>7. CASE Suspend(t)
  BY <1>7, SuspendKeeps
<1>8. QED
  BY <1>1, <1>2, <1>3, <1>4, <1>5, <1>6, <1>7 DEF Run

-----------------------------------------------------------------------------
(* The thread of the pool *)

\* The front of the channel gets its fiber; the others keep their order.
LEMMA LaunchKeeps ==
  ASSUME IInv, Launch
  PROVE  IInv'
<1>1. TypeOK /\ Queue /\ buffer \in Seq(Timers) /\ buffer # <<>>
  BY DEF IInv, TypeOK, Launch
<1>h. PICK t \in Timers : t = Head(buffer)
  BY <1>1
<1>2. /\ t = buffer[1] /\ 1 \in DOMAIN buffer
      /\ Tail(buffer) \in Seq(Timers)
      /\ Len(Tail(buffer)) = Len(buffer) - 1 /\ Len(buffer) \in Nat
      /\ \A i \in DOMAIN Tail(buffer) : Tail(buffer)[i] = buffer[i + 1]
                                        /\ i + 1 \in DOMAIN buffer /\ i + 1 # 1
                                        /\ i \in Nat
  BY <1>1, <1>h
<1>3. at[t] = "queued"
  BY <1>1, <1>2 DEF Queue
<1>4. Go(t, "check") /\ buffer' = Tail(buffer)
      /\ UNCHANGED <<closed, pool, state, left, due, users, history>>
  BY <1>h DEF Launch
<1>5. at' = [at EXCEPT ![t] = "check"] /\ at'[t] = "check" /\ "check" \in Positions
  BY <1>1, <1>2, <1>4, GoWrites DEF Positions, BusyPositions
<1>6. Writes(t)
  <2>1. /\ state[t] \in States /\ left[t] \in 0..Infinite
        /\ fired[t] \in Nat /\ late[t] \in Nat
    BY <1>2, At
  <2>2. /\ state' = [state EXCEPT ![t] = state[t]]
        /\ left' = [left EXCEPT ![t] = left[t]]
        /\ fired' = [fired EXCEPT ![t] = fired[t]]
        /\ late' = [late EXCEPT ![t] = late[t]]
    BY <1>1, <1>2, <1>4, Unwritten DEF history
  <2>3. QED
    BY <1>1, <1>4, <1>5, <2>1, <2>2 DEF Writes, users, history, TypeOK
<1>7. TypeOK'
  <2>1. Len(buffer') <= Capacity /\ buffer' \in Seq(Timers)
    BY <1>1, <1>2, <1>4 DEF TypeOK
  <2>2. QED
    BY <1>1, <1>2, <1>4, <1>6, <2>1, WritesTypes DEF TypeOK
<1>8. Queue'
  <2>1. ASSUME NEW i \in DOMAIN buffer'
        PROVE  at'[buffer'[i]] = "queued"
    <3>1. buffer'[i] = buffer[i + 1] /\ i + 1 \in DOMAIN buffer /\ i + 1 # 1
      BY <1>2, <1>4
    <3>2. buffer[i + 1] \in Timers /\ buffer[i + 1] # t
      BY <1>1, <1>2, <3>1 DEF Queue
    <3>3. QED
      BY <1>1, <1>5, <3>1, <3>2 DEF Queue, TypeOK
  <2>2. ASSUME NEW i \in DOMAIN buffer', NEW j \in DOMAIN buffer', buffer'[i] = buffer'[j]
        PROVE  i = j
    <3>1. i + 1 = j + 1
      BY <1>1, <1>2, <1>4, <2>2 DEF Queue
    <3>2. QED
      BY <1>2, <1>4, <3>1
  <2>3. QED
    BY <2>1, <2>2 DEF Queue
<1>9. Course(t)'
  <2>1. /\ Course(t) /\ state[t] \in States /\ left[t] \in 0..Infinite
        /\ fired[t] \in Nat /\ late[t] \in Nat /\ kind[t].repetitions \in 0..Infinite
    BY <1>1, <1>2, At, KindOf
  <2>2. /\ kind' = kind /\ state' = state /\ left' = left /\ owned' = owned
        /\ fired' = fired /\ late' = late /\ quit' = quit /\ failed' = failed
    BY <1>4 DEF users, history
  <2>3. Ending(t)'
    BY <1>3, <1>5, <2>1, <2>2 DEF Course, Ending, Kept
  <2>4. Stock(t)' /\ Lateness(t)' /\ Single(t)' /\ Repeated(t)'
    BY <1>3, <1>5, <2>1, <2>2 DEF Course, Stock, Lateness, Single, Repeated, Spent,
       Bound, Inside
  <2>5. QED
    BY <2>3, <2>4 DEF Course
<1>10. ASSUME NEW u \in Timers
       PROVE  Course(u)'
  <2>1. CASE u = t
    BY <1>9, <2>1
  <2>2. CASE u # t
    BY <1>1, <1>2, <1>6, <2>2, OthersStay DEF IInv
  <2>3. QED
    BY <2>1, <2>2
<1>11. QED
  BY <1>7, <1>8, <1>10 DEF IInv

\* The invariant is inductive.
LEMMA NextHolds == IInv /\ [Next]_vars => IInv'
<1> SUFFICES ASSUME IInv, [Next]_vars
             PROVE  IInv'
  OBVIOUS
<1>1. ASSUME NEW t \in Timers, Start(t) \/ Push(t) \/ Stop(t) \/ Discard(t)
      PROVE  IInv'
  BY <1>1, StartKeeps, PushKeeps, StopKeeps, DiscardKeeps
<1>2. ASSUME NEW t \in Timers, Expire(t) \/ Wake(t) \/ Run(t)
      PROVE  IInv'
  BY <1>2, ExpireKeeps, WakeKeeps, RunKeeps
<1>3. CASE Close
  BY <1>3, CloseKeeps
<1>4. CASE Launch
  BY <1>4, LaunchKeeps
<1>5. CASE LoopEnd \/ MainEnd \/ Join
  BY <1>5, PoolKeeps DEF IInv, TypeOK, LoopEnd, MainEnd, Join, PoolStates
<1>6. CASE UNCHANGED vars
  BY <1>6, PoolKeeps DEF IInv, TypeOK, vars, users, history
<1>7. QED
  BY <1>1, <1>2, <1>3, <1>4, <1>5, <1>6 DEF Next, Thread

\* Type correctness and the invariant of every reachable state.
THEOREM Invariance == Spec => []IInv
<1>1. QED
  BY InitHolds, NextHolds, PTL DEF Spec

-----------------------------------------------------------------------------
(* Theorems *)

\* The variables keep their types, and the channel its capacity.
THEOREM Typing == Spec => []TypeOK
<1>1. IInv => TypeOK
  BY DEF IInv
<1>2. QED
  BY <1>1, Invariance, PTL

\* Any number of users may stop and discard timers at any time: none of them
\* fires more than once after that (Timer::fire and the loop of its fiber).
THEOREM StoppedTimersFireOnce == Spec => []OneLateFiring
<1>1. IInv => OneLateFiring
  BY DEF IInv, Course, Lateness, OneLateFiring
<1>2. QED
  BY <1>1, Invariance, PTL

\* Timer::fire counts every repetition once, whatever the callbacks do.
THEOREM TimersFireAsOften == Spec => []FiresAsOften
<1>1. ASSUME IInv, NEW t \in Timers, Counted(t)
      PROVE  LET n == IF kind[t].oneshot THEN 1 ELSE kind[t].repetitions
             IN  /\ fired[t] <= n
                 /\ state[t] = "FINISHED" /\ t \notin quit \cup failed => fired[t] = n
  <2> USE At, KindOf, <1>1
  <2>1. CASE kind[t].oneshot
    BY <2>1 DEF Course, Single, Spent
  <2>2. CASE ~ kind[t].oneshot
    <3>1. kind[t].repetitions # Infinite
      BY <2>2 DEF Counted
    <3>2. /\ fired[t] + left[t] <= kind[t].repetitions + (IF Inside(t) THEN 1 ELSE 0)
          /\ t \notin failed => fired[t] + left[t] = kind[t].repetitions + (IF Inside(t) THEN 1 ELSE 0)
          /\ Spent(t) => left[t] = 0 /\ ~ Inside(t)
      BY <2>2, <3>1 DEF Course, Repeated
    <3>3. Inside(t) => left[t] >= 1
      BY DEF Course, Stock
    <3>4. fired[t] <= kind[t].repetitions
      BY <3>2, <3>3
    <3>5. Spent(t) => fired[t] = kind[t].repetitions
      BY <3>2 DEF Spent
    <3>6. QED
      BY <2>2, <3>4, <3>5 DEF Spent
  <2>3. QED
    BY <2>1, <2>2
<1>2. IInv => FiresAsOften
  BY <1>1 DEF FiresAsOften
<1>3. QED
  BY <1>2, Invariance, PTL

\* The destructor of the pool does not cut off a timer that keeps it alive.
THEOREM KeepAliveTimersAreKept == Spec => []KeepAliveIsKept
<1>1. IInv => KeepAliveIsKept
  BY DEF IInv, Course, Ending, KeepAliveIsKept
<1>2. QED
  BY <1>1, Invariance, PTL
=============================================================================
