# A verification of notf

notf is a C++17 toolkit for user interfaces. A program opens Windows whose contents are a Graph of Nodes with Properties;
an event handler thread changes the Graph, a render thread draws it, timers and user threads schedule events, and the main
thread talks to GLFW. This directory models the parts in which those threads and callbacks meet: what each promises the
others, and what happens when they are interleaved, fail, or are shut down.

Contents: 1 the system, 2 the modules and how they follow the code, 3 the runs, 4 fairness, 5 what is proved, 6 what is
only model-checked, 7 where the code and its documentation part, 8 what is not modelled, 9 the plan.

All paths are relative to the repository's root below `src/`; `any_node.cpp` and the like are below `src/src/app` or
`src/include/notf`.

## 1. The system

### Threads

| thread | made by | what it runs |
|---|---|---|
| main | the program | `Application::exec`: GLFW events and the functions that others schedule |
| ui | `EventHandler` | one fiber for its loop, one per event; owns the Graph |
| render | `RenderManager` | one frame after the other, of the Windows that are queued |
| timers | `TimerPool` | one fiber per timer |
| others | user code | whatever calls `TheApplication()->schedule` |

Which thread is "the ui thread" is decided by a mutex (`m_ui_mutex`) that main hands over to the event handler for the
time of `exec` and takes back for the shutdown.

### Components

**RenderManager** (`render_manager.cpp`). State: the vector `m_dirty_windows`, `m_is_running`, a mutex and a condition.
Operations: `request_redraw`, `_run`, `_stop`; `RenderManager::render` synchronises the Graph and requests its Windows.
Called by the event handler; calls the Graph's mutex and the Scenes. Hard: requests during a frame, Windows that are
destroyed between two looks at them, sleeping and stopping. Correct if: no request is lost, no Window starves, no frame
loses its Window, stopping returns.

**EventHandler** (`event_handler.cpp`). State: a bounded channel of fibers, the event in the loop's hand, a counter and a
weight of the events since the last frame. Operations: `schedule`, the loop, the fiber of an event, the destructor. Calls
`RenderManager::render`. Hard: events that block, throw or finish while the loop sleeps; a full channel that its own
consumer's thread pushes into; the shutdown. Correct if: every accepted event is run, every change is shown in finite time
however many events are queued, and closing releases everybody.

**Application** (`application.cpp`, `window.cpp:82-137`). State: `m_state`, the bounded `m_event_queue`, the list of GLFW
windows, the ui mutex, the managers. Operations: `schedule`, `shutdown`, `exec`, `_register_window`,
`_destroy_glfw_window`, `_clear_managers`; a Window is made by a function on main that the ui thread waits for. Hard: the
wake-up of `glfwWaitEvents`, main as producer and consumer of one bounded queue, the order in which timers and events are
joined and the mutex is taken back, calls that race with the shutdown. Correct if: nothing scheduled is slept over,
nothing runs after the close, managers are destroyed when nobody can use them, and `exec` returns.

**Graph and Node** (`graph.cpp`, `any_node.cpp`, `node_handle.hpp`). State: per Node its `Data` (parent, children, flags)
and a modified copy that only the ui thread sees; the set of dirty Nodes; reference counts through the vectors of
children. Operations: create, remove, clear, `set_parent`, the stacking functions, flags, `synchronize`. Shared with the
render thread under the Graph's mutex. Hard: destructors run in the middle of `synchronize`, a Node that is gone for one
thread and alive for the other, a dirty flag that survives its registration. Correct if: frames show snapshots, nothing
that can be reached is destroyed, the hierarchy is a tree, and after `synchronize` both threads agree.

**Property, Slot and Signal** (`property.hpp`, `slot.hpp`, `signal.hpp`). State: value and modified value, a callback, a
Publisher. Visible Properties make their Node dirty. Correct if: as for the Graph.

**Z-order** (`common/vector.hpp`, `any_node.cpp`). Pure functions on the vector of children: rotations that put a Node
before, behind, in front or in the back.

**Reactive** (`reactive/publisher.hpp` and others). State of a Publisher: a vector of weak pointers, RUNNING, COMPLETED or
FAILED. Operations: `subscribe`, `publish`, `complete`, `error`; Operators are Subscriber and Publisher in one, Pipelines
are chains of them, Triggers turn functions into Subscribers. Everything is callbacks on one thread. Hard: callbacks that
call the Publisher again, that throw, or that let Subscribers expire, while a loop over the vector is running. Correct if:
every valid Subscriber is called once, everybody learns of the end, nobody hears anything after it, and no loop leaves
the vector.

**TimerPool** (`timer_pool.cpp`, `timer_pool.hpp`). State: a channel of timers, per timer its state, its repetitions and
next timeout. One fiber per timer that waits on a shared condition. Operations: start, stop, firing, the loss of the last
owner, the destructor. Hard: a stop between the fiber's test and the callback, callbacks that throw, block or outlast the
interval, the close of the pool, timers that keep it alive. Correct if: a stopped timer fires once more at most, a timer
fires as often as it was told, accepted timers run out, and the pool joins.

**Window and Scene** (`window.cpp`, `scene.cpp`, `visualizer.cpp`, `window_driver.cpp`). A Window owns a GLFW window, a
graphics context and a Scene.

**Widget layout** (`app/widget`). Claims travel up, grants travel down. Correct if: after a change every Widget's grant
follows from the Claims.

**ResourceManager**, **Input and GLFW callbacks**, **Threads and locks** (Thread, mutexes, ThreadPool, ScopedSingleton),
**Graphics** (OpenGL), and the **pynotf prototype** in Python, which shares no code with the library. Vendored code,
examples, benchmarks and resources (`thirdparty`, `apps`, `benchmarks`, `dev`, `res`, `archive`) are left aside.

### How they interact

    user code, timers --schedule--> Application queue --> main (GLFW)
                                                           |  input
                                                           v
                  events -----------schedule---------> EventHandler
                                                           |  run on the ui thread
                          Publishers <--- set --- Graph, Nodes, Properties
                                                           |  RenderManager::render
                                                           v
                                  Graph::synchronize, request_redraw --> render thread

The boundaries are bounded channels, conditions with a mutex, and the Graph's mutex. Each module below takes one of them
with everybody on both sides.

## 2. The modules

An action is a handler, or the part of one between two points where another thread or callback can come in: a lock, a
blocking call, a store to an atomic. Comments name the variable of the code behind each variable of a module. `PROJECT.json`
maps every definition to its lines. Definitions that begin with "Mutant of" are plausible mistakes in the code; each
property of a passing run is violated when one of them takes the place of the definition it mutates.

### RenderThread (`render_manager.cpp`)

| code | model |
|---|---|
| `m_dirty_windows`, `m_is_running` | `dirty`, `running` |
| position of `_run`, of the ui thread, of `~RenderThread` | `rpc`, `upc`, `spc` |
| `request_redraw`: push under the lock, notify after it | `RequestRedraw`, `RequestNotify` |
| the wait: predicate, atomic release and sleep, spurious wake-ups, relock | `Predicate`, `Block`, `SpuriousWakeup`, `Relock` |
| a frame: expiry test, Graph's mutex, dereference, draw | `CheckExpired`, `LockGraph`, `BeginFrame`, `FinishFrame` |
| `_stop`: store, notify, join | `StopStore`, `StopNotify`, `StopJoin` |

`pending` and `served` are history. A mutex is held exactly at some positions of the render thread, because the ui
thread's critical sections are single steps: `HoldsMutex`, `HoldsGraph`. Destroying a Window (`Expire`) needs the Graph's
mutex, as `synchronize` does. The wait of the code is `if` test, then `wait` with a predicate; both are there.

### EventHandler (`event_handler.cpp`)

`Schedule` is a push of another thread, `Dispatch` the launch of an event's fiber, which runs at once until it finishes,
fails or blocks; `Resume` continues a blocked one where the loop's fiber yields. `Renotify` is the empty event that a
finished one pushes to wake the loop, and may itself have to wait for a place ("pushing"). `WeighFrame` and `EmptyFrame` are
the two reasons for a frame. Weights are counted in units of the least weight, 0.001; `FrameWeight` units make a frame, and an
event of weight 0 adds one unit (`UnitWeight`), which its description does not say (section 7).
`Close` is the destructor: a closed channel is emptied before `pop` reports the close, so accepted events are still run.
A boost channel made with a buffer of n holds n - 1 elements, so `Capacity` = 1 stands for the smallest legal buffer, 2.

### Application (`application.cpp`, `window.cpp`, `event_handler.cpp`, `timer_pool.hpp`)

`pc[Main]` walks through `exec`: "setup" (before it), "wait", "pop", then "timers", "close", "join", "lock", "clear",
"done". `schedule` is three steps for everybody, main included: `Check` the state, `Push` (blocks on a full queue),
`Post` the empty GLFW event. `Run` is what a popped function does: other work, `shutdown()` (which schedules in turn), the
change of the state, the creation or destruction of a GLFW window. `Created` is the ui thread after the future of
`Window::create` is ready. The last Window that goes schedules the shutdown (`Erase`). `HandlerStarts` needs the mutex that
`Exec` gives away, `Lock` the one that `HandlerLetsGo` gives back when the loop has ended; the thread ends only with the last of
its fibers (`HandlerEnds`). A function that throws on main leaves `exec` (`Throw`, "failed"): nothing catches it there. What its
caller does then, at best to destroy the Application while the event handler runs, is not modelled. Each actor makes one call, which is a bound; timers and
events are joined, user threads are not. Threads make calls in any state, timers until the TimerPool is gone, events
while the handler runs; only events are on the ui thread and open or close Windows. The list `m_windows` is written by the
ui thread and main without a lock: a data race, taken as atomic here.

### ZOrder, GraphSync and Snapshot (`vector.hpp`, `any_node.cpp`, `graph.cpp`, `property.hpp`, `node_handle.hpp`)

`ZOrder` has the rotations and the stacking functions as operators; `GraphSync` extends it. `MCZOrder` calls the stacking
functions on any order of the siblings `Stack`; its names differ from those of `GraphSync`, so that one run
and the proofs can be about both. They share no variable: `MCGraphSync` explores each beside an untouched state of the other
(`GraphNext`, `FamilyNext`).
`Without` takes the children of dead owners out of a vector, whose other elements keep their order. In `GraphSync` a Node has
`data[n]` (`m_data`), `copy[n]` (`m_modified_data` or None), a Property `value` and `modified`; `dirty` is
`m_dirty_nodes`. Each action of the ui thread is a whole call: it changes copies, marks Nodes (`Mark`), and then `Settle`
destroys what has lost its last holder. Destruction is the least fixed point of reference counting over the vectors of children
in data and copies, so cycles are never freed. A Node may store the `NodeOwner` of another Node and removes it when it
dies; `Owner` is the assignment of such owners. `synchronize` is `SyncBegin` (takes the Graph's mutex), one `SyncNode` per
dirty Node in any order, `SyncEnd` (clears the set). What destructors mark during the loop is visited or not, as a hash set
under iteration has it. `BeginFrame` and `EndFrame` are the render thread with the Graph's mutex.

`Snapshot` is the abstract specification: a live graph that its owner changes at will, and a shown graph that becomes the
whole live graph at once, never in the middle of a frame. `GraphSync` implements it with `live` mapped to what the ui
thread can reach and see, and `shown` to what the render thread can (property `DrawsSnapshots`).

Left out of `GraphSync`: Nodes that are created in the constructor of another Node; the removal of a child whose parent
is already gone, which dereferences a dangling pointer (section 7); an owner that dies outside of `synchronize`
while its own siblings are erased, where the nested erase of one vector is undefined, is taken as two plain removals. The
callback of a Property that refuses a value is no step, and one that alters it gives another value of the set.

### Publisher (`publisher.hpp`)

Loops over the Subscribers nest, as Subscribers call the Publisher again: `stack` holds them, with the position and the
end that the code keeps in locals (`i`, `end`), and only the topmost goes on. `Call` hands control to a Subscriber, which
may `Return`, `Throw`, or make calls of its own (`Publish`, `Finish`, `Subscribe`); owners may let go of a Subscriber at any time
(`Expire`). `Prune` removes an expired entry by moving the last one to its place. `complete` and `error` run two loops, the
virtual handler and then the one after the change of state (`pass`). `contract` says which calls Subscribers make: the code
works for some contracts only, which `SafeContracts` in `MCPublisher` and `Safe` in `Publisher_proofs` name.

### Ancestors (`any_node.cpp:279-321`)

The search for the common ancestor of two Nodes as the loop it is: `ClimbFirst` and `ClimbSecond` are the halves of its
body, `known` is `known_ancestors`, and `Meet` is what both do with the Node they come to: remember it, or end with an
answer or an exception. A root is its own parent, as in the code. `Lineage` defines a Node and its ancestors as a least set,
without recursion, so that the module can be proved about; `HasAncestor` is `_has_ancestor`.

### TimerPool (`timer_pool.cpp`, `timer_pool.hpp`)

| code | model |
|---|---|
| `m_buffer`, its `is_closed` | `buffer`, `closed` |
| the thread: the fiber of the loop, the thread's own fiber, `join` | `pool`; `Launch`, `LoopEnd`, `MainEnd`, `Join` |
| `m_state`, `m_repetitions_left`, `m_next_timeout` | `state`, `left`, `due` |
| `TimerPtr`s outside of the pool | `owned` |
| position of `start` and of the timer's fiber | `at` |
| `start`, `schedule`, `stop`, the last `TimerPtr`, `~TimerPool` | `Start`, `Push`, `Stop`, `Discard`, `Close` |
| the fiber: let go and take again, test, wait | `Check`, `Wait`, `Wake` |
| `fire`: test, `_fire` up to the callback, what follows it | `Enter`, `Invoke`, then `Return`, `Throw` or `Suspend`; `CountDown` |
| the function of a VariableTimer throws | `Refuse` |

Fibers of one thread do not preempt each other: a position in `BusyPositions` keeps all others from running (`Idle`), but
not the users' threads, so a stop falls between any two steps. `kind` says what the constructor and the setters of each
timer chose; all of it is fixed before the start. A time is abstracted to whether it has passed (`due`, `Expire`): nothing
in the code asks for more. A callback that is `slow` can find its timer due again when it ends. The mutex and the condition
of all fibers are locals of the thread's function; a fiber that waits after they are gone is at "undefined", and liveness
is not claimed from there. `fired`, `quit`, `late` and `failed` are history.

### Display (`render_manager.cpp`, `graph.cpp`, `event_handler.cpp`)

The composition of `EventHandler` and `RenderThread`, both instantiated as they are. What is a frame for the one is
`RenderManager::render` here: `Synchronize` (needs the Graph's mutex, if a Node is dirty) and then `Request`, the other's
`RequestRedraw`, of the first child of the root. In between, and while either waits for the render thread, no fiber of the
ui thread runs (`UiFree`). Of the Graph only `marked` is left, whether anything is dirty; that a synchronisation carries
every change over, and nothing in the middle of a frame, is what `GraphSync` shows. `undrawn` is history: a frame takes
those events from it that have been synchronised when it begins.

## 3. The runs

Passing runs explore every state of their instance; deadlock is not checked where the system may stop: everybody idle, or
joined.

| run | instance | states | shows |
|---|---|---|---|
| `render_thread` | 3 Windows | 213,989 | requests, destruction and stop in every order: `NoLostRequest`, `RoundRobin`, `DrawnIsAlive`, and `RequestIsDrawn` under fairness |
| `event_handler` | 3 events (two weightless, one heavy), channel of 1 | 10,386 | `SleepsRendered`, `FloodIsRendered` (what the code does, also for weightless events), and under fairness `AcceptedIsRun`, `CloseReleases` |
| `display` | the same channel, 2 events that change the Window and 1 that does not, 1 Window | 176,149 | both threads together: `QuietIsCurrent`, and `ChangeIsDrawn` under fairness |
| `graph_sync` | root, 2 Nodes, 1 Property; beside it 4 siblings, from every order | 52,654 | `Agreement`, `ReachableIsAlive`, `OneParent`, and the refinement `DrawsSnapshots`; `Placed`, `OthersKeepTheirOrder`: the rotations against the documentation of the functions that use them, with the queries, whatever the order before |
| `ancestors` | every pair of Nodes in every forest of 6 | 61,880 | `AnswerIsCommon`, `NearestUnlessSteep`, and `SearchEnds` |
| `application` | main, 1 timer, 2 events, 2 Windows, queue of 1 | 222,470 | `NoLostWakeup`, `ClearedAlone`, `NothingRunsAfterClose`, and under fairness `ScheduledIsRun`, `LastWindowCloses`, `ShutdownReturns` |
| `timer_pool` | 2 timers in 4 combinations of kinds, channel of 1 | 72,240 | `OneLateFiring`, `FiresAsOften`, `KeepAliveIsKept`, and under fairness `RunsOut`, `CloseReturns` |
| `publisher` | 4 Subscribers, 3 loops deep | 69,271 | `NoOverrun`, `EverybodyIsCalledOnce`, `EverybodyIsTold`, `NoNextAfterEnd` |

Every run but `ancestors` and `display` also checks its module's `TypeOK`. The runs that end in a violation are in
section 7.

Why the bounds are enough to be interesting: three Windows are the fewest for which one can be overtaken while another is
drawn; two weightless events and a frame of two units make a frame by weight, the heavy event a frame of its own, and one
place makes producers, finished events and the close wait on each other; four siblings give every rotation a middle and
both ends; two Nodes below a root can be siblings, parent and child, or swapped, with frames between any two steps of
`synchronize`; two events, a timer and one place in the queue let main fill its own queue, and two Windows let one be closed
as the last while the other is being opened; four Subscribers give a removal in the middle, at the end, of an entry whose
replacement is itself expired, and a newcomer; six Nodes give every shape in which one search runs into the root that the other has left; two timers
compete for the thread and for the only place of the channel, and between them are of every kind: one-shot, interval, variable, with no, two
and endless repetitions, detached, kept alive, ignoring errors, blocking and slow; in `display` one place in the channel lets a finished
event wait for it while frames are drawn. `MaxDepth` bounds the nesting of loops, `MCOwner` the owners (none in the run), `Infinite` the special number of repetitions, and the sets
`Movable` and `Flagged` the Nodes whose parent and flag change. Histories (`pending`, `served`, `unseen`, `undrawn`, `ran`, `told`, `accepted`, `quit`, `failed`)
are sets, and `fired` and `late` count what has an end: none can grow without bound. Only `publisher`, which has no liveness property, uses symmetry.

`ScheduledIsRun` and `LastWindowCloses` except a main thread that waits in a push into its own full queue (`Stuck`) or has left
`exec` with an exception (`Failed`), and
`ShutdownReturns` a joined actor that is left in a call of its own (`Abandoned`), because the code gets there: section 7. In the
same way `RunsOut` and `CloseReturns` except a fiber that uses the dead mutex (`Undefined`), and the run `timer_pool` leaves
endless timers with slow callbacks to `timer_pool_close`.

## 4. Fairness

- `RenderThread`: the threads run (`WF` of the render thread, of the notification after a request, of a stop that has begun). Nobody
  must request, destroy or stop; the condition need not wake by itself.
- `EventHandler`: the ui thread runs what can run on it (`WF` of the loop), and a blocked push goes on when there is a place, as the fair
  scheduler of fibers and the wait queues of the channel have it. No fairness for new events, for what a blocked event waits for, for the
  close.
- `Application`: `WF` of main's loop and stop, of the handler's start, of the end of its loop and of its thread, and of each call that has begun; main wakes up if an
  event is posted, not for input. No fairness for `exec`, for the beginning of a call.
- `TimerPool`: the fiber on the thread goes on, a blocked push returns when it can, time passes (`WF`), and what a callback waits for
  comes; fibers that are ready take turns (`SF`, as another fiber can get the thread first; round-robin is the default of Boost.Fiber). A
  timer that keeps a closed pool alive spins on the thread, but only until its timeout. Nobody must start, stop, discard or close.
- `Display`: `WF` of the ui thread, of the render thread and of blocked pushes; `SF` of `Request`, because the condition may wake up again
  and again for no reason and take the mutex each time, while a thread that waits for a mutex gets it in the end. No fairness for new events,
  or for what a blocked event waits for.
- `Ancestors`: `WF` of the loop.
- `GraphSync` and `Publisher` have safety properties only: the one is driven by the ui thread, the other by its callers.

## 5. What is proved

Eight modules named `*_proofs` hold theorems for every value of the constants that satisfies the named assumptions (sets that
may be empty or infinite unless the assumption says otherwise). Each has an inductive invariant `IInv`, a lemma
per group of actions, `Invariance`, and one theorem per property.

| module | theorems | along which argument |
|---|---|---|
| `RenderThread_proofs` | `Typing`, `RequestsAreKept`, `QueueIsFair`, `FramesAreSafe`, `NoMissedRequest` | the queue has no duplicates, so a popped Window is not further back; requested Windows exist, so skipping an expired one loses no request; the mutex keeps the queue empty between the failed predicate and the sleep |
| `EventHandler_proofs` | `Typing`, `EverythingIsRendered`, `FloodIsBounded` | the counter knows every finished event that is not shown (`CounterCovers`), a positive counter leaves something to pop (`AsleepIsWoken`), and finished events are not more than their weight (`WeightCovers`) |
| `GraphSync_proofs` | `Soundness`, `Typing`, `Reachability`, `Hierarchical`, `VisitedOnce`, `FramesAreStable` | the hierarchy, whoever owns whom: the dead hold nothing (`GoneIsBlank`), whoever is held by the living is alive (`HeldIsAlive`), every child is there once and calls the Node that has it its parent (`Kin`) |
| | `Registration`, `Agreeing`, `Snapshots` | the two threads, if nobody owns another's child: besides, a flag that is set is pending in `dirty` (`FlagsArePending`) and Nodes that are not look the same to both (`OthersAgree`); `Snapshots` maps every step to one of `Snapshot` or to a stutter |
| | `Stacked`, `Undisturbed` | the z-order, for any number of siblings in `MCZOrder`: a rotation moves the element at each place to a place that is named (`Rotated`), without loss; so it keeps the order of those it does not name (`Without`) |
| `Application_proofs` | `Typing`, `Wakeup`, `Clearing`, `Silence` | a queued event comes with a posted or a promised wake-up also before `exec` (`WakeupComes`); main's position says who has been joined (`JoinedInOrder`) |
| `Publisher_proofs` | `Typing`, `MemorySafety`, `NothingAfterEnd`, `EverybodyHears`, `EverybodyOnce` | every running loop ends inside of the vector (`EndsInside`); the vector is cleared by the outermost loop only (`FinishIsOutermost`), and becomes shorter only where loops do not nest (`ExpireOrNest`); loops that publish run only before the end (`Published`); after it the second loop has told whoever it has passed (`Ended`), and whoever was accepted is told or still in the vector (`Known`); each loop has called whom it had to or has him before it, and whoever it has called is behind it (`Walks`), with no entry twice (`Distinct`) and, where Subscribers expire, the end of the loop at the end of the vector (`Level`) |
| `Ancestors_proofs` | `Typing`, `AnswersAreCommon`, `TheNearestIsFound`, `EveryStepCounts` | each search is above its Node, and every known Node is above one of the two and below where its search has come (`Climbed`); so a Node that is met again is above both, or is a root. Each has remembered all it has passed (`Remembered`), they have not both passed a common ancestor (`Apart`), and they have come up equally far (`Balanced`); so what the second one meets first is the nearest, unless one has reached the root before |
| `TimerPool_proofs` | `Typing`, `StoppedTimersFireOnce`, `TimersFireAsOften`, `KeepAliveTimersAreKept` | a timer is in the channel at most once (`Queue`); callbacks and repetitions left add up to the repetitions asked for (`Repeated`, `Single`, with `Stock` for what is left); a timer that was given up is fired late only from the position it was in (`Lateness`), and its fiber ends for one of three reasons (`Ending`) |
| `Display_proofs` | `Composition`, `NothingIsLeftBehind` | every step is one of each part or leaves it alone, so the invariants of both carry over; a change that the handler has not shown is marked in the Graph (`Marks`), and one that is synchronised but not drawn is about to be requested or pending in the render thread (`Owes`) |

Assumptions beyond those on constants: `Registration`, `Agreeing` and `Snapshots` assume `Unowned` (nobody stores the
NodeOwner of another Node's child); with one TLC finds a change that `synchronize` loses. The other theorems of
`GraphSync_proofs` hold for every `Owner`. Those of `Publisher_proofs` assume `Safe`: no
Subscriber ends the Publisher that calls it, and none publishes or subscribes from a call where Subscribers may expire;
without the second half TLC finds a read behind the end of the vector. `ForestsAssumption` of `Ancestors` says that no Node
but a root is above itself, which `set_parent` does not check (section 7). Nodes (`Ancestors`, `GraphSync`) and siblings
(`MCZOrder`) are finitely many: they are objects in memory.

Why the hierarchy stays sound in `GraphSync`. The Nodes that a step destroys are the least set that contains all that it
frees. `Freed` is monotone, so that set frees exactly itself: whoever is destroyed is held by no survivor, and a child of a
survivor survives (`HeldIsAlive`), whatever order the destructors run in and however they cascade through owners. What owners
remove is taken out of the copies by `Without`, which keeps `Distinct` and brings nobody in, so that `Kin` survives too.
`SetParent` keeps it because a Node is entered in one vector and erased from the other in the same call. Nothing of this
looks at dirty flags, which is why it needs no `Unowned`; `OthersAgree` does, as the Node that an owner's death marks in the
middle of the loop may be cleared unvisited. While `synchronize` runs, the Nodes that are done with (`Visited`) only become
more, of finitely many (`VisitedOnce`).

Why the nearest ancestor is found. While both searches run, neither has met what the other remembers; with `Remembered`
that gives `Apart`. The search that arrives at a Node that the other one knows has come to the first of its ancestors that
both share, as it has passed none before. The exception is a search that stands at the root and "climbs" to it again, which `Balanced` and the
depths in `NearestUnlessSteep` exclude; the depth of a Node is the number of Nodes above it, so the proof counts finite
sets and needs no recursion.

The library's induction theorems cannot be used here, but induction over the natural numbers for a given set follows from
one of its theorems about finite sets: an injection of a finite set into itself misses nothing, and the counterexamples
up to one number would be mapped into themselves by subtracting 1. The lemma `Induction` states it, and with it
`GraphSync_proofs` proves what the recursive function in `Without` returns for every sequence.

`RenderThread_proofs` and `EventHandler_proofs` state the step of their invariant as a lemma (`NextIInv`), which
`Display_proofs` cites through an instance, so that whatever changes in a part is proved again for the whole. Every safety property of the passing runs is stated by a
theorem. Some theorems state what no run lists: `NoMissedRequest` (`SleepsWithoutWork`) and `Registration`
(`DirtyIsMarked`), which other properties imply; `FramesAreStable`, a part of `DrawsSnapshots` that needs no `Unowned`; and
`EveryStepCounts` and `VisitedOnce`, which say for every number of Nodes that a loop comes closer to its end with each step, the part of
termination that a prover of steps can state.

## 6. What is only model-checked

Liveness under fairness, which the prover does not do: `RequestIsDrawn`, `AcceptedIsRun`, `CloseReleases`, `ChangeIsDrawn`,
`SearchEnds`, `ScheduledIsRun`, `LastWindowCloses`, `ShutdownReturns`, `RunsOut`, `CloseReturns`. Of `SearchEnds` the measure
that decreases is proved (`EveryStepCounts`), not that fair steps are taken.

## 7. Where the code and its documentation part

Each of these is a run whose one property TLC violates.

- `render_thread_stop` (`StopJoins`): `_stop` stores `m_is_running` and notifies without the mutex. Between the wait's predicate and
  its sleep both are lost, and the destructor joins forever.
- `event_handler_weight` (`WeightlessWait`): `event_handler.hpp:37-41` says of an event of weight 0, the default, that it "does not add
  to the counter", and that such events alone are drawn once the queue is empty, "unless of course you manage to flood it". The code
  adds `max(0.001f, weight)` for every event (`event_handler.cpp:64`): a thousand weightless events bring a frame while the queue is
  full of others. `FloodIsRendered` states what the code does, and is proved; it is the better of the two for the user.
- `ancestors_nearest` (`NearestIsFound`): two searches climb in turns; the one that has come to the root goes on from the root to the
  root and ends by meeting what it has just inserted itself. If one Node is much deeper than the other, the root is returned
  instead of the "first common ancestor" of `any_node.hpp:295`. `NearestUnlessSteep` says how deep is too deep.
- `timer_pool_close` (`CloseReturns`): only a timer that waits asks whether the pool is closed. A repeating timer whose callback lasts as
  long as its interval is always due, never waits, and `~TimerPool` ("shuts down all running ones", `timer_pool.hpp:39`) never returns.

Found with the models and kept as hazards, as exceptions of properties, or only here, without a run of their own:

- The expiry test of a Window precedes the Graph's mutex (`render_manager.cpp:45`), and the handle is dereferenced outside of the
  `try` block (`:60`): a Window destroyed in between ends the render thread (`rpc = "dead"`).
- A Node that dies during `synchronize` and owns another one marks that one's parent as dirty in the set that is being iterated. The
  set is then cleared, the flag stays, and no later change of the parent is ever drawn (`graph.cpp:125-130`).
- `_set_parent` (`any_node.cpp:243`) writes the new parent into the copy without marking the moved Node. Its data keep the old
  parent, which may be destroyed while the render thread still follows it.
- An event that opens a Window while another thread shuts the Application down waits for a function that main no longer runs
  (`window.cpp:98`); main joins that event, and `exec` hangs (`Abandoned`).
- A Subscriber publishes while another one has expired: the inner loop pops an entry, and the outer one reads behind the end of the
  vector (`publisher.hpp:67`).
- `timer_pool.hpp:150`: `stop` "prevents it from firing again"; a timer whose fiber is past its last test fires once more
  (`OneLateFiring`). `timer_pool.hpp:224`: letting go of the last owner "will immediately stop the Timer"; it is dropped at its next
  timeout. A timer that the closed pool has ended still says that it is active.
- `start` while the pool is being destroyed throws and leaves the timer RUNNING for ever (`timer_pool.hpp:144-146`).
- A timer that keeps a closed pool alive spins on the thread until its timeout, as the wait returns at once (`timer_pool.cpp:55`),
  and all other fibers wait meanwhile. One that blocks in its callback across the close waits on a mutex that is gone.
- `check_buffer_size` (`timer_pool.cpp:10`) accepts a buffer of one place, which the channel of Boost does not.
- The search for the common ancestor of a Node and one of its own ancestors throws, unless that one is the root, although the two are
  related (`any_node.cpp:302`). Its user `AnyWidget::get_xform_to` climbs from `this` twice instead of from `this` and from the other
  Widget (`any_widget.cpp:46`).
- `synchronize` returns the first child of the root and no other Window (the TODO at `graph.cpp:133`, against `graph.hpp:128`):
  `Display` is about changes of that one.
- An event that throws after it has changed the Graph counts neither as an event nor as weight (`event_handler.cpp:73`): its change waits for a
  later event, against `event_handler.hpp:40`. Changes made right before the close may get no frame at all.
- The fiber of a blocked event writes the loop's local variables through references after the loop has ended (`event_handler.cpp:60`).
- A function that throws on main leaves `exec` (`application.cpp:142`), for instance a full-screen Window without a monitor
  (`window.cpp:223`): the state is still RUNNING, nobody has joined the event handler, and main does not own the ui mutex.
- The Application closes with its last Window even if another one is being created (`application.cpp:217`).
- A function that calls `shutdown()` on main, or the last Window, blocks main forever if its queue is full (`Stuck`).
- Invisible Properties reach the render thread only if their Node is dirty for another reason (`node.hpp:186`).
- A Node can become the parent of one of its ancestors (`any_node.cpp:239`); the cycle is never freed.
- A Subscriber that completes the Publisher in `on_next` is called again after the end; `error` inside of `complete` turns FAILED into
  COMPLETED, against the diagram at `publisher.hpp:126`; every Subscriber gets `on_complete` and `on_error` twice (the TODOs at
  `publisher.hpp:198` and `:212`); as `on_error` throws by default (`subscriber.hpp:28`), `error()` with such a Subscriber leaves the
  Publisher RUNNING, although `publisher.hpp:189` says that it completes it as well.
- `graph.hpp:126` says that `synchronize` removes all modified copies: clearing the DIRTY flag makes new ones, equal to the data.

## 8. What is not modelled

- The registry of Nodes and names, hashes of Nodes and Properties, Slots and Signals: the registry is a pair of maps behind one mutex;
  its one race is noted as a hazard and known to the code (`graph.cpp:59-64`).
- Operators, Pipelines, Triggers, the single-Subscriber policy and the reactive registry. An Operator is a Subscriber
  that publishes what it hears, the case of `Publisher` in which a call publishes elsewhere; the registry is a table filled at compile time.
- Widget layout: sizes are floating-point numbers, out of reach as they are.
- Scenes, Visualizers, the WindowDriver, Graphics, Input: they pass calls to OpenGL or from GLFW, without state of their own to get wrong.
- ResourceManager: every operation is one critical section over a cache of files.
- ThreadPool: nobody in the repository uses it.
- The pynotf prototype shares no code with the library.
- Data races (`m_windows`, `is_the_ui_thread`) are noted as hazards, not explored: the models take the accesses as atomic.

## 9. The plan

Done, in this order: `RenderThread`, `EventHandler`, `ZOrder`, `Snapshot` and `GraphSync`, `Application`, `Publisher`, `TimerPool`,
`Ancestors`, `Display`, each with runs and proofs. What composes what: `GraphSync` extends `ZOrder` and implements
`Snapshot`; `Display` puts `EventHandler` and `RenderThread` together and implements both; `Application` contains the start and end of
the event handler's thread and of the timers as abstract actors, whose insides are `EventHandler` and `TimerPool`.

What would come next:

1. Pipelines of Operators with toggles on top of `Publisher`; Property, Slot and Signal as its users.
2. `GraphSync` in the place of `marked` in `Display`: its refinement of `Snapshot` already says what a frame shows.
3. The states of ScopedSingleton, and a start of a timer that races with its end.
4. Proofs: the measures behind the other liveness properties, as `EveryStepCounts` is for `SearchEnds`; that the dirty Nodes
   which `synchronize` loses with owners are only those that an owner's death marked in the loop.
