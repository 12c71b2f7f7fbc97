# Vulcan MES: specifications, model checking and proofs

Vulcan MES is a manufacturing execution system. A FastAPI backend (`src/backend/app`) keeps
jobs, tasks, machines and operators in PostgreSQL, draws up production schedules with a CP-SAT
solver, publishes domain events when a transaction commits, and pushes them to browsers over
WebSockets; a Next.js front end caches what it fetches. This directory holds TLA+ modules for the
parts whose correctness depends on interleavings, failures, orders of calls and bounds; TLC
configurations that check them on small instances; and proofs, checked by TLAPS, of the results
that matter most.

Paths below are relative to `src/backend/app` unless they start with `src/`.

| Part | Modules | Runs | Proofs |
|---|---|---|---|
| WebSocket connection manager | `WsConnections`, `MCWsConnections` | `ws_registry`, `ws_queue`, `ws_lost` | `WsConnectionsProofs` |
| Schedule aggregate | `Schedule`, `PublishedPlan`, `MCSchedule` | `schedule` | `ScheduleProofs` |
| Units of work and event bus | `DomainTransactions`, `EventDelivery`, `MCDomainTransactions` | `tx_units` | `DomainTransactionsProofs` |
| HTTP rate limiting | `RequestLimits`, `MCRequestLimits` | `limits`, `limits_blocked` | `RequestLimitsProofs` |
| Two-level cache | `LruCache`, `TwoLevelCache`, `MCTwoLevelCache` | `cache` | `TwoLevelCacheProofs` |
| Solver runs | `SolverRuns`, `MCSolverRuns` | `solver` | `SolverRunsProofs` |
| Secret rotation | `SecretRotation`, `MCSecretRotation` | `rotation`, `rotation_configure` | `SecretRotationProofs` |
| Job cache of the front end | `JobCache`, `MCJobCache` | `job_cache` | `JobCacheProofs` |

To use them: `tlc -config MCWsQueue.cfg MCWsConnections.tla` runs a configuration (the pairs
are in `PROJECT.json`), `tlapm ScheduleProofs.tla` checks a module of proofs.

Two conventions. A definition with `_Bug` in its name is a slip somebody could make in the code, such
as a queue that is read and not cleared or a strict comparison that is not. It stands before the
definition it distorts and no action uses it; `PROJECT.json` pairs every property of a passing run with
such a slip, and TLC shows the slip to violate the property. A type invariant that is proved as
`TypeCorrect` is not repeated in the runs.

---

## 1. Inventory

### 1.1 Parts with state and hard behaviour

**WebSocket connection manager** (`api/websockets.py`). State: four dictionaries that must
agree (active connections, their info, subscribers of each topic, connections of each user),
the last ping of each connection, a bounded queue of notifications for each user who is away.
Operations: connect, disconnect, subscribe, unsubscribe, the frames an endpoint reads,
`notify_user`, broadcasts to topics and users, a health check every 30 s. It interacts with the
event bus (a domain event starts a broadcast as a task), the REST routes (broadcast, notify)
and the browsers. Hard: everything shares one event loop, and every `send_text` is a place where
other coroutines run, connections come and go and the send itself may fail. Correct when the
dictionaries agree, a live client keeps its registration, a broadcast reaches everyone it should,
a notification is delivered once or kept, and dead connections are forgotten.

**Schedule aggregate** (`domain/scheduling/entities/schedule.py`). State: status, assignment of
each task, jobs, bounds, makespan, violations found last. Operations: edit a draft, validate,
publish, activate, complete, cancel, calculate metrics. Called by the scheduling service and
the schedule routes. Hard: long sequences of legal calls, a stored validation that goes stale,
a conflict check that sorts and compares neighbours only, times that cross lunch and midnight.
Correct when a published schedule books nothing twice, keeps to working hours and is never
edited, and when its bounds enclose its assignments.

**Domain units of work and the event bus** (`infrastructure/database/domain_unit_of_work.py`,
`infrastructure/database/unit_of_work.py`, `infrastructure/events/event_bus.py`,
`infrastructure/events/domain_event_publisher.py`). State: the SQL session and the events each
unit has collected, the handlers of each event type, a bounded history. Operations: the `with`
block with its commits and rollbacks, publication after a commit, subscription. Interacts with
the domain services (which open units) and with the WebSocket manager (a handler of the bus). Hard:
each of commit, rollback and handler may fail; a handler may open a unit and publish in the
middle of a publication; lists are changed while they are iterated over. Correct when handlers
see each event of a committed transaction exactly once, in order, and no other event.

**HTTP rate limiting** (`core/rate_limiter.py`). State: recent requests and failed logins of each
address, the window of the login routes, blocked addresses. One operation, `dispatch`, which awaits
the answer of the application in its middle. Hard: a failed login is counted after the answer, so
requests overlap with it; lists are cleaned by some paths only; four comparisons of times at the edges
of windows. Correct when limits hold over every window and a block runs its time.

**Two-level cache** (`infrastructure/cache/multi_level_cache.py`, `core/cache.py`). State: an LRU
with times to live in each server process, the marks of loads under way, one shared Redis. Operations:
get with promotion, set, delete, delete by pattern, `warm_cache`. Hard: processes that cache what another
one deletes, loads that race with deletes, Redis failing in the middle, restarts. Correct when age is
bounded, a delete is not undone, and a key is loaded once at a time.

**Solver runs** (`core/solver_management.py`). State: active solves, temporary directories on disk and on
a list, the queue and the threads of the event loop's pool. Operations: `managed_solve` with
`solve_with_timeout` in it, the clean-up, the emergency shutdown. Hard: a thread cannot be interrupted,
a timeout races the answer, the clean-up of one solve touches all. Correct when every call ends, nothing
runs for nobody that did not run already, and no directory is left for good.

**Secret rotation** (`core/secret_rotation.py`). State: a thread and a stop event for each type of secret,
a bounded history that says when a type was last rotated, the active database engine and those about to
be disposed of, one lock. Operations: start, stop, configure, the loop of a thread, a forced rotation.
Hard: the lock is held while threads that want it are joined; the engine is read without it. Correct when
no thread escapes the administrator, the engine in use stays open and replaced ones are closed,
rotations keep their interval, and calls return.

**Front-end job cache** (`src/frontend/src/features/scheduling/hooks/use-jobs.ts`). State: what the
browser has cached of a job and of the lists it is in, and the mutations under way with the snapshots
they would go back to. Operations: update a status (shown at once, taken back when it fails), bulk update,
delete, fetch. Hard: answers come in any order or never; a rollback meets another update. Correct
when what is trusted in the end is not made up and shows the browser's own writes.

### 1.2 Parts that compute, parts that only pass on, parts that cannot run

Working-time arithmetic and windows (`domain/scheduling/value_objects`), the critical path, the CP-SAT
models (`core/solver.py`, `domain/scheduling/optimization`) and the services that validate, allocate and
match skills are functions: correct when they agree with a plain definition of their result. Routes,
middleware, persistence, migrations, monitoring, cryptography and most of the front end pass calls on.
Several parts of the domain layer raise as written. Section 11 says why each of these has no module.

---

## 2. WebSocket connections

### 2.1 Correspondence

One asyncio event loop runs everything, so **an action is what one coroutine does between two
awaits that really wait**: `accept`, `receive_text`, `send_text`. A call such as `connect`, which
sends twice, is several actions; a synchronous method is part of the action that calls it.

| State | Code |
|---|---|
| `active_connections`, `connection_info`, `topic_subscriptions`, `user_connections`, `last_ping` | the fields of `WebSocketConnectionManager` (`last_ping` reduced to: none, under two minutes old, older) |
| `queues` | `MessageQueue.queues`; `evicted` remembers what a full deque dropped |
| `pc`, `socket`, `queued_messages` | where the endpoint coroutine of a connection waits, its socket, the local variable of `connect` |
| `leg`, `connection_ids`, `visited`, `sending`, `successful_sends`, `stale_connections` | the local variables of a loop that sends: a notification, a broadcast, the health check |
| `delivered` | history: the copies each client has got |

| Actions | Code |
|---|---|
| `Connect`, `Confirmed`, `Flushed`, `Refuse` | `connect` and the head of the endpoints |
| `Ping`, `Subscribe`, `Unsubscribe`, `OtherFrame`, `MalformedFrame`, `Replied`, `Hangup` | the loop of the endpoints and `handle_client_message` |
| `SendToAudience`, `SendNext`, `SendingDone` | `broadcast_to_*`, `notify_user`, `_handle_async` of the event handlers |
| `HealthWakes`, `HealthFindsNobody`, `HealthPingsNext`, `HealthCleansUp` | `_periodic_health_check` |
| `PeerLeaves`, `PingAges` | the environment: a client goes, two minutes pass |

A closed socket makes a send fail; Starlette then marks it as disconnected, and the next
`receive_text` raises `RuntimeError` instead of `WebSocketDisconnect`, so that endpoint ends
without a `disconnect`. `socket = "broken"` is that state. A socket whose peer has left may still
deliver frames that had arrived. A connection id is a path and a timestamp and is never reused,
so each element of `Conns` is one attempt.

Abstracted: messages are their senders, confirmations and replies carry nothing, a frame above
the rate limit is `OtherFrame`, the demo route and the statistics are left out.

### 2.2 Runs

| Run | What it shows | Instance |
|---|---|---|
| `ws_registry` | The dictionaries agree; nobody but dead or stale connections is removed; a broadcast reaches everyone it should; dead connections are forgotten. | 2 connections, one of a user, which pings, subscribes and unsubscribes, one anonymous, which sends other and malformed frames; one event with two audiences, the health check; 78 000 states |
| `ws_queue` | A notification is delivered at most once to a connection and never to two connections through the queue; it is delivered, queued, evicted or lost with a dead connection; no queue exceeds its bound. | 3 notifications, a queue of 2, 2 connections of one user; 326 000 states |
| `ws_lost` | *Violated*: a notification that has reached nobody stays queued. | 1 connection, 1 notification |

Why these are enough: a queue of two with three notifications overflows; two connections are what it takes to
share a queue, to interleave a connect with another one's disconnect, and to have one send of a loop fail while
another waits; two audiences exercise the overlap of a broadcast. Each kind of frame is sent by one of the
connections: a malformed one ends an endpoint without a disconnect, which one connection has to do while the
other one changes its topics. Notifications and connections of one user are interchangeable, which is the
symmetry of `ws_queue`; the other runs use none. Connections, notifications and broadcasts are finite because
the sets of attempts are; nothing else is bounded.

**Fairness.** The event loop runs every coroutine whose await has ended, so endpoint steps that
need no client, and steps of a loop that has started, are weakly fair. A send ends: it succeeds,
or fails because the peer is gone. The health check sleeps 30 s and comes back. Clients are not
fair: they never have to connect, ping or leave, and a broadcast need not start.

### 2.3 What the code's comments say and the code does not do

`ws_lost`: the notification is queued, the user connects, the peer leaves before the confirmation
is sent; the send fails and the connection is forgotten; `connect` ignores that result, takes the
queue, which clears it, and drops the batch. `NotificationAccountedFor` states precisely what
the code does guarantee, with this loss as its last case, and `ws_queue` checks that no other
way of losing a notification exists.

Seen while reading, with no run of their own: the health check disconnects the ids it found stale
although one of them has pinged while the pings were awaited, and leaves its socket open
(`OpenConnectionKept` states what does hold); a full queue drops its oldest notification silently; a
notification is queued although its user has reconnected during the failing sends (370-371); a client
that was removed by the health check and subscribes again puts its id back in `topic_subscriptions` for
good (400), so `RegistryConsistent` speaks of active connections there.

### 2.4 Proofs

`RegistryStaysConsistent` is proved from the inductive invariant `RegistryInv`: the types, the
consistency of the dictionaries, and that an id whose endpoint is new is unknown to every
dictionary. The last part is needed because `connect` writes an entry without looking for an old
one. Most steps disconnect a set of ids, so the proof rests on one lemma: forgetting any set
keeps the dictionaries consistent (`DisconnectConsistent`). `OpenConnectionsAreKept` is proved
step by step: the ids a step removes are closed or stale. `TypeCorrect` bounds every queue.
The assumption is `ConfigAssumption`: the constants have their types and the markers are distinct.

`BroadcastsReachAll` rests on `VisitedInv`: of the ids a loop has turned to, all but the one it is sending
to have the message or are no longer registered. It is inductive because an id never comes back: the loop
copies registered ids only, and only a new connection registers.

`NotificationsReachOnce` and `NotificationsAccountedFor` follow together from `NotificationInv`, which says
of each notification where it is. While its call runs it is nowhere but with the clients the loop has done
with, and `successful_sends` is zero exactly if there are none (`RunningInv`): hence it is queued only if
nobody has it. While it is queued nobody has it, and while a connect holds it nobody else does (`HeldInv`).
Afterwards it is accounted for. One fact about the endpoints is needed besides (`PendingInv`): a connect that
has not sent its confirmation has no messages yet, and was never pinged, so that the health check cannot
find it stale and forget it before it takes the queue. TLC found the invariants to hold on `ws_queue` and
`ws_registry` before they were proved. Left to TLC: liveness.

---

## 3. Schedule

### 3.1 Correspondence

One action is one method call; a call that raises changes nothing, with two exceptions that are
modelled: `publish` stores the violations it found before it refuses, and `calculate_metrics`
stores the makespan before it divides by a length of zero. A time is a number of parts of a minute
(`Minute` of them), and the check of business hours truncates it to the minute of the day, as the code does
with `hour * 60 + minute` (`MinuteOfDay`, 442-445); a violation is reduced to its kind (machine, operator,
hours, lunch). Names, timestamps, cost and utilization are
left out. `Earlier` and `Later` are `_update_schedule_bounds`, `SortedOrders` and `Clash` the
conflict checks, `OutsideHours` and `OverLunch` the check of business hours, `MayFind` the whole of
`validate_constraints`.

`sorted` is stable, so tasks that start together keep the order of the dictionary. That order
depends on the history of assignments and is any order here: `MayFind` says what *some* order
finds. Callers offer assignments that end no earlier than they start. `calculate_metrics` is
called by one route, which refuses drafts and cancelled schedules (`api/routes/schedules.py`).

`PublishedPlan` is the abstract specification: a plan that may change at will while it is a draft,
is published only when it is acceptable, and is frozen from then on. `Schedule` implements it
with its assignments and jobs as the plan and "no resource booked twice" as acceptable.

### 3.2 The run

`schedule`: no double booking in a published schedule; the conflict check is exact; the bounds cover; a task
that starts and ends on one day is published only within working time, save for the seconds by which it may run
into lunch or over the close; the refinement of `PublishedPlan`. The instance has three tasks on two machines
with crews of none, one and two, and a day of eight minutes, of two halves each, with work from 1 to 6 and lunch
from 4 to 5. The intervals offered overlap, contain each other, meet back to back, start together, are empty,
and cross each limit of the working time by a minute or more, or by half a minute, the night included; 223 000
states.

Why this is enough: a conflict that neighbours hide needs three tasks (a long one over two short ones). The
hours check looks at each task alone and at minutes of the day, so one interval for each limit shows every case;
half minutes are the seconds that the truncation drops. No bound is put on the number of calls. Tasks are
interchangeable, which is the symmetry of the run.

`ConflictCheckExact` is stated for tasks that take time. With empty tasks the check depends on how
the sort breaks ties: an empty task that starts with another one clashes in one order only.

Seen while reading, with no run: a task from one afternoon to the next morning is published, since start and end
are each compared with the hours of their own day (448), which is why `PublishedInWorkingTime` speaks of tasks
that start and end on one day; seconds are dropped from start and end, so a task that ends 59 seconds after noon
or after four is published (445), which the property allows for; the bounds only widen, so the makespan of a
plan in which a long assignment was replaced by a short one is that of the long one (461); `assign_task` never
looks for conflicts although its docstring announces an error for them (254); `remove_job` leaves the
assignments of the job's tasks (220); `is_valid` answers from the last validation, and says yes of a draft that
was never validated (187); utilization is divided by a length that is zero when every assignment is empty (508).

### 3.3 Proofs

The invariant is `ScheduleInv`: types, start before end, the bounds cover, no double booking once
published. The order of the bounds is there because the makespan must not be negative.

`PublishedIsConflictFree` is the result that is not obvious: **comparing neighbours is enough for
any number of tasks**. `NeighboursSuffice` says that in an order sorted by start in which no task
ends after its successor starts, a task ends before *every* later one starts. The obvious proof is
by induction; the one here takes a later task and looks at the successor alone: the task ends
before its successor starts, and the successor starts no later than any task after it.

`RefusedOnlyForCause` is half of the converse: what the check reports is an overlap, if tasks take
time. `ConflictCheckStaysExact` is both halves: it also needs that the tasks of a resource have a sorted
order (`SortedOrderExists`). That is an induction over the group, argued with a smallest group that has no
order (`SmallestSet`): a task that starts last is taken out, the rest has one, and the task goes behind it
(`LatestExists`, `SortedOrderGrows`).

`PublishedKeepsHours` needs arithmetic with a minute and a day of any length, which the provers do not do by
themselves: `DivisionFacts` gives quotient and remainder, `MinutesGrow` that dropping seconds keeps times in
order, and `MinuteBetween` that a time between two of one day is of that day, its minute between theirs. With
that, start and end within the hours and no overlap with lunch put every time of the task into working time, but
for those of the minute it ends in if that is the first of lunch or after the close (`HoursMeanWorking`,
`KeepsHours`).

`ScheduleIsPublishedPlan` proves the refinement: each action is a step of `PublishedPlan` or leaves
the plan and its stage alone. `Publish` uses `CleanPlanIsConflictFree`. The assumption is
`ScheduleAssumption`: finitely many tasks, offers that do not end before they start, and
business hours in order. Nothing the run checks is left without a proof.

---

## 4. Domain transactions

### 4.1 Correspondence

All of it is synchronous but nothing is sequential: a commit publishes, publishing calls handlers,
and a handler may open a unit of its own whose events are published before the handler returns.
The units that are entered form a stack (`stack`); the innermost one, or its handler, runs. `phase`
says where each of them is, `position` and `next_handler` where its two nested loops are.

| Actions | Code |
|---|---|
| `Enter`, `AddDomainEvent`, `ClearDomainEvents` | `__enter__`, `add_domain_event`, `clear_domain_events` |
| `Commit`, `CommitFails`, `Rollback` | `commit` and `rollback`, called in the block, with the failure of either |
| `Leave`, `Abandon` | `__exit__`: commit at the end of the block; any exception |
| `Publish`, `CallHandler`, `HandlerEnds`, `NextEvent`, `PublicationEnds` | `_publish_domain_events`, the bridge of `DomainEventPublisher` and `InMemoryEventBus.publish` |
| `Subscribe`, `Unsubscribe` | `subscribe`, `unsubscribe` |

Application code is free: it may add events, commit and roll back as often as it likes and catch what
these raise. The SQLAlchemy session is external and reduced to its contract: a commit may fail, a
rollback may fail, and after a rollback that failed no commit succeeds until one works. Whether a
handler raises makes no difference to the bus, so `HandlerEnds` stands for both. `fate` remembers what
became of the transaction an event belongs to, `handled` the calls of handlers.

Assumed of callers: a unit object is entered once, a handler does not add events to the unit that is
publishing, and only the handlers in `OneShot` unsubscribe during a publication. `Subscribe` happens
between units, where the application does it. Events are numbered in the order in which they are added.

`EventDelivery` is the abstract specification, with neither sessions, nesting, lists nor loops: events are
added; all that is staged in a unit is committed or discarded at once and for good; and a handler is called
for a committed event that comes after those of the same unit it was called for before. `DomainTransactions`
implements it with `unit_of` as the owners and `handled` as the calls.

### 4.2 The run

`tx_units`: handlers see events of committed transactions only, at most once, in the order of their unit;
when all blocks are left nothing is forgotten; a handler that never unsubscribes sees every committed
event, unless it was passed over; the refinement of `EventDelivery`. The instance has 2 units, 3 events of one
type, 2 handlers, the first of which may unsubscribe while an event is published, and a history of 2; 416 000
states.

A handler is passed over when one before it unsubscribes while it is next in line: the bus iterates over the
list itself and not over a copy (117, 131), so the list shifts under the loop. `publish` is to publish "to all
registered handlers" (110); `EveryHandlerNotified` says that this is the only way in which a handler that stays
misses a committed event. `skipped` (history) holds what was missed in this way (`PassedOver`); without that
exception TLC shows the skip on this instance. Nothing under `app` unsubscribes a handler.

Why this is enough: two units nest in each other's block or handler; three events let a unit
commit two and a nested one a third, or one unit commit twice with a failure between; the history
overflows; with two handlers, the first of which may go, there is one still to be called when the list shifts.
`MaxEvents` and
the number of units are the bounds, and since both get used up the system may stop: the run does not check
for deadlock.

Seen while reading, with no run: when a handler commits a unit of work of its own, the handlers after it see the
second event before the first (`UnitOrderKept` is the order that does hold, within one unit); the history keeps
its newest events at its limit (305); `publish_domain_event_async` publishes through the bridge and then to
`publish_async`, so synchronous handlers run twice (`domain_event_publisher.py` 71); several routes use `async
with` on the synchronous `domain_transaction`.

### 4.3 Proofs

`UnitsStayConsistent` proves the invariant `TransactionsInv`, from which the five theorems on commits,
order and types follow. Besides the properties it says: the stack holds exactly the units that are
entered, once each (`StackOK`); a unit holds only its own events, in order, staged until it commits and
committed while it publishes (`PendingOK`); a staged event is in the list of a unit (`NothingLost`); no
handler is subscribed twice (`SubscribedOnce`); in a publication the events after the current one
have been handled by nobody, and the current one only by handlers before the next (`NotAhead`); and
what a unit has had handled is no newer than what it has still to publish (`NoneNewer`). The last two are
why `HandledOnce` and `UnitOrderKept` survive handlers that change the list under the loop: removal shifts
handlers to the left, so a handler may be skipped and never be called again. They had to be found for any
`OneShot`.

`HandlersAreNotified` is `EveryHandlerNotified`, with no assumption on the subscribers. A handler that is in the
list of a publication and not yet called stays ahead of the loop or, when a handler before it leaves, is the one
that is passed over and so in `skipped`. Hence of the current event each handler that the loop has walked past
has seen it or is in `skipped`, of the events before it each handler that stayed (`PublishedSoFar`; those that
stay are in the list, `StillListed`), and a committed event is accounted for in this way or still being published
(`CommittedSeen`). `UnskippableAreNotified` adds that a handler with no one-shot
handler before it is never in `skipped` (`SkippedBehindOneShot`): it sees every event.

`UnitsDeliver` proves the refinement of `EventDelivery`. Adding an event is a step of it because events are
numbered as they come (`AddedOK`); sealing a unit's list is settling all that is staged in the unit, because
what is in the list is the unit's own (`PendingOK`) and what is staged is in a list (`NothingLost`); a call
is allowed because the invariant holds after it (`UnitOrderKept`, `OnlyCommittedHandled`). All other steps
change nothing that shows. That handlers are called at all is not part of it, since a handler may have
unsubscribed; that is what the two theorems on notification say.

The assumption is `TransactionsAssumption`: constants have their types and no handler is subscribed
twice at the start.

---

## 5. Rate limiting

### 5.1 Correspondence

`dispatch` runs on the event loop and awaits only the answer of the application: what it does before the
await is one action (`RefuseBurst`, `Forward`, `ForwardLogin` or `RefuseLogin`), what it does after it
another (`LoginAnswered`, `LoginFails`). Between the two other requests run, which is the interleaving
that matters. A request of a blocked address is refused and changes nothing; it is not an action.

| State | Code |
|---|---|
| `request_history`, `failed_attempts`, `rate_bucket`, `blocked_ips` | the dictionaries of `RateLimitMiddleware`, for each address |
| `waiting` | logins the application works on |
| `log` | history: what happened to an address, with its time. A list of times in the code is a set of positions of this log, so that two requests of one instant stay two |

`Young` is the cleaning of a list, `TrackRequest` and `DetectBurst` the burst window, `RateLimited` and
`AuthLimit` the window of the login routes, `TooManyFailures` the block for failures. Whether an answer is
a 401 is up to the application, so each login is answered, fails, or is of the password routes, whose
answers are not looked at. The parts of the middleware about headers and client addresses are left out:
an address is a constant. The clock is integer.

### 5.2 The run

`limits` shows that no more than one request above the threshold passes in any burst window
(`BurstBounded`), that logins keep to the limit for the failures of the last hour although the lists are
cleaned on other occasions than they are read (`LoginsWithinLimit`), that after too many failures nothing is
served before the block has run its time from the last of them, even if that came after the block had
started (`ServedAfterBlock`).

`limits_blocked` is *violated*. An address blocked for a burst is "temporarily blocked" (71), for `block_duration`
(77), and told to "try again later" (93): when the block is over, its next request should be served, since the
block is longer than the burst window (`BurstBlockIsTemporary`). It is not: three requests, a fourth that is
refused, the block passes, and the next one is refused for a burst again. The burst check reads a history that
only requests that pass it clean up (97, 106), so **an address refused for a burst is never served again** until
the server restarts.

Instance: one address, since no code relates two of them; eight events over five seconds; a burst window of
2 s above 2 requests, a login window of 3 s, failures remembered for 4 s, a block of 2 s after 2 failures.
Eight events are enough to fill each list, have two logins overlap, fail after the block has begun, and
send requests after the block has ended; five seconds let the block, the burst window and the memory of
failures end within a behaviour. `MaxEvents` and `MaxTime` are the bounds, so the run does not check for
deadlock.

Both runs have this instance. Seen while reading: `main.py` does not mount the middleware; the decorators of the
other limiter in the file, `DistributedRateLimiter`, make a new one, with nothing in it, for each request
(`api/routes/mfa.py` 108, 155, 289), so they never refuse one.

### 5.3 Proofs

All properties of `limits` are theorems, for any thresholds, windows, addresses and bounds, from the invariant
`LimitsInv`. What makes it inductive is an exact description of each list (`Lists`, `BucketOK`): it holds the
events of its kind that were young when the last one of them was entered, neither more nor fewer. From that
follows that a list that was cleaned too long ago only makes the code stricter. `BlockHolds` says the block
starts no earlier than the last failure that made it, and `Stuck` that a burst leaves its history above the
threshold. `NobodyBlockedForNothing` proves that an address is blocked only if it was too fast or failed too
often (`BlockedForCause`), and `BurstEndsService` that the counterexample of `limits_blocked` is no accident:
whatever the thresholds, windows and block, a burst is followed by no service (`BurstIsForever`). The assumption
is `LimitsAssumption`: limits and windows are positive and the limit of logins does not grow with failures.

---

## 6. Two-level cache

### 6.1 Correspondence

Each process has a first level (`l1`, an LRU, in `LruCache`) and a set of marks (`warming`); they share Redis
(`l2`). `get`, `set` and `delete` run without suspending and make one call to Redis, so each is one action, with
the outcomes of `get` as actions of their own: `GetL1`, `GetL2` (with promotion), `GetMiss`. `delete_pattern`
makes two calls (`ScanPattern`, then `DeleteFound` or `PatternFails`) and other processes run between them.
`warm_cache` and the loads of `CacheWarmer` suspend while they load: `StartWarm`, `Read`, `Store`, `LoadEnds`;
`StartLoad` is a load that sets no mark. `call` holds the loads under way.

The `OrderedDict` of a first level is its `entries` and its order: `older[k]` is the set of keys that were
last used before `k`. `move_to_end` puts all others there and takes `k` out of theirs, `del` takes a key out of
all of them, and `popitem(last=False)` takes the key before which there is none.

`CacheManager` turns every error of Redis into the answer it gives for a missing key. Hence `GetMiss` is
possible whatever Redis holds, `DeleteL1Only` is a delete whose second half failed unseen, `Store` may leave
Redis as it was. The calls that store a key may give times to live of their own (`l1_ttl` and `l2_ttl` of `set`,
241 and 249, passed at 324, 563 and 613); `Lifetimes` says which ones a key may be stored with, and an entry
remembers its own. Promotion uses the default of the first level whatever they were (`L1TTL`, 200). `Tick` drops
what has expired in Redis; the first level drops it when it is read. `Restart` empties a process. `Change` is a
writer of the database, `data` what a loader would read; versions number the changes. Statistics, serialization
and the sizes of values are left out, and so is the `CacheInvalidator`, a sequence of the deletes above.

### 6.2 The run

`cache`, with two keys, two processes, two loads and a first level of one entry; one key is stored with the
default times, 1 in the first level and 2 in Redis, the other with 2 and 1; 1.26 million states:

* `LruIsOrderedDict`: the first level of the model, `LruCache`, does what the code does with its `OrderedDict`,
  statement by statement: after every sequence of calls from empty, for four keys of which three fit, entries,
  order and victim agree. The first levels of the processes, of one entry each, never hold more and keep such an order
  through promotions, expiries and restarts.
* `AgeBounded`: a value is gone from Redis when the time it was stored with has passed, and from a first level
  when its own time there has or, if it was promoted, less than that level's default time after it was gone from
  Redis. Promotion gives a value a full time to live again, however little it had left and however short its own
  time was to be; this is how much that can add up to.
* `FreshAfterDelete`: once a delete through a process has reached Redis, that process finds no version older
  than what was current then, except those that loads under way had read. The exception is exactly the race
  of a load with an invalidation; the deletes that failed and the first levels of other processes make no
  other.
* `OneLoaderPerKey`: in a process, one `warm_cache` loads a key at a time and no mark stays behind.

Why this is enough: with two keys and room for one, each store evicts, and what is evicted where more fit is
compared with `OrderedDict` apart; a time that is longer than the default in one level and shorter in the other
shows which of them a step uses; a second process stores between the
two calls of a pattern; two loads overlap with a delete and with each other. `MaxTime` = 2 lets an entry be
promoted at the end of its life in Redis; `MaxVersion` = 1 tells stale from fresh. Processes and
callers are interchangeable, which is the symmetry; the keys are not, for their times differ. The clock and the
versions are bounded, so the run does not check for deadlock.

Seen while reading: a delete leaves the first levels of the other processes as they are until they expire
(262); a second caller of `warm_cache` waits 0.1 s and takes what is there (315); the
invalidator uses the id of an event for every type of entity, so a change of a task deletes the entry of a
job with the same id (487); the route that reports performance makes a cache of its own for each request.

### 6.3 Proofs

The last three properties are theorems, for any processes, keys, patterns, capacity and times to live, those
of the calls included. The invariant adds to types that Redis holds nothing expired (`AgeInv`), that each version
deleted through a process bounds from below the data, what loads under way have read, its first level
and Redis (`FreshInv`), which a `delete_pattern` between its two calls already keeps except for the keys it
is about to delete, and that a mark and a marked load determine each other (`OneMark`).

`FirstLevelsFit` is about the first levels in the system, with any capacity: no more keys than fit, and an order
of exactly those. Each operation of `LruCache` has a lemma: it keeps `LruShape`, which is types, a number of entries
that fits, and the order (`LruOrdered`, which may except the key that `set` has stored and not moved to the
end yet). Room can be made because the order has a first (`LruFirstThere`): a key with the fewest keys before
it has none, since a key before it would have fewer. The assumptions are `CacheAssumption`, `NoneAssumption`
and `CapacityAssumption`, that the capacity is not zero; a first level of capacity zero would raise when it
makes room.

---

## 7. Solver runs

### 7.1 Correspondence

`managed_solve` with `solve_with_timeout` in it suspends in one place: while it waits for the thread of the
pool. So entering (`Start`, `Refuse`, `SetupFails`) and leaving (`Answer`, `TimeOut`, `Cancel`, which all end
with `Leave`, the clean-up) are one action each. The pool of the event loop is `queue` and `thread`
(`TakeNext`, `ThreadEnds`); a thread that runs cannot be stopped, one that is queued can be taken back
(`Abandon`). `temp_files` is the list of directories of the manager, which all solves share, `dirs` what is
on disk, `stuck` (history) what could not be removed. `EmergencyShutdown` removes the directories and
forgets the list. `timer` and `budget` count down what is left of the caller's wait (the limit and ten
seconds) and of the solver's own limit, so that time needs no bound; `waited` (history) is the time in the
queue.

The resource monitor is left out: it raises its error in a task of its own and catches it there, so nothing
of a solve depends on it. Solvers, models and solutions are outside.

### 7.2 The run

`solver`: three solves share one thread; the solver of one of them never ends. Limit 2, grace 1.

* `NoDirectoryLeft`, `DirectoriesListed`: whichever way solves end and overlap, what exists belongs to an
  active solve or could not be removed, and what could not be removed is tried again, unless an emergency
  shutdown forgot it.
* `TimeoutNeedsQueue`: a solver that keeps its limit is cut off only if its model waited for a thread for as
  long as the grace: the two limits count from different moments.
* `NoGhostSolve`: what runs for nobody was running when its caller left.
* `EverySolveEnds`: every call ends, even if its solver never does and no thread is ever free.

Three solves and one thread give one that runs, one queued, and one that starts or cleans up meanwhile. With
the solver that never ends, the thread is never free again. Each call is made once, so the sets are the
only bound and the system stops when all are over: the run does not check for deadlock.

**Fairness.** Time passes, the pool takes the next model, the event loop resumes a caller whose answer is
there or whose time is up, and a solver that keeps its limit ends. Nothing is assumed of solvers that
overrun, of clients that cancel, or of the shutdown.

Seen while reading: the clean-up of a solve removes the directories of the solves that still run (588), which
is why no property says that an active solve has its directory; `TMPDIR` then names a directory that is
gone; the timeout that `solve_with_timeout` raises is not the one `managed_solve` expects, so the status
`timeout` is never set (308), nor `memory_exceeded` (208); the published metrics are those of the monitor,
whose status stays `initializing`; the memory limit that is set is never reset.

### 7.3 Proofs

All properties of safety and the types (`TypeCorrect`, with no more solvers at work than the pool has
threads) are theorems, for any solves, workers, limits and solvers that overrun. What has
to be added to them is little but not obvious. A solve is in the queue once (`QueuedOnce`), or taking it back
would leave a copy behind, against `NoGhostSolve`. What is on disk is listed or could not be removed
(`DirsInv`), whoever cleans up for whom. And time adds up (`ClockInv`): while a model is queued, what is left of
the caller's wait and the time it has waited make the limit and the grace, and while a solver that keeps its
limit runs, they make at least its budget and the grace. When the wait is over and the solver is still at
work, what is left is that it waited for the grace: `TimeoutMeansWaiting`.

`RemoveAtFacts` and `AbandonFacts` say what a queue is from which an element was taken. The assumption is
`SolverAssumption`. Left to TLC: `EverySolveEnds`, which is liveness.

---

## 8. Secret rotation

### 8.1 Correspondence

`rotor` says what each thread and each caller that forces a rotation of the database is at: `waiting` in the
wait of its stop event, `due`, `rotating`, `swapping` (the new engine is made and not yet active),
`logging`. The administrator's calls (`StartScheduler`, `StopScheduler`, `Configure`) set `admin` to what is
left to do, and `StartNext`, `Join` and `Return` do it. `lock` is the one lock; `StopScheduler` holds it until
`Return`. `Joined` is true at any time since each join has a timeout. `LogPending` and `LogOutcome` are
`_log_rotation_event`, which needs the lock; `Over` changes the status of the event that is already in the
history, since it is the same object, before the thread asks for the lock. `Check` is `_should_rotate`:
the completed rotations of the last interval, as far as the history reaches. `MakeEngine` reads the active
engine without the lock, `EngineSwapped` replaces it with the lock and gives the old one to a timer
(`closing`).

The vault is an outcome: a rotation fails before anything has changed (`RotationFails`) or goes on. A forced
rotation that fails, or is of another type, leaves nothing behind and is left out. `lastDone`, `newer`
(what was logged last, until as many events followed it as the history holds) and `raced` (the engines made
active while another rotation had read the one before) are history.

### 8.2 Runs

`rotation`, with two types, two threads ever started, one caller, three engines, a history of two, an interval of
2 with a warning of 1; 1.18 million states:

* `NoStrayThread`: a thread that lives and was not told to stop is the one on record for its type.
* `ActiveEngineKept`, `ReplacedEnginesClosed`: the active engine is never given to the timer, although the
  one to dispose of is read without the lock; every replaced one is, with one exception. When two rotations
  have read the same engine and one makes its own active, the other replaces that one but gives the engine it has
  read to a timer: the one in between is never disposed of (260, 268). `raced` holds the engines that became
  active while another rotation was about to swap, whether it was forced or of a thread stopped meanwhile.
* `EarlyOnlyWhenCrowdedOut`: a rotation comes early only when as many events as the history holds were
  logged since the last one. The history of all types has one limit.
* `CallsReturn`: stopping does not hang, although the threads that are joined want the lock.

`rotation_configure` is *violated*: `configure_rotation` is to "restart rotation thread if running" (469). It
stops the thread and asks for another one, which is refused because the old one is still on record: the
secret is never rotated again.

Why these are enough: a type that is stopped and started again while its first thread still rotates needs two
threads; overlapping rotations need a thread and a caller, and for two of them to replace the same existing
engine it takes three engines, the one they have read and one of each; two types of which one fails push events
out of a history of two. `Threads`, `MaxCalls`, `MaxEngines` and `MaxTime` are the bounds; they get used up, so
the runs do not check for deadlock.

**Fairness.** The administrator's call goes on: each join takes 5 or 10 s at most. Nothing is assumed of the
threads, since a rotation waits for the vault and the database, which need not answer; nobody has to call,
and the clock need not advance.

Seen while reading: the retries of `_perform_rotation` never happen, since each rotation catches its own
exceptions (219); forced rotations are not in the history, so a scheduled one follows; a thread whose join
timed out ends its rotation after `stop_rotation_scheduler` has returned.

### 8.3 Proofs

The five properties of safety are theorems, for any types, threads, callers, intervals and history. The
invariant says that only started threads are on record or stopped and that all are told while the scheduler
stops (`ThreadsInv`); that an engine just made is nobody else's (`EnginesInv`); that a rotation replaces the
engine it has read or one that is in `raced` (`RacedInv`); and at which place of the history the last completion
of a type is: behind exactly as many events as were logged since (`RecordsInv`), as long as these are fewer than
the history holds. `EarlyOnlyWithoutRecord` follows from that place: while it is in the history,
`_should_rotate` finds it. The assumption is `RotationAssumption`. Left to TLC: `CallsReturn`, which is
liveness.

---

## 9. Job cache of the front end

### 9.1 Correspondence

The module looks at one job: its row on the server, the entry with its details, the lists it may be in, and
the mutations, which run in parallel. An action is what the browser does between two answers of the server
(`UpdateStatus` is `onMutate` and the request, `UpdateSucceeds` and `UpdateFails` are `onSuccess`, `onError` and
`onSettled`), or what the server does with one request (`Execute`, `ServerReads`). Answers come in any order
or not at all: a request may fail before or after the server has executed it. The query client is external
and modelled by four operations: `SetData` stores a value as fresh, `CancelFetch` ignores the answer of a
fetch under way, `Invalidate` marks an entry stale and fetches it if a page shows it, `NoEntry` removes it.
`ListKeyMatches` says which lists an update refreshes.

A row carries a version, the number of writes before it, which the rows of the code do not have; 0 is a
status the browser made up. Creating a job, the counts, and the lists by status that no page shows are left
out. The lists stay on the screen, and the page of the details is there or not from the start and closes only with
a deletion. A page that closes while a fetch is under way is outside the model: the fetch goes on, an
invalidation asks for no other while nobody shows the entry, and the old answer would then clear the stale mark.

### 9.2 The run

`job_cache`, 1.26 million states: two mutations of a job with two statuses, the details, a list that shows
one status, one write of another user. Details are *trusted* when they are not stale and no update is under
way.

* `GuessesAreTemporary`: a made-up status is never trusted, though a rollback puts back a snapshot that may
  be the guess of another update.
* `DetailReadsOwnWrites`: trusted details show every write of this browser's updates, also of those that
  were reported as failed, however answers and fetches are ordered.
* `ListsReadOwnWrites`: the lists that are not refreshed miss no job that was moved into them by an update, bulk
  update or deletion that ended in success. An update that the server has executed and whose answer was lost
  ends in `onError` and `onSettled` (`use-jobs.ts` 201-216), which refresh the details and no list: a fresh list
  may miss that job until it is fetched again, so the property leaves such writes out (`DetailReadsOwnWrites`
  does not).
* `DeletedJobNotServed`: an update that overlaps with a deletion puts nothing back that would be shown.

Two mutations are what overlapping takes; each property names one mutation and disturbs it with another.
Entries of lists do not depend on each other, so one list with a filter is enough; the case without a filter
is refreshed on more occasions. Mutations are interchangeable, which is the symmetry. `Mutations` and
`MaxOthers` are the bounds; the run does not check for deadlock because a behaviour may end with a closed
page.

Seen while reading: after an update only the lists that show the new status are refreshed, so the list the
job left keeps it until its next fetch (`use-jobs-helpers.ts` 24), and the lists by status are not
refreshed at all; a bulk update refreshes the lists whatever became of its parts, and never the details
(`use-jobs.ts` 364). The hooks for tasks roll back to a snapshot and ask for no fetch afterwards
(`use-tasks.ts` 313), which is what the slip `UpdateFails_Bug` does here; no page uses those mutations.

### 9.3 Proofs

The four properties are theorems, for any number of mutations, lists, statuses and writes. The invariant
`JobInv` says of a fetch under way what the properties say of the entry once it has arrived: if the server
has read for it, it has read after every write the browser has been told of (`DetailFetchLate`,
`ListFetchLate`), because being told starts the fetch anew. The assumption is `JobCacheAssumption`.

---

## 10. What the proofs do not reach

Every safety property the runs check is stated by a theorem, the refinements of `PublishedPlan` and
`EventDelivery` and the action properties included, but for `LruIsOrderedDict`, which compares the model with a
list on one size. What stays with TLC besides is liveness
under fairness: `DeadConnectionForgotten`, `EverySolveEnds`, `CallsReturn`; and that the fairness assumed does
what is said of it, which is about ENABLED. The three violated runs are counterexamples and need no proof.

The provers cannot use what takes an operator as a parameter, so the models that are proved about say with
sets and positions what `SelectSeq` or a fold would compute: `older` in `LruCache`, `RemoveAt` for the queue of
`SolverRuns`. Induction over finite sets is done by smallest counterexample, from the well-foundedness of the
strict subset order in the library. The proofs take nothing on trust but the assumptions on constants, which
TLC evaluates on the instances.

Proofs worth adding: that `WsConnections` implements an abstract mailbox for each user that loses a
notification only as `NotificationAccountedFor` says, and `SecretRotation` an abstract engine that is swapped
and later closed, which would make the invariants behind these properties refinements.

---

## 11. Not modelled

Twelve runs are kept, one for each question that is worth asking of the parts above, and no part was taken
in at the price of the depth of another. What is left out is of four kinds; `PROJECT.json` gives the reason
part by part.

* **It does not run as written.** `Job` and `Task` call members they do not define on most
  transitions; the circuit breaker registers listeners through an interface its library does not have; the
  schedule repository adapter stores nothing and the routes call methods of the scheduling service that do
  not exist; the schedule validator reads assignments in a form `Schedule` does not have; the
  administrative data service holds null bytes and cannot be imported; `critical_path_optimized.py` imports
  a package that is not among the dependencies (reading it shows a forward pass that leaves the finish of a
  task at 0 when its predecessors finish at 0, and a path for medium graphs that marks nothing critical). A
  model of these would describe an intention.
* **Nothing uses it, or one call shows everything.** The connection pools: nothing outside the tests
  takes a connection from them (`connection_pool.py` 275 yields inside its retry loop, so an error in the
  caller's block makes the generator yield twice; 303 replaces an engine in use). Savepoints: rolling back to
  one shortens a list of names and undoes nothing (`core/unit_of_work.py` 190). The hooks for tasks, machines
  and schedules of the front end. The copy of the domain under `src/backends` and `src/packages`.
* **The interesting part is elsewhere.** The CP-SAT models hand constraints to OR-Tools; retries are a
  library's; cryptography and authentication are out of a model checker's reach; monitoring records.
* **It has no state of its own.** Value objects, validators, queries and read models, routes, middleware,
  repositories, migrations and most of the front end compute or pass on.

Inside the modelled parts: the token bucket of the WebSocket endpoints (arithmetic in one coroutine), the
asynchronous path of the event bus and its thread pool (units of work publish synchronously), the
composition of the bus with the WebSocket handlers (a handler starts a task and returns, so each side sees
of the other what its own module already leaves open: a broadcast may start at any time, a handler may do
anything).
