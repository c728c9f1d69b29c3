# Verification of the OpsPilot backend

OpsPilot is a FastAPI application for small businesses: several worker processes
over one PostgreSQL database and one Redis, with orders, payments, customers,
workflow rules ("when an event happens and its conditions match, run these
actions"), AI endpoints, live dashboards over WebSockets and usage limits per
subscription tier. This directory holds TLA+ modules of its concurrent core, the
TLC configurations that model-check them on small instances, and proofs checked
by TLAPS. Paths are relative to `src/app/` unless they start with `src/`.

Run a check with `tlc -config MCOrders.cfg MCOrders`, the proofs with
`tlapm MeteringProofs.tla`, or any other `*Proofs.tla`. `PROJECT.json` lists every run, the source lines each
definition stands for, and for every property a mutant of the model (a definition
such as `FitsIgnoresAmount`, with a "Mutant:" comment) that must break it.

## 1. Inventory

Every request has one `AsyncSession` of its own; services commit where their
operation ends. There is no explicit rollback anywhere in the services: a session
whose statement failed raises in its next use. Everything runs on one asyncio
event loop per process, so that the code between two `await`s is atomic within a
process, and nothing is atomic between processes except a database transaction
(READ COMMITTED, row locks from flush to commit), a Redis command or a Lua script.

| Component | State | Operations | Interacts with | Hard part | Correct when | Module |
|---|---|---|---|---|---|---|
| Usage metering `modules/metering` | one meter row per business, metric and month | `check_usage_limit`, `increment_usage` | called by the workflow engine and the AI service; reads the subscription tier | check and increment are two calls with the work in between | the overrun of a limit is bounded | `Metering` |
| Workflow engine `modules/workflows/engine.py` | execution log rows | `evaluate_and_run_workflow` | metering; actions write orders, tasks, notifications | partly failing `gather`, failing bookkeeping, lost tasks, sessions shared by tasks | log and meter tell the truth about a run | `WorkflowEngine` |
| Workflow triggers and routes `triggers.py`, `routes.py` | rules in the database, a Redis list per trigger | lookup, fill, create, update, delete, invalidate | event bus starts lookups; engine runs what they return | lookups overlap edits; Redis errors are swallowed | a rule list is out of date only for known reasons | `WorkflowCache` |
| AI service `modules/ai` | `ai_logs`, memories | streaming chat, reply, recommendations and two more of the reply kind | metering, Gemini | everything after the model's answer may fail; clients leave a stream | answers, logs and metered tokens agree | `AIService` |
| WebSocket manager `websocket/manager.py`, `connection.py`, `routes.py` | connections, presence, gauge, per process | connect, disconnect, broadcast, presence update | broadcaster, event bus bridge | a connection is cleaned up by its session and by every broadcast that fails on it | presence and gauge agree with the connections | `WebSockets` |
| WebSocket broadcaster `websocket/broadcaster.py` | subscriber task and retry delay per process, Redis channel | publish, subscribe, route, back off, start, stop | event bus bridge, manager | Pub/Sub loses what is published while a process reconnects; nobody restarts the task | an event is passed on once and in order by every process, or was missed for a reason; the loop recovers | `EventDelivery`, implementing `Mailbox` |
| Event bus `core/events.py`, `core/registry.py` | handlers, counters | `emit` | every module that subscribes at startup | concurrent handlers, some raising | every handler runs once, failures are counted | `EventBus`, composed in `EventDelivery` |
| Orders and payments `modules/orders`, `modules/payments` | orders, payments | create, set status, initialize, verify | event bus, notifications | verifications race with each other and with staff; event after commit | paid orders are completed and announced | `Orders` |
| Notifications, audit log | rows written by handlers | handle an event; mark read | event bus | lost or repeated events | one row per run that returned | `EventDelivery`, and the handler of `payment.successful` in `Orders` |
| Rate limiter `middleware/rate_limit.py` | a sorted set in Redis, a list per process | check | every request | scripts overtake each other; fallback; lost answers | a window lets at most the limit through | `RateLimiter` |
| Authentication `modules/auth`, `core/security.py` | users, token blacklist | login, refresh, logout, request | Redis, database | stateless tokens with second resolution; overlap of calls | revoked and rotated tokens are refused | `AuthSessions` |
| Accounts: registration, seeding, `get_current_user`, `modules/admin`, `modules/businesses` | users, businesses | register, seed at startup, authorize, change roles, suspend, delete, purge | every request | uniqueness under races; rows read by several queries; administrators acting on the same rows, their own included | one account per address, no half registrations, no writes for callers who were not entitled | `Accounts` |
| Customers and WhatsApp `modules/customers`, `OrderService.create_order`, `integrations/whatsapp` | customers, orders | create, update, create order, inbound message, purge by cascade | accounts, AI service | lookup before insert without a constraint; a chat knows neither its business nor its customer's | duplicates only by overlap, tenants apart, purges stay within | `Customers` |
| Migrations `src/migrations` | schema, `alembic_version` | upgrade, downgrade, each of eight | all models | one migration commits in its midst | a failure leaves what the version says, head can be reached | `Migrations` |
| API keys, feature flags, billing routes, maintenance mode | rows, a Redis flag | CRUD | no mounted route uses them | | | not modelled |
| Payment gateways, e-mail/SMS/push, analytics, logging, metrics, configuration, worker stubs | none of their own | HTTP, queries, formatting | | | | not modelled |

## 2. Modules

Every component module declares its parameters as CONSTANTS (with named
assumptions) and has one action per step between two awaits. `MC<Module>.tla`
gives the constants their values.

**Metering** is the abstract specification of a quota: a caller's check reads the
tier (`ReadTier`), then the meter (`Admit` / `Refuse`), and later adds what it used
in one upsert (`Increment`) or never does (`Abandon`, `Crash`). `ChangeTier` and
`NewCycle` are the outside world: a subscription row is edited, a month ends.
`usage` is `usage_meters.current_usage` of the current month.

**WorkflowEngine** is one call of `evaluate_and_run_workflow` per slot of `Runs`:
`pc` is the await it stands at. It is composed with Metering by
`M == INSTANCE Metering WITH Callers <- Runs, ...`: its steps *use* `M!ReadTier`,
`M!Admit`, `M!Increment`; that the whole engine implements `M!Spec` is checked
(`MeteringSpec`). Every write may fail, and a failing commit may or may not have
been applied (`WriteRow`, `Count`). That covers the sessions shared by the tasks of
one event too (`triggers.py:139-180`: the tasks use the session after its `async
with` block has been left): what another task does to the session shows to a run as
a database call that raises. A run ends by returning
(`done`), by an exception of the quota check (`raised`), by an exception of the write of a
row (`unlogged`), or with its process (`killed`); `matched` is `conditions_matched`.

**AIService** has one slot per request. The five endpoints fall into three kinds of
control flow: `stream` (log, store a memory, meter, all after the chunks), `reply`
(log, meter, answer) and `recommendations` (as reply, but an answer that is not a
JSON list falls through to the canned one without a log row). It uses Metering in
the same way, with the estimates of the endpoints as `Checks`.

**WorkflowCache** models the Redis entry of every trigger type of a business, with
readers (`get_active_workflows_cached`) and editors (the routes). An update that
names a trigger invalidates the old key before it commits (`InvalidateEarly`) and the
committed trigger's key afterwards (`InvalidateLate`); an attribute is written only
if it differs from what the session had loaded (`Patched`). Cached lists are sets
of (rule, content), as each list is replaced as a whole.

**WebSockets** models one business in one process. A session is its own coroutine,
and every broadcast is a `flight`: its sends are tasks of a `gather`, the failed
connections are disconnected when all sends are over (`Cleanup`). `out[c]` is the
order in which sends to one socket complete. The Redis subscriber loop is one more
broadcaster; events for a business or a user arrive nondeterministically (`Route`).

**EventBus** is `emit` with its gather: handlers of a call run concurrently and return
or raise one by one (`HandlerReturns`, `HandlerRaises`), the call ends when all have
(`Return`). It has no next-state relation of its own.

**EventDelivery** EXTENDS it and completes it: which handlers are subscribed at startup
(`Subscriptions`), the row or the message of a handler's run (`Write`, `Publish`, joined to
the bus's step in `Returns` and `Raises`), and the subscriber loop of every process
(`Subscribe`, `RouteMessage`, `RouteFails`, `Disconnects`, `Retry`, with `delay` as `retry_delay`).
Redis hands a message to the loops that are `listening` at that moment and keeps nothing.
The bus of one process (`Home`) is modelled; others only listen. What a routed message
does to sockets is `WebSockets.Route`.

**Mailbox** is the abstract specification of a broadcast: messages are posted once, each
reader is given them one by one, always the oldest that waits for it (`Deliver`), or loses
them for good (`Lose`, or by being away when one is posted). `EventDelivery` implements it
with the processes as readers (`MailboxSpec`): `sent` is `channel`, `got` is `routed`,
`lost` is `missed`, and what waits for a process is what its `buffer` holds.

**Accounts** is the rows of users and businesses and the requests that change them, one
step per query: registration and the seeding at startup (check, then one insert against
the unique index), `get_current_user` (`ReadUser`, then `ReadBusiness` with a query of its
own), and the administrator's operations (`Load`, then the write of what differs from the
loaded row). A session keeps the rows it has read, so an administrator who acts on their
own account works on the row read during authentication. A business and its owner share one
id, since only a registration inserts a business.

**Customers** EXTENDS Accounts with customers and orders: the members' requests pass the
same authentication, WhatsApp messages pass none. `PurgeTenant` is `PurgeBusiness` with what
the foreign keys take along. `entitled` and `raced` are history carried by requests.

**Migrations** executes the eight migrations statement by statement. A schema is a set of
objects, each with the table it belongs to and the objects it refers to; `Allowed` and
`After` are what PostgreSQL does with a statement. A command opens one transaction for
all its migrations (`Begin`), which 39ac1e823fed ends by its `COMMIT`; from there on each
statement is durable (`Execute`). `Interrupt` ends the command anywhere.

**Orders** is one order, its payments, `verify_payment` (called by the redirect and
by the generic webhook), `update_status`, and the handler of `payment.successful`.
A flush and the commit after it are one step, since row locks are held between the
two. The order is written only if it was not "completed" when it was last loaded;
whether the refresh after the payment's flush reloads it is left open.

**RateLimiter** is one key: the Lua script in Redis and the fallback list of each
worker are both `Slide`. `CheckRedisSameMember` is the script whose random member
equals one that is there. History variables: `admitted`.

**AuthSessions** is the tokens of one user. A token is its kind and its expiry in
whole seconds, since the code puts nothing else into it that would differ between
two tokens. Time runs in half seconds. Calls (`PassBlacklist`, `PassUser`, `Rotate`,
`IssueRotated`; `Logout`, `RevokeAccess`, `RevokeRefresh`) overlap at every await.

History variables, which the code does not have, are named as such where they are
declared (`excused`, `lost`, `announced`, `admitted`, `revoked`, `rotated`,
`unannounced`, `repeats`, `dropped`, `emitted`, `ended`, `raised`, `life`, `written`,
`channel`, `routed`, `missed`, `start`, `outcome`, `torn`, and `entitled` and `raced` in requests and rows); no guard reads
them except `EventBus.Emit`, which is bounded by `emitted`, and the number of a message in
`Publish`, which tells two messages apart. `start` also tells which statements a command in
`Migrations` executes: those planned for the version it began at.

## 3. Runs

Passing runs.

| Run | Properties | What it shows |
|---|---|---|
| `metering` | `TypeOK`, `UsageBounded` | limits are not hard, but the overrun is at most what all concurrent callers can add, less the smallest estimate; with tier changes, new months and crashes |
| `workflow_engine` | `TypeOK`, `LogAndMeterAgree`, `MeteringSpec`, `RunsEnd` | no success row unless all actions took effect; a run that returns although it was refused or not all of its actions succeeded leaves a failed row at `ERRORS_ONLY` and `ALL`; an exception ends a task without a row only before its first action, with nothing left behind, or in the write of the row itself; a run is counted at most once and only if all took effect; the engine keeps to the quota protocol; every run ends. A success row *and* a failed row for one run are possible (the meter's increment raised), and the properties allow exactly that |
| `ai_service` | `TypeOK`, `AnswersAccounted`, `MeteringSpec`, `RequestsEnd` | no whole answer is given before it is logged, and the model's before it is metered, once; a canned one has exactly one mock row (after a model row, and metered, if the failure came late); nothing is metered without a row; a request that never got to the model leaves nothing; what a client has without a row and a metering is chunks of a stream that its client left, whose process stopped, or that went over to the canned reply, logged or not; every request ends |
| `workflow_cache` | `TypeOK`, `StaleHasCause` | an entry is out of date only if an editor is about to delete it or for one of four recorded causes |
| `websockets` | `TypeOK`, `NoGhosts`, `SeenIsCurrent`, `LostIsForgotten` | nobody is present without a connection; somebody connected is missing only after another of their connections was disconnected since the last one connected; the gauge is too low by exactly the disconnects of connections that were disconnected already, and never too high; clients that end with the manager's presence list except for late cleanups, lost clients that do go |
| `event_delivery` | `DeliveryTypeOK`, `HandlersAccounted`, `OncePerProcess`, `MailboxSpec`, `LoopsRecover` | one run per handler and emission, exact counters, a row for every run that returned; every process passes a message on at most once and in order, and what it does not pass on it had no connection, no process or an error for, for good; the loop of a running process always comes back |
| `orders` | `TypeOK`, `AnnouncementsBounded`, `AnnouncementsFaithful`, `PaidCompletes` | a payment is announced at most once per overlapping verification, only when committed, and lost only by a failing handler or a stop; being paid completes the order, with one exception spelled out in the property |
| `rate_limiter` | `LimiterTypeOK`, `WindowRespected` | no store lets more than `Limit` through in an interval `MaxDelay` shorter than the window |
| `auth_sessions` | `TypeOK`, `RevokedRefused`, `RotationBounded` | a revoked token passes again only from half a second before its nominal expiry on; a refresh token is rotated at most once per overlapping call |
| `customers` | `CustomersTypeOK`, `AccountsSound`, `ActsOnlyEntitled`, `DuplicatesHaveCause`, `TenantsApart`, `PurgeStaysWithin` | one account per address and no business without the account it was registered with, no administrator with a business and no member of a purged one, whatever overlaps; every write was for a caller who was entitled at some moment since authentication began; two customers share a phone only if lookup and insert overlapped; customers and orders refer to rows that exist and only chats mix tenants; a purge takes customers of its business along, its orders, and chat orders of those customers, nothing else |
| `migrations` | `MigrationsTypeOK`, `DriftHasCause`, `FailureAtomic`, `UpgradeArrives` | the recorded revision never claims too much; what is there beyond it stems from an interruption after the `COMMIT` or from enum labels; only upgrades through 39ac1e823fed leave traces when they fail; upgrades arrive unless one finds an object in its way (`Stuck`), which only an interruption after the `COMMIT` or a downgrade below it puts there |

The run that shows a disagreement between the code and what it says of itself.

| Run | Property | Trace |
|---|---|---|
| `workflow_cache_quiet` | `CoherentWhenQuiet` | a reader misses and queries the rules; an editor creates a rule, commits and deletes the key; the reader stores the list without it, which is served for up to 24 hours (a rule that is switched off stays in the list the same way). No fault is needed |

Properties that say one thing in several parts are conjunctions of named parts
(`LogAndMeterAgree == RowsHonest /\ NoSilentEnd /\ CountedOnce`), and each part has a
mutant of its own where a different bug breaks it.

### Bounds, and why they are enough

- `metering`: 3 callers, limits 3 and 5, estimates and amounts up to 2. `usage` is
  bounded by the property itself. Three callers are needed for two of them to be
  admitted on one reading while a third is being refused; the theorem covers the rest.
- `workflow_engine`: 2 runs against limits 1 and 2, so that both are admitted
  together, and one is refused. A slot is reused, so that runs follow each other
  without end. Actions are abstracted to all/some/none of them taking effect.
- `ai_service`: 2 requests, limit 3, replies of up to 2 tokens (`MaxTokens`), one
  chunk (`MaxChunks`): a reply may cost less or more than its estimate, and a stream
  may fail before or after a chunk.
- `workflow_cache`: one rule moving between two triggers, two editors, one reader.
  Rules do not affect each other except in the same list, and every cause of
  staleness involves at most two editors of one rule and a reader. Ids are not reused.
- `websockets`: one user with two connections and the subscriber, thus up to three
  concurrent broadcasts. Users share only the presence dictionary, keyed by user.
  `MaxDrift` stops new connections when the gauge is 1 too low: without it the gauge
  falls without end.
- `event_delivery`: two calls of `emit` at a time and two in the life of a process
  (`MaxEmissions`), two processes, two faults (`MaxFaults`: failed calls or connections,
  ended processes). The event is `payment.success`, which reaches most handlers and may
  name no business; two faults let a second one hit the recovery from the first.
- `customers`: three accounts, the administrator's among them, two roles (only
  `super_admin` is treated differently from the rest), two customers, one phone number in
  either spelling, one order, and three requests (`MaxRequests`), two at a time, from every
  state of that size without orders. A third request can follow, or see, what two
  overlapping ones left behind. Deadlock is not checked: requests are bounded.
- `migrations`: two interruptions (`MaxInterrupts`), three downgrades (`MaxDowngrades`),
  any number of upgrades; the schema and its statements are complete.
- `orders`: two payments, three verifications, two members of staff, three statuses.
- `rate_limiter`: limit 2, window 4, `MaxDelay` 1, time up to 7 (`MaxTime`; the window
  slides through three positions beyond its length), one worker, two requests at a time.
  Workers share nothing but Redis, and a script only sees its stamp.
- `auth_sessions`: two calls, lives of one second, time up to one and a half seconds,
  in which tokens of two seconds exist and the first ones expire. Access and
  refresh tokens have equal lives here, as the code compares neither with the other.

Symmetry is used in runs of invariants and action properties only, over slots that
the specification treats alike; none of the liveness runs uses it. Deadlock is checked
in every run but `customers` and `event_delivery`, where calls are bounded.

### Fairness

- `WorkflowEngine`, `AIService`: weak fairness of each run's or request's own steps.
  They are coroutines on the event loop; a step that stays enabled is an await whose
  answer has come or whose driver raises. New runs, crashes, disconnecting clients,
  tier changes and further chunks get none: `StreamEnds`/`ModelFails` do, a model's
  stream is finite.
- `EventDelivery`: weak fairness of each process's subscriber loop. Subscribing answers or
  raises, the sleep between attempts ends, and messages are routed one after the other.
  A process that has ended need not be started again, and handlers get no fairness.
- `Migrations`: a command that runs goes on (`CommandStep`), and the deployment runs
  `alembic upgrade head` again whenever no command runs; downgrades get none.
- `WebSockets`: sends complete or fail, gathers return, and the session of a client
  that is gone ends, at the latest by the server's WebSocket ping timeout. Clients
  get no fairness.
- The other modules are checked for safety only and assume none.

## 4. Proofs

Eight modules `*Proofs.tla` hold theorems, for every value of the constants that the
assumptions admit. Each extends the module it is about, or the modules (`RealtimeProofs`:
`WebSockets` and `EventDelivery`, `RedisProofs`: `WorkflowCache` and `RateLimiter`,
`DatabaseProofs`: `Orders` and `Migrations`), names the inductive invariant and proves that
the initial states satisfy it and every action keeps it; PTL joins the two.

| Module | Theorems | Inductive invariant |
|---|---|---|
| `MeteringProofs` | `MeteringTypeOK`, `MeteringReserved`, `MeteringBounded` | `IInv == TypeOK /\ ChecksInRange /\ UsageReserved` |
| `WorkflowEngineProofs` | `EngineMeters` (`MeteringSpec`), `EngineUsageBounded`, `EngineTypeOK`, `EngineLogAndMeterAgree` | `RunTypes /\ Accounted` |
| `AIServiceProofs` | `EndpointsMeter` (`MeteringSpec`), `TokensBounded`, `ServiceTypeOK`, `ServiceAnswersAccounted` | `RequestTypes` and `Kept` of every request |
| `RedisProofs` | `CacheTypeOK`, `CacheStaleHasCause` | `TypeOK /\ LateKnown /\ CreatesApart /\ StaleHasCause` |
| | `LimiterTyped`, `LimiterWindowRespected` | `LimiterTypeOK /\ StampsRecent /\ AdmittedKept /\ WindowRespected` |
| `DatabaseProofs` | `OrdersTypeOK`, `OrdersAnnouncementsBounded`, `OrdersAnnouncementsFaithful`, `OrdersPaidCompletes` | `TypeOK /\ Referential /\ AnnouncementsBounded /\ AnnouncementsFaithful` |
| | `MigrationsTyped`, `MigrationsDriftHasCause`, `MigrationsFailureAtomic` | `MigrationsTypeOK /\ TablesTyped /\ OnPath /\ UntilCommit /\ DriftExplained /\ OutcomeTold /\ FailureAtomic` |
| `AuthSessionsProofs` | `AuthTypeOK`, `AuthRevokedRefused`, `AuthRotationBounded` | `TypeOK /\ LogoutsIssued`, with `RevokedSealed /\ RevokedRefused`, then `RotationReserved` |
| `CustomersProofs` | `CustomersTyped`, `CustomersAccountsSound`, `CustomersTenantsApart`, `CustomersDuplicatesHaveCause`, `CustomersActsOnlyEntitled`, `CustomersPurgeStaysWithin` | `TablesOK /\ ReqTypes /\ RequestsKnown /\ CustomersOwned /\ AccountsSound /\ OrdersApart /\ DuplicatesHaveCause` (`TenantsApart` is `CustomersOwned /\ OrdersApart`) |
| `RealtimeProofs` | `SocketsTypeOK`, `SocketsNoGhosts`, `SocketsSeenIsCurrent` | `TypeOK /\ SessionsAwait /\ RegisteredLively /\ FramesAwaited /\ FailedGone /\ Informed /\ NoGhosts` |
| | `DeliveryTyped`, `DeliveryHandlersAccounted`, `DeliveryOncePerProcess`, `DeliveryIsMailbox` (`MailboxSpec`) | `BusInv /\ DeliveryTypeOK /\ RowsMatchRuns /\ SeenInv` |

`OrdersPaidCompletes`, `CustomersActsOnlyEntitled` and `CustomersPurgeStaysWithin` are
action properties, `EngineMeters`, `EndpointsMeter` and `DeliveryIsMailbox` refinements; the others say that an
invariant of a run holds always.

**Metering.** `UsageBounded` is not inductive: it says nothing about callers that are past
their check and have not added yet. `UsageReserved` counts their share of the overrun as
already spent: `usage + |Admitted| * MaxAmount <= (Cap - MinCheck) + |Callers| * MaxAmount`.
Admitting a caller preserves it since before that step `usage <= Cap - MinCheck` and
at most the other callers are admitted (`AdmitReserved`); adding or leaving
spends or frees a share (`LeaveReserved`); a crash only frees shares
(`CrashReserved`); a new month needs only that the admitted are callers
(`NewCycleReserved`). That a running check holds some tier's limit and a legal
estimate (`ChecksInRange`) makes the first step work after the tier has changed in between.

**The meter's clients.** Every step of the engine or of an endpoint is a step of `M!Next`
or leaves the meter's variables alone (`StepRefines`), so `Spec => M!Spec`; with the
theorems of `MeteringProofs`, instantiated as `MP`, the bound on the overrun holds of the
composed systems (`EngineUsageBounded`, `TokensBounded`; no run states those two). That the
log and the meter agree is a statement about the end of a run, or of a request. It becomes
inductive by saying, for each await, which rows, effects and counts a run that stands there
can have (`Placed`), and for runs that were lost anywhere what holds at all of them
(`Told`, `MeteredIfLogged`).

**WorkflowCache.** A reader stores what it read some time ago. `LateKnown` says that this is
what the table says now, or that a commit since has marked the result as outdated, which is
what excuses the entry when it is stored; `CreatesApart`, that two rules being created are
not one row. A commit changes the lists of the rule's old and new trigger only
(`ActiveChange`), and for each of them leaves an excuse or an editor about to delete the
entry (`CommitCause`).

**RateLimiter.** That a store holds at most `Limit` stamps says nothing about the requests it
has let through, since old stamps are deleted. `AdmittedKept` relates the two: an admitted
request whose stamp is less than a window old is still in its store. `StampsRecent` says that
a request takes part at most `MaxDelay` after its stamp, so any interval around a new
admission that is `MaxDelay` shorter than the window lies within what the script has just
counted (`AdmitInWindow`); `CardMonotone` and `CardAdds` compare the sizes without computing one.

**Orders.** The announcements made and those that calls may still make are counted together,
as in Metering. `Referential` (payments refer to an order, verifications to payments) is
what keeps the types: a verification reads the status of its payment's order.

**AuthSessions.** `TypeOK` alone is not inductive: that a revoked token is one that was
issued needs that a logout was called with tokens that were (`LogoutsIssued`). A revoked token is
`Sealed`: the blacklist holds it until its tail, or the tail has come. It stays so because
an entry is never shortened below the tail by another revocation, and that is what a call
that passes the blacklist meets (`RevokedSealed`). After its first rotation a token is
sealed, so only calls that have passed the blacklist before it can rotate it again; they
are counted with the rotations made (`RotationReserved`).

**Customers.** A request writes what it learnt several steps ago. `RequestsKnown` says what
remains true of that: a caller who passed authentication
was entitled, or is a member whose business was deleted before the one query and purged before
the other, and who has nothing left to write to (`CallerKnown`); the row loaded as target is
the one there or one that has lost rights since (`TargetKnown`);
and a phone found free is still free unless the request is marked as `raced`
(`PhoneKnown`). Rows only go one way (`Grown`: nobody is revived, rejoins a business or gets
an id anew), so each step has to look after the request that makes it (`Kept`, `Noted`).
The action properties follow from the same invariant: what a purge takes is its business's or
refers to a customer of that business (`PurgeTakes`), and `OrdersApart` says that an order
which does so from another business came over WhatsApp (`PurgeTakesOwn`).

**WebSockets.** `NoGhosts` is inductive as it stands. Every entry that `connect` adds comes
with a registration, and every step that takes a registration off takes the entry too
(`PresenceBacked`); a disconnect is the one step that removes an entry, and `connect` the
one that puts it back (`AbsentHasCause`). A disconnect of a set of connections lowers the gauge
by all of them and the registrations by those that are still there; the others are what
`repeats` counts (`GaugeOffByRepeats`).
`SeenIsCurrent` speaks of calm moments only; `Informed` is its form for all others: the last
list on its way to a client that is there, or the one it has if there is none
(`Knows`), is the manager's, except for users removed without announcement and users whose
session is about to announce their end (`Ending`). `FramesAwaited` makes queues empty when
nothing is in flight, and `FailedGone` with `RegisteredLively` says that whoever a cleanup
removes is either ending or counted as unannounced. All parts of the invariant have also
been checked by TLC on the instance of `MCWebSockets`.

**EventDelivery.** `BusInv` says what the counters are while calls of `emit` are under way: a
handler has run for a call, is running or will (`CallsSound`, `EveryHandlerOnce`), and
exceptions not counted yet are those that open calls hold (`FailuresExact`, as
cardinalities of sets of runs, so that no sum has to be computed). `SeenInv` is `OncePerProcess` in a form that steps can
extend: the channel *splits* into what a process has seen or will, in its order, and what
it has missed (`Splits`). A publication extends one of the two parts (`SplitsGrown`,
`SplitsMissed`), a fault moves messages from the first to the second (`SplitsBeheaded`,
`SplitsDropped`), and routing changes neither (`HeadPassed`). A published message is new
since it carries the number of its run (`ChannelKnown`). The refinement of `Mailbox` follows:
what waits for a process is its buffer, and the buffer's head is the oldest (`HeadIsOldest`).

**Migrations.** What the statements of the eight migrations do is data, and what a fold over
it computes cannot be proved here. But the lists are constants, so TLC computes it: for each
command and revision `Path` is the schema before every statement, if the command finds what
its revision describes, and `PathShape` states what is needed of it, as an ASSUME that TLC
evaluates on the run `migrations`. For schemas that are *not* as described the proof does
the rest: a statement adds or removes the same objects in any larger schema (`AfterKeeps`), so a command's
view is always its path's schema and some of what was there beyond it before
(`OnPath`); what is refused on the path is refused (`RefusedStays`), and so no downgrade goes
below the first migration. After the `COMMIT` of 39ac1e823fed the next statement creates an enum label
that nothing drops: whoever finds it in place is stopped there (`UntilCommit`), and whoever
does not, has found nothing beyond its revision (the last part of `Explained`), meets no
refusal, and can only be interrupted.

Assumptions, each named in the module that declares the constants, and what justifies them:

- `CallersAssumption`, `EngineAssumption`, `ServiceAssumption` and the like: slots of
  callers, runs, requests, verifiers, calls and connections are finite sets, as are customer ids
  (`CustomersAssumption`); limits are numbers up to `Cap` or `NoLimit`, estimates at
  least `MinCheck`, which is at most `Cap`. In the code the limits are those of
  `modules/metering/service.py:11-15`, and `check_amount` is at least 1 everywhere.
- Markers differ from values: `"none"` is no order status, `"public"` no account,
  `Subscriber` no connection, `"absent"` no status that a client reports, `NoLimit` no number.
- Emitters are finitely many, and `"bridge"` is one of the handlers; a request waits for less
  than the window, which is a minute, between its stamp and the script (`MaxDelay < Window`).
- `PlanShape` and `PathShape` mention no parameter: they are facts about the migrations
  that TLC computes, not assumptions about the environment.
- Names the code fixes are in the sets: `"online"` is a status of presence, `"pending"` and
  `"completed"` are of orders, `"owner"` and `"super_admin"` are roles.

Only model-checked:

- Liveness under fairness (`RunsEnd`, `RequestsEnd`, `LostIsForgotten`, `LoopsRecover`,
  `UpgradeArrives`) is out of the prover's reach, as is the violation `CoherentWhenQuiet`,
  whose trace TLC shows.
- That the paths of `Migrations` are as `PathShape` says, as just described.

Every safety property that a passing run checks, invariant, action property or refinement,
is also a theorem.

## 5. Not modelled, and divergences noted on the way

Left out on purpose: the values of conditions and templates, prompts, amounts and
notes of orders, signatures and HTTP calls of the gateways, password hashing,
logging, read-only analytics, and the background worker, which consists of stubs.

Not modelled since nothing a client can do reaches it:

- Feature flags: `require_feature` guards no route. `subscription_tiers` is filled by nobody.
- API keys as credentials: `get_current_principal` is used by no route.
- The billing routes: `core/registry.py` does not mount them.
- Maintenance mode: the middleware never blocks (below).
- `toggle_business_status`: `businesses.is_active` is read by listings only.

Not modelled since it is one write that nothing overlaps to its harm: marking notifications
as read, editing a business profile, changing a password, prompt templates, and the
entries of the permission table apart from the administrator's.

Noted while reading, beyond the run above:

- `modules/metering/service.py:10` speaks of hard limits; `UsageBounded` says how
  soft they are.
- `modules/ai/models.py:19` calls the table an audit log of all outputs; the chunks of a stream
  whose client leaves, whose process stops or that goes over to the canned reply are at the
  client, and no row holds them (`EndAccounted`, a part of `AnswersAccounted`, says when).
- `core/metrics.py:22` describes the gauge as the active connections; it is too low, until the
  process restarts, by the disconnects of connections that were disconnected already
  (`GaugeOffByRepeats`, a part of `NoGhosts`).
- `websocket/manager.py:45` removes the user's presence entry when any of the user's
  connections ends, although another tab is still connected and `update_presence` does not bring
  the entry back; line 60 speaks of all active presence details (`AbsentHasCause`).
- `core/events.py:103` says "regardless of handler count", but the return
  at lines 99-101 comes first: types without handlers are not counted.
- `src/README.md:97` speaks of an audit trail of critical actions; the event of a
  verified payment reaches no audit handler, and an event may be lost after the commit.
- `src/README.md:99` and `change_password`: no token is invalidated by a password
  change.
- `modules/auth/service.py:268` says the blacklist's life matches the expiry; it is cut
  to whole seconds while the decoder accepts the second of the expiry
  (`RevokedRefused` says by how much).
- `middleware/rate_limit.py:58` promises atomic counting; two members with the same
  stamp and random suffix count as one (`CheckRedisSameMember`).
- `middleware/maintenance.py:56` compares a `str` with bytes: the mode never blocks.
- `main.py:53` compares and inserts `SUPER_ADMIN_EMAIL` as it stands, while registration
  lower-cases its addresses. The model takes it in lower case, as the default in
  `core/config.py:101` is; in another spelling the administrator's address could also be
  registered, since `AccountsSound` and the unique index speak of addresses as stored.
- `modules/auth/service.py:259`: two pairs issued for a user in one second are equal
  strings. A refresh in the second of the login returns the refresh token that it has just
  revoked (line 181).
- `modules/admin/routes.py:123` says that suspending a business suspends its users; nobody
  reads the flag. Suspending a user and deleting a business do work (`ActsOnlyEntitled`).
- `modules/admin/routes.py:295` speaks of a global alert; it reaches the sockets of the process
  that serves the request.
- A demoted administrator gets no business back, and a promoted owner is still
  the owner of the business they have left.
- `modules/audit/events.py` subscribes to `order.updated` and `payment.failed`, which nobody
  emits; the emitted `order.status_changed` and `payment.successful` reach no audit handler.
- `modules/notifications/repository.py:25`: marking all as read leaves the workspace-wide
  notifications unread.
- `integrations/whatsapp/service.py:54-63` takes any business, and looks the sender up in all: an
  order may be for the customer of another business, and is purged with that one. Two
  businesses that know one number make every message from it fail. WhatsApp sends numbers without
  the `+` that `modules/customers/schemas.py:12` demands, so customers entered by hand are
  never recognized.
- `alembic downgrade base` always fails (`DownBase` drops `users` while
  `fk_businesses_owner_id_users` refers to it), and so does an upgrade after a
  downgrade below 39ac1e823fed (the enum labels are there already).
- No migration creates `api_keys`: `src/migrations/env.py` does not import the model.

## 6. Plan

Order of work, the most important behaviour first:

1. Done: `Metering` with its proofs, its two clients `WorkflowEngine` and `AIService`
   composed with it; `WorkflowCache`, `Orders`, `WebSockets`, `EventBus` and on it
   `EventDelivery`, `RateLimiter`, `AuthSessions`, `Accounts` and on it `Customers`,
   `Migrations`.
2. Done: the theorems of section 4, the refinements of `Metering` by the engine and the endpoints
   and of `Mailbox` by `EventDelivery` among them.
3. Left out: an abstract "payment promise" for `Orders` (paid once, announced at most as
   often as verified) would say no more than the four properties of `Orders` do. Liveness
   stays with TLC.
4. When the code changes: `map` in `PROJECT.json` tells which definitions stand for the
   changed lines, and `tlapm` which steps of the proofs no longer follow. A new migration goes
   into `Upgrades` and `Downgrades`; TLC then says whether `PathShape` still holds.
