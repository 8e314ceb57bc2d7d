# Monik: a verification project in TLA+

Monik looks for price differences between DEX aggregators.  A scheduler runs a
fast scan (Level 1); a promising combination becomes an opportunity with a
Level 2 job, which asks for fresh quotes of several amounts and gives a verdict;
confirmed opportunities are announced in Telegram.  Everything is one Python
process on one asyncio event loop, with SQLite as its only memory over restarts.

This directory holds TLA+ modules that model the parts of Monik in which the
order of events matters, TLC configurations that check them on small instances,
and TLAPS proofs for every value of the constants.  `PROJECT.json` maps every
definition to the lines it models and lists the runs, the mutants of the code
that each property detects, the hazards, the findings and the theorems.

    tlc -workers 2 -config PriorityGate.cfg MCPriorityGate   # a run
    tlapm Level2Jobs_proofs.tla                              # a proof

A step of a model is one stretch of the event loop between two awaits, or one
committed transaction.  Two coroutines interleave only there, and only there can
a cancellation or a crash of the process come between.

## 1. Inventory

| component | state | operations | meets | hard about it |
|---|---|---|---|---|
| priority queue of a resource (`services/resources/gate.py`) | slots in use, heap of waiters, tiebreaker | acquire, release, discard | resource manager | a wait that ends in the turn in which its slot is granted |
| circuit breaker (`circuit.py`) | state, three counters, time of opening | allows, try_acquire, on_success, on_failure, release | resource manager | calls admitted in one state and finished in another |
| rate limiter (`limits.py`) | bucket, time of the refill, last slot | reserve | resource manager | debt, lazy refill, order of the slots |
| resource manager (`manager.py`, `retry.py`) | the three above for each resource, the common ceiling | execute | adapters, scanners | giving everything back whatever fails; retries |
| in-flight deduplication (`dedup.py`) | running tasks by key | run | manager, Level 2 worker | shielded tasks that outlive their callers |
| scheduler, task runner (`services/scheduler`) | next run and running flag of each task | tick, trigger, run once | all periodic work | overlap, timeouts, slow ticks |
| Level 1 scan (`services/level1`) | cycle, counters, memory of missing routes, row of the scan | scan, collect, deduplicate, create | manager, hand-off, database | rounds of all tokens behind one semaphore; a timeout or a cancellation anywhere |
| hand-off (`level1/handoff.py`) | none | create opportunity and job, submit | database, Level 2 worker | stored and not accepted |
| Level 2 worker and scanner (`services/level2`) | queue, semaphore, tasks | submit, confirm, cancel_all | database, manager | three writes of a verdict, shielding, shutdown |
| amount verification (`level2/amounts.py`, `routes.py`, `financials.py`) | the amount at hand | BUY, SELL, gas, rate, calculate | adapters, gas, prices, calculator | unknown is neither zero nor unprofitable |
| gas, prices, fees (`services/gas`, `prices`, `fees`) | caches of rates and fee snapshots | estimate, convert, snapshot | node, price API, deduplication, database | order of the sources, expiry, shared builds |
| calculator (`services/calculator`) | none | costs, profit, threshold | scanners | a missing term |
| adapters and HTTP client (`infrastructure/providers`, `http`) | none | request, parse, classify | providers | what each answer becomes, and who is blamed for it |
| recovery (`app/recovery.py`) | none | at startup: jobs, opportunities, notifications | database | any mixture a crash may leave |
| notification delivery (`services/notifications/dispatcher.py`) | rows and attempts in the database | claim, deliver, apply, fail | Telegram adapter, recovery | four awaits for each delivery |
| opportunity service (`services/opportunity`) | confirmations | record a confirmation, publish | notifications | idempotence |
| operational notifier (`notifications/system.py`) | last reported states | observe, repeat, greet | health monitor, dispatcher | each transition once, and never none |
| health monitor (`services/health`) | state of each provider and component | success, failure, probe | notifier, scanner | hysteresis in any order of calls and probes |
| Telegram commands (`services/commands`) | update offset | poll, handle | control service | replay after a crash |
| application, supervisor (`app`) | phase, workers, restart counters | start, shut down, restart, SAFE_STOP | everything | order of the shutdown |
| configuration (`config`) | none | load, override, validate, find secrets | container | rules across sections |
| container, registries (`app/container.py`, `services/registries`) | what is registered | assemble | everything | what was validated must suffice for what is built |
| database (`infrastructure/db`) | connection, write lock | transaction, statement, migrate | repositories | cancellation inside BEGIN, a failing COMMIT |
| backup (`services/backup`) | files, marks | copy, verify, rotate | database | partial copies |
| capability registry, observability, domain | | translation of data | | |

What makes each of the modelled components correct:

* gate: no slot is lost or doubled, no waiter beside a free slot, service in the
  order of the keys, everybody is served;
* breaker: a slot of a probe is never leaked, counters start from nothing,
  a healed resource is used again;
* limiter: the provider's rate in every window of time, order, no needless wait;
* manager: everything acquired is given back; each call is paid for; one
  operation is one failure; no deadlock among nested gates;
* Level 2: verdicts rest on saved results, agree and are final; nothing is
  RUNNING that nobody runs; the limit of parallel verifications; progress;
* application: an acknowledged command was carried out, a repeated one is explained
  by a lost process; a stop is told once; a due task runs; a restart happens;
* delivery: the records tell the truth, attempts are limited, copies are
  explained by a crash or a lost answer, verdicts stay, order, progress.

* Level 1 scan: one opportunity for a combination in a window; a row that says what
  happened; nothing stored is refused for lack of room; a scan ends; no combination is
  skipped for ever;
* verification: the verdict is the arithmetic of quotes of the same chain, of a known
  gas and of a fresh rate; a provider's health changes on its own outages; it ends;
* configuration and container: whatever is accepted can be assembled and served;
* health and notifier: statuses are earned by outcomes in a row; the whole is not
  healthier than its parts; every lasting change is told, and once;
* database, fees, backup: transactions are atomic, an acknowledged write is there, one
  build serves all callers, a sound copy remains, nobody waits for ever.

The list of hazards with their lines is `hazards` in `PROJECT.json`.

## 2. Modules

    Permits  <-- refined by -- PriorityGate
    BreakerState  <-- CircuitBreaker
                  <-- ResourceManager
    RateLimiter     NotificationDelivery     Application
    Verdicts <-- JobLifecycle  <-- refined by -- Level2Jobs
    Level1Scan      ProviderHealth
    Database <-- FeeSnapshots <-- Storage
    Configuration <-- Assembly <------------ Verification
                  <-- Quotes <-- Calculator <-'   (and Verdicts)

An arrow not called "refined by" is EXTENDS.  `MC<module>` instantiates a module for
TLC, `<module>_proofs` holds its proofs; those of `PriorityGate`, `CircuitBreaker`,
`RateLimiter` and `ProviderHealth` are together in `Providers_proofs`.

**Permits** is the abstract promise of a concurrency limit: at most `Limit`
callers inside, a permit may pass from one to another in one step.

**PriorityGate** is `gate.py`.  `active`, `waiters`, `sequence` are `_active`,
`_waiters`, `_sequence`; `stage` is the place of each request in `acquire()` and
`release()`.  `Enter`, `Reject` and `Enqueue` are the three ways through
`acquire()`; `EndWait` is a timeout or a cancellation, which the coroutine
notices only in a later turn (`leaving`); `Discard` is `_discard`, `Release` is
`release()`, both with the hand-over to the best waiter.

**BreakerState** holds the methods of `circuit.py` as operators on a record;
**CircuitBreaker** puts them under calls that ask, queue, are admitted and end,
as `ResourceManager._execute_controlled` uses them.  Time is the bit `elapsed`.

**RateLimiter** is `limits.py` over exact arithmetic: a unit of time is the
`TokenParts`-th part of the time in which a token is refilled.  `granted` is a
history of the reservations.

**ResourceManager** is `execute()` of `manager.py`: the gates of the resource from
the widest, the limiter, the common ceiling, the breaker, the attempts and
pauses of `retry.py`, and every way to end.  A gate appears as the limit that
`PriorityGate` is proved to implement (`Permits`), without its queue: which waiter is
next is left open.  The breaker is `BreakerState`; the limiter is a paid reservation
and a sleep of any length.  `Depth` places each gate after those of its wider scopes and
the ceiling after all, the order in which `_gates_for()` and `execute()` take them.

**Verdicts** is `confirmation.py`; **Level2Jobs** is the life of a job and its
opportunity: hand-off (`Create`, `Submit`, `Reject`), worker (`StartInner`,
`OuterResumes`), scanner (`Begin` ... `FinalOpportunity`, one action for each write,
`Fails` for an error at any of its calls), process (`Close` is the shutdown up to
the closing of the database, `Stop` its end or a crash), recovery (`Restart` ...
`OpportunitiesRecovered`).  The rows of the database are `jobs`, `opportunities`
and `saved`; everything else is lost at a stop.

**JobLifecycle** is the abstract promise of these rows, without worker, scanner or process:
created together, started, taken up, results written once and before any verdict, the
job's verdict read off them and the opportunity's after it, given up or expired only when
the time says so.  The mapping is the identity on the rows; the steps of the tasks and of
the process are stutters.

**NotificationDelivery** is `dispatcher.py` with the queries of its repository,
the publication of the notifications and their recovery.  `phase` is the await at
which `_deliver` or `_apply` stands; `batch` gives, for each row of the claimed
batch that the loop has not finished with, the number of attempts it had when it
was claimed, which is the number the loop goes on to use.
The transport delivers, delivers and loses the answer, or refuses for a while or
for good.

**Application** is the process: `main.py` and `lifecycle.py` from the start over the
scheduler loop to the shutdown, with `tick()` of the scheduler, the polling of
Telegram commands (one of the scheduled tasks) and the message about a stopped
scanner.  All of it is one chain of awaits, so `pc` is a single place:
`Initialise` ... `Greet` start, `Observe`, `Tick`, `RunNext`, `Record`, `Wait` are the
loop, `Fetch`, `Handle`, `StoreOffset` the poll inside it, `Shutdown` ... `Close` the
end.  The operator (`Send`), signals, time and the death of the process come between
any two of them.  The supervisor appears as the end of its single worker, which is
critical: nothing restarts it.  A loop that is interrupted without signal handlers
(Windows), `trigger()` and the overlap policies (no caller) are left out.

**Level1Scan** is `scanner.py` with `cycle.py`, `quotes.py`, `no_route.py`, `filters.py`
and `dedup.py`, scan after scan.  `pc` is the await of the scan itself, `stage` that of
the cycle of each token: its rounds put requests into `waiting` (the semaphore) and
`running` (at the provider).  `Timeout` and `Cancel` strike at any of them and leave
`orphans`, requests that the cancelled cycle does not wait for; `AnswerRaised`,
`EvaluateFails` and `StoreFails` are the errors the code catches; `Stop` and `Restart`
lose the memory and keep `recent` (the opportunities of the window) and the row.  The
hand-off is two steps, the transaction and the submission, with a cancellation between
them.  Prices are left out: the best BUY and the candidates are any.

**ProviderHealth** is `monitor.py` with `health_tracking.py`, `startup_health.py` and
`system.py`.  A call ends at any moment (`CallSucceeds`, `CallFails`), also while a pass of
the notifier waits for a message about its older `snapshot` (`BeginPass`, `Speak`,
`Spoken`, `Quiet`).  A message is delivered and confirmed, delivered and not confirmed,
or refused.  `told` and `trail` are histories.

**Database** is `connection.py` and `transactions.py`: the lock with its queue, the thread
of the driver with the statements handed to it, retries of a locked file, and writers
that are cancelled while their statement runs (`CancelHolding`).  `inTransaction` belongs to
the connection, not to a writer; that is why a statement of one can end in the
transaction of another.  **FeeSnapshots** adds `fees/service.py` and `dedup.py`: a cache,
an entry for each build under way, a shielded task, and callers that join or are
cancelled.  **Storage** adds the migrations of `runner.py`, the backups (`VACUUM INTO`,
verification, rotation, two marks) and crashes.

**Configuration** is the acceptance of a document: the environment file, the `MONIK__`
overrides, the rules of each section and of the whole, the secrets.  **Assembly** is what
the container builds from it: adapters, hosts, pairs, scope, sources.  **Quotes** says what
an answer becomes for each of the four adapters: a quote or a category of error, whether
it is tried again and whether it counts against the provider.  **Calculator** is gas,
rates, costs, profit and threshold over integers and fractions.  These four are operators;
**Verification** puts them under one state machine: an installation is loaded
(`LoadInstallation`), assembled, probed, and the amounts of an opportunity are verified leg
by leg (`buy`, `sell`, `gas`, `rate`, `calculate`) with any answer at each request, up to
the verdict that **Verdicts** gives.

## 3. Runs

| run | what it shows | bounds, and why they are enough |
|---|---|---|
| `PriorityGate` | slots accounted (conserved, none idle beside a waiter), order, progress, refinement of `Permits` | five requests, two slots, a queue of two: rejection, hand-over while a wait ends, equal keys |
| `CircuitBreaker` | true counters (no phantom probe, none stale), closes after healing | three calls, thresholds of two, one probe: late ends of calls meet running probes |
| `RateLimiter` | spaced slots, exact rate (every window within it, no needless wait) | four reservations of one to three units, a burst of two, seven units of time, an interval of one: debt over several requests, a bucket that fills up, both rules binding |
| `ResourceManager` | no circular wait among nested gates and the ceiling, calls paid, one failure for an operation, every request ends | four requests for three resources with a breaker each: one behind a provider's gate of two, a network's of one and an operation's, one behind the same provider's alone, one behind none; a ceiling of one; two attempts; requests come again without bound |
| `Level2Jobs` | verdicts founded, workers accounted (no orphan, parallel limit), refinement of `JobLifecycle`, accepted jobs start | three jobs, one place, a queue of two (so one is rejected), one job that may expire, any number of crashes and restarts |
| `NotificationDelivery` | true records (truth, attempts, copies, attempt numbers), order, progress | three destinations, the middle one undeliverable, batches of two (so one waits for the next pass), two attempts, two faults anywhere |
| `Application` | acknowledged commands, repeats explained, one message for a stop, due tasks run, restarts happen | the scan and the commands, batches of two out of three commands (so an offset lies inside and behind a batch), two starts (so what one process lost the next repeats) |
| `Level1Scan` | one opportunity in a window, truthful rows and no refusal, scans end, paused combinations are asked again | two tokens whose cycles compete for two requests at once, two providers in both directions, one combination without a route, a worker with room for two, one fault anywhere and scans without bound |
| `ProviderHealth` | earned statuses, no hidden trouble, a confirmed status not said again early, the operator learns | two providers (one changes while the other is spoken of), thresholds of two and three failures and two successes, two outcomes of calls after the probes, one message refused or unconfirmed, one start after any marks of an earlier process |
| `Storage` | atomic writes, acknowledged writes, shared builds, sound copies, waits end | a job, two callers, two builds, two migrations, two backups of which one is kept, two starts; three loads divide the faults and cancellations among them |
| `Verification` | the assembled finds what it needs, verdicts rest on known numbers, blame is fair, verifications end | some fifty installations: two that are accepted and each change of one thing that a rule tells apart; every kind of answer of providers, node and price API; two attempts; a rate that expires after one of two ticks |
| `GasCharge` | finding: the dollars of one leg charged for the gas of both | same instance |

The type invariant of each module is a conjunct of one of the invariants its run checks.  `Expiring`, `Horizon`,
`MaxRequests`, `MaxFaults`, `MaxCommands`, `MaxStarts`, `MaxObservations`, `MaxBuilds`, `MaxBackups`,
`MaxClock`, `Loads` and `Illiquid` are bounds of the models, not of the code.
`CHECK_DEADLOCK FALSE` is set where the model stops: each request of the gate is made once,
the clock of the limiter and of a verification stops at its bound, nothing is left to do
when every notification has its verdict or every writer has written, observations and
faults of the providers are used up, and the process is down for good after its last start.

Six more configurations reproduce findings: `CircuitBreakerProbes`, `Level2JobsRequeued`,
`Level2JobsCancelled`, `NotificationDeliveryBlocked`, `ApplicationSilentStop` and
`StorageRollback`.  Each checks one property with the MC module its name begins with, and
TLC finds it violated.

### Fairness

* the event loop runs what is ready: weak fairness of a coroutine's next step;
* every external operation is bounded by a timeout: its end is weakly fair, which
  end is left open;
* in `ResourceManager` a request whose gate is free again and again enters it in the end
  (strong fairness).  This is more than `PriorityGate` gives on its own: `EveryWaitEnds`
  says that a wait ends, in a place or by the timeout of the queue.  Here that timeout is
  an action that need not happen, and the fairness stands for it: in the code a request
  that others always overtake leaves by its timeout, which also ends it.  So
  `EveryRequestEnds` shows that nobody waits for a gate that is never free, not that
  nobody is overtaken;
* the semaphore of the worker serves its waiters first come, first served;
* time passes: recovery timeouts, backoffs, intervals of repetition and the pauses of
  `no_route.py` elapse;
* every await of the scheduler loop is bounded (timeouts of the handlers, a second
  of waiting), so the process takes its next step: `WF_vars(Step)` in `Application`;
* the scheduler runs the notification task, the health task and the scan again and again,
  and in `NotificationDelivery` and `Level1Scan` a stopped process is started again;
* the thread of the driver executes what it was handed; the tasks of a fee build and the
  backup under way go on (`Storage`); a request of a verification gets an answer of some
  kind by its own timeout (`Verification`).

No timeout of a wait, no error, no crash, no cancellation and no recovery of a provider is
ever assumed to happen.

## 4. Findings

1. `prices/quoted.py:64`: the rate of the native token is the dollars of one leg over the
   native cost of both, so that the gas of both legs is charged as that of one, and an
   amount may be found profitable which is not with both stated costs (`GasCharge`).
2. `db/connection.py:240`: a COMMIT that fails, like a BEGIN whose task is cancelled (line
   233), leaves the transaction open; what others write next is acknowledged inside it.
   `Acknowledged` says exactly what may be lost; `StorageRollback.cfg`.
3. `level1/scanner.py:129`: a scan that times out loses every combination it has priced,
   although its comment says that results are kept.
4. `level1/scanner.py:257`: a scan in which the cycle of a token broke off may be COMPLETE.
5. `app/lifecycle.py:379`: the integrity check announced there has no caller.
6. `gas/estimator.py:136`: a source of the price of gas that raises keeps the sources behind
   it from being asked.
7. `circuit.py:93`: a call admitted in CLOSED that ends in HALF_OPEN frees the slot
   of a running probe, so that more than `half_open_max_calls` run at once.  The
   docstring promises the limit.
8. `recovery.py:114`: a job that recovery puts back as QUEUED is never submitted to
   the worker; the comment promises a new attempt.
9. `worker.py:97`: shutdown cancels the outer tasks; the shielded inner one may
   still write CONFIRMED, which the scanner's comment excludes.
10. `dispatcher.py:252`: a stop between the two writes of `_fail` makes every later
    pass break the UNIQUE constraint at that notification, and those behind it are
    never sent.  The module promises that one destination does not block others.
11. `lifecycle.py:265`: the notifier forgets its last message only when the loop looks
    at the scanner; resumed by `/start` and stopped before that look, the scanner
    stops silently, which the notifier says must not happen.

Observed while modelling, without a run: `manager.py:187` says that a request
waiting for its share of the rate occupies no place, while a repeated attempt
(line 235) waits inside the ceiling; a crash between the last two writes of
`_finish` leaves a decided job beside an opportunity in VERIFYING, which recovery
expires only once its time is over; `recovery.py:163` says that no repeated
delivery occurs, while a process that dies after the send and before SENT is
written sends the message again (`CopiesExplained` states the exact bound);
`scheduler.py:8` and `docs/telegram_commands.md:161` say that a slow task delays no
other, while `tick()` awaits the due tasks in turn (they do run, `DueTasksRun`, after
it); the shutdown records the same state after SAFE_STOP as after a normal stop, so the next
start is not announced as one after a failure; updates are recognised as handled
only within one process (`CommandsOnce` states what a lost one repeats); `level2/routes.py:112`
takes any error of an adapter for "not supported", a definitive answer, where the documents
keep unknown apart; `level1.amount` is not checked against the decimals of the base token
as the amounts of Level 2 are, so that a configuration is accepted whose scope cannot be
built (`ScopeBuilds` of `Assembly`).

## 5. Proofs

Every theorem holds for all values of the constants that the named assumptions
allow, and every leaf is checked by TLAPS.

* **Providers_proofs**, in four parts.
  *Gate.* `GateTypeOK`, `SlotsConserved`, `NoIdleSlot` and `HeapIsPending` are inductive
  together and none of them alone: the counter can be related to the owners only while the
  heap holds exactly the pending requests, and the limit is kept because a slot in demand is
  never counted free.  `SlotGivenBack` is the hand-over, shared by `Release` and `Discard`.
  From the invariant follow the order of service and that each step is a step of `Permits`
  or a stutter (`GateImplementsPermits`).
  *Breaker.* One lemma for each method of the breaker says that it keeps a sound record
  sound; `QuietStep`, `AdmitStep` and `EndStep` lift them to the calls.  `NoPhantomProbe` and
  `NoStaleCounters` are inductive together with the type: the occupied slots never exceed the
  probes because a period starts from zero.
  *Limiter.* The order of the slots is not inductive: `LastSlotInv` adds
  that `lastSlot` is the last slot of the history and, without an interval, the very
  moment at which the debt of the bucket is covered, which makes the next slot no
  earlier.  `ExactInv` goes on from it to sums over histories of any length.  `LackInv`
  ties the lazy bucket to the history: what it lacks is what the worst of the calls left
  uncovered.  `SlotInv` gives each slot its reason (the call itself, the bucket, or the
  interval after the slot before), and `PushInv` and `PaceInv` bound how far the interval
  pushes.  The sums enter through differences of running totals only, which is why no
  induction over data is needed.  From these `SlotsAreExact` and `ProviderSeesTheRate`; the
  latter assumes `IntervalFits`, an interval no longer than a token takes, or one that
  pays for the largest request.  All requests of the application have one unit, so one of
  the two holds.
  *Health monitor.* That the application never calls itself healthy beside a provider in
  trouble speaks of the history of the observations, and the code has only two counters:
  `RowsInv` says that a counter never exceeds the row of equal outcomes at the end of the
  history, and that the failures are not counted short either; `TroubleInv` that a row as
  long as the threshold already has its status.  What was told is followed through the
  awaits of a pass by `PhaseInv` (who can have been spoken of at which place) and `SpokenInv`
  (what was told and confirmed is what `_reported` holds, and a message under way was chosen
  for a reason that still stands when it is delivered), from which `NothingIsRepeated`: it
  speaks of each delivery, the plain repeat of a confirmed status included.

* **Level2Jobs_proofs.** The invariant says, for each job, where the inner task is and
  what the three rows are then (`JobInv`): before the verdict the job is undecided and
  the opportunity open; between the writes the saved results are those carried.  It is
  proved per group of actions (worker, scanner, process).  `VerdictsAgree` is the lemma
  about `Verdicts` on which `OpportunityNeverAhead` rests.  `WInv` follows the places: which tasks a job may have
  in each state of the process (`PlaceInv`), and that neither the holders of the semaphore
  nor the running verifications exceed `MaxParallel`.  They are counted apart, since a
  cancelled holder leaves its verification running; from both `WorkersAreAccounted`.
  `LifeInv` adds what a task found before its next write and nobody has changed since: no
  results yet, the rows still as `Begin` left them.  With it every write is a step of
  `JobLifecycle` (`JobsFollowTheirLifecycle`), `Save` above all, which may only be the first.
  That verdicts are final is then proved of the lifecycle alone (`LifecycleIsFinal`) and
  inherited (`DecidedStaysDecided`).

* **NotificationDelivery_proofs.** `RowInv` is what a row says of the past: the copies
  received and the attempts spent are bounded by the answers and by the interruptions
  and lost answers that excuse them.  It breaks in the middle of a send, so `BatchInv`
  says where the current row is meanwhile (`InSend`), and that a row waiting in the batch
  is still as it was claimed (`WaitsInBatch`): without it the number used for the attempt
  may be stale.  `OrderInv` (a row never tried is in the batch before any later one) is
  what makes `QueueOrder` hold across passes and crashes.
* **ResourceManager_proofs.** `GatesMatchProgress` and `OneFailurePerOperation` are
  inductive with `AccountInv`, which says what a request has paid and called at each
  place of its way.  `GatesMatchProgress` says exactly which gates a request owns at each
  place (`OwnsByProgress`): those up to the one it waits for, and none once it is idle, so
  that a refusal, a timeout or a cancellation at any of them leaks nothing.  With the order
  of the gates (`OrderAssumption`) it follows that no set of requests waits for slots that
  only they own (`WaitsFormNoCircle`): of the waits of such a set take a deepest; the owner
  of its gate, in the set, waits for a deeper one (`OwnsWider`).  A deepest one exists
  because depths are bounded by that of the ceiling, for any number of requests.

* **Application_proofs.** `CommandInv` says, for each update, what the running process
  still owes: nothing handled twice, and nothing counted that was not.  It survives the
  acknowledgement of a batch because `BatchInv` keeps everything from the offset to the
  cursor handled.  `StopInv` remembers that a counted message is also noted by the
  notifier.  The number and the order of the tasks, the size of the batches and the
  number of starts are arbitrary.

* **Level1Scan_proofs.** The lookup of an opportunity and its creation are steps apart, so
  `UniqueInWindow` needs `WindowInv`: while a group is about to be stored, none of its
  combination is in the window.  The worker takes every stored group because the groups
  of a scan are distinct and no more than the room read at their collection (`HandInv`, with
  `StoredInv` for the limit).  A COMPLETE row
  rests on knowing at every place which requests are still open: an open request belongs to
  a round that still runs or to a cycle that broke off (`OpenInv`, with `CycleInv`), and
  while no cycle has broken off every request is answered once or open (`CountInv`), so a
  scan with no failed request and none open has all its requests successful (`RowInv`).
  `RestInv` is what a scan leaves behind for the next one.

* **Storage_proofs.** The invariant has three layers.  The connection: who holds the lock is
  who waits for a statement (`LockInv`), and a call in the thread is the latest of its writer
  or was abandoned by a cancellation (`ThreadInv`, with `Latest` and `Abandoned`).  Only then is
  it known whose statement runs, so that the second layer can say what it finds:
  `CallInv` (a write or a commit is the first call, inside the transaction its writer opened,
  which holds exactly what it wrote), `OpenInv` (an open transaction is about to be ended by
  somebody, unless one was orphaned), `WriterInv` and `FileInv`.  From these `WritesAtomic`
  and `WritersToldTheTruth`, with the orphans as the one excuse that finding 2 describes.
  The third layer relates the services to the writers: `FeeInv` (the entry of the registry,
  the build behind it and who joined it), `MigrationInv` (the versions applied are the first
  ones), `CopyInv`, `BackupInv` and `KeptInv`.  Rotation is the delicate part,
  since it counts files and looks at none: `KeptInv` says of the copies of decided backups
  (`Older`) that one is sound as soon as a backup has succeeded, and that there are as many
  as have succeeded, up to `Keep`, so that a copy cut short never displaces the last sound one.
  The lemma `Rotation` rests on the least element of a set of numbers and on no induction.
* **Verification_proofs.** `Sound` is what acceptance, together with the types of the
  documents, gives for the installation that runs: every reference resolves and every amount,
  limit and fee is there (`AssembledFinds` follows from it part by part: pairs, hosts, secrets).
  `QuoteErrors`, `BuiltQuote` and `RequestErrors` say for the four adapters what an answer may
  become.  `ChainInv` keeps, over all later requests, that the SELL quote starts from what the
  BUY quote yields and that the gas is that of both; `RatesInv` that a rate is one of integers.  `VerdictOf` is the arithmetic: a complete calculation knows its gas, the costs
  are those of the gas (fees are inside the quotes, and deducted from nothing), and the
  threshold decides.  `BlameIsFair` needs no more than the step and the type.  The recursive
  functions (`PowerOfTen`, `OnlyEnabled`) are unfolded by `Recurrence`, which builds a solution of
  their equations step by step from the least number that has none (`LeastNatural`).

### Assumptions

Each module names its own.  Most bound the constants (positive limits, thresholds in
order, finite sets of requests or jobs).  `IntervalFits` is above.  `StorageAssumption` says that the kinds
of writers are disjoint, since each writer is one call of the code.
`InstallationsAssumption` and `AnswersAssumption` say that documents and answers have the types
that pydantic and the parsers give them before the modelled code sees them (amounts are
integers, names are strings); of their values they say nothing.  `OrderAssumption` is the order of
`_gates_for()`: each scope after the wider ones it lies in (`ResourceKey.parents`), the common
ceiling last.  `NoneAssumption`, in two
modules, says that `None` is no status, no record and no kind of source.  TLC evaluates all
of them in the runs.

### What is proved and what is not

Every invariant and every action property that the runs check is proved for all values of
the constants, and so are both refinements.  Only model-checked are the liveness properties
(`EveryWaitEnds`, `ClosesAfterHealing`, `EveryRequestEnds`, `AcceptedJobsStart`, `EveryNoteSettles`,
`DueTasksRun`, `RestartHappens`, `ScanEnds`, `PausedAskedAgain`, `OperatorLearns`, `WaitsEnd`,
`VerificationEnds`): leads-to under fairness is out of the reach of the prover.  Of the sum of fees in
`Calculator` the proofs use the empty case alone: every fee of this application is included
in its quote, and that a sum over any set is what it should be would take induction over data.

## 6. Not modelled, and what is left

* **Capability registry**: its methods that change anything after the start have no caller,
  so that a scan sees a constant (`Offered` of `Level1Scan`).
* **Observability**, rendering of texts, snapshots and statistics: they influence nothing.
* **Requests to the providers** (paths, parameters, signatures) and the conversion of
  addresses: only what an answer becomes is modelled.
* **Commands that only read**, `trigger()` and the overlap policies of the scheduler, restarts
  of workers that are not critical, fee policies other than the one registered, `refresh()`
  of the fees: no caller or no effect on state.
* **In a verification**: the route stored by Level 1 has the mode CLASSIC, the one that all four
  adapters declare (an answer in another mode is modelled, and is no confirmation); the
  block of a provider without FIXED_ROUTE (`level2/routes.py:132`) is left out, since nothing
  writes that capability, and so is the maximal age of a quote.
* **The notifier and the commands among the parts the container assembles**: whether they exist
  is a matter of one secret each.
* **The calendar** of daily and weekly tasks: due moments are any.
* The 1000 rows a recovery takes in one pass.

Next: abstract specifications of the rows of a notification and of the file of the database,
with `NotificationDelivery` and `Storage` shown to implement them as `Level2Jobs` implements
`JobLifecycle`; the calendar as a pure operator against a reference definition.
