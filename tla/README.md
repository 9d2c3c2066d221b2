# RqCore: specifications and proofs

RqCore is a single Rust process (`src/rqcoresrv`) with three libraries (`src/common`). It
looks for new transactions of two Seeking Alpha portfolios around noon New York time, on
the days they rebalance, and trades them through Interactive Brokers (IB). It also
serves a small website. This directory holds TLA+ models of its core, the TLC runs that
check them, and proofs that TLAPS checks. File names below are relative to the
repository; `tla/PROJECT.json` maps every definition to the lines it models.

## 1. Inventory

### How the process executes

`#[actix_web::main]` gives `main()` a **current-thread** runtime. The scheduler's loop,
the runs it spawns, the forced runs of the console menu and the quote stream's task share
this one thread, so they interleave at `.await` and nowhere else. What runs between two
awaits is one action in the models; each await is a value of a `pc`. Only the web
server's workers have threads of their own, and they touch the state above only to print
it (`/serverdiagnostics`), and the request log, which is theirs alone. Nothing but the log is written to disk: a restart starts from
`main()`.

### Components

| Component | State it keeps | Operations | What is hard | What makes it correct |
|---|---|---|---|---|
| **Mark value cache** `common/memdb/src/mark_value_cache.rs` | last price of each ticker, handle of the stream task, number of its users | `init`, `start_quote_stream`, `stop_quote_stream`, getters, the spawned stream | shared by runs that start, stop and panic in any order; a start may fail; the stream may end by itself | one stream; none without users; the stream is never taken from a user; a known price stays known |
| **Task scheduler** `services/rqtask_scheduler.rs`, `utils/time.rs`, `fast_runner_task.rs` (triggers) | list of tasks, next trigger of each | `schedule_task`, the loop of `start()`, `update_next_trigger_time` | the clock moves on between its readings; daylight saving; a late thread; restarts | each slot fires once and none is lost; the loop always gives the thread away; real trading only from the last slot of the day, once |
| **FastRunner runs** `robotrader/fast_runner_task.rs`, `fast_runner.rs` | cookies and their age, has trading started, dates, portfolio values | `run`, `init`, the trading loops, the downloads, order building | repeated downloads of the same data, refusals, the cookie file edited meanwhile, panics (`expect`) at every external call | one batch of orders a run; real orders only when the decision allows; cookies renewed after a refusal; the money is split as the run days say |
| **Brokers watcher** `common/broker-common` | three gateways and their connections | `init`, `exit`, `place_orders` in two loops, `get_order_executions` | submissions and bars awaited in the middle of a batch; the other batch, the stream and the end of the process come in | each order once; a simulation sends nothing; slow prices do not hold up known ones; cost within the portfolio value |
| **RoboTrader** `robotrader/robotrader.rs` | executions read at start | `init`, `refresh_executions`, `place_orders` (forwards) | a lock held while the brokers are asked; one client's request fails | every client's executions are read, whatever becomes of the others' |
| **Main and console** `main.rs` | start time, configuration | start, restart, the menu's choices, forced runs (53, 54), both ways to stop | a forced run beside a scheduled one; a menu test that panics with a lock held and poisons it; the end of `main()` under a running batch | a forced run never trades for real; no task blocks the thread; a stop ends the process in order |
| **User account, browser cache** `middleware/user_account.rs`, `browser_cache_control.rs`, `main_web.rs` | on the server none: the session is in the cookie; the browser keeps cookie and pages | login, callback, logout, pages | answers of several tabs in any order; pages kept for 30 days | identity and email of one user; no stale page behind login or logout; no session comes back |
| **HTTP request log** `middleware/http_request_logger.rs` | ring of the last 50 requests | middleware, `/httprequestactivitylog` | several workers, order of completion, a session that changes on the way | the ring is the end of the history; a page shows it as it was at one moment |
| **Server diagnostics** `middleware/server_diagnostics.rs` | none | prints the gateways under their lock | a worker's thread holds the lock `main()`'s thread needs; the lock may be poisoned | it holds up neither orders nor the end |
| **WebSocket endpoints** `webapps/` | none | answer with constants | - | - |
| **Locks and e-mail** `common/rqcommon` (`rqhelper.rs`, `rqemail.rs`) | poison of a mutex; credentials | `lock_ignore_poison`, `send_text` | a mail without a time limit | the stream is released before the mail |
| **Google Sheets, log, environment** `common/rqcommon` | credentials | wrappers of external services; cell names of Sheets | - | - |
| **Withdrawal simulator, pages** (TypeScript, HTML) | a page's | arithmetic, rendering | - | - |
| **Tools, admin scripts** | none | - | - | - |

Interactions: `main()` schedules the tasks; the scheduler spawns a task's `run()`; a run
starts the cache's stream, downloads, builds orders and calls
`RoboTrader::place_orders`, which calls `BrokersWatcher::place_orders`, which copies the
cache's prices and talks to IB; at its end the run stops the stream. The hazards of this
code, each at its line with the properties that would notice it going wrong, are listed
in `PROJECT.json`.

## 2. Modules and how they correspond to the code

| Module | Models | Composes |
|---|---|---|
| `SharedStream` | the abstract promise of the quote stream: holders and on/off, no counter, no handle | |
| `MarkValueCache` | every state-changing method of the cache, the stream task, panicking users | implements `SharedStream` |
| `MarkValueCacheProofs` | its theorems | `MarkValueCache` |
| `LocalTime` | `localtimeonly2future_datetime_tz` over a clock with one daylight-saving change | |
| `TradingDay` | the abstract promise of a trading day: around noon only, once a strategy | |
| `RqTaskScheduler` | the scheduler's loop, its triggers, the decision for real trading, restarts | `LocalTime`; implements `TradingDay` |
| `RqTaskSchedulerProofs` | its theorems | `RqTaskScheduler` |
| `RqOrders` | pure: from transactions to events to orders to share counts and limits | |
| `BrokersWatcher`, `MCBrokersWatcher` | gateways, `place_orders` of both strategies at once; small inputs | `RqOrders` |
| `BrokersWatcherProofs` | its theorems | `BrokersWatcher` |
| `FastRunner` | the runs, their cookies and decisions | `MarkValueCache`, with the runs as its callers |
| `FastRunnerProofs` | its theorems | `FastRunner` |
| `RebalanceCalendar` | run days, rebalance dates, split of the money | |
| `RebalanceCalendarProofs` | its theorems | `RebalanceCalendar` |
| `RqProcess` | the process from start to end: `init()`, executions, the menu, the runs' locks, pages of diagnostics, panics and poison, the stop | |
| `RqProcessProofs` | its theorems | `RqProcess` |
| `HttpRequestLogs` | the ring of requests, its writers and its page | |
| `HttpRequestLogsProofs` | its theorems | `HttpRequestLogs` |
| `WebSession` | the account handlers, a browser with tabs, cookie and cache | |
| `WebSessionProofs` | its theorems | `WebSession` |

**MarkValueCache.** Every method holds the mutex and awaits nothing, so each is one
action. `StreamIds` are the identities of spawned tasks; a handle that is overwritten
while its task runs would leave a second `"running"` identity, which is what `OneStream`
forbids. A caller is `"refused"` when its start rolled its user back: the code returns
nothing, so the caller stops all the same. `caller = "lost"` is a run that panicked
between start and stop.

**RqTaskScheduler.** The clock ticks by itself, at most `MaxStall` behind the point where
the thread was due. `Scan` is one pass with one reading of the clock, `SpawnDue` spawns
one due task, in the order of the list, and moves its trigger from a fresh reading, `SleepUntilSoonest` computes the
sleep from the reading of the scan, as the code does. `RunStarts` is the spawned run
getting the thread, where it reads the clock to decide about real trading. `Restart`
builds all tasks anew. The refinement to `TradingDay` maps the date of the local clock to
`today`, the minutes around noon to `phase`, and the number of real runs of today to
`batches`; the loop, its sleeps and its triggers all stutter. The code's sleep of 60
seconds is for an empty list of tasks, which `main()` never leaves.

**FastRunner.** One state for each await of `run()`: the candidates' downloads and their
mail, the stream's warm-up, the download, the analysis task, `place_orders`, the mail at
the end. The candidates are one step, as each failure on the way gives an empty list and
the run goes on. What is downloaded is abstracted to what the loop tells
apart: no events, some, or too many to be right. A forced run ends after one iteration.
Panics are possible wherever the code `expect`s an external answer.

**BrokersWatcher.** The two loops of `place_orders`, with an await at each submission,
each request for bars and each bar. Prices are in cents; share counts are rounded down
and bounded by `i32::MAX` (`RqOrders!NumShares`), limits carry the 2% of the code.
`exit` is the end of `main()`: batches are dropped where they stand.

**RqProcess.** What the other modules take for granted: that the locks of `std::sync`
are free when a task needs one. `held` says who holds each lock *across* an await (only
`main()`, in the two `init()`s) or on another thread (a worker that prints
`/serverdiagnostics`); a lock taken and given back between two awaits is a condition of
the step only. A panic of the menu's tests 42 and 43 with the lock held sets `poisoned`;
`lock_ignore_poison()` goes on, `lock().unwrap()` panics, the page answers with an error.
Runs are cut down to the locks they take, the menu to what it awaits. Panics of a task
end that task only (the profile unwinds), and `main()` does not await them.

**HttpRequestLogs.** A request is handled by any worker; between its arrival and its
entry other requests come in at every await, and on other threads anywhere the lock is
not held. The history `answered` has the entries due in the order of completion; the page
clones the ring in one step and prints it in another.

**WebSession.** The server keeps no session, so a request is a snapshot of the cookie and
is handled in the step that receives its answer. The browser may keep any answer that
does not clear the cache, or not; it follows redirections through its cache.

## 3. The runs

All properties of a passing run have a mutant: a plausible bug in a mapped definition
under which TLC finds the property violated.

| Run | Shows | Bounds |
|---|---|---|
| `mark_value_cache` | with starts that succeed: one stream, none without users, an exact count, no stop takes the stream from a user, prices stay known, `SharedStream` implemented | 3 runs, 2 tickers |
| `failed_start` (violation) | a refused run's stop takes another run's user away and aborts its stream (finding) | the same, starts may fail |
| `fast_runner` | a PQP and an AP run with failing starts and panics: one batch a run, real orders only when allowed, cookies renewed after a refusal, and the cache's promises among its real callers, with mails that may hang | 3 iterations, 1 save of the cookie file |
| `scheduler` | two days with the autumn change: each slot fires once, none is lost, the loop never spins, real trading from the last slot only, `TradingDay` implemented over 2 restarts; spawned runs start | day of 17 ticks, stall of 1 |
| `scheduler_stall` (violation) | late by a whole slot, an earlier slot trades for real (finding) | stall of 7 |
| `scheduler_spring` (violation) | started in the last local hour before the 23-hour day, the scheduler skips that day (finding) | no stall, 1 restart |
| `brokers_watcher` | both strategies' batches with and without clients: each order once, simulations send nothing, one cached price for a ticker, cost within the portfolio value, known prices are not held up | lists of up to 4 events, prices of 3 and 7 dollars |
| `rebalance_calendar` | on each day of 28 years: AP runs on the first weekday of each half of a month and the money follows the run days | 2024-2051 |
| `process` | start, menu, scheduled and forced runs, pages, failing gateways, panics and poison, stop: every client's executions are read; no task is about to take a lock that `main()` holds across an await; a run at `place_orders` gets past it; a stop ends the process with the gateways disconnected | 2 scheduled runs, 1 forced, the 3 clients |
| `http_request_logs` | requests complete in any order, fail, change their session: the ring is the end of the history, and a page is the ring as it was at one moment of its request | 4 requests, 2 of them pages, a ring of 2 |
| `web_session` | two tabs, two users: session of one user, no stale page behind a logout, only a callback logs in | 2 tabs, 2 users |
| `web_session_login` (violation) | a page fetched while the other tab is at Google is shown behind the login (finding) | 2 tabs, 1 user |

**Why the bounds are enough.** *Cache:* two stream identities let a second task exist
beside the first, which is the bad case; three runs are needed for one to be refused
while two share. `MaxUsers` is the real 65535; no run reaches it, as an identity starts
once. *Scheduler:* a day of 17 ticks keeps the order of the real slots (of
the four of each strategy an early one and the last, PQP before AP; the last ones inside
the live window around noon, the early ones outside), an
autumn or spring change by one tick at night, and instants between any two of them;
`Horizon` covers the day before, of and after the change. `MaxStall = 1` is "less than
the distance of two slots"; `MaxStall = 7` is more than one slot. *Runs:* three
iterations allow a refusal, a repeated answer and one more after trading would have to
end; one save of the cookie file can fall anywhere. *Orders:* the lists have the same
ticker twice, unknown tickers, known last prices, too many events, and amounts that give
zero shares. *Calendar:* 28 years hold every pairing of weekday and leap year. *Web:* two
tabs are enough for every race of two answers; the state space is finite without bounds.
*Request log:* a ring of 2 is overwritten by the other two requests while a page prints
it; a request is used once, as two requests share nothing but the ring. *Process:* the
clients are the real three; the two scheduled tasks and the forced run are all the runs
there are, and each may come again, so the state space needs no bound.

**Fairness.** The scheduler's steps, and the start of a spawned run, are weakly fair: the
runtime polls every ready task, and time passes. A batch's own steps are weakly fair for
the same reason, and so are the broker's answers to a submission or a request, an error
being an answer. In `RqProcess` a page of diagnostics is printed (weakly fair: it formats
a few lines with the lock held and awaits nothing), and `exit()` and a run's
`place_orders()` are strongly fair: pages take the lock again and again, and a thread
that waits for a mutex gets it between two of them. **No** fairness is assumed of real-time bars, of Seeking Alpha, or of
the stream: no time limit in the code forces an answer, so no liveness of a run that waits for
them is claimed. Deadlock is unchecked only where the system really stops: runs that are
through, the end of the process, the end of the walk through the calendar, and callers
whose runs have panicked.

## 4. Theorems

**`MarkValueCacheProofs`**, for any finite set of runs, any sets of streams,
tickers and prices, from the named assumptions of `MarkValueCache` (`NoTask` is no stream,
`NaN` no price, the runs finite and no more than `u16` counts).

* The count alone is not inductive: that the last stop ends the stream needs to know
  that the handle names the only live stream and is empty without users. The inductive
  invariant is `IInv == TypeOK /\ HandleInv /\ UsersNeverOvercounted` (`CacheInvariant`).
  It holds **with** failing starts and panics, and gives `TypeCorrect`, `StreamIsUnique`
  and `LastStopEndsStream`.
* `UsersNeverOvercounted` (count at most the runs that owe a stop) cannot be an equality
  when starts fail: this is the finding of `failed_start`. Under `StartsSucceed` it is
  one, and the stream's users all hold: `Exact` strengthens `IInv`, and gives
  `CountIsExact`, `StreamIsKept` (no stop aborts the stream of a user) and
  `ImplementsPromise`: initial states map to initial states of `SharedStream`, and every
  step maps to one of its steps or a stutter.
* `PricesStayKnown` needs the types only: the one step that writes a price writes none
  that is `NaN`.

**`FastRunnerProofs`**, for any runs of either task, any number of iterations and of edits
of the cookie file, with failing starts and panics, from `RunsAssumption` alone.

* Neither property is inductive. `OneBatchPerRun` says nothing of what the run remembers,
  so a second `Trade` would not contradict it: `BatchInv` adds that the run of every
  batch has `has_trading_ever_started`. `LiveBatchesAllowed` looks at the placed batches
  only: `RunInv` adds that a run past its first await was allowed to go on and keeps
  the `is_simulation` it decided on, and that one not yet started has traded nothing.
  With the shapes of the variables these make `IInv` (`RunsInvariant`), from which
  `OrdersHandedOnce` and `RealOrdersAllowed` follow.
* The steps fall into four kinds, each with a lemma that all its actions cite: the first
  step of a run, a quiet one, one that trades, and one of somebody else.
* `RunsAreCallers`: `Spec => Cache!Spec`. Whatever is proved of `MarkValueCache` for
  all its callers is so of these runs: `CacheFacts` is an instance of
  `MarkValueCacheProofs` with the runs for the callers, its theorems ask for the
  cache's assumptions on the runs (`CacheAssumption`), and `RunsShareOneStream` and
  `RunsOweTheirUsers` are its theorems carried over.
* `RefusalRereadsCookies` needs to know that the flag which spares the check of the file
  is down whenever a refusal is remembered. The invariant `CookiesInv` says for each run
  where the flag may be up, that a run has cookies wherever the code `expect`s them, and
  that they are at least as new as the modification time it has seen, although the admin
  may save between the reading of that time and of the content (`CookiesInvariant`,
  `RefusedRunsReread`). With the shapes of `IInv` it gives `RunsTypeCorrect`.
* `NoStreamLeftBehind` relates the runs to the cache: `CallersInv` adds that a run before
  its start, in its mail or at its end is an idle caller. Then no run owes a stop, the
  count is zero by `UsersOwed`, and no stream is alive by `OneSharedStream`
  (`RunsLeaveNoStream`).

**`RqTaskSchedulerProofs`**, for any targets, heartbeat and change of the clock, any lateness
of the thread and any number of restarts, from `LocalTimeAssumption`,
`SchedulerAssumption` and a premise of the theorems, `CalmSlots`: no target falls into
the local times that the change skips or repeats, nor so near to midnight that 24 hours
later is still the same local day. The targets of the code, from 9:45 to 11:59 New York time,
satisfy it, and so do the constants of the three runs. It cannot be dropped: within the
skipped hour `FutureInstant` is `MinUtc`, and the loop would spawn without end.

* The lemmas go from the arithmetic of dates to `NextTriggerLater`: a trigger computed
  from an instant lies behind it. That is what keeps the loop from spinning.
* `FiresOncePerSlot` is not inductive, since nothing in it keeps a trigger that has fired
  from being due again. The invariant (`SchedulerInvariant`) adds `FiredInv`, every instant
  fired lies before the clock and before the task's next trigger, and `DueInv`, which says of
  each task whether the scan left it among the due ones. A restart computes the triggers
  anew, behind the clock, so behind all that fired. `TriggersFireOnce` follows, and
  `LoopSleeps`: with no task left due all triggers are later than the scan.
  `SchedulerTypeCorrect` says that no trigger lies before the start.
* `LiveFromLastSlot` has a second premise, `PromptThread`: four stalls behind a target it is
  still the same day, and, unless the target is the last, still ahead of the live window. It is what
  the comment at `fast_runner_task.rs:78` takes for granted; it holds of the constants of
  `scheduler` and fails, as it must, for those of `scheduler_stall`. In the code's
  times it allows stalls of seven minutes (from 11:30:20 to 11:58:30). `LateInv` says how
  late the loop is where it stands: one stall at the end of its sleep, two at the scan, three
  at the spawn; `SpawnedInv` adds the fourth, at which a run must have started. These two
  need no premise but `CalmSlots` (`LateInvariant`); a run that starts is looked at with
  `PromptThread` on top (`LiveInvariant`).
* `NoTargetSkipped` proves `NoSlotLost`. The property looks back from a clock that is
  `3 * MaxStall` past the target; the invariant is `FiredUpTo`, every occurrence of a target
  ahead of the task's trigger has fired, and `LateInv` bounds how far the trigger can lie behind
  the clock. What keeps `FiredUpTo` is that a new trigger is the *first* occurrence behind the
  reading it is computed from (`FutureInstantIsNext`), and that no occurrence lies between
  the trigger just fired and that reading. The two premises are just these:
  `TomorrowIsNext` (24 hours from now is at most one date ahead) and `TargetsApart` (two
  targets of a task are further apart than three stalls). Both hold of the constants of
  `scheduler`, and in the code's times with stalls of up to eight minutes (25 minutes lie between
  11:05:20 and 11:30:20). `TomorrowIsNext` fails on the eve of the 23-hour day: a
  proof without it would contradict `scheduler_spring`.
* `TradingDayRefined` proves `ImplementsTradingDay`: initial states map to initial states
  of `TradingDay`, every step maps to one of its steps or a stutter. That a run which turns
  live is the first of its strategy on its day needs history: `UniqueInv` says that no two
  runs of a task, waiting or live, in this process or one before a restart, stand on the
  same trigger, that all of them lie behind the task's next trigger, and that no live run is dated
  ahead of today. A second live run of the day would stand on the last target too, by
  `LiveFromLastSlot`, so on the same trigger. A premise, `CalmNoon`, says that the minutes around
  noon lie within a day and the change of the clocks in the part of a day ahead of them; it
  is what lets a tick of the clock map to a tick of the abstract phase
  (`UniqueTick`).

**`BrokersWatcherProofs`**, for any event lists, tickers, prices and portfolio values, from
`OrdersAssumption` and `BrokersAssumption` (events are sequences of buys and sells with a
known or unknown price; prices are above zero).

* A trail without repetition says nothing of the orders still to come. `Partition` does:
  each order of a call has an outcome, or is ahead in the loop, or was put off, and no
  order is in two of these places; at the end of the first loop those put off become those
  ahead. `Awaiting` ties each await to its order in hand, and to the shares and price that
  passed the checks before it; `Trail` says of each outcome what it was allowed to be.
* These three, with the shapes, are inductive (`BatchesInvariant`) and give
  `OrdersHandledOnce`, `SimulationsStayHome`, `OneCopiedPrice` and `BatchesTypeCorrect`.
* `CostsWithinValue` proves `WithinPortfolioValue`, a sum over the orders of a call. An order's
  shares are what its position's market value buys at its price, which `Trail` says of every
  outcome and `Awaiting` of the submission in flight; the position's value is the
  portfolio value divided by all orders of its side, if the orders are those of the strategy itself,
  which is an invariant of its own (`OwnOrdersInvariant`: with the other strategy's
  list the bound would be of the wrong value). As `Partition` lets no order come twice, at most
  as many orders are placed as the value was divided by (`PlacedFacts`), and a sum is at most
  the number of its terms times the largest (`SumBound`).
* The sum is the library's `MapThenSumSet`, a recursive function on the subsets of a set, of
  which nothing is known until it is shown to exist. The library's induction rules take an operator
  and cannot be instantiated; `NoneIsLeast` states induction of a *set* of numbers
  instead (a set without a least element is empty), from the theorem that `<` on
  the numbers is well-founded. `SumExists` and `SumBound` apply it to the set of sizes at
  which the claim fails.

**`RqProcessProofs`**, for any set of scheduled runs. That nobody blocks the thread needs
to know where `main()` can hold a lock: `LocksInv` says that until the services are up there is
neither menu nor run, and from then on `main()` holds none across an await; `ClientsInv`
that its loops over the clients have dealt with those before `next`, whatever failed.
`ThreadNeverBlocked` and `ProcessTypeCorrect` follow from `ProcessInvariant`.

**`HttpRequestLogsProofs`**, for any requests, users and capacity. The lemmas say that
dropping the first element of a full end and appending one gives the end of the longer history.
`CloneInv` adds that a clone waiting to be printed was the ring at a moment since the arrival of
its request, `ArrivalInv` that the local of the middleware is the user of the arrival
(`LogInvariant`, `RingIsEndOfHistory`, `PagesShowOneMoment`, `LogTypeCorrect`).

**`WebSessionProofs`**, for any tabs and users. `FreshAfterLogout` looks at tabs at rest;
`BehindLogoutInv` follows one through its redirection: the request it sends carries the
cookie the browser has. `CacheOK` says that no kept answer sets a cookie or leads to
Google without the server, so only a callback logs in (`SessionInvariant`,
`SessionStaysWhole`, `LogoutIsFresh`, `OnlyCallbacksLogIn`, `SessionTypeCorrect`).

**`RebalanceCalendarProofs`**, for any number of years from a 1 January that is
a Monday, of which the run checks 28. The property looks at one day, the history `weekday_seen` at all
since the half began. The invariant says by the weekday on which the half began since when a
weekday has come, and where in the week the walk stands (`CalendarInvariant`,
`ApRunsTwiceAMonth`). `MoneyOnRunDays` holds on every date, reached or not.

**Only model-checked:** liveness, which is out of the prover's reach, as is `ENABLED`:
`SpawnedRunsStart`, `CachedOrdersGoOut`, `RunsGetPastPlacing`, `StopEnds`. Every other
property of a passing run is stated by a theorem.

## 5. Findings

1. `failed_start`: a run whose start of the stream failed stops it all the same, and so
   takes away another run's user and stream.
2. `scheduler_stall`: the decision for real trading is taken from the clock when the run
   starts, not from its slot; a comment says "only if it is the last scheduled time".
3. `scheduler_spring`: the next local time is looked for on the date 24 hours from now,
   which on the eve of the 23-hour day can be the day after tomorrow. It is a Sunday, so
   no trade is lost.
4. `web_session_login`: the cache is cleared when a login begins, not when the session
   changes, so a comment's "This will ensure that the browser fetches fresh data" fails.

Beside these, some things are worth knowing that no comment of the code denies: a run that
panics leaves the stream running until the process ends (the count still covers it), and
the comment on the scheduler's targets ("3 times daily") names fewer targets than the
code has. The same of the menu: behind a panic of one of its tests, or while a forced run
it awaits hangs, nobody reads a "9" any more (Ctrl-C still stops the process); a test that
panics without a client poisons the lock of the gateways, and `/serverdiagnostics` says
"Gateways state corrupted" from then on although they are not.

## 6. Not modelled

* Prices of zero (the share count would be `i32::MAX`), and the age of a price, which is
  logged and used all the same.
* The rounding of `f64`: amounts are integers in cents, and `WithinPortfolioValue` allows
  half a cent a share.
* Two machines that schedule the same tasks: nothing in the code coordinates them.
* Bank holidays, which the code itself leaves open (TODO).
* What the executions say that RoboTrader keeps: they are read at start and used nowhere.
* Google Sheets (`rqgsheets.rs`): no state, an external service, and conversions of
  strings (URLs and cell names) that only choice 1 of the menu reaches.
* The WebSocket endpoints: sessions without state that answer with constants.
* `init_log`, the configuration and the addresses: read once at start.
* The text of pages, mails and logs; certificates, SNI and routing; the host's choice
  between two sets of pages.
* Tools, admin scripts, and the pages' own scripts.

## 7. Plan

Done: every component with state of its own is modelled and has a module of theorems.
Every safety property that a run checks, and both refinements, are proved. Left, in this order:

1. The safety part of the liveness properties: that the steps `StopEnds` and
   `RunsGetPastPlacing` wait for are never disabled for good (what each lock's holder
   still has to do), as invariants that TLC checks and theorems state.
2. The bound on real orders over both modules: a run's one batch (`FastRunner`) with the
   cost of a batch (`BrokersWatcher`), for a bound on what a day may cost.
3. Two machines that schedule the same tasks, once the code coordinates them.
