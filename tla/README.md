# Kuhl Haus MDP, specified

TLA+ modules, TLC runs and TLAPS proofs about the market data platform in
`src/kuhl_haus/mdp` (paths below are relative to that package). The platform
takes market data and news from two providers over WebSockets, queues it in
RabbitMQ, analyses it in worker processes, keeps and publishes results in
Redis, and hands them to browser widgets over WebSockets. It is asyncio code,
spread over processes that share Redis and RabbitMQ, so what is hard about it
is what happens between two awaits: cancellation, restarts from inside the task
that is restarted, commands that fail halfway, replicas that race.

`PROJECT.json` holds the tables behind this text: for each definition the source
lines it stands for, for each run its properties, for each property a mutant of
the model that breaks it, the hazards with their lines, and the theorems.

## 1. The system

    provider --ws--> listeners --> queues --RabbitMQ--> data processors
                                                            |  analyzers, MarketDataCache
                                                            v
    widgets <--ws-- WidgetDataService <--pub/sub-- Redis <--> market data scanner

| Part | State it keeps | Operations | Talks to |
| --- | --- | --- | --- |
| `MassiveDataListener` (`components/massive_data_listener.py`) | client, task handle, connected and healthy flags, configuration | `start`, `stop`, `restart`, three setters that restart, the connection task with its market-status query | provider, `MassiveDataQueues` by callback |
| `FinlightDataListener`, `finlight_simple_listener` | the same, for news | the same | provider, `FinlightDataQueues` |
| `MassiveDataQueues`, `FinlightDataQueues` | RabbitMQ connection, channel, counters | `connect`, `handle_messages`, `setup_queues`, `shutdown` | RabbitMQ |
| `MassiveDataProcessor`, `FinlightDataProcessor` | RabbitMQ and Redis connections, the in-flight tasks, a semaphore | `start` (connect, retry, consume), per message analyse, write, acknowledge or reject, `stop` | RabbitMQ, Redis, an analyzer |
| `ProcessManager` (`helpers/process_manager.py`) | worker processes, shutdown events, one-element status queues | start, signal, join, kill; in the worker, cancel and drain | the processors, in their own processes |
| `MarketDataCache` | pending events per process, locks and entries in Redis | three getters, delete | Redis, the Massive REST API |
| `LeaderboardAnalyzer` | sorted sets, hashes, day markers in Redis | `analyze_data`, day reset, open reset, publish under a throttle | Redis, shared by all replicas |
| `DailyRangeAnalyzer` | highs and lows in memory and in Redis | `analyze_data`, `rehydrate`, day reset | Redis |
| `TopTradesAnalyzer`, `TopStocksAnalyzer` | lists in Redis; a dictionary | `analyze_data` | Redis |
| `MarketDataScanner` | Redis client, pub/sub client, task handle, connected flag | `start`, `stop`, `restart`, the consuming task, which restarts the scanner on a lost connection | Redis both ways, an analyzer |
| `WidgetDataService` | registry of clients per feed, background task, lock | `start`, `stop`, `subscribe`, `unsubscribe`, `disconnect`, `get_cache`, the fan-out | Redis pub/sub, WebSockets |
| data, enums, the other helpers | none that anybody else reads | formatting, names, metrics | |

What is hard in each, and what makes it correct:

* **WidgetDataService.** A lock is held while a task is cancelled and awaited; that
  task may itself be cleaning up dead clients, which takes the same lock and may
  cancel the task from inside itself. Redis commands fail between the registry's
  change and theirs. Correct: registry, Redis and task agree, delivery is in order,
  departed clients leave nothing behind, every call returns.
* **MarketDataCache.** Callers of one process wait for the first one's event,
  processes exclude each other by a Redis lock with a timeout, and anything may
  fail, expire or die in between. Correct: one fetch at a time, nobody waits for
  an event that will not be set, deleted values stay out.
* **Processors and ProcessManager.** Delivery is at least once; `stop()` runs up to
  three times from two coroutines while the consumer still delivers. Correct: an
  acknowledged message is written, a rejected one has failed, each delivery has one
  owner, a signalled process ends.
* **Queues.** A publisher's calls may fail at every await and leave connections open;
  a frame's messages are published side by side. Correct: a message is lost for a
  cause of its own only, `shutdown()` closes what was opened.
* **Listeners, scanner.** Handles and flags are written by calls that nothing
  excludes from each other, and by the task itself. Correct: `stop()` reaches every
  task and lasts, the flags say what is so, a lost connection is made again.
* **Analyzers.** Replicas check a day boundary, then write, without a transaction
  around both; some keep values in memory that a restart restores from Redis; the one
  that wins a key with a short life computes and publishes for all. Correct: a reset
  happens once and what it cleared stays cleared, no published value is lost, and
  what is published does not go back in time.

## 2. Modules

| Module | Stands for | Uses |
| --- | --- | --- |
| `WidgetDataService` | the service with all its coroutines | |
| `WidgetDelivery` | the same with the history of its stream | `WidgetDataService`; `Broadcast` by INSTANCE |
| `Broadcast` | what the service promises its clients | |
| `SingleFlight` | what `MarketDataCache` promises for one key | |
| `MarketDataCache` | the protocol of its three getters, for one ticker | `SingleFlight` by INSTANCE |
| `DataProcessor` | a processor composed with RabbitMQ, Redis and its worker process | `AtLeastOnce` by INSTANCE |
| `AtLeastOnce` | what a processor promises for its queue | |
| `Leaderboard` | all replicas of the analyzer and the Redis they share | |
| `DailyRange` | replicas of the analyzer, each with its memory, the caching of results, Redis | |
| `TopTrades` | workers of the analyzer in any number of processes, the caching of results, Redis | |
| `MassiveListener` | the listener, its callers and the provider | |
| `FinlightListener` | both listeners for news, their callers and the provider | `FeedConstants` |
| `DataQueues` | both publishers, their owner, their handlers and RabbitMQ | `FeedConstants` |
| `Feed` | a listener in front of its publisher | both by INSTANCE, `FeedConstants` |
| `FeedConstants` | the constants these three share | |
| `MarketDataScanner` | the scanner, its owner and Redis | |
| `MC...` | the small instance of each for TLC: model values and symmetry | |
| `...Proofs` | lemmas and theorems about each; `FeedProofs` about the composition, `AnalyzerProofs` about `Leaderboard` and `TopTrades` | TLAPS |

Conventions. A step of a coroutine runs from one await to the next, since asyncio
switches only there; `pc` is where a coroutine awaits. A cancellation is a set of
tasks it is on its way to, delivered by a step of its own, which is how asyncio does
it. An error path is an action or a disjunct of its own. A history variable is marked
as such and guards no step of the code; at most it says what the user of a part calls
next (`start()` is not called twice). An operator marked "Mutant" or "Defect"
is a plausible wrong version of the definition after it; nothing refers to it but
the table of mutants.

### WidgetDataService

`keys` and `subscriptions` are the dictionary, `pubsubTask` is `_pubsub_task`, `lock` is the
holder of `_pubsub_lock`. redis.asyncio's `subscribe` and `unsubscribe` return when the
command is written and Redis carries it out later: `redis` is what the commands sent leave
subscribed, `commands` those that Redis has not come to (`RedisAccepts`), `live` what it
delivers, `inbox` what it has sent. `SubscribeKnown/New/Redis/Fails` are `subscribe` up to
and after its Redis command; `Unsubscribe...` and `StopPoller` are `unsubscribe`, with
`UnsubscribeSelf` for the task that awaits itself: asyncio raises at that await, and since a
cancellation is pending what is raised is the CancelledError, which lines 163-164 swallow.
`PollMessage`, `Send`, `Cancelled` are the background task, `Stop`, `StopAwaited` are
`stop()`. `JoinFeed` starts the task, as line 125 does.

`WidgetDelivery` adds histories to each of its steps and none of its own: the channel of
each message, which clients are promised a channel's messages, how many there were when that
promise began, and when a client last left. The promise begins once Redis delivers the
channel and has no command for it left to carry out, which for the first subscriber is some
time after `subscribe()` has returned. `Broadcast` is a log, the members of each channel,
those of them who are promised its messages, and what each client has received. `Join` may
or may not come with the promise, `Confirm` gives it later. Its `Deliver` gives a client a
message of a channel it is a member of, or has left since the message was published; unless
something excuses it, the message must be later than all the client has, and nothing it has
a right to may be passed over. What excuses it is the negation of `Undisturbed`: a command
or a poll failed, a connection broke, somebody called `stop()`.

### MarketDataCache and SingleFlight

`pending` is the dictionary of events (an event is named by its leader), `owner` the
Redis lock's token, `cache` the entry. The read of the cache takes two steps, because
Redis answers before the coroutine resumes (`Read`, then `Hit`, `WaitForLeader` or
`BecomeLeader`). The REST call is synchronous and blocks its process (`Free`). A caller
that woke to a miss becomes leader without a second look at `pending` (lines
213-222), and `Finish` pops whoever is there: both are in the model. A delete that raises
is swallowed (`DeleteFails`), whether Redis has done it or not. `late` is who had an answer
in hand at the last delete that was done, `crossed` that the entry was written by one of them;
each delete done starts both anew. `SingleFlight`
says whether something usable is cached, who is calling the API, and whether its promise
is off, which it is once a lock has timed out under its holder.
The mapping takes the caller that is between the second look at the cache and the
write as the flight.

### DataProcessor

`where` is each message's place in the broker, `phase` the place of each delivery's task,
`live` whether its channel is still the open one, `pc` the two coroutines of the worker:
"start", whose `finally` calls `stop()`, and "main", which calls it twice. The broker
redelivers what was unacknowledged on a lost channel. `Kill` is the process manager's kill,
or any other death of the process, `CancelTimesOut` is `wait_for` giving up, which cancels
the drain. A channel whose closing raises stays open with its connection and its consumer
(`CloseFails`), and goes on delivering until the process ends. Both processors share this
control flow line by line.

`AtLeastOnce` knows a message's status only: ready, handed out, acknowledged or dropped.
What was handed out can be taken back all at once (`Return`: the channel is gone) and is
then handed out again; what is settled never is. A message is dropped after a failure of
its own, or when a shutdown that took too long cut it off (`CutOff`, which may settle
several messages in one step): `cut` holds those whose analysis or writing was
interrupted, and neither a message that waits for a slot nor one that is being
acknowledged is among them. The mapping takes `unacked` for handed out.

### Leaderboard

An event is the analysis of one message, with the instant at which it began, and a
baseline stands for the event whose price it is, so that "begun before the reset" is a
comparison. Its volume is any of `1..MaxVolume`: RabbitMQ may bring messages late and
out of order, to any replica, and the code never looks at the time a message itself
carries. What is fresh is therefore said of analyses, not of market data (see "Seen
while modelling"). `now` runs over three instants a day: before 9:30, the minute in
which the open reset may run, and after. A step is one Redis command, script or
transaction: the compare-and-set of the day key with its deletes is one (it is a Lua
script), the open reset is a `SET NX`, a scan and deletes, each a step; reading and
setting an open price are two.

History variables name what each property excepts, and no more: the events a day reset
has overtaken at work (`overtaken`), the symbols of calls at work when a day's open
prices were scanned and deleted (`straddled`), the symbols of which the last calls
overlapped or the last one failed (`mixed`, which a call that is alone undoes), the
days whose claimant failed before its deletes (`lost`). `scored` is the event written
last for a symbol since the day reset, `lowered` that an entry was given a lower score
since then. Both start afresh at each day reset.

### DailyRange

One symbol and its highs, which the lows mirror. A high is the number of the quote
that set it, so that "yesterday's" is a comparison. `Analyze` is the Lua script that
compares and sets the day key, for a day computed before: at midnight it may be the
old one. `Checked` is what follows in one step of the task: the winner clears its own
replica's memory, and the price goes in at once when the market's status is known.
Otherwise the query comes between (`Answered`), and may fail. `CacheResult` is the
processor's callback; results overtake each other there. `Crash` and `Rehydrate` are
a restart: what the cache holds is restored up to the session that is on. `odd`
collects what the properties except: a quote whose analysis straddled midnight
("crossed"), a clearing that came after quotes of the same day ("wiped"), a result
that overtook a later one ("late"), a restart that asked for the session in vain or
overtook its own results ("blind").

### TopTrades

A list of trades is named by its newest trade, and a statistic by the list it is of,
since only its age matters. `Store` is the transaction that pushes and trims,
`TakeLease` the `SET NX EX` that elects a publisher, `ScanLists` and `Read` collect,
`WriteTable` and `WriteWidget` are the processor that caches the results in turn. Any
key may expire. `outlasted` records that the throttle's key did so under a worker.

### MassiveListener

`ws`, `coro` are the two attributes, `connected`, `healthy` the status dictionary. A
task connects the client the attribute holds when it first runs. `restart()` sleeps
between its halves (`Paused`), `stop()` twice (`Flushed`, `Unsubscribed`); `Query`,
`Retry`, `Disconnected`, `Awake` are the loop that asks whether the market is open.
`overlapped` records that two calls ran side by side, `late` that a setter was used
between `start()` and the first step of its task.

### FinlightListener, DataQueues and Feed

`FinlightListener` has `_task`, `_running` and the two status fields as they are; the
constant choice `simple` makes it the simple listener, which has no restart and does
not ask whether it has been started. `Head`, `Drop`, `SimpleDrop`, `Cancelled` are the
task, `EnterStop`, `Awaited`, `Paused` the calls from await to await. A setter's
restart is a coroutine of its own (`Spawned`). `crossed` records that `start()` ran
while a `stop()` waited for a task.

`DataQueues` is written after `massive_data_queues.py`; the publisher for news is the
same protocol with one queue and frames of one message, and the compound definitions
(`OwnerStep`, `HandlerStep`, `Next`) are mapped to it. Connections are numbered, and
`channel` says which connection a queue's channel is on. `OpenChannel`, `Ready`,
`CloseChannel`, `Forget`, `HangUp` are the awaits of the owner's calls; any may be
refused (`Refused`), which leaves what the call had done. `Handle` encodes a frame,
`Publish` is one of the publishes it gathers.

`Feed` composes them as `docs/architecture.rst` does: either a Finlight listener whose
articles each become a task, or a stream of frames from Massive, one handler at a
time, which `MassiveListener`'s `stop()` cancels (`Stopped`). `unserved` records the
messages in flight while the queues were not set up, or cancelled; `forsaken` that a
connection was made while another was open.

### MarketDataScanner

`handle`, `pubsub`, `redis`, `connected` are the attributes; `EnterStop`, `Awaited`,
`Unsubscribed`, `Closed`, `Released` are `stop()` from await to await, `EnterStart`,
`Pinged`, `Rehydrated`, `Subscribed` are `start()` with `connect()`. The same actions
are taken by the owner and by a task that restarts the scanner from inside its own
`except ConnectionError`. `on` is the client that a pending call was made on, which
may not be the attribute's any more. `Outage` breaks every connection and loses what
waited on it; Redis pub/sub keeps nothing. `overlapped` records that a call of the
owner and a task's own restart ran side by side, `cutOff` that one of them failed for
want of Redis.

## 3. Runs

Every passing run explores its instance completely, with 30 000 to four million
distinct states. Bounds are constants that count what the environment does: calls,
messages, failures, losses, expiries, restarts. Where they run out the model stops,
so deadlock is not checked there; that a call gets stuck is found by the liveness
properties. (`TopTrades` can go on for ever, and is checked for deadlock.)

| Run | Question | Instance, and why it is enough |
| --- | --- | --- |
| `wds_safety` | Do registry, Redis and task agree, is nothing left behind, is delivery in order, is a message passed over: is it the broadcast? | Two clients that may break, two tasks, one channel, three calls, two messages, one failure, `stop()`: a task can end while another starts, a client can leave in the middle of a fan-out or leave and come back, a command can fail on either side, and Redis may take one long after, with messages published meanwhile. A second feed is in `wds_live`; the theorems are for any number |
| `wds_live` | Does every call return, is every message delivered? | Two clients of which one may break, one channel and one pattern, two calls, one message, `stop()`: the least in which a task cleans up while somebody holds the lock |
| `wds_single` | Is there one background task? | Violated: see findings |
| `mdc_safety` | Have waiters a leader, do locks come back, do deletes last, is it a single flight until a lock expires? | Three callers in two processes, so that two share an event and one competes for the lock; four calls, two upstream versions and answers that are 0; one delete, eviction, failure, expiry and crash |
| `mdc_live` | Does every call return? | The same callers, three calls, a failure, a lock that expires under its holder and a process that dies, with the lock or without; answers that are 0, after which a waiter finds nothing and leads in its turn |
| `dp` | Is what is acknowledged written, what is rejected failed, has each delivery one owner; is it an at-least-once queue; is every message handled, does a signalled process end? | Two messages, two deliveries, two starts of the process, one retry, failure, lost connection and timeout: a message can be at work twice and survive a restart, and a shutdown that takes too long meets one task at work and one that waits for the only slot. One result for each message; that several are all written first is proved for any number (`AcknowledgedIsWritten`) |
| `lb_safety` | Does the open reset happen once, and at all, do resets last, are gains measured from what is stored, does a board hold its leaders? | Two calls, two symbols, one place on the board, two days, three events of two volumes in any order, one failure or crash, open prices that expire after a day: a call can straddle either reset, two calls of a symbol overlap or follow each other with a smaller volume, and a symbol is pushed out |
| `ml` | Does `stop()` reach what runs, does the flag say what is so, does it reconnect? | Two callers, three calls, two attempts, one drop, closing and refusal, two outages: an API call meets a setter's restart, and a query fails for good |
| `mds` | One consumer, a client behind the flag, a quiet stop, results in order, recovery? | Three calls of the owner, four clients and tasks, two messages, one outage, one poll that raises: a stop, a restart and a lost connection in any order |
| `dr` | Do memories hold values of their day only, do published highs survive? | Two replicas, two sessions, two days, two quotes of two prices, one restart: a replica wins or loses the day's turn before or after the other's quote, and restarts in between |
| `feed` | Does `stop()` reach what runs, do settings, does the stream come back; what is lost, what is left open? | Two callers, four calls and tasks, two reconnects and losses, three queues (one of news), two messages in one frame or two, one refusal: a restart meets a stop and a setter, a call fails at each await with a frame in flight, and a message fails beside another |
| `tt` | Do statistics go back in time, is a symbol's own entry ever ahead of the table, do those chosen last agree with it? | Two workers, two symbols of which one is cached on its own, two trades of each, one abort: a worker reads while the other stores, and one is elected while the other caches |

Symmetry is used where no liveness is checked: callers of one process, clients and
background tasks, calls, replicas, workers and symbols are interchangeable there.
`wds_safety` also has a view: what a finished call or fan-out has left in the local
variables of its coroutine is never read again, and does not tell states apart.

### Fairness

Asyncio runs every coroutine that is ready, so each coroutine's continuation is
weakly fair. Where a coroutine waits for something that others take in between, the
fairness is strong, for a reason in the code: `asyncio.Lock` wakes its waiters in
order (`Enter` in WidgetDataService), the semaphore does too (`Task` in
DataProcessor), the Redis lock is polled (`Acquire` in MarketDataCache), RabbitMQ
delivers to a consumer with credit (`Deliver`). In `Feed` the callers and tasks of the
listener are weakly fair; a stream is not assumed to end. An abandoned Redis lock expires. Nothing
is assumed of failures, losses, deletes or callers, and not that Redis comes back: what
must happen after an outage is stated with what excuses it.

### Findings

One run checks what the documentation says and finds it violated:

* `wds_single`: "Single background task" (`widget_data_service.py:37`). A task
  that removes the last dead client cancels itself, swallows the cancellation, and polls
  on beside the next task.

### Seen while modelling, without a run

* "Pattern/wildcard subscriptions are supported" (`widget_data_service.py:34`), but the
  registry is keyed by the pattern (line 116) and looked up by the channel (line 269), so
  that a pattern's subscribers receive nothing. `ChannelDelivery` is about channels.
* The class registers a new feed before it asks Redis for it (lines 116-121): when the
  command raises, the feed stays registered without subscribers, each later `subscribe()`
  to it finds it there and does not ask Redis, and it "creates Redis subscription if this
  is the first client for the channel" (line 104) is not so any more until a client that
  disconnects removes the feed. `Undisturbed` excuses this in `PollerFollowsRegistry` and
  `NothingMissed`; `NothingLeftBehind` says that it does not outlast the clients.
* `subscribe()` returns before Redis has taken the subscription. A message published
  in between reaches nobody; a client that calls `get_cache` "before subscribing to a feed
  to get current state" (line 190) sees it neither there nor in the stream.
* A poll that raises ends the background task (`widget_data_service.py:300-302`) while
  `_pubsub_task` still holds it; the `unsubscribe` of the last client awaits it and raises
  the same exception before line 167 resets the reference. From then on line 125 finds a
  task recorded and starts none, although `subscribe` "starts background pub/sub task if
  this is the first subscription overall" (line 105). `Undisturbed` excuses what follows.
* A shutdown that takes over five seconds cancels the tasks in flight, and their
  messages are rejected without requeueing (`process_manager.py:164-168`,
  `massive_data_processor.py:333`), although it "ensures no messages are lost during
  shutdown" (lines 322-323): `cut` in `AtLeastOnce` and `DroppedForCause`.
* `_process_message` "logs errors and ACKs on failure (no requeue to avoid poison
  messages)" (`massive_data_processor.py:180-181`, `finlight_data_processor.py:194-195`).
  The exception leaves `message.process()` before it is caught (lines 189, 207-218), and
  leaving it so rejects the message without requeueing. For the queue it is settled either
  way; where the broker keeps rejected messages or counts them it shows. `AtLeastOnce`
  follows the code.
* When one of several results cannot be written, those before it stay written and
  published, and the message is rejected (`massive_data_processor.py:203-206`).
* The daily range analyzer should "reset all six HOD/LOD dicts at the start of each new
  trading day", but only the replica that wins the day key's compare-and-set clears its
  own (`daily_range_analyzer.py:470-489`). The others keep yesterday's highs until they
  win a day or restart, and a restart restores what the cache holds, whichever day it
  is of; `FreshUnlessLost` speaks of the replicas that did clear. The key turns at
  calendar midnight, a call that computed its day before turns it back, and quotes
  recorded between the script and the clearing are wiped.
* `_cache_result` says that caching and publishing "execute atomically", and uses a
  pipeline without a transaction; that replicas' results overtake each other is the
  exception "late" in `HighCovers`.
* A `start()` of the Finlight listener during a `stop()` is ignored, or its task is
  forgotten when the `stop()` goes on (`finlight_data_listener.py:148`, 170): `crossed`.
  `reconnects` is never set back, so that after `max_reconnects` losses in all each
  later task ends with its first loss. The simple listener loses its first task when it
  is started twice. Handlers of articles outlive `stop()`.
* `connect()` and `setup_queues()` of the publishers replace a connection without
  closing it; a call repeated after a failure leaks the former one (`forsaken`).
* A worker of the top trades analyzer that takes longer than the five seconds of the
  throttle's key can write its statistics over newer ones (`outlasted`). A message
  without a symbol is not stored and can still elect a publisher.
* A cached zero is a miss (`market_data_cache.py:317`, 332, 372, 498, 513, 552 test
  the value's truth), although "Negative caching ... prevents API hammering" (lines
  39-40). The instance of `mdc_live` has zeros.
* A fetch that had its answer before a delete writes it afterwards, where it stays for
  the entry's time to live; this is the exception in `CoherentUnlessCrossed`. A delete that
  fails is logged and forgotten (`market_data_cache.py:127-128`), so that its caller goes on as
  if the stale entry were gone; the property counts the deletes that Redis has done.
* The retry after a failed Redis connection uses a channel that has been closed
  (`massive_data_processor.py:171-172`, 274): `start()` ends with an exception that nobody
  looks at, and the process stays up without consuming until it is told to stop.
* The leaderboard's day key changes at calendar midnight, not at 4 AM
  (`leaderboard_analyzer.py:391`), and a call that straddles 9:30 can write a baseline
  from before the open reset (33-34, 423-424): `straddled` in `FreshUnlessCrossed`.
* The leaderboards go by the instant of the analysis: nothing compares the time a
  message carries with a reset or with what is stored (`leaderboard_analyzer.py:68-84`,
  133-140). So a message of the day before or from before 9:30 that is analysed late is
  written like any other, and can give the open price; and a message that comes after
  a later one of its symbol lowers its accumulated volume, after which a leader can be
  trimmed away, until its next message (`lowered` in `LeadersKept`).
* A call that claims the open reset and fails before its deletes leaves the day without
  one, for the claim lives for an hour (436): `lost` in `OpenResetDone`.
* A symbol that leaves the hundred with the most volume keeps its own entry for up to
  60 s beside a table that is rewritten every five (`top_trades_analyzer.py:168-194`): a
  reader of both sees statistics of two lists. `WidgetsAgree` says that such an entry
  is never ahead of the table, and that the entries of those chosen last agree with it.
* `market_is_open` "Returns False on all failures" but raises
  (`massive_data_listener.py:184-190`, 199-201).
* Two setters used in a row leave two feeds, of which `stop()` reaches one; a setter
  used between `start()` and the first step of its task is not applied; a client that
  cannot be made in the task leaves it dead and `healthy` set.
* The scanner gives up for good when Redis is still away in its automatic restart
  (`market_data_scanner.py:168-169`; `docs/architecture.rst:186` promises auto-restart);
  a `stop()` during the task's own restart is overtaken by it; a `stop()` during the ping
  can leave `mdc_connected` set without a client, after which every `start()` fails; a
  poll that raises anything but a lost connection makes `stop()` and `restart()` raise
  the same exception (line 110) ever after. These are the exceptions in its properties.

## 4. Proofs

The theorems hold for every value of the constants that the `ASSUME`s of the modules
allow: bounds are natural numbers, actors of different kinds differ, a caller has a
process. TLC evaluates those assumptions in each run. The bounds are constants
like any other, so a theorem does not depend on how small a run is. Each
safety theorem has the same shape: an invariant that the initial states have and
every action keeps, one lemma per group of actions, and a last step with PTL.

| Module | Theorem | Says, for all constants |
| --- | --- | --- |
| `WidgetDataServiceProofs` | `TypeCorrect` | types |
| | `LockExcludes` | one coroutine at a time is in mid-command under the lock |
| | `SubscriptionsTracked` | the commands sent leave no feed subscribed that the registry has forgotten |
| | `DeparturesComplete` | nothing is left of clients that have left, whatever failed or was cancelled |
| | `PollerFollows` | registry, commands sent and task agree while nothing is disturbed |
| | `DeliveredInOrder` | without patterns each client sees messages in order, and none twice |
| | `NothingIsMissed` | until something is disturbed, what was published after Redis took a client's subscription is received or on its way to it |
| | `ServiceBroadcasts` | without patterns the service implements `Broadcast` |
| `MarketDataCacheProofs` | `TypeCorrect` | types |
| | `EventsHaveLeaders` | nobody waits for an event without a live leader |
| | `FetchExclusive` | one fetch at a time until a lock expires under its holder |
| | `LockComesBack` | the lock is free when everybody has left |
| | `DeletedStaysOut` | what is older than the last delete done was on its way in at that delete |
| | `ImplementsSingleFlight` | until a lock expires under its holder the protocol implements `SingleFlight` |
| `DataProcessorProofs` | `TypeCorrect` | types |
| | `AcknowledgedIsWritten` | what is acknowledged is in Redis |
| | `DeliveredIsOwned` | each delivery has one task that can settle it |
| | `RejectedForCause` | only messages that failed, or that a shutdown cut off, are rejected |
| | `ProcessorImplementsQueue` | the processor, with its restarts, implements `AtLeastOnce` |
| `AnalyzerProofs` | `TypeCorrect` | types, and no board above its limit |
| | `ResetsAtMostOnce` | one open reset a day |
| | `FreshWithoutCrossing` | nothing is left of analyses begun before a reset, but for those that were at work at it |
| | `ResetNotSkipped` | a claimed open reset is carried out, unless its own claimant failed |
| | `TrimKeepsLeaders` | a full board has pushed out none but its least, whatever the order of events, until one lowers a score |
| | `GainsFromStoredPrice` | a symbol's gain is measured from its stored open price, once a call of it was alone |
| | `TradesTypeCorrect` | types of the trade statistics, and no list ahead of what was stored |
| | `SinglesMatchTable` | a symbol's own statistics are never ahead of the table, and if it was chosen last those of the table |
| | `StatisticsAdvance` | cached statistics do not go back in time |
| `MassiveListenerProofs` | `TypeCorrect` | types, client and handle set and reset together |
| | `HandleReachesTasks` | the handle names every task at work |
| | `StopIsFinal` | after `stop()` nothing runs or starts |
| | `DeathIsReported` | a listener without a task is marked unhealthy, whatever overlaps |
| | `SettersTakeEffect` | a connection has the settings, when no call is under way |
| `DailyRangeProofs` | `TypeCorrect` | types |
| | `FreshMemory` | a memory known to date from the day in force holds that day's values only |
| | `HighsSurvive` | a session's high covers the quotes published, across restarts |
| `FeedProofs` | `TypeCorrect` | types of the Finlight listeners |
| | `HandleReachesTask` | the handle names the task at work, so that `stop()` reaches it |
| | `SettingsReachStream` | a stream has the settings, when no call is under way |
| | `ShutdownClosesAll` | a successful `shutdown()` leaves no connection open |
| | `LostHasCause` | a message is lost for a cause of its own |
| `MarketDataScannerProofs` | `TypeCorrect` | types |
| | `StopReachesConsumer` | one consumer, and it is the one `stop()` cancels |
| | `FlagHasClient` | `mdc_connected` has a client behind it |
| | `StopIsFinal` | after `stop()` no task, client or subscription is left |
| | `PublishedInOrder` | results are in the order of publication, across restarts |

Types are proved for all constants; the runs do not check them again. Most type
invariants are inductive as they stand; of the safety invariants only
`WaitersHaveLeader` is. What had to be added to the others, and why:

* **WidgetDataService.** `TypeOK` with `CallKnown` and `MessageKnown`: an action that reads
  a call or message must know its place implies there is one. `RedisSubscriptionTracked`
  with `LockHeld` and `SubscribingRegistered`: a subscribe command under way is for a feed
  still in the registry, which follows because deleting it takes the lock. `Leave`, for what
  is left behind: a feed without subscribers is owed by a client, whose `disconnect` will
  find the feed among the keys or has it on its list, and a client that is leaving still has
  each of its feeds on its list. `Poller`, as long as nothing is disturbed: in each critical
  section by how much registry, Redis and task are apart (`Joining`, `Parting`, `Ending`),
  and one task at most polls or sends. That makes `Stream` inductive: what is in the inbox
  is newer than what is being sent, and that is newer than what its receivers have. With
  patterns Redis sends a message more than once, so `DeliveredInOrder` supposes that there
  is none to match, as the run does. For completeness, `Fed`: the commands sent leave every
  feed subscribed that has a subscriber, until something fails, because a client enters the
  registry after the command is sent and leaves it before the other one is. `Delivering`: a
  channel that is promised to somebody is `Served`, delivered with no command left to carry
  out, because its commands are sent when it has no subscriber. `History` ties the log to
  the numbers of messages, and the promises to the subscribers of served channels, and
  `AllSafe` says of each message a client has a right to where it is: received, in the
  inbox, or with a task that has not come to this client yet. That a task takes a message
  off the inbox for all of its subscribers, and ends only with its batch empty or something
  disturbed, keeps it so.
* **Broadcast.** `ServiceBroadcasts` combines them. A step that changes the registry
  changes one client's membership of one feed, and is a join, a leave or, for a pattern,
  nothing; a send is a delivery, in turn because of `Stream` and with nothing passed over
  because of `AllSafe`: what the client still lacks is in the inbox behind the message or
  in the same hands. It supposes that no pattern matches, for the same reason.
* **MarketDataCache.** `HoldersOwn`: before any expiry, whoever is between acquiring and
  releasing owns the lock, from which exclusion follows. The refinement needs `MissInFlight`
  too: nothing usable is cached during a flight, so that the write which ends one is a step
  of `SingleFlight` that fills an empty cache. From the first expiry on every step is
  excused. `AnswersFresh` extends coherence to the answers not written yet, but for those of
  `late`. `OwnerAtWork`: whoever the lock names is still on its way to the release.
* **DataProcessor.** `Order`: once the worker has stopped, nobody opens a channel
  again. `LiveIsOpen`: a
  delivery that can still be settled belongs to the open channel, so that redelivery
  and settlement exclude each other. `AckPhaseIsWritten` and `RejectHasCause` say what
  a task owes to the phase it is in before it settles its message. The refinement uses
  all of it: an acknowledgement is a step of the queue because a task that acknowledges
  has written, a rejection because its message failed or was cut off, a requeue
  because what is unsettled on the lost channel is all there is, and what a redelivered
  message's old task still does settles nothing.
* **Leaderboard.** `ResetInv`: a reset under way was claimed, in its window, by one
  call, so that it is done once; `OpenResetDone` is inductive beside it. For freshness:
  `Refs` and `BaseRefs` (references are to past events), `DayInv` (a call past the day
  check is of the stored day, or overtaken) and `FreshInv`, which follows a reset through
  its scan and its delete (`DuringReset`: each old baseline has been found, or its symbol
  is straddled) to the state after it (`AfterReset`). `LeadInv`: an entry is of the event
  written last for its symbol, whatever the order (`Latest`), and the leaders are kept;
  that a write with its trim keeps them (`WriteKeepsLeaders`) needs a lemma on the
  cardinality of what is dropped. `BaseInv`: of a symbol that is not mixed one call at
  most is at work, and the baseline it has stored or read is the one that is stored.
* **TopTrades.** `OneElected`, until a worker outlasts the throttle's key: one worker is
  elected while the key is there. So what it has read is no older than anything cached
  (`NoOlder`), and while it caches single symbols the table is its own (`OwnTable`).
* **MassiveListener.** `Turns`, as long as no two calls overlapped: callers take
  turns, a task at work is the current one, only that is cancelled, past the
  cancellation nothing is at work, and past its delivery nothing is alive.
  `Configured` adds that an outdated connection has a restart on its way. `Attended`
  holds whatever overlaps: as long as the listener should run and is marked healthy,
  a task will go on or a caller is about to start one.
* **DailyRange.** A row of values is of the day its replica's memory dates from, and so
  is every row on its way to the cache and the cached one: restarts carry rows with
  the day they are of. That a quote at work is of today holds as long as none
  straddled midnight. `CovInv` follows a quote's price to the memory (`Remembered`) and
  the cache (`Cached`), from which a restart takes it back; `InTurn` says that of two
  results on their way the later covers what the earlier one does.
* **Feed.** The theorems are about the composition, whose steps are shown to be steps of
  the listener or to leave it alone (`FeedSteps`). `FeedInv`, as long as no `start()` ran
  while a `stop()` waited: whatever is alive is the handle's task (`OneTask`), a cancelled
  task has somebody who waits for it (`CancelledAwaited`), who waits for the handle or
  for one already reset (`AwaitsHandle`). A second task could only come while a cancelled
  one is alive, and then somebody waits. `StreamFlagged` adds why no setter is missed: a
  stream is behind the flag that the setter asks, and an outdated one has a restart on
  its way. `OneOpen`: what is open is `connection`, unless it was forsaken. `Post`: the
  messages of a frame wait together and could all be encoded when they are published
  (`FramesTogether`), and as long as one is in flight and not counted as unserved the
  queues are set up and nobody shuts down (`Served`), so that its publish can only fail
  by itself.
* **MarketDataScanner.** `Inv`, as long as no owner's call met a task's own restart:
  one coroutine is inside `start()`, `stop()` or `restart()`; a consumer is the
  handle's task; past the await of `stop()` there is none; a client has been made
  before the ping that sets the flag. `Quiet` adds what is open in each phase of
  the two calls, if nothing was cut off and no task failed, and that a task to be
  made is in no state yet. `InOrder`: results, the message at work and the queue of the
  client that is polled follow each other in the order of publication.

Only model-checked:

* Liveness (`CallsReturn`, `ChannelDelivery`, `GetReturns`, `Handled`,
  `ShutdownCompletes`, `Recovers`, and `Reconnects` of both listeners): liveness under
  fairness and ENABLED are out of the prover's reach. Deliberately, no module has a
  recursive operator.

`AckedIsWritten` and `DroppedForCause` follow from `ProcessedAtLeastOnce`, and
`OrderedDelivery` from `InOrderBroadcast`; they have theorems of their own because they
say what matters without the abstract modules, and the runs check the refinements.
Every safety property of a passing run is stated by a theorem, and each of the three
abstract specifications is shown to be implemented by a theorem and by a run.
`ServiceBroadcasts` and `DeliveredInOrder` alone have a hypothesis beside the assumptions
on constants: that no pattern matches a channel.

The theorems are about the modules, and so as good as the translation: in
particular they take Redis commands and scripts to be atomic, asyncio to switch at
awaits alone, and RabbitMQ to redeliver what a lost channel had not settled.

## 5. Not modelled

* `TopStocksAnalyzer` has been replaced by `LeaderboardAnalyzer`; its ranking sorts a
  dictionary of one process.
* The other analyzers dispatch a message to results without state. In `DataProcessor`
  they are the number of results.
* `get_cache` of the widget service and of the scanner change nothing in them; what a
  client reads may be older than the stream beside it, which is the client's affair.
* `ProcessManager`'s status queue of one element, and the counters each part keeps: no
  part acts on them.
* In `Leaderboard`: the hash of a symbol's metadata with its time to live of an hour, the
  hydration of published entries from it, the thresholds of volume, gain and gap, and
  messages without a symbol, which pass the checks and write nothing. A board is its
  ranking and its limit.
* In `DailyRange`: the lows, which mirror the highs, what the published data says of a new
  extreme, and the cached entry's time to live of four days, longer than what is modelled.
* In `TopTrades`: the arithmetic of the statistics, and the number of trades a list keeps.
* RabbitMQ between `Feed` and `DataProcessor`: each has its own side of it, messages that
  were sent there and messages that wait to be delivered here. That messages expire in
  the queue after five seconds is the broker's doing.
* Data classes, enumerations, formatting, logging, metrics.

## 6. Plan

In order of what each would show:

1. `Feed` composed with `AtLeastOnce` for each of its queues: what a publisher has sent
   and what a processor settles, with the messages that expire in between.
2. `Leaderboard`: the several boards with their thresholds.
3. `WidgetDataService` with patterns that match: what a client of both a channel and a
   pattern of it receives twice, and in which order.
