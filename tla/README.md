# Formal models of the IoT distributed event platform

TLA+ models of the Python program in `src/src/iot_system`, the TLC runs that
check them on small instances, and TLAPS proofs of their main invariants for
every value of the constants. Paths below are relative to `src/src/iot_system`
unless they begin with `src/`.

## The system

A simulated sensor reads the weather, derives a temperature and publishes it
over MQTT; a central consumer subscribes to all sensors and counts what it
receives. Each is one process with one asyncio event loop, so concurrency means
coroutines interleaved at their awaits. The broker (EMQX), the reverse proxy
(Caddy) and the platform (Docker, Render) are third-party and only configured.

| Component | State | Operations | Talks to |
|---|---|---|---|
| MQTT adapter `infrastructure/mqtt.py` | `_client`, `_stack` | `connect`, `connect_with_retry`, `publish`, `subscribe`, `messages`, `disconnect` | aiomqtt, the broker |
| Publisher `application/publisher.py` | the suspended coroutine, the current reading | `run_once`, `run_forever` | weather provider, adapter |
| Consumer `application/consumer.py` | two tasks, three counters | `run_forever`, `_consume`, `_handle` | adapter, serializer |
| Cache `infrastructure/cache.py` | `_entries`, `_locks` | `get`, `set`, `get_or_set`, `invalidate`, `clear` | its callers' factories |
| Weather provider `infrastructure/weather.py` | HTTP client, cache | `get_temperature_celsius`, `_fetch_temperature` | cache, httpx, tenacity |
| Wake-up waiter `infrastructure/wakeup.py` | HTTP client, deadline | `wait_until_ready`, context manager | a demo publisher's health endpoint |
| Health server `infrastructure/health_server.py` | `_server`, connections | `start`, `stop`, `_handle_client` | asyncio streams |
| Command line `presentation/cli.py` | stop event, exit code | `_execute`, `_run_with_signals`, three commands | all of the above |
| Wiring `presentation/container.py`, `application/topics.py` | none | builders, topic strings | |
| Domain, serialization, configuration, clock, logging | immutable data | constructors, conversions | |

How they interact: the CLI enters the wake-up waiter, then runs the publisher or
the consumer until it returns, raises, or is told to stop through an
`asyncio.Event` that signal handlers set. Publisher and consumer call the
adapter in sequence. The publisher awaits the weather provider, which calls the
cache, which calls back its fetch. The demo publisher runs a health server
beside the publisher; another machine's waiter takes that server's answer for
the broker being reachable.

What is hard in it: a session that is lost or times out between two calls while
the adapter's two attributes are updated on different error paths; cancellation
at any await; a stop racing with the loss of the link and the next message; a
cycle abandoned halfway; retries under a lock; deadlines compared with a clock
that moves during every await; failures of clean-up code. `PROJECT.json` lists
these hazards, each at its line, with the properties aimed at it.

What makes each component correct:

- adapter: what can be used can be closed, and disconnect closes it;
- publisher: a cycle's messages are a prefix of its script, every exit closes
  the session, every ending has its reason, a stop ends it;
- consumer: messages are counted once and totals are final, tasks and session
  are over at the end, a stop or a loss ends it;
- cache: one factory call per key at a time, nothing stale, nothing fetched
  needlessly, nobody waits for ever;
- weather provider: one request per place, retries on schedule;
- wake-up waiter: bounded overrun, a result that is earned;
- health server and command line: answers what it should as long as it should,
  shuts down, and exits with the code that tells what happened;
- end to end: topics and filters agree, a reading is counted at most once per
  channel, an alert the broker took for an attached consumer is counted.

## Modules

A step of a model is what a coroutine does between two awaits.

| Module | Models | State | Actions |
|---|---|---|---|
| `AiomqttClient` | the adapter, called by one caller at a time | `client` and `stack` are the attributes, by number of the session they belong to; `live` is the set of sessions the library holds to be open; `phase`, `attempt`, `delay`, `slept` are the locals of `connect_with_retry` | one per outcome of each operation; `LinkLost` |
| `SensorPublisher` | `run_forever` with `run_once`, instance of `AiomqttClient` | `pc` is the await it is suspended on; `accepted` and `retained` are what was handed over | one per await and outcome; `Stop`, `LinkLost`, a cancellation at each kind of await |
| `MCSensorPublisher` | | | temperatures on both sides of every limit |
| `SensorConsumer` | `run_forever`, its two tasks, `_handle`; instance of `AiomqttClient` | `pc`, `consumeTask`, `stopTask`; `arrived`, `handled`, `stats` | one per await of each task; `Arrive`, `Stop`, `LinkLost`, a cancellation at each kind of await |
| `TTLCache` | the cache with its per-key locks | `entries` (an entry is its times), `locked`, `waiters`, `pc` and `key` per caller; `served` is the age of what a caller was handed | the outcomes of `get_or_set` up to its next suspension, the other operations, the clock |
| `SingleFlight` | abstract: what `get_or_set` promises | values, flights, callers that ask | `TTLCache` implements it |
| `WeatherProvider` | the provider over an instance of `TTLCache` | stage, attempt and waits of each caller's fetch; the HTTP client, and which fetches it was closed under | lookup, each kind of answer, retry, opening and closing the client |
| `WakeUpWaiter` | the wake-up waiter | `now` since the call, `wakeAt`, last answer | request, answers, sleep, leaving the client's context, a cancellation at each await |
| `HealthServer` | the server and its handlers; runs as an instance of `Cli` | `server`, the stage of each connection, the line its client has sent and nobody has read yet | start, stop, steps of a handler; the lines a client sends, and its silence |
| `Cli` | the three processes: `_execute`, signals, and instances of `WakeUpWaiter`, `SensorPublisher`, `SensorConsumer` and `HealthServer` | those of all four, `command`, `handlers` (can the event loop handle signals), `stage`, `exit` | those of the parts, glued as the CLI does; an interrupt of each stage |
| `Wiring` | topics, filters, and which filter selects which topic | none (operators) | |
| `EventFlow` | a publisher and a consumer on either side of a broker; two instances with variables of their own | those of both; the configured strings until the processes are built, `routes`; number of `readings`; `owed` alerts | those of both; what the broker accepts is forwarded in the same step |
| `AiomqttClientProofs`, `SensorPublisherProofs`, `SensorConsumerProofs`, `TTLCacheProofs`, `WeatherProviderProofs`, `WakeUpWaiterProofs`, `CliProofs`, `EventFlowProofs` | proofs about the modules they are named for; `EventFlowProofs` also has those about `Wiring`, and `AiomqttClientProofs` the lemmas on recursive functions that two others cite | | |

Definitions ending in `Mutant` are plausible mistakes in the definition they
precede. No action uses them. Each is put in place of the correct definition to
confirm that the property paired with it in `PROJECT.json` notices.

### Abstractions

- **Data.** Messages are the channel they go to; a received message is its
  channel and whether it decodes. Temperatures are integers. A cached value is
  the time it was made. The publisher's fetch succeeds or fails as a whole
  (`WeatherProvider` has its inside). In `EventFlow` a message also carries the
  number and the temperature of its reading, and all of them decode: encoding
  and decoding a reading are inverse.
- **Strings** (`Wiring`) are sequences of an ordinary character, blanks and
  slashes; MQTT's wildcards, which aiomqtt refuses in a topic, are left out.
- **The broker** (`EventFlow`) keeps no session for a consumer that is away, and
  delivers once, at least once or at most once by the level of QoS. It forwards
  at once: the consumer cannot tell a message that is late from one that is
  queued, and a lost session loses both. What it forwards on a link that broke
  unnoticed never comes; since nothing comes after it either, it is in the model a
  last part of the queue that stays unhandled until the library notices.
- **aiomqtt** (2.5.1, `src/uv.lock`) is external: a handshake succeeds or fails,
  and a cancelled one may leave a session open. The link can break at any moment.
  `live` follows what the library knows of it: a session on a link that broke
  unnoticed is still in `live`, and `LinkLost` is the library noticing. From then
  on an operation fails, the iterator of messages raises, and closing the session
  raises the same error again, so `DisconnectReturns` needs a session in `live` or
  none. On a session in `live`, publish and subscribe can succeed, time out, or
  fail after the broker took the message; a publish at QoS 0 returns once it is
  written, and what it wrote to a broken link counts as handed over. Closing a
  session in `live` can raise as well. Whenever it raises, the exit callback is
  spent.
- **asyncio.Lock** is external: first come, first served, no barging past
  waiters. `_global_lock` protects code without an await and is never contended,
  so its critical sections are part of the step that enters them.
- **asyncio.Server** is external, as in Python 3.14 (`src/pyproject.toml:6`):
  `close` ends the listening, `wait_closed` waits for the connections.
- **httpx and tenacity** are external: a request ends with an answer or an HTTP
  error within a bounded time.
- A first cancellation is modelled at every await, those of the clean-up (the
  `disconnect` of both use cases, the waiter's `aclose`) included; a second one,
  during the clean-up after a first, is not.
- The adapter is used by one caller at a time, as the application does. So is
  `aclose` of the weather provider, which nothing in the application calls: a
  second `aclose` during the first would find the client closed and clear
  `_client` at once, and the first, when resumed, would clear it again, though it
  may be a new client by then (`weather.py:65-67`).

## Runs

| Run | Question | Result |
|---|---|---|
| `adapter` | Do handle, stack and sessions stay in step under any calls, and the waits on schedule? | holds |
| `publisher` | Script, clean-up, reasons of ending | holds |
| `consumer` | Counters, clean-up, races of stop, loss and messages | holds |
| `cache` | Locks, queues, freshness, needless fetches, starvation; is it a `SingleFlight`? | holds |
| `weather` | Retries under the lock, with the client closed at any moment | holds |
| `wakeup` | Deadline arithmetic, result, spacing, termination | holds |
| `cli` | The whole processes: wait before connecting, endpoint, exit codes, signals, shutdown | holds |
| `flow` | Do topics reach their filters; is what is published counted once, and alerts at all? | holds |
| `adapter_disconnect` | Does disconnect close what connect opened (`mqtt.py:36`)? | **no** |
| `publisher_recovery` | Does the loop recover from transient errors (`src/README.md:201`)? | **no** |
| `cli_loss` | Is a lost connection reported to the user (`src/README.md:201`)? | **no** |
| `cli_healthy` | Does a healthy demo mean a connected one (`wakeup.py:7-9`)? | **no** |

Termination of publisher and consumer after a stop, and the consumer's types, are
checked by `cli`, which runs both; that a waiting consumer handles what has come
is part of `AlertGetsThrough`.

What the runs with answer *no* show:

- *adapter_disconnect*: publish times out on an open session, which drops
  `_client` only; the next `connect` overwrites `_stack`; `disconnect` closes the
  second session, and the first stays open until the process ends. The publisher
  itself never reconnects and does not reach this (`ClosedWhenDone` holds).
- *publisher_recovery*: the counterexample is under strong fairness of a
  successful fetch and of a successful publish. After one publish failed on a
  handle, every later cycle ends in `Not connected`.
- *cli_loss*: `gather(..., return_exceptions=True)` discards the
  `MQTTConnectionError` with which the consuming task ended (`consumer.py:111`).
  The `disconnect` after it closes a session that ended in an error, which raises
  that error again, as an `aiomqtt.MqttError`, out of `mqtt.py:135` and
  `consumer.py:113`. `_execute` catches the adapter's type only (`cli.py:110`): the
  process ends with a traceback, without the message it has for this case.
- *cli_healthy*: the endpoint is up before the first attempt to connect.

What `StopEndsProcess` and `EveryRequestEnds` of the run `cli` show: the health
server has a time limit for each header line, and none for their number
(`health_server.py:102-105`). A client that goes on sending one line every few
seconds is neither answered nor dropped, and after a stop its handler holds up
`wait_closed`, and with it the demo's process, for as long as it goes on. Both
properties name this client (`NeverFinishes`) as their only exception: but for it
a stop ends the process at every stage and every request ends. TLC finds both
violated when the exception is left out.

What `RoutesAreExact` of the run `flow` shows: publisher and consumer agree on
their topics when the topic prefix has no blank at either end and the device
identifier, once trimmed, no slash. When one of the two fails, both processes
start, and nothing is ever received. When both fail, it is mostly so as well,
but what one side trims off the prefix can happen to be what the identifier
adds: the prefix `// ` and the identifier `/ /` agree. A message under the wrong
filter never happens.

Other divergences between code and text, which follow from the models or from
reading and have no run of their own:

- `connect_with_retry` is offered for a cold start of about 30 s
  (`mqtt.py:96-97`); with its defaults (`mqtt.py:90`) it sleeps 1+2+4+8 = 15 s in
  all when attempts are refused at once (`BackoffSchedule` fixes the sum).
- The retained status is `active` from the first cycle on and nothing replaces
  it when the publisher ends (`publisher.py:149`, `publisher.py:195-197`);
  `src/asyncapi.yaml:225` describes such a device as currently publishing.
- An answer of the weather API that is no JSON, no object, or whose temperature
  is no number leaves `weather.py` as another error than `WeatherProviderError`
  (`weather.py:26`, `weather.py:114-134`).
- Concurrent callers of a missing key share one factory call only if it succeeds
  and its value is still there when they are resumed; a waiter runs its own
  factory otherwise. `cache.py:7-8` says "exactly once" without that condition
  (`AcquireAndFetch`).
- `topics.py:3-4` promises a consistent topic hierarchy across the system; the
  consumer's filters are built elsewhere (`container.py:59-61`) and trimmed
  otherwise, see `RoutesAreExact`. The payload carries the identifier untrimmed
  (`publisher.py:112`), the topic trimmed (`topics.py:26`).
- A blank topic prefix or device identifier passes the configuration
  (`config.py:47`, `config.py:89`) and is refused by a constructor
  (`topics.py:21-24`), which ends the command in a traceback.
- `src/asyncapi.yaml:131-132`: an alert is emitted when a reading is out of
  range, with exactly-once delivery. It is emitted after the telemetry of the
  same reading and not at all when that fails (`publisher.py:118`,
  `publisher.py:185`); what QoS 2 gives is that none is counted twice
  (`CountedOnceInOrder`), and that none is lost between the broker and an
  attached consumer (`AlertGetsThrough`).
- A fetch holds on to the HTTP client it began with: after `aclose`, its next
  retry fails with httpx's `RuntimeError`, untranslated (`weather.py:91`,
  `Refused`). Nothing in the application calls `aclose`.

### Bounds

| Bound | Where | Why it is enough |
|---|---|---|
| `MaxSessions` = 3 (adapter), 2 (publisher), 1 (consumer, cli, flow) | sessions ever opened | the adapter needs one to leak, one to replace it, one more; publisher and consumer connect once, the rest is slack for the cancelled handshake |
| `MaxAttempts` = 7 with delays 1..30 (adapter) | retries | one attempt past the cap of the delay; 2 or 3 elsewhere give a first, a repeated and a last attempt; 1 in `flow`, where retries make no difference to what is delivered |
| `MaxMessages` = 3 (consumer), 2 (cli) | messages to the consumer | two counted and one under way; channels and decodability are free |
| `Callers` = 3, `Keys` = 2, `TTL` = 2, `MaxTime` = 2 | cache | a holder, a waiter and a newcomer on one key beside traffic on another; an entry lives, expires, and is fetched anew. 2 callers in the weather run |
| temperatures -4..4, limits at -4, -2, 2, 4, variation 1 | publisher | on, just inside and just outside every limit |
| `MaxRetries` = 2, `InitialWait` = 2, `MaxWait` = 3 | weather | one wait below the cap and one at it |
| `Timeout` = 12, `Interval` = 5, `RequestLimit` = 4, `Lateness` = 2 (wake-up) | wake-up | full sleeps, a shortened last one, requests that cross the deadline; 3, 2, 1, 1 in `cli`, which asks only how the wait ends |
| `Conns` = 2 | cli | two requests in any stage at any moment of the process; the number of their lines has no bound |
| `MaxReadings` = 2 | flow | one reading may be lost or repeated before the next; the fetch fails once they are used up |
| `PrefixLength` = 3, `DeviceLength` = 3 | flow | an ordinary character with a blank or slash on either side, or both mixed, and the shortest pair where both strings are at fault and agree; all 1600 pairs of strings, and any length in the proofs |

In `flow` both processes end by their stop event only; what a cancellation leaves
behind is explored in `publisher`, `consumer` and `cli`. The larger two runs are
`flow` (217 361 states) and `cli` (120 261 states), of about a minute each.

No run uses symmetry. Deadlock is checked everywhere: an ended coroutine
stutters in an explicit `Terminated`.

### Fairness

Weak fairness of the steps that the event loop takes for a coroutine that can
run, justified by the bound on every await: connect, publish and subscribe have
the 10 s timeout given to `aiomqtt.Client`, HTTP requests theirs, sleeps end,
reads of the health server have 5 s per line;
its `drain` and `wait_closed` have no limit of their own, but the answer is one
small write that the transport buffers.
`AlertGetsThrough` needs only that the consuming task is resumed.
No fairness is assumed of the environment: messages, signals, cancellations,
losses, new callers, new connections and the lines of a request may come or not. A factory ends
(`TTLCache`) because its requests and its retries do. `FavourableSpec` of the
publisher adds strong fairness of success; it serves the run whose answer is no,
which it makes stronger.

## Proofs

All are proved by TLAPS from the assumptions named in the modules, which are
what the constructors and the configuration check.

- `AiomqttClientProofs`: from `TypeOK` and the fact that a handle that is set
  always equals the stack, or its session has gone. The action property follows
  from the step that alone replaces a stack. `BackoffIsExponential` says of any
  delays and any number of attempts what the run fixes for seven: the doubling in
  place, cut at the cap, adds up to the sum of the powers of two, each cut there.
  What a recursive function computes for every number needs induction, and the
  theorems of the library take an operator as their parameter, which the provers
  cannot instantiate. Here the induction runs over a set (the numbers for which the
  claim holds) with a smallest element, which well-foundedness of the numbers gives;
  a recursive function is then shown to exist and to satisfy its equation, for
  doubling and for sums. These lemmas are about no part of the adapter.
- `SensorPublisherProofs`: the invariant ties `pc` to the adapter: while
  connecting nothing was opened (`Retrying`); in the loop the stack holds the only
  live session, whether or not the handle survived (`Holding`); in the finally
  clause the ending is set (`Leaving`); at each await what was accepted is the
  prefix of the script that ends there (`Progressing`). The last two conjuncts,
  `ClosedWhenDone` and `EndingIsJustified`, are not inductive without these.
- `SensorConsumerProofs`: `Retrying` and `Holding` as above; `Tasking` says which
  states of the two tasks go with which await of `run_forever` (while it gathers
  them neither runs on), and `Leaving` which history each ending has: where the
  consuming task failed, its session had ended, so `disconnect` cannot return, and
  a `run_forever` that returned has seen a stop.
  `CountsAreExact` rests on two lemmas on the number of handled messages of a
  kind: one more message adds one to the count of its own kind and leaves the
  others alone. `TotalsAreFinal` is an action property that follows from
  `Tasking`: after the cancellation no task is left to handle a message.
- `TTLCacheProofs`: types, lock discipline and freshness step by step; the queue
  discipline rests on three lemmas on what appending to, removing from and
  taking the head of an injective sequence does to its range. `KeepsItsPromise`
  is the refinement of `SingleFlight`: initial states map to initial states, and
  each step to a step of one caller, of the clock, or to a stutter; that two
  flights for a key never overlap is the lock discipline.
- `WeatherProviderProofs`: `UsesTheCache` shows that a behaviour of the provider is
  one of `TTLCache`, and so has the lock discipline proved there. What is left is
  that a caller in a retry is one whose factory the cache runs
  (`FetchesAsFactory`); `AsksOncePerPlace` follows. `WaitsAreOnSchedule` needs
  the lemmas on recursive functions: the exponential of tenacity, cut at the cap, is
  the doubling that stops at the cap.
- `WakeUpWaiterProofs`: where the coroutine is limits the time it can be
  (`Timing`), with a lemma on the sleep's bounds.
- `CliProofs`: `RunsThePublisher` and `RunsTheConsumer` show that a process, seen
  through the variables of its use case, is a behaviour of `SensorPublisher` or of
  `SensorConsumer`: waiter, health server, signals and the other commands only
  stutter there. So the invariants of the use cases hold in the processes, and
  are not proved again. Around them, `Staging` says how far `run_forever` can be at
  each stage, `Asking` that the waiter is in a state of its own until its context
  is left, that its client is closed on every exit that keeps a result, and that
  nobody passes without a yes, `Serving` that the server is there for a
  stage and connections for a server, `Separate` that a process keeps to its own
  use case, and `Leaving` which exit code goes with which ending. `ExitIsTruthful` is
  not inductive: it needs `Leaving` for the ending, and the use case's own
  `EndingIsJustified` or `Leaving` for what that ending stands for.
- `EventFlowProofs`, on strings: trimming is described by what is left at either
  end (`Stripped`, `RStripped`), a filter and a topic by their characters at each
  index (`FilterShape`, `TopicShape`). A filter selects a topic only if both end in
  the same channel, and all filters select alike (`AllOrNothing`); under one and the
  same prefix they do so exactly if the device is one level (`OnePrefix`), and if the
  device is one level the two prefixes must be equal (`OneLevel`), which they are only
  when trimming blanks leaves the prefix alone (`TrimmedAlike`). `RoutesExactly`
  follows for strings of any length. The attempt at the stronger claim that both
  conditions are necessary is what turned up the pair `// ` and `/ /`.
- `EventFlowProofs`, on messages: `RunsThePublisher` and `RunsTheConsumer` show
  that each side implements its use case, as in `CliProofs`. What ties them is
  `Flowing`: on each channel the readings that arrived are in their order; at each
  await of the publisher, those of a channel on which the current reading may still
  come (`ToCome`) are of earlier ones; and no more than two messages of a reading
  arrive, which is why the consumer's bound on messages never cuts anything off.
  `NoAlertIsLost` is the half of `AlertGetsThrough` that needs no fairness: an alert
  that is owed has arrived, so that all that is left to TLC is that the consuming
  task is resumed until it has handled it. `CountsOnceInOrder` puts `Flowing`
  together with the consumer's own `StatsMatchMessages`; `CountedOnceInOrder` alone
  is not inductive, for it says nothing of what has arrived and is not handled yet.

Each `Inductive` theorem is the conjunction; the theorems listed in
`PROJECT.json` follow from it. The assumptions are the ranges that constructors
and configuration enforce: `PartsAssumption` in `Cli` and `FlowAssumption` in
`EventFlow` collect those of their parts, `ProviderAssumption` in
`WeatherProvider` adds the waits' to the cache's.

Model-checked only: liveness under fairness (termination, starvation,
`AlertGetsThrough`), which needs `ENABLED` and is out of the prover's reach. Every
invariant and every action property of the runs whose answer is *holds* is proved.

## Not modelled

- Serialization, clock, logging, and loading the configuration: no control flow;
  what they decide appears as a flag, a limit or an assumption.
- Several devices or several consumers: they share nothing but the broker.
- `SIGTERM` where it is not handled: it ends the process at once, with no code of
  the program running.
- A consumer's subscription is granted the QoS it asks for.
- Growth of the cache's lock dictionary, and the order of a `set` or `invalidate`
  against a factory call in flight.
- Broker, proxy, containers, CI, notebooks, documentation.

## Plan

Done, in this order: `AiomqttClient`, `SensorPublisher`, `SensorConsumer`,
`TTLCache` with `SingleFlight`, `WakeUpWaiter`, `WeatherProvider`, `HealthServer`,
`Cli`, `Wiring`, `EventFlow`.

Next, modelling: the order of a `set` or `invalidate` against a factory call in
flight, should the application come to use them; the demo's endpoint as what the
waiter of another process polls, with a broker that sleeps and wakes.

Next, proofs: the leads-to properties, should a prover for `ENABLED` be at hand;
until then they stay with TLC.
