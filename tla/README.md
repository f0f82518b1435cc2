# Verification of CQRS-ES-Microservices in TLA+

This directory holds TLA+ models of the program in `src/`, the configurations
that check them with TLC, and proofs checked by TLAPS.  At its centre is the
in-memory event store with the command side and the read side of the client
service.  Around it are the paths a command can take - RabbitMQ, with and without
a reply, Kafka, Kafka through a REST proxy - and the start of the web front end.

## 1. The system

The repository is a set of small .NET Core services with Kafka, RabbitMQ and
browser clients around them.  The business core is a CQRS / event sourcing
library (`CQRS.Core`), two near-identical domains on top of it
(`CQRS.Domain/Client`, `CQRS.Domain/Product`) and one web service for each.

| component | state | operations | talks to |
|---|---|---|---|
| Event store (`CQRS.Core/EventStore.cs`) | `_current`: a dictionary from aggregate to its list of event descriptors, in memory, no lock | `Save(id, events, expectedVersion)`, `Get(id)` | publishes each saved event on the bus |
| In-process bus (`InProcessBus.cs`) | `_routes`, filled once at start | `Send(command)`, `Publish(event)`: one `Task.Run` for each registered handler | command handlers, event handlers |
| Repository, aggregate root | none kept between calls | `GetById` = `new T()` + replay; `Save` | event store |
| Client domain (`Client.cs`, `ClientCommandHandlers.cs`) | the aggregate of one call | create, rename, remove | repository |
| Client read model (`ClientDetailEventHandlers.cs`, `ClientListEventHandlers.cs`, `ClientMemoryDatabase.cs`) | static `details` dictionary and static `list` | one handler per event type | read by the controller |
| Client web service (`ClientsController.cs`) | none | GET, GET id, POST, PUT, DELETE | bus, read model |
| Product domain and service | as for clients | as for clients; DELETE sends no command | |
| RabbitMQ request/reply (`RpcClient.cs`, `RpcServer.cs`) | reply queue of a client; connection and `stop` of a server | `Query`, `Dispose`; `Run`, `Stop` | broker |
| RabbitMQ sender and receiver (`Sender.cs`, `Receiver.cs`) | lazily made channel; consumer | `Send`; `Connect` + delivery callback; `Dispose` of both | broker |
| Kafka sender and subscriber (`KafkaPublisher.cs`, `KafkaSubscriber.cs`), two console programs | producer / consumer made lazily, `disposing` | `Send`; the `Subscriber` poll loop; `Dispose` | broker |
| Node clients (`kafkaHelper.js`, `kafka-rest-helper.ts`, scripts), over the bundled `kafka-rest` client | consumer instance, its stream, its shutdowns | `sendCommand`, `consume`, `stopConsumer`; `app.js` asks the five questions too | Kafka REST proxy |
| JavascriptClient (`manager.js`) | two names | five questions about the cluster | Kafka REST proxy |
| TypeScript web API (`kafka-helper.ts`), `kafka-node-helper.ts` | client, `ready` flag | `sendCommand`, `consume` | Kafka |
| Angular front end (`WebsiteNoKafka`, with two copies) | configuration, sign-in, list, forms | start, redirect, list, create, delete, sign in | configuration, identity and client service |
| Token cache (`TokenManager.cs`) | one cached token | two grants | identity server |
| AuthServer | user database, through ASP.NET Identity | sign-in, consent, grants, seeding | IdentityServer4 |
| Common helpers, gateway, web job, deployment | configuration | | |

What makes the core hard is concurrency without locks.  A POST answers at
once; its command runs later in a thread-pool task, and so does every event
handler.  All tasks share a `Dictionary`, a `List` per aggregate and the two
collections of the read model, none of them thread-safe and none guarded.
Exceptions end a task and are seen by nobody.  Nothing is persisted.  The
transports are hard because of what happens between two of their steps: a
connection lost before an acknowledgement, a commit that fails, a request the
broker executed and the caller gave up, an answer that comes after the end of
its stream, a `Dispose` in the middle of a loop.

What has to hold for each component to be correct:

* event store: versions of an aggregate are consecutive; of two writers that
  read one version one is refused; what was accepted stays;
* command side: events are saved under the id that was asked for, and every
  history starts with its creation, otherwise replay yields `Guid.Empty`;
* read side: what it shows is in the store; once everything has run it is the
  projection of the store; every handler ends;
* service: callers use an id only after its creation is durable enough to be
  loaded;
* request and reply: a call returns the reply to its own request, no request is
  lost when a server stops or dies, and every call ends;
* sender and receiver, topic: what has reached the queue is kept until it was
  processed, only a lost connection or a restart repeats it, everything is tried,
  and commands are stored in the order they are sent;
* REST clients: the handler gets the messages of a partition in order and once,
  what is lost is accounted for, reading and stopping come to an end;
* front end: no service is built from a configuration that is not there, the
  login form goes to the configured address only, and the sign-in redirect is
  handled exactly once.

`PROJECT.json` lists the components with their status, and under `hazards` the
places in the code where these can go wrong.

## 2. Modules

    AggregateLog        what the store promises (abstract)
      ^ refinement, EventStoreLog
    EventStore          EventStore.cs                     EventStore_proofs
      ^ INSTANCE
    ClientCommands      InProcessBus.Send, command        ClientCommands_proofs
      ^ INSTANCE        handlers, Repository, Client
    ClientService  ---> ClientReadModel                   ClientService_proofs
    ClientsController   event handlers, InProcessBus.Publish

    Rpc                 RpcClient.cs, RpcServer.cs        Rpc_proofs

    Transports          one program, over one of          Transports_proofs
      Delivery          Sender.cs, Receiver.cs            Delivery_proofs
      KafkaTopic        KafkaHelper, console programs     Transports_proofs

    RestClients         scripts that share proxy, topic   RestClients_proofs
      RestProducer      sendCommand
      RestConsumer      consume, stopConsumer

    Website             one load of WebsiteNoKafka        Website_proofs

Each module comes with an `MC` module for TLC where it needs definitions of
its own (sets with negative numbers, symmetry, functions).  Definitions named
`X_Something` next to a definition `X` are mutated forms of it: each breaks a
property and shows what the property is sensitive to; no action uses them.

### EventStore

One request is one call of `Save`, and `stage[r]` is its program counter.
`Save` is cut wherever it touches shared memory:

| action | code |
|---|---|
| `Save` | the call, line 32 |
| `Miss`, `OpenStream`, `AddDuplicate`, `Insert` | `TryGetValue` misses (38); `_current.Add` looks for the key, claims a slot, then writes it (41) |
| `PassCheck`, `FailCheck` | the version check (45) and its `ConcurrencyException` |
| `ReadSize`, `BumpSize`, `WriteItem` | `List.Add` (58): read the size, store size + 1, write the element |
| `Publish` | line 61; `Save` returns |
| `Restart` | the process ends and starts again: all of it was memory |

`current`/`count` are the dictionary's slots and counter, `items`/`size` those
of each list; a list is named by the request that allocated it.  Two ghost
variables record what nobody in the program knows: `tainted`, the lists on
which two Saves overlapped or one used the wildcard version -1, and
`clobbered`, that two dictionary inserts overlapped.  The properties promise
nothing for those, because the code does not (see section 5).

### ClientCommands

`task[r]` is the thread-pool task of a command.  `Send` queues it; `Create`,
`Change` and `Refuse` are the handlers up to the call of `Save`, with replay
(`Replayable`, `ReplayedIds`) and the domain guards (`Valid`); then the actions
of the `EventStore` instance run, with the versions commands may carry and the
-1 that a creation passes.  The caller side is a protocol: a fresh Guid
for each creation, and otherwise only ids whose creation was published, or
`EmptyGuid`, which stands for every other Guid a caller might make up.

### ClientReadModel

For each published event a task for the detail handler and a task for the list
handler, both over the same unguarded collections.  `Routes` is the
registration made by `ClientInProcessBusFactory`, which leaves the list's
removal handler out.  `Add` on the detail dictionary and on the list, and the
two assignments of a renaming, are separate steps.

### ClientService

Joins the two: POST, PUT, DELETE and GET, with `known`, the ids callers have
read in the list.  The ghost `alone` says that every request so far came when
nothing else was running, which is how one patient user works the site;
`SerialSpec` is the system restricted to such callers.

### Rpc

Independent of the others: the request and reply pattern of
`RabbitMQHelper`.  A *query* is a call of `RPCClient.Query`, a *loop* the task
started by a call of `RpcServer.Run` on one server object.

| action | code |
|---|---|
| `Ask`, `Take` | `Query`: publish the request; take a reply from the client's queue and return it, or throw it away if its correlation id is another's |
| `Dispose`, `Abort` | `Dispose`, and what it does to a call that still waits |
| `Run`, `Open`, `Stop` | clear `stop` and start a task; connect, declare the queue and consume; set `stop` |
| `CheckStop`, `Dequeue`, `Execute`, `Reply`, `Ack` | the loop, `RpcServer.cs:53-85` |
| `Break` | an exception or the end of the process leaves the `using` blocks at any step |
| `Deliver`, `Requeued` | the broker: one unacknowledged request per loop, taken back when its channel closes |

The handler may end in an exception; it is answered with an empty response, so
to a caller it is a reply like any other, and a reply is named by its query.
Ghosts: `executed` and `afterStop` count, and `exposed` collects the queries
nobody promises to answer, because they were waiting at the same time as
another query of their client, or were published before any server had declared
the request queue.

### Delivery

A message from `Send` to its acknowledgement.  `channel` is the field of
`Sender`, `complete` whether the getter that fills it reached its end, `bound`
whether what is published over it is routed to the queue: with an exchange and no
routing key the getter binds nothing (`Sender.cs:63`).

| action | code |
|---|---|
| `Setup`, `SetupFails` | the getter `Channel` (`Sender.cs:39-76`) reaches its end, or throws, before or after the field is set |
| `Publish`, `PublishThrows` | `BasicPublish` over an open channel returns at once, with the message on its way (`travelling`); over a lost or closed one, or for a null routing key, it throws |
| `Arrive` | the broker puts the message into the queue, or returns it to a handler that prints |
| `LoseSender`, `RecoverSender` | the sender's connection is lost with all that is on its way; the library recovers it |
| `Connect`, `Deliver`, `Begin` | `Receiver.Connect`; the broker sends all it has, as `BasicQos` is commented out; the library calls the handler |
| `Processed`, `Ack`, `Throws` | `Process` returns; `BasicAck`; the catch block, which neither acks nor nacks |
| `Lose`, `Dispose` | the channel closes while a handler may run, and the broker takes everything unacknowledged back |
| `DisposeSender`, `Expire` | `Sender.Dispose`; `x-message-ttl` |

### KafkaTopic

The producer program, librdkafka, one partition, and the loop of
`KafkaSubscriber`.  `loop` is that thread's program counter; the getter of
`Consumer` is two steps (`Get` looks at `disposing`, `Create` at the field),
because `Dispose` (`BeginDispose`, `EndDispose`) runs on another thread.

| action | code |
|---|---|
| `Produce`, `Arrive` | `ProduceAsync`; librdkafka repeats an unanswered request, of which any may be stored or lost |
| `Sent`, `DeliveryFails`, `SendFails` | `.Result` returns once the command is stored; or with a `Message` whose `Error` is set, at which `Send` does not look (`KafkaPublisher.cs:64`, Confluent.Kafka 0.11.4); or the getter or `ProduceAsync` throws and the program ends |
| `Subscribe`, `Poll`, `Handled`, `Commit` | `KafkaSubscriber.cs:70`, `74`, `53`, `55` |
| `AutoCommit`, `Committed`, `CommitFails` | the commits nobody awaits, and librdkafka's own |
| `Throws`, `FindsNull`, `Crash`, `Start` | the ways the program ends, and its next run from the committed position |

### RestClients

`RestConsumer` is `consume` with everything under it that changes state:
the join, the GETs in flight (`reads`), the `Readable` stream (`reading`,
`ended`, `endEmitted`), the instance's `active` flag and the two-phase shutdown
(`shutdowns`).  `style` picks the callback program or the observable one.

| action | code |
|---|---|
| `Consume`, `Joined`, `JoinFailed` | `kafkaHelper.js:49-84`, `kafka-rest-helper.ts:69-108` |
| `JoinThrows` | an answer to the join without id or address (`my-kafka-helper.js:1751`) |
| `Serve` | the proxy answers a GET and moves the group's position |
| `ReadAnswered` = `Data`, `PushAfterEnd`, `Nothing` | the read callback (`my-kafka-helper.js:1833-1862`) with what `push` does: emit `'data'`, start the next read, or fail after the end |
| `ReadUnreadable`, `ReadThrows` | an answer below 400 without messages in it: cut off or not JSON, it is taken for an empty one (1630, 1843); of a 204 or a `null` the length cannot be asked for |
| `ReadFailed` | the `'error'` event: report, shut down |
| `StopConsumer`, `EmitEnd`, `Deleted`, `DeleteFailed` | `stopConsumer`, the `'end'` a shutdown waits for, the DELETE and its callback `logShutdown` |

`RestProducer` has `sendCommand` (`SendCommand`, `Arrive`, `Answered`,
`Failed`: the client may give up a post the proxy still appends).  A post answered
below 400 may have been refused record by record, which nobody reads.

### Website

The two calls of `getConfig` at start, and the login page's third, each step
by step (`ConfigFetched`, `EndpointsFetched`, `FetchFailed`, with `Settled` and
`Return` for what follows the awaits); `Boot` and `Validated` for the
application and the sign-in library; `OpenList`, `ListAnswered`,
`ChangeClient`, `ClientChanged`, `Navigate`; `OpenLogin`, `SignIn`,
`SignInAnswered`.  The address of `ClientService` is `"known"` or `"undefined"`,
depending on whether the configuration was there when it was built; that of
`AuthenticationService` is `config.authUrl` once its call of `getConfig` returns.

### AggregateLog

For each aggregate a sequence of events; an accepted event takes the version
after the last one; `void` aggregates are those nothing is promised about.
`EventStoreLog` gives the refinement mapping: the log of an aggregate is the
committed part of its list.

## 3. Runs

| run | module, configuration | shows |
|---|---|---|
| `store` | `MCEventStore`, `EventStore.cfg` | any callers: type, numbering, retention, dictionary, refinement of `AggregateLog` |
| `commands` | `MCClientCommands`, `ClientCommands.cfg` | the command side: own id, creation first |
| `service` | `MCClientService`, `ClientService.cfg` | the whole service: visible clients can be loaded; callers obey the protocol of `ClientCommands`; with one caller at a time (`alone`) the read model is the projection of the store once nothing runs |
| `liveness` | `MCClientService`, `ServiceLiveness.cfg` | every command and every handler ends, with two creations whose rows may claim one slot |
| `rpc` | `MCRpc`, `Rpc.cfg` | own replies, nothing lost, bounded repetition, bounded service after `Stop`; a query that has its client to itself ends while a server is running |
| `transports` | `Transports`, `Transports.cfg` | RabbitMQ: what reached the queue is kept, what can be lost before is named, only a lost connection repeats, everything is tried. Kafka: order of the commands that were stored, what is skipped and repeated, `Dispose` ends the loop, everything is handled |
| `rest` | `MCRestClients`, `RestClients.cfg` | one GET at a time, order, what is lost and with what report, no other gaps, the end of reading, commands handled once, stops and deliveries that come about |
| `website` | `Website`, `Website.cfg` | configuration before use, the login form posted to `config.authUrl` only, the redirect handled exactly once |
| `OneWinner`, `RenamingIsShown`, `DeletionIsAccepted` | `MCClientService` | three statements of comments that the code does not keep |
| `ReadingStopsFirst` | `MCRestClients` | a comment of the bundled client that its read loop does not keep |

Bounds.  Three requests are enough for every pair of overlapping writers on an
aggregate that already exists (its creator is the third), and for creation,
change and deletion of one client; the `commands` run has four, so that two
aggregates can each be created and changed.  Versions -1, 0, 1 hold the
wildcard, the right version and a stale or future one for lists of up to three
events; a service run allows the versions the store can produce from those.
`Capacity` is the number of array slots and equals the number of requests, so
it never stops a request (a `List` grows, a slot is claimed by at most one
request; growth itself is not modelled).  Two ids make clients interfere,
also in the liveness run: its three requests can be two creations that overlap in
`List.Add` and in the dictionary, and a renaming whose `Find` meets the null row
between the two.  That run tries PUTs with version 0 only, and uses requests
and ids in one fixed order (`OrderedFairSpec`): they differ in nothing but their
names, and the order restricts callers, who have no fairness.  `Names` has one
proper name and the empty one.  Where no liveness is checked, requests and ids are
reduced by symmetry.  Every run stops when all requests are used, except
that the process can always restart and the list can always be read.

In `Rpc` three queries over two clients give two calls that share a reply queue
and one that only competes for the servers; two loops give a request that is
handed from one to the other and a `Run` that revives an older loop; `MaxDrops`
bounds lost connections: one gives two executions of a query, so a late reply
for a later call.  The three queries each run once and a loop ends for good, so
the system may stop.

`transports` has two messages, so that one can block, overtake or hide the
other, and two lost connections, so that a message can be tried three times;
two commands, so that there is an order to break, three requests (each command
once and one repetition, any of which may be lost, or arrive after its delivery
was given up), and two starts of the subscriber, the second of which
reads what the first one did or did not commit.  `rest` has two commands over
two partitions, numbered 0 and 1 because the number 0 is the one the code takes
for "no partition"; an answer holds up to two messages, so that one GET can take
all there is; two calls of `stopConsumer`, one of which may come during the join
or find the instance already gone.  `MaxVisits` (3) lets the list be opened, left,
and opened again while an earlier request is in flight.  All of these systems may
stop: messages and starts are used up, a script ends, a page rests.

Fairness.  `FairSpec` has weak fairness of each task's steps: the thread pool
runs every queued task and a running task is not suspended for ever.  The detail
handler and the list handler of an event are separate tasks and get separate
fairness.  Callers and restarts get none.  In `Rpc` the thread of a call, the
task of a loop and the broker's deliveries to it are weakly fair; asking,
`Run`, `Stop`, `Dispose` and lost connections are not.  In `Delivery` the
broker delivers what it has, the library's automatic recovery reconnects and
calls the handler, and the handler returns or throws; the sender, its connection,
what travels from it to the broker, lost connections and `Dispose` get no
fairness.  In `KafkaTopic` the thread of the loop runs,
`Process` returns, and a `Dispose` that has begun goes on; commits, crashes and
restarts happen or not.  In `RestConsumer` every request ends, because the
client aborts a silent one after 120 seconds, and Node runs the ticks and timers
that are due; the user's `consume` and `stopConsumer` and the producers have no
fairness.  In `Website` every fetch of the configuration is answered or fails,
the browser boots what is ready and the library reports its validation; no
fairness is asked of the user.

## 4. Proofs

`EventStore_proofs.tla` proves, for any number of requests, aggregates and
versions and any capacity, from `StoreAssumption` only:

* `TypeCorrect`: `Spec => []TypeOK`;
* `GapFree`: `Spec => []UntaintedIsGapFree`;
* `AcceptedStays`: `Spec => []AcceptedIsKept`;
* `DictionaryKept`: `Spec => []DictionaryIntact`;
* `StoreImplementsLog`: `Spec => ImplementsAggregateLog`.

`GapFree` and `AcceptedStays` speak of accepted events, and are not inductive:
they say nothing of a Save between its check and its write, which is where they
could be lost.  The invariant `IInv` adds that an untainted list has at most
one writer (`OneWriter`); that the version this writer was checked against is
the list's first version plus its size, and the slot it has read is still the
next one (`WriterFits`); that all slots but the one it has counted and not
filled hold consecutive versions (`Numbered`); and that accepted events are in
their slots (`Kept`).  `Refs` states which references are lists that exist.
The step lemmas follow the actions: `PassSafe` is where the check earns
`WriterFits` from `Numbered`, `BumpSafe` and `WriteSafe` where the only writer
keeps it.  `AcceptedIsKept` then follows by arithmetic: two accepted events
with one expected version would sit in one slot.

`DictionaryIntact` needs to know how far an insert is.  `Dictionary` says that as
long as no two inserts overlapped the slots below `count` hold different
aggregates, that the one inserting Save has claimed the slot `count`, and that a
Save which already uses a list finds it under its aggregate (`LookupFinds`).

For the refinement, `Authors` says that an event in a list was written by the
Save named in it, to that list and slot and with the version after the one it
expected, and `NoHoles` that the slots counted and not yet written belong to
writers under way.  So an untainted list without a writer is all committed
events, and the mapping's log is a sequence of consecutive versions.  Each step
of the store then appends one event to one log (`Publish` of an untainted list
is not that step: `WriteItem` is), makes an aggregate void, starts again, or
changes no log.

`ClientCommands_proofs.tla` proves of the command side, for any number of
commands, ids and names, from `CommandAssumption`:

* `UsesStore`: `Spec => Store!Spec`, and with it `StoreKept`: the dictionary, the
  numbering and what was accepted are kept under the command handlers;
* `TypeCorrect`, `OwnIdSaved` (`SavesUnderOwnId`) and `CreationFirst`
  (`StreamStartsWithCreation`).

That a history starts with its creation is a statement about a list, but what
breaks it happens before there is one: a handler that loads an aggregate whose
creation is not in the store yet replays `Guid.Empty`.  The invariant therefore
follows the creation.  `Commanded` ties each Save to its command, `Callers` says
that an id is used by a later command only once it is announced, and `Creations`
that an announced id has exactly one creation, whose Save was published.
`Streams` holds while no two inserts overlapped: all events of a list have one id
(`SameIds`), the Save that opened a list is the creation of its id (`Creators`),
what a handler has loaded is a list that exists (`Loaded`), slot 0 is the
creation's and no other slot is (`FirstSlot`, `LaterSlots`).  `ReplaysOwn` is
where it meets: replay of such a list yields the id that was asked for.

`ClientService_proofs.tla` proves of the whole service `ServiceUsesCommands`
(`UsesCommands`), `ServiceTypeCorrect` and `SeenIsLoaded` (`SeenCanBeLoaded`).  The
callers' protocol is an assumption of `ClientCommands` and a theorem here: known
ids were announced (`Known`), a row belongs to a creation that was published
(`Shown`), and what a handler works on is the event its request stored.  Every
theorem about the command side and the store then holds of the service, and
`SeenCanBeLoaded` follows from `DictionaryKept` and `ReplaysOwn`.  These theorems
assume `Versions = Int`: DELETE sends the version it finds in a row, and a row
may hold any number that the counting leads to.  The runs use a set that is
closed for their size.

`Rpc_proofs.tla` proves, for any number of queries, clients, loops and lost
connections, from `RpcAssumption` only, `TypeCorrect` and the four safety
properties of `rpc`: `OwnAnswers`, `Served`, `Repetitions` and `Promptness`.
The strengthenings are small and separate.  `Answers` adds that a loop past
`Dequeue` holds a request and that every reply on its way is of an executed
query; type correctness needs the first of these too, because the reply is
addressed through the request.  `Repeats` adds that a request is in one place at
a time (`OnePlace`) and that one not yet executed there has been executed no
more often than connections were lost.  `Service` adds that of two calls waiting
on one client both are exposed (`Alone`), so that `Take` throws away no awaited
reply (`TakeKeeps`), and that a loop acknowledges only once the reply is in the
client's queue (`Replied`).  `Prompt` adds that a loop that has served after
`Stop` cannot reach `Dequeue` again without looking at the flag.

`Delivery_proofs.tla` proves `NotLost` and `NoOtherRetry` for any messages and
any number of lost connections on either side.  `KeptUntilProcessed` is two
statements with an invariant each.  `OnTheWay`: nothing is sent successfully while
the channel field is null, so a binding is there before the first message goes
over it.  `Kept`: only what was processed is acknowledged, a handler past
`Process` holds a processed message, and every step keeps `Held`, the union of the
places a message that has reached the queue may be in.  `Tried` adds that
a message which waits for the receiver has been tried at most `losses` times and
waits in one place, which is what makes the next `Begin` safe, and `Fresh` that
what still travels was never tried.

`Transports_proofs.tla` proves of the Kafka programs, from `TopicAssumption`, `OrderKept`,
`OnceForEachStart` and `CommittedIsHandled`.  `Waited`: all predecessors of the
command being sent are stored or failed, and nothing later is stored or on its
way; so a request that arrives late, after its command was given up, comes behind
the same predecessors.  `Once`: offsets
after `given`, and `given` while it is in hand, were handled by earlier starts
only.  `Kept`: a running program has accounted for everything up to `given`, and
no commit on its way is ahead of that; `Sizes` bounds the partition by the
requests.

It also proves that `TransportsSpec` implies the specification of
each of its parts (`RunsKafkaTopic`, `RunsDelivery`), so all of this holds of the
composition that TLC checks.

`RestClients_proofs.tla` proves, from `RestAssumption` and for a topic that
grows in any way, `OneAtATime`, `ErrorIsEnd`, `DeliveredInOrder`,
`LostWithAnError` (`LossIsReported`) and `GapsAreUnread` (`NoOtherGap`) of the
consumer.  `Reading` says that nothing is asked before the join and after an
error; `Ordered` that what was delivered lies below the answer on its way, and
that below the group's position.  `Complete` joins the last two properties, which
need each other: a batch continues the handler's messages without a gap because
everything below it is handled or unreadable as long as no error was reported,
and after an error nothing is delivered.  `ConsumerTypeCorrect` needs `Flags`,
the types of the flags and of the calls of shutdown.  `RunsRestConsumer` shows,
with `ProducerAssumption`,
that the composition takes only steps of the consumer or lets the topic grow.
`HandledOnce` then joins `Ordered` with two facts about the composition:
`Stored`, a command is in one place of the topic and a post on its way is not
there yet, and `Placed`, the group has been given nothing beyond the topic.

`Website_proofs.tla` proves `ServicesConfigured`, `LoginConfigured` and
`HandledOnce` for any number of visits.  `LoginConfigured` says that whenever the
form has been posted the configuration was there and the form went to
`config.authUrl`.  The invariant says how far each call of
`getConfig` is when the configuration, the endpoints, the application, the
services and the redirect are in the states they are in (`Fetched`, `Built`,
`Handled`).

`RowsFollow` proves `RowsMatchStore` of the same module, with the same
assumption: when requests have come one at a time and nothing runs, both rows of
every client are the projection of its events.  Every handler runs on its own, so
the property is broken in between, at any of some ten steps of a request; the
invariant `Turn` says what each of these states owes.  `Solo`: one request runs.
`Handled`: no handler has missed its row, so an event whose handlers ended was
handled.  `DetailTable` and `ListTable`: the slots of the two collections in use
are those below their counters, except the one a `List.Add` has counted and not
filled, and a handled creation has its slot.  `AtEnd`: the running request
was checked against the end of its list and its event is the last one, and a
rename or a removal works on a client that both handlers have rows for.  `Shows`:
the name and version of the detail row and the name of the list row are the
projection of the client's list up to `NamesIn`, `VersionsIn` and `ListedIn`
events, which are all of them except the one counted and not yet handled.  The
three differ because the detail handler writes a name and a version in two
steps, and because a removal brings the detail row a version and no name and has
no handler for the list.  `LastName` states the projected name without the
`CHOOSE` of `NameAfter`, so that one more event is one more step
(`LastNameGiven`, `LastNameStays`), and `LastNameChosen` shows the two agree.
The proof needs the theorems above: that a list holds the events of one id
and starts with its creation (`CreationFirst`) is what makes "the row of the
client" a single row.  `AtEnd` and `Shows` are false of requests that overlap,
and so is what the property says: the runs `OneWinner` and `RenamingIsShown` are
about those.

Only model-checked: liveness, which is out of the prover's reach.
`EveryRequestEnds`, `QueriesEnd`, `EveryMessageTried`, `DisposeEnds`,
`EveryOffsetHandled`, `StopEnds`, `StoredIsDelivered` and `CallbackHandled` each
rest on fairness.

## 5. What the models show of the code

Four statements of comments fail, each in a run of its own:

* `OneWinnerPerVersion`: two renamings that name the same version both pass
  the check of `EventStore.cs:45` before either reaches line 58;
* `RenamingIsShown`: the detail handler of a renaming can run before that of
  the creation; it throws unseen and the old name stays;
* `DeletionIsAccepted`: a new client is shown with version 1 and stored with
  version 0, so deleting it is always a conflict, even for a single caller;
* `ReadingStopsFirst`: the bundled client says it stops reading before it deletes
  its instance, but `push` has already started the next GET when the callback
  looks at the flag (`my-kafka-helper.js:1848`).

Others were seen with TLC and are written into the properties as exceptions:

* a PUT with version -1 is accepted whatever the last version is, and restarts
  the numbering at 0 (`EventStore.cs:51`): `tainted`;
* overlapping dictionary inserts lose an aggregate whose creation was accepted
  and published (`EventStore.cs:41`): `clobbered`;
* overlapping creations can lose a row of the client list
  (`ClientListEventHandlers.cs:9`), so that a client is never listed; and until
  a claimed slot is written it shows a null row, on which the `Find` of a renaming
  throws unseen;
* a removed client stays in the list: the handler is not registered
  (`ClientInProcessBusFactory.cs:26`);
* of two concurrent calls of `Query` on one client either can throw the other's
  reply away, which then waits for ever (`RpcClient.cs:57-62`), and a query
  published before the first server has declared the queue is lost
  (`RpcClient.cs:53`): `exposed`;
* renaming to an empty name is refused, creating with one is not
  (`Client.cs:21` and `Client.cs:14`);
* a message whose handling failed stays unacknowledged until the channel closes,
  and comes back only then (`Receiver.cs:76`): `stuck`;
* a getter that throws after it has set the field leaves the sender with a
  channel that drops messages or refuses them for ever (`Sender.cs:46`), and one
  with an exchange and no routing key binds no queue (`Sender.cs:63`): `complete`,
  `bound`;
* `Send` waits for no confirm, so what is on its way when the connection is lost
  is lost, and the caller was told nothing (`Sender.cs:84`): `cutOff`;
* the producer program goes on behind a command whose delivery failed
  (`KafkaPublisher.cs:64`), so the topic may hold commands without their
  predecessor: `failed`;
* librdkafka commits a message when it is handed out, so a program that ends
  while processing it skips it (`KafkaSubscriber.cs:53`): `cut`;
* `Dispose` between the two looks of the getter makes a consumer that nobody has
  subscribed, and the loop polls it for ever (`KafkaSubscriber.cs:35`):
  `revived`;
* an answer below 400 that is cut off or not JSON is taken for an empty one, and
  its batch is lost without an error (`my-kafka-helper.js:1637`, `1843`): `unread`;
* the batch that arrives after the end of the stream is dropped, although the
  proxy counts it as read; a failed read leaves the shutdown it causes waiting
  for an end nobody pushes; a second DELETE makes `logShutdown` throw outside
  any handler and ends the process (`kafkaHelper.js:41`); stopping while the join
  is in flight leaves a consumer that reads for nobody
  (`kafka-rest-helper.ts:110`): the exceptions in `LossIsReported`, `StopEnds`
  and `StoredIsDelivered`;
* the scripts read the topic name before any callback can have found it, so
  three of their five questions are never asked (`app.js:37`), and their error
  branches call `console` as a function, which ends them (read, not modelled);
* the list page asks while the token is being validated, is refused and does not
  ask again (`client-list.component.ts:19`); after an error of its request the
  login form may keep its button disabled: the model's `Validated` and
  `SignInAnswered`.

## 6. Abstractions

* One event per `Save`: every command handler produces exactly one.
* Array growth, and hash buckets of the dictionary: two overlapping inserts
  are modelled by the slot they share, not by a corrupted bucket chain.  An
  entry's key and value are written in one step.
* A reader takes a snapshot of a list (`Get`); memory is sequentially
  consistent.
* Guids are unique (`Guid.NewGuid`); names, DTOs and JSON are model values.
* GET id changes nothing and tells a caller nothing the list does not; it has
  no action.
* `Rpc`: the broker does not fail, and a client keeps its connection until
  `Dispose`.  The request queue is a set: nothing depends on its order.  A call
  on a client already disposed of throws at once and is not an action.
  Correlation ids are unique (`Guid.NewGuid`).
* Authentication, model validation, logging and hosting are left out.

* `Delivery` and `KafkaTopic`: one sender and one receiver object, one partition.
  The RabbitMQ broker does not fail and keeps its queue; a connection is lost with
  everything that is on its way over it.  librdkafka's requests of one command
  hold the same, so they are taken to arrive oldest first.
  The order of a RabbitMQ queue is not used by any property.  A deployment uses
  one of the two, so `Transports` runs one or the other.
* `RestConsumer`: the proxy answers a GET from one partition at a time.  An answer
  that is cut off ends like a complete one, with `'end'`, as in the Node versions
  of the time, so it is parsed and found unreadable.  Unreadable are answers the
  proxy has served; a proxy that sends nothing but such answers is not modelled, as
  nothing would ever be delivered.  The
  bundle's buffering never holds anything, since the stream flows; its
  `async.series` is modelled by the order it gives to the two phases of shutdown.
* `Website`: router, sign-in library and servers are modelled by what the code
  can see of them; templates and validators are left out.

## 7. Not modelled

* **`app.js`, `manager.js`** (`KafkaManager`): a script asks its five questions in
  its only turn, before any callback can have run, so the name three of them need
  is still null; the callbacks print.  A property could only restate that turn.
* **Product** repeats the client side class by class over the same store and
  bus; a second module would restate `ClientCommands`.  Its controller's DELETE
  sends no command at all.
* **Token cache**: nothing in the repository creates a
  `SecurityShare.TokenManager`, so there are no callers to interleave.
* **TypeScript web API and `kafka-node-helper`**: `sendCommand` refuses until
  `ready`; `ready` is set by an event of a producer that is only made if a client
  exists, and nothing makes the client.  The consuming end fails at its first
  message.  There is no behaviour left that takes several steps.
* **AuthServer** is IdentityServer4's quickstart over a library and a database;
  its vendored jQuery and Bootstrap are third-party code.  The provisioning of
  external users runs for no registered provider, the seeding once, by hand.
* **Helpers, gateway, web job, deployment**: pure functions in one place each,
  and configuration.
* Of the **bundle** `my-kafka-helper.js` only what the clients reach: requests,
  join, subscribe, produce, the read loop and the two-phase shutdown.

About 22,800 of the JavaScript and TypeScript lines in `src/` are that bundle, jQuery
and Bootstrap.  The models speak of the parts the program calls; a share of
third-party text beyond that would say nothing about this program.

## 8. Plan

Done: everything in section 2, and the proofs of section 4.  Every safety
property of the passing runs has a theorem.  Left, if the project is carried on:
how far the rows may stray when requests do overlap, which `RowsMatchStore` says
nothing of.
