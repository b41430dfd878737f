# Gulfstream in TLA+

Gulfstream is a Go library for event sourcing. An application registers *controllers*; a
**mutator** loads a *stream* (an aggregate with a version and a list of pending changes) from a
**storage**, lets a controller raise events on it, persists the stream and hands the events to an
**event bus**, which calls the application's event handlers, among them other mutators and
projections. Commands arrive over **command buses**.

This directory models the parts where order, interleaving and failure decide whether that is
correct, checks them with TLC on small instances, and proves the central invariants with TLAPS for
all instances. Every definition names, in `PROJECT.json` under `map`, the source lines it stands for.

## 1. The system

| component | source | state | operations | hard behaviour |
|---|---|---|---|---|
| stream | `pkg/stream/stream.go` | id, loaded version, changes, user state | `Mutate`, `ClearChanges`, `Version`, `PreviousVersion`, marshal | version arithmetic that storages compare; `1%100` in the placeholder test |
| mutator | `pkg/stream/mutator.go` | controllers, pickers, blacklist (fixed after set-up); per call: its copy of the stream | `CommandSink`, `EventSink` | no lock from load to publish; several streams per event; every call can fail |
| in-memory storage | `pkg/stream/storage.go` | two maps under one mutex | `NewStream`, `Load`, `Persist`, `Drop` | optimistic version check; `Drop` between another call's load and persist |
| redis storage | `pkg/storage/redis/storage.go` | a version key and a state key per stream | the same; `Drop` does nothing | WATCH, GET, MULTI/EXEC; a GET whose error is dropped |
| postgres storage | `pkg/storage/postgres/{storage,schema}.go` | tables versions, states, events, outbox | the same; `Drop` does nothing | a transaction of several statements, row locks, a deferred rollback |
| in-process bus | `pkg/eventbus/channel.go` | partitions of capacity 1, a wait group per topic and one for the bus | `Subscribe`, `Publish`, `Listen`, `Close` | blocking sends, listener goroutines, rollback of handlers, close and cancel |
| Kafka bus | `pkg/eventbus/kafka`, `pkg/eventbus/deduplicator.go` | consumer session, offsets, visited events | `Publish`, `Subscribe`, `Listen`, `Close` | offsets past failures, deduplication, rebalance, readiness channel |
| command buses | `pkg/commandbus/{nats,http,grpc}` | connections, registered mutators | `CommandSink` at the client, a listener at the server | time limits against late replies, error markers |
| containers | `pkg/{event,command,stream}/*_encoding.go` | the codec registry | encode and decode | sizes, magic numbers, minimum sizes |
| projection, interceptors, logging, metrics | `pkg/stream/{projection,interceptors}.go`, `pkg/{logging,metrics}` | maps of functions | `Handle`, `Rollback`, `Match` | what a wrapper's `Rollback` calls |

How they interact. `CommandSink` and `EventSink` call `Storage.NewStream` or `Load`, the
application's controller, `Storage.Persist`, `Publisher.Publish` and perhaps `Storage.Drop`, one
after the other, in the goroutine of the caller; nothing is shared between calls but the storage and
the publisher. `Channel.Publish` sends to a partition and blocks while it is full; the partition's
listener calls the handlers in the order of subscription. One of them may be a mutator
(`pkg/eventbus/mutator_handler.go`), whose `EventSink` publishes in turn, from the listener's
goroutine. Command buses call `CommandSink` from the goroutines of their servers.

What makes each part correct:

* stream and mutator: concurrent calls lose no update; a stored history has exactly one event for
  each version; subscribers hear of stored events only, and once; the caller who is told *ok* can
  rely on its events having been published; a reply carries no version that was never stored.
* storages: `Persist` is atomic and conditional on the loaded version, although it takes several
  steps; what it acknowledged stays; what belongs together (version and state, journal and state)
  never disagrees; nobody waits for ever.
* in-process bus: the events of a stream are handled in order; an event is handled by all its
  handlers or undone; `Close` drains; `Listen` returns when everything has stopped; nobody is blocked
  for ever but by handlers that publish in a circle.
* Kafka bus: only a message that failed is passed over, whatever crashes or is rebalanced, and an error
  function, if there is one, hears of it; with a
  deduplicator an event is handled once; what was recorded as visited is in effect; `Listen` tells
  the truth about the goroutine it leaves behind.
* command buses: a call takes effect at most once and its reply is its own, whatever is lost or late;
  only a caller's repeats execute a command again; every call returns.
* containers: what was written is read back, by its own reader only.

`PROJECT.json` lists the hazards behind these properties, each at its line. Where the code does what the
hazard warns of and no text of the repository promises otherwise, a note stands in place of a property.

## 2. The modules

| module | models | 
|---|---|
| `Streams` | the stream record, its version arithmetic and its stored form; operators only |
| `EventSourcing` | the abstract promise: append-only logs, batches appended whole, a feed that takes each event at most once |
| `EventDelivery` | the abstract promise of an event bus: the events of a lane are concluded one by one, in the order of their acceptance |
| `Mutator` | `CommandSink` and `EventSink` calls over a storage and a publisher |
| `RedisStorage` | `Persist`, `Load` of the redis storage, a command per step |
| `PostgresStorage` | `Persist`, `Load` of the postgres storage, a statement per step |
| `ChannelBus` | the in-process bus: publishers, listeners, `Listen`, `Close`, cancellation |
| `KafkaSubscriber` | the Kafka publisher, `ConsumeClaim` of competing consumers, offsets, deduplication |
| `KafkaListen`, `KafkaListenState` | the life cycle of a Kafka subscriber: `Listen`, its goroutine, `Setup`, `Cleanup`, `Close`; its variables and what must hold of them |
| `CommandService` | the abstract promise of a command bus: at most once, and the reply is the call's own |
| `CommandBus` | client and servers of the three command buses |
| `Codec` | the four container formats and their readers |
| `StreamsProofs` | lemmas about the stream operators |
| `MutatorProofs` | what holds of `Mutator`: types and histories, publishing and replies, the refinement |
| `RedisStorageProofs`, `PostgresStorageProofs`, `ChannelBusProofs`, `CommandBusProofs`, `CodecProofs` | the theorems about the modules of these names |
| `KafkaProofs` | the theorems about `KafkaSubscriber` and `KafkaListen` |
| `MCMutator`, `MCRedisStorage`, `MCPostgresStorage`, `MCChannelBus`, `MCKafkaSubscriber`, `MCCommandBus` | instances for TLC |

`Mutator`, `RedisStorage` and `PostgresStorage` extend `Streams`, and each ends with its refinement mapping
to `EventSourcing` (`Promise`); the last two refine what `Mutator`
takes to be one step, `Persist`, and `CommandBus` takes `Mutator`'s `CommandSink` to be one step, so
that together they cover the path from a caller's command to the rows; `ChannelBus` and
`KafkaSubscriber` cover the one from the publisher to the handlers, and end with their refinement
mappings to `EventDelivery`.

**Data.** The user's `State` is the set of events folded into it: two states are equal exactly when
the same events made them, which is all the properties distinguish. An event is its stream, its
version and, in place of the random UUID, the call that raised it. Names, payloads, times and owners
are left out except in `Codec`, where a field is its width and an abstract content.

**Mutator.** One action for each step of a sink that touches the storage, the publisher or the
caller: receive, load, controller, persist, publish (an event at a time, since a publisher may fail
half-way), drop, crash. `pc` is the place in the sink, `todo` what the picker still has to visit,
`stream` the local copy, `data` the storage, `bus` what was published, `committed` and `dropped`
history variables. `backend` selects the storage's comparison and its failures: the in-memory one
never loses an answer; redis and postgres may lose one (`PersistUnanswered`), and processes on them
may crash; postgres may return nil without having stored (`PersistRolledBack`). The in-memory storage
holds its mutex during each operation, so each is one step. Here redis' GET is taken to be answered;
`RedisStorage` shows what happens when it is not. Controllers are arbitrary: any number of events up
to a bound, a reply with the stream's version or with none, or an error.

**RedisStorage.** `touched[c]` is what redis remembers of the client's WATCH. The clients run the loop
of `tests/storage/redis_test.go`. `deployment`, chosen by `Init`, says which clients create the
stream and which load it, whether it exists, and what may fail.

**PostgresStorage.** `written[c]` is what the client's open transaction has written; it becomes
visible at commit. A statement that meets a row or key written by another open transaction waits; one
that meets a committed key it must insert, or no row to update, fails. `RollBack` is the deferred
function, whose result, nil, is what `Persist` returns. `journal` says whether `WithJournal` was
given.

**ChannelBus.** `buffer[l]` is a partition, `pc[l]` its listener. A handler's publishing is a sequence
of `Emit` steps that block like any send. `closed[l]` is the listener's local flag, `closeSig` the
closed signal channels, `wg` the bus's wait group. The hash of a stream to its partition is arbitrary
but fixed (`hash`). `subscribed`, chosen by `Init`, is the set of topics with a `Subscribe`.
`rollback`, chosen by `Init` too, is what the `Rollback` of each handler does: it undoes the handler's
effect (`HandlerFunc`, a projection's controller with a rollback), does nothing (`MutatorHandler`,
`HandlerFunc` without one), calls `Handle` again (any handler within the logging interceptors), or
calls a nil function and ends the process (a projection's controller without a rollback).

**KafkaSubscriber.** One partition, since the events of a stream share a key; a message is its index
in `log`, and the producer may append it twice. Members of the group `Claim` the partition from the
committed offset, or from the newest message when there is none (`config.go`), and lose it in an orderly
`Release`, by a `Crash`, or by an `Evict`, after which a member goes on for a while and no longer
commits. `ConsumeClaim` is translated return by return and `continue` by `continue`: before functions,
whose refusal marks the message and lets it be handled all the same, unmatched and undecodable
messages, `HasVisit`, each handler, the rollbacks, `SetVisit` and the mark are separate steps.
`dedup`, `before` and `informed`, chosen by `Init`, say which options the subscriber was given. Errors go
through `ErrorHandle` (`errorHandle`), where the code calls it: a handler's before the rollbacks are called.
Without an error function (`informed` is false, the default and what `tests/eventbuskafka` uses) nobody
hears of them. `failed` has the messages that were given up, `reported` those an error function heard of.

**KafkaListen.** `member` is the place of the goroutine that `Listen` starts. The channels that
`s.ready` holds are numbered as they are made; `Listen` reads the field in a step of its own
(`ReadReady`), when the goroutine may be sessions ahead. An error is offered with a `default`, so it is
lost unless `Listen` waits for that very channel; offered after `Setup`, it is sent on a closed channel
and panics. `Consume` itself belongs to the library.

**CommandBus.** `transport`, chosen by `Init`, says which of the three buses it is: whether a server
takes one message at a time, whether the client has a time limit and what it returns then, whether the
mark of an error comes back. `stage` is where a call is, `result` what its client returned: the client
may return while the call is still served. Callers repeat a command, as a new call, until they get a
reply. The mutator is a log of the calls that stored an event.

**Codec.** A container is a sequence of chunks, one per field, with a width and a content; a reader
takes chunks in its own order with the widths it computes. Platform sizes (`unsafe.Sizeof`) are those
of a 64-bit target.

## 3. The runs

| run | instance | properties |
|---|---|---|
| `mutator_lifecycle` | in-memory storage, 3 calls, 1 stream and the nil stream, up to 2 events, creating, updating and dropping controllers, strict mode | `TypeOK` `NoLostUpdate` `CopyIsConsistent` `HistoryIsContiguous` `PublishedIsCommitted` `PublishedOnce` `NoSilentLoss` `ReplyVersionIsCommitted` |
| `mutator_fanout` | any of the three storages, 3 calls, 2 streams, pickers that name both in either order, controllers that drop nothing | `ImplementsEventSourcing` |
| `redis` | 3 clients, three deployments (below) | `AcknowledgedIsKept` `PersistIsAtomic` `StoredOnItsVersion` `EveryoneStores` |
| `redis_get` | a client creates a stream that exists, a GET fails | violates `StoredOnItsVersion` |
| `postgres` | 3 clients, up to 2 events, journal or not, statements, connections and commits fail | `RowsAgree` `JournalReplays` `PersistIsAtomic` `EveryoneReturns` |
| `postgres_nil` | 3 clients, nothing fails | violates `NilMeansStored` |
| `channel_close` | 1 or 2 topics of 2 partitions, 2 publishers, 3 events and 2 that a handler publishes, one of them to its own topic; close and cancel | `HandledInOrder` `DrainedOnClose` `ListenOutlastsListeners` `CloseEnds` `EventsAreHandled` |
| `channel_rollback` | 1 or 2 topics, 4 events and one that a handler publishes, 3 handlers of four mixtures of kinds, failing handlers and rollbacks | `TypeOK` `AllOrNothing` `ImplementsDelivery` |
| `kafka` | 2 members, a batch of 2 events, a log of 3 messages, 2 handlers, four deployments (below) | `TypeOK` `OnlyFailuresArePassedOver` `HandledOnce` `VisitedIsHandled` `ImplementsDelivery` `EventsArrive` |
| `kafka_listen` | 3 sessions, 2 setup functions, 1 cleanup and 1 exit function | `ListenTellsTheTruth` `ListenReturns` |
| `command_bus` | each of the three buses, 2 callers with 2 commands each, 3 calls, 2 servers | `TypeOK` `DuplicatesAreRepeats` `FirstExecutionsInOrder` `ImplementsCommandService` `EveryCallReturns` |
| `codec` | 4 kinds written, 4 kinds read, sizes around every reader's minimum | `LongOnesRoundTrip` `OnlyItsOwnKind` |

What they show.

*The comparison in `Persist` is enough.* Whatever races between a load and a persist, the stored state
is made of exactly the events whose persist succeeded (`NoLostUpdate`), over every backend, because a
call's copy is always its stream's history up to the loaded version followed by the call's own events
(`CopyIsConsistent`). This survives drops: a call that still holds a dropped stream brings it back
whole, with its history contiguous (`HistoryIsContiguous`); `NoLostUpdate` claims nothing of a stream
once it was dropped. Three calls are enough for a call to be overtaken twice, and for a drop and a
re-creation to happen under a third call's feet.

*The mutator implements an event-sourced log* (`ImplementsEventSourcing`): a batch is appended whole
at the end of a stream and the feed passes on each stored event at most once, with crashes, lost
answers and fan-out over two streams. Over postgres the log is implemented but the feed is not, since
a rolled back persist is published all the same.

*Stored but unpublished events are never silent* (`NoSilentLoss`): their call did not answer *ok*.
They are not resent either. The outbox of postgres cannot help: no committed state ever has a row in
it (`RowsAgree`).

*Redis.* The deployments of run `redis`: the repository's own concurrency test (all load, nothing
fails, three rounds: a client can be overtaken by two others, so three rounds always suffice); two
clients that create the stream while a third waits for it, with connections that break and answers
that get lost; and three that load it while a GET may fail too. The last one shows that the dropped
error of GET is harmless to a stream that was loaded (its version is never 0), and `redis_get` that it
is not to one that is being created.

*Postgres.* `Persist` is atomic and the two version columns agree although only one of the two
statements compares (`RowsAgree`); the journal always replays to the state that `Load` returns
(`JournalReplays`), also for rejected persists, which append to it first; the lock order leaves no
deadlock (`EveryoneReturns`, and TLC's own deadlock check). `postgres_nil`: the rollback's nil
replaces the error, so a rejected `Persist` reports success.

*In-process bus.* Per-stream order, drained close and per-event rollback hold for any hash. When `Listen`
returns, `Close` has come to its end and all listeners have exited (`ListenOutlastsListeners`); it does
return after `Close` with one topic (`CloseEnds`) and never with several, because the wait group is
counted up per topic and down once. Every accepted event is handled as long
as nobody cancels or closes, unless listeners block: their handlers wait to publish to each other's
full partitions, or to their own (`EventsAreHandled`). `Close` comes to its end but for such a circle
and one more case, a handler that waits for a topic whose listeners `Close` has already ended
(`CloseEnds`). What a failed event leaves behind is the work of handlers whose `Rollback` does nothing,
handles again or failed itself (`AllOrNothing`): so it is for every handler within the logging
interceptors and for every mutator.

*Both buses implement one promise* (`ImplementsDelivery`). What a bus has accepted on a lane, a stream of
the in-process bus or the Kafka partition, it concludes one event after the other in that order, where
concluding is being done with the event in the one and handling it, giving it up or refusing it for the
first time in the other. `HandledInOrder` is about what each goroutine publishes, in the order it does so;
this is about the one order in which a partition accepts the events of all of them, and it holds too
when a `Rollback` publishes again. Skipping is allowed to Kafka only while the group has no committed
offset, and to the in-process bus never.

*Kafka.* The deployments of run `kafka`: a deduplicator and an error function; neither, as by default,
both with two events that have handlers; a before function alone, and an event that does not
decode; all three, with an event that has no handler and one that does not decode. Marking a message moves
the offset past earlier ones that were left unmarked: those are not delivered again.
`OnlyFailuresArePassedOver` states what that leaves of a promise. A message below the committed offset was
handled or needed no handling, or failed, or was marked because a before function refused it and asked for
that, or is older than a session that started without an offset; neither crashes nor rebalances nor
repeats pass over any other. A subscriber with an error function has reported each failure. Without one, the
default, a failed message is passed over and nobody hears of it: the property names this loss, and does
not exclude it. `HandledOnce` and `VisitedIsHandled` hold
with a deduplicator up to the windows the code has, between `HasVisit` and `SetVisit`: two members at
work on an event at a time, and a visit that was not recorded. A `Publish` before `Connect` returns nil
and sends nothing (`answer` is "unsent"); what is reported as sent over a connection arrives
(`EventsArrive`).

*Kafka life cycle.* `Listen` may receive from a later session's channel, and what it returns is
true nevertheless (`ListenTellsTheTruth`). Two weaknesses remain and are part of the model's
properties as exceptions: an error before `Listen` waits is dropped and `Listen` waits for ever
(`unheard`), and an error after `Setup` ends the process with a send on a closed channel (`panic`).

*Command buses.* Over all three a call takes effect at most once and its reply carries the version its
own call stored (`ImplementsCommandService`), although the nats server's mark of an error is set on the
request and not sent back: an error's text does not decode as a reply. A time-out of the nats client may
be returned as neither reply nor error; a caller that takes only a reply for success still gets its
commands executed in order (`FirstExecutionsInOrder`) and only repeats what it was not answered
(`DuplicatesAreRepeats`). No identifier is remembered, so a repeat of a command that was executed
executes it again.

*Containers.* A reader accepts exactly the containers whose names and payload together reach a minimum
(8 bytes for events, 10 for commands, 22 for streams, none for replies), which an encoder does not
enforce: an event with a short name and little payload is written and cannot be read
(`LongOnesRoundTrip`). No reader takes a container of another kind (`OnlyItsOwnKind`).

Runs whose instances differ in configuration choose the configuration in `Init` (`backend`,
`deployment`, `journal`, `subscribed`, the field sizes of `Codec`), so that one run covers them all.
`CHECK_DEADLOCK FALSE` stands where the system may stop: calls that are all answered, clients that are
done, a bus that is closed or has nothing to do.

### Bounds

`MaxChanges` (events per call), `Deployment.rounds` and `.changes` (redis clients' loop), `MaxLog`
(messages of the Kafka partition), `MaxRestarts` and `MaxSessions` (Kafka sessions), `MaxCalls` and
`CommandCount` (calls and commands of `CommandBus`), the sets of calls, clients, consumers, servers and
events, and the sizes in `MCCodec.cfg` are the only bounds. `Codec` itself bounds names and payloads by
`MaxSize`, 2^31 - 1 bytes: the length has to fit the four bytes of a size field.

Two events per call tell a batch from a single event and a partly published batch from a whole one; two
streams tell a finished target from an unfinished one; two partitions, of capacity one as in the code,
with five events show full partitions, concurrent listeners, circles of one and of two; hashes that
differ only in the names of partitions are left out (`UpToNames`). Three messages of two events
hold a duplicate and a later message that moves the offset past a failed one; one session that ends
hands the partition to the other member. Three calls let one caller repeat while the other is
served, or each be at work at a time with one repeat, and a late answer of the first call come during the
second. Three sessions let `Listen` be two sessions late. The codec's sizes lie on both sides of every
threshold.

### Fairness

Safety runs have none. `RedisStorage` and `PostgresStorage` assume that every client that can work does
so in the end (weak fairness of `Work(c)`): goroutines are scheduled and the server answers. Faults
(`Fault(c)`) may happen and never have to, so no client is rescued from a wait by a failure.
A transaction that waits for a row goes on once the other has ended, and being disabled until then needs
no more than weak fairness. `ChannelBus` assumes only that some goroutine runs as long as any can
(`WF_vars(Running)`): publishers, listeners, `Listen`, and a `Close` that has begun, and nothing of the
application calling `Close` or cancelling, nor of faults. Go's `select` picks at random among ready cases;
seeing `closeSig` again while an event waits changes nothing in the model, a stutter, so the one step left
is to take the event (in Go, random choice does so with probability one). `CommandBus` assumes the
same of clients, servers and messages that are not lost; nothing has to be lost, and a broken
connection has to be noticed only when nothing is left to come over it. `KafkaSubscriber` assumes that
the publisher goes on, that the group gives an unowned partition to some member, and that a member
works on or notices the end of its session; sessions need not end and nothing has to fail.
`KafkaListen` assumes that `Listen` and its goroutine run and that joining the group ends one way or
the other.

## 4. The proofs

Every invariant, every action property and every refinement that the passing runs check is a theorem
here; liveness is left to TLC. The types of the redis and postgres storages are theorems only, no run checks
them: they add nothing to those of the streams, which run `mutator_lifecycle` checks. The assumptions on constants are those
of the models, which TLC evaluates in the runs; a theorem with a hypothesis of its own says so.

All of `MutatorProofs` holds for any set of calls, streams, controllers and pickers, any `MaxChanges`, and
any of the three backends, from `ConstantsAssumption` of `Mutator`; only its last theorem has a hypothesis.

* `TypeCorrect`: `Spec => []TypeOK`. `TypeOK` is not inductive, since `Head(todo[d])` needs a target;
  `TypeInv` adds `HasTarget`. `StreamsProofs` has the types of the stream operators.
* `UpdatesAreKept` and `HistoriesAreContiguous`: `Spec => []NoLostUpdate`, `Spec =>
  []HistoryIsContiguous`. Neither is inductive. `HistoryInv` adds `CopyIsConsistent` (what a call
  holds between load and persist), `OwnEvents` (a stream's state holds its own events only) and
  `PersistsChanges` (nothing is persisted without changes, so a stored version grows). The heart is
  `MatchedVersion`: each backend's comparison, the in-memory one for streams never dropped, implies
  that the stored version is the loaded one; then, by `CopyIsConsistent`, the stored history is the
  copy without its own changes, so storing the copy adds exactly those (`HistoryStored`). Other calls'
  copies stay consistent because the version has grown past the one they loaded.
* `OnlyCommittedIsPublished`: `Spec => []PublishedIsCommitted`, from `PublishInv`, which adds that a
  call in its publish phase has its changes stored.
* `CopiesAreConsistent`: `Spec => []CopyIsConsistent`, a conjunct of `HistoryInv`.
* `NothingIsLostSilently`: `Spec => []NoSilentLoss`. `LossInv` adds `ChangesInv` (a call's changes are its
  own, numbered on from the loaded version), `PendingUntilDone` (a call has a result only when done) and
  `SentInOrder` (what a publishing call has sent is the first part of its changes). An event that is
  stored and not published then belongs to a call that still publishes it, or whose publishing, or
  whose persist's answer, failed.
* `EventsArePublishedOnce`: `Spec => []PublishedOnce`. `OnceInv` adds `Unsent` (what a publishing call has
  still to send is not on the bus) to `Once`; that different calls never publish under one version
  comes from `HistoryInv`, through the numbering of the stored history.
* `ReplyVersionsAreCommitted`: `Spec => []ReplyVersionIsCommitted`. The reply's version is taken before
  `Persist`; `ReplyInv` says, place by place in the sink, why it is then a stored one: nothing was
  changed and it was loaded (`Quiet`), or the changes up to it have been stored (`Backed`), and
  every stored version is some stored event's (`Sourced`).
* `MutatorImplementsEventSourcing`: `Spec => ImplementsEventSourcing`, if `NothingIsDropped`: over the
  in-memory storage no controller is registered with a drop. A dropped stream starts again at version 1,
  which no append-only log does; redis and postgres ignore `Drop`. `LogInv` joins `HistoryInv`,
  `ChangesInv`, `PublishInv` and `OnceInv`, and adds that nothing was dropped (`NoDrops`) and that a call
  has at most a batch of changes (`FewChanges`). A persist that takes effect is then an `Append` of the
  call's changes, numbered on from the end of the stream's log (`PersistAppends`), a publication a step
  of the feed (`PublishPassesOn`), and every other step of a call a stutter.

`RedisStorageProofs`, for any clients, deployments and batches:

* `TypeCorrect`; `AcknowledgedStays`: `Spec => []AcknowledgedIsKept`; `PersistComparesVersions`: `Spec =>
  StoredOnItsVersion`; `PersistIsOneStep`: `Spec => PersistIsAtomic`. `StoreInv` says that the two keys
  agree (`KeysAgree`), that a client's copy is a stored history with its own changes (`CopyAgrees`), and
  that a client that has compared and whose watch is untouched still faces the version it compared
  (`Compared`). The last three theorems assume `Harmless`: where a GET may fail, no client creates the
  stream. A failed GET reads as version 0, which is then no client's; without the assumption they
  are false, and `redis_get` is the counterexample.

`PostgresStorageProofs`, for any clients and batches, journal or not, with every fault of the model:

* `TypeCorrect`; `TablesStayInStep`: `Spec => []RowsAgree`; `PersistIsOneStep`: `Spec => PersistIsAtomic`.
  `StoreInv` says that the committed tables agree (`TablesAgree`), that a client's copy is a stored
  history with its own changes (`CopyAgrees`), what an open transaction has written at each of
  its statements (`WrittenAgrees`), and that at most one has written the version row (`OneHolder`),
  so that what it compared is still there when it commits. That the outbox is empty follows from
  `WrittenAgrees`: a transaction deletes its own rows before it commits.
* `JournalRestoresStream`: `Spec => []JournalReplays`. `JournalInv` adds that the journal's rows are the
  stored events (that is what makes it a journal: a transaction writes each change to it, and stores all
  or none), how many changes an open transaction has appended at each statement (`Journalled`), and that
  every version up to the stored one is some event's, and one's only (`EachVersionOnce`), without which a
  replay would have gaps or a choice. `ReplayedIs` computes the replay up to a version; the prover has no
  induction over data, so it takes the least version at which the replay would be wrong, and the
  recursive equation is met by giving the function it defines.

`ChannelBusProofs`, for any topics, partitions, streams, publishers, events and handlers, any assignment
of streams to partitions, from `ConstantsAssumption` of `ChannelBus` and, for the order,
`EventsAreNumbered`: the events of a publisher, and those that an event makes its first handler publish,
carry its name and rising numbers, which is how the property `HandledInOrder` tells what was published
first. Nothing in the code depends on these labels.

* `TypeCorrect`: `Spec => []TypeOK`. `TypeInv` adds that a partition is empty or holds one event, of a
  stream that hashes to it (`OneEvent`), and that a listener at work is at a handler that matches its
  event, which came from its own partition (`AtHandler`). That `wg` is never negative needs `LifeInv`.
* `ListenReturnsLast`: `Spec => []ListenOutlastsListeners`. `LifeInv` has the count that the wait group
  keeps (`WaitGroup`: the number of topics until `Close` returns, one less from then on, when all listeners
  have exited) and which goroutines can run when (`Goroutines`).
* `CloseDrains`: `Spec => []DrainedOnClose`. `DrainInv` says where an event is that was accepted before
  `Close`: handled, in a listener's hands, or in the partition of a listener that has not exited
  (`Pending`). A listener that sees its partition closed exits only when it is empty, and a partition
  accepts nothing before `Close` that its listener will not take.
* `StreamsInOrder`: `Spec => []HandledInOrder`, if `NoneHandlesAgain`: no event that is published while
  another is handled is published again by a `Rollback` that calls `Handle`, as the logging interceptors
  do. Such a `Rollback` has the same events published a second time, and what their order is
  then is not defined. `OrderInv` orders an event's whole way: what is still to be published comes after
  all that was sent (`PublisherOrder`, `EmitterOrder`), what a partition holds after all that was
  received (`PartitionOrder`), what is being handled after all that was handled (`ListenerOrder`); all per
  stream and goroutine. It rests on one listener per stream (`OneListener`), and on a handler having
  published nothing before its event was received (`CauseOrder`).
* `HandlersSettle`: `Spec => []AllOrNothing`, under the same hypothesis, by which a listener receives an
  event once, with nothing of it in effect yet (`Untouched`). `EffectInv` follows the listener through the
  handlers: on the way forth, those before the current one are in effect and no others; on the way
  back, those after it have been undone or cannot be (`InPlaceSoFar`). Run `channel_rollback` checks the
  property also where the hypothesis does not hold.

* `ChannelBusImplementsDelivery`: `Spec => ImplementsDelivery`, with no hypothesis about rollbacks.
  `HandInv` says that a listener is at a handler only while it has an event in hand, or when the process
  has ended. With the type invariant's `OneEvent` and `AtHandler` this gives what each step does to what
  was accepted (`Accepted`: handled, in hand, in the partition, joined in this order): a send appends to
  it (`SendAccepts`), the end of an event moves it from the second or third part to the first without
  changing the whole (`DoneConcludes`), so does taking it up from the partition (`TakesUpStays`), and all
  other steps leave it alone (`LaneOfStep` has the cases).

`KafkaProofs`, for any members, events, handlers and bounds, any configuration, from
`ConstantsAssumption` of `KafkaSubscriber`:

* `TypeCorrect`: `Spec => []TypeOK`; `TypeInv` splits it by the part of the system, and adds that no offset
  and no member is past the end of the log.
* `OnlyFailedMessagesArePassedOver`: `Spec => []OnlyFailuresArePassedOver`. `LossInv` adds that every
  member has all messages accounted for that it is past, and all up to the one it has marked: what is
  committed is what some member has marked, maybe long after it lost the partition. `HeardInv` adds that,
  with an error function, what has failed was reported, and so was the message whose handlers are being
  rolled back; reports are never taken back (`ReportsStay`).
* `VisitedEventsAreHandled` and `EventsAreHandledOnce`: `Spec => []VisitedIsHandled`, `Spec => []HandledOnce`.
  `WorkInv` says that a member that works alone on an event is undisturbed (`Undisturbed`: the event is
  not visited, the handlers before the current one are in effect, and all of them when it records the
  visit), and that an event handled once is visited or about to be recorded (`Counted`).

* `SubscriberImplementsDelivery`: `Spec => ImplementsDelivery`. The messages concluded so far have a last
  one (`LastConcluded`, a maximum, which needs `DeliveryInv`: none is past the end of the log). By
  `LossInv` a member is past nothing that was not concluded, so the message it is at is at most the next
  one (`NextToConclude`): to conclude it is the abstract step, or repeats one and is a stutter. Once an
  offset was committed it stays so, and no session skips (`ConclusionOfStep`).
* `ListenIsTruthful`: `Life!Spec => []ListenTellsTheTruth`, where `Life` is an instance of
  `KafkaListen` over the variables of `KafkaListenState`, for any number of sessions and functions. `ListenInv` says
  which channels are closed at each place of the goroutine: the current one exactly while a session is
  on or has ended, the earlier ones always.

`CommandBusProofs`, for any callers, servers, commands and numbers of calls, any of the three buses, from
`ConstantsAssumption` of `CommandBus`:

* `CommandBusesImplementService`: `Spec => ImplementsCommandService`. `BusInv` is `BusType` and, for each
  call, its `Course`: no effect before a server has it, what a reply under way says is true, and nothing
  happens to a call after its reply. Each step is then a step of `CommandService` or a stutter
  (`ServiceMakes`, `ServiceTakesEffect`, `ServiceAnswers`, and lemmas for the steps the service is
  unaware of).
* `TypeCorrect`: `Spec => []TypeOK`. That no caller numbers a call beyond the bound takes a count: the
  calls made are a finite set that contains all the caller's own (`RoomForACall`).
* `CommandsInOrder`: `Spec => []FirstExecutionsInOrder`. `CallerInv` says what a caller's goal has to do
  with the replies it has (`Asked`, `RepliedOnce`), `LogInv` that a command left behind was executed
  (`LeftBehindIsExecuted`) and that no call is in the log twice (`EachCallOnce`).
* `DuplicatesAreDueToRepeats`: `Spec => []DuplicatesAreRepeats`, from the same invariants: different
  executions of a command come from different calls of it, all but one of which were answered with
  nothing or an error (`OneNotFailed`), so there is an injection between the two sets.

`CodecProofs`, for any sizes of names from 1 and of payloads from 0 up to `MaxSize`:

* `LongContainersRoundTrip`: `Spec => []LongOnesRoundTrip`. The size of a container is the sum of the widths
  of its chunks, a recursive function; each kind has a fixed number of chunks, so `SizeIsASum` unfolds it
  step by step, once it is known that such a function exists (`SumsExist`, by the least number for which
  it would not). From the four sums, `LongEnough` says when a reader's minimum is met: exactly when names and
  payload have the bytes that the property asks for. `ReadsAreAligned`: the reader's widths, computed from
  size fields in its own order, are those of the chunks as written, for each kind.
* `KindsAreToldApart`: `Spec => []OnlyItsOwnKind`, since no two kinds start with the same number
  (`MagicTellsKinds`) and every reader starts with it.

Model-checked only: liveness (`EveryoneStores`, `EveryoneReturns`, `CloseEnds`, `EventsAreHandled`,
`EventsArrive`, `ListenReturns`, `EveryCallReturns`), which is outside what the prover supports; the two
violations, which are single behaviours; and `HandledInOrder` and `AllOrNothing` where a `Rollback` has a
handler publish its events again, which run `channel_rollback` covers for the latter.

## 5. Not modelled, and the plan

Not modelled: generated code, mocks, examples, deployment files, metrics and log output; the hash
function's arithmetic; `Subscribe` during `Listen` and overlapping `Close` calls of the in-process bus
(unsynchronised writes in the code); a caller's own transaction in the context of postgres (the key is
private, so none can be passed); schema creation; hooks of the command buses and their TLS and address
configuration; several Kafka partitions, between which consumers share nothing but the
deduplicator; a projection's strict mode, which no bus reaches since it calls `Match` first. Bus and
mutator are not composed step by step: their product is out of TLC's reach, so a handler that
publishes stands for the mutator in `ChannelBus`, and a log for it in `CommandBus`.

What could come next: `Subscribe` during `Listen` and overlapping `Close` calls, whose unsynchronised
writes need the outcomes of a data race as choices; several Kafka partitions over one deduplicator; and
the mutator as a handler of the bus, with the storage reduced to `EventSourcing` and the bus to
`EventDelivery`, which is small enough for TLC.

## 6. Running

    tlc -config MCMutatorLifecycle.cfg MCMutator
    tlapm MutatorProofs.tla

Each run takes from a second to three minutes on two workers.
