# A verification of cloud-ramp

cloud-ramp is a WebSocket server, written in Go, that runs users' WASM modules
for the connections of a *room*. Several server processes (nodes) share Redis,
for rooms, pub/sub and rate counts, and Firestore, for logs, billing and data.
This directory holds TLA+ specifications of the parts of the server where
goroutines, nodes and failures meet, the TLC runs that check them, and proofs.
Paths below are relative to `src/`.

## The system

| Component | State | Operations | What is hard |
|---|---|---|---|
| Connection lifecycle, `internal/server/server.go` | two goroutines for a connection, its id | `handleConnection`, `handleExternalMessages`, `onConnectionClose` | no order between the goroutines; errors in the middle of a setup; deadlines |
| Channel registry, `internal/comm/comm.go` | `commMap`, `CommRoom.conns`, channels, two levels of mutexes | `InitConn`, `CloseConn`, `SendEvent`, `UserOnSameNode` | pointers and channels used after the unlock |
| Rooms, `internal/redis/redis.go`, `pubsub.go` | Redis: set of users, reconnection keys, subscriptions; each node: `roomChans`, `pubSub.userChans` | `CheckUserID`, `JoinRoom`, `LeaveRoom`, `Broadcast`, `SendMessage`, `SendCommEvent`, the fan-out goroutine | sequences of Redis commands of several nodes, failing anywhere; shared ids |
| Rate limiter, `internal/limiter`, `redis/limiter.go` | `rateMap`, `locks`, `globalMu`; Redis: counts with a TTL | `RegisterNewConnection`, `RegisterNewRequest`, `DumpConnectionRequests`, `OnDump` | lock striping over one map, several readings of a clock, expiry |
| Billing, `internal/billing` | `billing.internalMap`, atomic counters; Firestore: a document for each instance | `recordBilling`, `OnBillingDump` | double-checked insertion, counters swapped while they are written |
| Instance logs, `internal/logger/logger.go`, `firestore/logs.go` | `loggers`, files; Firestore: documents | `getLogger`, the log functions, `RemoveLogger`, `OnLogDump` | files removed while they are written, overlapping dumps |
| Handlers, `internal/handlers` | none | one for each call user code can make | they run in both goroutines of a connection |
| Start and shutdown, `cmd`, `server.Start` | a context that a signal cancels | start-up, the final dumps | hijacked connections are not waited for; the last dump needs a lock |
| Metrics, `internal/observability` | atomic counters, `events` | `ConnectionOpened`, `ConnectionClosed`, `SandboxExecution`, `MetricsHandler`, ... | counters loaded one by one while they change; double-checked insertion |
| Configuration, `internal/cfg` | constants, three atomics | `HandleConfigRequest` | the limiter's parameters change under it |
| Sandbox, HTTP endpoints, console logging | handles | | |

A connection is set up by `RegisterNewConnection`, `CheckUserID`, `InitConn`,
`JoinRoom` and the upgrade, in this order. Then user code runs (`onJoin`), the
writer goroutine starts to drain the channel of the registry and that of the
`pubSub`, and the read loop calls user code for each frame
`RegisterNewRequest` accepts. User code sends through the registry if
`UserOnSameNode` says so, else through Redis. The writer, when it ends, runs
`onLeave`, `DumpConnectionRequests`, `LeaveRoom` and `CloseConn`.

What would make each component correct:

- *registry*: no send on or second close of a closed channel; a served
  connection can be found; nothing outlives its connections; a message reaches
  only its addressee; nobody waits for ever;
- *rooms*: those served are members and fanned out to, the others are not;
  subscriptions end; an id stays with its client; messages come in order, once;
- *limiter*: the limit holds in every window; windows do not overlap; counts
  expire; locks are released; the map is not written concurrently;
- *billing*: every operation is billed once, and in the end;
- *logs*: every line is sent once, and in the end;
- *connection*: what is taken in one component is given back, whatever fails;
  the gauge of open connections does not drift; a connection ends when its
  client goes or when it is told to;
- *process*: a shutdown ends;
- *metrics*: no event is lost, and a page agrees with itself and with the last.

`PROJECT.json` lists the hazards behind these at their lines.

## The modules

| Module | Models | Size of a step |
|---|---|---|
| `Comm` | the registry, with the goroutines of `internal/server` and the message handlers that call it | a critical section, or a channel operation outside of one |
| `Mailbox` | what the registry promises: the abstract specification | |
| `CommProof` | theorems about `Comm` | |
| `RoomPubSub` | one room across all nodes and Redis | a Redis command, a critical section, a channel operation |
| `RoomPubSubProof` | theorems about `RoomPubSub` | |
| `RateLimiter` | the limiter of one process, with Redis and a clock | a lock operation, an access to `rateMap`, a Redis command, a reading of the clock |
| `RateLimiterProof` | theorems about `RateLimiter` | |
| `Billing` | `recordBilling` and `OnBillingDump` | an operation of the RWMutex or of an atomic, a Firestore call |
| `BillingProof` | theorems about `Billing` | |
| `LogDump` | the log files and `OnLogDump` | a critical section, a file operation, a Firestore call |
| `LogDumpProof` | theorems about `LogDump` | |
| `Server` | one process from start to shutdown, with the life of its connections over all components | a call of a component, a return of user code, a socket operation |
| `ServerProof` | theorems about `Server` | |
| `Metrics` | the counters of connections and executions, and the scrape | an atomic operation, a critical section |
| `MetricsProof` | theorems about `Metrics` | |
| `MC…` | instances of these for TLC | |

Each module names its variables after the code's, and has an action for each
step of each function. What a function keeps in local variables is kept by
connection or goroutine (`ref`, `chan`, `dst`, `local`, `ptr`, ...), and a
variable such as `pc`, `main`, `writer`, `op` or `at` says where it is. Objects
that are allocated (a `CommRoom`, a channel, a `pubSub`, a `billingInfo`, a
file) are named by the connection, call or line that allocates them, each of
which does so at most once. The `map` of `PROJECT.json` gives the lines each
definition stands for. Definitions under a comment that begins with "Mutant"
are faulty versions of the one that follows: with it replaced, the named
property fails, so the property does depend on that code.

### Comm

`commMap[k]` points to a `CommRoom`, `conns[r]` is the map of a `CommRoom`
whether it is still in `commMap` or not, `closed` and `buf` are the channels.
The global `mu` is a variable because `CloseConn` keeps it over several steps;
all other critical sections are one step. Ids come from `PossibleIds`: a new
one, or the one an earlier connection to the room left for reconnection, so
two connections that overlap can share one, as they can in the code. A
connection may fail after `InitConn` (`Abandon`), its two goroutines end
independently (`EndRead`, `Disconnect`), and both run user code. A send on a
closed channel, a panic in Go, is a state that `NoSendOnClosed` excludes; it
has no effect on the registry, so the other properties hold whether or not the
sandbox recovers from it. `Receive` includes the write to the client's socket,
which has no deadline: it may never happen, and is fair only for the
connections in `Attentive`, whose clients read.

`NeverFindsClosed`, `EmptyRoomIsTransient`, `NoGhostEntry`,
`ReaderIsAddressee` and `MailboxSpec` are what the registry does guarantee
under any sharing of ids; `NoSendOnClosed`, `ServedIsRegistered` and
`OwnChannel` are what it does not.

### RoomPubSub

`users` and `reconnect` are Redis keys, `feed` and `wire` the subscription of a
`pubSub` and what Redis sent to it, `roomChans` and `userChans` the maps of the
nodes. A `Command` of Redis succeeds, or fails with or without effect; in both
cases the function returns, and `lost` remembers that nothing will be cleaned
up. `Crash` stops a node at any time, which is also what a shutdown amounts to
for its open connections. The reconnection TTL runs out at any time. The
`Subscribe` of go-redis returns before Redis knows of it, so messages can miss
a new `pubSub`, and a cancelled one may hand out what it still has.
`lastOut` is history: who
did the `SREM` that left nobody between `SADD` and `SREM`. `LastLeaveUnsubscribes`
is about that connection's node. `MSG_JOIN_LEAVE` is false, as in `cfg.go`. Rooms share only `roomChansMu`,
which no step keeps, so one room is enough.

### RateLimiter

`rateMap` is read and written in separate steps inside of the locks, so the
effect of the locks shows. A call takes `globalMu` for reading, then the stripe
of its address; a waiting `OnDump` holds up new readers, as `sync.RWMutex`
does. Time is a counter. Functions that read the clock twice are split there:
`RegisterNewRequest` reads it to open a window and again to judge a frame over
the limit, `DumpConnectionRequests` reads it to decide and again for the time
to live, which Redis counts from the arrival of the `SET`. So a count can
outlive its window, and a frame can be accepted because the window ended while
it was judged. `Configure` is a post to `/admin/config`: it
switches `RATE_LIMIT` (connections that come while it is off are served without
an entry, and `RegisterNewRequest` makes one later) and changes the limit, up
to the constant `Max`. `RATE_LIMIT` starts on or off, as the environment says.
`LastRequest` is never read and left out. Redis counts expire with the clock,
except those that go-redis stores without expiry. `passed` and `recent` are
history: how many frames were accepted in the address's window, and since it
last registered a connection; a frame accepted because the window has ended
counts as the first of what follows.

### Billing and LogDump

`Billing` lets `count` and `bytes` stand for the eleven counters, which are
incremented and swapped alike, one after the other. `dropped` is history: what
failed dumps had swapped out. The `sync.RWMutex` is `readers`, `writer` and
`waiting`; `MapIsGuarded` says what it is for. In `LogDump` a file has a name
and an identity, so a logger can write to a file that was removed. A walk reads
the names first and then visits them by `Order`, which stands for the lexical
order; `Refused` are the names `OnLogDump` does not accept, and one of them ends
the walk. `RemoveFails` is an `os.Remove` that leaves the file where it is: the
walk ends, and the next one sends the file again. In both, the ticker
and the shutdown dump concurrently, and calls of Firestore fail with or without effect.

### Server

`Server` composes the others at the level of their calls. `held[c]` is what a
connection has taken and not given back: `rate` by `RegisterNewConnection`,
`chan` by `InitConn`, `user` and `feed` by `JoinRoom`. Whether the component
keeps it for the connection is a question of the component's own module. `main`
and `writer` are the two goroutines; `Cleanup` is the order of the calls in
`onConnectionClose`; `sock` is the socket, seen from either end, with the
context of the connection, which `onConnectionClose` cancels together with it.
The writer takes an event (`Deliver`), is in a write to the socket (`Writing`),
and comes back from it (`Written`) when the client reads, or is gone; a channel
of the registry that another connection has closed ends it (`ChannelClosed`).
User code returns when it likes; only a context that is done ends it for sure
(`CloseOnContextDone`), and not in a host call that does not look at that
context: `FetchHandler`, and the handlers of the database, which ask Firestore
with `context.Background()` (`HostCall`, `calling`). A `Read` may
find a frame that was sent before the client went. `kept` says that a
`RegisterNewConnection` has failed and kept its locks, which is what
`RateLimiter` finds: then calls of the limiter may never return. Shutdown waits
for handlers that have not hijacked their connection, or for fifteen seconds.
The connections in `Conns` are followed; every other one, of this process or
another, is `Other`: it may publish any event and keep the locks of the
limiter at any time.

### Metrics

`Metrics` has the two counters of connections, the map `events` with its
double-checked insertion, and a page that a scrape fills line by line. An
`eventStats` is named by the call that allocates it. A duration counts as 1.

## The runs

The runs that pass:

| Run | Question | Bounds |
|---|---|---|
| `comm_messages` | closes, shared ids, empty rooms, messages over stale pointers, refinement: `NeverFindsClosed`, `EmptyRoomIsTransient`, `NoGhostEntry`, `ReaderIsAddressee`, `MailboxSpec`, the inductive `IInv`, `TypeOK` | 3 connections, 2 of them in one room, 1 sender, channels of 1 |
| `comm_live` | `CallsReturn`, `ClosedChannelEndsConnection` under fairness | 2 connections, both goroutines of one send, the client of the other reads |
| `room` | `FannedOutIsOpen`, `LiveIffRegistered`, `MembersArePresent`, `IdentityStaysWithIp`, `LastLeaveUnsubscribes`, `InOrderOnce`, `TypeOK` | 3 connections, 2 clients, 2 nodes, failures, crashes, losses; 2 messages, sent before the third connection comes (the constraint `MessagesAmongTwo`) |
| `limiter_limit` | `LimitSinceConnect`, `WindowsDoNotOverlap`, `LocksExclude`, `TypeOK` | 2 connections of an address (alike: `SYMMETRY`), limit 1, 2 frames, the clock from 1 to 3, a window of 1, 1 change of the configuration, which starts either way, failures |
| `limiter_live` | `CallsReturnUnlessKept`: a call waits for ever only behind the locks of a failed `RegisterNewConnection` | 2 connections, 1 frame, 1 tick, failures |
| `billing` | `BilledOnce`, `MapIsGuarded`, `TypeOK`; `EverythingIsBilled` under fairness | 2 calls, 1 instance, 2 dumpers, 1 failure |
| `logs` | `LoggersWriteToTheFile`, `SentOnceByEach`, `TypeOK`; `EveryLineIsSent` under fairness | 3 lines, 2 files of which the first is refused, 2 dumpers, 2 failures |
| `server` | `ServedIsKnown`, `ClosedIsForgotten`, `GaugeCountsOpen`, `TypeOK`; `CloseEnds`, `CleanupEnds`, `ShutdownEnds` under fairness | 1 connection and the others, 2 events |
| `metrics` | `NoExecutionForgotten`, `PageIsConsistent`, `CountersGrow`, `TypeOK` | 1 connection, 2 executions of a type, 2 scrapes |

Why these bounds: the interferences are between two parties, one of them in the
middle of an operation (a closer and a joiner, two holders of an id, two
dumpers), and a third is there to change what they share once more (to empty a
room that was just filled, to take a place in it, or to hand an id on twice). A
connection, call or line is never used again, so their number bounds a run.
In `billing` two calls are enough to insert the same entry twice, and to find
one that is there. Channels of one event make every second one overflow. In
`limiter_limit` the clock ends two windows, at any point of any
function, and a change switches the limiter off or on between any two steps. In
`logs` the refused file is the first of the walk, so it keeps the other from
being sent while it is there, and as its line is written at any time or never,
it is also absent; two failures keep a file once for each dumper. In `room` the
two connections that exchange messages have the same client address and node,
so they can share an id; two messages can be lost, overtake and be doubled. In
`server` connections meet only in `kept`, in the events and in `EndShutdown`,
which `Other` and a deadline stand for; an event that ends the service can be
behind another one. The safety properties of `server` were also checked with
two connections. In `metrics` two scrapes are needed to see a counter shrink.
The clock, frames, messages, scrapes, changes and failures are bounded by
constants (`MaxTime`, `MaxFrames`, `MaxMsgs`, `MaxScrapes`, `MaxPosts`,
`MaxFailures`) in the guards.

Deadlock checking is off: each model comes to rest when its connections are
over, and where waiting for ever would be wrong a liveness property says so.

The runs that fail show where the code does not do what its documentation
says. Each is a finding in `PROJECT.json`, with the line that it contradicts:

| Run | What the counterexample shows |
|---|---|
| `comm_send_on_closed` | `SendEvent` fetches a channel, `CloseConn` closes it, `SendEvent` sends: a panic |
| `room_deaf_joiner` | a connection joins between the `SCARD` of the last user and the cancellation of the `pubSub`: it hears nothing |
| `server_client_gone` | the client goes and the read loop returns, but the writer waits for a message: `onLeave` is not called, the connection stays in every component |

### Further disagreements

The modules state more that the documentation says and the code does not do.
These have no run of their own; each can be seen by adding the property to the
configuration named here, with the changes given.

| Property | Configuration | What the counterexample shows |
|---|---|---|
| `ServedIsRegistered` (`Comm`) | `comm_send_on_closed` | `InitConn` finds a room, `CloseConn` empties and deletes it, and the connection cannot be found (`comm.go:132`) |
| `OwnChannel` (`Comm`) | `comm_send_on_closed`, `Conns = {c1, c2, c3}`, `Talkers <- Nobody` | two connections with one recovered id compete for the messages of one channel, though README:19 has `InitConn` "Initialize a new "comm channel" for the connection" |
| `ServedIsMember` (`RoomPubSub`) | `room_deaf_joiner` | the `DEL` of the last user erases one who has just joined (README:23) |
| `EmptyRoomHasNoSubscription` (`RoomPubSub`) | `room_deaf_joiner`, `Nodes = {n1, n2}`, `NodeOf <- Apart` | the last user of a node leaves before users of other nodes: the node stays subscribed (`redis.go:123`) |
| `CallsReturn` (`RateLimiter`) | `limiter_live` | a Redis error in `RegisterNewConnection` leaves both locks held; the next `OnDump` waits for them, and every call waits for it |
| `LimitPerWindow` (`RateLimiter`) | `limiter_limit`, `Max = 2`, `MaxFrames = 3`, `MaxPosts = 0`, `MayFail = FALSE` | a second connection resets the count of an address to the older one in Redis (`limiter.go:123`) |
| `CountsExpire` (`RateLimiter`) | `limiter_limit` | `DumpConnectionRequests` reads the clock again for the TTL; at the end of the window it is not positive, and the count is stored for ever (README:35) |
| `DumpClearsDisconnected` (`RateLimiter`) | `limiter_limit`, without `SYMMETRY` | an address whose connection was refused or failed stays "connected", and in `rateMap` (`limiter.go:50`) |
| `NoConcurrentMapWrite` (`RateLimiter`) | `limiter_limit`, with two addresses (`OwnIp`) of two stripes (`OwnStripe`), without `SYMMETRY` | two goroutines write one Go map |
| `EveryFileIsSent` (`LogDump`) | `logs` | a file with a name `OnLogDump` refuses keeps those behind it from being sent (README:64) |
| `NoLineIsLost` (`LogDump`) | `logs`, `MaxFailures = 0` | a line logged between reading and removing its file is lost (README:63) |
| `RejectedIsForgotten` (`Server`) | `server` | an error of `JoinRoom` or of the upgrade leaves the channel, the user and the feed of a connection that was never served, in a set that "represents all current users within a room" (README:23, `server.go:237-251`) |
| `ShutdownWaits` (`Server`) | `server` | `Shutdown` does not wait for hijacked connections, and returns while they are served (README:53) |
| `SelfCloseEnds` (`Server`) | `server` | a `CLOSE_CONNECTION` to oneself is dropped by the filter on `SrcConn` |
| `JoinEnds` (`Server`) | `server` | an `onJoin` that does not return: no writer, no cleanup, no deadline |
| `ErrorsAmongExecutions` (`Metrics`) | `metrics` | `executions` is loaded before `errors`: a page can show more errors than executions |

No model is needed to see that nothing calls `ConnectionError`, so the
counter of connection errors stays at zero.

### Fairness

- `Comm`: calls in progress go on, since goroutines are scheduled and
  `sync.Mutex` hands itself to a waiter that starves (strong fairness of the
  steps that lock). A writer goes back to its channel only if its write to the
  socket returns. The code sets no deadline for it, so that is assumed only of
  connections in `Attentive`: their clients read what they are sent, or are
  gone and TCP gives up on them. Clients and user code owe nothing: they need
  not connect, read, send, leave or return.
- `RateLimiter`: the same for its locks; a call of Redis returns, with an
  answer or an error. Frames, closes, the ticker and time are not fair.
- `Billing`, `LogDump`: a call or dump that has begun goes on, a call of
  Firestore ends (its context has a deadline), and the ticker ticks for ever.
- `Server`: goroutines are scheduled, the server's own calls of Redis and
  Firestore return, deadlines pass; calls of the limiter return unless its locks
  were kept, which is what `CallsReturnUnlessKept` establishes. A writer that is in its `select`
  again and again takes an event that is there: Go picks among the ready cases
  at random (strong fairness of `Deliver`). A write to the socket returns only
  if the client is gone; one that is there and does not read keeps the writer
  for ever, which is the exception in `CloseEnds`. User code whose context is
  done ends, except in a host call that ignores the context. Clients, user
  code, these host calls and signals owe nothing.

## The proofs

`CommProof` proves, for all sets of connections and rooms, every assignment of
connections to rooms, every set of senders and every `ChanSize` above zero
(`CommAssumption`):

- `Invariance`: `Spec => []IInv`;
- from it `TypeCorrect`, `ChannelsFoundAreOpen`, `LastOneOutPrunes`, `NoGhosts`
  and `MessagesReachTheirAddressee`, each of them a property the runs check;
- `ImplementsMailbox`: `Spec => MailboxSpec`, the refinement of `Mailbox`.

None of the safety properties is inductive. That a channel found in a map is
open, say, depends on which channels are in which map. `IInv` adds, besides the
types:

- `ConnInv`: what a connection holds at each point of its life;
- `MutexInv`: what the holder of `mu` has looked up is still what `commMap`
  says; without it `CloseConn` could delete a room it did not empty;
- `RegistryInv`: rooms in `commMap` were made for their key, channels in a room
  for its key and their id; they are open, and in one place only. That makes
  a second `close` impossible;
- `PointersInv`: what the local pointers of a handler point to has the sender's
  room and the id it sends to, even if it was deleted meanwhile;
- `BufferInv`: channels hold only messages to their address.

The module has one lemma for each action, and in it a step for each conjunct
the action can disturb; `Invariance` puts them together. The refinement maps a
channel to a mailbox that is open once its connection has made it, and shows
that each action is a step of `Mailbox` or stutters.

`ServerProof` proves, for every finite set of connections and every `MaxMsgs`
(`ServerAssumption`):

- `Invariance`: `Spec => []IInv`, with an `IInv` of its own;
- from it `TypeCorrect`, `ServedAreKnown`, `ClosedAreForgotten` and
  `GaugeIsExact`.

Here too no property is inductive: that a served connection has its place
everywhere says nothing about the steps before. `IInv` adds `SetupInv`, what
`handleConnection` has taken at each point, and that the writer exists from
`onJoin` on; and `CleanupInv`, what `onConnectionClose` still holds at each
point. The gauge is compared with a cardinality, which the lemmas on finite
sets change by one when a connection is upgraded or hung up. So the one
connection of the run `server` is no restriction for these properties.

`RoomPubSubProof` proves, for any nodes, addresses and connections, every
channel size above zero, any number of messages and any failures
(`RoomAssumption`):

- `Invariance`: `Spec => []IInv`;
- from it `TypeCorrect`, `NoPanic`, `NoSubscriptionLeaks`,
  `IdsKeepTheirAddress`, `NoGhostMembers`, `LastOneUnsubscribes` and
  `MessagesInOrder`.

`IInv` adds what these depend on:

- `EntryInv`: a channel is in one place of one `pubSub`, and open there; so
  `removeUser`, which closes it, also takes away the only way to it;
- `RegistryInv`: a node registers its own `pubSub` objects;
- `IdInv`: what the reconnection key of an address holds, and the id of every
  connection, was created by a connection from that address;
- `LastInv`: when nobody is in the room and nothing has failed, the connection
  with the last `SREM` is about to count the users, has found none, or its node
  has no subscription;
- `OrderInv`: messages are numbered as they are published, and what a client
  has seen, what is in its channel and what is on the way follow one another.

`RateLimiterProof` proves, for any connections, addresses and stripes, every
greatest limit and time to live above zero, and any changes of the configuration
(`LimiterAssumption`; `NoneAssumption` says that `None` is neither a goroutine
nor an entry):

- `Invariance`, `TypeCorrect`, `LocksKeepApart` and `LimitHolds`;
- `NoWindowIsForgotten`: `Spec => WindowsDoNotOverlap`, an action property.

`LocksExclude` alone is not inductive: `LockInv` says who has which lock,
including those that a failed call has left behind. `MapInv` says what a
goroutine between lock and unlock has read: the window it judges is still that
of the entry, and an entry counts at least the frames that were accepted, but
for one that is about to be counted. It holds because no other goroutine can
change that entry meanwhile, which is `LockInv`. `LeftInv` says that what
`OnDump` has yet to visit is there.

`BillingProof` proves, for any calls and instances, any finite set of dumpers
and any number of failures (`BillingAssumption`; calls and dumpers are
different goroutines): `Invariance`, `TypeCorrect`, `EachIsBilledOnce`
(`[]BilledOnce`) and `MapHasOneWriter` (`[]MapIsGuarded`). `MapInv` says that
the entry of an instance is never replaced, so a call adds to the
`billingInfo` the dumps swap; `TakenInv`, that a dump has swapped out nothing
it would overwrite; `LockInv`, that the lock is held where the map is used.
What the dumps carry is stated as a cardinality, of a set with an element for
each unit, so the proof changes it by the lemmas on finite sets and needs no
induction over a sum.

`LogDumpProof` proves, for any lines and instances, every lexical order, any
finite set of dumpers and any number of failures (`LogAssumption`):
`Invariance`, `TypeCorrect`, `LoggersAreFresh` and `SentAtMostOnceByEach`.
`LoggersWriteToTheFile` is inductive with the types. `SentOnceByEach` is not:
`SendersInv` says that each document with a line is paid for by a dumper that
cannot send it any more, or by a failure of Firestore or of `os.Remove`. The
bound is a sum over the dumpers, since a failure can make any of them send a
file again. It needs `FileInv`, on what a file has, and `HandInv`, on what a
dump has read.

`MetricsProof` proves, for any finite sets of connections and calls, any event
types and any number of scrapes (`MetricsAssumption`): `Invariance`,
`TypeCorrect`, `EveryExecutionCounts`, `PagesAreConsistent` and
`CountersOnlyGrow`. `ConnInv` and `CallInv` say that a counter is the number of
calls that have added to it, so the order of the additions keeps the counters
in order; `PageInv`, that what a scrape has loaded was true once and counters
have grown since, so the order of the loads does the same for the page.

So every safety property that a passing run checks is also a theorem, and the
bounds of those runs restrict none of them. The assumptions hold of the
program: goroutines, connections and calls are finitely many and distinct,
sizes are positive constants of `cfg.go`, and file names are totally ordered.
`Max` is the greatest limit ever set; it is at least the 1000 of `cfg.go:103`,
and a post may still set the limit to zero.

Only model-checked: liveness (`CallsReturn`, `ClosedChannelEndsConnection`,
`CallsReturnUnlessKept`, `EverythingIsBilled`, `EveryLineIsSent`, `CloseEnds`,
`CleanupEnds`, `ShutdownEnds`), because what fairness gives is stated with
`ENABLED`, which the prover does not treat. The properties the code violates
are shown by TLC's counterexamples.

## What is not modelled

- `GetRoomConnections`, `GetEventChan`, `GetAllUsers`, the data of rooms in
  Redis and Firestore: reads, or single commands of a library.
- The sandbox: a library outside of the repository. Its effect, user code that
  calls handlers in both goroutines of a connection, is in `Comm` and `Server`.
- Metrics that are added to and loaded alone, endpoints, console logging and
  with it `LOG_LEVEL`: independent atomics or output.
- The bytes of a frame: the read loop and the writer both write to a socket.
- A listener that fails to start: the process then waits for a signal.
- Keys: `GetRoomKey` joins two names by a colon, so different rooms can have
  the same key. Rooms are taken to be different here.
- Months in billing: there is one document for each instance.

## Plan

Done: all modules above, and proofs of every safety property that holds. Next,
in this order:

1. Abstract specifications of `Billing` (a ledger that each operation and each
   dump change once) and of the locks of `RateLimiter`, with proofs that the
   modules implement them, as `Comm` implements `Mailbox`.
2. A message from handler to client over the registry or Redis, composing
   `Comm` and `RoomPubSub`; billing with months.
