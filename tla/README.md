# ZHttpServer in TLA+

ZHttpServer is an HTTP/1.x server library in C++17 on top of muduo, with
connection pools for MySQL and Redis, sessions, a router, middlewares, TLS, and
zlog, an asynchronous logger. This directory models the parts of it that have
state worth arguing about, checks the models with TLC on small instances, and
proves with TLAPS, for all instances, the invariants that TLC checks on the small ones:
those of the pools, the HTTP and the TLS connection, request handling, both session
storages, the loggers with their message pool and files, and the looper, and that the pool
and the looper implement their abstract specifications.

`PROJECT.json` is the index: components, runs, the definition-to-source map, the
mutants that show what each property is able to see, the hazards and the findings.

## 1. The system

### Components

| component | state | operations | how it is used |
|---|---|---|---|
| `MysqlConnectionPool`, `RedisConnectionPool` | `connections_` (a queue), `initialized_`, `mutex_`, `cv_`, a detached checker thread | `init`, `get_connection`, the deleter of a borrowed connection, `check_connections`, destructor | singletons, called from every I/O thread |
| `MysqlConnection`, `RedisConnection` | the driver's link, a mutex each | `ping`, `reconnect`, `cleanup`, commands | borrowed from the pools |
| `HttpServer` | callbacks, router, chain, `ssl_connections_` | `on_connection`, `on_message`, `on_request`, `handle_request`, `send` | muduo calls it in the I/O loop of a connection |
| `HttpContext` | `state_`, `request_` | `parse_request` and its parts, `reset` | one on every connection, kept between requests |
| `HttpRequest`, `HttpResponse` | headers, body, keep-alive, origin | accessors, `append_buffer` | values |
| `Router` | two tables of exact, two lists of dynamic routes | `register_*`, `route` | filled at start-up, read by requests |
| `MiddlewareChain`, `CorsMiddleware` | the list of middlewares, a configuration | `process_before`, `process_after`; `before`, `after` | called by `handle_request`, may throw responses |
| `SessionManager` | `session_storage_`, `rb_mutex_`, `rng_` | `get_session`, `update_session`, `destroy_session`, `cleanup_expired_sessions` | called by request handlers |
| `DbSessionStorage` | none of its own: Redis hashes with a time to live | `store`, `load`, `remove`, `clear_expired` | every call borrows a Redis connection |
| `InMemoryStorage`, `Session` | a map of shared `Session` objects | the same four | the default storage |
| `SslConnection`, `SslContext`, `SslConfig` | handshake state, two memory BIOs, the decrypted buffer | `handshake`, `on_read`, `send` | between muduo and `HttpServer` when TLS is on |
| `AsyncLooper`, `Buffer` (zlog) | two buffers, `mutex_`, `condPro_`, `condCon_`, `stop_` | `push`, `threadEntry`, `stop` | producers are all threads that log, one worker |
| `MessagePool`, `FreeList` (zlog) | slots and a free list, a condition variable | `alloc`, `dealloc` | every log call |
| `Logger`, `SyncLogger`, `AsyncLogger`, sinks (zlog) | a mutex each, open files and their sizes | `log`, `rollOver` | every log call |
| `Formmatter` and its items (zlog) | the parsed pattern, a cache of formatted times per thread | `parsePattern`, `format` | every log call |
| `LoggerManager` and builders (zlog) | the registry of loggers | `addLogger`, `getLogger` | filled at start-up |
| levels, helpers, example, tests, build files | none | | |

### How they interact

```
 client ── muduo TcpConnection ── [SslConnection] ── HttpServer::on_message
                                                       │ HttpContext::parse_request
                                                       ▼
                                                   on_request ── handle_request
                                                       │   MiddlewareChain, CorsMiddleware
                                                       │   Router ─ handler ─ SessionManager
                                                       ▼                        │
                                                     send                DbSessionStorage
                                                                                │
                            MysqlConnectionPool          RedisConnectionPool ◄──┘
 everything ── Logger ── MessagePool ── AsyncLooper ── sinks
```

The server has several I/O threads. One connection belongs to one of them, so its
callbacks never overlap; what the threads share are the pools, the session
storage, `ssl_connections_`, the loggers and, less visibly, whatever is `thread_local`:
OpenSSL's error queue and the formatter's cache belong to a thread, not to a
connection or a logger.

### What is hard here

* **Blocking and waking.** Three parts block on condition variables: the pools,
  the looper (both ways), and `FreeList`. Each uses `notify_one`.
* **Work outside the lock.** The checker works on a stale copy of the queue;
  `get_connection` pings and reconnects after the unlock; the session store is a
  sequence of Redis commands on a private copy; `stop()` notifies without the lock.
* **Failure in the middle.** A reconnect that half succeeds, a store that fails
  between commands, middlewares and handlers that throw exceptions or responses.
* **A byte stream.** The network cuts requests and TLS records anywhere and may deliver
  several at once; the parser and its context survive from one request to the next, and
  with TLS everything passes two more buffers in each direction.
* **Locks that exclude nobody.** `rb_mutex_` is held in shared mode by calls that change
  what it guards.
* **Restarts.** Log files are opened for appending; a process that is started again goes
  on where another one was killed.

The complete list, line by line, is `hazards` in `PROJECT.json`.

### What makes each component correct

* Pools: a connection is in one hand at a time; none is lost, on error paths
  either; a returned connection wakes somebody who waits; a caller is served; a
  borrower gets a usable object.
* HTTP connection: what handlers see does not depend on how the stream was cut;
  responses come in the order of requests; 400 is for malformed requests only; every
  request is answered.
* TLS: a handshake ends; no request is lost or doubled between the wire and the parser;
  a connection does not suffer from the errors of another one.
* Request handling: middlewares nest around the handler whatever throws; the route
  that serves a request follows from the registrations; the CORS header lets in
  allowed origins only.
* Sessions: calls return; no key lives for ever; a session in use is found again; a
  destroyed one is gone.
* Looper: every message is written once, in its producer's order, and before the
  destructor returns; buffers are not overrun; nobody is left asleep.
* Loggers: a message object belongs to one call at a time; a thread that waits for one
  is woken; a line is the caller's message as the pattern says; files keep to their size.

## 2. Modules

| module | models | instance and runs |
|---|---|---|
| `ResourcePool` | what a pool promises (abstract) | checked and proved as the property `ImplementsResourcePool` |
| `ConnectionPool` | the algorithm both pools share; MySQL parameters | `MCConnectionPool`: `mysql_pool`, `mysql_pool_null` |
| `RedisConnectionPool` | `ConnectionPool` instantiated with the Redis driver's behaviour | `MCRedisConnectionPool`: `redis_pool` |
| `HttpConnection` | one plain connection: client, network, `HttpContext`, `on_message`, `on_request`, `send` | `MCHttpConnection`: `http`, `http_split_head` |
| `SslConnection` | the TLS connections of an I/O thread, their clients, OpenSSL as far as the code can see it | `MCSslConnection`: `ssl` |
| `RequestHandling` | `handle_request` with chain, CORS and router | `MCRequestHandling`: `requests` |
| `RedisSessions` | `SessionManager` over `DbSessionStorage`, Redis and the pool | `MCRedisSessions`: `sessions`, `sessions_deadlock` |
| `MemorySessions` | `SessionManager` over `InMemoryStorage`, with `rb_mutex_` and `rng_` | `MCMemorySessions`: `memory` |
| `LogChannel` | what an asynchronous logger promises (abstract) | property `ImplementsLogChannel` |
| `AsyncLooper` | the looper with its two buffers | `MCAsyncLooper`: `looper` |
| `MessagePool` | the buckets of message objects and their free lists | composed into `Logging` |
| `Logging` | loggers, formatter and rolling files over `MessagePool`, with restarts | `MCLogging`: `logging` |
| `ConnectionPoolProofs`, `HttpConnectionProofs`, `SslConnectionProofs`, `RequestHandlingProofs`, `RedisSessionsProofs`, `MemorySessionsProofs`, `AsyncLooperProofs`, `LoggingProofs` | the theorems about the module of that name, see 5; the last one is also about `MessagePool` | |

Definitions whose comment starts with *Mutant* are not part of any specification:
each is a definition of the model with a plausible bug, and replacing the original
by it breaks the property named with it in `PROJECT.json`.

### ConnectionPool

A step is one critical section, of `mutex_` or of the mutex inside a connection
object. `mutex_` is held across steps in two places, `init` and the checker's sleep
on an empty queue; the variable `mutex` says by whom. `pc` and `held` follow each
calling thread through `get_connection` and the deleter, `chk` and `toCheck` the
checker. `link` says what each connection object wraps: nothing yet (`none`), a null
pointer, a link that is down (`dead`), a live link without schema and character set
(`raw`), or a `ready` one. The server goes down and comes back, and single links
break, at any time.

What differs between the drivers is a parameter. MySQL's `reconnect` resets the link
first and configures it last, so a failure leaves `null`, `dead` or `raw`, and
`cleanup` reconnects if it meets an error. In the Redis driver the object is always
there, its `ping` re-establishes a broken link, and `cleanup` does nothing.

`Threads` are borrowers: a thread that borrows a second connection while it holds
one counts as two of them (for the deadlock this can cause see `RedisSessions`). A
borrower keeps its connection for as long as it likes, but not for ever. The
destructor of the singleton runs when no call is in progress, as at process exit.

### HttpConnection

A request is a sequence of tokens: the text of a line, a CRLF, a byte of the body. CR and
LF are one token: a cut between them has the same effect as a cut before them, no line end
is found. The wire and the buffer hold the places of tokens, `<<i, k>>` for token `k` of
request `i`, and `Token` says what is there; so a byte of a body remembers which request it
belongs to, and what the parser does depends on `Token` alone. Each iteration of `parse_request`'s loop is
a step, but the I/O loop runs one callback at a time, so nothing else of the server
runs between them; the peer's data arrives only when `on_message` has returned.
After `shutdown` the connection is half closed and continues to read, as in muduo.

`Init` chooses the client: the requests it will send (`script`), whether the network
cuts heads (`splits`) and whether it sends without waiting (`pipelines`).

`callback_` may ask for a close on its own account: `handle_request` does so for 404.

### SslConnection

`HttpServer` keeps one `SslConnection` per `TcpConnection`. `on_read` puts what arrived
into the read BIO, continues the handshake, decrypts, and calls `on_message`; each of
these is a step, but as the callbacks of a thread do not overlap, the clients move only
between two of them (`pc` is `idle`). A flight of the handshake, a record and an alert are
one message each, of two pieces that the network may deliver separately.

OpenSSL is outside the repository. What the module says of it is what the code can see:
a handshake of two flights, whose last message the client must have seen before TLS 1.3
and need not in 1.3; the newest common version is taken; `WANT_READ` when no whole
message is there; and an error queue that belongs to the thread. `SSL_get_error` looks at
that queue first. The code takes one entry out of it after a failure (`ERR_get_error`),
and OpenSSL may have put in more than one: `leaves` is how many. `Offered` is
`setup_protocal`, which switches the configured version off. A response that is longer
than a record is sent in part (`whole`), because `SSL_write` is called once in partial mode.

What `on_message` does with the buffer is reduced to taking one request out of it; how it
finds the end of one is the subject of `HttpConnection`.

### RequestHandling

Requests share only the tables, which are filled before the server starts, so one
request is enough. A path is a sequence of segments; `Param` stands for a `:name`
segment of a pattern, and the other segments of patterns contain no metacharacters
of regular expressions. Middlewares are the CORS middleware, a null pointer, or
`other`, which returns, throws an exception or throws a response in each phase. `Place` numbers the calls of the
onion from the outside in and out again, so that `Onion` is a statement about places. The
code of handlers and of other middlewares is outside the repository; they are
assumed not to change the keep-alive flag, the request's method, path and origin, or
the CORS header of the response.

### RedisSessions

Every Redis command is a step; between two of them other threads run and time
passes. A session has a set of attributes and an expiry; a hash remembers which of
its fields are there and when Redis will drop it. Time counts in ticks,
`TicksPerSecond` to the second, because `store` rounds twice: the expiry it writes
and the time to live. The Redis pool is a count of free connections, which is the
guarantee `ConnectionPool` gives. Ids are drawn fresh. A command that fails is one
that was not applied.

### MemorySessions

Handlers and the map share the `Session` objects, so `expiry` belongs to the object and
`sessions_` is the set of ids in the map. A thread is `inside` the map, or inside the
random generator, from `Enter` to the step that ends its access (`Leave`); `load` and
`clear_expired` keep an iterator between their look at a session and its erase, and stay
inside for that long (`Stay`). Two that are inside the same thing, one of them to change it,
are a data race (`Racing`): from then on (`Undefined`) a step may have no effect, a find may
miss, draws may coincide, or everything may stop (`Crash`). `raced`
remembers that it happened, and the properties speak of the behaviours in which it did
not; what they say is still a matter of interleavings, since calls overlap everywhere
outside the map: `refresh` changes the shared object without entering it, and `get_session`
removes by the id what it looked at before (`Check`, `Remove`). `forgotten` counts the live
sessions that were lost in the latter way, or with a storage that was replaced, until they
are stored again; `shared`, those of the destroyed ones that other requests had found
(`Holders`). `set_session_storage` is the one call that excludes the others.

### AsyncLooper

A step is a critical section of `mutex_`, but the worker tests its wait predicate in
one step and blocks in the next, mutex in hand, because `stop()` does not take it.
A buffer is the sequence of messages in it, the size of its vector and `writerIdx`;
messages have lengths. `patience` is whether the wait that is going on has a usable timeout: a wait
that begins before the constructor has written `milliseco_` may not.

### MessagePool and Logging

A `FreeList` cuts objects from a page and threads those given back into a list, whose
links lie in the objects: `mem` says of each address whether it holds a message or a
link. `ListOf` is what such a list consists of, the least set that holds its first object
and the one behind each of its own. The destructor of a message leaves the bytes alone. `freeList_` has no initializer,
so it starts empty or `Wild`, and a thread that follows a wild list ends the program.

`Logging` is the life of a log call: `serialize` picks a bucket, takes an object,
constructs the message outside of the lock, formats it, gives the object back and hands
the line to the sink under the logger's mutex. A line is the sequence of pieces its items
have appended. The cache of `TimeFormatItem` is per thread. The sink's stream (`ofs_`) and
the disk (`files`) are apart: `Restart` kills the process at any step, and what the stream
had not written may be lost from any point on. A file remembers how many processes opened it.
A payload has a length in bytes and may be `wide`, that is, have fewer characters than bytes.

## 3. Runs

Passing runs:

| run | question | bounds |
|---|---|---|
| `mysql_pool` | exclusive ownership, no leak, no lost wakeup, refinement of `ResourcePool`, callers are served | 3 threads, 2 connections: somebody always waits, two can hold at once, and a newcomer can overtake a woken thread |
| `redis_pool` | the driver that revives links in `ping`: are callers served | 3 threads, 1 connection |
| `http` | what handlers see, order of responses, who gets 400, answers | 2 requests out of 8 kinds (with and without body, both versions, three `Connection` headers, three flaws), every cut, clients that wait and clients that do not |
| `ssl` | nothing lost between wire and parser, errors of others, handshakes, answers | 2 connections of one thread (an error crosses from one to the other); the default version and the one that leaves 1.2 only; a client of before 1.3 or a present one beside a present one; 2 requests and 1 |
| `looper` | `LogChannel`, buffer bounds, wakeups, flushing, blocked pushes, shutdown | 3 producers, buffers of 4 with flush mark 2, threshold 8 and step 2 so that both growth rules fire; messages of 1 to 5, the last too long for a fixed buffer |
| `logging` | exclusive objects, wakeups, the right line, the size of files | 3 threads and 2 objects in one bucket (with a rest of the page that is too small for a third): one waits, and a newcomer can overtake it; 2 loggers with equal, different and refused patterns; sinks of 6 bytes so that they roll; 2 seconds, 1 restart |
| `sessions` | no key without time to live, destroyed sessions, every call returns | 2 threads, 3 connections, 1 session, 1 attribute, a timeout of 1 s in 2 ticks, 3 ticks, commands that throw |
| `memory` | sessions in use are stored, destroyed ones are gone | 3 threads (one that uses a session, one that has refreshed it, one that erases it as expired), 2 ids, a timeout of 1 and 2 ticks, so that a session expires and is refreshed in time; symmetric in threads and ids; up to the first race and the crash it may end in (`NoRaceYet`) |
| `requests` | which route serves, nesting, CORS | up to 2 registrations out of 10 routes of four kinds that compete, plus the default one, 4 chains, 4 lists of origins, 20 requests |

Some promises hold under a condition only, and the property states it:

* `BadRequestIfHeadsWhole`: the head of a request, up to its empty line, arrives in
  one piece (the client's choice `splits`). Without it, see `http_split_head`.
* `AnsweredIfAwaited`, of `HttpConnection` and of `SslConnection`: the client waits for a
  response before it sends the next request (`pipelines` is false). `on_message` takes one
  request per read, so a second one in the same read waits until more data comes.
* `CallsServed`: the pool created a connection. `init` opens a pool whose every
  `create_connection` failed, and the callers of that pool wait for ever.
* The three looper properties named `...WhileBounded`: the wait that goes on has a
  usable timeout. The worker starts before the constructor has written `milliseco_`, and
  its first wait may have any timeout (`patience`).
* `HandshakeEndsIn13`: TLS 1.3 was negotiated. When `SSL_do_handshake` returns 1 the code
  does not drain the write BIO (`ssl_connection.cpp:147`): a TLS 1.2 client waits for the
  server's Finished, which stays there, and the handshake hangs.
* `NoForeignError`: a failure leaves one entry in the error queue. With two, the entry that
  stays makes another connection of the thread close.
* `AnsweredIfAwaited` of `SslConnection`: every response fits in a TLS record. Partial writes
  are enabled (`ssl_connection.cpp:53`) and `SSL_write` is called once (`:215`), so that of a
  longer response the client gets the first record only; that is no answer (`Answers`), and
  this client is excepted from there on (`Truncated`).
* `UsedIsStored` and `DestroyedIsGoneIfUnshared` of `MemorySessions`: no two calls raced
  in the map. The first is about live sessions and excepts those that were destroyed while
  others had them (`shared`) and those in `forgotten`: `get_session` removes by the id what it
  found expired before, and what another request may have refreshed and stored since. The
  erases of `load` and `clear_expired` are not excepted: what they erase is expired, or about
  to be stored again by who refreshed it. The second property excepts, in both session
  modules, the sessions another request had when they were destroyed, which stores them
  again; in `MemorySessions` only a request that had found it, not one that carries its cookie.
* `LineIsRight`: the pattern ends in a conversion, all loggers have one time format, the
  characters are one byte wide (see below).
* `FilesBounded`: one process opened the file, no line is longer than `maxSize_`, and again
  the width of characters.
* `CallsReturn` holds with more connections than threads; with as many, see
  `sessions_deadlock`.
* `NoImmortalKey` excepts a session whose last `store` threw between its commands
  (`torn`): its key stays without a time to live until it is stored again.

Two threads and one session id are enough for the Redis store because threads
meet only in the hash of one id and in the pool; the in-memory module has two ids because
a session that is gone is followed by a new one. Two requests are enough for the
parser because the context is reset between them: the second starts in the state the
first did. Three threads are what it takes for a waiter, a holder and a newcomer to
be there at once. One bucket is enough for the message pool because buckets share nothing.

`CHECK_DEADLOCK FALSE` is set where the modelled system ends: a connection is closed
or its client silent, a request is answered, a looper destroyed, time has run out,
all calls are made.
The runs of the pools do not set it, but it shows little there: the database server may
always come and go. That no caller is stuck is `NoLostWakeup` and `CallsServed`.

Runs that end in a violation show where the code and its own documentation
disagree; `findings` in `PROJECT.json` quotes the line:

| run | shows |
|---|---|
| `mysql_pool_null` | the checker can leave a borrower with a null driver connection |
| `http_split_head` | a head that comes in two pieces is answered with 400 |
| `sessions_deadlock` | loads of expired sessions deadlock in the pool |

The models also contain, as the code does, without a run of their own:

* a MySQL link whose configuration failed half way passes the next `ping` and is lent
  (`link` is `raw`);
* after a 400 the half-closed connection reads on, and the parser continues where the
  error was, so handlers may still be called (nothing is written any more);
* `on_request` compares the version with `1.0` while the parser stores `HTTP/1.0`, so
  that an HTTP/1.0 connection is closed only if its header says so;
* a session without attributes is stored as the JSON text `null`, which `load` rejects
  (`JsonObject`): its owner gets a new session;
* `clear_expired` tests the expiry and deletes in two commands, and may delete a
  session that was refreshed in between;
* `CorsMiddleware::after` names the first allowed origin whatever the request's is;
* a failed handshake shuts the connection down, its alert stays in the write BIO, and
  bytes that follow run the handshake again;
* `parsePattern` drops the text after the last conversion, and a pattern it refuses leaves
  a formatter without items, which writes nothing;
* the first time format a thread meets in a second, of whatever logger, is what all
  others print in that second;
* `{:.{}}` in the sinks counts characters and is given bytes, so that a line with wide
  characters is followed by leftovers of the buffer (`junk`);
* a process restarted within the second reopens the file of the one before and counts
  its size from 0.

## 4. Fairness

* Pools: threads past the lock continue, borrowers give back, the checker cycles
  (weak fairness). A thread that has to lock `mutex_` gets it eventually although the
  checker takes it again right after its sleep (strong fairness of those steps).
  Nobody has to call, no server has to come back, and `cv_` may wake anybody.
* HTTP: the network delivers, the I/O loop runs what it began. No client has to send.
* Looper: the worker and the owner run; a bounded wait ends, and all wakeups inside
  one `wait_for` share its deadline (strong fairness of `Timeout`); a notified producer
  eventually gets the mutex (strong fairness). Nobody has to log.
* TLS: the I/O loop reads what has arrived and runs its callbacks, and a client that has
  begun a handshake goes on with it when it has what it waits for (weak fairness). No
  client has to connect, to ask, or to close.
* Redis sessions: a thread inside a call runs on; the borrowing steps need strong fairness,
  which stands for `CallsServed` of the pool and a `cv_` that is not unfair for ever.
* `RequestHandling`, `MemorySessions` and `Logging` state safety only. That a thread which
  waits for a message object is woken is the invariant `NoLostWakeup` of `MessagePool`.

## 5. Theorems

Every theorem is of the form `Spec => []Inv`, or says that `Spec` implements an abstract
specification, for all values of the constants. Each `...Proofs` module states an
inductive invariant `IInv`, proves that the initial states have it, that every action
keeps it (one lemma per conjunct or group of conjuncts, one step per action in it), and
draws the theorems from it.

| module | theorem | states |
|---|---|---|
| `ConnectionPoolProofs` | `TypeCorrect` | `TypeOK` |
| | `OwnershipIsExclusive` | `ExclusiveOwner` |
| | `NothingLeaks` | `NoneLost` |
| | `NoWakeupIsLost` | `NoLostWakeup` |
| | `PoolImplementsResourcePool` | `ImplementsResourcePool` |
| `HttpConnectionProofs` | `TypeCorrect` | `TypeOK` |
| | `HandlersSeeTheRequests` | `HandledIsPrefix` |
| | `AnswersComeInOrder` | `AnswersInOrder` |
| | `WholeHeadsAreNotRefused` | `BadRequestIfHeadsWhole` |
| `SslConnectionProofs` | `TypeCorrect` | `TypeOK` |
| | `NothingIsLost` | `NothingLostInTheBios` |
| | `NobodyPaysForOthers` | `NoForeignError` |
| `RequestHandlingProofs` | `TypeCorrect` | `TypeOK` |
| | `RoutedRight` | `RoutedAsRegistered` |
| | `ChainIsAnOnion` | `Onion` |
| | `OnlyAllowedMayRead` | `OnlyAllowedOrigins` |
| `RedisSessionsProofs` | `TypeCorrect` | `TypeOK` |
| | `NoKeyIsImmortal` | `NoImmortalKey` |
| | `DestroyedSessionsStayGone` | `DestroyedIsGoneIfUnshared` |
| `MemorySessionsProofs` | `TypeCorrect` | `TypeOK` |
| | `SessionsInUseAreStored` | `UsedIsStored` |
| | `DestroyedSessionsStayGone` | `DestroyedIsGoneIfUnshared` |
| `AsyncLooperProofs` | `TypeCorrect` | `TypeOK` |
| | `DataStaysInside` | `BuffersHold` |
| | `NobodyIsStranded` | `NoProducerStranded` |
| | `LooperImplementsLogChannel` | `ImplementsLogChannel` |
| `LoggingProofs` | `TypeCorrect` | `TypeOK` |
| | `LinesAreRight` | `LineIsRight` |
| | `FilesStayBounded` | `FilesBounded` |
| | `ObjectsHaveOneOwner` | `ObjectsExclusive` |
| | `NotifyOneIsEnough` | `NoLostWakeup` |
| | `OwnMessageIsLogged` | `LinesAreOwn`, stated there |

### The arguments

**ConnectionPool.** `IInv` adds `Control` to the goals, what the control flow says about
the data: a thread holds a connection exactly while it is at one of the places of
`Holding`; who keeps `mutex_`; before the pool is open nobody borrows and `init` has queued
only connections below its counter (that is why the next one is new); after the destructor
everything is empty; what the checker looks at was created. `ExclusiveOwner` is not
inductive without it: nothing else tells that `init` appends a connection nobody has.
`NoLostWakeup` is inductive on top of `IInv`: a step that takes a connection consumes a
woken thread or finds nobody waiting behind it, and one that returns a connection wakes a
waiter if there is one, so the cardinalities of `Woken` and the queue move together. The
refinement maps `init`'s creations to `Add`, `InitEnd` to `Open`, taking to `Grant`,
returning to `GiveBack`, the destructor to `Close` and everything else to stuttering.
`RedisConnectionPool` is an instance of this module, and the theorems are for any driver.

**HttpConnection.** What has to be said is that the parser is in step with the stream
(`ParserInStep`): what is in the buffer and on the wire is the stream of the client's
requests from some place on (`IsStream`), that place is the end of a line, of the head or of
a body of the request after the last one handled, and `state_` and `request_` are what the
lines before it make of a fresh request (`AtRequestLine`, `AtHeader`, `AtBody`, `AtEnd`). A
cut moves tokens from the wire to the buffer and leaves the stream as it is; so cuts do not
matter. This holds while the connection is up or if the client sends nothing malformed
(`StaysInStep`): after a 400 the parser goes on in the middle of a request.
`BadRequestIfHeadsWhole` needs two more: if heads are not cut, the buffer never ends in one
(`CutsNoHead`), and the parser has something to read as long as it is in one
(`HeadInHand`), so that there is always a line. `PlacesAreSent` is what of it remains after
a malformed request, that what is parsed was sent.

**SslConnection.** `NothingLostInTheBios` is not inductive because a failed handshake drops
the message it failed on, which could be a request. That it is not follows from the order
of the handshake as both sides see it (`HandshakeOrder`, `RequestsComeLast`): behind a hello
there is nothing until the server's flight is there, and a client that has finished has its
last handshake message ahead of every request. Likewise what makes OpenSSL fail after the
handshake comes from a client that sends nothing behind it (`EndIsLast`), and a message
whose first part has come keeps its second (`InTwoParts`). `NoForeignError` follows from
`QueueIsClean`, since each failure puts in one entry and `ERR_get_error` takes out one.

**RequestHandling.** `TablesMatch` relates the four tables to the registrations, an exact
one to the last of each key and a dynamic one to all of them in order; `RoutedAsRegistered`
follows from it at the step that routes. `Onion` needs to know the place the processing has
come to (`InTurn`): the calls so far are those of the places before it, none of them ended
the processing, and the due ones were all made. The first match in a dynamic list and the
last one of an exact table exist by a least element of a set of numbers.

**RedisSessions.** A key could only become immortal by a store that gives up between its
commands, so `LifeIsBounded` says that a store that goes on has at least a second to live
left, which takes arithmetic of whole seconds and ticks (`Ticks`, rounding). The type
invariant has the pool in it, loans and free connections are together `PoolSize`. A
destroyed session that nobody else had in hand stays gone because who asks for it gets no
further than the load that fails (`GoneIsOnlyAskedFor`); this is what a destroyed session
with a cookie still around comes to.

**MemorySessions.** `DestroyedIsGoneIfUnshared` is inductive by itself. `UsedIsStored` needs
`ErasedIsExpired`: what a thread is about to erase through its iterator is still expired, or
some request has refreshed it and is about to store it. It cannot have stored it already,
because the erasing thread is inside the map since its look (`ErasesInside`) and the store
would be a race. A `load` that lets go of the map in between breaks it (the mutant
`LoadLetsGo`). Both properties are conditioned on `~raced`; after a race anything may be lost.

**AsyncLooper.** `BuffersHold` is arithmetic of the two growth rules and of the index
(`EmptyHasNothing`: index 0 means no message).
For `NoProducerStranded`: an empty buffer has room for a message that fits at all, so a
waiter implies data in the production buffer, unless the swap has just notified one; the
notified one either fills the buffer or finds it filled. The refinement is along
`PushedIsLogged`: `written`, the consumer buffer and the production buffer, in this order, are
the abstract log, and of each producer it has as many messages as `push` took. `Drained` is
what makes a swap hand over an empty buffer, and `StopIsLast` what lets the destructor return
only after the worker has left with both empty. The counts of a producer's messages are
cardinalities of sets of indices.

**MessagePool and Logging.** `ObjectsExclusive` speaks of a list that is kept in the very
objects threads write to. The invariant says that every object in a list holds a link
(`Linked`), that no list comes back to an object it has passed (`Acyclic`), and that the page
is cut in whole objects; then a write to an object in hand leaves every list as it is
(a least set that does not contain the object), and `alloc` and `dealloc` change it by one
element. A list that starts as garbage ends the program before it is changed
(`WildIsUntouched`). `NoLostWakeup` counts objects in the list and in the rest of the page
against the threads on their way to take one. `LinesAreOwn` follows: between construct and
format nobody else writes to the object.

`LineIsRight` adds what the pattern and the cache do. `parsePattern` and the number of bytes
of a line (`Total`) are recursive functions. The library's rules of induction cannot be
used, but what is needed of them can be derived: a set of numbers that is not empty has a
least one (`UpTo`), with that a function exists that has a given first value and a given
step (`RecursionExists`), and what holds of it so far is again a set of numbers. So after each
round of the loop the items and the gathered text are the tokens up to there
(`ParsedUpTo`), and a pattern that ends in a conversion is parsed into itself
(`PatternFacts`). The cache holds, if anything, its second in a format of some logger
(`TimesInHand`), and every line with a time has the message's second in one.

For `FilesBounded`, `SinkIsRight` relates a sink to its files: names differ, so that opening
a file finds one or makes one; if only one process opened the file, `curSize_` is the size of
what is in it and in the stream; and every such file is within `maxSize_` or has one line
only. "Or has one line" is needed for the induction: a restart keeps a part of what the
stream held, and if lines in the lost part were too long, the file was never within the
hypothesis of `FilesBounded` but what remains of it is. `SinkMovesOn` is rolling over and
restarting alike: a part of the stream is written, and a file is opened.

### Assumptions

The theorems rest on the `ASSUME`s of the modules, which TLC evaluates in every run:
threads are finitely many, where they are counted (`PoolAssumption`, `SessionAssumption`);
names of states that are no thread, connection or id (`"checker"`, `NoConn`, `NoId`, `Null`)
are different from all of these; a page has room for an object and messages have a length
(`PoolAssumption` of `MessagePool`, `LooperAssumption`); the sets of requests, routes, chains
and calls consist of what their names say (`HttpAssumption`, `RoutesAssumption`,
`LoggingAssumption`, `SslAssumption`). The bounds of the models (`MaxTime`, `MaxRequests`,
`MaxRoutes`, `MaxRestarts`) are parameters, and the theorems hold for all of them.

### Only model-checked

* Everything under fairness: `CallsServed`, `CallsReturn`, `AnsweredIfAwaited`,
  `HandshakeEndsIn13`, `FlushedWhileBounded`, `PushReturnsWhileBounded`,
  `StopReturnsWhileBounded`. Liveness is out of reach of the prover.
* Nothing else: every invariant and both refinements of the passing runs have a theorem.
  That the instances are small matters for the liveness properties only: in the run
  `logging`, for one, at most one thread waits for an object of a bucket at a time, and
  `NotifyOneIsEnough` covers any number of them.

## 6. Not modelled

* `LoggerManager` and the builders. The registry is filled before the threads start, as in
  the example. `hasLogger` and `getLogger` lock nothing (`std::unique_lock<std::mutex>(mutex_);`
  declares a local variable of that name); with loggers built later, their find races
  with the insert of `addLogger`, which is undefined behaviour without more to say.
* `ssl_connections_`, a map without a lock that several I/O threads change: `SslConnection`
  models one I/O thread, and a race on the map again has no outcome to reason about.
* Keys, certificates and the session cache of `SslContext`; the custom BIO methods and the
  parts of `SslConnection` without a caller.
* `StdOutSink` and `FileSink`, which write through; the test of the level, after which a
  call either begins or does not; exceptions out of fmt, which would leak a message object.
* `HttpServer`'s builder functions and `start`; the drivers' queries.
* Formatting, URL decoding, cookies' text, dates, log texts; the example; the build.

## 7. Plan

1. *Done:* `ResourcePool`, `ConnectionPool`, `RedisConnectionPool` with proofs;
   `HttpConnection`; `LogChannel`, `AsyncLooper`; `RedisSessions`; `RequestHandling`.
2. *Done:* `SslConnection`; `MemorySessions`; `MessagePool` and `Logging` with the
   rolling files and restarts; what becomes of destroyed sessions in both storages.
3. *Done:* the theorems of section 5, for every component that has a model.
4. Proofs still open: that the Redis pool is never exhausted when it has more connections
   than threads, the safety behind `CallsReturn`; that the looper loses no wakeup of its
   worker, the safety behind `FlushedWhileBounded`.
5. An abstract session store (get, update and destroy atomic) that both storages are
   measured against; a composition of `HttpConnection` with `RequestHandling`, several
   requests on one connection, in which the keep-alive decision of one drives the other.
