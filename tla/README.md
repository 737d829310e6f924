# book_spread in TLA+

`book_spread` is a market-data server.  Venue connectors keep one order book per
symbol from a websocket of diffs and REST snapshots, hand every new book to the
server through a lock-free channel, and the server merges the books of several
venues and streams the result to gRPC clients.  This directory holds TLA+ models
of its components, from the atomic operations of the channel to the client's
command loop, the TLC configurations that check them on small instances, and the
theorems that TLAPS checks about most of them, for instances of any size.

Paths are relative to `src/`; `core_lib` stands for `core_lib/src` and
`md_server` for `md_server/src`.

## The system

```
 venue socket -> connection (slots, snapshots) -> BookPublisher ==book channel==> BookReader
      ^               ^                                                               |
      |          supervisor / router  <--Subscribe, Unsubscribe-- registry      broadcaster -> sessions
      |                                                               ^  ^            |          |
   listing refresh                                        handshakes -+  +- RetireIfIdle, Retire |
                                                              ^                                  v
                                                         accept loop  <------------------------ clients
```

| component | code | its state | its operations | what makes it hard | what must hold | modelled in |
|---|---|---|---|---|---|---|
| shared buffer | `core_lib/shared_buffer.rs` | slots with a `WRITE_FLAG`/count word, `header` | `update_with`, `get`, guard drop, reader registration | a load and a pin are two steps; a writer scan without exit | a guarded slot is never written; a get is never stale; both sides finish | `SharedBuffer` |
| atomic waker | `core_lib/atomic_waker.rs` | seven flags in a byte, a cell with the `Waker` | `notify`, `register`, `try_resolve`, `close`, drops | the cell is guarded by flag bits alone; freed by whoever goes last | no aliasing, no lost wake-up, freed once, the end after the last notification | `AtomicWaker` |
| book channel | `core_lib/connector/book_publisher.rs` | the two above | `publish`, `publish_empty`, drop; `update`, `get` | store and notify are two steps, read in the other order | the newest book is always taken; a departure shows the empty book | `Fanout` |
| broadcaster | `md_server/broadcast/broadcaster.rs` | readers, sessions, joins, frame pool | open readers, books, joins, idle, stop | biased select; stops while clients queue; buffers that sessions still hold | every queued client is served or told; a frame is the newest books | `Fanout`, `Registry` |
| session fan-out | `md_server/broadcast/session.rs`, `grpc/sink.rs` | per client the epoch it was sent, its credit | deliver the newest, close | slow clients | newest book, no book twice, a stream's end is told | `Fanout` |
| merger, encoder | `md_server/broadcast/{book_merger,book_encoder}.rs` | one message buffer | merge sorted sides, encode as they go | ties, empty sides, a length written last | sorted union of the levels; what is read is what was merged | `BookFrame` |
| registry | `md_server/registry/` | entries, resolved instruments, `shutting_down` | subscribe, retire-if-idle, retire, shutdown | a retirement racing a join | one broadcaster per instrument; nobody lost; nothing leaked | `Registry` |
| supervisor, router | `core_lib/venue/{supervisor,router}.rs` | listing, lanes, symbol bindings | subscribe, unsubscribe, delist, lane death, shutdown | each await on a lane's queue; a lane dies between choice and send | one book per symbol; a binding names a live lane; each subscribe answered once | `Lanes` |
| connection, slot table | `core_lib/venue/{connection,table,pending,rest,spec}.rs` | per symbol: bootstrapping or ready, buffered frames, generation, fetch | frames, snapshots, subscribe, unsubscribe, idle sweep, reconnect | answers that come late; resets between request and answer | a live book is the venue's book | `Connection` |
| fetches | `core_lib/venue/{connection,rest}.rs` | fetch tasks, permits, the snapshot channel | spawn, send, abort, retry | permits and a bounded channel shared by symbols and sockets | a permit is held by a request only; a waiting symbol has its fetch | `Fetches` |
| venue decoders | `venues/*/src/decode.rs` | last cursor of a live symbol, a stage, buffered diffs | keys in any order, seed and replay, apply a diff | a frame that fails half way; boundary arithmetic of cursors | no diff is skipped, applied twice or half applied | `BinanceFrame`, `BitstampFrame`, `Connection` |
| pacers, backoff | `venues/*/src/pacer.rs`, `core_lib/venue/{connection,backoff}.rs` | queued control frames, ids, timers | batch or spaced sends, reconnect | bursts, chunks, replies that come late | order, gaps, a rejection put down to its own names | `Pacing` |
| incremental book | `core_lib/{incremental_book,heapless_linear_map}.rs` | best levels in a window, the rest in a deque | update, remove, clear, read top | spill and refill at the boundary; uninitialized cells; a batch cut short | equals a plain map of levels | `LinearMap`, `IncrementalBook` |
| strings, instruments | `core_lib/{shared_string,instrument}.rs` | counts, the interning maps | clone, drop, intern, look up | a drop is two steps; two registrations race | no use after release; one handle per name | `Strings` |
| accept loop, handshake | `md_server/{framed,server}.rs`, `grpc/mod.rs` | handshakes in flight, the request's bytes | accept, read a request, stop, shutdown | bytes cut anywhere, aborts in mid-handshake, the registry ends when every sender has gone | one verdict per request; shutdown ends | `Handshake`, `Registry` |
| catalogue, client | `md_server/catalogue`, `md_client/src/main.rs` | row numbers, the running subscription | list, pick, subscribe, unsubscribe | numbers that are stale after a restart; a report that waits in a channel | a stream is of what the user picked | `Client` |
| transport, config, rendering, wire | the rest | none of protocol interest | | | | - |

`PROJECT.json` lists every component with its status and every hazard at its
line with the properties that watch it.

## Modules

| module | models | implements / uses |
|---|---|---|
| `LatestValue` | what the shared buffer promises: `get` returns a value no older than the one published when it began | |
| `SharedBuffer` | `shared_buffer.rs`, one step per atomic operation | implements `LatestValue` (`ImplementsLatestValue`) |
| `Notification` | what the waker promises: a pending flag, an end, and a wait that reports both in order | |
| `AtomicWaker` | `atomic_waker.rs`, one step per atomic operation, cell access and wake | implements `Notification` (`ImplementsNotification`) |
| `MCChannel` | the two halves side by side, for TLC | composes `MCSharedBuffer` and `MCAtomicWaker` |
| `Fanout` | `book_publisher.rs`, the work of `broadcaster.rs`, `session.rs`, `grpc/sink.rs`: books from the publishers to the clients | composes instances of `LatestValue` and `Notification` |
| `Registry` | the life of one instrument: `framed.rs`, `server.rs`, `registry/`, the life cycle of `broadcaster.rs`, the answers of `supervisor.rs` | takes a publisher's departure by what `Fanout` shows of it |
| `Lanes` | one venue's `supervisor.rs`, `router.rs`, the command queues and slot tables of its connections | |
| `Connection` | one symbol on one connection: `connection.rs`, `table.rs`, `spec.rs`, the rules of both decoders and pacers, with the venue and the REST fetches around it | |
| `PlainBook`, `LinearMap`, `IncrementalBook` | a side of a book: what it promises, the sorted map it is kept in, the two tiers | `IncrementalBook` uses `LinearMap` and implements `PlainBook` (`ImplementsPlainBook`) |
| `VenueFeed`, `BinanceFrame`, `BitstampFrame` | what a venue sends, and the two decoders key by key | the decoders extend `VenueFeed` |
| `Pacing`, `Fetches` | control frames and reconnects against the clock; snapshot fetches over shared permits | |
| `Strings` | `shared_string.rs` and the interner of `instrument.rs` under threads | |
| `BookFrame`, `Handshake`, `Client` | the merged message, a request in chunks, the client and its catalogue | |
| `Structures` | the eleven machines of the five rows above, each at work alone, for TLC | |
| `ChannelProofs`, `RegistryProofs`, `ConnectionProofs`, `LanesProofs`, `FanoutProofs` | the theorems about those | each extends the module it is named for; `ChannelProofs` is about `SharedBuffer` and `AtomicWaker`, by way of `MCChannel` |
| `BookProofs`, `StructuresProofs` | the argument about the map and the book; the theorems about those, `Fetches`, `Strings`, `Handshake` and `Client` | extend `IncrementalBook`; `Structures` and `BookProofs` |
| `FrameProofs` | the theorems about the machines that read or write frames: both decoders, `Pacing` and `BookFrame` | extends `Structures` |
| `MC*` | symmetry sets and refinement mappings for TLC | |

Definitions named like an action with a suffix (`HandleRetireIfIdleBlind`,
`BroadcasterEndsUndrained`, each under a comment that begins with "Slip") are mistakes one could make in that action.  No
specification uses them; they record which mistake each property detects.

### SharedBuffer

`state` of a slot is split into `flag` and `count`, `data` holds the number of
the update that wrote it or `Torn` during the write.  `update_with` is
`Begin, ScanSkip*, ScanClaim, WriteDone, ClearFlag, StoreHeader`; `get` is
`Load, Pin, SpinDone*` and ends in a guard which `DropGuard` returns.  `floor`
and `published` are history variables for the properties.

Memory is sequentially consistent.  That is enough here: `header` has a single
writer, the slot words are only changed by read-modify-writes, which see the
latest value in any memory model, and the one Relaxed look at a slot before the
compare-exchange can only make the scan skip it, which `ScanSkip` may do to any
slot.  What it does not show is that the Acquire/Release annotations publish the
slot's data; the loom tests of the repository are about that.

Fairness: the writer and each reader inside `get` keep running (threads that are
not descheduled for ever), and a scan that meets a free slot again and again
eventually claims it (`compare_exchange_weak` may fail spuriously, but not
always).  Nobody has to begin an update or a get, or to drop a guard.

### AtomicWaker

`bits` is the byte, `cell` the waker slot.  `unseen` is the list of values the
byte took since the waiter last read it, any of which the Relaxed load of
`try_resolve` may return; all other accesses are read-modify-writes.  The waiter
is modelled as a task: it parks with the waker it registered, is polled again
once that waker was called, and may also be polled for other reasons or drop the
future.  Fairness: the notifier finishes what it began, the waiter finishes a
poll, and a parked task whose waker was called is polled.

### Fanout

A book is the number of the update that wrote it; each venue's channel is an
instance of `LatestValue` and one of `Notification`, which `MCChannel` shows the
code to implement.  The publisher alternates an update and a notify, and its drop
is one last, empty book.  The broadcaster's `select` is a state, `bpc`: it polls
readers, then joins, then sessions, and a wake ends in a publish (`encode`,
`deliver`) or in nothing.  A frame lies in a buffer of `POOL`, which a sink may
still hold when the next book comes; `Ctx::cool` sets it aside and takes it back
when nobody does.  The allocator is modelled by one buffer more than the current
frame, the pool, the cooling list and the queues of all clients can take
(`Buffers`), so it always has one to give, which `SpareExists` proves.  A client's
sink has room for `Credit` frames and parks the session when it has none.  The environment files and removes the entry
(`EntryRemoved`) and queues joins; the registry's side of both is `Registry`.

Fairness: the broadcaster runs on while it is woken, and the registry answers it
(`Running`, `Ending`, and `EntryRemoved` once it is on its way out); a publisher
carries through what it began; a client that is attached takes what is queued for
it until it hangs up (`Takes`), which is an assumption: of one that stalls for
ever nothing is promised before the close deadline.  Nothing makes a client
connect, a venue publish or a publisher drop.

### Lanes

The supervisor is one task; an arm of its select runs to the end but for its
awaits on a lane's bounded queue, and each of those is a value of `sup`
(`subscribing`, `unsubscribing`, `retiring`, `stopping`).  Between them a lane
admits commands, closes, or dies with its queue.  `bySymbol` is the router's
table and `lanes` its loads; `slots` is the connections' own view, and `After`
what becomes of it as the commands queued for it are worked off: of each symbol
the last command that names it decides.  `reap` and
`reap_idle` are part of the actions that call them.  Two remarks on the code:
`retire_unlisted` does not reap, so a delisting may still send to a lane that has
died, and the lane `reap_idle` keeps, the oldest empty one, may be dead itself
(`router.rs:120-122`); neither costs a symbol its place.

Fairness: the supervisor and the connections run on.  Nobody has to request
anything, no listing has to change, and no lane has to die.

### Registry

One instrument, its venues, a few clients that each ask once.  The registry's
queue, the per-generation join channel with its `pending_joins`, and each
supervisor's queue are sequences; a handler of the registry is one action
because the registry is one task and its handlers do not await.  The
broadcaster's steps between awaits are actions of their own (`OpenReaders`,
`StayAlive`, `WakeBook`, `WakeDeparted`, `WakeJoin`, `WakeJoinNone`, `WakeEnded`,
`StopBroadcasting`, `CloseSessions`, `DrainJoin`, `BroadcasterEnds`).

Fairness: tasks run on (weak fairness of the handlers, of the steps of a
broadcaster, of handshakes, whose deadline is enforced by a timeout), and a
broadcaster whose select is polled again and again takes each kind of wake
eventually (strong fairness: the select is biased towards books, and a venue's
updates leave gaps).  Nothing makes a client connect or leave, a venue list its
symbol, or the operator stop the server.

### Connection

The session loop is one task, so each of its handlers is one action: `Admit` (the
`subs_rx` arm with its burst of commands), `Pace`, `SweepIdle`, `OnSnapshot`,
`OnFrame` and `Undecodable`; `SessionEnds`, `AdmitOffline`, `Reconnect`,
`Connected`, `ConnectFails` and `LaneCloses` are the loop of `run` around it.
Fetch tasks end (`Answer`) or are cut short when they were superseded
(`AbortLands`); the abort is best effort and the generation is what counts.
`Trade` and `Obey` are the venue, which is not in the repository: it streams a
symbol from the subscribe to the unsubscribe it has handled, in order, and
answers a snapshot with any of its past books, since its caches lag.

The book is abstract: update `k` of the venue sets level `k % NumLevels`, and a
book maps each level to the update that set it last.  A book which misses an
update, or replays one too many over a newer snapshot, is then different from
the venue's (`VenueBook`).  Level 0 stands for the published depth and the others
for deeper levels, whose updates are not published.  `Recover`, `Buffer`, `Reset`,
`ArmFetch` and `Seeded` are the functions of those names in `connection.rs` and
`table.rs`; `SeedBinance`, `SeedBitstamp`, `OnBinanceFrame` and `OnBitstampFrame`
are the decoders' rules; the loop of `seed_and_replay` is in closed form, which is
what the diffs it keeps (`Kept`) come to (`Replay`) and whether one of them does
not go on where the one before it ended (`Gapped`).  `asked` and `dropped` are
history variables.

Bitstamp frames that do not decode are left out here: the code drops the frame
(`venues/bitstamp/README.md:189`) and has no way to know what it missed.  What
such a frame does to the book, which is nothing, is `BitstampFrame`'s.  Several
symbols share a socket's pacer (`Pacing`), its snapshot channel and the venue's
permits (`Fetches`), and nothing else.

Fairness: the session loop runs on, which its select guarantees (snapshots are
polled before frames, and it awaits nothing else without a bound), and a request
that is not superseded ends.  The second is an assumption: no request timeout is
set on the HTTP client.  What the code does without it, the limit on buffered
frames, is `FetchesAreBounded`.

### The structures

Eleven machines that share nothing.  Running them in one specification, each from
its initial state with the others at rest, checks each on its own.

* **`LinearMap`**: `base` and `cells` are the array and its filled right end;
  `ptr::copy` moves what a cell holds and leaves `Vacant`, so that a read of
  uninitialized memory is visible.  A batch is a step per item and may be dropped,
  leaked or cut short by a panic.  `MapIsPlainMap` and the action-by-action
  `BatchIsExact` compare it with a function from keys to values.
* **`IncrementalBook`**: the window over the deque, `apply_level` with
  `worth_publishing`, and the published top.  It implements `PlainBook`, a map
  whose best levels are published whenever no diff is half applied.
* **`BinanceFrame`, `BitstampFrame`**: a frame is a sequence of keys in any
  order, each of which may turn out not to be what it should; a live Binance book
  is changed while its frame is parsed, so failing half way must leave it marked;
  a Bitstamp frame is staged first.  Numbers are compared by value, their text is
  not modelled.
* **`Pacing`**: time in ticks.  The batch pacer sleeps inside the session, the
  timed one sits on its select; ids of requests are remembered in a bounded
  window; `HEALTHY` after a session began the backoff starts over.  The cap may be
  anything, less than `BASE` included, as in the configuration.  Jitter is a
  choice of up to half the delay (in the code it is drawn from the nanoseconds of
  the current second, so it is less than a second besides).
* **`Fetches`**: tasks, permits, one bounded channel per connection that is not
  read while it backs off.  A request has no timeout: a hung one keeps its permit
  until its slot is reset, or for good when its connection's task is gone.
* **`Strings`**: a drop is the decrement and, for the last holder, the release; a
  registration is a read lock, then a write lock with a second look.  Memory is
  sequentially consistent here; the Relaxed decrement the code uses is not shown
  to be enough.
* **`BookFrame`**: two ladders per venue are merged and encoded as the merge
  yields them, and the bytes are read back field by field; a field is elided at
  zero where the code elides it, which is in the spread.
* **`Handshake`**: chunks of any size, the hang-up and the deadline at every await.
* **`Client`**: the catalogue's rows, which a restart renumbers, the client's
  command loop and the task of its stream with the channel between them.

## Runs

| run | instance | question |
|---|---|---|
| `channel` | 2 readers, 4 slots, 4 updates; 2 wakers, 3 notifications | are guarded slots left alone, is no get stale, is there always a slot to claim, does each side finish; is the cell safe, is no wake-up lost; do both halves implement their abstractions? |
| `shared_buffer_back` | 1 reader, 3 slots, 3 updates | can the value go back? (it can; finding) |
| `atomic_waker_wedge` | 1 waker, 3 notifications | does `NOT_WAKING` come back? (it may not; finding) |
| `fanout` | 2 venues, one of which only drops its publisher, 2 updates, 1 client, 1 buffer in the pool, 1 cooling, credit for 1 frame | are frames whole and new, does every book reach a client that reads, does every stream end? |
| `registry` | 2 venues, 2 clients, 2 broadcaster generations, listing and delisting repeatedly | one broadcaster at a time, every subscription owned, nobody turned away without a cause? |
| `registry_live` | 1 venue, 2 clients, delisted for good | is every client answered, every unwatched subscription released, every shutdown completed? |
| `lanes` | 2 symbols, 1 per connection, queues of 1, 3 requests, 1 listing, 2 deaths | is the router right about its connections, is a symbol carried once, is every subscribe answered, once, and are a dead lane's symbols freed? |
| `connection` | either venue, 3 updates, 3 commands, 2 sockets, 1 refetch, 3 buffered frames | is a ready book the venue's, is there one fetch that ends, does the venue stream what the table holds? |
| `connection_renewed` | Bitstamp, 1 socket | is it so when a subscription is renewed on one socket? (no; finding) |
| `connection_down` | Binance, 2 sockets | do readers lose the book with the socket? (not at once; finding) |
| `structures` | eleven machines, below | each against its plain counterpart |
| `client_stream` | 1 symbol, 2 subscribes | does the client keep hold of the one stream it runs? (no; finding) |

Bounds.  Four updates over four slots let the writer come round to a slot a
reader has loaded but not pinned, which is the interesting race, and once more.
Three notifications are the fewest for the wedge and cover a notification in
flight, one that overlaps the registration and one after it.  In `fanout` the
venue that only departs gives the merge a second book and the shutdown a second
reader at half the states; two updates of the other are a book and the empty one
of its drop, and pool, cooling list and credit of one are each full at once.  A
second generation of broadcaster needs a second client; a third repeats the
handover between the first two.  In `lanes` a capacity and a queue of one make
every symbol open a lane and every second command wait for room; two deaths let
the lane that takes a retried subscribe die as well.  Three updates are the
fewest for a gap inside the buffered diffs (one before, one lost, one after),
which takes three commands (subscribe, unsubscribe, subscribe); with three
buffered frames the limit is reached too, and one refetch suffices to exhaust the
budget.

In `structures` the sizes of the code are scaled to where a small instance is
at their limits: a window of 5 keys out of 6 with 2 levels published; frames of
Binance over 4 updates and 3 buffered ones, with a loss and a garbled key; 3
streams in chunks of 2 with 2 remembered ids and 5 ticks; 2 symbols on 2 sockets
over 1 permit, a snapshot channel of 1, 1 refetch and 2 attempts; machine words
of 2 inlined letters with counts up to 4, 3 holders and 2 registrars; 2 published
levels of 3 ticks from 2 venues; a prefix and a message of 2 bytes each and 2
bytes too many; 2 catalogue entries and 1 restart.

Each of these numbers is a CONSTANT; the proofs do not depend on them.
Deadlock is not checked: every one of these systems may stop (no more updates, no
more clients, the server stopped), and that it does not stop too early is what
the liveness properties are for.

## Findings

* **`NOT_WAKING` can be lost for good** (`core_lib/atomic_waker.rs:158`, run
  `atomic_waker_wedge`).  `register` finds a notification in flight and takes its
  early path, which clears `REGISTERING` with a `fetch_and` whose old value it
  ignores.  If in between that notification restored `NOT_WAKING` and a second
  one cleared it, saw `REGISTERING` and returned, the bit stays clear: the
  handoff from `notify` to `register` was made to a `register` that had already
  decided not to take it.  From then on every `register` wakes its own task at
  once and every `notify` returns early.  No notification is lost
  (`ImplementsNotification` holds), but the waiter polls in a loop for ever,
  against the module's "Every other path restores it" (lines 49-51) and against
  `core_lib/tests/loom_atomic_waker.rs:67-68`.
* **A reader may go back** (`core_lib/shared_buffer.rs:261`, run
  `shared_buffer_back`).  `core_lib/tests/loom_shared_buffer.rs:110` says that a
  value once seen cannot revert.  A reader that stalls between the load of
  `header` and the pin can pin a slot that was refilled meanwhile and whose header
  is not stored yet, and its next `get` follows the header back.  What the buffer
  does keep is `NeverStale`.
* **A renewed Bitstamp subscription can leave a wrong book**
  (`venues/bitstamp/src/decode.rs:702`, run `connection_renewed`).  Unsubscribe and
  subscribe of one symbol on one socket replace its slot at once, but the two
  control frames leave 50 ms apart.  The new slot buffers the tail of the old
  stream and asks for a snapshot against it; a diff sent while the venue streams
  nothing is in neither, and nothing notices, since Bitstamp has no sequence
  numbers.  The freshness check holds, though lines 679-681 give it as what rules
  out unseen changes, and `venues/bitstamp/README.md:132` says of `Live` "Book is
  current".  A Binance slot resyncs at the gap, and `ReadyBookIsVenues` holds of
  Bitstamp as long as no subscription is renewed on the socket.
* **The book of a dead socket outlives it** (`core_lib/venue/connection.rs:195`,
  run `connection_down`).  Slots are reset at the head of the loop (line 149), after the
  backoff, so for up to `max_backoff` readers are shown the last book of a socket
  that is gone, against `venues/binance_spot/README.md:230-232`, the comment at
  line 146 and `book_publisher.rs:44-45`.
* **The end of an old stream makes the client forget the new one**
  (`md_client/src/main.rs:228`, run `client_stream`).  `handle_stream_ended` clears
  `subscription` whichever stream has ended.  A report that waits in the channel
  while the user subscribes again drops the handle of the new task without an
  abort; `unsub`, a further `sub` and `quit` no longer reach it (lines 100-101).

What else was met while modelling, and no run shows:

* Comments that say otherwise than the code: `atomic_waker.rs:477` (a wait "parks
  forever if the notifier is already gone"; it returns `None`);
  `book_encoder.rs:25-37`, `121-124` and `155-163` (a zero price or size is elided;
  `put_side` always writes both); `md_client/src/lib.rs:44-46` (NOT_FOUND is
  permanent; an unlisted symbol is `retryable()`); `server.rs:65-67` (a shutdown
  waits for handshakes in flight; `framed.rs` aborts them); `grpc/mod.rs:124-126`
  (the body is drained to END_STREAM; `read_request` returns at the announced
  length); `broadcaster.rs:452` ("only case reachable today") beside
  `book_merger.rs:9`.  The stale entry that `join_running`'s comment
  (`registry/mod.rs:497-500`) guards against does not arise without a panic.
* `Ctx::cool` passes over an unpinned buffer that lies behind a pinned one
  (`broadcaster.rs:137-150`): the cooling list may stay longer than it must.
* A session is healthy counting from before it connected (`HEALTHY_SESSION`), so a
  connect that takes as long as that and fails starts the backoff over.
* The first wait ignores the cap: `next_delay` waits `BASE` after a first failure
  whatever `max_backoff` is (`backoff.rs:30-34`), and the configuration accepts any
  (`config.rs:108-109`, `139`).  Under one of less than two thirds of `BASE` that wait
  exceeds it by more than the jitter, against the comment in the test
  (`backoff.rs:63`), which has a cap of 30 s.  A small cap, down to zero, makes every
  later wait that short, so a dead endpoint is tried without a pause.
* A rejected control frame is logged and nothing more.
* The verdict on a request with trailing bytes depends on where its chunks are cut,
  and a complete request that is seen in one poll with the connection's close is
  counted as lost; `OneVerdict` is stated about the rest.
* A client built with another numbering of the venues mislabels levels.

## Proofs

`ChannelProofs` proves of `SharedBuffer`, for every set of readers, every `MaxReaders > 0` and
every number of updates, that `Spec` implies

* `TypeOK` (`TypeCorrect`),
* `GuardIsStable` (`GuardsAreStable`): while a guard exists, its slot's data is
  what the reader was given,
* `NeverStale` (`GetsAreFresh`),
* `SpinMeansLapped` (`SpinsAreRare`),
* `ClaimableSlot` (`ScansCanEnd`).

The assumptions are the named ASSUMEs of `SharedBuffer`: a finite set of
readers, `MaxReaders` a positive natural and `Torn` no natural.  None of the
properties is inductive.  `IInv` adds that the flag is set on the claimed slot
and no other, that a slot's count is the number of readers pinning it
(`CountIsPins`), that the claimed slot is not the published one, that the
published slot holds the newest value, and that the slot a reader in `get` has
loaded holds nothing older than its `floor`, with equality only at the header.
`GuardIsStable` then follows because a claim needs a count of zero.
`ClaimableSlot` is a counting argument: at most `MaxReaders` slots are pinned,
one is published, and there are `MaxReaders + 2`; it is done by induction on the
finite set of readers inside the library's cardinality theorems
(`AtMostOneMore` and the lemmas after it).

It also proves that `Spec` implements `LatestValue`
(`BufferIsLatestValue`, the property `ImplementsLatestValue` of the run).  The
mapping counts an update as started from the moment the publisher begins it and
as published once the header is stored, and a reader as getting from the load of
the header to its guard; a get may return any value from the newest published
when it began to that of the update under way.  Beyond `IInv` it needs that no
slot runs ahead of that update (`NotAhead`).

`ChannelProofs` proves of `AtomicWaker`, for every set of wakers and number of
notifications,

* `CellIsSafe` (`CellIsNeverShared`), from `CellInv`: which flags are set at each
  program point of the two halves, and what the cell then holds;
* `NoLostWakeup` (`NothingIsLost`), from `WakeInv` on top of it: what the stale
  values a Relaxed load may return have in common (`History`), what a waiter that
  registered can rely on (`Registered`), and that a parked waiter with something
  to be told has been woken (`Told`);
* that every step is a step of `Notification` or invisible to its user
  (`WaitsAreNotifications`), the safety half of `ImplementsNotification`.

`RegistryProofs` proves, for every finite set of venues and of clients,

* `OneBroadcaster` (`OneIsFiled`),
* `SubscriptionsAreOwned` (`EverySubscriptionIsOwned`),
* `StoppedForCause` (`NobodyIsLeftBehind`).

None of the three is inductive, since each depends on what is on its way in some
queue.  `RegistryInv` is the conjunction of `Types`; `Filed` (whoever is in its
loop is filed until the server stops); `Queued` (a question on the registry's
queue is of a broadcaster that waits for the verdict and asked once; a claim that
is given up is of one that has left); `AskedOnce` (a subscribe on a supervisor's
queue is there once and was not answered, so a refusal is never taken back);
`Causes` (the count of pending joins is the length of the join channel while a
broadcaster serves, so the verdict on an idle one is right); and `Owned` (on each
supervisor's queue a release lies between two subscribes, and before every
subscribe while something is carried).  The one constraint the model adds, that
a new generation is in `Gens`, is the bound on generations by the number of
clients; each takes a client of its own.

`ConnectionProofs` proves, for either kind of venue and any numbers of levels,
updates, commands, sockets, refetches and buffered frames,

* `ReadyBookIsVenues` (`ReadyBooksAreVenues`): a book that is shown is the venue's,
* `WireMatchesTable` (`WireMatchesTableAlways`),
* `FetchesAreBounded` (`FetchesStayBounded`).

They follow from `Invariant` (`ConnectionInvariant`), which has a part for each
thing that is between the venue and the slot: `WireInOrder` and `PendingInOrder`
(what is on the socket comes after what the slot set aside, and neither
overlaps); `AttemptIsSound` (counts and limits of one bootstrap);
`GenerationsAreSpent` and `OneRequest` (a slot that waits has exactly one task or
answer of its generation, so a late answer to another is told from it);
`SocketIsGone` (what a dead socket leaves behind); `OrdersEndRight` (the last
control frame agrees with the table); and `BooksAreVenues` with `ReadersSeeTheTop`.
For Binance the numbers of the diffs give the last of these.  Bitstamp has none:
`StreamIsWhole` and `SlotIsWhole` say that buffer and socket together hold every
update up to the venue's newest, and they do so only while no subscription was
renewed on the socket, which is the finding of `connection_renewed`.

`LanesProofs` proves, for any finite set of symbols, any capacity and queue, and
any number of lanes that die,

* `TableFollowsRouter` (`TablesFollowRouter`),
* `OneSlotPerSymbol` (`SlotsAreOne`),
* `AnsweredOnce` (`SubscribesAreAnsweredOnce`).

`Invariant` (`LanesInvariant`) speaks of a lane's table as it will be when its
queue is worked off: `TablesFollow`, `TablesApart`, `TablesFit` and
`SubscribesAreNew`, with `LoadsAreRight` for the router's counts, `TasksMatch` for
lanes that ended, and `HandFits` and `ListingHolds` for what the supervisor has in
hand across an await.  A subscribe is a token that is in one place, among the
requests, in hand or in a queue (`OneToken`), is not answered as long as it is
there (`TokensAnswered`), and is answered when it is nowhere (`AskedAreSomewhere`).
`MaxBacklog` and `MaxRequests` bound what the environment does.

`FanoutProofs` proves, for any finite sets of venues and clients and any positive
pool, cooling list, credit and number of updates,

* `FramesAreIntact` (`FramesStayIntact`): no buffer is written while a client has
  yet to take the frame in it, what a client takes rises, and one that needs no
  book has the newest,
* `FrameIsNewest` (`FramesAreNewest`).

`Inv` (`FanoutInvariant`) is `BuffersApart` (no buffer is in two places and none in
the pool is pinned), `SessionsAreIntact` (what is queued for a client lies in
frames that rise to its session's epoch), `AbsentAreDetached`, `ServingIsSound`
(the broadcaster's states), `PublishersAreSound` and `FrameIsFresh` (a channel with
nothing pending was read to its newest book, also between a publisher's last
notify and the drop).  `cool` walks its list by a recursive function; the proof
takes the least place at which a claim about that walk fails.

`StructuresProofs` proves, of the structure that is at work,

* `OneVerdict` (`HandshakesAgree`), from `ShakeSound`: the bytes held, in the body
  and unsent are never more than the request's, and a verdict comes with the bytes
  it takes;
* `StringsAreWhole` (`StringsStayWhole`) and `OneHandlePerName`
  (`NamesHaveOneHandle`), from `StringsSound`: the count of a block is that of its
  holders, besides what a record keeps for ever, each of them reads its own text,
  and the two interning maps hold the same records, no two of one key.  It is proved of holders and registrars
  together on one heap, in any number; the runs have them at work apart;
* `PicksWhatItNamed` (`ClientsGetWhatTheyPicked`), for any catalogue, any number of
  subscribes and of restarts;
* `PermitsGoRound` (`PermitsAlwaysGoRound`), from `FetchesSound`: a symbol has one
  task to a generation (`TasksAreOne`), a task is the one its slot keeps, was told
  to stop when its attempt was over, or has lost its connection (`TasksAreOwned`);
  whoever is in the line of the semaphore is asking, once (`LineIsAsking`), a
  channel carries no answers but those of its own symbols (`InboxIsOwn`), and a
  slot keeps a handle exactly while the task or its answer is there, never both
  (`OneIsComing`);
* `RepliesAreHeard` (`AllRepliesAreHeard`);
* `MapIsPlainMap` (`MapsArePlain`), for any window, any finite set of integer keys
  and of values.  `BookProofs` has the argument: `MapSound` says that a map at
  rest is `Solid` (typed, vacant below `base` and sorted above it) and what a
  batch in progress has left of the cells, so that dropping, leaking or
  interrupting it gives a solid map; and on a solid map the scan, the shift and
  the write of `insert` amount to the plain map's insert and eviction;
* `ImplementsPlainBook` (`BookImplementsPlain`), for any window, published depth,
  prices and quantities: the refinement of `PlainBook`, and with it that the window
  holds the best levels while some are deeper.  The window and then the deque are
  one sequence in the order of its keys (`Chain`), and an operation is stated as
  what it does to that sequence: one entry put over, put in or taken out
  (`Changes`), with a spill or a refill, which moves levels over the boundary,
  leaving it as it was.  The invariant, `BookSound`, has besides that the window is
  at least as full as what is published while there is a deque, and that what was
  shown last is still the top unless the batch has disturbed it (`merged`), which is
  what justifies `worth_publishing` in not publishing.

`FrameProofs` proves, of the machine that reads or writes frames,

* `BitstampBookIsWhole` (`BitstampBooksAreWhole`), for any number of updates and of
  buffered frames.  The invariant, `BsSound`, says what is in the stage at every key
  of a frame (`StageFills`), so that a frame that is read to its end has staged its
  own levels and those of none before; that every buffered diff has its levels in
  the arena, and that every update since the first one buffered is there, missed or
  on its way (`ArenaSound`); and that all updates since the last of a live book were
  missed (`LiveSound`).  The replay then gives the book of the last diff, by its
  steps (`BsReplayMakes`); that an update put on a book with holes before it gives
  the book of one who missed what is in the holes is `BookMoves`.
* `BinanceBookIsVenues` (`BinanceBooksAreVenues`), for any number of updates and any
  order of the keys of a frame.  The invariant, `BnSound`, says of a book what a diff
  has done to each of its sides so far (`SideApplies`: nothing yet, part of it, all of
  it, or nothing at all when the diff is old), while readers keep the book before it
  (`BookApplies`); of a slot without a book, that every diff in the arena lies behind
  the one before with the levels it came with (`Arrived`), and which part of the one
  under way is there (`ArenaFills`); and of a snapshot, which sides were read.  A diff
  put on the book before it makes the book after it (`AppliedEvent`), so that a replay
  without a hole ends with the book of its last diff (`ReplayedStep`, `ReplayMakes`).
* `PacedInOrder` (`FramesArePaced`), for any finite set of streams, chunk, gap, number
  of ids kept and `max_backoff`, one less than `BASE` included.  The invariant, `PacingSound`, says that the frames the
  socket has taken, those on their way and the commands still queued, obeyed one
  after another, leave the streams of the table (`PacerSound`); that frames are a gap
  apart and the next one is not due before (`GapsKept`); that the ids kept are those
  of the last frames (`IdsRemembered`); and how long the wait is after so many sockets
  (`BackoffSound`).  Commands put in frames do what they do one by one
  (`FramesObeyed`), wherever the runs and the chunks are cut.
* `FrameIsMergedBook` (`FramesAreMergedBooks`), for any depth and any prices.  The
  invariant, `WalkSound`, says of the side that is written that the levels gone from
  the heads are as many as were written, each in the place that its rank among all
  levels of the side gives it, and come before all that is left (`SideGoesOn`).  The
  best head comes before whatever else is left (`BestHeadFacts`), so those before it
  are exactly the ones gone, and the next free place is its own.

`clone_from` and `extend_worst` are loops, which the model writes as recursive
functions.  They are shown to be functions in closed form (`FirstOf`, `Slid`,
`HoldsFirst`): the closed form satisfies the recursive equation, so there is a
function that does, and two that do agree, or there would be a least number at
which they differ (`Followed`).  What goes through a sequence step by step (a replay,
frames obeyed, the levels of a body) has no closed form; that there is such a
function is `Recursion`, from the least number up to which there would be none.

These proofs assume the named ASSUMEs of the modules: sizes are naturals (positive
where the code has at least one), and the sets of symbols, venues, clients,
holders, keys and values are finite.  A bound on what the environment does
(updates, commands, requests) may be any natural.

Only model-checked:

* every liveness property, and with them the liveness half of
  `ImplementsNotification`: the prover handles neither fairness nor ENABLED.

Every invariant of a passing run is proved.

Theorems that take an operator as a parameter, like the library's induction
principles, are out of this prover's reach; where an induction is needed it is
over a set of numbers and its least element.

## Not modelled

* Memory orderings: everything atomic is sequentially consistent but for the one
  Relaxed load of `try_resolve`.
* Panics: of the closure that fills a slot, and of a registry handler, which
  `registry/mod.rs:247` catches.  Both are in the list of hazards.
* Text: JSON, numbers, percent encoding, HTTP/2 and protobuf varints, the
  catalogue's file and the client's rendering.  They are conversions without a
  state; what depends on their result is modelled on the values.
* The hourly timer of the listing and its REST request, sockets, TLS, listeners
  and configuration: I/O around the handlers that are modelled.
* The wrapper around the hash map, positive floats and network helpers.
* Starvation inside the broadcaster's biased select: `Fanout` keeps the order of its
  arms but bounds the updates of a publisher, and `Registry` assumes fairness of the
  joins, so books that never leave a gap are in neither.
* How a frame of Binance is told to be a reply or a diff (by its first key):
  `BinanceFrame` takes that choice as made.

## Plan

What would add most from here:

1. Panics of the registry's handlers and of the writer's closure as steps of
   `Registry` and `SharedBuffer`.
2. Several symbols in `Connection`, joined with `Fetches` and `Pacing` in place of
   its own single fetch and wire.
