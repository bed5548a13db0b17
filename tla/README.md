# freepacket: TLA+ models, model checking and proofs

freepacket pushes packets through three stages of threads. Generators (or
collectors, which take frames from a network card) produce packets, parsers
turn them into flow items, managers file the payload of each flow in a session
table. Buffers are allocated once and circulate: every packet returns to its
generator's pool, every flow item to its parser's pool, every session to its
manager's pool. All hand-overs go through one kind of bounded ring.

## 1. Inventory

| Component | Source | State | Operations | Interacts with |
|---|---|---|---|---|
| Ring queue / pool | `queue_intel.h`, `queue_tilegx.h`, instantiated in `includes.h` | `enqueue_count`, `dequeue_count`, `node[]`, two mutexes | `enqueue`, `enqueue_multiple`, `dequeue`, `dequeue_multiple` | every thread; a sender and a receiver share no mutex |
| Generator / collector | `packet_generator.c` | its pool, its copy of the configuration, `next_thread_id` | `make_all_packet`, `make_clean_packet`, `packet_generator`, the two collectors | takes from its pool, sends to parser queues |
| Parser | `packet_parser.c` | its queue, its pool of flow items | `packet_parser_loop`, `make_flow_item_tcp`, `hash_index` | takes batches of `COUNT`, sends to manager queues or gives the batch back |
| Manager | `packet_manager.c`, `hash.c`, `list.h` | its queue, hash table of circular lists, session pool | `packet_manager_loop`, `hash_add_item`, `find_list` | shares buckets and the session pool with the cleaner |
| Cleaner | `packet_manager.c` | - | `process_all_session`, `hash_travel_delete`, `delete_session` | every bucket of every manager |
| Configuration | `config.c`, `simulation.c` | `global_config` | `init_config_s`, `read_config_file`, `parse_args`, `read_config_simple` | read by all threads at run time, without locks |
| Display | `display.c` | loop counter, display state | `sys_display` and its state functions | calls the reload once a second, ends the program after 100 rounds |
| Loss counters, IPC server | `lossratio.c` | `global_loss`, descriptors, sockets | accept loop, one handler thread per client, the client | reads counters that the generators write; shares the descriptor table with the reload |
| Output, checksums, mPIPE | `parse.c`, `checksum.c`, `crc32.c`, `mpipe.c` | - | pure functions, prints, library calls | - |

What is hard here: the ring is correct only through the order of a few
unprotected loads and stores; everyone spins, so a missing item or an
extra one stops a whole chain of threads; `pipe_depth` is changed by one thread
and read at every branch by all others; the manager holds a lock while it waits
for what only the cleaner can supply; the cleaner walks lists whose nodes are
reused elsewhere while it walks; a handler thread gets the address of a variable
that the next accept overwrites; and the batch calls mean that less than a
batch may lie in a queue for ever. `PROJECT.json` lists these places by line
under "hazards", with the properties that watch them.

## 2. Modules

| Module | Models | Used by |
|---|---|---|
| `Fifo` | what the queue functions promise: atomic operations on a bounded FIFO | instantiated in `RingQueue` |
| `RingQueue` | both queue macros, step by step | `MCRingQueue`, `RingQueueProofs` |
| `RingQueueProofs` | inductive invariant and theorems of `RingQueue` | `RingRefinement` |
| `RingRefinement` | proofs that `RingQueue` implements `Fifo` (Intel build) and its weaker form (either build) | - |
| `SessionTable` | managers, cleaner, buckets, session pools | `MCSessionTable`, `SessionTableProofs` |
| `Pipeline` | circulation of packets and flows through the three stages | `MCPipeline`, `PipelineProofs` |
| `OrderedBuckets` | what the session table takes its buckets for: lists with one session per key | instantiated in `BucketList` |
| `BucketList` | the pointers of `list.h` under one manager and the cleaner | `MCBucketList`, `BucketListProofs` |
| `Words` | 32-bit words, byte order, `MAKE_HASH`, `next_prime` | `Traffic` |
| `Traffic` | what packets contain: writing, collecting, parsing, hashing, dispatch | `MCTraffic`, `TrafficProofs` |
| `Config` | start-up, hot reload and the display loop | `MCConfig`, `ConfigProofs` |
| `LossCounters` | the generators' byte counters | extended by `Ipc` |
| `Ipc` | loss server, its handlers and clients, the descriptor table | `MCIpc`, `IpcProofs` |
| `SessionTableProofs`, `PipelineProofs`, `TrafficProofs`, `ConfigProofs`, `IpcProofs` | inductive invariants and theorems of the module in the name (section 4) | - |

The `MC*` modules only define constants and symmetry sets. The operators whose
names say what is wrong with them (`LacksItemsOffByOne`, `CleanerUnlockNot`, ...) are
broken variants of the definition that follows them. No specification uses
them; each is the version of the code that the property named in `PROJECT.json`
must reject.

### RingQueue

A call is a walk of `pc[t]`: call, lock, check, one step per slot, publish or
release, return. `cnt[t]` is the local copy of the count in the batch functions
(`LocalCount` is the 32-bit assignment) or the shared count itself in the
single ones; `moved` and `out` are how far a sender has stored and what a
receiver has copied. `EnqLocked`/`DeqLocked` are the mutexes that
`TMC_QUEUE_SINGLE_SENDER`/`_RECEIVER` remove on the Tile build (the Intel macro
ignores the flags), `Tilera` the comparison of its `dequeue_multiple`. Shared
counts are taken modulo `Wide`, the batch locals modulo `Narrow`. Stores are
seen in program order: the Intel build is unoptimised x86 code, the Tile
build has a fence before the count is published. `length` is left out: both sides
change it without a common lock and nothing reads it.

`Fifo` is the abstract specification; the refinement maps the ring to the
sequence of published and unreleased items and a call to the instant its count
is written. Its `Spec` takes the description of the queues at its word: -1 means
that the queue is full or holds less than was asked for (`ImplementsFifo`).
`INTEL_QUEUE` implements it. `TMC_QUEUE` does not: its `dequeue_multiple` refuses a
batch when exactly that many items are there (`<=`, `queue_tilegx.h:209`), which
the run **ring_tile_refusal** shows. `LosslessSpec` also lets a dequeue be refused with
the items there; what remains is that nothing is lost, duplicated, reordered or
torn (`LosesNothing`), and that is proved of both.

### SessionTable

One step per stretch of code that another thread can observe. Buckets and pools
are sets, since no property depends on their order. Time is the age of each
session, saturating one tick above `DestroyTime`. `doomed` is the outcome of the
comparison with `current_time`, which `delete_session` reads after it has the
lock; it shrinks as sessions are deleted, and a clock tick or a manager in another
bucket may come between two deletions. The spin loop for a free session is
`NewSession`, enabled when the pool has one; the bucket lock is held meanwhile,
as in the code. A payload has any length. An append is tested against the buffer, the first
payload of a session is copied by `make_new_session` without a test, so `cur_len` can
pass the buffer there, and only there; `TypeOK` says so. What such a copy
overwrites is not modelled, nor the negative lengths that `make_flow_item_tcp` may
compute for a datagram. `destory_time` is constant here; its reload
would only change which sessions are idle.

### BucketList

That a bucket may be treated as a set, as `SessionTable` does, is what this
module shows. `next` and `prev` are the two pointers of every list head;
`list_add_tail` and `list_del` compute the pointers they leave behind (both run
under the bucket's lock, and nobody follows pointers without it).
`p` and `n` are the cursors of `list_for_each` and `list_for_each_safe`, kept in
the thread and moved one round at a time. `GiveBack` and `DropCount` are separate
steps, because the node can be taken again, and be linked into another bucket,
before the count falls, and because `hash_count` reads the counts without a
lock. `start` and `seen` are history variables. One manager suffices: managers have tables
and pools of their own, and the cleaner works on one at a time.

The refinement maps each circle of pointers to a sequence of nodes with their
keys; only `LinkNode` and the two unlinking steps are steps of `OrderedBuckets`, and
each is one `Insert` or `Remove`.

### Pipeline

Queues and pools are sequences with `Capacity`; that a call is atomic is what
`RingQueue` shows. `pipe_depth` may change before any step and is read again
where the code reads it. `packet[f]` is `flow->packet`, `pool[x]` is
`packet->pool`; both are followed through when items are returned, so a stale
one would send an item to the wrong place. A flow may go to any manager:
which one `hash_index` names is the subject of `Traffic`. `Rotate` treats the
take and the give-back of one iteration of the preparation as one step: the generator is then
the only user of its pool.

### Traffic and Words

A buffer maps the offsets that the code computes to words: a header field lies
at its first byte, payload at every byte. The generators write at the fixed
offsets of `IP_IDX` and `TCP_IDX`, the parser computes its offsets from the
header lengths it finds, so that the two agree is a property and not an
assumption. `htonl`, `htons` and the bit fields of the headers are modelled by
what they do to the bits. A word is the set of its one bits, which keeps `++`
at 2^32 - 1, the comparisons and the shifts of `MAKE_HASH` exact and within
TLC's integers; `Mod` divides a word bit by bit for the same reason. `Write`
takes what a function stores as a set of pairs of an offset and a word. `GetNext` is the four macros `GET_NEXT_*`, `CopyLoop` the loop
of `pop_payload`, `Dispatch` the generator's choice of a parser. `wire` and `lead`
are history variables: what was sent in a packet, in terms of the configuration
or of the frame, and how unevenly the parsers of a generator were served.
Batches and full queues are left to `Pipeline`; `FileFlow` is the manager's work
with the session left out.

`packet->length` is the captured length of a frame, and the parser computes the
payload's length from it and not from the length in the IP header. The bytes with
which a network pads a frame to 60 bytes are therefore payload to this program. A frame of the
model has a `payload` and a `padding`, `wire` remembers both, and `PayloadIntact` states
what the code delivers: the payload that was sent, and behind it the padding. A
reader who wants the payload alone will find this to be a difference, but
no doc or comment of the code promises it.

What the code does and the properties therefore do not promise: the parser
calls `make_flow_item_tcp` for UDP too, and what it takes for the payload of a
datagram depends on bytes of the payload (`PayloadIntact` is about TCP); a key sorts addresses
and ports independently, so a connection and the one with crossed ports share
a session (`OneSessionPerConversation` states it so); dispatch is even among
the parsers of one generator, not over all parsers when `parser_nums` is no multiple of
`generator_nums`.

### Config

A file is a sequence of lines, each a field name with the numbers found after
`=`; a last line that does not end in a newline is not read
(`Readable`). Lines are read one at a time, so that the other threads'
view of a half-reloaded configuration exists as a state. The command line is a
sequence of options. `OptionField` lists the options that `parse_args` acts on,
`OptionMeans` the fields that the options of `long_options` are named for.
`period` holds the arguments of `calc_period`. An address without `+n` leaves
the end of its range uninitialized in the code; here it is any value of
`Junk`. The editor may save or remove the file at any moment. The model is
of the Intel build: the four mPIPE settings would be four more scalars. Of
`sys_display` the countdown, the reload, the exit and the state machine are kept
(`state`, and which `screen` is drawn in it); the figures on the screen are not.

The comment in `main` orders the layers: defaults, file, command line. `Topmost`
is the value that order gives a field, defined from the options, the lines and the
defaults and not from how they are read. The program departs from it in three
cases: five options are taken and dropped (`--mhash_length` and
`--mbuffer_size` leave their case before the assignment, `--ppool_size`,
`--mpool_size` and `--mqueue_length` are compared with names that are not in
`long_options`); a blank address or port ends the reading of the file; the end of an address range
without `+n` comes from an uninitialized variable.
`LayersApplied` states that every other field has its topmost value; `Excepted`
names the three cases. None of them can be left out: without any one of them
TLC finds `LayersApplied` violated on the instance of **config_layers**. In all three the code
contradicts the comment (`simulation.c:151-156`), and the hazards of `PROJECT.json`
give the lines. An option that is not dropped decides its field even if
the file breaks off.

### LossCounters and Ipc

`send_total += pktlen` is a load and a store. `collided` remembers that two
generators were between the two at the same time.

The kernel's part of `Ipc` is external and small: an open takes the lowest free
descriptor, `accept` fails without one, a write to a client that has gone fails, a
write to a full connection waits. `open` is the descriptor table with
what every descriptor refers to; the server, the handlers and `read_config_simple`
keep numbers, as in the code, so a number can come to mean something else.
`com_fd` is the one variable whose address every handler is given;
`ReadFd` reads it as it is by then. `Spawn` and `ReadFd` are separate
steps, and `overlapped` remembers that an `accept` returned between them. `refused`
remembers that `accept` has failed, after which the code closes `listen_fd` and
calls `accept` on it again, closing in every round whatever has that number by
then. `WriteFails` ends the handler and leaves its descriptor open.

Three of the properties are conditional on these history variables, and the
conditions are the result: as long as no accept overlaps a starting handler,
every client talks to its own handler; as long as the table is not full, the reload
is undisturbed; and the table fills by finished connections alone.
When an accept does overlap, two handlers serve one client and the other client
waits for ever; when the table is full, the display thread exits or reads
a file that was closed under it, without end.

## 3. Runs

Passing runs:

- **ring_intel** (`RingIntel.cfg`): two senders, two receivers, single and batch
  calls, capacity 4, batch 2, six items. Enough for the ring to wrap, to be full,
  to be short for a batch, and for every pair of threads to be inside at once.
  Checks `TypeOK` (a receiver never returns an unfilled slot), `NoSlotRace`,
  `CountersOrdered` and the refinement `ImplementsFifo`.
- **table_safety** (`TableSafety.cfg`): two managers, two 5-tuples colliding in
  one bucket, three sessions, a cleaner that may or may not exist, payloads of one
  byte and a buffer of three, reload at any time: a third payload meets the exact limit
  and closes the session. `SessionsConserved`,
  `OneSessionPerKey`, `OnlyIdleDeleted`, `FlowsConserved`.
- **table_liveness** (`TableLiveness.cfg`): one manager, two buckets, as many sessions
  as 5-tuples, payloads of one byte and of four, a buffer of three: an append short of
  the limit, at it and past it, and a first payload longer than the buffer; a session is idle one tick after
  its last packet. `TypeOK`, `IdleSessionsDestroyed`, `FlowsHandled`.
- **pipeline_safety** (`PipelineSafety.cfg`): two generators with three and two packets,
  three parsers (so one generator serves two), one manager, generator and
  collector mode, depth switching between 1 and 4 at any time (every branch of
  the parser compares with 2 and 3, so all combinations of old and new depth
  occur). `BuffersConserved`, `ReturnedHome`,
  `OneSenderPerQueue`, `PreparedBeforeUse`.
- **pipeline_liveness** (`PipelineLiveness.cfg`): one generator with three packets, two parsers,
  batch 2, so two packets can be left over. `GeneratorsKeepSending`, `FlowsReturn`.
- **bucket_list** (`BucketList.cfg`): three nodes, three keys of which two share a
  bucket, two buckets. A bucket can hold two nodes, so a node is first, last or
  only one when it is removed, and a freed node can be linked into the other
  bucket while the cleaner holds its number. `CirclesIntact`, `WalkExact`,
  `CountWithinOne`, `PassEnds`, and the refinement
  `ImplementsOrderedBuckets`.
- **traffic** (`Traffic.cfg`): two generators, three parsers, two managers; TCP and
  UDP generation with texts shorter than, as long as and longer than the room of
  ten bytes, source addresses that pass 2^32 - 1 and source ports that pass 65535, or
  frames with IP options, TCP options, crossed ports and a datagram, one of which fills
  the packet and the others padded to the 60 bytes of a shortest frame.
  `ParsedAsSent` (which includes `TypeOK`: no cursor leaves its range), `PayloadIntact`,
  `OneSessionPerConversation`, `EvenDispatch`, `RangeVisited`. One packet per generator:
  each is sent again and again, which is where old contents could show.
- **config_layers** (`ConfigLayers.cfg`): nine contents for two files, a blank address or port and open
  ranges among them, six command lines, one with a dropped option, three rounds of
  the display loop, two actions of the editor. `LayersApplied`,
  `StartedAsConfigured`, `ReloadInForce`, `ScreenFollows`. The
  program ends, so deadlock is not checked.
- **ipc** (`Ipc.cfg`): two clients that come and go, two generators, four descriptors
  (standard output, the listening socket and two more, so two connections, or
  one and the configuration file, fill the table), one unread message per connection. `LossOnlyByCollision`,
  `OwnClient`, `HandshakeFirst`, `ReloadUndisturbed`, `RefusesOnlyWhenFull`,
  `ClientsServed`. The program exits when the file
  cannot be opened, so deadlock is not checked.

Runs in which the code contradicts its documentation:

- **ring_tile_refusal**: the parser queue of the Tile build, one sender without a mutex
  and one batch receiver without a mutex, against `Fifo`'s `Spec`. Two
  items are queued, a batch of two is asked for, the call fails. `queue_tilegx.h` says that
  a dequeue fails when the queue is empty. On the same instance TLC finds no violation of `LosesNothing`.
- **table_exhausted**: with fewer sessions than live 5-tuples in a bucket, the
  manager holds the bucket's lock and spins for a session, and the cleaner
  waits for that lock. The pool has 65536 sessions, the table has no other bound.
- **pipeline_stall**: a generator with no more packets than its parsers may leave
  over. 1024 packets and a batch of 64: 17 parsers per generator (16 on the
  Tile build). The run may end in a state where nobody moves, so
  deadlock is not checked; the violated property is the liveness one.

### Fairness

Threads are scheduled: weak fairness of every generator, parser, manager and
cleaner step. A mutex that is released again and again is eventually obtained,
and a parser spinning on a manager queue that other parsers also fill eventually
finds the room: strong fairness of `LockBucket`, `CleanerLock` and
`ForwardFlow`. The bucket lock is a `pthread_mutex` in both builds. POSIX does not
promise that a waiting thread is ever served while others take the mutex again and again, so for the locks
this is an assumption about the platform and not a fact about the code: among
the releases of a bucket, one is followed by the waiting thread. Manager and cleaner both do other
work between two acquisitions of the same bucket.
The clock ticks. In `BucketList` both threads' steps are weakly and both locks
strongly fair, for the same reasons. In `Traffic` generators, parsers and
managers run. In `Ipc` the accept loop, the first steps of
a handler and the client's first read are weakly fair as long as the program runs; more is not needed. Nothing is assumed of the
reload, of the arrival of flows and frames, of when clients come and go or of the editor.

### Bounds

`CountBound` limits the items sent through one ring, `Flows` the flow items in
the session table, `Rounds` and `MaxSaves` the display loop and the editor,
`MaxPackets` the packets a generator counts in `Ipc`, `MaxFd` and `SocketBuffer`
stand for the limits of the operating system. All other sets are constants of the instance. Symmetry is used in the safety runs
only: threads of one side and items of one pool are interchangeable.

## 4. Proofs

`RingQueueProofs` proves, for any numbers of senders and receivers, any ring and
batch size, either build and every combination of mutexes allowed by
`RingAssumption`:

- `TypeCorrect`: `Spec => []TypeOK`;
- `SlotsAreRaceFree`: `Spec => []NoSlotRace`;
- `CountersStayOrdered`: `Spec => []CountersOrdered`.

All three assume `NoWrap`: the counts stay below `Narrow`. It cannot be dropped:
the batch functions keep the 64-bit count in a 32-bit local, and a batch dequeue after the
count has passed `Narrow` writes back a count without its upper half. In the
program this takes 2^32 items through one queue; the display loop ends the
program after about 100 seconds, so today it is out of reach, and it becomes
real when the loop no longer ends.

None of the three is inductive. `IInv` adds what each thread's check has
reserved. A sender past its check has room for all it brings: the bound holds
with the `dequeue_count` it read and `dequeue_count` only grows. Its local
count is the shared count plus what it has stored, and only it can move the
shared count, because it holds the mutex or is the only sender (`Exclusion`).
The same holds for receivers with `enqueue_count`. `Filled` says that the slots between the
counts, and those a sender has stored but not published, hold items. Then a
sender writes at a count in `enqueue_count .. dequeue_count + Capacity - 1` and a
receiver reads at one in `dequeue_count .. enqueue_count - 1`; the two differ by
less than `Capacity`, and `ModDiffer` turns that into different slots. One lemma
per action shows that it preserves `IInv`.

`RingRefinement` adds `Stored` (what a sender has stored of its offer lies, in order,
behind `enqueue_count`) and `Copied` (what a receiver has copied is still the
front of the queue) and proves `RingImplementsFifo`: `NoWrap /\ ~Tilera => (Spec =>
ImplementsFifo)`, and `RingLosesNothing`: `NoWrap => (Spec => LosesNothing)`. Publishing
is `Fifo`'s put, releasing its get, a refusal happens at the check, and every other step leaves the
abstract state alone. The two share all steps but the receiver's refusal, which on the Tile
build is `Refuse`.

`SessionTableProofs`, for any numbers of managers, buckets, sessions, keys and
flows: `SessionsAreConserved`, `KeysAreUnique`, `IdleStayIdle`, `FlowsAreConserved` and
`TypeCorrect`; payloads may have any length (`CurLens`: what an append leaves in a session is short
of the buffer, anything longer is a first payload). The argument of the others is the bucket lock. `Locks` says that whoever holds a lock is
working on that bucket, inside the critical section; `Hands` and `Placed` that a
session in no list and no pool is in the hand of one thread which holds the
lock; `Fresh` that the session about to be linked is the only one of its key
(`find_list` said so, and the lock has been held since); `Counts` that `bucket->count` is
one ahead of the list exactly between `list_del` and the decrement. A second
invariant, `FInv`, counts the flows and packets on their way with the cardinality of a set of places.

`PipelineProofs`, for any numbers of threads with `generator_nums <= parser_nums` (`main`
refuses others), pools of any sizes up to `Capacity` (they are filled once with what
fits) and any sequence of depths: `PipelineTypes`, `BuffersAreConserved`,
`BuffersReturnHome`, `QueuesHaveOneSender`, `PacketsArePrepared`. Positions in a queue shift
with every operation, so the inductive invariant is about sets: a queue without repetitions is the
set of its elements, every item is in exactly one place (`Partition`), and every action moves a set from one
place to another. `Homes` says that a parser only ever has packets of
the generator congruent to it, which is why returning a batch to the pool of
its first packet is right; `Preparing` that a generator has its whole pool in hand while it
prepares and that what has gone round is at the end; `Phases` what
each thread holds at each place, in particular that a flow's packet is counted with the
flow until it is recycled.

`ConfigProofs`, for every file, command line, number of rounds and behaviour of the editor:
`LayersAreApplied`, `ThreadsStartAsConfigured`, `ReloadsAreInForce`, `ScreenAlwaysFollows`.
`LayersApplied` speaks of the layers as documented; the proof first shows what reading line by line and option by option
leaves in a field (`Layered`), and `LayeredIsTopmost` then that this is the topmost value unless the field
is `Excepted`. The
invariant says at each line and each option that `cfg` holds what those read so far determine
(`FileRead`, `OptionsRead`), that only the four reloadable fields change later (`Settled`), and, for
the reload, that the same is true of the reread lines as long as the file carries the remembered
time stamp (`Reloaded`). `Clocked` ties the clock to the countdown, which bounds the time stamps.

`IpcProofs`, for any numbers of clients and generators and any table size:
`CountersLoseOnlyByCollision`, `HandlersKeepTheirClients`, `HandshakeComesFirst`,
`ReloadsAreUndisturbed`, `RefusalMeansFull`. `Counters` says that what a generator is about to
store is at most what has been sent, and without a collision exact. `Table` and
`Server` say who owns each descriptor; a connection's descriptor is never closed by its handler, so it means one client for good.
`Mine` is the condition `~overlapped` at work.

`TrafficProofs`, for any numbers of generators, parsers and managers, any pool and packet size, any text, range
and frame that `TrafficAssumption` allows: `FieldsAreFound`, `PayloadIsFound`, `ConversationsMeet`,
`DispatchIsEven` and `TypeCorrect`. The code checks none of these assumptions: they are about the
configuration and the network. A packet has room for the headers and for some payload (`pktlen` above 58), a
text is not empty, the header lengths of a frame are legal, and a frame with its padding fits the packet.
The shipped `generator.conf` has `PKTLEN=1520`, which takes any Ethernet frame without jumbo frames; a
collector that runs on the default of 600 copies longer frames past the end of the
packet (`packet_generator.c:424`), and nothing here holds of it. The proof has two halves.

The first is about the operators, without any state. `PlusFacts` and `ModRange` unfold the recursive functions as
`TheWalk` does (below), `NumOfWord` says that a header length survives its bit field, `CopyLoop` of a text
is the text repeated to the room, byte by byte. Then come the packets: `TcpReady` and
`UdpReady` describe what `make_all_packet` leaves in a buffer, `Sent` what the parser must be able to
find in it, and lemmas show that a ready packet with the cursors written into it is `Sent`, that a
frame is, and that `Sent` is all the parser's computed offsets need. The upper and lower of two words depend
on the pair and not on its order, and determine it; so does the hash, and hence manager and bucket.

The second half is the inductive invariant `IInv`, six conjuncts. `Types` is the type invariant with the
domains that the proofs need. `InTurn` says that the parsers `next_thread_id` has passed in this round are
one packet ahead of those it has not. `Placed` says that every packet is in exactly one
place, a pool, a parser's queue or a manager's: without it a generator that writes into the first packet of its pool
might be writing into one that is on its way, and `ParsedAsSent` would not be preserved. `Preparing` says that the pool goes round
once while it is prepared and that what has gone round is ready; since later trips write only cursors, or in
collector mode the whole frame, it stays ready. `OnTheWay` says that packets in the queues are `Sent`, and `Filed` that a flow
item is still what the parser would make of its packet and lies where its hash says. TLC has checked `IInv` on the
constants of the run **traffic**. One lemma per action shows that it is preserved.

`BucketListProofs`, for any numbers of buckets, nodes and keys: `CirclesAlwaysIntact`,
`CountAlwaysWithinOne`, `WalkAlwaysExact` and the refinement `ListsImplementBuckets`: `Spec =>
ImplementsOrderedBuckets`. The chain of a bucket is a walk along `next`, a recursive function. `TheWalk` shows that
whatever satisfies its equations is the walk (a least index at which two solutions differ cannot exist),
so the proofs need no recursion from there on: a `Circle` is a sequence of distinct nodes whose
pointers lead from the head through it and back, `CircleChain` says that such a sequence is the chain, and
`LinkedCircle` and `UnlinkedCircle` that the writes of `list_add_tail` and `list_del` make a circle
of it with one node more or less; `SameCircle` that the other circles do not notice. The invariant `IInv` adds
to this who holds which lock (`Locks`), that a node in a hand is on no circle (`Hands`), how far the
manager has searched (`Searching`), the keys in each bucket (`Filed`), the counts (`Counted`) and the walk of the cleaner
(`Walking`): what it has seen, followed by what is left from its cursor on, is what it
started with. `Walking` survives the manager's steps because the manager cannot be in a
locked bucket, and a node that the cleaner has freed can only be linked into another one.

Only model-checked, because the proof system has no rule for fairness: the liveness properties `IdleSessionsDestroyed`, `FlowsHandled`,
`GeneratorsKeepSending`, `FlowsReturn`, `PassEnds`, `RangeVisited` and `ClientsServed`. Every invariant
and refinement that a passing run checks is the statement of a theorem.

## 5. Not modelled

- Pacing by `speed_mode`: a delay is a step like any other.
- Output: `parse.c`, the figures on the screen and the speeds computed for it.
- Checksums: the calls of `ip_xsum` are commented out and the result of
  `crc32_32` is dropped, so nothing depends on them.
- `mpipe.c`, which only calls the vendor's library, and the headers of the inac
  library; a frame that either delivers is a step of a collector.
- Functions that nothing calls: `hash_lookup_item`, `process_session`,
  `make_flow_item_udp`, `drop_ratio`, `destroy_*`, `finish_*`.
- Memory beyond a buffer. A frame longer than the packet is excluded by
  `TrafficAssumption`. A first payload longer than the session buffer happens in the model
  and is recorded in `cur_len`, but what lies behind the buffer is not there to be overwritten. The client's copy of several records into
  one and the search of `get_update_speed` for a digit change nothing else in the model.
- Payloads of negative length, which the parser may compute for a datagram.
- Sessions of a program that was started with a `pipe_depth` of at most 4 and reloaded with more:
  no cleaner exists (`packet_manager.c:204`), so nothing destroys them by time. `table_safety` covers
  that state; the liveness runs start with a cleaner.
- `malloc` does not fail. The cycle counters of different cores are taken to
  agree: `OnlyIdleDeleted` depends on it, since `delete_session` subtracts one core's
  reading from another's.

## 6. Plan

Done: all modules, and the theorems of section 4.

Open: the wrap of a count in a 32-bit local (`NoWrap` in section 4) is stated as an assumption and has
no property of its own; it becomes worth one when the display loop no longer ends the program.
