# Verification of smmboss2

smmboss2 hooks a game on a console and lets clients look into it while it runs.
A module injected into the game (`src/exlaunch/source/program`) serves two kinds
of websocket: an *RPC* connection, over which a client reads and writes memory,
sets flags and configures a memory monitor, and the *hose*, over which the game
streams what happens in each frame.  A web client (`src/webclient/client.html`)
draws the stream, python tools (`src/py`) inspect the game's data structures.

This directory holds TLA+ models of the parts of it whose correctness depends on
the order in which things happen, the TLC runs that check them on small
instances, and proofs, checked by TLAPS, of the properties that matter most for
every value of the constants.  Paths below without a directory are in
`src/exlaunch/source/program`.

## The system's parts

| part | where | state | operations | what makes it correct |
|---|---|---|---|---|
| hose | `serve.hpp:69-153`, `serve.cpp:337-519` | ring buffer, write and read offsets, pending and current socket, event, backpressure switch | `write_packet`, `do_iter`, `push_fd`, `set_enable_backpressure` | every connection gets a gapless piece of the packet stream; losses are marked; no assertion fails; nothing unsent is overwritten; no socket leaks; the game is not held up for ever |
| memory monitor | `serve.cpp:205-331` | three configuration buffers, two indices in one atomic byte | `set_config`, `do_reads` | writer and reader never share a buffer; the newest accepted configuration is used |
| flags and pause | `serve.hpp:159-184`, `serve.cpp:651-668, 811-816`, `main.cpp:641-679` | one atomic word, a mutex and a condition variable | `SET_FLAGS`, the frame hook | no lost wakeup, no lost flag, the paused game stands |
| StupidHash | `stupid_hash.hpp` | dense entries, doubly linked buckets | `lookup`, `remove`, `clear` | it is a map of bounded size |
| RPC server | `serve.cpp:521-775` | per connection a state, mongoose's buffers | one handler per request type, hand-over to the hose | one answer per request, in order; a hose socket leaves mongoose only when its upgrade answer is out |
| memory regions | `serve.cpp:89-200` | cached list of mapped regions | `accessible_bytes_at`, `safe_memcpy` | no access outside mapped memory |
| collision reporter | `main.cpp:449-667` | three StupidHash tables | hooks on the game's collision code | the client's picture equals the game's |
| libc shims | `syscalls.cpp` | lock words of recursive mutexes | lock, unlock, condition wait | mutual exclusion and recursion depth |
| python client | `src/py/rpc_guest.py` | connection, queue of futures | `send_and_recv`, receiving threads, reconnect | answers reach their requests |
| python caches | `src/py/guest_access.py:71-188` | chunks of memory, results by key in memory and in a file | `try_read`, `try_write`, `get` | reads are true; a result is kept once |
| web client | `src/webclient/client.html:559-1950` | connections, pending requests, maps of colliders | connect, kill, `rpc`, `parse` | as above, and the picture survives overruns and reconnects |
| hooking library | `src/exlaunch/source/lib` | trampoline pools, address reservations | hook installation | no overlap, limits respected |

How they interact: the **game thread** runs the hooks and is the only one to
write packets.  The **hose thread** (`hose::thread_func`) is the only one to
send them.  The **RPC thread** (mongoose) handles requests.  They share no lock
but one mutex for the pause; everything else crosses threads through atomics:
`write_info_` and `read_offset_` (game and hose thread), `new_fd_` (RPC to hose
thread), `atomic_state_` of the triple buffer and `g_cur_rpc_flags` (RPC and
game thread), and the event `sent_event_`.

What is hard: the ring buffer's two offsets are read at different times by two
threads that both act on old values, while a third replaces the connection; a
packet's size is computed in one pass over live data and its contents in
another; a full ring must leave room for one marker, always; the pause must not
lose a wakeup; hash entries move under the links that name them.

The hazards, each at its line and with the properties that watch it, are listed
in `PROJECT.json`.

## The modules

### Hose (`Hose.tla`, `MCHose.tla`)

The three threads are `Writer`, `Reader` and `Rpc`.  A step is what happens
between two accesses to shared state.

| code | model |
|---|---|
| `write_info_`, `read_offset_`, `buf_` | `writeInfo`, `readOffset`, `buf`; a byte is a pair: which packet, which place in it |
| `new_fd_`, `cur_fd_`, `sent_event_`, `enable_backpressure_` | `newFd`, `curFd`, `sentEvent`, `backpressure` |
| locals of `do_iter` | `rpc` (place), `rInfo`, `rRead` |
| locals of `write_packet` / `reserve_space_and_write_header` | `wpc` (place), `wBody`, `wOverrun` (the nested call of `write_overrun`), `wInfo` |
| `do_iter` | `LoadOffsets`, `TakeNewFd`, `DropBuffer`, `NoNewFd`, `DiscardUnread`, `Send`, `SendFails`, `StoreReadOffset`, `SignalSent` |
| `write_packet` | `WritePacket`, `ReserveSpace`, `NoRoom`, `WakeByEvent`, `WakeByTimeout`, `Fill`, `Publish`, `Discard` |
| `push_fd`, `set_enable_backpressure` | `PushFd`; `SetEnableBackpressure`, `SignalDisabled` |

A failed assertion of the code leads to the place `"panic"`.  `losses`, `log`,
`recv`, `pushed` and `closes` are history variables that only properties read.
The atomics are sequentially consistent in the model; the code pairs every
release store of an offset with an acquire load on the other side, and the
relaxed loads are of variables their own thread wrote or, for `new_fd_` and
`enable_backpressure_`, of independent words.

### PacketStream (`PacketStream.tla`)

What the hose promises: a queue of bytes filled by whole packets, drained by one
connection at a time; a connection begins with a packet and gets everything
after it.  `Hose!ImplementsStream` is the refinement, with the unread part of
the ring as the queue.  The mapping moves the read position when bytes are sent
or a connection is taken, not when `read_offset_` is stored.

### MemMonitor (`MemMonitor.tla`)

`PrepWrite`, `ZeroBuffer`, `Copy` and `PostWrite` are the steps of `set_config`;
`PrepRead`, `SizePass` and `WritePass` those of `do_reads`, whose callback runs
twice with a wait for room of any length in between.  A configuration is a model
value; `Invalid` are those that fail the size comparison after the copy or
`validate_config`.  Requests come as fast as a client likes.  The history variable
`hasty` remembers whether one came before a frame had picked up the configuration
accepted last, and `Jammed` is the state that this may lead to, both indices 1, in
which `prep_write` gives every request the buffer in use.  `OnlyHastePanics` says
that nothing else leads to it; `ConfigStable` and `NewestRead` hold until it is
reached, hasty or not.

### RpcFlags (`RpcFlags.tla`)

`Request` to `SetEnableBackpressure` are the steps of the SET_FLAGS handler,
`TestPause` to `RunFrame` those of the frame hook: the test of PAUSE, the wait
with its mutex and spurious wakeups, the two-step `test_and_clear_rpc_flag`.
`atomic_update` is a load (`LoadFlags`) and compare-and-exchanges that fail
(`FailExchange`) until one succeeds (`ExchangeFlags`); the game thread may change
the word between any two of them.  `Asks` are the pairs of flags to clear and to
set that clients send.  The history variable `asked` is what the word should be:
the requests' changes one after another, less each full dump that a frame has
gone to send.  `FlagsAsAsked` compares the two, so that an update lost between the
other thread's load and store shows.

### StupidHash (`StupidHash.tla`) and BoundedMap (`BoundedMap.tla`)

Entries, counts and heads as in the code, indices from 1 with 0 for none.  Each
iteration of `lookup`'s loop is a step, so that its assertion is checked at every
entry; `remove`, `clear` and a write to a value are one step each, since one
thread uses the table.  `born` and `clock` record when a key was inserted; they
state the order of a bucket.  BoundedMap is a map of bounded size without order
or links, which the table implements (`ImplementsMap`).  In both a lookup is called
with a key and returns later; `call` in BoundedMap is that key, and every answer
(found with this value, absent, full, inserted) is about it: what the code's
fuzz test compares key by key (`stupid_hash.hpp:246-265`).

### LossyHose (`LossyHose.tla`)

What the parts around the hose need to know of it: a queue of whole packets that
may lose one and then marks the loss, and a connection that is pending, adopted
(dropping some of what is queued) or gone.  It is PacketStream plus losses; the
two modules below extend it.  `Queue` is everything on its way to the client, the
packets published and the ones the running hook has yet to write (`todo`), and
`LastWord` says which of two kinds of packets in it the client will hear last.

### CollReport (`CollReport.tla`)

The hooks on the game's collision code, the full dump, the cached dumps and the
web client's maps.  `AddToGrid`, `RemoveFromGrid`, `ScolHook` and `FrameStart`
are the hooks; each leaves the packets it writes in `todo`, and the hook after it
waits until they are written, since one thread runs them all.  `ReviewDump` is
the callback in which `write_cached_dump` hashes a packet, `LoseDump` the case in
which it never runs and `ret` is tested unassigned.  A hash is the contents it
stands for.  `Parse` is `HoseParser.parse`; the client keeps its maps when it
reconnects and does not empty them on "allcols", a tag it does not know, so a
collider that went away while nobody was listening stays in its picture.  No
property claims otherwise: `NothingMissing` is one-sided for that reason, and
`PictureExact` speaks of the first connection, and of tables that had room for
every collider so far (history variable `full`; `offAgain` records whether the
flag was ever switched off, for `TablesSound`).  `Steps` is the next-state relation
with the game's objects as parameters, so that the instances of `MCReporter` can
follow few of them while `Next` has them all.

### HitboxReport (`HitboxReport.tla`)

The hitbox hooks and the frames of the client.  A game frame runs every world
once in any order; the client ends its frame when world 0 reports.
`s_hitboxes_this_frame` may be full, then a hitbox is reported again and again.

### RpcServer (`RpcServer.tla`)

The callback of `serve.cpp` on mongoose's loop.  `mg_mgr_poll` visits a
connection in three steps, `ReadConn`, `Write...` and `CloseConn`; a read handles
any number of messages that have arrived, a write sends any number of messages
and perhaps part of the next.  A read may fail and what waits still be written in
the same visit (`ReadFails`, then a write, `mongoose.c:7911-7912`); a write may fail
too (`WriteFails`).  Clients send what they like: several HTTP requests
(`OpenWith`), frames on any connection, also before the upgrade is answered or on
one that belongs to the hose (`Ask`).  `OnFrame` is what mongoose does with PING and
CLOSE itself; bytes that are not HTTP where HTTP is expected drain the connection
(`OnHttpData`, remembered in `junk`).  A message in the send buffer is its kind, its
length and where its body begins, which is what READ gets right or wrong when
less was accessible than asked for; lengths are the real ones (65536, 2048, the
boundaries of the websocket header).  A READ of type `starved` finds no memory for
the buffer (`serve.cpp:599-602`).  `OnHttp` includes what `mg_ws_upgrade` does
when it refuses.  The model takes what mongoose reads from a connection it has
just freed, in the write event of a hand-over, to be the zeros it left there.

`HandedOverClean` names what a connection of the hose has received: 404s, the
answer to its request for `/ws/hose`, then only control frames.  That answer is the
101 that begins a websocket stream, unless the request had no key; then it is the
426, and the connection is handed over all the same, see below.

### MemRegions (`MemRegions.tla`)

`load_cached_regions` one kernel query at a time while the game maps memory,
`find_cached_region` with `std::lower_bound` as libstdc++ and libc++ run it, one
comparison per step (`Halve`), and `safe_memcpy`, in an address space of `Space`
addresses with arithmetic modulo `Space`.  The last address stands for the
kernel's block that ends at 2^64, which `svcQueryMemory` reports as reserved and
inaccessible; since it is not of type `MemType_Unmapped` the server lists it, with an
end of 0.  `MappedIsFound` says what the search finds nevertheless: everything but,
if it happens to have compared that block (`HiddenByTop`), the region listed before
it.  `EverythingFound` is the statement without this exception, which is false.

### RecursiveLock (`RecursiveLock.tla`)

The recursive lock of `syscalls.cpp` over the console's plain lock, one step per
access to its three fields, and the wait on a condition.  `Spec` leaves the
try-lock out; `SpecTrying` adds it.

### PyRpcConn (`PyRpcConn.tla`)

`RPCConn` and `RPCGuest.send_and_recv` of the python client: callers, the sending
lock, the queue of futures, one receiving thread per connection, reconnecting and
the retry.  The server answers in order and may close.

### WebConn (`WebConn.tla`)

`WSWrapper` and `RPCConn` of the web client.  An action is one event of the
browser with all continuations that run before the next; `RawRequest` is a call,
`ServerAnswers` what the server does with it.  A call that finds the connection
closed subscribes to the signal one microtask later (`tested`, `Subscribe`), and a
kill in the same task may come between: the signal then takes no notice, and the
request is in `late`.  `socket` is the wrapper's `ws`,
`result` what became of each request.  The user may disconnect in any state;
`killedIn` remembers in which, since a wrapper killed while it connects behaves
differently (see below), and `AssertionsHold` and `KilledCloses` leave that case
out.  `WebInv` is the conjunction of its invariants, and inductive.

### CachingGuest (`CachingGuest.tla`)

`CachingGuest` over a backing guest of which some chunks cannot be read and fewer
can be written, in either mode (`imaginary`); `chunk_cache` is its `cache`.  `seen`
is what the caller is entitled to read, and `refused` are the cached bytes whose last
write the guest refused, which the cache shows as if they had been written
(`guest_access.py:128`).  `GuestInv` says that the caller reads what it is entitled
to everywhere else, and that imaginary mode forgets no write.  It is inductive.

### PersistentCache (`PersistentCache.tla`)

`PersistentCache` for several processes with several threads: loading the file of
earlier sessions (`Start`), the lock of the process, the lock on the file, the
position of each file object, `load()` in its two halves (`Forget`, `Load`), the
buffered line.  `get` ends with `return self.cache[key]` after the lock is given back
(`Release`, `Return`); a thread overtaken there by another one's `load()` finds the
cache empty and raises `KeyError` (place `raised`).  `lapped` remembers who was
overtaken, and `OnlyLappedRaise` says that nobody else raises.

### HookPool (`HookPool.tla`)

`AllocForTrampoline` and its use by `Hook`.  "TODO: thread safety" says the code;
the increment is atomic, so the model lets threads install hooks at once.

### Modules that put components together

`MCRequests` (flags, monitor, hash table), `MCReporter` (reporters), `MCServer`
(connections), `MCClients` (python and web clients) and `MCPlatform` (lock, hooks,
memory regions) hold the instances for TLC.  Each takes the components of one side of the system; those
of one module share no state, so that the behaviours of their product are
nothing but interleavings of independent ones.  A variable `part`, chosen at the
start and never changed, says which component a behaviour follows, and the others
keep their initial values: the states add up instead of multiplying.  The five
instances of `MCReporter` use the same variables for queue, connection and client,
one instance at a time.

## The runs

| run | question | instance | states |
|---|---|---|---|
| `hose_safety` | assertions (`NoPanic`, a part of `IInv`), overwriting, stream contents, losses, sockets; is it a packet stream? | ring of 8 bytes, bodies of 0 and 1, 2 connections (symmetric), 4 packets, at most 2 bytes per `send` | 2,455,287 |
| `hose_fair` | does every write return under backpressure?  does switching it off free the game from a stuck client? | ring of 10 bytes, one connection, 3 packets | 74,952 |
| `hose_wakeup` | is the timeout needed only for statistics? (no) | ring of 8, one connection, 4 packets | violation |
| `requests` | pause, backpressure, flags, answers (`FlagsServed`); the triple buffer at any pace; are buckets complete (`IInv`)?  is the table a map, key by key?  do lookups end? | all four flags, 3 requests; 3 configurations, one refused, 5 requests; 4 keys, 2 buckets, 3 entries, 4 insertions, 2 values | 347,833 |
| `monitor_unpaced` | does the assertion of `post_write` hold at any pace? (no) | 3 configurations, one refused, 5 requests | violation |
| `reporter` | tables, the client's picture, references to dumps, ordered dumps, hitboxes | see below | 909,310 |
| `server` | who owns a socket, what has been sent on it, one answer per message; is a refused connection closed? | two connections: one whose client asks for RPC or the hose and sends 3 messages, HTTP included, of lengths at the boundaries; one that asks for the hose with or without a key or for another page and sends 2, PING and CLOSE among them; 2 ahead | 323,758 |
| `clients` | do answers find their calls, are reads true, does every call end? | see below | 154,143 |
| `platform` | exclusion; does everybody get in?  are trampolines distinct?  what does `safe_memcpy` copy, and what does it miss? | 3 threads, depth 2; 3 installers, 7 hooks; 6 addresses, the last reserved, 2 mappings | 153,594 |
| `py_stale` | do answers find their calls also when a connection breaks? (no) | 2 threads, 2 calls each, 3 connections | violation |
| `recursive_lock_try` | does the try-lock exclude? (no) | 3 threads, depth 2 | violation |
| `regions_reserved` | is all mapped memory found? (no) | 6 addresses, the last reserved, 2 mappings | violation |

`reporter` follows one of five instances.  *picture*: two colliders, flags set and
cleared, a queue of two packets, losses, one more connection.  *dumps*: two sensor
colliders with two contents for a table of one, a queue of one packet, losses, one
more connection, flags never cleared.  *order*: two colliders and one sensor
collider with one value, backpressure (no losses), flags never cleared.  *full*:
three colliders for a table of two, otherwise like *order*.  *hitboxes*: three
hitboxes in two worlds, a table of two, a queue of one packet, losses, one more
connection.

`clients` follows one of four.  *conn*: two python threads, one calls twice and
one once, over three connections.  *cache*: two processes, one with two threads,
two keys, three calls, a file that is empty or has one line.  *web*: three requests
over three sockets, kills in any state.  *guest*: three chunks of two bytes of which
the middle one cannot be read and only the first can be written, two values, nesting
of two, both modes.

Why the bounds are enough.  With a ring of 8 bytes, an overrun packet of 2 and
packets of 2 and 3 bytes every relation of reader, writer and end of buffer
occurs: four packets fill the ring, wrap it and lap the reader's snapshot once,
and a fifth lap would repeat relations between values of the same offsets.  The
overrun packet in the code is 10 bytes, its header included; the model keeps
only that its size is what `OVERRUN_PACKET_SIZE` says.  Two connections are what
a hand-over involves.  The proofs remove these bounds for everything but
liveness.  Three requests are enough for one that sets,
one that clears and one that races; five configurations take the triple buffer
through every pair of indices.  Three entries in a table with
two buckets are the fewest for which the entry moved by a removal can be the
removed one's neighbour, the head of its bucket, or in the other bucket; a
fourth insertion reuses an index.

In the reporter a queue of one or two packets makes a hook wait in the middle of
its packets; losses may come at any of them, and one more connection is what a
reconnect needs.  Two sensor colliders in a table of one slot, or three colliders
in one of two, make an entry fail;
two contents make a dump differ from the last.  Two worlds are the fewest for
which the order matters, three hitboxes with a table of two the fewest that
overflow it.  The server's request lengths lie on both sides of the boundary of
the header that READ meets, and two of the longest do not fit together; both are
sent ahead and handled in one read.  One connection makes use of the server while
the other gets in its way: it takes two for sockets to meet in `new_fd_`, and a
third message on the first is what a request, an answer and an error behind it
need.  Six addresses hold two blocks of different
permissions, a gap, and the reserved block behind them; two mappings can happen
inside one load.  One line in the file of the cache is enough to find a key there
or not.  Two callers and
three connections let one caller break, another reconnect and the first retry.
Chunks of two bytes have a first and a last byte; three of them have a middle one.

CHECK_DEADLOCK is off in `server` and `clients`, where connections close and
bounded numbers of calls end and nothing is left to do (`RefusedIsClosed` and
`ClientsSettle` say that nobody waits then, but a web request killed before it
subscribed), in `py_stale` for the same reason, and in `recursive_lock_try`, where a failed try-lock really leaves
the plain lock taken.  It is on everywhere else; `platform` says in `HooksDone`
where the installers really stop.

### Fairness

`hose_fair` (`Hose!FairSpec`): the game thread goes on while it is inside
`write_packet`, nothing else.  What the client and the hose thread do is in the
properties: `EveryWriteReturns` speaks of behaviours in which the client keeps
reading (`ClientReads`: the hose thread goes on, and `send` takes a byte or fails
again and again), since with backpressure on and a client that never reads the
game waits, which is what the flag is for; `OffReleasesWriter` holds without it.
Packets with their marker take no more than half the ring of 10 bytes: a larger one
may find an empty ring whose offsets lie so that it fits on neither side, and then
waits for ever.

`requests`: both threads keep running once they have something to do, and the
mutex is not withheld from the RPC thread for ever (strong fairness of `LockMutex`;
only unbounded spurious wakeups could do that).  Clients need not send anything,
spurious wakeups need not come.  A lookup in the hash table that has begun goes on.

`reporter`: the hose thread sends, the client reads and the game thread finishes
the packets of a hook, as one action, of which one step or another is taken; frames
keep coming (strong fairness of `FrameStart`, since other hooks run in between).

`server`: the loop visits every connection again and again, and clients read what
is sent; `RefusedIsClosed` needs that, since a connection drains only as fast as
its client reads.

`clients`: whoever is inside `get` goes on if anybody can; the web server answers,
the browser delivers, timers fire, a socket told to close does, one or the other
whenever there is something to do.  Nothing makes an open socket close.  Weak
fairness of the whole is enough because calls and sockets are bounded: nobody can
keep a lock from another by calling again and again.

`platform`: threads inside go on, sleepers are woken, and the plain
lock is given to a thread that asks again and again (the console's lock queues its
waiters).  A thread inside releases, and who nests and releases for ever releases the
last time in the end (strong fairness of the release from depth 1, by whichever
thread).

### What the violations show

*The triple buffer* (`monitor_unpaced`, a bug).  `prep_write` takes buffer
`2 - inuse_buf_idx` when both indices are equal.  For 0 and 2 that is the other
end; for 1 it is the buffer in use.  Two requests between two frames make 1 the
next buffer, a frame takes it, and the third request overwrites it under the
reader and then fails the assertion of `serve.cpp:243`, which stops the game.
While the game is paused no frame picks up configurations, and
`rpc_guest.py:monitor` resets the configuration when it ends, so two requests
between two frames are nothing unusual.  `OnlyHastePanics` in the run `requests` is
the other half: a client that waits for a frame between two accepted configurations
never sees it.

*The top of the address space* (`regions_reserved`, code and comment differ).  A
comment says that unmapped addresses are looked up afresh, since "non-mapped things
might be mapped later" (`serve.cpp:159`).  The kernel's last block ends at 2^64, is
reserved and therefore listed, and its `start + size` is 0: the binary search takes
it to end before every address.  When the search compares it, it goes past the
region listed before it, and a request for mapped memory there is refused.
`MappedIsFound` says that this is the only region that can be missed.

*The timeout* (`hose_wakeup`, code and comment differ).  A game thread that
waits for room is woken by `sent_event_` after every `send`.  When the hose
thread drops the buffer for a new connection it makes all the room there is and
signals nothing, so the game stands until its 500 ms timeout, which according to
its comment is there for the statistics.

*The recursive try-lock* (`recursive_lock_try`, a bug) takes success for failure.

*Broken python connections* (`py_stale`, a bug).  A waiting call gets the answer
to an earlier request.

### Seen while modelling

The properties above are stated so that they hold; what they leave out is often a
case in which the code does something else than its comments say.  These have no
run of their own:

- When a dump finds no room, `write_cached_dump`'s callback never runs, `ret` is
  returned unassigned (`main.cpp:516, 530`), and a reference to a dump that was
  never sent may follow; the client expects that only "right when connecting"
  (`client.html:1914`).  `ReferencesExact` ends with the overrun.
- A collider that dies while SEND_COLL_STUFF is off stays in `s_colliders`
  (`main.cpp:563`); a full dump reads it, and its successor at the same address is
  "added but already in s_colliders".  `TablesSound` asks for the living only where
  the flag stays on.
- `s_hitboxes_this_frame` is cleared only if the flag is set when the frame begins
  (`main.cpp:642, 656`); set within a frame, hitboxes of an earlier one count as
  seen.  `HitboxesSound` (its part `CollisionsResolve`) speaks of frames that began
  with the flag.
- The hand-over state is set before `mg_ws_upgrade` decides (`serve.cpp:701-702`): a
  request without a key is answered 426 and then handed to the hose.  It is the
  exception named in `HandedOverClean`, and happens in the run `server`.
- A hose client that sends a message before its 101 is out has its connection
  drained, and the hand-over takes the socket all the same (`serve.cpp:710-722`): the
  message's effect is lost.
- A READ too long for the empty send buffer is refused as "overstuffed", like one
  that meets too many others (`serve.cpp:597-607`), and the python client repeats
  it for ever (`rpc_guest.py:188`).
- A python call between `send` and `put` when the receiving thread ends fails with
  `queue.ShutDown`, which the retry does not catch (`rpc_guest.py:53, 165`).
- A web connection killed while connecting forgets its socket, which then opens and
  fails an assertion (`client.html:804-810, 829`); the retry after an error answer
  stops at an undefined variable (`client.html:931`).
- A web request that found the connection closed and whose connection is killed
  before it has subscribed waits for ever (`client.html:664-666, 910-912`).
- A cached chunk keeps data that the guest refused to write (`guest_access.py:128`):
  a later read of the same chunk shows it, until the chunk is dropped.  These bytes
  are in `refused`, and `ReadsAreTrue` exempts them.  An overlay write next to
  unreadable memory fails `assert chunk is not None` (`guest_access.py:124`).
- `PersistentCache.get` reads `self.cache[key]` after it has given back the lock
  (`guest_access.py:188`); a `load()` of another thread makes it a `KeyError`.
- The file of persistent results is read from its end, and its lock released before
  the line is out (`guest_access.py:163, 181-185`): a key may be entered twice.
- `if(i > HookMax)` (`hook_impl.cpp:531`) hands out one trampoline more than the
  pool has.

## What is proved

Everything below holds for every value of the constants that the assumption named
in the component's module allows; the proofs are in eight modules.

**The hose** (`HoseProofs.tla`, from `HoseAssumption`: sizes are naturals and the
overrun packet fits in the buffer).

- `HoseInvariant`, `HoseTypeCorrect`, `HoseNoPanic`, `HoseNoOverwrite`.
  `NoOverwrite` is not inductive, since the hose thread acts on a copy of
  `write_info_` that may be old.  Offsets alone do not tell whether two values
  belong to the same lap of the ring, so `SnapshotInv` lists the three ways the
  copy can lie between reader and writer (same lap, the writer has wrapped since,
  both have), `ProgressInv` says how far the iteration has come with it, `RingInv`
  that the room for a marker is there whenever the last packet is not one, and
  `ReservationInv` that the bytes reserved, marker included, are free.  One lemma
  per action shows that it preserves the four.
- `HoseFdsOwned` and `HoseOverruns`, with invariants of their own.
- `HoseImplementsStream`: the ring is a packet stream with losses.  `BufInv` says
  that the bytes reserved and filled are those of the packet being written; then
  the unread part of the ring, read along one or two pieces of the buffer, is the
  stream's queue, and each step of the three threads appends one packet to it,
  takes bytes from its front, drops a piece of it, or leaves it alone.
- `HoseStreamsIntact`: what a connection has received, followed by what is unread,
  is a piece of the log of published packets.  "Follows" is a relation between
  neighbouring bytes (`Linked`), so that no induction along the stream is needed
  beyond "the first place where it fails".
- `HalfBufferFits`: the arithmetic behind `EveryWriteReturns`.

**The hash table** (`StupidHashProofs.tla`, from `HashAssumption`: keys are
naturals, at least one bucket and entry).  `HashInvariant` and, from it, types, no
failing assertion and distinct keys.  That a bucket lists all its entries would
need reachability along links; ordering each bucket by the age of its entries
(`BucketsSorted`) says the same without recursion: every link goes to the next
younger entry of the bucket.  `UnlinkSorted` and `MoveSorted` are the two halves of
`remove`: unlinking leaves the rest sorted, and moving the last entry into the hole
is a renaming.  `LoopInv` carries what a lookup has compared so far, from which an
insertion concludes that the key is new.  `HashImplementsMap`: the table, read as
the function from its keys to its values (`ContentsIsTable`), does what BoundedMap
does, action by action, with the key of the lookup under way on both sides (`Pending`,
`Answers`), so that "absent" is only answered for a key that no live entry has; a
full table is a full map because the entries in use and
the keys are equally many (`HowManyKeys`, a bijection).

**The server** (`RpcServerProofs.tla`, from `RpcServerAssumption`: a READ finds no more
accessible than it asks for; otherwise clients may send anything).  `ServerInvariant`
says what a connection may be in each phase: before the upgrade only 404s have been
sent; after it the messages sent and queued are the 404s, the upgrade, on an RPC
connection the hello, and the answers to what has been handled, in order, unless frames came
before the upgrade was answered and were dropped; on a connection that goes to the
hose nothing after the upgrade but control frames.  From it: `SocketsOwned` (each
socket is the server's, on its way, the hose's, or closed once), `HandOverClean`,
`AnswersOrdered` and `BuffersSound`.

**The memory of a request** (also `RpcServerProofs.tla`, from `RegionsAssumption`:
an address space of at least three addresses, copies no longer than it).  The game
may map memory between any two queries of a load and any two steps of a search, so
blocks grow after their neighbours were listed and regions may overlap.
`RegionsInvariant`: what is listed is mapped with the permissions of the list
(`ListTrue`; mapped memory does not change, the premise of `serve.cpp:159`); each
region ends after those before it (`Sorted`); every address below the load's cursor
that was mapped when the request came lies in a region such that all earlier ones end
at or before it (`Listed`), which is weaker than being in the only region around it
and just what the search needs; and the search has excluded only regions on the
wrong side of the address (`Halved`): whoever was passed ends at or before it.  If the
search has passed the topmost region, whose end is 0, that need not hold of the
topmost itself and the one before it; it does of all others, because a binary search
that compares the last element has compared the one or the two around the middle
before and passed them.  `CopiesOnlyAllowed` follows
from the first alone; `MappedMemoryFound` needs them all, and that the cursor wraps at
most once and not before the end of the address space (`Cursor`).

**The python clients** (`ClientsProofs.tla`).

- Requests (`ConnInvariant`, `HealthyStayOpen`): a caller that is about to replace a
  connection has seen it closed.  The closed future comes from the receiving thread,
  so the invariant carries what is queued (`Queued`: each queued future belongs to
  one caller that waits on this connection) and that only a closed connection has an
  exception (`Broken`).
- `AnswersPaired`: as long as a connection stands, the callers that wait on it, in
  the order of the queue of futures, are those of the answers and requests that are
  on their way (`Aligned`).  Who has sent and not yet queued its future holds the
  lock, and is the last of them.
- The persistent cache (`CacheTypeCorrect`, `NothingOnlyInMemory`): both locks are
  held exactly between taking and giving back, hence exclude, and only the thread
  inside the process's lock changes the cache.
  `KeyErrorOnlyIfLapped`: after the lock is given back the key stays in the process's
  cache until another thread's `load()` empties it, which `lapped` records.
- The cache of game memory (`GuestInvariant`): a chunk in
  the cache is the memory as the caller changed it but for refused bytes
  (`CachedIsSeen`), the two differ otherwise
  only in imaginary mode and only in cached chunks (`OverlayKept`), and a read that
  ends early has asked no chunk beyond its end (`ReadUpToIs`, `BytesReadIs`).  Nothing
  is assumed of the chunks that can be read or written.

**The web client** (`WebProofs.tla`).  `WebInvariant`: `WebInv` is inductive as the
run checks it.  Its first half (`Control`: which socket lives and what the wrapper's
fields say of it) is inductive whatever the queues hold; the second half (`Queues`)
rests on it: while the socket is open the promises are those of the answers and
requests on their way, in order, and one of the two queues of requests is empty.

**The reporters** (`ReporterProofs.tla`, from `LossyHoseAssumption`,
`CollReportAssumption` and `HitboxAssumption`: finite sets of objects, tables and
queues of any size, with or without losses).

- `ReporterTables`, `ReporterNothingMissing`, `ReporterPictureExact` and
  `ReporterReferencesExact`, for `Spec` of CollReport.  What a client will believe
  is a statement about its maps and everything that is queued, so it changes with
  every packet that is added, lost, dropped or read.  The inductive form is
  `Covered`: from each place where a picture begins (what the client has now, or a
  full dump in the queue) and no overrun follows, some later packet says the word
  and none after it contradicts it.  `Covered` survives reading or dropping the
  first packets and writing more; a packet that is lost leaves an overrun behind it
  (`Spoilt`: no picture reaches the end of the queue), and then it claims nothing.
  `CollidersTold` says it of every collider in the table, and `NothingMissing`
  follows.  `FirstPicture` is the same in both directions for the client that was
  there first, as long as `full` is false.
- References need more than the queue's last word: `DumpsTold` says that for each
  entry of `s_hashed_scols`, for the hash remembered in `old_hash` while its dump
  waits, and for a reference that waits in its place, the dump with those contents
  is covered, and for a reference already queued, that it is covered by the
  packets before it (`Before`).  An entry's hash is written before the packet, so
  the invariant holds only because a lost dump leaves an overrun.
- `ReporterHitboxesSound`, for `HitboxSpec`: `BoxFrames` says that a world runs
  once a frame and that only worlds that have run have entries in
  `s_hitboxes_this_frame`; hence every entry was reported after its world began, and
  in a frame that began with the flag (`cleared`) after world 0 emptied the
  client's set or before a page that was whole (`BoxesTold`); the queued
  collisions know their hitboxes from the packets before them (`Collisions`).

**Flags and monitor** (`RequestsProofs.tla`).  `PausedGameStands` needs that a frame
started after PAUSE was set started from a place before the test;
`BackpressureFollowsFlag` that between the update and the switch the handler's copy
agrees with the flag, which the game thread never touches.  `NoOrderLost` rests on
the compare-and-exchange: it succeeds only on the word that was loaded, so the word
and `asked` change alike, whatever the game thread did since the load.  The monitor
is proved for requests at any pace: buffer 1 is given only to a hasty request, until
then the writer's buffer is neither in use nor next, and even then both indices must
become 1 (`Jammed`) before it can be; from this `NeverPanics`, `PassesAgree` and
`FramesReadNewest` follow.

**Locks and hooks** (`PlatformProofs.tla`).  Exclusion for any threads and depth: the
invariant says for each place what the thread may assume, who holds the plain lock,
and whether tag and depth are the owner's, zero, or on the way from one to the
other.  Only the owner can read its own tag, because every tag written is the
writer's and is cleared before the plain lock is given back; that is the argument
for the unsynchronised read in `acquire`.  `PoolInvariant`: slots handed out are at
most the index, and each is with one thread or written.

What is proved is not checked a second time by TLC, except for the properties the
run table names: `TypeOK`, `NoPanic`, `KeysDistinct`, `FieldsAreTheOwners` and the
inductive invariants of the smaller components stand in theorems only.

Induction over sequences is replaced by the least number (`NatLeast`, `FirstOf`): a
statement about positions that fails somewhere fails first somewhere, and the step
to that place gives the contradiction.

Only model-checked: the liveness properties (`EveryWriteReturns`,
`OffReleasesWriter`, `FlagsServed`, `LookupEnds`, `DumpArrives`, `RefusedIsClosed`,
`ClientsSettle`, `AskersEnter`), since fairness is out of the prover's reach.

## What is not modelled

- Packet formats and the contents of memory, except where a property depends on
  them; weak memory beyond the release/acquire pairs named above.
- The background collision hooks (`bgcol2p`, `bgcol1p`): one packet per call,
  no state.
- GET_STATS, which exchanges three counters with zero, and the server's start-up.
- In mongoose: an allocation that fails in `mg_iobuf_add`, which then appends nothing
  without telling anybody (`mongoose.c:3398`); frames of an unknown kind, on which it
  closes the connection; messages in several frames.
- Most of mongoose (HTTP parsing, TLS, the built-in TCP/IP stack, file serving,
  its examples and tutorials) and xxhash.  They are third-party code vendored
  unchanged, by far the largest part of the tree, and mostly not compiled in;
  RpcServer models the paths of mongoose on which the server rests.
- The rewriting of instructions, relocation tables and page mappings of exlaunch:
  sequential arithmetic over encodings, without state that outlives a call; rtld
  and the nn headers, which are loader code and declarations.
- The python descriptions of game structures, the gdb guest, the exporter and the
  shells: data description and interactive tools.  `HoseConn` of the python
  client, which moves messages from a socket to a queue.
- Drawing, scrubbing and files in the web client, and the mock server.

## Plan

Done: Hose with PacketStream, MemMonitor, RpcFlags, StupidHash with BoundedMap,
CollReport and HitboxReport over LossyHose, RpcServer, MemRegions, RecursiveLock,
PyRpcConn, WebConn, CachingGuest, PersistentCache, HookPool; eight proof modules;
five modules that instantiate them for TLC side by side.

Left: the address reservations of `virtmem.c`; an abstract request-and-answer
connection that PyRpcConn and WebConn both refine.
