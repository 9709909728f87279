# Verification of zrtools

zrtools is a C++17 tool set: shared-memory channels, a write-ahead log, id
generation, message queues, thread pools with message handlers, clocks and
containers.  This directory holds TLA+ models of the parts in which several
threads or processes meet, in which a crash may interrupt a protocol, or in
which arithmetic has to come out right at a boundary; the TLC runs that check
them; and proofs for TLAPS.

Every definition is translated from the source under `src/src/zrtools`.  The
documents under `src/docs` are quoted only where they promise something.

## 1. The system

| Component | Source | State it keeps | Operations | Model |
|---|---|---|---|---|
| Checkpoint | `zrt_shm_checkpoint.h` | a segment with `magic`, `active` and two slots (`seq`, `data`) | Initialize, Write, Reset; Read of any number of readers | `ShmCheckpoint` |
| Ring | `zrt_shm_ring.h` | `buffer_`, `write_pos`, `read_pos`, `confirmed_pos`, `next_seq` | Append, ReadNext, ReadUnconfirmed, Confirm, ConfirmBatch; Initialize, Reset | `ShmRing`; `ShmOpen` |
| Direct segment, objects | `zrt_shm_direct.h`, `zrt_shm.h` | a mapped structure behind a header; a named object | Initialize, Write, Reset, GetDirectShm; WriteShm, ReadShm | `ShmOpen` |
| WAL file | `zrt_wal_file.h` | a directory of files; `current_seq_`, `entry_count_`, the stream buffer | Init, Append, Sync, Close, TruncateBefore; ReadAfter | `WalFile` |
| WAL entry | `zrt_wal_entry.h` | none | header layout, CRC | in `ShmRing` and `WalFile` |
| Snowflake | `zrt_snowflake.h` | one atomic `state_`, the system clock | nextId, parseId | `Snowflake` |
| UltraQ | `ultraq.h` | lists of used and free blocks, counters | push, pull | `UltraQ`, `MessageFifo` |
| UltraBuf | `ultrabuf.h`, `ultrabuf.cpp` | the same for a stream of bytes | push, pull, read, copy_content, shrink_to_fit | `UltraBuf`, `ByteStream` |
| Engine pool | `io_pool_v2/` | a queue (or an `io_service`, or nothing) and a flag per worker, the count of unhandled messages | EngineStart, EngineStop, WaitStop, PostMsg, PostSyncMsg, the worker loop | `EnginePool` |
| Legacy pool | `io_pool.h`, `io_service.h` | one asio thread per service, no count | Start, Stop, PostMsg, PostSyncMsg | `EnginePool` (plans with `IOService`) |
| Time | `zrt_time.h` | a timespec, its broken-down form, the epoch that form was made of | constructors, getters, setters, offsets | `Calendar`, `DateTime` |
| Containers | `zrt_bmic.h`, `zrt_bmic_hashed.h`, keys in `zrt_compare.h` | a multi-index container | Set, Remove, RemoveRange, Update, UpdateRange, lookups | `Bmic` |
| LockedHashMap | `zrt_locked_hash_map.h` | a map under one reader-writer lock | lookups, updates, callbacks and loops under the lock | `LockedHashMap`, `AtomicMap` |
| TimeBuffer, Bollinger | `time_buffer.h`, `bollinger.h` | a deque trimmed by time; a window with sums | push, read | not modelled |
| CRC32 | `zrt_crc32.h` | a table | crc32 | not modelled |
| Files, strings, types, diagnostics, generators | the rest | none of its own | stateless | not modelled |

### How the components interact

* The writer and the readers of a checkpoint, and the producer and the
  consumer of a ring, are different processes.  They share nothing but the
  segment, and the segment outlives them.
* The ring and the WAL file use the same entry header; the ring checks its
  CRC, the file reader does not.
* A WAL writer and its readers share the directory.  The writer's lock covers
  Append, Sync and Close, but not TruncateBefore, and no reader knows of it.
* An `IHandler` posts tasks to its thread's queue and counts them in its
  `EnginePool`; the worker calls the handler back, which uncounts them;
  WaitStop polls the count and then stops every thread.  Callbacks post to
  other handlers.  A synchronous task carries a reference to a promise on its
  caller's stack.
* Every user of a shared segment opens it by name, finds it or makes it, and
  decides from its header whether to keep what is in it.
* The legacy `IOService` does what `IHandler` does on an asio thread, without
  counting.
* `UltraQ` takes its mutex as a template parameter.
* `Snowflake` and `LockedHashMap` are called by any thread; `UltraBuf`,
  `DateTime` and the multi-index containers by one thread each.

### What is hard, and what makes each component correct

| Component | Hard behaviour | Correct when |
|---|---|---|
| Checkpoint | two memcpys over the same words; a crash between any two stores; a restart on the old segment; Reset beneath a reader | a successful Read is one Write's State and not older than the last Write completed before it; it fails only when overtaken; it always returns |
| Ring | wrap-around, a marker at the end, a full ring, a sequence number taken by an Append that then finds no room, crashes of both sides | entries come out once, whole and in order; nothing unconfirmed is overwritten; recovery from `confirmed_pos` is complete; a producer that retries gets in |
| WAL file | data in the stream buffer at a crash, a directory in any order, truncation beside appends and reads | numbers are not reused; what was in a file stays until truncated; a reader misses nothing |
| Snowflake | racing compare-exchanges, a clock that goes back, an exhausted millisecond, a timestamp outside its field | ids increase, their fields do not run into each other, each call ends |
| Opening a segment | finding a segment that its maker has not sized, or not headed, yet; removing one that others have mapped; a crash between the stores of Reset; a structure copied while another process reads it | all come to share one initialised segment; a restart keeps its content; what ReadShm returns is of T() and one item, not older than the last finished WriteShm |
| UltraQ | the check and the change are two critical sections | a FIFO of whole messages; the counters fit the lists; the limit holds |
| UltraBuf | pushes across blocks, pulls that end at the end of a block, a limit tested once | a stream of bytes; a copy is all of the content; the counters fit the lists |
| Engine pool | a task is queued before it is counted; the promise on a stack; starting and stopping the workers one by one while others run callbacks; three kinds of thread | WaitStop drains; the count is right; a promise is alive when set; calls return |
| Time | division that rounds to zero, unsigned days, a cache with a sentinel | the fields are those of the calendar; setters normalise; the cache is never stale |
| Containers | a loop that moves the elements it walks over; keys whose equality is not transitive | both indexes hold the same elements; an update is whole or not at all; UpdateRange updates every element of its range and ends |
| LockedHashMap | callbacks between a read and a write; loops | every call takes effect at one instant |

`PROJECT.json` lists the hazards line by line, with the properties that would
catch each of them and, where there is none yet, the reason.

## 2. Modules

Each component's module declares its parameters as CONSTANTS with a named
assumption, one action per step that another actor can observe, the
specification `Spec`, the fair one `FairSpec`, and its properties.  Operators
whose names end in `_Something` and that are introduced by "Mutant:" are
slips that could have been made in the code (a dropped check, a wrong
position); no specification uses them.  For every property there is one that
breaks it, which is how we know that the property says something about the
code.  `MC*` modules are what TLC runs.

| Module | What a step is |
|---|---|
| `ShmCheckpoint` | one load or store of the segment: a word of a memcpy, a store to `seq` or `active`, a statement of Reset, a system call of Initialize |
| `ShmCheckpointProofs` | theorems about it |
| `ShmRing` | Append: the checks up to the choice of path, the marker, each unit (8 bytes) of the entry, the store to `write_pos`.  Consumer: one round of a loop |
| `ShmRingProofs` | theorems about it |
| `WalFile` | one call of the writer, with the number of pieces that left the stream buffer chosen freely; one file of Init's scan, of TruncateBefore or of ReadAfter |
| `WalFileProofs` | theorems about it |
| `Snowflake` | reading the clock, loading `state_` with the decision that follows, the compare-exchange |
| `ShmOpen` | one system call of Initialize, WriteShm or ReadShm; one store of Reset to the header, or any part of its memset; one word of a copied structure; one call of the ring |
| `ShmOpenProofs` | theorems about it |
| `UltraQ` | one critical section |
| `MessageFifo` | the abstract queue that `UltraQ` implements |
| `UltraBuf` | one call |
| `ByteStream` | the abstract stream that `UltraBuf` implements |
| `EnginePool` | one access to a queue, a flag, the count or a promise; the ThreadStart of one worker; a callback's return |
| `EnginePoolProofs` | theorems about it |
| `MCEnginePool` | the applications ("plans") of the run |
| `Calendar` | operators: the civil date arithmetic, and a calendar to compare it with |
| `DateTime` | one call |
| `Bmic` | one call; one round of UpdateRange's loop |
| `UniqueKeyProofs` | theorems about `Snowflake` and `Bmic` |
| `LockedHashMap` | taking the lock, the work under it (one element of a loop, or up to and after a callback), releasing it |
| `AtomicMap` | the abstract map that `LockedHashMap` implements |
| `LockedContainerProofs` | theorems about `LockedHashMap` and `UltraQ` |
| `SingleThreadProofs` | theorems about `Calendar`, `DateTime` and `UltraBuf` |

### ShmCheckpoint

`seg`, `magic`, `active`, `seq` and `data` are the segment.  `wpc`, `wslot`,
`wold` and `wleft` are the writer's program counter and locals; the `r...`
variables are the readers'.  A word of a State holds the number of the Write
that stored it, so that "torn" means that words differ.  Words are copied in
any order.  History variables record the last completed Write (`done`), how
many Writes completed during a Read (`rflips`), whether a Reset overlapped it
(`rclean`), and whether a Write has begun on a slot that a crash left odd
(`inverted`).  Initialize creates and sizes the segment in two steps because a
crash between them leaves one of size 0 that no later writer can map.

Loads and stores take effect in program order.  The build targets x86-64,
where loads are not reordered with loads nor stores with stores, and where the
compiler does not move the memcpy across the acquire and release operations
around it.  On a weaker machine the second load of `seq` could move before
the copy, which this model does not show.

### ShmRing

The unit is 8 bytes, to which entries are aligned.  A unit of the buffer
remembers which entry it was stored for and which part of it.  When the
consumer parses a header at a place where none begins, every value of the
fields is possible.  The application is part of the model: it repeats a
refused Append with the same entry, and consumes either by ReadNext or by
ReadUnconfirmed (`mode`), as the examples in `docs/shm.md` do.  A crashed
process comes back with its positions read from the segment.  Where less room
than a header's is left at the end of the buffer, `zrt_shm_ring.h:146` stores
no marker and goes on; `unmarked` remembers that this has happened.

`RecoveryComplete` is what `docs/shm.md` promises for recovery, stated of every
round of ReadUnconfirmed: it has collected exactly the published entries from
`confirmed_pos` to where it is, in order.

### WalFile

A file is a sequence of pieces, one for each call of `write`: the file header,
an entry's header, an entry's data.  The stream buffer holds pieces, and an
Append may write any number of them out; `sync_interval_` forces all of them
out.  A crash loses the buffer and stops a scan or a TruncateBefore.  Init's
scan is a loop: `ScanBegin`, `ScanVisit` for each file in any order, as a
`directory_iterator` may give them, then `OpenWriter`; a reader or a crash may
come between.  The order of names in ReadAfter is the order of strings of
digits (`NameLess`); `Found` is what the reading loop keeps of one file.  A
directory may start at any `FirstSeq`, as
one that has been truncated does.

### Snowflake

The bit fields are kept as quotients and remainders of arbitrary field sizes.
`LoadState` makes the decision of one round of the loop: the clock is ahead,
behind by a tolerated, a waited-for or a refused amount, or level with numbers
left or exhausted.  The clock ticks and may be set back.  A weak
compare-exchange may fail for no reason.

### UltraQ

The lists are sequences of blocks; the free list is only a number, because a
recycled block is reset.  `IsFull` and `IsEmpty` are evaluated in the first
critical section, the change is made in the second.  `ContentOf` maps the list
to the sequence of its messages: `Messages` walks a block from `left`, each
message found behind the one before, and the walks are put together.

### ShmOpen

Initialize of a ring and of a direct segment, WriteShm and ReadShm of
processes that meet on one name.  A name is bound to a segment or to none;
`remove` unbinds it and leaves the segment to those who have it mapped.  A
segment is made by one step, sized by another (`sized`) and headed by a third
(`magic`).  A process may exit or crash at any step and run again.  Which of
the four programs the processes run is a constant, `Programs`; a name serves one
use (`ProgramsAssumption`): processes that share the segment, or one that
calls WriteShm and any number that call ReadShm.

The magic number is the first store of Reset (`zrt_shm_ring.h:413`), and each
of the others, to `write_pos`, `read_pos`, `confirmed_pos` and `next_seq`, is an
action of its own; the memset clears any part of the buffer at a time.  A crash
between them leaves a segment that the next process takes for an initialised
one: with `next_seq` 0, say, so that its first Append stores an entry with
sequence number 0, which readers pass, and answers 0, which tells the
application that it failed.  `stored` is what Append has answered with another
number and nobody has confirmed.  Append, ReadNext and Confirm are one step
here (`ShmRing` takes them apart): entries have one size, so that positions
count them, and the space check is the unsigned one, which finds a ring full
whose `write_pos` is below `confirmed_pos`.

The assignment of WriteShm (`zrt_shm.h:22`), that of ReadShm (`:41`), Write of a
direct segment and the construction of its T() copy one word at a time, in
any order, and a crash may end them.  `ReadShmCurrent` says what is left of a
read without a lock: words of T() and of one item side by side, not of two
items, because each WriteShm fills a segment of its own; and one whole item
when no WriteShm overlaps the read (`calm`).

### UltraBuf

Bytes are numbered as they are given to push, so that one out of place, or one
left from an earlier use of its block, shows.  `ImplementsStream` maps the
lists to a sequence of bytes: the bytes that a push was given are appended as they are, and
all of them, or none, and then push answers `EAGAIN`, which it may only when
the bytes would reach into the last block of the limit.  (`push` returns the
number of bytes stored or `EAGAIN`, which is 11: a push of 11 bytes cannot tell
the two apart, in the code as in the model.)  `CopyWhole` adds what `ByteStream`
leaves open, how much a copy holds.  Where `copy_content` stops early, at a block that a
pull has emptied to its end, the property says so.

### EnginePool

A `Plan` is an application: the kind of worker (`engine`: one of the three
queue threads, `BoostAsioThread`, `SyncThread`), the capacity of its queue
(`queueCap`, not 0 only for `boost::lockfree`), the service (`IHandler` or the
older `IOService`), who calls whom, which kinds of message have no
handler, and how the pool is stopped.  A handler belongs to one worker and
lives as long as the pool.  The count is `unhandled`; it may pass through
negative values, since the queueing comes before the counting: `Posting(a)`
holds of an actor between the two.  The history
variable `off` says what the count is off by apart from those: one for each task
that a full queue refused or that a restarted asio thread dropped, less one
for each synchronous call to the own thread.  `CountBalanced` says that there
is no other cause, and the properties of WaitStop name `off` as a condition.

The three queue libraries are linearizable FIFO queues here; moodycamel's
queue keeps order only per producer, which none of the properties relies on.
EngineStart and IOPool::Start go through the workers, in any order here since
the named ones are in an `unordered_map`; a worker that has been started runs, and
posts, while others are still to be started (`toStart`).  An asio worker's
`io_service` is made anew by every start.  Its Post before the
first start dereferences a null pointer, and plans do not do that: until the
first EngineStart has returned nobody posts (`ServiceMade`).  Nor do they
use `IOPool::GetSharedThread`, which indexes a vector that nothing fills
(`io_pool.h:101`).  `IOService::PostSyncMsg` has no check for the own thread, so plans
with it have no such call.

### Calendar and DateTime

The arithmetic of `detail` is translated with C's division and with
unsigned days, the lengths of minute, hour and day as parameters.  The
reference calendar counts days month by month from the rule for leap years.
`DateTime` is one object: constructors from an epoch or a string choose its
first state, then setters, offsets and getters come in any order; the getters
fill the cache.  `tz` is the template parameter: `kUTC` uses `Calendar`,
`kLocal` the C library, whose `localtime_r` and `mktime` are external and
modelled by their documented effect for a zone with daylight saving time
(`ZoneOffset`, `Summer`).  `FieldsRight`, `SettersNormalise` and `CacheCoherent`
name what the code does not get right: the epoch -1 is the sentinel of the
cache, an epoch below 0 that is not a midnight gets a negative hour, minute or
second in UTC, day 0 of March wraps in the first year of an era (the unsigned
day of `zrt_time.h:193` is one below 0), and a setter that moves a local date into or out of summer is off by the hour.

### Bmic

The ordered index is a sequence of nodes, the hashed one a
bucket per node: the hash it was linked with.  What Boost does in `emplace`,
`erase`, `replace` and `equal_range` is external and modelled by its
documented effect.  `HashedMembers` and `OrderedMembers` stand for the macros
for 2 to 9 members.  `my_hash` yields a bool, so that different keys share
buckets; doubles are equal within `Epsilon`, which is not transitive.
Properties speak of the keys as the functions of the code see them; `inexact`
marks a history in which an element was replaced by one that is merely near.
UpdateRange fixes the end of its range before the loop and moves on from where
an element went.  One that is moved to an earlier place makes the loop walk
over the elements in between and update them too, some of them several times:
`UpdateRangeExact` says which, and that `n` elements take at most
`n (n + 1) / 2` rounds.  With `ts` in the unique key `replace` may refuse to move an
element, and then the loop need not come to all of them.  One that is moved to
a later place makes the loop skip elements or run past the end, which the property
leaves out and the model shows as `mode = "undefined"`.

### LockedHashMap

The shared mutex is the set of its readers and that of its writers.  A call
begins, takes the lock, works, and releases it; `update_if_exists` reads, runs
its callback and writes in different steps, and loops take a step per element
in any order.  Callbacks do not call the map, as
`docs/concurrency.md:93` asks.  `ImplementsAtomicMap` maps the state under the
lock to one instant: a loop takes effect when it begins, whatever the map holds
while it runs, and every other call at its write or, if it only reads, when it
looks.  `std::shared_mutex` promises no fairness between
readers and writers, and no liveness is stated.

## 3. Runs

All bounds are CONSTANTS whose comment begins with "bound:".

| Run | Instance | Shows |
|---|---|---|
| `checkpoint` | 1 reader, 2 words, `MaxRetry` 3, 4 Writes, 1 crash, 1 Reset | `ReadUntorn`, `ReadFresh`, `ReadFailsOnlyWhenOvertaken`, `ReadTerminates` |
| `ring` | 10 units, entries of 3 and 4, both modes, 4 appends, 1 crash | `DeliveredInOrder`, `UnconfirmedIntact`, `RecoveryComplete`, `ConfirmedWereHanded`, `AppendSucceeds` |
| `shm_open` | 2 processes, as rings, as direct segments and as writer and reader of an object, 2 words, 3 segments, 2 items, 3 stops, 1 Reset | `OneSegment`, `RestartKeeps`, `ReadShmCurrent` |
| `wal_file` | names from 9 on, 3 sessions, 3 appends, 1 truncation, 1 read | `SeqsNotReused`, `DurableKept`, `ReadAfterNoGap` |
| `snowflake` | 2 threads, 3 calls, fields of size 2, one backward step of up to 4 ms | `IdsIncrease`, `ParseInverts`, `NextIdReturns` |
| `ultraq` | 2 producers, 1 consumer, 2 blocks of 6, bodies of 1, 3 and 5, 4 messages | `WellFormed`, `ImplementsFifo`, `PushSucceeds` |
| `ultrabuf` | blocks of 3, limit 2, pushes of 0, 1, 2, 3 and 8, pulls of 1, 2 and 4, 14 bytes | `WellFormed`, `CopyWhole`, `ImplementsStream` |
| `engine_pool` | 2 clients, 2 workers, ten plans, 2 starts | `PromiseAlive`, `CountBalanced`, `WaitStopDrains`, `SyncReturns`, `WaitStopReturns` |
| `date_time` | a day of 8 s; UTC: every midnight from 1800 to 2200; calls around 1970-01-01 and 2000-03-01; a zone 2 s ahead, with an hour of daylight saving time | `FieldsRight`, `SettersNormalise`, `CacheCoherent` |
| `bmic` | 3 nodes, 11 values, hashed over `sym` and `px`, ordered over `ts` and `sym`, `Epsilon` 2 | `IndexesAgree`, `UpdateRangeExact`, `UpdateAllOrNothing` |
| `locked_map` | 3 threads, all calls, 2 keys, 3 values | `ImplementsAtomicMap` |
| `checkpoint_crash` | 1 reader, 2 words, `MaxRetry` 3, 6 Writes, 1 crash, no Reset; no fairness | that `CrashNeverTears` does not hold |

`checkpoint`, `snowflake`, `engine_pool` and `wal_file` also check their
module's `TypeOK`; in `UltraQ` and `UltraBuf` the types are part of
`WellFormed`.

Why the bounds are enough for the interesting cases to occur:

* `checkpoint`: two words are the least that can tear.  Four Writes let a Read
  be overtaken twice on either slot, which is when it may fail, and let a Write
  follow a crash and a Reset.  Readers do not affect each other, which the
  proof below confirms for `ReadUntorn`, and one is enough.
* `ring`: 10 units with entries of 3 and 4 reach a buffer that is exactly full,
  a wrap with a marker, an Append that writes its marker and then finds no
  room, and rests of 1 and 2 units, too short for a marker's header.
* `shm_open`: the second process opens while the first creates, sizes, heads,
  clears or removes; three segments allow a name to be bound, removed and
  bound again; three stops let a crash hit a process again in what follows its
  first one, or the other process as well.  Two items let one be replaced
  while the other is read, and two words are the least that can be mixed.  A
  third process adds another like the second, and the proofs below are for any
  number of them.
* `wal_file`: names cross from one digit to two, a header and its data may be
  separated by a crash, a session may find a file without entries, and
  truncation may meet the current file and an older one.
* `snowflake`: a field of two numbers is exhausted at once; a backward step of
  up to 4 ms reaches every tier of the drift (2, 3 and 4 ms); the epoch can lie
  ahead of the clock; and `MaxTimestamp` can be exceeded.
* `ultraq`: a body of 5 exactly fills a block, one of 1 leaves room; two blocks
  make the limit bite; a block is emptied, recycled and used again.
* `ultrabuf`: a push that fits, fills a block exactly, needs one block or
  several (8 needs three); pulls that end within, at and beyond the end of a
  block; blocks are recycled several times.
* `engine_pool`: nested callbacks, a call to the own handler, messages without
  a handler, a queue of one task that overflows, a start of one worker beside
  another that already runs callbacks, a stop during callbacks,
  tasks that survive a stop and are run (or dropped, by asio) after the next
  start.  There is a plan for each engine with each service that an application can
  use, and no plan combines what does not interact.
* `date_time`: 400 years are a period of the calendar; the scaled
  day changes only the constants of the division.  The two windows hold the
  sign change, a leap day and the end of an era, and are long enough for
  every sequence of calls whose epochs stay in them.  Daylight saving time
  begins and ends in both, and the zone is ahead of UTC, so that local dates
  differ from those of UTC.
* `bmic`: values of `px` of 0, 1 and 2 with `Epsilon` 2 are the least at which
  being near is not transitive; three nodes let an element move over another
  inside a range and out of it.
* `locked_map`: one thread in a loop, one in a callback, and a third that
  could get between them.  Only inserting and erasing concern the second key,
  which is enough for a loop to meet an element that comes or goes.

Deadlock is checked in `checkpoint` and `ring`, whose readers go on for ever,
and in `locked_map`, whose threads go on calling.  The others may stop: the
application's calls reach their bounds, and a pool that has been stopped as
often as it may be started is at rest.

### Fairness

* `checkpoint`: a process that has begun an operation keeps taking steps.
  Nobody has to begin one, and a crashed writer need not come back, so
  `ReadTerminates` does not lean on the writer.
* `ring`: the producer's loop and the consumer's loop go on; a consumer between
  calls reads again and confirms what it read (strong fairness, because a crash
  or another call may come between).  This is what `docs/shm.md` asks of the
  consumer: without confirmation the producer is refused.
* `snowflake`: the clock ticks, threads are scheduled, and a weak
  compare-exchange that is possible again and again succeeds at last.  The
  clock is set back only finitely often.
* `ultraq`: a producer retries a refused push, the consumer keeps pulling, and
  the mutex does not starve one of them.
* `engine_pool`: the pool is started, the operating system schedules every
  thread, and a caller inside a call goes on.  Clients do not have to post.
* `shm_open`, `wal_file`, `ultrabuf`, `date_time`, `bmic` and `locked_map` state
  no liveness property and need no fairness: their calls wait for nobody, or
  only for a lock that promises none.

### Where the code does something else

One run, `checkpoint_crash`, ends in a counterexample.  `docs/shm.md:74` and
`zrt_shm_checkpoint.h:34` say that a crash of the writer never damages the
readers' data.  A crash inside Write leaves `seq` odd.  The next Write of that slot
adds 1 and makes it even during the copy; a reader accepts a mixture.  Reset
heals the slot.

The passing properties name this case (`~inverted`) and the others as
conditions, so that what remains is exact:

| Statement | What the code does | Condition |
|---|---|---|
| `docs/shm.md:172`, `:182`: a skip record at the boundary is written and skipped | With 8 or 16 bytes left no record is written (`zrt_shm_ring.h:146`), and the consumer parses what lies there.  The shipped size of 16 MiB can leave such a rest. | `~unmarked`, in all of the ring's properties but `UnconfirmedIntact` |
| `docs/buffers.md:77`: `UltraQ<std::mutex>` is for several threads | Two consumers see one message, both pull, and the second walks off the list (`ultraq.h:168`). | one consumer in `ultraq` |
| `docs/io_pool_v2.md:180`, `:228`: the counts balance, and WaitStop waits for the posted tasks | A task refused by the bounded queue (`boost_lockfree_thread.h:38`), or dropped when an asio thread restarts (`boost_asio_thread.h:30`), is counted and never uncounted: WaitStop never returns.  A synchronous call to the own handler is uncounted twice (`i_handler.h:100`): WaitStop may return early. | `off` |
| `docs/wal.md:138`: Init continues after the global maximum | A newest file left empty by a crash answers 0 (`zrt_wal_file.h:84`); numbering starts again and truncates `wal_1.wal`. | `headless` |
| `docs/wal.md:162`, `zrt_wal_entry.h:28`: files are read in order, numbers increase | Names are sorted as strings (`zrt_wal_file.h:319`), and `wal_10` comes before `wal_9`. | `sameDigits` |
| `zrt_compare.h:165`: a hash | It returns a bool, and near keys may have different ones (`zrt_bmic.h:140`). | `inexact`, and `KeyHash` in `IndexesAgree` |
| `DateTime::SetYear` .. `SetSec` (`zrt_time.h:353`) set a field of the local date | `tm_isdst` stays that of the date before, or 0 from a string, and `mktime` takes it at its word (`zrt_time.h:293`): across a change of the clocks the result is off by the hour. | the third case of `SettersNormalise` |

A hazard that such a condition excludes is not covered by the property: the
loss of an entry at an unmarked rest (`unmarked`), two processes that initialise
at once (`raced` in `ShmOpen`), a task that is queued and not yet counted when
WaitStop looks (`Posting` in `WaitStopDrains`), an element replaced by one that
is merely near (`inexact` in `IndexesAgree`), and `tm_isdst` across a change of the
clocks (the third case of `SettersNormalise`).  `PROJECT.json` says so at each
of them.

Conditions of the other kind, where the code promises nothing: a month set
outside 0 to 14, which `days_from_civil` does not carry into the year
(`SensibleInputs` in `SingleThreadProofs`); a Read that a
Reset overlaps (`rclean`); synchronous calls in a cycle between workers, and a
synchronous message without a handler, whose caller waits for ever (the code
logs an error); a stop while a task is queued and not yet counted
(`WaitStopDrains`); two producers that passed `is_full` together (`raced`),
after which UltraQ may exceed its limit; a push of several blocks (`spanned`),
after which UltraBuf may; a process that opens a name while another is between
creating the segment and writing its header (`raced`), which may leave the two with
different segments or an emptied one; a Reset of a ring for the application
that a crash cuts short, or a call beside the Reset or Write of another process
(`disturbed`): `write_pos` may then be below `confirmed_pos`, and the ring refuses
entries until it is reset again; UpdateRange with keys that move elements
to a later place.

## 4. Proofs

A proof holds for every value of the constants that the module's assumptions
allow.  They are as weak as the code allows: sizes and limits are positive,
sets of actors and words that have to be counted are finite, and
the names of nobody and nothing (`NoWorker`, `NoCall`) are not names of
somebody.  Two say something about the application: an application of the
pool is a `Plan`, and a name of a segment serves one use (section 2,
ShmOpen).  The bounds (`MaxAppends` and the like) are arbitrary numbers, so no
proof leans on them.

Every theorem of the form `Spec => []P` follows from an inductive invariant,
which is stated at the head of the module or of its part, and was checked by
TLC on the run's instance before it was proved.

**`UniqueKeyProofs`** — of `Snowflake`, `TypeCorrect`, `IdsAlwaysIncrease`,
`ParseAlwaysInverts`, `StateNeverBack`.  The inductive invariant is `TypeOK`
with two more conjuncts.  `ChosenForward`: what a thread at the
compare-exchange wants to store is larger than the `old_state` it will compare
with, and a waiting thread waits for the millisecond of its
`old_state` to pass.  `IssuedIncrease`: the states behind the issued ids increase and
none exceeds `state_`.  The first makes every successful exchange move `state_`
forward, whatever the clock did since it was read; the second turns that into
the order of the ids.  The step from states to ids, and the inverse of
`parseId`, are lemmas on quotients and remainders (`DivModUnique`,
`ProductGrows`): a product with an arbitrary factor is not linear, which is why
they are proved by hand.

Of `Bmic`, `BmicIndexesAgree`, `BmicUpdateAllOrNothing` and
`BmicUpdateRangeExact`.  `IndexInv` says that the order holds no node twice and
is sorted, that every node is in the bucket of its value's hash, and that no
two elements are taken for the same (`Keyed`), the last two until a replace has
gone by nearness (`inexact`).  `replace` keeps it because an element goes before the first
that is greater (`Linked`), or stays where its neighbours allow it (`InPlace`),
and because a key is refused that another element has.  For the loop of UpdateRange,
`LoopInv` says where things are: `p` is the place of the iterator, `q` that of
the end of the range, and `e` the end of the elements that are not later than the new
`ts`.  Before `q` are exactly the elements not later than the range's (`Bounded`), each with its
old value or the new `ts` (`Old`); those of the range that the loop has gone past were updated
(`Seen`); it has come, and will come, to none but those that `UpdateRangeExact`
names (`Inside`).  A round takes the element at `p` to a place `k` not behind
it (`Round`), and the loop goes on at `k + 1`.  If it moved, `e` may have grown
by one and the loop walks again over what lies between; so, with `ts` outside
the unique key, `2 * rounds <= e (e - 1) + 2 (p - e)` (`Counted`), and `e` is at most
`n + 1`.  A bound of `2 n` holds for the run's three nodes and fails for four,
which may take 9 rounds: here the proof says more than the run.

**`ShmCheckpointProofs`** — `TypeCorrect`, `ReadNeverTorn`, `ReadNeverStale`,
`ReadFailsOnlyIfOvertaken`.  `ReadUntorn`
speaks of a Read that has ended and is not inductive.  The invariant adds:
`WriteInv` (during the copy `seq` is odd and the words already stored are this
Write's), `SlotInv` (a slot whose `seq` is even and not 0 holds one Write's
words), `ResetInv` (Reset clears `seq` before the data and slot 0 before
slot 1) and `ReaderInv` (`CopyFaithful`: `seq` of the slot has not fallen below
`seq1`, and while they are equal the words copied so far are the slot's).
Equality at the second load then gives the copy all of the slot's words, and
`SlotInv` makes them one Write's.  Each of the four excludes what crashes
and Resets break, and no more.  For the age of what is read, `FreshInv` adds
where the writer is between its slots (`PhaseInv`), that the active slot holds
the last finished Write (`AgeInv`), and for each reader which slot it has still
to try after how many flips (`Overtaken`, `FloorInv`): until the next flip the
slot it found active cannot fail, and after one flip the other one is the
newer.

**`ShmRingProofs`** — in two halves.  `UnconfirmedStayIntact` needs only the
producer's side, `KeepInv`: the room that Append has checked lies above
`confirmed_pos` and within the buffer (`Producing`), entries end below
`write_pos` and before the end of the buffer (`Logged`), and a walk of Confirm
starts at `confirmed_pos` (`Walking`).  Two positions less than the buffer's
size apart have different offsets (`OffsetsDiffer`), so what is stored for the
next entry misses every unconfirmed one.  `ReadNextInOrder`,
`ReadUnconfirmedComplete` and `ConfirmedOnlyHanded` need both sides,
`ReadInv`: entries and markers tile the positions (`Tiled`), sequence numbers
rise with them (`Ordered`), and the consumer is always on the border of an
entry that it has been handed everything before (`Consuming`).  It holds until
a wrap leaves less room than a header's (`unmarked`).  The code checks for
that room but goes on without it (`zrt_shm_ring.h:146`, a hazard of
`PROJECT.json`), and then the consumer takes whatever lies there for a header,
so that the condition cannot be dropped; `unmarked` never becomes false again, and
the theorems hold for every size of the buffer and of the entries.

**`WalFileProofs`** — `TypesKept`, `NumbersNotReused`, `EntriesKept` and
`NothingSkipped`.  `LogInv` says,
unless a crash has left a file without its header: every file stands for an
interval of numbers that ends before the next file begins (`Filed`), the file
being written is the newest (`Newest`), the pieces in it together with those
in the stream buffer are a header and entries in increasing order
(`Writing`), the scan knows the end of the newest file it has visited
(`Scanned`), and every entry that was ever in a file is below the end of one,
and still in one unless truncated (`Remembered`).  The order in which the scan
visits does not matter because a file whose name is larger ends later: that
is `Filed`, and it fails exactly when a file is left empty.

`NothingSkipped` adds what a reader knows between two files (`Reading`).  Of the
names it found: a file of the directory that is not the newest of them ends
before the next one, and all it holds was there when the call began (`Newer`).
Of its batch: each entry is from a file with a smaller or equal number, in the
order of names and within a file of numbers (`Sourced`), and either nothing
is missing but what is still to be read (`Whole`) or, when `max_count` has ended
the call, nothing up to the last entry (`Prefix`).  Every step of the writer and
of TruncateBefore leaves this as it is (`Grows`: only the newest file changes,
and what goes was below the cutoff).  The order of names is proved from the
digits: of two numbers with equally many digits the one whose name is smaller
is smaller (`NamesInOrder`), and since numbers between them have as many digits
(`DigitsBetween`), `sameDigits`, which speaks of entries only, is enough to order the
files they are in (`NameOrder`).  `TypesKept` counts: the largest number in
use grows by one for each entry and, when its file is opened, for each session
(`Top`).

**`ShmOpenProofs`** — `TypesHold`, `OneSegmentHolds`, `RestartKeepsHolds`,
`ReadShmCurrentHolds`.  For processes that share a segment, `ShareInv`: as long
as no two initialise at once (`raced`), a process that initialises is alone
(`Alone`), everybody else is on the segment the name is bound to (`Named`),
and what a crash leaves unsized stays so (`Abandoned`).

For what the segment keeps, `KeptInv`: unless disturbed, at most one process
is in a Reset or Write of the application's (`OneBusy`), and of a ring
(`RingKept`): a segment without the magic number has all positions at 0
(`Fresh`), and still has while its first process goes through Reset
(`Starting`); an asked Reset has brought the positions that it has passed to 0
(`Clearing`); from `confirmed_pos` on lie, in the order of their numbers, all
entries that are stored (`Ordered`), and but for an asked Reset no others that a
reader would find (`Exact`).  A first Reset that a crash ends between two
stores is harmless for that reason: what it had still to clear was 0, only
`next_seq` differs, and the entry that gets number 0 is one that `Exact` does not
count.  Of a direct segment (`ValueKept`): the words already copied are those
of the value being written, and what is stored fills all words.

For one WriteShm and its readers, `HandInv`: the segment being written is the
named one, and holds T() in the words still to be copied (`Placed`); all words of a
segment that are of an item are of the same one, which in the named segment is
not older than the last one finished (`Contents`); and so a ReadShm that found
the object has copied words of T() and of that item, or of the item alone when it
was calm (`Reading`).

**`EnginePoolProofs`** — `TypeCorrect`, `PromisesAlive`, `CountsBalance`,
`WaitStopAlwaysDrains`.  Tasks that are queued or running are of different
calls (`IdInv`); the caller of each synchronous one that has not been answered
is still in its PostSyncMsg (`SyncInv`), so its promise is alive; a stopped or joined
thread, or one that EngineStart has still to come to, runs nothing (`LifeInv`); and (`CountInv`)

    unhandled = off + tasks queued + workers with a task - callers between queueing and counting

from which `CountBalanced` is a special case, and WaitStop's test
`unhandled = 0` tells, when `off` is 0 and nobody is between the two steps,
that nothing is queued or running.  The sums are cardinalities; that a step
changes them by one is `FiniteSetTheorems`.

**`LockedContainerProofs`** — of `LockedHashMap`, `IsLinearizable`: `Spec =>
ImplementsAtomicMap`, step by step.  `LockInv` (a call past its lock holds it in the mode of the call,
and a writer alone) and `LocalInv` (what a callback or a loop has read is
still in the map) make each step either a step of `AtomicMap` or a stutter:
taking and releasing the lock and visiting an element change nothing that
`AtomicMap` sees, because an element that a loop has still to visit is mapped
as if it had been.

Of `UltraQ`, `QueueWellFormed` and `QueueIsFifo`, which is the refinement of
`MessageFifo` step by step, for at most one consumer (with two the list may be
walked off its end, section 3).  What the abstract queue holds is a
concatenation of walks through blocks, defined by recursion, and so is the sum
that `content` is compared with.  The proofs describe these functions by
predicates (`IsFlat`, `IsSum`, `IsFrom`, `IsWalk`): a walk of a block is a
sequence of offsets, each the end of the message at the one before.  From this
follow what push does to a walk (one message behind the rest), what pull does
(one less in front), and that a block recycled, with old messages still in its
buffer, begins with none (`WalkStored`, `WalkAdvanced`, `NewBlockWalk`).  The inductive
invariant `QueueInv` says that the blocks are well-formed and the counters
those of the list (`QueueLists`), that only the head may be empty
(`TailsNotEmpty`, without which pull would stop short), and that what the first
critical section has found still holds in the second: not empty, as the one
consumer is the only one who takes (`PullsFind`), and not full, unless two
pushes have passed the test (`PushesFit`).

**`SingleThreadProofs`** — of `DateTime`, `CacheStaysCoherent`,
`FieldsAreRight`, `SettersAlwaysNormalise`, `ConversionsInverse`.  `CacheCoherent` is inductive
once the variables have their types.  The rest is arithmetic, for every day
instead of the run's centuries.  C's division, corrected as the code does, rounds
down (`RoundedDown`, `RoundedUp`, `DayNumberDown`); the year and the month
that the code takes from a day of an era are those with the day in their range
(`YearWithinEra`, `MonthOfYear`); a month of the code's March years begins on
the day on which the calendar begins it (`MonthStart`).  These make
`CivilFromDays` the date of the day (`DateOfDay`) and `DaysFromCivil` its number
(`DayOfDate`), from which both directions follow for any epoch, with the
lengths of minute, hour and day as parameters.  `SettersAlwaysNormalise`
assumes `SensibleInputs`: months -1 to 13 and days 0 to 31 of a `std::tm`.
Beyond them `days_from_civil` gives a day that no rule of the calendar
explains.

Of `UltraBuf`, `BufWellFormed`, `BufCopyWhole` and `BufIsStream`.  Bytes are
numbered as they are given to push, and the invariant `BufInv` says where each one
is: every block but the last is full, every block but the first begins at 0,
and the byte at an offset of block `k` has a number that grows by one from
offset to offset and by `BlockSize` from block to block (`Chain`), up to
`pushed`.  A concatenation of such blocks is a run of consecutive numbers
(`ChainConcat`), which is what the stream holds, what read and pull return the first
part of, and what copy_content returns.  The loop of push, of any number of
rounds, makes a chain of the tail and the blocks behind it (`FilledIs`); the
loops of read and pull stop in the block in which the bytes wanted end
(`PassedIs`).  When the loop of push is not entered, the buffer's list of
blocks is so long that the bytes would reach into the last block of the limit
(`RefusedWhenFull`).

Induction over data is done in sets.  A theorem that takes a
predicate cannot be applied by these provers, but `NatSetInduction` takes
a set: one that has 0 and with each number the next has all of them.  It
follows from the theorem that a well-founded relation has minimal elements
(`WFMin`), and the proofs above apply it to sets such as `{n \in Nat : IsFlat(...)}`,
whose definition is hidden while it is applied.  `NatSetCourse` does the same for
functions such as `digits`, whose value depends on one further back.

What stays with TLC: every liveness property (`ReadTerminates`,
`NextIdReturns`, `AppendSucceeds`, `PushSucceeds`, `SyncReturns`,
`WaitStopReturns`) and every use of ENABLED, for which the prover has no
backend.  Every other property of the runs is a theorem.

## 5. Not modelled

* TimeBuffer and Bollinger: see the plan.  Bollinger's sums are floating-point
  numbers, of which TLA+ has none.
* CRC32 is a computation over bits; the models use what it decides.
* Wrappers of files, string and number formatting, comparison of numbers other
  than those of the containers' keys, type traits, assertions, profiling,
  thread names and the Python generators keep no state or do pure input and
  output.
* Statistics (wrap counts, drift counters, totals) have no effect on the rest.
* Sleeping and the formats of `DateTime`; of a string that is parsed only the
  fields it yields are kept.  `localtime_r` and `mktime` are the C library's: the
  model has one zone with two offsets, and `mktime` only where the host's
  follows `tm_isdst`.
* Initialize of a segment of another size, sequenced and non-unique hashed
  indexes, the round robin of `GetSharedThread`, `AddNamedEngine` and
  `WalEntryBuilder`, which nothing in the repository uses.
* Reset of a ring while the other side is inside Append or ReadNext: nothing
  is promised for it (`ShmOpen` has Reset between calls).

## 6. Plan

In the order of importance:

1. TimeBuffer, which reads the clock before it takes its lock; Bollinger's
   window.
2. A module that replays a ring into a WAL file and restarts.
