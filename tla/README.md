# A TLA+ model of iofs-ng

iofs-ng is a FUSE file system that passes every operation through to a source
directory, measures it, and hands the measurement to plugins; an HTTP server
inside the process serves what the plugins have gathered to Prometheus.  This
directory holds TLA+ modules for the parts of it whose correctness depends on
the order of events, the TLC runs that check them on small instances, and
proofs, checked by TLAPS, of the properties that matter most.

`PROJECT.json` lists the components, the runs, the definitions with the source
lines they model, the mutants that each property is known to reject, the
findings, the hazards and the theorems.  To repeat a run:

    tlc -workers 2 -config StatsPlugin.cfg StatsPluginMC
    tlapm StatsPluginProofs.tla

## The system

| Component | Source | State | Operations |
|---|---|---|---|
| File system handlers, TimerGuard | `src/iofs.cc`, `src/iofs.hh` | the source directory, descriptors in `fi->fh`, one timer per call | 32 handlers, each around one system call; `TimerGuard` records at scope exit if its size is positive |
| Directory handles | `src/iofs.cc:208-327` | `DirHandle`: a `DIR *`, an entry kept back, an offset | `opendir`, `readdir`, `releasedir` |
| Operation codes | `src/iofs.hh:60-94`, `plugins/plugin.hh:11-45` | two enumerations, cast by position | - |
| Monitoring | `src/monitoring.cc` | the vector of plugins | `load_plugins`, `record`, `start_server`, `generate_prometheus_output` |
| Plugin instances | `src/plugin_wrapper.cc` | library handle, API table, context | construction (dlopen, validate, init), move, `->` (bind, call, unbind), destruction |
| Stats plugin | `plugins/stats.cc` | arrays of atomic counters | `record`, `poll_metrics` |
| LastN plugin | `plugins/lastn.cc` | a ring of entries and an atomic head | `record`, `poll_metrics` |
| Sample plugin | `plugins/sample.cc` | three atomic counters | `record`, `poll_metrics` |
| Start and shutdown | `src/main.cc`, `src/iofs.cc:329-365` | the process | load plugins, `fuse_main`, exit |
| HTTP server | `include/httplib.hh` (vendored), started by `src/monitoring.cc:36-48` | a listening socket, a queue of connections, a pool of threads | accept, hand over, serve the requests of a connection, close |
| Command line | `include/CLI11.hh` (vendored), `src/main.cc` | none after the start | - |

A FUSE worker thread runs a handler; when the handler's `TimerGuard` goes out of
scope it calls `Monitoring::record`, which calls `record` of each plugin in turn
in the same thread; then libfuse sends the reply.  An HTTP thread that serves
`/metrics` calls `poll_prometheus_metrics` of each plugin in turn.  The two kinds
of thread share nothing but the plugins' contexts, and no lock is taken anywhere:
what a scrape shows depends on how its loads fall between the stores of the
workers.  Between the application and a handler sits the kernel, which decides
how large a buffer `readdir` gets and how much of a reply it uses.

What is hard in it, by component (each point is a hazard of `PROJECT.json`, at
its line):

* *Stats plugin*: additions of many threads, scrapes in the middle of records,
  several HTTP threads, bytes at a histogram bound, relaxed memory order.
* *LastN plugin*: an entry claimed in one step and stored in others, a lap of the
  ring in between, labels computed before the entries are read.
* *Directory handles*: state kept between requests while the kernel goes back,
  drops part of a reply, and others change the directory.
* *Handlers*: which outcomes are counted, errno across the timer, the zero-copy
  variants that report a size before the data moves.
* *Plugin host, start, shutdown*: failure half way through loading, destruction
  before `dlclose`, moved-from instances, scrapes during exit.
* *Pages*: one buffer that all plugins of a page print into, `snprintf` that cuts
  silently, a subtraction of sizes that would wrap.
* *The whole path*: an operation counted by one plugin and not yet by the next, a
  worker that sleeps in `flock`, a page that must wait for neither.
* *HTTP server*: wake-ups after the mutex was released, the end of the pool while
  connections wait, a limit announced one step before it applies.

## The modules

| Module | Models | Role |
|---|---|---|
| `PluginApi` | operation codes | names of the operations, both enumerations and their agreement |
| `StatsPlugin` | `plugins/stats.cc` | one context, workers and HTTP threads; implements `OpCounter` |
| `LastNPlugin` | `plugins/lastn.cc` | one context, workers and HTTP threads |
| `DirStream` | | abstract: what `readdir(3)` promises an application |
| `DirHandle` | `src/iofs.cc:208-327` | the handle, with the DIR stream, the directory and the kernel around it; implements `DirStream` |
| `FuseOps` | `src/iofs.cc`, `TimerGuard` | descriptors, errors, bytes, and what reaches the plugins |
| `PluginHost` | `src/monitoring.cc`, `src/plugin_wrapper.cc`, `src/main.cc` | loading, calls through the proxy, the end of the process |
| `PageBuffer` | `generate_prometheus_output`, `emit`, the printing of `lastn.cc` and `sample.cc` | the bytes of one page |
| `OpCounter` | | abstract: atomic counters of operations; `StatsPlugin` and `IofsSystem` implement it |
| `IofsSystem` | the path of an operation to a page, `plugins/sample.cc` | applications, kernel, workers, plugins and HTTP threads together; implements `OpCounter` |
| `HttpServer` | `include/httplib.hh`, the part iofs uses | acceptor, pool, connections |
| `...MC` | | values, bounds and symmetry for TLC |
| `...Proofs` | | the theorems about the module without this suffix |

How they fit together: `IofsSystem` is the composition.  In it a handler is three
steps (`FuseOps` has them all), a plugin is its counter of calls (`StatsPlugin` has
the rest) and the order in which `PluginHost` visits the plugins; its HTTP threads
are the `Thread`s of `HttpServer`, and what they print passes through `PageBuffer`.

Operators whose comment begins with "Mutant of" are faulty variants of the
definition below them.  No specification uses them: they stand for a plausible
mistake, and a property is kept only if replacing the definition by such a
variant makes TLC refute it.

### StatsPlugin

`m` is the memory: the counter arrays of `stats.cc:280-286` as one function from
cells, `<<kind, key, bucket>>`.  `BeginRecord` is the entry into `record()`: it
chooses the operation, the duration and the byte count, and computes with
`BucketFor` and `Touched` which cells the call adds to.  `FetchAdd` is one
`fetch_add`, `EndRecord` the return.  `StartPoll`, `Load` and `Serve` are
`poll_metrics()` likewise.  `calls`, `before`, `shown` and `floor` are history
variables.  What a cell should be is a `Total` over calls of what each adds to it
(`Adds`): 1 in a counter of calls, the bytes or the duration in a sum.

The accesses are relaxed, so C++ orders those of different counters neither
within a call nor between threads.  `ProgramOrder = FALSE` lets each call make its
accesses in any order.  The run has them in the order of the source; the exactness of the
counters, the envelope and the monotony of pages are proved for any order.

`AtomicCounters` says that a plugin whose memory is added to and loaded counter by counter
is, to its callers, the atomic counters of `OpCounter` (see below): `wanted` are the
counters of calls that the record under way belongs to, `counted` those it has added to.
It too holds in any order.  `SkewBounded` needs
`ProgramOrder = TRUE`, that is, accesses in the order of the source: it holds of
a build whose compiler keeps that order on a processor that makes a thread's
atomic additions visible in order (`build.sh` compiles with `-g3` and no `-O`, and on
x86 an atomic addition is a full barrier).

`TimerGuard` calls `record()` only with a positive size (`iofs.cc:24`), hence
`Units \subseteq Nat \ {0}`.  Counters are naturals: that they are 64 bits wide is
left out, since they would take centuries to wrap at one per nanosecond.

### DirHandle and DirStream

An entry of a directory is its place, a cookie in `1..N`, which is also the offset
of the position behind it.  `DirStream` is what an application may rely on: each
entry at most once and in order of place, none skipped that has existed since
`opendir` or `rewinddir`, none that never existed, the end only when nothing is
left.  Where the directory may fail to be read (`ReadErrors`) the last is not
promised, for the handler reports an error as the end (`iofs.cc:255-260`); the rest is.
`DirHandle` refines it with the handler's loop (`EnterReaddir`, `ReadEntry`,
`Fill`, `BufferFull`, `ReadNothing`), the `DirHandle` fields `offset` and `entry`,
the C library's stream (`dpos`, and `dbuf` for the entries it has fetched in
advance), and the kernel's view (`kpos`, `reply`).  The kernel serializes the
requests of one open directory.  It may drop the rest of a reply at any time, and
then asks again from the place of the last entry it used.

`status`, `present`, `stable`, `ever`, `kpos` and `listed` have the same names in
both modules, so the refinement mapping is the identity: `Stream == INSTANCE
DirStream`, checked as `StreamSpec`.

Outside the model: attributes of entries (`readdirplus`), an `opendir` that fails,
and file systems whose cookies are not in listing order.  A buffer holds at least
one entry, as the kernel's always does.

### LastNPlugin

The value of a member of an entry is the sequence number of the call that stored
it, so a torn entry is one whose members differ.  `Claim` is the `fetch_add` on the
head, `Assign` one store of the assignment `m_ring[slot] = Entry{...}`, `Finish` the
return.  The assignment is not atomic and races with other workers and with
`poll_metrics()`, which is undefined in C++; the model takes the outcomes a build
with word-sized accesses can have: the stores of an entry and the flag of the
optional come in any order, each atomic, and a member that was not stored yet
reads as `None`.  `lapped` is a history variable: some call was not complete when
the head had gone round to its slot again.

### FuseOps

A handler is a few steps: `Enter` (the timer starts, with the size of `InitSize`), its
system call (`SystemCall`, `Read`, `Open`, ...), `Record` (the timer goes out of scope)
and `Reply` (libfuse).  `call[t]` holds the local variables, `fds` the descriptors of
the process, `fh` what `fi->fh` leads to, `log` and `bytes` what the plugins were given.
The handlers that make one system call on a path and return its result share
`SystemCall`; those whose order or outcome differs have an action of their own:
`flush` (`FlushDup`, `FlushClose`: `dup` may find no descriptor), `fallocate` (refused
before there is a timer, and its error is not in `errno`), `opendir` (`errno` is read
after the timer is gone: `EvaluatesLate`), and `read_buf` (the data moves only in `Reply`).

The kernel is external: it sends nothing on a handle before its open is answered, a
flush for every descriptor the application closes, and the release last.  Other
threads take and free descriptors (`Accept`, `Hangup`), other processes change the
file (`ChangeLength`).  `PluginErrnos` is what a plugin may leave in `errno`; those of
the repository leave nothing.  `asked`, `due` and `moved` are history variables: `due`
counts the answered calls that a plugin must have seen, those that moved data or are no
transfer.  All
handles are open on one file; what the system calls do to the source directory, and
the joining of paths, are not in the model.

### PluginHost

`size` elements of `m_plugins` exist, the first `unwound` of which are destroyed again;
`stage` is how far the next destructor has come (`Destructor`: the body first, then
`m_lib`).  `LoadNext` is one `emplace_back`, which on a full vector would move and so
destroy (`Moved`, for the defaulted move leaves `m_api` and `m_ctx` in place), and on a
broken library throws (`LoadFails`).  `mapped` is the reference count of the dynamic
linker.  A thread inside `record()` or a scrape is `at` a place of its loop: `Bind` and
`Unbind` are the constructor and the destructor of the proxy, `Call` the call between
them.  The line of a page about a plugin uses two proxies in one expression, so the
second binds before the first is gone.  `g[t][l]` is the thread-local `g_instance` of a
library, shared by its instances.

A scrape may go on, or begin, while the vector is destroyed; what it then does is
undefined.  The model lets it run and `CallInUse` claims nothing about it.

### PageBuffer

One scrape.  `buf` is the thread's buffer of `PLUGIN_BUFFER_BYTES`, kept between scrapes
(`monitoring.cc:67-69`); a byte of a text is `<<k, i>>`, the i-th that plugin `k` formatted,
so that a cut text, a stale byte and a byte of another plugin are all told apart.
`Snprintf` is what the call does: it keeps what fits, writes a NUL behind it and returns
the length it would have needed; the next offset is computed from the latter.  `Room` is
`buf_size - offset` in `size_t`, which wraps at `MaxSize`.  `Emit` (`stats.cc:310-321`),
`Line` (`lastn.cc:96-121`) and `PrintSample` (`sample.cc:42-58`) differ in when they look
at the end of the buffer and in what they return; `TakeSection` is the caller, which
takes what was returned only if it is positive and smaller than the buffer.  A line that
cannot be formatted is skipped by one, ends the page of the others.  The assumption that
the header of a LastN page fits stands for 113 bytes in a buffer of 4 MiB; without it
`Line` writes behind the buffer.  `text`, `failed` and `extent` are history variables.

### OpCounter and IofsSystem

`OpCounter` says what the numbers of a page are to somebody who uses the mount and reads
the page: each is an atomic counter.  An operation is counted once in every counter it
belongs to, between request and answer, and a number of a page is the value of its
counter at one moment between the request for the page and the page.

In `IofsSystem` applications put requests into the queue of the kernel (`Ask`), workers
take them (`Take`), make the system call (`SystemCall`; `flock` waits here, inside the
worker), add to the counters of one plugin after the other (`FetchAdd`) and answer
(`Reply`).  The cells are the calls each plugin counts and the bytes of the sample
plugin, which only reads add to.  An HTTP thread loads them plugin by plugin (`Load`),
the two of the sample plugin in any order: they are arguments of one call.  The
refinement mapping takes `m`, `unread` and `page` as they are; what an operation has been
counted in is what its worker has no more to add (`Counted`).

`PluginsAgree` needs the accesses of one thread to take effect in the order of the source;
like `SkewBounded` it is about such a build.

### HttpServer

`Monitoring::start_server` creates a server, registers one handler and calls `listen()` in
a detached thread.  That thread is the acceptor (`server`): it accepts (`Accept`), puts the
connection into the queue under the mutex (`Enqueue`) and wakes a thread after the mutex
is released (`Notify`).  A thread of the pool tests the queue and takes from it, sleeps or
ends (`GetJob`), then serves its connection: it waits for a request or for the timeout
(`Read`, `Timeout`), answers (`Answer`), and closes (`Close`).  `left` is the count of
`process_server_socket_core`; `Announced` says which answers tell the client that the
connection ends.  `told` and `ended` are history variables.  An error of `accept4` that the
loop does not know (`AcceptFails`) ends the server: `Shutdown`, `NotifyAll` and `Join` are
the end of the pool.

A request is one for a page, one with `Connection: close`, one by HTTP/1.0, one that gets an
error, one that stops within its lines, or one whose body the client goes on sending.
`Read` is the reading of all of it: what is cut short by the client, its timeout or its
leaving, is either the end of the loop or answered with an error, as `getline()`
(`httplib.hh:4012-4017`) and the parsing of lines and headers decide.  A body is read
before anything is routed (`httplib.hh:9416-9466`) and has no limit
(`httplib.hh:134`), so a thread cannot go on while the client is `Streaming`.  The client
may `Finish` the body or not.  Lines and headers are limited in length, and each wait for
the client, to read or to write, in time, so that nothing else holds a thread for ever.

Clients are free: they connect, send and leave when they like.  `room` is the number of
descriptors that the files, the directories and the plugins of the process leave for
connections; it is chosen at the start.  `MaxConns`, `MaxRequests`, `Backlog` and `MaxFds`
are bounds.

## The runs

| Run | Instance | Shows |
|---|---|---|
| `stats_plugin` | 2 workers, 1 HTTP thread, 2 bounds, 3 sizes, 3 operations, up to 3 calls, program order | the counters: `CountExact`, `QuiescentCounts`, `QuiescentSums`; the pages: `ScrapeEnvelope`, `ScrapeMonotone`, `SkewBounded`; both sides: `AtomicCounters` |
| `dir_handle` | 4 places, all contents and changes | `NoDuplicates`, `NoneSkipped`, `StreamSpec`, `ListingEnds` |
| `dir_read_error` | 2 places, reading may fail | refutes `CompleteAtEnd` |
| `lastn_ring` | ring of 2, 2 workers, 1 HTTP thread, 5 calls | `UnlappedExact`, `LineHome`, `QuietPageExact` |
| `fuse_descriptors` | 2 workers, 2 handles, 3 descriptors, 5 requests | `HandleOwnsDescriptor`, `NoDescriptorLeak` |
| `fuse_recording` | 2 workers, 1 handle, lengths up to 2, 4 requests, mode OVER | `TypeOK`, `RecordedOnce`, `BytesExact`, `ErrnoFaithful`, `UpperBound` |
| `fuse_counts` | 1 worker, 2 requests | refutes `EveryCallCounted` |
| `fuse_accurate` | 1 worker, 2 requests, mode ACCURATE | refutes `UpperBound` |
| `plugin_host` | 3 plugins of 2 libraries, 2 workers, 2 HTTP threads, 2 calls | `CallInUse`, `BoundToOwn`, `FanOut`, `DestroyedOnce`, `ContextNeedsLibrary`, `AllReleased` |
| `page_buffer` | 3 plugins, a buffer of 6 bytes, up to 4 lines of up to 3 bytes, sizes wrap at 13 | `InBounds`, `SectionsWhole`, `NoneLost` |
| `iofs_system` | 2 applications, 2 workers, 1 HTTP thread, stats and sample plugin, 3 requests | `PluginsAgree`, `CounterSpec`, `Answered`, `PageServed` |
| `http_server` | 3 connections, 2 threads, 0 to 3 descriptors, 2 requests of 4 kinds, at most 2 per connection | `OneOwner`, `NoJobForgotten`, `DrainedWhenDown`, `EndAnnounced`, `ConnectionsEnd`, `PoolEnds` |

Bounds, and why they are enough:

* `MaxCalls` bounds the calls of a behaviour.  Two calls make every pair of
  accesses of two workers meet; three are needed in `stats_plugin`, so that one
  worker can return and call again within a scrape while the other is half way
  (with two calls and two workers a skew above two could not show).  The theorems
  have no bound on the number of calls.
* `stats_plugin` has the constraint `WithinBounds`, for not all of it fits into one run: two calls
  with any arguments while nothing is printed; any number of pages during two calls that
  are alike; and a third such call during the first page.  Two histogram bounds stand for
  six: sizes at, between and above them occur, and the buckets are treated alike.  One
  operation is counted and in the histogram, one only in the histogram (the lists of
  operations are meant to be edited, `stats.cc:25-37`), one in neither.  That everything
  but `SkewBounded` also holds in any order of accesses, and between any number of HTTP
  threads, is proved.
* Four places leave room for an entry that is fetched, one kept back, one in the
  reply and one ahead.  Directory contents are arbitrary at each size.
* A ring of two slots and five calls are two laps and a half, so that the window
  wraps and starts at either slot.
* `Members` leaves out `is_write`: two members are enough to tear an entry.
* `fuse_descriptors`: three descriptors are two handles and one more, which a flush, a
  connection or a third open can take; five requests open, flush and release a file
  that has been shared and open another one meanwhile.
* `fuse_recording` has a file of up to two bytes, so that a transfer may be whole, short
  or empty, and four requests, two at a time.
* `plugin_host` names one library first and last, around another one: two instances
  that share `g_instance`, and a reference count of two.  Either library may be missing or
  invalid, so the loading fails at the first or the second place; at the third it cannot,
  for the library there is the one of the first.  `NothingIsLeft` is proved for every place.
* `page_buffer`: two lines of three bytes fill the buffer exactly, other lengths end
  one before and one or more behind its end; each kind of plugin prints, and two of them
  into a buffer that holds bytes of another.
* `iofs_system`: one application may wait for the lock the other holds, while the other
  asks again; a page falls anywhere between two plugins of two records.
* `fuse_counts`: one open and one read are enough to fail.
* `http_server`: three connections and two threads, so that one waits in the queue while both
  threads are busy; from no descriptor left to one for each connection, so that `accept4`
  also fails for want of one while others wait in the backlog, of length one; two requests
  reach the limit of one connection, or two clients send bodies that never end and hold
  both threads.  Of the kinds of requests it leaves out HTTP/1.0, which ends a connection
  like `Connection: close` but unannounced, and those that are wrong from the start;
  requests become wrong by the leaving of their client.  Both are in the theorems.

`CHECK_DEADLOCK FALSE` is set in `plugin_host` (the process ends), `page_buffer` (the scrape ends) and
`http_server` (after an error of `accept4` the server ends).  In the others, `iofs_system`
among them, a deadlock would be an error.  Symmetry is used only in runs without liveness.

Fairness:

* `FairSpec` of `DirHandle` assumes that the handler runs, that the client goes on sending
  requests, and (strong fairness on `Use`) that it does not drop every reply unused for
  ever; `ListingEnds` also supposes that it stops seeking at some point.  Without these
  the listing rightly need not end.
* `FairSpec` of `IofsSystem` gives weak fairness to each worker and to each HTTP thread
  inside a scrape: the operating system schedules runnable threads.  Applications may
  stop anywhere, with the lock in their hands too, so a worker may wait in `flock` for
  ever; `PageServed` holds all the same.  `Answered` promises an answer to every
  operation but the lock, with as many workers as applications; with fewer, those that
  wait for the lock could hold all workers while the unlock is in the queue.
* `FairSpec` of `HttpServer` gives weak fairness to the acceptor and to each thread, whose
  waiting ends in a timeout (`httplib.hh:4386-4417`) unless a body goes on; none to the
  clients, to an error of `accept4` or to spurious wake-ups.  So `ConnectionsEnd` allows for
  clients that never end a body: their own connections stay open, and others wait if such
  clients hold all threads or all descriptors.

The safety properties of these runs do not depend on fairness; they are checked in
the same run.

## What is proved

For every value of the constants that the modules' assumptions allow, in eight
modules:

* `StatsPluginProofs`: `TypeCorrect`, `CountsAreExact`, `HistogramAtRest`, `SumsAtRest`,
  `ScrapeIsCurrent`, `ScrapesNeverGoBack`, `SkewIsBounded`, `ImplementsCounters`.  They rest
  on lemmas about sums over finite sets.  Induction over a set is `SubsetInduction`, which
  takes the set of the subsets for which the claim holds, where the library's theorem takes
  an operator.  `SumIsCount` shows that a sum is the number of the pairs `<<x, i>>` with
  `i` in `1..f[x]` (`Copies`); what holds of cardinalities then holds of sums (`SumAdd`,
  `SumMonotone`, `SumCong`).
  `TypeOK` is inductive together with `OwnCall`: each worker is in a call of its own and
  has still to add only to counters of that call.  With it `CountExact` is inductive: a
  `fetch_add` adds to the counter what the call is worth there, and the call to those
  that have added.  At rest every call has added everywhere; `BucketForCorrect` and
  `TouchedHistogram` turn "the calls that touch this bucket" into "the calls of at most
  this bound", and `TotalFacts` the totals into counts or sums.  For the pages, counters
  never shrink and calls that had returned when a scrape began stay returned, so a
  number loaded later is at least theirs; what was served is at most the counter.
  For the skew, the calls counted in the first of two successive lines and not in
  the second are ones under way, at most one per worker; the second line is loaded
  later.  `SkewIsBounded` alone assumes `ProgramOrder`.  `ImplementsCounters` takes every step
  of the plugin to a step of `OpCounter` or none.
* `LastNProofs`: `LastNTypes`, `EntriesAreNewest`, `LinesAreHome`, `QuietPagesAreExact`, for a
  ring of any size.  They rest on lemmas about the remainder modulo `N`: numbers of one
  slot are a lap apart, and a window of `N` numbers meets each slot once.  A slot is not
  exact while a call is under way, so `UnlappedInv` says it member by member: the newest
  number of the slot where the store was made, the one a lap before where it is pending.
  `RingHome` and `LineInv` say from which calls a number in the ring, loaded or printed
  can be; `QuietInv` says that the lines printed so far are the first of the exact page.
* `DirHandleProofs`: `NothingIsMissed`, `NothingIsRepeated`, `HandleImplementsStream`, for a
  directory of any size, whether reading it may fail or not, and `EndIsComplete` for one
  that can be read (`ReadErrors = FALSE`; with errors the run `dir_read_error` refutes it).
  The invariant `HandleInv`
  says, for each stage between the directory and the application (the DIR stream's
  buffer, the kept entry, the reply), that it holds every lasting entry between its
  two ends.  After a seek this is false of the stale handle, so it is asserted only
  when the kernel would go on where the handle stands (`Synced`); `VirginInv` covers
  a rewind of a handle that stands at offset 0, which does not reposition the
  stream.  `TypeOK` and `NoneSkipped` are conjuncts of `HandleInv`.  An error ends a listing
  but leaves all of this true of what was listed, so that only `EndIsComplete` needs
  that there are none: its step is `NothingAhead`.
* `FuseOpsProofs`: `FuseTypes`, `DescriptorsAreOwned`, `NothingIsLeaked`, `ErrorsAreFaithful`,
  `CallsAreRecordedOnce`, `SizesAreExact`, `OverIsAnUpperBound`, for any number of workers,
  handles and descriptors.  `CallInv`
  ties the local variables of a handler to where it is.  For the descriptors, `FhInv`
  says that an open handle has one of its own, `UseInv` that every handler fits the state
  of its handle and that one that opens or closes it is alone with it, `DupInv` and
  `KnownInv` that all others on a handle are duplicates of a flush under way.  For the
  recording, `CountInv` balances `due` and `log` over the calls between their
  timer and their reply, `AskedInv` the calls in flight and those answered against those
  asked for, so that none is recorded twice, and `BytesInv` `moved` and `bytes` over the bytes that those calls
  reported (`Pending`); `CoverInv` is about zero copy: a handler whose report mode
  always gives it a size (`Watched`) has a positive one, so that its call is recorded too,
  and with OVER it is what was asked for and bounds what is moved.  The
  upper bound is proved for the mode OVER alone: with ACCURATE it is false.
* `PluginHostProofs`: `CallsAreSafe`, `CallsReachTheirOwn`, `NoStaleBinding`,
  `NeverDestroyedTwice`, `LibrariesOutliveContexts`, `NothingIsLeft`, `EveryPluginSeesAll`,
  `TypesAreKept`.  None of
  the properties is inductive: `LifeInv` says what each element's context is from its
  place alone (`Fate`), and that the reference count of a library is the number of
  elements that still hold it (`Holders`); `CallInv` says where each thread is, and that
  it is bound to a context only between `Bind` and `Unbind`.  That the reserved vector
  never moves (`NeverMoved`) is what keeps a context from being destroyed twice.  A
  worker can be in a call only while mounted, since `fuse_main` waits for it.  `FanInv` says
  that what a plugin has seen and the threads that have not come past it (`Missing`) are
  all the calls.
* `PageBufferProofs`: `PageTypes`, `NoOverrun`, `NoCutSection`, `AllThatFitIsShown`, for any
  plugins, lengths and buffer.  `PageInv` relates the offset to what was formatted while
  the plugin prints (`Printing`: below the end of the buffer all of it is there) and the
  value returned to it afterwards (`Answered`).
* `IofsSystemProofs`: `SystemTypes`, `ImplementsOpCounter` (every step of the system is a
  step of the atomic counters or none), `PluginsAgreeOnPages`.  `SystemInv` says that a
  request is in one place, the queue or a worker, and what a record may have to add;
  `AgreeInv`, that the count of an earlier plugin is ahead of a later one's by exactly the
  workers between the two, and a page by at most as many.
* `HttpServerProofs`: `HttpTypes`, `ConnectionsHaveOneOwner`, `NoLostWakeup`, `Drained`,
  `EndsAreAnnounced`.  `HttpInv` adds to the properties that what the kernel holds was never
  accepted (`Fresh`), the order in which the pool ends (`Ending`) and that nothing is
  announced or ended while the loop goes on (`Loop`).

The type invariants of `StatsPlugin`, `LastNPlugin`, `PluginHost`, `PageBuffer`, `IofsSystem` and `HttpServer`
are proved and not listed in a run.

Model-checked only: the liveness properties `ListingEnds`, `Answered`, `PageServed`,
`ConnectionsEnd` and `PoolEnds`, for TLAPS has no rule for fairness here.  All safety
properties, the action property and the refinements that the passing runs check are
proved.

## Findings

* `dir_read_error`: a failing `::readdir` is reported as the end of the directory
  (`iofs.cc:255-259`).
* `fuse_counts`: calls of read and write that fail or move nothing are not counted
  (`iofs.cc:24`), nor is a `fallocate` with a mode (`iofs.cc:483-485`), though the help text
  of the page promises the "Cumulative number of times each FUSE op was called"
  (`stats.cc:353`).  What does hold is `RecordedOnce`: no call is recorded twice, and every
  one that moved data or is no transfer has been when it is answered.
* `fuse_accurate`: the "true upper bound" of ZERO_COPY_REPORT_ACCURATE is exceeded when
  the file grows before the reply (`iofs.cc:440-452`).

Other behaviours worth knowing, which the models contain and no run of its own is
about:

* The buckets of a page need not be cumulative while a `record()` is under way
  (`stats.cc:339-341`); they are at rest, and `SkewBounded` limits the difference.
* The label `i` of a line of the LastN page is computed from an earlier head than the
  entry it stands before (`lastn.cc:89-113`; the note at the top of the file says so).
  A call that is overtaken by one a lap later leaves an old or torn entry for good
  (`lastn.cc:83-84`): `UnlappedExact` says nothing once that has happened.
* An answer with an error announces `Connection: close`, but the loop over the requests
  goes on (`httplib.hh:8862`), so `EndAnnounced` excepts errors.
* Any error of `accept4` but EMFILE, EINTR and EAGAIN, of a single connection too, ends
  the server (`httplib.hh:9374`); the mount goes on without metrics.
* The body of a request is read before it is routed, and without a limit
  (`httplib.hh:134`, `9461-9466`): as long as it goes on, its thread serves nothing else.
  `ConnectionsEnd` and `PoolEnds` say what that can hold up.

## Not modelled

* Of the 28,037 lines of implementation about 26,000 are two vendored headers.  Of
  `httplib.hh` the code on the path of a request for `/metrics` is in `HttpServer`: thread
  pool, accept loop, connection loop, closing.  The parsing of requests is a choice
  among kinds, and so is what a header in them may reach, as the code for ranges and for
  chunked or multipart bodies.  Its client, TLS and compression code is never reached from
  iofs, nor is `stop()`.  `CLI11.hh` parses the command line before anything
  else exists and leaves no state that changes.
* The fork of `fuse_main` into the background (`main.cc:107`): a thread started by the `init`
  of a plugin would not survive it; the plugins here start none.
* A library without `get_name` or `get_version` (`plugin.hh:62`): the call of a null
  pointer ends the process, and there is no state after it to speak of.
* An `init` that throws, an exception of `canonical()` at the start, and what a scrape does
  while or after the plugins are destroyed at the end of `main`, which is undefined.
* What system calls do to the source directory and the joining of paths (`FuseOps`),
  the attributes of directory entries, and cookies that are not in listing order
  (`DirHandle`).
* The 64-bit wrap of counters, the host name on the page, `total_duration_ns` of the sample
  plugin, which nothing reads, and the texts of log messages.
* Benchmarks and end-to-end tests, which are clients of the mount.
