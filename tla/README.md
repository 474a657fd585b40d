# WvStreams: a TLA+ verification project

WvStreams is a C++ library for network programs: buffered non-blocking streams
driven by one `select()` loop, continuations so that callbacks can be written as
straight-line code, UniConf, a hierarchical registry that can be served over a
connection and replicated, and a D-Bus client and server. This directory holds TLA+ models of its core, the TLC instances
that check them, and TLAPS proofs. Paths below are relative to `src/`.

## 1. Inventory

Almost everything runs in one thread. The difficulty is not parallelism but
*re-entrance*: a method calls a user's callback, or a virtual method, which calls
back into the same object. Real concurrency exists in three places: processes
that share memory (`WvMagicCircle`), processes that share files (`WvLockFile`,
`WvAtomicFile`), and the two ends of a connection (UniConf, D-Bus, HTTP).

| Component | State | Operations | Interacts with | Hard behaviour | What makes it correct |
|---|---|---|---|---|---|
| `WvMagicCircle` (utils) | `circle`, `head`, `tail` in shared pages | `put`, `get`, `skip`, `used`, `left` | two processes, no lock | every interleaving of index reads, copies and index stores | it is a bounded FIFO; no byte is used by both sides |
| `WvStream`, `WvFdStream` (streams) | descriptors, in and out buffers, `stop_*`/`shutdown_*`, `closed`, error, flush and autoclose flags, close callback | `read`, `write`, `unread`, `blocking_getline`, `flush`, `flush_then_close`, `close`, `noread`, `nowrite`, `select`, the switches | kernel, main loop, callbacks | `close`, `flush`, `maybe_autoclose` and the write error path call one another; short writes, errors | bytes in order, none lost at close, callback and descriptors used once, buffers drain |
| `WvCont`, `WvTask` (utils) | reference-counted `Data`, `curdata`, `taskdepth`; tasks with stacks, list of free tasks | construct, copy, call, `yield`, return, destroy | every `continue_select` | every yield lands in the main program; the last reference may be dropped anywhere in the chain | calls nest, values reach the right side, stacks have one owner, destroyed functions finish |
| `UniClientGen`, `UniClientConn` (uniconf) | connection, the one request in progress, reply members, held notices | `get`, `set`, `setv`, `haschildren`, `iterator`, `commit`, `refresh` | daemon, watchers | waits inside a callback; watchers call back; timeouts; requests have no number | a reply answers its own request; calls return; notices add up |
| `UniConfDaemonConn` (uniconf/daemon) | the registry, per-connection listing in progress | one handler per command, change notices | clients | listings and removals give up the processor in the middle | listings are faithful; every change is announced |
| `UniConfGen` (uniconf) | `hold_nesting`, queue of deltas | `hold_delta`, `unhold_delta`, `delta`, `flush_delta` | every generator | nested calls from callbacks | nothing lost or reordered |
| `UniCacheGen` (uniconf) | a copy of the tree | `refresh`, `loadtree`, `deltacallback` | a generator below | changes during the first listing | the copy converges |
| `WvIStreamList` (streams) | list of streams, `sure_thing` | `pre_select`, `post_select`, `execute` | every stream | callbacks that add, remove or destroy streams | each ready stream runs once, none after it is gone |
| alarms, callbacks, `continue_select` (streams) | `alarm_time`, `last_alarm_check`, `call_ctx` | `alarm`, `setcallback`, `continue_select`, `terminate_continue_select` | `WvCont`, clock | clock going back; callback replaced while suspended | alarms fire; no callback on a dead stream |
| `WvLockFile`, `WvLockDev`, `WvAtomicFile` (streams) | a file | `lock`, `unlock`, `readpid`; `open`, `close` | other processes, crashes | check-then-unlink races; crash before the rename | one owner; old or new contents |
| `WvDaemon` (streams) | pid file, `_want_to_die`, `_want_to_restart`, signal handlers | `_run`: load, start, run, stop, unload | other daemons, signals | a start while another daemon runs; signals between two tests | one daemon; signals take effect |
| `UniReplicateGen`, `UniRetryGen` (uniconf) | list of generators with `was_ok`, `processing_callback`; connection and next attempt | the generator interface, `append`, `prepend`, `replicate` | generators, watchers, clock | echoes and changes look alike; generators come and go during any call | replicas agree; watchers know; reconnection |
| `WvDBusConn`, `WvDBusServer` (dbus) | `out_queue`, `pending` by serial, `authorized`; names, connections | `send`, `send_and_wait`, request and release names, bridge, broadcast | each other | timeouts against late replies; peers that die in a broadcast | order; one answer each; names lead to the living |
| `UniMountGen`, `UniTransactionGen` (uniconf) | trees of generators, of pending changes | the generator interface | one another | notices while mounting | which generator answers |
| resolver, TCP, HTTP pools (ipstreams, urlget) | pending lookups and requests | connect, request, reply, timeout | the network | pipelining, retries, late answers | one answer per request |

`PROJECT.json` lists these and the remaining parts (strings, containers,
encoders, OpenSSL wrappers, platform code) with the reason each is or is not
modelled, and the hazards, each at the line where it bites.

## 2. Modules

| Module | What it is |
|---|---|
| `WvMagicCircle` | `utils/wvmagiccircle.cc`, one step per access to shared memory |
| `BoundedFifo` | what `WvMagicCircle` promises |
| `WvFdStream` | `streams/wvstream.cc` with the overrides of `streams/wvfdstream.cc` |
| `WvCont` | `utils/wvcont.cc` on `utils/wvtask.cc` |
| `Semicoroutines` | what `include/wvcont.h` promises |
| `UniConfNet` | the UniConf client, daemon connection, notice queue and cache, composed |
| `WvIStreamList` | the main loop of `streams/wvistreamlist.cc` with the alarms, callbacks, `continue_select` and destruction of `streams/wvstream.cc` |
| `WvFiles` | `streams/wvlockfile.cc`, `wvlockdev.cc`, `wvatomicfile.cc`, `wvdaemon.cc`, one step per system call |
| `UniReplicateGen` | `uniconf/unireplicategen.cc` over `uniretrygen.cc`, client and local generators |
| `WvDBus` | `dbus/wvdbusconn.cc` and `dbus/wvdbusserver.cc`, composed |
| `WvMagicCircleProofs`, `WvFdStreamProofs`, `WvContProofs`, `WvFilesProofs`, `WvDBusProofs`, `UniConfNetProofs`, `WvIStreamListProofs`, `UniReplicateGenProofs` | theorems and their TLAPS proofs (section 5) |
| `MC*` | the instances for TLC |

How they fit together: `WvIStreamList` uses continuations as `Semicoroutines`
describes them, which `WvCont` implements; `UniReplicateGen` uses remote
generators as `UniConfNet` shows them (calls return, notices arrive in order or
are lost with the connection); `WvFiles` contains the daemon, whose pid file is
read as a lock file and written as an atomic file.

In every module `TypeOK` says the types and the counts that go with them. Where it
is checked together with further named parts, the conjunction ends in
`Consistent` (`StreamConsistent`, `ListConsistent`, ...).

A definition that stands just before another one and has its name with an
underscore and a word added (`Close_noflush` before `Close`, `Sent_nounget` before
`Sent`, ...) is not part of a specification. It is a plausible bug in the code
that the other one models, and `PROJECT.json` names the property that is violated
when it takes that one's place.

### WvMagicCircle

State: the shared array, the two indices, and what each process holds in local
variables between its steps. `PutBegin` is `put()` up to the clamp (it reads
`head` once), `PutCopy1`/`PutCopy2` the two `memcpy` calls, `PutPublish` the store
to `tail`; `get()` and `skip()` likewise. Memory is sequentially consistent:
the code relies on `volatile` indices and has no barriers, so the model says what
holds when stores are seen in program order. A `memcpy` is one step;
`RegionsDisjoint` is what makes that harmless.

### WvFdStream

The library runs in one thread, so a public call is one action; inside, each
method is an operator from a stream to the set of streams it may leave behind,
the choice being the kernel's. Two versions of `close`, `flush_outbuf` and
`maybe_autoclose` are needed: inside a `flush()` (`is_flushing` set, where a close
does not flush again) and outside. `blocking_getline()`, which waits for the
peer, is cut at the turns of its loop. Bytes are numbered, so order, loss and
duplication can be seen.

Abstractions: the waiting flush's loop is one step whose result is any prefix
sent, with or without an error or a timeout; how much `optgettable()` offers is
nondeterministic; `write()` of some bytes never returns 0; `isselectable()` is
true; an unexpected errno of `select()` is left out. Not in the module: alarms,
callbacks, `continue_select`, `read_requires_writable`, `write_requires_readable`,
autoforward, the global stream, and a negative flush timeout.

### WvCont

`frames` is, per stack, the unfinished activations of `_call()`; `cur` the stack
that runs; `back` says it has just returned from `WvTaskMan::run()` inside its
innermost activation. Every context switch is a step. The user's functions are
the environment: they may create, copy, drop and call conts, yield and return,
but respect the two rules that the code asserts (do not call a cont that is
active; do not yield once `isok()` is false). How a stack is allocated
(`get_stack`, `stackmaster`) is not modelled; that a free task is reused only if
its stack is large enough is.

### UniConfNet

A client's record holds the members of `UniClientGen` by their names and a stack
of calls, because a watcher called from `unhold_delta()` may make calls itself.
A frame's `pc` is `"wait"` (the loop of `do_select`), `"drain"` (`flush_buffers` in
`set`), `"flush"` (dispatching held notices) or `"callback"` (a watcher is
running). The daemon handles one command per step; `do_subtree` gives up the
processor between entries exactly where the code counts to
`CONTINUE_SELECT_AT`. `Break` (external) cuts a connection and keeps a prefix of what was
sent; `Timeout` is the branch of `do_select` that gives up; `LocalChange`
(external) is any other actor that changes the daemon's registry. A client in `Cached`
has a `UniCacheGen` on top: `cache_refresh` is its first `refresh()`, whose `loadtree()`
lists the tree (op `"loadtree"`) and stores what was listed when that call returns,
after the notices that came meanwhile. The history `known` is the set of keys of which
the view is claimed to be right: all of them for a client without a cache; for one
with a cache those it was told of, and after the load those that it found
`Steady`.

Abstractions: keys are children of the root and have none of their own; the root
always has a value, since `UniMountGen` sets it when a generator is mounted;
messages are whole and in order; malformed commands, `noop`, `help`, a server of
another kind and the clock-jump branch of `do_select` are left out.

### WvIStreamList

`stack` holds the unfinished calls: a `select()`, the list's `execute()`, a stream's
callback, a destructor, a suspended function that is run to its end. The program
acts at the bottom and inside every callback: append, unlink, close, release,
`alarm`, `setcallback`, `terminate_continue_select`, `continue_select`, run the list
again. `pre_select`, `post_select`, `execute_next` and `execute_done` are the phases
of one round; `sure` is `sure_thing`. A stream's reference count is explicit, so
that use after destruction shows. `clock` may be set back; `wvstime` is the library's
copy, brought up to date where the code does so.

Abstractions: one list, without an alarm of its own; no lists inside lists and no
`select()` on a single stream inside a callback (`globalstream`); close callbacks
and the 10 ms that `alarm_remaining` adds are left out. User code keeps two
rules: a callback that can be suspended does not run the list, and a function
that is run to its end only returns.

### WvFiles

All processes play one part, chosen at the start, on one file name; inodes are
explicit, because a process may hold an open file that another one has unlinked.
Each step is a system call that others can see: `lock_create` is `open(O_EXCL)`,
`lock_print` the write of the pid, `readpid_open` / `readpid_alive` / `readpid_getline`
/ `readpid_clean` the steps of `readpid()`, and so on. `Kill` may strike between any
two. A daemon goes through `load_open` ... `do_unload` (`Life`); `SigHup` and
`SigTerm` are the handlers. History variables record whether calls overlapped
(`overlap`), whether a pid file was lost or a device lock granted without a file (`lost`),
and whether a `lock()` returned true although its `print()` failed (`unwritten`), since
several properties hold only while they have not.

Any of these system calls may fail, and counts as a fault: the `access()` checks and the
open of `readpid()` (`readpid_refused`), an open for another reason than that the file
exists, the write of a pid (`WritesNothing`), the writes and the rename of an atomic file.

Abstractions: a pid is not used twice, a file's contents are counted in chunks.

### UniReplicateGen

`gen[i]` is an inner generator with the retry generator's connection
(`conn`, `next`), `was_ok`, the notices under way (`inbox`) and its contents, which for
a remote one are the daemon's. `stack` holds calls, `deltacallback()`
activations and `replicate()` activations. `Touch` is `maybe_reconnect()` and
`maybe_disconnect()`, which every call of a retry generator makes. `refresh()` is cut
between the generators, where the notices each has read are passed on, and so is
`get()`, whose second `first_ok()` may see another generator come back. Others change a
daemon's contents (`Elsewhere`), connections break in the middle of calls
(`Breaks`, `get_fails`), daemons come back, time passes.

Abstractions: keys have no children; a daemon executes a request at once, so a
`set` is not lost half-way; `setv` behaves as `set`; a failure to create a
generator at all (a bad moniker) is left out.

### WvDBus

Each client is a process with one `WvDBusConn`; `srv[c]` is the server's end.
`stream[c]` is all a client ever wrote, of which the server has read `taken[c]`
items; `down[c]` is what the server wrote and the client has not read. `cb` says
which callback is running, so that a callback can send and close, also while the
program waits in `send_and_wait()`. `post_select` is cut at every message and at every
callback.

Abstractions: an item is a whole message or a whole line of the authentication;
there is no clock: while the alarm is set any pending reply may be late; of the
bus's methods `Hello`, `AddMatch`, `RequestName`, `ReleaseName` and
`GetNameOwner` stand for the rest, which only answer; priorities of callbacks are
the server's fixed ones. A message without destination is a signal. A callback
that is told of a cancellation (`cancel_pending()` inside a second `send()` of its message)
only returns. What has been read but not handed out when a callback closes the
connection is dropped, where the code still hands out the messages that are whole.

## 3. Runs

| Run | Instance | Checks | Shows |
|---|---|---|---|
| `magic_circle` | N = 3, two byte values | `TypeOK`, `RegionsDisjoint`, `IndicesNeverCross`, `CopiedDataStable`, `ImplementsFifo` | the circle is a FIFO under every interleaving |
| `fdstream` | a writer, a reader and a reader without write side; socket, two pipes, one-way; 3 bytes out or in, one a separator; limits 0 and 2; queuemin up to 2; one callback | `StreamConsistent`, `SentInOrder`, `ReceivedInOrder`, `CloseLosesNothing` | order, loss, callbacks and descriptors with short writes and errors everywhere |
| `fdstream_live` | socket, read-only; 2 bytes; three programs, two of which delay their output | `BufferedOutputIsSent`, `StreamsEnd` | what a main loop makes happen |
| `cont` | 3 conts, 4 tasks, 2 stack sizes, 2 handles each | `ContsConsistent`, `SuspendedTasksAreOwned`, `ImplementsSemicoroutines` | calls nest although every yield goes to the main program |
| `cont_live` | 2 conts | `DyingContsAreFreed` | destruction at any place in the chain completes |
| `main_loop` | 2 streams, one with `continue_select`; clock 0..2; 3 acts of the program; lists nested twice | `ListConsistent`, `RemovedStreamsDoNotRun`, `AlarmNotEarly`, `ReadyStreamsRun`, `AlarmsRing` | callbacks that change the list under the loop |
| `files` | 3 processes at each kind of lock and at an atomic file of 2 chunks, 2 daemons; 4 calls, 2 signals, 1 fault (a kill or a system call that fails) | `LocksConsistent`, `FileIsOldOrNew`, `SoloLockDecides`, `SignalsTakeEffect` | exclusion, crashes, stale and blank files |
| `daemon_pid_file` | 3 daemons started one after the other | `NotAlreadyRunning` is violated | the finding below |
| `uniconf_calls` | 2 clients, one with a cache that loads, 2 keys, 2 calls or changes (3 for one client), faults | `RequestsConsistent`, `GetIsCurrent`, `ListingIsFaithful`, `ViewConverges` | calls of two clients against one daemon, notices with watchers that set |
| `uniconf_live` | 1 cached client, 2 keys, every call, listings included, faults | `CallsReturn` | no call waits for ever |
| `replicas` | two daemons' generators, or a local one before a daemon's, and the third may be added; 1 key, 2 values, clock 0..1, 2 acts or faults | `ReplicasConsistent`, `ReplicasAgree`, `WatchersKeepUp`, `Settles`, `Reconnects` | replicas that break, change and come back during calls |
| `dbus` | 2 clients, 1 name, 4 pairs of roles, 3 acts | `ConnsConsistent`, `SendsInOrder`, `OneAnswerEach`, `SignalsInOrder`, `Answered`, `NamesAreReleased` | replies against timeouts, names against closing connections |

Why these bounds reach the interesting cases. Circle: with N = 3 (four slots)
both copies of a put and of a get can be non-empty, and each process can run
several whole operations between two steps of the other; nothing else is
bounded. Streams: three bytes allow a short write with bytes before and behind
it, and a limit of 2 is below what may already be buffered. Conts: three make a
chain in which a middle one dies; four tasks with two sizes make reuse fail on
size. UniConf: two budget units are two overlapping operations of two clients,
each with a listing of two entries that yields in between; the single client's
histories of three give a call, a change during it and a watcher's call. Main
loop: two streams are enough for one callback to act on a stream that is before
or behind it in `sure_thing`, three acts for an unlink, a nested run and a
release; nesting twice lets an inner run change the list under an outer one.
Files: three processes let two compete for what a third left when it died, at
every system call; 4 calls are a lock, its release and two attempts. Replicas: the
generators start with different values, or with none, so that `replicate()` corrects in
both directions; with two daemons notices cross, with a third generator `refresh()` and
`replicate()` are interrupted between two others; two acts are a change during a fault.
D-Bus: three acts with a connecting client cover a request for a name, a call
through it and its owner's end; the second client's authentication overlaps
everything. `MaxTime`, `Budget`, `Signals`, `MaxFaults` and `MaxDepth` are
bounds of the instances; nothing in the properties depends on their values
except that `AlarmsRing` and `Reconnects` excuse what lies beyond the last tick. Symmetry is used on keys, values, tasks and conts of equal
stack size (not on UniConf's clients, of which one has the cache), in runs without liveness (and for the safety-only refinement of
`cont`).

`CHECK_DEADLOCK FALSE` appears where the program may have nothing left to do: when
the budget is spent and nothing is under way, a list is idle, processes have
ended, a registry or a bus is quiet. That nothing gets stuck is what the
liveness properties of those runs say.

### Fairness

* `fdstream_live`: `WF(SelectStep)` and `WF(AutocloseTimeout)` – a program has a
  main loop that selects, and time passes. `SF(KernelTakes)` – a descriptor that
  is offered data again and again takes some; without it a peer that never reads
  keeps the buffer full, which is not a fault of the library.
* `uniconf_live`: weak fairness of the client's own thread and clock only. The
  daemon may stop for ever; `CallsReturn` is about the timeout.
* `cont_live`: functions leave sooner or later, and return when `isok()` is false,
  which `include/wvcont.h` demands ("Return as soon as you can"); the steps of
  `_call()` itself are weakly fair.
* `main_loop`: weak fairness of the loop itself (a program calls `runonce()` for
  ever), of callbacks returning, and of the clock; data arrives or not.
* `files`: a daemon that has been started goes on, and its run callback returns
  when `should_run()` is false, which `include/wvdaemon.h` asks for. Lockers have no
  fairness.
* `replicas`: calls return (`Runs`), the clock ticks, and the program reads and runs
  its main loop again and again, also between other things it does (strong
  fairness of `get` and `Deliver`, which are disabled while a call is under way).
  Daemons need not come up.
* `dbus`: the main loops of clients and server run; time passes, so that a reply
  that is waited for is late some day. Programs need not act.

## 4. Findings

**A refused daemon removes the pid file of the running one** (run
`daemon_pid_file`). `do_load()` of a second daemon finds the first one's pid, calls
`die()` and returns; `_run()` goes on to `do_unload()`, which unlinks `pid_file`
(`streams/wvdaemon.cc:336`). A third daemon finds no pid file and runs beside the
first, although `do_load()` begins with "First, make sure we aren't already
running".

Noticed while modelling, and either excluded from a run by a stated rule or
visible in the models without a property of their own:

UniConf client, daemon and cache

* a watcher that calls `get()` while another `get()` is about to return changes what
  the outer one returns: `do_select()` runs the watchers before `cmdsuccess`,
  `result_key` and `result` are looked at (`uniconf/uniclientgen.cc:434`).
  `GetIsCurrent` is violated with `CallbackOps = {"get"}`; the run has `{"set"}`;
* a change during the cache's first listing is dispatched at the end of the wait,
  then `loadtree()` stores the older listed value (`uniconf/unicachegen.cc:84`), and the
  cache is wrong about that key until it changes again; a key with an empty value is
  skipped. The run has a cache that loads, and `ViewConverges` claims every other key
  (`Steady`); with `Keys` in the place of `Steady(f)` it is violated;
* `setv` stores nothing: the client sends it to a server of version 19, and the
  daemon, which announces that version, has no case for it
  (`uniconf/daemon/uniconfdaemonconn.cc:129`); the FAIL replies may be taken for
  the answers to the next request;
* a watcher that lists while a listing is returning meets `assert(!result_list)`.

Streams

* after `delay_output(true)` a select does not flush (`want_to_flush` is false until
  `flush()` is called), although `wvstream.h` says "To flush the output buffer, use
  flush() or select()", and `dbus/wvdbusconn.cc:445-447` counts on it.
  `BufferedOutputIsSent` is stated, and checked with programs that delay, for all output
  but that (`Delayed`): a `flush()` is honoured by the selects that follow, even if it
  sent nothing itself;
* `delay_output(true)` after `flush_then_close()` keeps the stream from closing, its
  timeout included (`StreamsEnd` excepts it in the same way);
* `flush(0)` that empties the buffer returns false: `outbuf_was_used` is not
  looked at again;
* a `blocking_getline()` that times out leaves `queue_min` past the end of the
  inbuf, and a later `read()` returns nothing although bytes are buffered;
* a stream without a write descriptor accepts output while it is delayed, and when
  `noread()` closes its read side too that output is thrown away without an error
  (`outbuf.zap()`, `streams/wvstream.cc:799`); `CloseLosesNothing` excludes such streams
  by name (`HasWriteSide`);
* `outbuf_limit()` below what is buffered wraps around (unsigned) and is no limit;
* reading after `noread()` on a stream whose write side is still in use makes
  `read(-1)` fail, and the error closes the stream;
* a one-way stream is `!isok()` but not `closed` after `noread()` or `nowrite()`.

Main loop

* an alarm that is set after the clock went back, when none was pending, is moved
  by the difference to a `last_alarm_check` that has nothing to do with it, and
  goes off early (`AlarmNotEarly` excludes it by name: `stale`);
* a nested run of the list from a callback with `continue_select` can find that
  very stream ready and meets the assertion of `WvCont`;
* a closed stream that `post_select()` prunes gets a last callback only if it was
  ready in the same round;
* a suspended function that is finished because its stream is pruned, and a close
  callback, may unlink the link that the pruning iterator stands on; both are
  outside the model's rules for user code.

Files and daemons

* two overlapping `WvLockFile::lock()` calls can both succeed without any crash: the
  one finds the other's file still blank, takes it for stale and unlinks it. Two
  `WvLockDev` takers of the same stale lock can both succeed too, since the second
  `open()` is not checked. `OneOwner` and `DevLockExcludes` say when exclusion holds;
* `WvLockFile::lock()` ignores the result of `print()` (`streams/wvlockfile.cc:36-37`): when the
  write fails it returns true and leaves a blank file, which the next `lock()` takes for
  stale and removes, so that two processes believe they have the lock although their calls
  do not overlap. `OneOwner` counts those whose pid was written (`Owners`); the other
  one is not protected, and does them no harm;
* `WvLockDev::lock()` that takes over a stale lock does not look whether the new file
  could be made, and grants the lock without one (`lost`);
* `WvLockDev` never takes over a blank lock left by a crash;
* `WvAtomicFile::close()` renames the temporary file even after a failed write, and
  there is no `fsync()`; its destructor commits a partial file;
* a daemon whose pid file cannot be written only logs that, and runs;
* only the first SIGHUP restarts (`SIG_IGN` stays), and a second SIGTERM kills at once.

Replicas

* `Gen::isok()` overwrites `was_ok`, so `isok()` or a notice that is passed on may be
  the first to see a generator come back, and `replicate()` does not run, although
  `unireplicategen.h` promises replication "whenever any of the generators in the
  list goes from !isok() to isok()"; a connection lost and regained between two
  calls, or regained while its old notices are still to be passed on, is not noticed
  either (`unseen` in `ReplicasAgree`);
* every notice that arrives while one is passed on is dropped, not only its echo
  (`dropped`);
* `replicate()` uses `first->gen` without a test: if no generator was ok at first and
  one comes back during the call, the program crashes (`replicate_crashes`);
* two daemons in one list whose notices of different values for a key cross can correct
  each other for ever: each takes the other's value, and the notices of that cross again.
  `Settles` excepts it by name (`Crossed`) and is checked with two daemons;
* with three or more generators a connection that breaks takes notices with it that had
  reached only some of the others, and these may then disagree (`lost` in `ReplicasAgree`);
* a key deleted while a replica was away comes back with it, and deletions made
  meanwhile by others are not told to watchers;
* a lower generator that broke is not reconnected to by reading alone;
* after a long idle time the attempts that were missed are made without a pause.

D-Bus

* a callback that calls `send_and_wait()` never returns: `in_post_select` makes the
  nested `post_select()` return at once;
* a reply's callback that sends its own message again is called once more, with
  "Canceled", inside itself, and `pending.remove(p)` then removes a freed entry;
  `expire_pending()` and `cancel_pending()` remove first, to "prevent accidental
  recursion", `filter_func()` does not;
* `expire_pending()` makes the error from `p->msg` after `pending.remove(p)` has freed
  it (modelled as: it works, or the process dies);
* callbacks of pending replies are never called when the connection closes,
  although `wvdbusconn.h` says "There is always a reply" (`Answered` is about open
  connections);
* `ReleaseName` of a name that another client has taken over fails an assertion of
  the server (`aborted`);
* `_registered()` takes the unique name from an error reply too.

## 5. Proofs

Each theorem holds for every value of the constants that satisfies the assumptions
of its module, which TLC evaluates in the module's runs. The assumptions say that
bounds are natural numbers, that markers such as `None` or `Top` are not
members of the sets they are added to, that sets of clients, processes,
conts, streams, generators and keys are finite, and that no generator is twice on a
list of replicas. Nothing else is assumed of sizes, programs or scenarios, except
in the four theorems about `UniConfNet` that name a rule for the program. Each rule
excludes what section 4 describes, and without it the property is false:
`NoSetv` (no `setv`, whose replies nobody asked for), `WatchersDoNotWait` (watchers
set keys or hang up, but make no call that waits for a reply). `LoadRule` is
`NoLoading \/ (NoSetv /\ WatchersDoNotWait)`: either no cache loads its tree, or the
listing that it stores is the answer to its own request. `uniconf_calls`, with a cache
that loads, is an instance of all of them.

| Module | Theorem | States |
|---|---|---|
| `WvMagicCircleProofs` | `TypeCorrectness`, `IndexOrder`, `DataStability`, `RaceFreedom` | `Spec => []P` for `TypeOK`, `IndicesNeverCross`, `CopiedDataStable`, `RegionsDisjoint` |
| | `Refinement` | `Spec => ImplementsFifo` |
| `WvFdStreamProofs` | `StreamInvariant` | `Spec => []StreamInv` |
| | `StreamIsConsistent`, `OutputIsSentInOrder`, `InputIsReceivedInOrder`, `NothingIsLost` | `Spec => []P` for `StreamConsistent`, `SentInOrder`, `ReceivedInOrder`, `CloseLosesNothing` |
| `WvContProofs` | `ContInvariant` | `Spec => []ContInv` |
| | `ContsAreConsistent`, `TasksAreOwned` | `Spec => []P` for `ContsConsistent`, `SuspendedTasksAreOwned` |
| | `CallsNest` | `Spec => ImplementsSemicoroutines` |
| `WvFilesProofs` | `FilesInvariant` | `Spec => []FilesInv` |
| | `LocksExclude`, `FileIsWhole` | `Spec => []P` for `LocksConsistent`, `FileIsOldOrNew` |
| | `LockDecides` | `Spec => SoloLockDecides`, an action property |
| `WvDBusProofs` | `DBusInvariant` | `Spec => []DBusInv` |
| | `ConnectionsAreConsistent`, `MessagesAreSentInOrder`, `EachCallbackHasOneAnswer` | `Spec => []P` for `ConnsConsistent`, `SendsInOrder`, `OneAnswerEach` |
| `UniConfNetProofs` | `UniConfInvariant`, `HoldsAreBalanced` | `Spec => []P` for `UniConfInv`, `TypeOK` |
| | `RequestsAreConsistent` | `Spec => []RequestsConsistent`, given `NoSetv` |
| | `GetsAreCurrent`, `ListingsAreFaithful` | `Spec => []P` for `GetIsCurrent`, `ListingIsFaithful`, given `NoSetv` and `WatchersDoNotWait` |
| | `ViewsConverge` | `Spec => []ViewConverges`, given `LoadRule` |
| `WvIStreamListProofs` | `ListInvariant` | `Spec => []ListInv` |
| | `ListIsConsistent`, `RemovedDoNotRun`, `AlarmsAreNotEarly` | `Spec => []P` for `ListConsistent`, `RemovedStreamsDoNotRun`, `AlarmNotEarly` |
| `UniReplicateGenProofs` | `ReplicaInvariant` | `Spec => []ReplicaInv` |
| | `ReplicasAreConsistent`, `ReplicasDoAgree`, `WatchersAreTold` | `Spec => []P` for `ReplicasConsistent`, `ReplicasAgree`, `WatchersKeepUp` |

Each module states the facts about sequences and finite sets that it needs as lemmas
of its own.

**The circle.** The inductive invariant is `IInv == TypeOK /\ IndicesNeverCross /\
CopiedDataStable`. No conjunct is inductive alone: the room that `put()` found is
still there because the other side only ever *frees* slots, and it frees only what
it has claimed (`rlen <= used`), a fact of `IndicesNeverCross`; the copied bytes stay
put because a put writes only into `left`, which needs the same fact; and that
`used` grows by `Len(wdata)` and shrinks by `rlen` needs the index types.
`ModIsWrap` replaces the `%` of the code by one subtraction. The refinement maps
`queue` to the bytes between the indices and `pending` to `wdata`; `PublishAppends`
and `TakeRemoves` say what the two index stores do to it, `CopyInvisible` that
the copies leave it alone.

**Streams.** One public call runs through several methods that call one another,
so there is one lemma per method: from a `Sound` stream it leaves `Sound` streams.
`Sound` holds in the middle of a call too, where `is_flushing` may be set; the
invariant `StreamInv` is `Sound` with it clear. The properties are not inductive:
`CloseLosesNothing` says nothing of a stream that has not closed, and `SentInOrder`
nothing of one between an error and its close. `OutputOK` adds what an open stream
owes: every byte it accepted was sent or waits in the outbuf (`Complete`), and
the write side is given up only with an empty outbuf. `close()` is the hard
method, because it flushes and then throws away what is left: `After`, `Flushed`
and `FlushResult` say what the methods promise one another, in particular that
a stream that can be closed without loss (`CloseSafe`) stays so.

**Conts.** `WvTaskMan::yield()` switches to the main program, whoever yields, and
`_call()` runs its own task again until the yield has come to the right caller; so
any stack of the chain may be running while a yield is under way. `ContInv` says
what holds throughout: the conts that have been called have the depths 1 to
`taskdepth`, each once (`Chained`); the stack of each but the innermost has exactly
one activation of `_call()`, for the cont one level deeper (`Framed`); a task
has one owner, which has not recycled it (`Owned`), and free tasks are free once
(`Pooled`); whoever waits in the chain is in the middle of its function
(`Waiting`); and `Control` says who runs. `taskdepth = mydepth` then means that the
yield has arrived. The proof that `TypeOK`'s count of activations is right needs
that a cont has at most one of them, which is `Framed` again. The refinement maps the call stack of
`Semicoroutines` to the conts by depth (`Chain`); steps of a yield on its way are
stutters, and a call, the end of a call, a yield and the two kinds of
destruction are steps.

**Files.** `FilesInv` has three parts that hold or fail independently. `Base` holds
always: temporary files are nobody else's, and one is complete or known to be bad
before it is renamed, which is `FileIsOldOrNew`. `Solo` holds while no two calls
overlap (and no pid file or device lock was lost): whoever owns the lock has its pid in
the file, whoever holds it without having written its pid has a blank file or none, and
the one process in a call is right about what it has read (`Caller`). `Dev` holds while no process dies: no device lock is stale, so only its
owner removes it, which is why `WvLockDev` excludes overlapping calls as well.
Every action changes one process, so `BaseStep`, `SoloStep` and `DevStep` reduce each
part to a condition on that process. `LockDecides` needs the invariant on both
sides of the step in which `lock()` returns.

**D-Bus.** A client's step changes that client only, and the server's steps
leave clients alone (`ClientStep`, `ServerStep`). That a reply is given to the
callback of its own message, although clients use the same serial numbers, is not a
fact about one connection: it takes `Deliverable` for everything on the way to
a client, which takes `Sendable` for what clients have sent and `NamesOK` (a unique
name is never another client's) for where the server sends it. `Waiting` excludes
that the callback that is running is the one that `send_and_wait()` waits for,
without which `callback_returns` would remove a reply that is still awaited.

**UniConf.** `UniConfInv` says of each connection, separately, that it is `Sound`, in
five parts. `Shape`: the stack of calls is one that nested watchers can make, with as
many holds as calls, and the list being collected in belongs to at most one of them.
`Seeing`: every call has seen the registry's present contents. `Fresh` (with
`LoadRule`): for each `known` key, the last notice that is held or on its way, or else the
view, has the registry's value. Before a load the other keys are those nobody has told the
cache of: they are `Null` in the view and no notice of them is under way (`Unaware`,
`Within`). What the load then stores for a `Steady` key is the only value it had during
the call, which is the one that the listing shows, since the listing is faithful (so
`Progress` is needed here too); and if it was told of the key as well, it was told
that value. `Progress` (with `NoSetv`): the exchange between a
waiting call and the daemon is in one of a few phases (asked, being listed,
answered), which says what both queues hold and, for a listing, that what was
collected, what is on the way and what the daemon has yet to send together show
what `ListingIsFaithful` asks for. `Reported` (with `WatchersDoNotWait` as well): what
the members of a call about to return hold, and what the last call returned, is
right. A step of one client or of the daemon on one connection leaves
the others alone (`LocalStep`, `ClientStep`), so that the proof is about that
connection; a change of the registry touches all of them at once (`ChangeStep`):
each call under way sees it and each open connection gets a notice. `GetIsCurrent` is
not inductive for two reasons that the parts mend: the reply on the way must be for
the key the call waits for (`Progress`), and between the reply and the return
watchers run, which must leave the members alone (`Reported`).

**The main loop.** Nearly every step drops references, and each reference dropped
may start a destructor on top of the calls under way. `Sound` therefore takes the
objects, list, `sure_thing` and stack as arguments, and a number of references that
are about to be dropped: an action is shown to leave every stream `Sound` with
these, and `ReleaseSound` says once that dropping them leaves it `Sound` without.
`ListConsistent` is not inductive: a stream without references whose destructor
runs may still be on the list, so `Dead` says how far the destructor has come; `Nested`
says that above a `select()`, a destructor or a function being finished only
destructors and such functions run, so that no callback runs on what is being
destroyed; `Zapped` says that a waiting `select()` has an empty `sure_thing`, without
which `post_select()` would overwrite references; and streams are on the list and
on `sure_thing` once. `RemovedStreamsDoNotRun` takes the same invariant. For alarms,
`Timely` relates the time an alarm has left to the time it has waited: the
difference of `alarm_time` and the later of `last_alarm_check` and `wvstime`, since the
correction for a clock that went back is made only at the next check.

**Replicas.** Replicas differ all the time; what can be said is that a difference will be
removed, and by what. Two connected generators agree on a key or a notice about it is
`Pending`, on its way from a daemon or read and not yet passed on. That passing a notice on
ends in agreement takes facts about single generators (`Knows`): where it came from holds
its value, unless a later notice from there follows (`Sourced`), and so does every generator
that it has reached (`Passed`). `replicate()` compares each generator with the first one
that is ok, so while it runs two generators may differ in what is not compared yet
(`Compared`); it needs that what it has listed of the first one is still what that one holds
(`Listed`), that no connected generator stands before that one (`Leads`), and that it stays
connected (`FirstHeld`). `Shape` says which activations can be above which: notices are passed
on inside a `replicate()`, never a `replicate()` inside that, and never one notice inside
another. `Agrees` and `Watched` have the exceptions of the properties; that `ReplicasAgree`
survives lost notices with two generators but not with three is why `Agrees` asks for
`Len(order) <= 2` then. `Watched` follows a key to the watchers through the notices that are
held while `replicate()` runs (`Told`, `Announced`). Steps fall into four classes, with a
lemma for each: those that leave contents alone, those that read notices, those that pass one
on, and those of `replicate()`.

Attempts at proofs changed the models in places. `CloseLosesNothing` was claimed of
every stream; it is false of one without a write descriptor (section 4), so it is
stated of streams with one, and `fdstream` has a program without (`OnlyReader`).
`WvDBus.SendsInOrder` and `TypeOK` say the same or more in a form without
`SelectSeq`. `WvFiles` lost a history variable that followed from the others, and
its faults before the start count towards `MaxFaults`. In `WvCont`, `start()` unlinks
the first task that fits by its place in the list. `UniConfNet` assumes that there
are finitely many keys and that `Null` is neither answer of `haschildren`;
`WillKnow` is stated without `SelectSeq`. `WvIStreamList` assumes finitely many
streams and removes from its queues by places (`Subsequence`). `UniReplicateGen`
assumes that lists have no repeats; `ReplicasAgree` got its exception for lost notices with
three generators, and `unseen` covers a generator that comes back while its old notices
are still to be passed on: without either it is false.

Only model-checked:

* every liveness property (`BufferedOutputIsSent`, `StreamsEnd`, `DyingContsAreFreed`,
  `ReadyStreamsRun`, `AlarmsRing`, `SignalsTakeEffect`, `CallsReturn`, `Settles`,
  `Reconnects`, `Answered`, `NamesAreReleased`): fairness is out of the prover's reach;
* `WvDBus.SignalsInOrder`, which says what `SelectSeq`, a recursive definition, makes of
  any queue, and so needs induction over data.

## 6. Not modelled

Of what has concurrent or re-entrant behaviour: stream clones and encoder streams,
`WvMagicLoopback`'s wake-up pipe, subprocess queues, UniConf mounts, transactions and
keys with children (a removal that yields half-way), the resolver and the HTTP and
FTP pools. Of the modelled parts, what `PROJECT.json` names in each component's
note.

Out of scope: strings, containers, buffers and encoders (sequential data, well
covered by unit tests), OpenSSL wrappers (the state machine is not in this
repository), system-call wrappers for interfaces, ptys and modems, logging, file
formats, platform code, the Qt binding, `argp` and `xplc`. These, with headers of
templates, command-line programs and some two hundred unit tests, are most of the
95,000 lines of the repository, which is why the models cover a small share of
them: the share that holds its protocols and its event loop.

## 7. Plan

Done so far: models of the circle, streams, continuations, the UniConf connection,
the main loop with alarms and `continue_select`, lock and atomic files with
daemons, replicas with reconnection, and D-Bus; proofs about all of them.

1. The UniConf tree: `UniTempGen` with subtrees, `UniMountGen`, removal that yields;
   then `UniTransactionGen`.
2. `WvMagicLoopback`: the wake-up of a circle's reader; composed with
   `BoundedFifo` instead of `WvMagicCircle`, which implements it.
3. Request and reply matching in the resolver and the HTTP pool.
