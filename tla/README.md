# TLA+ models of tasarch_cpp

tasarch is a debug server: a GDB client connects over TCP, the server speaks
GDB's remote protocol with it, and coroutines on a small thread pool run the
connections. This directory holds TLA+ models of that program, the TLC
configurations that check them on small instances, and TLAPS proofs of what
matters most for every value of the constants. `PROJECT.json` maps every
definition to the source lines it stands for. All paths below are under
`src/src/`.

    tlc -config MCServer.cfg MCServer        # a run: MC module and configuration
    tlapm Server_proofs.tla                  # the proofs of a module

## 1. Inventory

### Components

| Component | State | Operations | Modules |
|---|---|---|---|
| `gdb::buffer` (gdb/buffer.h) | storage, write and read head | get_*, put_*, append, write_outof, read_into, put_count, reset | `Buffer`, `ByteQueue` |
| `gdb::PacketIO` (gdb/packet_io.*) | read_buf, write_buf, decoder state, no_ack | receive_packet, send_packet, recv_data, get_byte | `GdbBytes`, `Framing`, `PacketIO`, `PacketIOOpen`, `PacketWire`, `PacketLink`, `RequestReply` |
| `gdb::connection` (gdb/connection.*) | packet and response buffer, should_respond, should_stop, io_req, io_resp | start, stop, process, process_pkt and its handlers, remote_io and its wrappers | `Connection`, `RemoteMemory` |
| coders and query dispatch (gdb/coding.h, query_handler.h) | none (remote_features is the connection's) | decode and encode of Str, Opt, Num, Bytes, Array, Feature; handle_query | `Coding`, `RemoteMemory` |
| `gdb::internal_mem` (gdb/easter_eggs.h) | one static vector for all connections | init, reserve, add_data, add_str, read_data, write_data | `InternalMem`, `RemoteMemory` |
| `gdb::bg_executor` (gdb/bg_executor.*) | running, created_threads, io_context, threads | start, stop, run, idle coroutine | `BgExecutor` |
| `gdb::server` (gdb/server.*) | running, run_mutex, acceptor, connections | start, stop, accept_connection | `Server` |
| config and loggers (config/config.h, log/logging.cpp) | tree of levels, registry of loggers, registry_mutex | reload, from_toml, get_level, get, apply_all | `LogConfig` |
| config merging (config/merging.cpp) | none | merge_values | `Merging` |
| `main` (main.cpp) | none | starts executor and server, then sleeps for ever | in `Server` |

Not modelled: `Debugger` (an empty class), log sinks and formatters (output only), the Qt windows
and the renderer (`main()` loops before it makes the `QApplication`, and the
call of the renderer's `run()` is commented out in gui/TestGLWidget.cpp: no
render thread ever exists), util (aliases and concepts) and the vendored code.

### How they interact

- `main` -> `bg_executor::start`, `server::start`: calls on the main thread;
  everything else runs on the io threads of the executor.
- `server` -> `connection`: `accept_connection`, a detached coroutine, makes
  one connection per client and keeps the only lasting `shared_ptr` to it.
- `connection` -> `PacketIO` -> socket: `process` awaits `receive_packet` and
  `send_packet`; each of these races the socket against a timer
  (`awaitable_with_timeout`).
- `connection` <-> the remote-I/O coroutine: through two queues of
  continuations, `io_req` (waits for the client to run the target) and
  `io_resp` (waits for the client's `F` packet). Handlers of `process` resume
  them.
- connections <-> each other: through the static storage of `internal_mem` and
  the registry of loggers.
- `config::reload` -> loggers: through `apply_all`, under `registry_mutex`,
  while `log::get` of any thread reads the tree that is being rebuilt.

### What is hard here

The `hazards` of `PROJECT.json` list them line by line. In short: the
acknowledgement protocol with both sides repeating; a timer that beats a
receive whose bytes are then gone, or that cuts a frame in two; state that
survives from one packet to the next; wakeups through two queues; start and
stop of a server whose old coroutine has not ended; a plain `bool` read by one
thread and written by another; one static memory for all connections, with an
iterator kept over a reallocation; a configuration that fails half way through
while other threads make loggers from it; files
that agree on a type one by one and not as merged.

### What makes each component correct

| Component | Property (module) |
|---|---|
| buffer | It is a bounded FIFO of bytes whatever is called (`IsByteQueue`). |
| transport | Only well-framed payloads are delivered (`DeliveredIsFramed`); a response always fits write_buf (`ResponseFits`), is a frame the peer can decode (`WireFrames`), and send_packet returns only once it is accepted (`SentIsAccepted`), and ends in any case (`SendEnds`); from outside, each request is executed once, in order, and answered with its own response (`IsFairRequestReply`), or, when the peer repeats it, again in its place (`OnlyRepeats`). |
| connection | No lost or spurious wakeup (`OneWaiter`), no two responses in one packet (`OneResponse`), no unexpected file reply (`FileIoIsAwaited`), and progress (`RequestIsAnswered`, `BreakHalts`, `StopEndsLoop`, `RemoteIoFinishes`). |
| executor | No thread serves before all exist (`CreatedBeforeServing`), stop joins them (`StoppedIsQuiet`, `StopReturns`), none leaves early (`KeepsServing`). |
| server | A stopped server holds one client at most, the late one (`LateAcceptOnce`); a started server accepts (`AcceptsWhenStarted`, `ClientIsServed`). |
| memory, coders | Arguments and file contents cross the shared storage whole (`ArgumentsArrive`, `FilesArrive`); features survive the coders (`FeaturesAgree`); a malformed packet does nothing (`MalformedIsRefused`). |
| config, loggers | After a reload all loggers have the file's level (`LoadedLevelsApply`); a failed one takes the default level from none (`FailureKeepsDefaults`, which leaves out the loggers that an earlier file has set, see §3); no deadlock (`MutexIsReleased`, `ReloadEnds`). |
| merging | The merge of any number of files is, path by path, what the files say (`LayersOverlay`), whichever are merged first (`GroupingDoesNotMatter`). |

## 2. Modules and the code

Every action is a whole handler or, where another thread or coroutine can come
in between, the part of it up to the next `co_await`, lock or access to shared
data. Definitions keep the source's names where TLA+ allows it. An operator
preceded by "Mutant of X" is a plausible bug in X; the specifications do not
use it, and `PROJECT.json` names the property that notices it.

**GdbBytes** holds the alphabet of the protocol: control characters, which
bytes are escaped, hexadecimal digits, the checksum as `send_packet` computes
it, and the fold that every loop over a text is written with: its step is a
function, so that it can be proved about. Bytes are 0..255 and sums are taken
modulo 256.

**Framing** is the reference for frames, from the side of the protocol and the
GDB peer and never from that of `send_packet`: `Framed` and `Sum`, the payload
that a body stands for (`Decoding`), the frames a peer sends (`GoodFrame`,
`BadFrame`), what it takes for a frame (`IsFrame`, `FrameLengths`), and what it
means that a stream ends in one (`EndsInFrame`).

**Buffer** has one action per method, with `ret` recording call and outcome
(including the exception). `ByteQueue` is what a buffer promises: append at the
back, take at the front, all or nothing. `Buffer!IsByteQueue` is the
refinement: the queue is the storage between the heads. `read_into` takes
`PointerSize` bytes whatever it is to fill, because the code writes
`sizeof(ptr)`; only tests call it.

**PacketIO** is the state machine of `receive_packet` (`pc` = `"await"`,
`"decode"`, the state of its decoder in `decoder`) and `send_packet` (`"encode"`, `"transmit"`, `"ack"`), byte
by byte, with `RecvTimeout` and `SendTimeout` for the timer, which may win over
a receive that took `lost` bytes off the stream or a send that sent part of the
packet. It leaves its environment open. `PacketIOOpen` closes it with any
peer and caller and is what the first proofs are about; `PacketWire` adds the
history `wire`, the bytes that the latest `receive_packet` has looked at, which
`DeliveredIsFramed` compares with what was delivered; `MCPacketIO` enumerates
streams; `PacketLink` composes it with `process()` and an external GDB peer
that sends, acknowledges, rejects, repeats and interrupts. `RequestReply` is
the abstract service: ask, execute, answer. The mutex of PacketIO is left out:
only `process()` calls it, and awaits every call.

**Connection** is `process()` and what it resumes. `pc` is where the loop is
suspended; `coro` is the coroutine `remote_io_testing`; packets are members of
small sets (`"reply"`, `"throws"`, ..., `"cont"`, `"F"`, `"Ffail"`, `"FC"`).
`timed_out` and `buffer_too_small` derive privately from a standard exception
and are caught only by their own type or by `catch (...)`, hence
`HandleOverflow` ends the loop. `is_open()` never turns false: nothing closes
the socket object, and the end of the stream looks like a timeout.

**RemoteMemory** looks at the same component from the side of its data: it
EXTENDS `InternalMem` (the static vector with its capacity, so that the
reallocation under `add_str`'s iterator is visible) and `Coding` (every coder
as an operator that gives the value and what is left of the buffer, or its
exception). Packets are bytes here: the client encodes `m`, `M`, `F` and
`qSupported`, `process_pkt` decodes them. An address that comes from a dangling
iterator is any of `Wild`. A response that overflows `resp_buf` ends the loop
of its connection. `size_t` counts modulo `SizeMax`.

**BgExecutor** has the start and stop of the threads and the wait loop on
`created_threads`. The flag is a plain bool, so its race is undefined; what a
build can make of the loop is the constant `WaitOutcomes`: re-read each time,
hoisted (spin for ever), or dropped. **Server** EXTENDS it with the acceptor
coroutine, `run_mutex`, the list of connections and clients. `start()` is two
steps because opening an acceptor on a port in use throws after `running` was
set. With a client that is gone `async_accept` or `remote_endpoint()` throws,
which ends the accepting coroutine; other errors of `async_accept` (no file
descriptor left, say) are not modelled.

**LogConfig** has one step per write of `from_toml` (the level of a node,
`children.clear()`, each child), because nothing guards the tree; a read of it
(`get_level`) is one step. `log::get` is lock, look up, read the level,
register; `apply_all` is one step, as it holds the mutex throughout. A name is
the sequence of its parts; a file maps tables to what their `level` key holds.
The order of children is that of a hash map, hence any.

**Merging** is `merge_values`: `Concatenated` for arrays, `Overlaid` for tables,
the addition for all else, and `type_error`, a value of its own, for the
exception, which a table hands on from any of its keys. Its calls of itself are
the recursive function `merging`, from the depth to which tables are nested to
what is returned for two values of that depth; a table maps the keys that it does
not have to `absent`. An
action merges one more file onto what came of the files before. The properties
are stated over the paths of the files, without the operator or with another
order of calls. Only tests call `merge_values` so far, and their comparison
returns without a look at arrays (test/src/config/merging.cpp 23-27).

## 3. Runs

| Run | Bounds | Shows |
|---|---|---|
| `buffer` | size 3, two data values, counts 0..4 | type, refinement of `ByteQueue` |
| `packet_io` | streams of up to 6 bytes over 8 values, packet buffer of 3, reads of up to 2; responses empty, with escapes, and too long | framing, response size |
| `packet_link` | 3 requests of 1-2 bytes, 3 faults (damage, rejection), with and without acknowledgements | refinement of `RequestReply` with its fairness, `WireFrames` |
| `packet_link_faults` | 2 requests out of four (`+-`, `+#`, a silent `c`, one longer than the buffer), 2 breaks, 2 faults of any kind | safety with timers, short and stuck sends, repeats; every send ends |
| `connection` | 3 remote calls, all kinds of request, slow client | safety and liveness of the loop |
| `server` | 2 threads, 3 clients, executor started twice, server as often as one likes, clients may vanish | executor and server |
| `log_config` | 2 levels, 3 names of up to two parts, 7 files, 2 threads | reload against `get` |
| `merging` | keys `a` and `b`, tables nested up to 3 deep, 15 documents, up to 3 files | merging against what the files say |
| `remote_memory` | 2 connections, storage up to 8 bytes, `SizeMax` 256, strings of 1-2 bytes | data through the shared storage |
| `connection_closed` | violation: `ClosedEndsLoop` | finding 1 |
| `server_lifetime` | violation: `LoopHasConnection` | finding 2 |
| `executor_restart` | violation: `RestartResets` | finding 3 |

Why the bounds are enough: a buffer of three has an empty, a partial and a full
state and a put that crosses the end. Six bytes are the shortest stream with
a payload of an escaped byte and its checksum (`$}.#00`), and include every
truncation of it and a 4-byte frame with two bytes of noise. `+` and `#` in a request are what can
be taken for an acknowledgement, or for an end, when a frame is cut in two.
Three calls
reach each transition of the queues, the last one included. Two late clients
are what it takes to violate `LateAcceptOnce`, the third is served by the
restarted server. The files give every reason to fail (`from_toml` at the root,
in a child, below one; a key that is no table) and the names cover an exact
table, a table above, and none. The storage starts at 4 bytes, and the
strings of one and two bytes reach both an append that fits and one whose
terminator reallocates. Three files are what it takes for
an order of merges to matter, and the documents hold every kind of value under
one key, at the top and below. `MaxStream`, `MaxRequests`, `MaxBreaks`, `MaxFaults`,
`MaxStarts`, `Calls`, `MaxLayers` and `MaxStorage` are the bounds on what would grow
without end; each is a guard of the action it limits.

Deadlock is checked except where the system may stop: `packet_io` ends after
one call; `packet_link_faults` and `connection` when the loop has ended;
`remote_memory` when an overflow has ended both loops; `merging` after a failed
merge or the third file.

### Fairness

- `PacketLink`, `Connection`: weak fairness of the loop, the handlers and the
  coroutine (an io thread is always there to run what is ready; timers expire),
  and of the client's reading, which is a premise about the client: it reads what it
  is sent and answers file-I/O requests until it closes. It need not send
  anything. `RemoteIoFinishes` has the further premise that the client keeps
  continuing the target.
- `Server`: weak fairness of the steps of the threads and of the main
  thread inside `start`, `stop` and `join`; none of clients or of the calls
  themselves. `ClientIsServed` has the premise that the main thread leaves
  `run_mutex` alone from some time on, as `main()` does: `std::mutex` is not
  fair, and an endless sequence of starts could keep the acceptor waiting.
- `LogConfig`: weak fairness of the steps inside `get` and `reload`; no thread
  has to start either. `ReloadEnds` has the premise that the others stop asking
  for loggers, for the same reason.

### Findings

1. `connection_closed`: a closed connection looks like a timeout, and the loop
   continues for ever; connection.cpp:74 promises "Remote socket {} closed,
   exiting...".
2. `server_lifetime`: `server::stop` drops the last owner of a connection whose
   loop is still suspended inside it, and which connection.cpp:78 expects to
   find its stop signal.
3. `executor_restart`: bg_executor.h:17 says a restart resets the coroutine
   state; everything that was suspended, the old idle coroutine included, goes on.

Seen while modelling, in the models and not runs of their own: a timer that
cuts a frame in two, or a request that the peer repeats, can make the next
receive take the rest for a break (one repeat of `+#`, whose `#` is 0x03 on the
wire, is enough), and a `+` inside a request, cut off from its frame, for the
acknowledgement of a response, so that `NoBreakIsMadeUp` and `SentIsAccepted`
are about executions in which neither has happened (`Calm`); with two repeats
and a loss a request may even be executed after a later one (`OnlyRepeats`
states up to two faults); a checksum in upper-case digits is accepted
(`EndsInFrame` takes either case); a break that comes while a response
awaits its acknowledgement is dropped by `send_response` (`BreakHalts` is about the others);
a reload that fails sets no default, although its message says "using default
config!" (config.h:216): the loggers that an earlier file has set keep its
levels, and so are not among those of `FailureKeepsDefaults`, and new loggers
get levels of the file rejected half way; `add_str` can return
a wild address (`ArgumentsArrive` exempts it); a connection whose loop has ended stays in
the server's list; `handle_supported` builds the names of its own queries and
never sends them; a feature whose value ends in `+` or `-` is read as a flag;
`run()` of the executor never sees an exception, as every coroutine is
detached.

## 4. Proofs

All theorems are for every value of the constants under the named assumptions
of their modules, which say little more than their types (sizes are naturals, at
least one thread, payloads are byte sequences that fit the packet buffer, the
tables of a file have their parents, the memory ends below 2^64). Theorems
that need more have it as named hypotheses:

- `RespondType`: a response is a text of bytes. Nothing else is assumed of what
  the handlers answer.
- `NoAckIsQuiet`: breaks and connections without acknowledgements do not come
  together. It cannot be dropped from the proof of `SentIsAccepted` and its
  neighbours: `send_packet` does not wait there, a break that comes after the
  target has stopped by itself is left over, and the stop reply it causes is taken
  for the answer to the next request.
- `OnlyDamage`: requests are damaged, responses rejected and sends cut short or
  stuck, but no timer beats a receive, nothing is repeated by itself, and there
  are no breaks; those are not in `RequestReply`.
- `ClientsRefused`, `OneAnnouncement`: what clients send beside the requests of the
  protocol writes nothing and announces no features. Neither can be dropped: a
  stray `M` packet that can be decoded overwrites the buffer of any call, and a
  second `qSupported` the features. The packets of the run satisfy both
  (`MalformedIsRefused`).
- `FeaturesAreReadable`: names and values have no separator, a name with a value
  has no `=`, and no value ends in `+` or `-` (as FeatureCoder would read a flag).

| Module | Theorems | Argument |
|---|---|---|
| `Framing_proofs` | `EscapeInvolution`, `EncodedIsNoControl`, `ChecksumRoundTrip` | arithmetic over bytes; beside them the lemmas on induction and folds (`StrongInduct`, `Recursion`, `TextInduct`, `FoldFacts`, `FoldConcat`), and what a byte more does to a checksum and to what a body stands for |
| `Buffer_proofs` | `BufferTypeCorrect`, `BufferImplementsQueue` | `TypeOK` (heads in order and in bounds) is inductive; each action appends to, takes from or leaves the sequence between the heads |
| `PacketIO_proofs` | `PacketIOTypeCorrect`, `WriteBufferSuffices` | `IOInv` is `TypeOK` and `ResponseFits` together: the type bounds what the encoder has yet to write, and `ResponseFits` says that two bytes for each payload byte left, and the trailer, fit what is free in write_buf; neither is inductive alone |
| | `DeliversOnlyFrames` | `WireInv`: in every state of the decoder, the part of `wire` from the last `$` on reads as what is in recv_buf, and its bytes add up to `checksum`; the state says how much of the trailer has been seen and which digit is kept in `csum_high` |
| `PacketLink_proofs` | `ResponsesAreFramed` | `EncodeInv`: while a response is encoded, write_buf is `$` and a body that stands for the part that is done, and `checksum` is its sum; hypothesis `RespondType` |
| | `NoBreakFromPayload`, `SentMeansAccepted`, `ExecutedInOrder` | `LinkInv`: until a timer cuts something off or a request is repeated, the link is in one of eight phases (the peer may ask; its frame is on its way, or read, or rejected; the response is made, on its way, accepted; the server has stopped), each of which says what is on its way in both directions (so many acknowledgements, one mark, so many breaks, one rest of a frame) and how the books of the two ends compare. None of the three is inductive alone: a `+` is no acknowledgement of anything else only because everything on its way is known; hypotheses `RespondType`, `NoAckIsQuiet` |
| | `ImplementsRequestReply` | the refinement: under `LinkInv` every step of the link is a step of `RequestReply` or leaves its variables alone; hypotheses `RespondType`, `OnlyDamage` |
| `Connection_proofs` | `ConnectionTypeCorrect`, `CoroutineWaitsOnce`, `ResponsesAreSingle` | `Inv` adds that loop and coroutine exist exactly when `start` has run (so that it is spawned once), and that resp_buf is empty whenever a handler begins |
| | `FileIoHasWaiter` | `LinkInv`: server and client take turns (a packet, a response being made, a response on its way, a client that may send: one of them at a time), there is one acknowledgement per response, breaks trail behind, and the coroutine waits in io_resp from the moment the request is in resp_buf; without the turns a step of the loop could meet two packets, and the property is not inductive |
| `Server_proofs` | `StopJoinsAll`, `IdleKeepsServing`, `WaitIsEnough` | `ExInv` says which threads exist at each point of start and stop, and that a thread can be done only when the context is stopped; `WaitIsEnough` adds `NoneServesEarly` and assumes that the loop is not dropped |
| | `StopAcceptsOneMore`, `StartKeepsAccepting` | `LateInv`: a stopped server whose acceptor still waits, or has accepted a client and not yet made its connection, owns no connection, so that the late one is alone; `AcceptInv`: `running` is set while a start is under way or has returned, so that no acceptor leaves the loop at its test |
| | `ServerUsesExecutor`, `ExecutorServesServer` | a refinement: every step of the server is a step of the executor's own specification or leaves its variables alone, so the theorems about the executor hold under the server |
| | `ServerTypeCorrect` | beside the types, `LateInv` is what bounds the sockets waiting for a connection to one, and `ExInv` the threads |
| `Config_proofs` | `FailedReloadKeepsDefaults` | `MakerHoldsLock`: a thread that has read the level of a new logger holds the mutex, and nobody has registered that name since; without it two threads could make the same logger, and the second would replace the first |
| | `LogConfigTypeCorrect`, `LoadedLevelsReachLoggers` | `LogInv`: the tree and the files are closed under prefixes, the stack of from_toml is a path of the tree; since the old nodes were cleared, every node has what the file states, and a table of the file below a node is a node itself or pending in a frame of the stack (`LoadedInv`), so that the tree is that of the file when the stack is empty; a logger made in between has a level of half a tree, and `apply_all` sets it right; get_level's descent is induction over the length of a name |
| | `MergingIsAssociative` | `MergingAssociates`, by induction over the depth: `type_error` is a zero of merging, an absent entry a unit, and tables merge key by key, so that either grouping fails at the same keys or has the same entries; one more layer merges onto every group of the layers before |
| | `MergeOverlays` | a merge throws only where its two values hold different types at a path (`MergingSplits`, induction over the depth), and otherwise merges what is at each path (`MergingAt`, induction over the path); so one more file adds what it holds to what the layers before it hold, and where it meets another type it meets that of a layer |
| `RemoteMemory_proofs` | `HexTextRoundTrip`, `BytesRoundTrip`, `ReadAnswer`, `WriteAnswer` | the texts of numbers and blocks read back as they were written, hence an `m` or `M` packet reads or writes what its client meant, also where the address or length overflows a `size_t` |
| | `RemoteMemoryTypeCorrect`, `ArgumentsAlwaysArrive`, `FilesAlwaysArrive` | `MemInv`: the buffers of the calls of different connections share no byte (`BlockInv`), and each holds, where the client has read or written it, what it has read or written, and the argument (`ContentInv`); appending leaves what is there, and a write stays in the buffer of its own call. What the client has seen so far says nothing of the bytes it reads next, so that `ArgumentsArrive` alone is not inductive. A failure's -1 is a length of 2^64 - 1, whose end wraps to before the buffer, so that `read_data` throws |
| | `FeaturesRoundTrip`, `FeaturesAlwaysAgree` | `Fields` takes apart what `ArrayEncode` has put together, for any number of texts without separators (`JoinSplit`: after i texts, i - 1 are split off and the last one is being read), and FeatureCoder reads back what it wrote; both ends then change their features in the same step (`FeatureInv`), and an `m` or `M` packet is none of `qSupported`, for which its address must be a number (`MemInv`) |

The induction theorems of the library take operators, which the provers cannot
instantiate. `NatInduct`, `StrongInduct` and `TextInduct` state induction for
sets of numbers and of texts, `Recursion` says that a function defined by
recursion to smaller numbers exists, and `FoldFacts` and `FoldConcat` what a fold
makes of one element more and of two texts behind each other; they are what
carries checksums, bodies, `HexText`, `HexValue`, `Fields`, `ArrayEncode`, the
levels of a name and the nesting of tables, for every length and depth. These operators are therefore recursive
functions or folds, and `HexText` writes any number, while the run stays below 256.

Only model-checked:

- everything temporal: TLAPS cannot reason about fairness and ENABLED. That is
  the liveness half of `IsFairRequestReply` (its safety half is
  `ImplementsRequestReply`), `SendEnds`, `RequestIsAnswered`, `BreakHalts`,
  `StopEndsLoop`, `RemoteIoFinishes`, `StopReturns`, `ClientIsServed`,
  `MutexIsReleased` and `ReloadEnds`;
- `OnlyRepeats` with up to two faults of the kinds that are not `Calm`: beyond two
  it is false, and what makes it true up to two is a count of what is on its way;
- `MalformedIsRefused`, a statement about the packets of the run.

## 5. What the models leave out

- Undefined behaviour of a data race other than that on `created_threads`: the
  flags of `connection` and the queues, the tree of levels and the storage of
  `internal_mem` are accessed in atomic steps.
- `write_data` with less data than its length, or a length that wraps: the code
  then copies out of bounds. The clients of `RemoteMemory` send as much
  as they announce.
- `main()` never reaches `stop()`: `Server` models what the classes promise to any
  main thread that calls start and stop in turn.
- A connection that is destroyed while its loop is suspended: what its coroutine
  does from there on is undefined (finding 2), and `Connection` ends before it.
- Texts of error responses, logging, the content of stop replies.

## 6. What is left

Every component of the plan is modelled, and every safety property is a theorem
except those above. What one would do next:

1. `OnlyRepeats` beyond `Calm`: a bound on what one lost or repeated frame leaves in
   the stream, in place of the eight phases.
2. A module for the renderer's resize handshake, if `run()` comes into use.
