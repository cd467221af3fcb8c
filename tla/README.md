# A TLA+ specification of Haze

Haze is a headless audio core: a C process that accepts TCP connections,
speaks MessagePack-RPC on them and drives miniaudio, with a command line client
in Go (`hazectl`). This directory holds TLA+ modules that model the parts of
Haze with control worth checking, TLC configurations for them, and proofs that
TLAPS checks. `PROJECT.json` maps every definition to the lines it models.

Paths below are relative to the root of the repository.

## 1. The system

### Components

| Component | Code | State | Operations | Module |
|---|---|---|---|---|
| Connection server | `source/server/HazeServer.c` | libuv loop, listening handle, array of connections, per connection a handle, a receive buffer and pending writes | `haze_on_connect`, `haze_on_read`, `haze_on_write_done`, `haze_on_close`, broadcast, signal, `HazeServerFree` | `HazeServer`, implementing `ConnectionSpec` |
| Server dispatch | `source/server/Dispatch.c` | none | `ServerDispatch`: bytes to request, request to response, response to bytes | contract in `HazeServer`, effect in `Dispatcher` |
| Request codec | `source/api/proto/Request.c` | none | marshal, unmarshal, parameter list | `RequestStream` |
| Response codec | `source/api/proto/Response.c`, `clients/cpp/src/proto/Response.cpp` | none | constructors, setters, marshal, unmarshal, in the server and in the C++ client | `Messages`; constructors in `Dispatcher` |
| RPC dispatcher | `source/api/Dispatcher.c`, `source/api/functions/` | none of its own: session and job queue of the context | one branch per method | `Dispatcher` |
| Job queue | `source/JobQueue.h` | jobs of accepted imports | push (used), pop (never called) | `jobs` of `Dispatcher` |
| Sample list, sample | `source/audio/SampleList.c`, `Sample.c` | ordered array of samples, their names and ids, started sounds; the memory and the sound of each sample | import, delete, look up, play, stop, rename, free | `SampleList` (order, names, ids), `AudioSession` (memory, each failure) |
| Context | `source/Context.c`, `source/session/Session.c` | engine, session, lists, paths, registry, queues | `ContextNew`, part by part, and `ContextFree` | `AudioSession` |
| Audio engine, channels | `source/audio/AudioEngine.c`, `ChannelList.c`, `Channel.c` | miniaudio's engine and its thread; a list of channels with a sound group each | new, add, free | `AudioSession` |
| Startup, instance registry | `source/main.c`, `source/Context.c`, `source/fs/InstanceRegistry.c` | files of `instances/`, the port of each process | register, search for a port, listen, exit | `Startup` |
| hazectl RPC client | `hazectl/clients/mpackrpc_client.go` | counter, map of pending calls, one channel per call | `Call`, `readLoop`, `removePending`, `Close` | `RpcClient` |
| Notification codec | `source/api/proto/Notification.c` | method and parameters under construction | set, append, marshal, unmarshal | `Messages` |
| Objects, arrays | `source/msgpack/Object.c` | growing arrays of owned copies | copy, append, remove | `Messages` |
| Map table | `source/msgpack/Object.c` | growing array of pairs, searched linearly | new, set, get, remove, copy, free | `ObjectTable`, implementing `MapSpec` |
| Tempo, text of paths, hazectl commands, Lua client, stubs, vendored code | see `PROJECT.json` | | | not modelled |

### How they interact

A client's bytes reach `haze_on_read`, which appends them to the connection's
buffer and calls `ServerDispatch` on the whole buffer until it is empty.
`ServerDispatch` decodes one request, calls `DispatchRPCMessage` and encodes
its response; it reports how many bytes it took. The response is written to the
connection; a notification, if there was one, to every registered connection.
`DispatchRPCMessage` reads and changes the session's sample list directly, or
puts a job on the context's queue. All of this runs on the one thread of the
libuv loop, so a callback runs to completion and interleaving is that of
callbacks: reads, write completions, closes and the signal come in any order.
In hazectl, `Call` runs on the caller's goroutine and `readLoop` on another;
they share the map of pending calls under a mutex. In the server the one other
thread is miniaudio's: from `AudioEngineNew` to `AudioEngineFree` it reads every
sound that is initialised, while the main thread imports and deletes samples. Several Haze processes share
the `instances` directory and the machine's ports and nothing else.

### What is hard, and what makes each part correct

* **Connection server.** A connection is closed for five reasons (failed read,
  failed write, the parser, the backlog, shutdown) and libuv aborts on a second
  `uv_close`; its memory must outlive every pending write and must leave the
  registry before it is freed; the buffer must hold what is copied into it; the
  shutdown must drain every handle and end.
* **Request codec on a stream.** Reads do not respect the borders of requests.
  The decoder must take exactly one request's bytes, and must not take a part of
  a request for a whole one.
* **Response and notification codecs.** Values nest without lengths, so a value
  written with an element too few shifts what follows; a message that has come in
  part must be refused, although the reader in error answers with nil.
* **Dispatcher.** Each request is answered once, on its own connection, under its
  own msgid, in order, unless it was left to the job queue; none is forgotten.
* **Sample list.** The list owns each live sample once; a delete leaves no
  pointer to freed memory, keeps the order, and stops the sound; names and ids
  tell samples apart.
* **Context and samples.** Every allocation and every call of miniaudio may fail,
  and a half-made context is freed by the function that frees a whole one. A sound
  must be uninitialised before its sample is freed, on every path, and not twice;
  no sample may be lost on the way into its list.
* **Map table.** Pairs move when one is removed, the array grows, insertions and
  copies fail half-way, and some keys are not equal to themselves. Callers must see
  a map, and two tables must share nothing.
* **Startup.** The search for a port ends on a free one and does not drift away
  from 7192; the directory leads to the processes that run.
* **RPC client.** A call gets its own answer, although the calls share one encoder
  without a lock; the read loop never blocks; calls do not wait for a connection that
  is gone or a read loop that gave up.

The hazards are listed line by line under `hazards` in `PROJECT.json`, each with
the properties that would catch it.

## 2. The modules

Every component module has its state, one action per callback, handler or step,
a type invariant and its properties; an `MC` module gives it the constants a
configuration needs. Operators introduced by "Mutant of X" are faulty variants of
`X` (a dropped guard, an off by one) that are used nowhere in a specification:
put in place of `X` they make TLC report the property they are listed with in
`PROJECT.json`, which shows that the property depends on that piece of code.

### HazeServer

`conn[c]` is the life of the memory at address `c`; addresses are reused, as
`calloc` reuses them. `uvCloses` counts `uv_close` calls, a history variable.
Each libuv callback is an action; `haze_on_read`, which loops, is `OnRead`
followed by `Dispatch`, `Broadcast`, `Consume` and `CheckBacklog` with `pc` as
its program counter, and no other action is enabled until it returns
(`Polling`, `Calling` require `pc = "idle"`). The result of `ServerDispatch` is
any result its type allows, because `haze_on_read` checks the count itself.
What libuv does is taken from how the code uses it: `uv_write` on a closing
handle is refused; writes pending on a closing handle are called back as
cancelled before its close callback; a listening handle whose callback did not
accept is no longer polled ("stalled"). A handle closed by the walk of
`HazeServerFree` gets `_OnHandleClose`, which frees nothing ("leaked").

Memory failure is modelled where the code handles it: in `haze_on_connect`
(`OnConnectNoMem`), in the growth of the buffer (`OnReadFail`), in
`HazeServerAddConnection` (ignored by its caller, `addFailed`), in `haze_send`.

`ConnectionSpec` is what a client may rely on and knows of no array, no handle and
no buffer: a set of members, entered when a connection is accepted and left when it
is gone, and notifications. `todo` is the set of members a notification has still to
go to; nothing else happens until it is empty. The refinement mapping makes the
registry the members and what lies before the index of `HazeServerBroadcast` done
(`ToSend`); the states of the walk are both "abandoned".

### RequestStream

One connection from the client's requests to the requests `ServerDispatch` is
called with. A request is encoded to a sequence of elements, a tag or the body of
a string; TCP hands any prefix of what is in flight to `haze_on_read`; `Dispatch` is
one round of the loop, with `RequestUnmarshal` as a function of the buffer. The
reader of mpack in error returns nil tags and empty bytes and reports 0 bytes
remaining; the model does the same, since that is what decides what a cut
request becomes.

A read may also end inside an element (`OnReadInside`). What came of it is `part`: mpack
raises the same error for a piece of an element as for none of it, and when the reader is
in error the piece counts as consumed with everything else. What the next read starts
with is then any of `Rests`: the bytes of an integer, a text or a binary may be
`94 00 ...`, an envelope, and the server dispatches a request nobody sent. The runs
give `Rests` a number and a whole encoded request; the proofs take any set of sequences
of elements. `ends` and `cutAt` are history variables: where each request ends in
the stream, and where TCP first cut one.

Memory is assumed for `RequestUnmarshal`. Without it, the NULL of `RequestNew`
(`Request.c:230`) or of the buffer of a string or binary (326, 336-344) is used and the
process ends; or the connection is closed (no copy of the method, 266-268); or the
request has no method, or a nil or nothing in the place of a parameter whose object could
not be made (129-154). Of these only the missing method is modelled, as an action of
`Dispatcher`.

### SampleList and Dispatcher

`SampleList` keeps the array with each sample's id, name and the object it points
to; a name is a base and the numbers appended to it, so that a file may itself be
called "kick #1". `Dispatcher` extends it: `DispatchRPCMessage` has one disjunct
per method and one for a request whose method was lost for want of memory
(`MethodNotSpecified`), the delete and play of the sample list are conjuncts of their
handlers. A handler's answer is sent; or it is sent with nil in both fields, because
`ObjectCreateStr` had no memory for its text (`Blank`); or it is lost. `jobs` is the
context's request queue. `ContextNew` creates the session before the server
starts, so there always is one.

No method imports a sample at this commit (an import is queued, and nothing takes
jobs), so a list that only the handlers change stays empty. `OtherCaller` stands for the
caller that is missing: between any two requests `FnSampleListImportSample` and the
other functions of the sample list may be called, as the consumer of the queue will call
them. Requests that delete and play thus meet a list with samples in it.

### AudioSession

What a process owns from `ContextNew` to `ContextFree`. `held` is the set of parts
that exist, in the order of `Order`; `heap`, `sound` and `linked` say of each sample
and channel whether it is allocated, what state its sound is in and whether a list
holds it. `InstanceRegistryNew` that fails leaves its strings behind, which stay in
`held` (`InstanceRegistryFails`). The `uv_loop_init(ctx->_loop)` that follows it is called
with NULL, since nothing sets `_loop`: what that does is undefined, so the process goes
on (`UvLoopInit`) or dies (`UvLoopInitDies`). On the usual platforms, where page 0 is not
mapped, it dies, and everything after it is about a build in which the call
returns. Because the audio thread may look at any moment, a call that
uninitialises a sound and the call that frees its sample are separate steps, and
`SampleListImportByFile`, `SampleListDeleteSampleByName` and `SampleFree` are the
steps `at` leads through. Every part of a context may fail to be made; the
failures of an import are those of the code (`InitFails`, `NameFails`,
`LinkFails`). `Uninit` follows `ma_sound_uninit`: on zeroed memory it does nothing, on a
sound that was uninitialised it frees a second time, which is recorded as "twice".
A channel's group is initialised and never uninitialised (`ChannelFree` does not),
so the properties speak of samples.

### ObjectTable and MapSpec

`MapSpec` is what a caller of a table relies on: several independent maps. Each of its
steps is one call with its arguments, which `call` records in both modules: a `Get` has
to answer what is under the very key, in the very table, it was asked for, a `Set` has to
store the value it was given, and only `Create`, `Set` and `Copy`, which need memory, may
fail, without effect. `ObjectTable` is the code: `table[t]` is
an array of addresses with a capacity, `heap` the pair at each address. The
linear search (`Matches`), the growth, the shift of a removal and the ownership
of pairs are those of `Object.c`, and every allocation may fail, in an insertion also
after the array has grown. The refinement mapping is `MapOf`: the map of a table
sends a key to the value of the pair that holds it. Only keys that `ObjectEquals`
compares are keys of the abstract map (`Comparable`); a nil, a binary, an array or a NaN
(`OtherKeys`) is stored with each set and never found, in the abstract specification by
the `IF` of `At` and `With`. `Kept` says what is kept of a value: `ObjectCopy` leaves
out the table of a map, so a map stored as a value comes back as a map object without
one (`NullMap`).
`ObjectMapTableCopy` sets the pairs of its source one by one in a table nobody
else has; the keys of the source being distinct (`KeysStayDistinct`, proved), each set is
an insertion, and the copy is one step.

### Messages

A response or a notification is put together, marshalled, perhaps cut, and read.
Objects are trees: `Objects` holds every object callers pass with its elements, and
`Depth` counts the arrays inside each. The writers are recursive functions on objects
(`Written`), the readers recursive functions on the places of the buffer (`Reading`).
The response's writer turns what it cannot encode, a map, into nil, the notification's
refuses. Of a field that is a map `ResponseArrives` therefore says nothing (`Carried`), except
that it does not disturb the other field; section 5 lists what the documents expect.
The three functions that read an object share their branches; a record says
in what they differ (`ServerReader`, `ClientReader`, `NotificationReader`): what they
return at the end of the bytes, and whether an array with an element that cannot be
read is given up (`strict`) or read on to its count. All decide by the error flag at
the end. The properties compare the codecs with `Arrived`, `Parts` and `Fits`, which
are stated on objects and know nothing of bytes.
A response may be written by the server and read by the server's own reader or the
C++ client's, or the other way round: the client's codec is translated too, and the
same property is asked of each pair. Strings hold no zero byte: the writers write
`strlen` bytes. Nothing in the server creates a notification yet; the module checks
the library that will.

### Startup

Processes that register, look for a port, serve and go, in any order. `instances`
is the directory: which process last wrote the file of a port. A process that
fails or exits leaves its file. Between the registration and the search stands the
`uv_loop_init` on NULL described under `AudioSession`: a process goes on from it or dies.

### RpcClient

Calls on goroutines of their own, the read loop, and a server that answers any
request or none, may send a message that is no response or does not decode, and may
close the connection. Sections under the mutex are one step; sends and receives on a
channel are steps of their own. A request is written three times: `conn.Write`
(`ConnWrite`), which `net.Conn` keeps in one piece, then `encoder.Encode` twice. All
goroutines use the one encoder, which has one scratch buffer and writes element by
element, and no lock: each `Encode` has a beginning and an end, and once another call
writes in between the wire is `torn`, for good. From there on the server may read any
request, and answers under any msgid (`ServeTorn`). `from` is a history field of a
message: the call whose request it answers.

## 3. The runs

| Run | Asks | Result |
|---|---|---|
| `haze_server` | registry, closing, buffers, writes, shutdown; the array implements a set of members that each broadcast goes to once; closing connections are freed, shutdown ends | holds |
| `requests` | requests with flat parameters that come before the first cut are all dispatched as sent, the one that is cut with its msgid, method and number of parameters | holds |
| `requests_split` | a request may come in two reads (`docs/proto.md:3`) | violated |
| `requests_nested` | a parameter may be any MessagePack value (`docs/proto.md:15`) | violated |
| `sample_ids` | every sample has an id of its own (`docs/proj.md:166`) | violated |
| `dispatcher` | answers keep connection, msgid and order, no request is forgotten; ownership, order, sounds and plain names of the list under requests and other callers | holds |
| `messages` | messages arrive as meant or are refused, whole, cut, nested, beyond the limits, between server and C++ client | holds |
| `object_table` | tables answer every call as maps do and own their pairs alone, with memory running out anywhere | holds |
| `audio_session` | the audio thread reads no freed sample, none is lost, each is uninitialised once, nothing it could read is left when a context is freed | holds |
| `rpc_client` | own answer, no blocked read loop, release when the read loop ends, with a shared encoder | holds |
| `startup` | the search ends, ports stay packed | holds |
| `startup_directory` | the directory leads to every running process (`hazectl/README.md:71-72`) | violated |

The four violated runs are disagreements between the code and its documents:

* `requests_split`: cut inside the envelope, a request closes the connection;
  cut inside its parameters it is *dispatched*, with nil or empty strings for what
  has not arrived yet, and the rest closes the connection, unless it reads as a
  request of its own.
* `requests_nested`: the parameter loop takes the tag of an array or a map and
  leaves its elements in the stream, where they are read as the next parameters
  and then as the next request.
* `sample_ids`: an id is the length of the list, so import, import, delete the
  first, import gives two samples the id 1.
* `startup_directory`: every process writes the file of port 7192, before it has a
  port. The first process serves on 7192, the second on 7193, which has no file. (This
  is the trace of a build in which `uv_loop_init(NULL)` returns; where it does not, the
  process dies with its file written, and no process serves.)

One property states an exception the code makes, so that everything but the
exception is checked: `UninitOnce` (both `SampleInitFromFile` and its caller's
`SampleFree` uninitialise a sound whose name could not be copied).

### Bounds

* `HazeServer`: two connections, so that a removal finds its connection first or
  last and another one beside it; lengths are in units of which a read brings one or
  two, with a buffer that starts at two and a backlog limit of two, so that several
  rounds of the loop and a full backlog are met. `MaxWrites` (one) only
  limits how many writes libuv may hold. The registry starts with room for one
  and doubles. Safety and liveness are checked in the one run, without symmetry.
  Any number of connections, the swap of a middle entry, repeated doubling and any
  number of writes are covered by the proofs, which need none of these bounds.
* `RequestStream`: three requests (two for the violations), so that one read may
  bring a part of the first, the whole second and a part of the third; four
  requests that differ in the number and kind of parameters, none to two; the proofs take
  any number. Msgids are below `IdModulus`, as the protocol demands.
* `SampleList`: four imports of two files, one called like a numbered copy of the
  other.
* `Dispatcher`: two requests on two connections, all methods and one unknown; one
  lost answer; imports and requests together are at most three, so that two requests
  meet a list of one sample and one request a list of two, and three imports a
  delete with samples on both sides. The proofs need none of these bounds.
* `ObjectTable`: two tables, so that one is a copy of the other; four addresses,
  so that memory runs out; two keys that compare and one that does not, one plain value
  and one map; a first capacity of two, so that a table grows.
* `AudioSession`: three samples, so that a context is freed with samples in its list
  after one was deleted, and three channels.
* `Messages`: up to three parameters of nineteen objects, an empty string and an empty
  binary among them, with a first capacity of
  one (two growths) and a reader that accepts two (one beyond the limit, at the top
  and inside an array); arrays in arrays (`MaxDepth` 2) and a map in an array.
* `RpcClient`: two calls, each written three times, so up to six answers. An answer to
  mixed bytes is added while fewer than `MaxBack` (one) messages are under way; any number
  of them may follow each other.
* `Startup`: three processes and one foreign port above 7192 (here 3); nine ports
  are more than the search can pass, so the 16-bit wrap of `port` is not reached.

Symmetry is used for the connections of `Dispatcher` and for the addresses, the
handles and the comparable keys of `ObjectTable`, where no definition tells two of them
apart and only safety is checked; `MapSpec` does not either.

Deadlock is checked except in `Dispatcher`, `RpcClient` and `AudioSession`. There the
system may really stop: clients have gone or have no more requests, a call waits for a
server that never answers, the context is freed or the process is dead.

### Fairness

* `HazeServer`: a callback in progress ends. Every iteration of `uv_run` calls
  back closing handles and their cancelled writes, whatever else it does: strong
  fairness of those actions, since a read in progress disables them for a while.
  An iteration ends, so `uv_run` returns once stopped, and `main` calls
  `HazeServerFree`. Clients, signals and the network owe nothing: a write to a
  peer that does not read may be pending for ever.
* `RequestStream`: TCP delivers what was sent, `haze_on_read` ends.
* `RpcClient`: the Go scheduler runs every goroutine that can go on. The server
  owes nothing.
* `Startup`: `main` goes on. Processes need not start or stop.

## 4. The proofs

Every theorem holds for every value of the constants that satisfies the named
assumptions of its module: any number of connections, processes, samples, requests,
any capacity. Eight modules hold theorems, one per component; the dispatcher and the
sample list it extends share one. Four of them begin with the same facts about arrays
and sequences: the least element of a set of places (`LeastElement`); a removal that
shifts what follows (`ShiftUp`); and induction over the places of an array
(`PlaceInduction`), stated for a *set* of places instead of a predicate, so that it can
be cited. That a function defined by recursion exists and satisfies its equations is
proved where it is needed, from that induction.

### The connection server

`HazeServerProofs` proves, for every set of connections and every value of the
constants that satisfies the assumptions, that `Spec` implies

* `TypeCorrect`: the type invariant; with it, that a count of consumed bytes
  never makes `buffer_len` wrap;
* `RegistryCorrect`: the registry holds no freed and no duplicate connection, and
  every open one whose insertion did not fail;
* `ClosedAtMostOnce`: no handle is closed twice;
* `ReadsKeepNothing`: between callbacks an open connection's buffer is empty;
* `CallbacksSafe`: writes point to allocated connections, nothing is pending when
  the server is freed;
* `StoresStayInBounds`: the `memcpy` into a buffer and the append to the registry
  stay inside the arrays that were grown for them;
* `LeavingIsFreeing`: a connection leaves the registry only in the step that
  frees it (an action property, proved only);
* `ServerKeepsMembers`: the refinement of `ConnectionSpec`.

The assumptions are those named in `HazeServer`: the constants are positive where
the code's are (`ConstantsAssumption`), one read fits the backlog limit
(`ReadFitsAssumption`: 64 KB against 4 MB), and a marker is not a connection
(`NoConnAssumption`).

All follow from one inductive invariant, `IInv`. `CloseOnce` alone is not
inductive. `CloseCount` ties the count to the life of the handle, so that the
callbacks which test `uv_is_closing`, or run only on an open handle, are seen to
close for the first time. That leaves the backlog check at the end of
`haze_on_read`, which closes without asking whether the loop already has.
`ReadPhase` and `OthersEmpty` show why it never does: an open connection starts a
read with an empty buffer, so the buffer holds at most one read, which by
`ReadFitsAssumption` is below the limit. The check can in fact never fire. It would
close a second time if the limit were lowered below a read or if a parser that
waits for the rest of a request left bytes in the buffer: whoever repairs
`requests_split` has to add the test there.
`LastStates` adds what the end of `HazeServerFree` needs. `SwapRemove` and
`AddConnection` state what the two operations on the array do, once, and are
cited wherever the registry changes.

The refinement takes one lemma per callback. Most callbacks stutter or are a
`Close`; the registry lemmas make `haze_on_connect` an `Accept` and `haze_on_close` a
`Gone`. `BroadcastMaps` is where `RegistrySound` is needed: because no connection is
listed twice, a step of the index takes exactly one member out of `todo`. That the
backlog check never fires is needed too: its `uv_close` would be a step
`ConnectionSpec` does not have.

### The context and its samples

`AudioSessionProofs` proves `TypeCorrect`, `SamplesStayLive` (`SoundsLive`),
`NoSampleLost` (`SamplesOwned`), `UninitialisedOnce` and `ContextFreed`, for every
set of samples and channels; it assumes that the two do not overlap. `ContextFreed`
is about what the audio thread reads and what leads to it; the strings and the queues
that stay are in section 5. None is inductive alone. `SoundStages` says which states a sound has at each step of the main
thread: on its list a sample is initialised, at "release" its sound is not.
`PartsInOrder` says that the session needs the engine and everything allocated
needs the session, and that a context that serves requests is whole. `WorkedOn` ties
`node` to `at`, and `ChannelsOwned` does for channels what `SamplesOwned` does for
samples.

### The sample list and the dispatcher

`DispatcherProofs` proves `SampleTypeCorrect`, `ListOwnsLive` (`OwnsLive`: the list
holds each live sample once, in import order, and only those play), `PlainNamesDiffer` and
`IdsDifferBeforeDelete`, for all file names and any number of imports. The last is what is
true of ids where `sample_ids` shows that they repeat: two samples share one only
after an older one was deleted. `IdIsPlace` is what that needs: as long as nothing older
than a sample was deleted, its id is its place in the order of the imports.

Of the dispatcher it proves `DispatcherTypeCorrect`, `AnswersInOrder`
(`RepliesInOrder`), `SettledOnce` (`NoRequestForgotten`) and `HandlersKeepSamples`
(`OwnsLive` again, of a list that the handlers and other callers change in turn), for every set of
connections, methods and names and any number of requests and lost answers. The
invariant `DispatchInv` adds to the properties that the msgid of a request is its
place among those of its connection (`MsgidIsPlace`) and the sample list's own
invariant, `SampleInv`. A dispatch ends in one of three ways, and `SendsKeeps`,
`QueuesKeeps` and `LosesKeeps` are those; `HandlerOutcome` shows that every method's
handler is one of them and keeps the list.

### Startup

`StartupProofs` proves `TypeCorrect` and `PortsStayPacked` (`PortsPacked`) for every
finite set of processes, every first port and every set of foreign ports. No bound on
the number of processes keeps the search from the last port: at 65536 the 16-bit
parameter of `HazeServerNew` is 0, the system picks any free port, and the search ends. `OneFile` says that only the file
of the first port is ever written, so that every search starts there; `Thinning`
counts: the processes at port `k` or beyond, plus the ports passed, are at most all
processes plus the foreign ports passed. A process passes a port only when another
process, which stays behind, or a foreign program holds it (`TryNextKeeps`), so the
sum does not grow; a process that leaves only lowers it.

### The stream of requests

`RequestStreamProofs` proves `TypeCorrect`, `WholeRequestsArrive` (`WholeAsSent`) and
`RightUpToCut` (`AsSentUpToCut`) for any number of requests with any number of
parameters, whatever TCP cuts and whatever the rest of a cut element reads as. The
theorems assume `PlainRequests`: parameters are scalars and msgids fit 32 bits. Both are
needed, and are what the protocol can carry: the run `requests_nested` is the
counterexample without the first, and a wider msgid is cut.

The argument has two halves. The codec: `PartialEncodings` and `EncodingsGrow` describe
the elements `RequestMarshal` has written after each parameter, `LoopRounds` and `ReadNext`
follow the loop of `RequestUnmarshal` over them, and `LoopReads`, by `PlaceInduction`, shows
that the loop inverts the writer; hence `Unmarshal`: a buffer that starts with an
encoded request is read as that request and exactly its elements are consumed, and one
that holds only the start of it, if it is read at all, as a request with the same msgid,
method and number of parameters. The stream: `Framed` says that what is in the buffer
and on the wire is a sequence of whole encoded requests, given by the places where they
end. As long as no request that was cut has been dispatched the connection is in step
(`InStep`): the requests that were dispatched are the first ones sent, and the buffer holds
the bytes that follow, as the client wrote them, up to the cut if there was one (`Follows`,
with `FramedAppend`, `FramedDrop`, `FrontRequest`). The next round dispatches a whole
request, or the one that was cut, or closes the connection because its envelope is not
complete; a connection is never closed without a cut (`ClosedWhenCut`). Once the request
that was cut is dispatched the connection is out of step (`OutOfStep`): what comes next may
be anything, and what was dispatched before stays as it was (`Kept`).

### The messages

`MessagesProofs` proves `TypesHold` (`TypeOK`), `NotificationsArrive`
(`NotificationArrives`), `ResponsesArrive` (`ResponseArrives`) and `PartsRefused`
(`PartRefused`), for any set of objects, arrays of any length, any number of parameters
and every place to cut. It assumes what `Messages` names: the objects are trees, none
deeper than some `MaxDepth`, of whatever size (`ObjectsAssumption`), the copy of an
object is an object again (`CopiesAssumption`), and the limits are positive
(`MessagesAssumption`). Nothing bounds the length of an array: one beyond
`NOTIFICATION_MAX_PARAMS` is among the cases.

Again there are two halves. The codec: `WrittenUnfolds`, `ArrivedUnfolds` and
`PartsUnfolds` show that the recursive functions on objects satisfy their equations, layer
by layer of depth, and `ReadingUnfolds` the same for the reader, whose recursion goes
towards the end of the buffer: what is read at a place depends on later places alone
(`ObjectAgrees`), because no object ends before it starts (`Forward`).
`FlattenIsJoined` and `JoinedGrows` say where the bytes of each element of an array lie.
`Reads` is the statement about one object: wherever its bytes are in a buffer, a
reader finds what `Arrived` says and stops just after them, or, if the buffer ends
before, is left with its error flag set; a strict reader also when an array is beyond
the limit. `ScalarReads` and `ArrayReads` prove it, the latter round by round of the
loop over the elements (`ListReads`), and `ObjectReads` by induction over the depth
(`DepthInduction`). `NotificationRead` and `ResponseRead` are the same for whole messages.

The state machine: `Inv` says that what is in the buffer is all of the message that
is meant, or a proper start of it when it was cut (`CameOf`), and that what was read of
it is nothing or a whole message of its kind (`Kept`). `PartRefused` alone is not
inductive, since it says nothing of the buffer the next reader is given. `ClientMarshal`
needs that the client's writer and the server's write the same bytes (`ResponseBytes`).

### The table of objects

`ObjectTableProofs` proves `TypeCorrect`, `EveryPairOwned` (`PairsOwned`),
`KeysStayDistinct` and the refinement `TablesAreMaps`: `Spec` implies
`Map!Spec`. The invariant is `TypeOK`, `PairsOwned`, `KeysDistinct` and
`CapacityPositive`; doubling a capacity of zero would not make room. The refinement rests on
`KeysDistinct`: a key compares with one pair at most, so the first match of the
linear search is the value of the abstract map (`Found`, `FoundInMap`), a
replacement changes the map at one key, and a removal takes one key out of it. There is a lemma for
each operation: what the table then holds, and that the call is the step of `MapSpec` for
the same call with the same arguments.

### The client of hazectl

`RpcClientProofs` proves `TypeCorrect`, `OwnAnswer` (`OwnResponse`) and `NeverBlocks`
(`DeliverNeverBlocks`) for every finite set of calls. `IdsGivenOnce` counts: the
counter equals the number of calls that have an id, so the next id is new and in
range. `Honest` follows an id from the request to the response, whatever is lost,
repeated or mixed on the way: a message is the answer to a request that was made, under its
id (`Own`, `Answer`), or, on a torn wire only, to none. `MapSound` and `DeliverySound` show that a call is in the map, or is
about to be sent to, or neither, and never both: that is why the second
and third answer to a request written three times cannot block the read loop.

### Only model-checked

Liveness (`ClosingIsFreed`, `ShutdownCompletes`, `EveryRequestDispatched`,
`ReleasedOnClose`, `SearchEnds`) is out of the prover's reach.
Every invariant and both refinements that a passing run checks are also proved.

## 5. Met while modelling, without a run

Each of these is visible in the text of a definition, in one step.

* The failure of `session/create` is put in `result`, not in `error`
  (`source/api/proto/Response.c:421`; `docs/proto.md:16`, `docs/functions.md:115`).
* An accepted `samplelist/import` is never answered: it is queued
  (`source/api/Dispatcher.c:115`), nothing takes jobs from the queue, and
  `docs/functions/samplelist.md:38-39` shows `[1, 42, nil, nil]` as its answer.
  `NoRequestForgotten` counts the job that waits as what remains of the request; it does
  not say that the answer comes.
* A map as error or result is written as nil (`source/api/proto/Response.c:20-88`), so
  that an error that is a map reaches the client as success. `docs/proto.md:29` says that
  an error is "typically a map with `code` and `message`", and
  `docs/functions/samplelist.md:105` shows a map as a result. Nothing in the server
  creates such a response yet.
* When memory runs out for the text of an error alone, the response says nil and nil,
  a success (`source/api/proto/Response.c:360`).
* The rest of an element that TCP cut may read as a request, which is then dispatched
  although nobody sent it (`source/api/proto/Request.c:225-243`).
* `RequestUnmarshal` uses the results of `RequestNew` and of `malloc` unchecked
  (`source/api/proto/Request.c:230`, 326, 336), and dispatches a request with fewer
  parameters when memory runs out for one of them.
* `uv_loop_init` is called with NULL (`source/Context.c:48`): on the usual platforms
  the process dies there, with its instance registered.
* `ContextFree` leaves the two queues, because `JobQueueFree` frees nothing
  (`source/JobQueue.c:12-21`), and channels go without `ma_sound_group_uninit`
  (`source/audio/Channel.c:43-49`); `source/Context.h:41-42` says it "Releases all resources
  owned by the context".
* A sample whose name cannot be copied has its sound uninitialised twice
  (`source/audio/Sample.c:117`, then `SampleFree`).
* `InstanceRegistryNew` leaks the name and the path when its file cannot be opened, and
  the path when its content cannot be built (`source/fs/InstanceRegistry.c:80-91`), against
  the same sentence of `source/Context.h`.
* A connection that is open at shutdown is closed with `_OnHandleClose`, which does not
  free it (`source/server/HazeServer.c:328`).
* A msgid wider than 32 bits is cut (`source/api/proto/Request.c:248`) and answered under
  another id.
* `TempoMapToFrame` reads `points[0]` before it looks at the length.
* A notification may be written with more parameters, or a longer method, than
  `NotificationUnmarshal` accepts (`source/api/proto/Notification.c:499-513`).
* Documented methods are answered "Method not found."
  (`source/api/Dispatcher.c:156`; `docs/functions/session.md:7`,
  `docs/functions/samplelist.md:6-8`).
* A third import of a file gets the name of the second, "kick #1", again: only
  exact matches of the plain name are counted (`source/audio/SampleList.c:59`), so
  the name no longer tells the copies apart, as the comment at 224-225 supposes.
* `Call` writes each request three times (`hazectl/clients/mpackrpc_client.go:79-84`),
  ignores `Error` in the response, and waits for ever if it registers after the
  read loop has ended. Its comment at 40 calls the msgid thread-safe; the encoder that
  all calls share is not, and concurrent calls can mix their bytes on the wire.
* `main` lets `port` grow past 65535, where the 16-bit parameter of
  `HazeServerNew` wraps (`source/main.c:58`), and does not check `ContextNew`.
* The program does not link at this commit: the functions of the job queue and
  the audio thread are declared and not defined.

## 6. Not modelled

Formatting, printing and logging. The text of paths: `PathsNew` and `PathsFree` are parts
of a context, what they put together is not looked at. `Tempo`: floating-point
arithmetic without a caller. miniaudio, mpack and libuv themselves, except for what the code
relies on. Of the C++ client: `Object.cpp`, a container on `std::vector` that
shares nothing, `Request.cpp`, which has no codec, and `HazeClient.cpp`, a stub. The Lua
client, a draft that sends nothing. hazectl's commands, which parse arguments and
print. Code after the unconditional return of `DispatchRPCMessage` and code in
comments (`source/msgpack/Decoder.c`). The volume, the seek and the in-memory
decoder of a sample, `SessionSetName` and `InstanceRegistryRemove`, which nothing calls. The
consumer of the job queue does not exist, so what its jobs point to (the freed
request, a connection that may be gone) is recorded as a hazard and has no action.

## 7. Plan

Written, in this order: the connection server, since everything runs on its loop;
the stream of requests, the dispatcher with the sample list, the messages it
sends, startup and the client; then the map tables with their abstract
specification, the life of a context beside the audio thread, the C++ client's
codec, and the abstract specification of the server's connections; the proofs of all of
them, those of the messages last. Next, when the job queue is written: its consumer,
with what the jobs point to, and a broadcast through `HazeServer`'s registry of what
`Messages` marshals.
