# A TLA+ model of SSHKit

SSHKit is a Swift package around libssh. Its core is Objective-C
(`Sources/SSHKitObjC`): one object per SSH connection, a serial dispatch queue that
makes every libssh call, and runtimes (command, shell, SFTP, tunnel, port forward) that
live on that queue. The application calls it from any thread. libssh itself is in the repository
(`Vendor/libssh`), and SSHKit relies on parts of it that no test of either project reaches:
what a call leaves behind when its time is up, who else reads the answer, what a callback
may find changed. This directory models what is hard to test in both: what happens when
calls, blocks of the queue, timers, packets, cancellations and the operating system interleave.

Everything below refers to the source by file and line; `PROJECT.json` maps each
definition of the modules to the lines it stands for.

## 1. Inventory

| Component | State it keeps | Operations | Talks to |
|---|---|---|---|
| Connection facade, `SSHKitConnection.m` | none of its own | connect, two discoveries, execute, open command / shell / SFTP / direct TCP, three forwards, disconnect | queues blocks on the worker; hands completions and Closed events to callbacks |
| Session worker, `SSHCoreSessionWorker.m` | the queue, `mutableState`, the socket handle | `dispatch`, `dispatchSync` (behind the `state` property), `transitionToState:` (raises on an illegal transition) | everything runs on its queue |
| libssh client, `SSHCoreOpenSSHClient.m`, `+Connect`, `+Commands`, `+Shell`, `+Tunnels` | `session`, `currentTask`, `taskCancelled` under `taskLock` | connect, open a runtime, execute, `cancelCurrentTask` (any thread), `closeSession` | libssh, the runtimes, the socket handle |
| Socket handle, `SSHCoreSocketHandle.m`, `+Sockets` | a descriptor under a lock | `shutdownNow` (any thread), `takeFileDescriptorForClose` (worker) | the descriptor table of the process, libssh (which borrows the descriptor) |
| Streaming runtimes, `SSHCoreLibSSHCommandRuntime.m`, `…ShellRuntime.m` | channel, finished flag, a 50 ms timer | read loop, write, close, Closed event | worker queue, the callback queue |
| Tunnel runtime, `SSHCoreLibSSHTunnelRuntime.m` | channel, finished flag | read, write, close | worker queue |
| SFTP runtime and files, `SSHCoreLibSSHSFTPRuntime.m`, `+Files`, `+Queries`, `+Mutations`, `…FileRuntime.m` | `sftp_session`, a weak table of file runtimes, each with its `sftp_file` | queries, mutations, open / read / write / seek / close of files, close | worker queue, `SFTPClient.swift` |
| SFTP transfers, `…SFTPRuntime+Transfer.m` | two open files and counters, for the length of one block | readFile, writeFile, download, upload, the last two with resume | libssh, the local file, the delivery queue of `SFTPClient.swift` |
| Port forwards, `SSHCoreLibSSHLocalForwardRuntime*.m`, `…RemoteForwardRuntime.m` | listener, channel, `activeSocket`, `closed`, `didCallCloseHandler`, pending completions under a lock | the accept loop (one block that keeps the worker), `closeWithCompletion:` (any thread) | clients, libssh, the descriptor table |
| SOCKS / HTTP CONNECT client (`+Sockets.m`) and SOCKS server (`…LocalForwardRuntime+SOCKS.m`) | none | one exchange each, before SSH or the bridge takes over the socket | blocking sockets, a proxy or client that may be anybody's |
| ProxyJump, `+ProxyJump.m`, libssh `socket.c`, `client.c`, `connector.c` | a detached thread per hop with a session of its own, one flag of the process, socket pairs | connect a hop, relay bytes, disconnect | the session that asked for the hop, the client's callbacks |
| Swift layer, `SSHClient.swift`, `SFTPClient.swift`, `SCPClient.swift` | `SSHAsyncCancellationBox`, `SSHLockedSession`, the reader of an SCP command's events | async wrappers of the calls above, SCP over a command | the Objective-C objects, Swift tasks |
| libssh channels, `channels.c` | state, flags, windows, two buffers, the pending request of each channel; one pending global request per session | open, request, write, read, end of file, close, free, listen, accept, cancel | packets of the server, handled inside any call that polls |
| libssh transport, `packet.c`, `kex.c`, `packet_cb.c` | crypto contexts, sequence numbers, the queue of packets that wait for an exchange | send, receive, key exchange from either end | the socket, the channels, authentication |
| libssh authentication, `auth.c` | the pending call, the keys of the agent, the open questions | one call per method | the transport, the agent |
| libssh SFTP, `sftp.c`, `sftp_common.c` | request ids, the queue of responses, the last status | one request and its response | a channel |
| libssh socket and poll, `socket.c`, `poll.c` | two buffers, armed events, a lock of the poll handle | poll, read, write, flush, close | the kernel, the packet layer |
| libssh buffers, `buffer.c` | a block of memory, used and read positions | add, prepend, get, pass, shrink | everything |
| libssh host lists, `config.c`, `options.c`, `knownhosts.c` | options and what has set them; the keys of two files | parse at connect, choose host key algorithms, check a host key | files that others write too |
| Stores, logging, latency, configuration values, key pairs, the rest of libssh | dictionaries and values | accessors, functions | — |

How they interact. A call of the application queues one block and returns. The block moves
the session state, calls libssh, publishes a runtime as `currentTask`, and completes. A
runtime lives on in further blocks: the read loop (rearmed by a timer), operations, a
close, and the *hop*, the block that its close handler queues to make the session Ready
again. Two things do not go through the queue: `cancelCurrentTask`, which a disconnect runs
on the caller's thread, and `closeWithCompletion:` of a forward, because the accept loop
keeps the queue for itself. `disconnect` also *waits for* the queue, up to a deadline, by
reading `worker.state` synchronously, and then queues the teardown.

What is hard here:

- a disconnect may cut in anywhere: during name resolution, between two addresses, between
  the state check of an open and the publication of its runtime, between a runtime's end
  and its hop, during another disconnect;
- a block queued earlier may run much later, when the session belongs to another job or to
  nobody, or is freed;
- several parties may end one runtime; its completion and its Closed event are owed once;
- a descriptor number is reused by the rest of the process the moment it is closed, while
  another thread may hold a copy of it;
- blocking calls without a timeout (proxy reads, SOCKS reads, a collected command, the
  accept loop) rely on somebody shutting the right socket down;
- libssh has no thread: packets are handled inside whatever call polls next, so an answer
  comes in the middle of a call it is not for, and a channel may close or be freed in the
  middle of a read or a write of it;
- a call of libssh that times out leaves a request behind whose answer comes later, and most
  answers (channel requests, global requests, authentication) carry no number;
- both ends may start a key exchange at any moment, and each direction changes keys by itself;
- flags kept from one callback (armed events, connector flags, seen options) decide what the
  next one does.

What makes each component correct:

- *session*: the state moves only along the worker's table (otherwise the process dies of an
  exception); a Running state belongs to exactly one live job, Ready to none; Closed holds
  nothing; no runtime outlives the `ssh_session` its channel belongs to;
- *disconnect*: completes, whatever it interrupts, and releases every waiting caller;
- *streaming*: a delivered stream hears Closed, once;
- *forward*: a close is answered exactly once, after everything is released; it completes
  whatever the client does; it touches no socket of somebody else;
- *socket*: no descriptor leaks, no foreign descriptor is closed or shut down;
- *SFTP*: no handle is used after its session is freed; what is dropped is released; a transfer
  that succeeds is exact, whatever failed before it, and one that fails can be resumed; the
  error says what the server answered;
- *Swift cancellation*: one outcome, and no connection is torn down for nothing or leaked;
- *streaming*, as the application hears it: the output of each stream once and in order, Closed last, and
  the program's exit status only behind all of its output; input whole and in the order of the calls;
- *proxy exchanges*: no byte of them is left in the socket and none behind them is taken; a forward connects
  only to what its client named, and for the account it asks for;
- *SCP*: an upload that succeeds is stored, a download changes the local file only into all
  of the remote one, whatever the lengths of the events;
- *channels*: no more is sent or buffered than the window allows, no output is lost to an end of
  file or a close, a freed channel is closed to the server and named by no later packet; a
  reply is for the request that is asked, a result is the server's;
- *transport*: every packet arrives once, in order, under the key and number both ends mean;
- *authentication*: a verdict is on the request of the call that returns it, success is
  granted for a proof, a key is not skipped;
- *SFTP responses*: each call gets its own answer however late others come, and nothing is kept
  or left open that nobody waits for;
- *socket and poll*: bytes pass once and in order, and who sleeps is woken;
- *buffers*: no length, however large, makes a call write past the memory or return what nobody put in;
- *ProxyJump*: only through hosts whose key was accepted, threads that end, a relay that
  forgets no byte and makes up no end;
- *host lists*: the line that should take effect does, and a changed key is called changed.

`PROJECT.json` lists each hazard at its line with the properties that cover it.

## 2. The modules

| Module | Models | Code |
|---|---|---|
| `SSHKitConnection` | facade + worker + client: the queue, the state, the current task, the jobs, disconnects | `SSHKitConnection.m`, `SSHCoreSessionWorker.m`, `SSHCoreOpenSSHClient*.m`, command / shell / tunnel runtimes |
| `SessionLifecycle` | abstract: the state machine of the worker | `canTransitionFromState:toState:` |
| `ForwardRuntime` | one local, dynamic or remote forward | the forward runtimes |
| `ClosableRuntime` | abstract: what a close of a runtime promises | contract of `closeWithCompletion:` |
| `ConnectionSocket` | the address loop, the socket handle, cancels | `+Sockets`, `SSHCoreSocketHandle.m`, `closeWorkerSocketHandle` |
| `DescriptorTable` | the process's descriptors, which strangers use too | the system, `SSHCoreLibSSHHelpers.m` |
| `SFTPRuntime` | an SFTP client, its file handles, and who still refers to them | `SSHCoreLibSSHSFTPRuntime*.m`, `…FileRuntime.m`, the deinits of `SFTPClient.swift` |
| `SFTPTransfer` | one transfer, tried again over connections that break | `+Transfer.m`, `SFTPClient.swift`, `SSHAsyncCancellationBox.swift` |
| `SwiftSessions` | a cancellable task that connects or discovers, with its handler | `SSHClient.swift`, `SSHAsyncCancellationBox.swift` |
| `SCPTransfer` | an SCP upload or download over a streamed command | `SCPClient.swift`, the sink of `SSHCommand.swift` |
| `CommandStream` | a streamed command or shell: its calls, its events and the two ways they take | `SSHCoreLibSSHCommandRuntime.m`, `…ShellRuntime.m`, `SSHCommand.swift`, `SSHConnection.swift` |
| `ProxyRoute` | a SOCKS5 or HTTP CONNECT exchange, of the client, of the dynamic forward, or of both | `+Sockets.m`, `…LocalForwardRuntime+SOCKS.m` |
| `ChannelFlow` | one open channel: windows, data, end of file, close, free | `channels.c` |
| `ChannelRequests` | opens, requests and results of one command or shell after another | `channels.c`, `+Commands.m`, `+Shell.m`, the exec runtime |
| `RemoteForwards` | listens, cancels and accepts of one remote forward after another | `channels.c`, `messages.c`, `…RemoteForwardRuntime.m`, `+Tunnels.m` |
| `Transport` | banner, key exchange and re-exchange, the packet queue, the packet filter | `client.c`, `kex.c`, `packet.c`, `packet_cb.c`, `dh-gex.c`, `hybrid_mlkem.c` |
| `ClientAuth` | authentication calls, their timeouts, the agent's keys, the rounds of questions | `auth.c`, the authentication of `+Connect.m` |
| `SFTPQueue` | ids, responses, the queue of responses, the calls of the SFTP worker | `sftp.c`, `sftp_common.c`, `+Queries.m` |
| `SocketPoll` | the socket of a session and the poll loop that drives it | `socket.c`, `poll.c`, `session.c` |
| `Buffer` | `ssh_buffer` to the byte, with lengths that wrap | `buffer.c` |
| `ByteQueue` | abstract: a queue of bytes whose failing calls have no effect | the comments of `buffer.c` |
| `ProxyJump` | the jump threads of all connections of the process, and the flag they share | `socket.c`, `client.c`, `+ProxyJump.m`, `+Connect.m` |
| `JumpRelay` | what one jump thread passes on between its socket pair and its channel | `connector.c`, `channels.c`, `socket.c` |
| `SSHConfig` | which lines of the configuration files take effect, and how the server is reached | `config.c`, `options.c`, `client.c` |
| `KnownHosts` | the choice of host key algorithms and the check of a key against two files | `knownhosts.c`, `kex.c` |
| `MCSSHKitConnection`, `MCForwardRuntime`, `MCConnectionSocket`, `MCSFTPRuntime`, `MCSFTPTransfer`, `MCChannels`, `MCSession`, `MCProxyJump`, `MCHosts` | the instances TLC checks | — |
| `SSHKitConnectionProofs`, `ConnectionRouteProofs`, `ForwardProofs`, `SFTPRuntimeProofs`, `SFTPTransferProofs`, `SessionProofs`, `ChannelFlowProofs`, `ChannelRequestsProofs` | proofs (section 6) | — |

`ForwardRuntime` and `ConnectionSocket` both extend `DescriptorTable`; `SSHKitConnection`
refines `SessionLifecycle`; `ForwardRuntime` and `SFTPRuntime` refine `ClosableRuntime`;
`Buffer` refines `ByteQueue`.

The layers meet at named places. What `SSHKitConnection` treats as a job is looked into by
`ForwardRuntime`, `SFTPRuntime` and `ChannelRequests`; its connect by `ConnectionSocket`,
`Transport`, `ClientAuth`, `SSHConfig`, `KnownHosts` and `ProxyJump`. Of a job that streams, `CommandStream`
has the data of the blocks, above `ChannelFlow`; `ProxyRoute` has the inside of the connect step
`AwaitsProxy` and of the step in which a dynamic forward reads its client's request. An operation of
`SFTPRuntime` is a job of `SFTPQueue` or an attempt of `SFTPTransfer`. The channel that
`ChannelRequests` opens is the one whose data `ChannelFlow` models. The modules are not
composed with each other: each leaves open what the layer below may answer.

### SSHKitConnection

`queue` is the dispatch queue: a sequence of blocks `[op, id]`. `pc` and `self` say where
the running block is; a block is cut into several actions only where it blocks or where
another thread can see its progress.

| Block | Actions | Code |
|---|---|---|
| `start` | `RefuseStart`, `BeginStart`, `OpenSocket`, `SocketConnected`, `SocketRefused`, `AttachFails`, `PublishSession`, `AbandonSession`, `FinishConnect`, `FinishDiscovery`, `GiveUp` | connect and the discoveries |
| `job` | `RefuseJob`, `BeginJob`, `FailOpen`, `PublishRuntime`, `Withdraw`, `ReturnJob`, `ExecuteEnds`, `ExecuteFails` | execute and the opens |
| `read`, `op`, `close`, `hop` | `ReadFinished`, `ReadMore`, `ReadEnds`, `OpReturns`, `OpEndsTunnel`, `CloseFinished`, `CloseOpen`, `Hop` | the runtimes and the close handlers |
| `serve` | `Serve`, `StopServing` | the accept loop of a forward, whose inside is `ForwardRuntime` |
| `poll`, `teardown` | `PollBlock`, `BeginTeardown`, `FinishTeardown` | the rest of disconnect |

Each disconnect has a thread of its own (`closer[c]`): `CancelSnapshot` reads the socket
handle, `CancelLock` copies the task under the lock and sets `taskCancelled`,
`CancelCloseTask` and `CancelShutdown` act on those copies, `Poll` and `DeadlineExpires` are
the wait with its deadline, `QueueTeardown` the end. The environment calls
(`CallStart`, `CallJob`, `UserOp`, `UserClose`, `CallDisconnect`) may come at any moment,
subject to two parameters: `OrderedCalls` (jobs are called after their connect answered and
before a disconnect, what the Swift layer does) and `RacingKinds` (kinds of job whose
opening a disconnect may interrupt). The weakest setting, `FALSE` and every kind, is a
caller without any discipline.

What is abstracted: bytes, host keys, credentials and messages; a failure of libssh is a
nondeterministic outcome; `Connected` says that the socket is still up. A route is
`"direct"`, `"proxy"` (SOCKS5 or HTTP CONNECT) or `"proxyJump"` (libssh opens the socket, so
SSHKit has no handle for it). `freed` distinguishes a session that existed from one that
never did.

### ForwardRuntime

The worker's block is a program counter through `start`, the accept loop, one client
(accept or channel, publish, SOCKS request, channel, bridge, release) and the end
(`invalidateOnWorkerQueue`, `callCloseHandlerIfNeeded`,
`completePendingCloseCompletions`). The steps that take the lock, change the descriptor table
or block are separate actions. Close calls are threads that copy `activeSocket` under the
lock and shut the copy down after it. `Stranger` is the rest of the process, which opens and
closes descriptors; numbers are given out lowest first, as the system does.

### ConnectionSocket

Handles are numbered; `stored[h]` is the descriptor a handle still has. `OpenSocket`,
`PublishHandle`, `Connected` / `ConnectFails`, `Attach`, `FreeSession`,
`TakeFileDescriptor`, `CloseDescriptor`, `ForgetHandle` are the worker; `ReadHandle` and
`ShutdownNow` a cancel. `LibsshCloses` is what libssh does to a borrowed descriptor when a
write fails (`Vendor/libssh/src/socket.c:877`); `lostToLibssh` remembers that it happened.

### SFTPRuntime

It begins where `openSFTP` has published the runtime, and looks into what
`SSHKitConnection` treats as one job. `queue` is the worker's queue again, with the blocks that
belong to this client; `CallOperation`, `CallOpen`, `CallFile`, `CallClose` are the calls of the application,
`RunOperation` … `RunClose` the blocks. All queries, mutations and transfers are
`RunOperation`: they differ in what they ask, not in what they may touch. Reference counting is part of
the model, because the code depends on it: the table of file runtimes is weak, so a file
runtime lives while the application has its handle or a block captures it (`Captured`), and
`Settle` deallocates it, and queues the block of its `dealloc`, in the step that drops the
last reference. `DropHandle` and `DropClient` are the application letting go: in the Swift
layer that queues a close (`deinit`), in the Objective-C layer it does nothing, and `layer` says
which one is used. The client itself is kept alive by the connection while it is the current
task, and by itself (its close handler holds the connection), so that its own `dealloc` finds
nothing to free except after the race that section 4 calls *dangling clients*. `CallDisconnect`, `QueueTeardown` and
`RunTeardown` are as much of a disconnect as concerns the client.

### SFTPTransfer

The source is the sequence of blocks `1..source`; a destination is a sequence of such blocks,
with 0 for foreign data or a hole. `pc` goes through `open`, `stat`, `local`, `offsets`, `fetch`,
`store`, `closeLocal`, `closeRemote`, each a libssh or system call after which the environment may have
moved; the four functions of `+Transfer.m` take the steps in their own order. Any call may be
refused by the server, time out, or lose the connection. `status` is libssh's `sftp_get_error`, `refusal`
what the server really refused: the one is a single cell that every call overwrites, so that
the two may differ when a transfer fails (section 4). `late` is a write whose answer was lost
and that the server gets round to later; `intact` remembers that such a write did not leave a hole.
`deliveries` is the serial queue that `SFTPClient.swift` makes for a transfer;
`cancelled`, `answered` and `torn` the cancellation box and the disconnect of its handler. The handler is
one step with the cancellation: a Swift task waits for a handler that runs before its operation returns.

### SwiftSessions and SCPTransfer

A Swift task runs on three threads: its body, its cancellation handler and the completion of
the session. `Task`, `CancelDisconnects` and `Completion` are those; `box` is the
`SSHAsyncCancellationBox` and `signalled` what `SSHLockedSession` keeps under its lock. The session is as
much of `SSHKitConnection.m` as a connect and a disconnect can tell apart: `state`, the queue, and
whether a connect has been called. `SCPTransfer` has the helper (`Helper`, with the reader of events), the
`scp` program at the other end (`Program`), and the delivery of its output in events of any
length (`Delivers`). File contents are counted, and `"padding"` is a byte the source could not read.

### CommandStream and ProxyRoute

`CommandStream` begins when a command or shell has been opened and its completion (`Complete`) has not run yet.
`queue`, `pc` and `running` are the worker; `BeginRead`, `Drain`, `Check`, `GetExitStatus` and
`Finish` are one turn of the read loop and its end, `TimerFires` the next turn, `BeginInput` with `WriteAll`,
`WriteFails`, `EofSent`, `Resized` the calls. Each message of output is numbered. An event
goes to the callback queue (`posted`) and, for a command, to the `AsyncStream` (`sink`); `Closed` is posted by
a block of its own. Packets come in only where libssh polls (`Drain`, `Wait`).

In `ProxyRoute` the two directions of the socket are sequences of bytes, and a read of n bytes waits for n. `peer` says who
meets whom: the client SSHKit's own dynamic forward, another SOCKS proxy or an HTTP proxy, or the forward a client
that says anything, and may stop anywhere. A word is its bytes, so that lengths of 0, 1, 255 and 256 are what they are;
`200` stands for a status line that grants.

### ChannelFlow, ChannelRequests, RemoteForwards

`ChannelFlow` numbers the bytes of each stream, so that a packet is a range. `Calls` and
`Reads` begin the calls of the application, `Continues` is what a blocked call does next
(`WriteChunk`, `AwaitWindow`, `EofFlushed`, `SendClose`, `FinishFree`, …), `Handles` the four packet
handlers, which may run inside any call, `Flush` and `Fail` the socket, and `Server` a peer
that keeps the protocol. `ChannelRequests` has one job of SSHKit after another: open, requests,
wait for the result, close and free; a call whose time is up leaves its channel or request as
libssh does. `RemoteForwards` has the one pending global request of a session (`globalReqState`), its
queue of channel opens (`messages`), and the runtime of one forward after another; `started` and
`listener` are the two sides' ideas of the ports; `abandoned` remembers that a request timed out.

### Transport and ClientAuth

In `Transport` a key is the pair of cookies of the exchange it came from, and a packet carries
the key and the sequence number of its MAC; `Verifies` compares both. The `session` record has
the fields of `ssh_session` that control packets: state, the state of the exchange, three crypto
contexts with their directions in use, counters and sequence numbers, the queue of packets. The server may
start an exchange at any point, guess, refuse, or be strict. `ClientAuth` has the calls in any order, each of which
may time out; `pending` is `pending_call_state`, `asking` remembers which request
a verdict belongs to, `agent` the place in the loop over keys, `kbdint` the open questions.

### SFTPQueue and SocketPoll

`SFTPQueue` has the worker's jobs, each a sequence of calls, a stream of packets of a size and a
body, and the queue of responses; `Timeout` ends a call that waits. With `TornReads` the time may be up between
the parts of a packet, which libssh does not survive (section 4), so the runs and the theorem leave it out. `SocketPoll` has
one thread in `ssh_poll_ctx_dopoll` and the callbacks below it, a kernel with room for a few
bytes, and a peer that reads, writes, closes or resets. Two bytes make a packet.

### Buffer and ByteQueue

`buf` is the struct: memory as a sequence of cells, `used`, `pos`, the allocated size.
`Receive` is what the packet layer does: it allocates a length that the sender names, fills it and
takes back what did not come; lengths wrap at `WordSize`. `Content` maps the struct to the bytes that are still to be read, which
is the queue of `ByteQueue`.

### ProxyJump and JumpRelay

`ProxyJump` has the client of each connection, a thread per hop (`thread[<<c, i>>].op` is where it is in
`jump_thread_func`), the flag `proxy_disconnect` they all share, the callbacks, and for each
hop the two ends of its socket pair. `JumpRelay` looks into one thread that has reached
`polls`: bytes go up from the pair to the channel and down from the channel to the pair; each callback of
`connector.c` is an action or a part of one, with the flags it leaves (`in_available`, `polled`, `armed`).

### SSHConfig and KnownHosts

`SSHConfig` chooses each line as it is read, so that every file of up to `MaxLines` lines is
checked; `Seen` is the table of options that a line has set, an include pushes a file, and the end chooses
between descriptor, jump host, proxy command and address. `KnownHosts` reads two files twice, once to order the
host key algorithms and once to judge the key, and the user's file may grow in between.

### Variants

A definition whose comment begins with *Variant* is not part of any specification: it is the
form some action would have if the code had a plausible mistake. `PROJECT.json` pairs each
checked property, and for a property of several parts most parts, with variants that break
it, so that no property is vacuous.

### Several parts in one run

An `MC` module extends or instantiates modules that share nothing at run time, or one module with
several bounds, and lets a variable `part` choose at the start which of them takes steps; the
others stay as they began. A behaviour is thus one of a single part. Fairness carries the part
in its action, and so do the properties that only one part's bounds support
(`part = "roomy" => …`). The checked property of a component is the conjunction of named
properties, each with its own definition and comment in the module.

## 3. What the runs check

Passing runs. Where a name in the table is a conjunction, its module lists its parts and
says of each what it means.

| Run | Question | Bounds |
|---|---|---|
| `connection_racing` | `SessionOwnership`, `ClosedEventOnce`, `RefinesLifecycle` for undisciplined callers | 1 connect through a proxy, 2 jobs of 4 kinds (one per shape of runtime), 1 disconnect |
| `connection_start` | connects and discoveries, calls in the order the Swift layer makes them: `TypeOK`, `ClosedReleasesAll`, `NoDanglingRuntime` | 2 starts, 1 job of 4 kinds, 2 disconnects, which may race an `execute` only, 2 addresses |
| `connection_liveness` | `DisconnectCompletes`; `NobodyWaits`: a disconnect releases every waiting caller, and a stream hears Closed | 1 connect, 1 job of 4 kinds, 2 disconnects that may race every open but a forward's |
| `forward_closes` | `ForwardIsSafe`: a close is answered once, after everything is released, and touches own descriptors only; `PortsAgree`: requests, listeners and accepted connections of remote forwards match; `ImplementsClosable`; `RoutesAreExact`: both ends of a SOCKS5 or HTTP exchange agree where it ends, what was asked for and what came of it; `ForwardsAnswer`: a close completes, who connects is served, and no route waits for its forward or the forward for a client that is gone | each kind of forward, 2 closes, 3 descriptors, strangers; 2 ports, 3 remote forwards whose requests may time out, 3 connections; hosts and users of 0, 1, 255 or 256 bytes, 6 kinds of reply behind 4 selections, clients cut off at every byte, a header limit of 16 |
| `socket_addresses` | `SocketsAreOwn`: a handle holds its own socket, and no cancel reaches a foreign one; `NothingLeaks`; `PollIsExact`: bytes and packets pass the poll loop once and in order; `FlushEnds` | 3 addresses, 2 cancels, 3 descriptors, strangers, failing writes; 3 packets out, 2 in, a kernel with room for 3 bytes |
| `sftp_files` | `OwnersAreSafe`: no use after free in the Swift layer, files die before clients; `AnswersAreExact`: own answers, whole lists, no leftovers; `ImplementsClosable`; `OwnersAreServed`: what is dropped is released, and jobs end | 2 files, 1 close, 1 disconnect, 2 waiting calls, both layers; 2 jobs of 7 kinds, 2 names, 2 timeouts or none |
| `sftp_transfers` | `TransferIsExact`: success is exact, failure resumable, files closed, reads bounded; `ProgressInOrder`; `SCPIsExact`; `TasksAreSound`: one outcome, no session leaked or disturbed; `StreamIsExact`: a streamed command or shell delivers its output, its end and its input exactly, and answers every call | 3 attempts, a growing source of up to 4 blocks, chunks of 2, a read limit of 3, 1 late write; SCP files of 0 to 3 bytes, a limit of 2, events of 2 symbols; 1 task; a command with 2 messages of output and 1 call, a command or shell with 2 calls |
| `channels` | `ChannelIsExact`: windows, end of file, close and free; `JobsAreExact`: replies and results are the job's own, no channel is left with one end; `ReadersAreServed`: output arrives, and results come | windows of 2 and 1, packets of 2, 2 bytes each way; 2 channels, 3 kinds of job, all timeouts or none |
| `session` | `BufferTypeOK`, `NothingInvented` and `IsByteQueue` of a buffer; `ExchangesAgree`: both ends agree on every packet's key and number, nothing is lost; `VerdictsAreOwn`: no verdict for another call, no success without proof; `WaitsEnd` | words of 4 bits; 1 or 2 packets a key, up to 4 packets out and 2 in, 1 exchange by the server; 3 to 5 calls, up to 3 keys of an agent |
| `jumps` | `HopsAreSafe`: trusted hops, threads that end for a reason, each with its end of the pair; `LoneThreadsEnd`; `RelayIsExact` | 1 connection through 2 hops, or 2 through 1 each; 4 bytes up and 3 down with room for 2, 4 and 2 with room for 4 |
| `hosts` | `ConfigIsExact`: each keyword once, from sections that hold, and failure exactly for own errors; `HostKeysAreJudged`: known, changed and other keys are called what they are | files of 3 lines of any kind with an include, of 5 lines about proxies with 2 levels; 2 lines of known hosts of any kind, 3 well formed |

Why the bounds are enough. Ownership needs two jobs: the one whose late block arrives and
the one that would lose its session; a third adds only longer queues, since a job is refused
unless the session is Ready. Two disconnects show every pair of positions of the teardown.
One write, one close and one read chain per job cover the blocks a runtime can have in the
queue (the read chain itself is unbounded: the timer rearms it). Three addresses let a stale
handle meet the socket after the next one; three descriptors are one more than SSHKit and a
stranger can hold at once around a reuse. `connection_racing` and `connection_liveness` take
execute, command, tunnel and local forward; `connection_start` takes execute, shell, SFTP and remote
forward, which go through the same actions. Two files show a dropped one beside one that is held, and a queue of
two calls a call behind a close. Three attempts are one that leaves something behind, one that its
late write meets, and one that succeeds; four blocks are a partial file, one full chunk and one
short one; a limit of three is passed in the middle of a chunk. Two messages cross the
two streams with each other, with the end of file and with a close; two calls are any pair that may come in the
wrong order. A length of 255 fits a byte of a SOCKS message and 256 does not; a limit of 16 lies within an HTTP answer.

In libssh a hazard takes one call that leaves something behind and one that meets it: two
channels, two jobs, two forwards on one port and a third on another, one more authentication call than
a round needs. A window of 2 is opened again by its half; 1 makes a writer wait
after each byte. A limit of one packet a key makes every packet meet an exchange; the server's own exchange crosses
the client's. Words of 4 bits wrap for lengths that fit a message. Room for 2 bytes of a packet of 2, and chunks of 2, stop
each callback of a relay halfway; two connections are enough to share a flag. An option is decided by two lines and the
section between them, a host key by one line of each file.

One run must be found violated. It is a disagreement between the code and a line of
the repository's documentation, listed under `findings`: in `connection_forward_race` the
cancel of a disconnect runs before `startLocalForward…` publishes its runtime; nobody closes the
forward, the accept loop keeps the worker, and the deadline of the disconnect is behind a
synchronous read of the same queue.

Deadlock is not checked: a connection that is disconnected, an application that calls
nothing more, or a part whose bounded inputs are used up, really stops.

## 4. Where the code disagrees with its documentation

These show with a small change of a configuration or of an instance, and are why the passing runs are
restricted where they are.

The core:

- *Dangling clients.* `NoDanglingRuntime` is checked with `RacingKinds = {"execute"}`. An SFTP client,
  tunnel or remote forward published between the cancel and the teardown of a disconnect survives the
  `ssh_session` (`SSHCoreOpenSSHClient.m:121`), while `Docs/architecture.html:118` says "Closed-object use
  surfaces as a typed error rather than a crash." A streamed command is withdrawn in that case, but not behind a forward
  that is being served: when that ends it clears the cancel flag with the current task
  (`SSHCoreOpenSSHClient.m:221`), and the command whose block comes next is opened and stays.
- *Cancels that find nothing.* A cancel during name resolution or between two addresses finds neither task, session nor
  handle, and is lost. With `Route = "proxy"` in `ConnectionLiveness.cfg`, `DisconnectCompletes` fails: the proxy's answer
  is read without a timeout (`+Sockets.m:317`), while `Docs/architecture.html:80` says "Any blocking
  connect/read/write inside libssh wakes up." Through a ProxyJump SSHKit has no socket to shut down
  (`+Connect.m:73`), so `CallersReleased` fails for an `execute` whose command never ends.
- *Reused numbers.* `closeWithCompletion:` of a forward shuts down a copy of `activeSocket` after the unlock
  (`SSHCoreLibSSHLocalForwardRuntime.m:156`), when the worker may have closed it; `ClosesItsOwn` speaks of closes only.
  After a failed write libssh has closed the descriptor that the handle still holds (`socket.c:877`);
  `SocketsAreOwn` holds until then. `Docs/architecture.html:86` says "This avoids fd-reuse hazards."
- *Dynamic forwards.* A close that copies `activeSocket` between the accept and
  `setActiveSocket:` (`LocalForwardRuntime+Accept.m:51-73`) shuts nothing down, and the worker waits,
  without a timeout, for a client that may say nothing. `CloseCompletes` leaves them out.
- *Dropped SFTP handles.* An Objective-C handle that is dropped while a close of its client waits is closed
  after `sftp_free` (`SSHCoreLibSSHSFTPFileRuntime.m:149`); `SwiftUseIsSafe` speaks of the Swift layer, whose
  handles queue a close.
- *SFTP status.* A refused call of a transfer is reported with the status of the `sftp_close`
  that follows it (`+Transfer.m:88`).
- *Holes.* Neither side of a resume can tell a hole that a late write has left from data; `SuccessIsExact` excludes that.
- *Shells.* The events of a shell go to a callback queue that is `.global()` for `openShell`
  (`SSHConnection.swift:436`), a concurrent one, on which they may be heard out of order. `StreamIsExact` is that of a
  serial callback queue and of the `AsyncStream`. A read of a broken session fails, so that output libssh had
  buffered is dropped (`channels.c:3205`); `OutputIsExact` allows that, and a real exit status excludes it. An end of file whose flush
  times out leaves `didSendEOF` unset, and only libssh's own flag then refuses a write. A cancel that closes early may
  have Closed heard before the object is.
- *Proxies.* With credentials the client offers two methods, and rejects the one without if the proxy selects it
  (`+Sockets.m:150`, `+Sockets.m:166`), so `FailureHasReason` counts an account that only the client has as a reason.
- *Swift.* A discovery of the authentication methods that is cancelled before it starts throws `invalidState`
  (`SSHClient.swift:94`); the upload of an empty file by SCP ends in a precondition failure
  (`SCPClient.swift:24`, `SSHCommand.swift:27`).

libssh under SSHKit:

- *Remote forwards.* After a listen that timed out the next global request takes the late reply as
  its own (`channels.c:2518`). A forward on an explicit port reports port 0
  (`+Tunnels.m:228`), cancels port 0, and so keeps listening (`…RemoteForwardRuntime.m:270`). A
  connection to the port of an earlier forward is bridged to the target of the next
  (`…RemoteForwardRuntime.m:77`). `ListenIsReal` and `KnownPortStops` are stated until a request
  times out, the second for a port that is known.
- *Key exchange.* The packets that waited for an exchange all go out on its first key, past the
  limit: `packet.c:2104` checks a condition that cannot hold there.
- *Authentication.* The questions of an abandoned keyboard-interactive exchange stay, and a later
  call answers them (`auth.c:2179`); the certificates of an agent are never tried (`auth.c:1225`).
- *SFTP.* A read that times out inside a packet loses the packet's boundary for good
  (`sftp_common.c:165`).
- *Sockets.* The descriptor is made blocking once connected, so a flush may block in `send`
  without a timeout (`socket.c:403`). `FlushEnds` supposes a peer that reads.
- *Relay.* With a remote window of 0 a connector reads 0 bytes and takes that for the
  end (`packet.c:1643`); both ends may wait in a send for each other (`connector.c:618`). `EofIsReal`,
  `UpEnds` and `DownEnds` are therefore those of the instance with room for all.
- *Jump hosts.* Each disconnect of the process stops the jump threads of all connections
  (`client.c:826`), and a new connection takes the signal back before the old threads have seen it
  (`socket.c:1476`); the callbacks are freed while a thread may still call them (`SSHCoreOpenSSHClient.m:194`).
  `LoneThreadsEnd` and `OnlyLaterDisconnects` are what remains true.
- *Known hosts.* A line of the host with an unknown key type hides all others
  (`knownhosts.c:781`); negated patterns are passed over (`knownhosts.c:709`); without StrictHostKeyChecking the
  global file turns a changed key into a known one (`knownhosts.c:1207`); algorithm names beyond 256
  characters are cut off (`knownhosts.c:560`).
- *Configuration.* Errors of included files are swallowed (`config.c:269`); a ProxyJump line of a
  section that does not hold may free the jumps that were set (`config.c:483`); `UserKnownHostsFile` and `ProxyJump` of
  `~/.ssh/config` overrule what SSHKit was configured with (`config.c:1248`, `config.c:1263`), since the
  files are parsed at connect, after SSHKit has set its options.
- *Waits that are too long.* A write does not see a close that is put off behind unread output
  (`channels.c:1497`), and a request does not see the channel close (`channels.c:1879`): both end by their timeout. A
  reader of stdout alone is stopped by half a window of stderr (`channels.c:465`).

## 5. Fairness

The application owes nothing: no call, write, close or disconnect is fair. Assumed are

- weak fairness of the worker's steps. The queue is a dispatch queue, which runs what it
  has, and the calls a block makes are bounded: `configuration.timeout` (30 s unless set)
  is given to libssh (`+Connect.m:151-158`) and to the socket connect;
- except for the three waits the code does not bound: reading a proxy's answer
  (`AwaitsProxy`), a collected command whose server is there (`AwaitsCommand`) and the accept loop
  (`AwaitsClose`). These steps are fair only once the socket is shut down, the server gone or the
  forward closed;
- weak fairness of each disconnect's own thread, of the deadline's clock, of the timers, and
  of the delivery of an open's completion, which starts the read loop;
- in `ForwardRuntime`, the worker's steps (its `select` and channel polls have timeouts) and
  the shutdown of a close; what waits for a client is fair only once that client's socket is
  shut down;
- in `SFTPRuntime`, weak fairness of the worker's blocks. `SFTPTransfer` has no liveness property;
- in libssh, a thread that polls goes on, the handlers run when there is a packet, and a server that keeps
  the protocol answers: `ChannelFlow`, `ChannelRequests`, `RemoteForwards`, `SFTPQueue`,
  `Transport` and `ClientAuth`. In `ChannelRequests` the server also closes the channel of a program
  that has ended. The reads of `ChannelFlow` are strongly fair, stream by stream: the read loops of the
  runtimes come back to each of the two streams, which other packets may empty and fill meanwhile;
- in `SocketPoll`, the thread goes on, a connect is decided and the peer reads;
- in `ProxyJump`, each call of a thread ends (by its timeout at the latest), and a connect that failed
  is disconnected, as `closeSession` does; in `JumpRelay`, the thread serves whatever its poll
  reports, the jump host reads and grants its window again, and the target's session goes on with a send and
  comes back to read (strongly: its reads alternate with its sends);
- in `CommandStream`, the worker, the open's completion and the timer; packets, calls and the server owe nothing: a
  write ends by its timeout at the latest. In `ProxyRoute`, client and forward go on whenever their read can be completed or has
  met an end; another proxy or client may be silent for ever, so only what two SSHKits do, or what follows a
  client's close, is stated;
- in `SwiftSessions`, the tasks, handlers and queues go on and every connect ends; in `SCPTransfer`, the helper and
  the program go on and output is delivered.

`Buffer`, `SSHConfig` and `KnownHosts` have no liveness property. `CloseCompletes` is what entitles
`SSHKitConnection` to treat a forward whose `closed` flag is set as one that will stop; as it
excludes dynamic forwards, the core's `"localForward"` stands, where liveness is concerned, for a
plain local forward.

## 6. What is proved

TLAPS proves the following for all values of the constants, from the named assumptions on them. Each
theorem about a component goes one way: an inductive invariant, one lemma for every action or family of actions and
every part of the invariant that it disturbs, and the property as a consequence. What follows says what the
invariant has to add to the property.

**Connection** (`SSHKitConnectionProofs`, from `ConnectionAssumption`).

- `TypeCorrect`: `Spec => []TypeOK`. `TypeOK` is inductive; it says which call each `pc` serves (`self`), without
  which the updates of per-call functions would not be typed, and that a cancel in `"closeTask"` has a task.
- `SessionInvariant`: `Spec => []SessionInv`, where `SessionInv` is `TypeOK`, `StateOfBlock` (where the worker is
  determines the session state) and `HoldingsOfState` (the state determines what is held). Neither
  `ClosedReleasesAll` nor the state machine is inductive: `PublishSession` would make a Closed connection live unless
  a start block implies Connecting, and `FinishTeardown` ends in Closed only because a teardown block
  implies Closing or Closed.
- `ClosedReleases`: `Spec => []ClosedReleasesAll`, a consequence of it.
- `ImplementsLifecycle`: `Spec => RefinesLifecycle`. Each step, from a state that satisfies `SessionInv`, is a step
  of `SessionLifecycle` or a stutter; one lemma per family of actions.

**Its jobs** (the same module): `Ownership`, that is `Spec => []SessionOwnership`, and `EventOnce`, that is
`Spec => []ClosedEventOnce`, both for callers without any discipline. A state between two blocks says
nothing of the blocks that are still to come, so `OwnershipInv` counts them: a job has at most one block in the queue
that opens it, one that serves it and one that ends it (`Once`), and where that block is says how far the job has come: pending
and not begun, being opened, open, finished (`OpenInv`, `RuntimeInv`). A read, a write or a close that comes too late then
finds a runtime that is not open, and changes nothing; a forward is ended by the block that serves it and by no hop; any
other runtime by its one hop, which is also what delivers Closed (`EventInv`). `OwnerInv` says whose the session is at each
place of the worker. A lemma on `Tail` and `Append` carries `In` and `Once` from one queue to the next.

**Its teardown** (the same module): `NothingDangles`, `Discipline /\ Spec => []NoDanglingRuntime`, where `Discipline` is
`OrderedCalls` and that only commands race a disconnect. That is what `connection_start` checks, and the hypothesis is
needed: section 4 has what TLC finds when streams may race a disconnect, too. `TeardownInv`
follows the one open runtime through the disconnects: it is the current task (`TaskInv`); an open forward has its serve block
or is served (`ServedInv`); a disconnect past its look at the current task has put the close of whatever is still open into
the queue (`CloserInv`); and in the queue one of the two blocks that end a runtime lies before every teardown (`OrderInv`),
however many there are. The order holds as `Append` only adds behind and `Tail` takes from the front a block
that has just ended its runtime.

**Forwards** (`ForwardProofs`, from `TableAssumption` and `ForwardAssumption`): `ForwardSafe`, that is `Spec => []ForwardIsSafe`, and `KeepsPromise`,
`Spec => ImplementsClosable`, for any number of closes and of descriptors. `TableInv` says that the descriptors a forward owns are exactly the
listener, until the release, and the client in the worker's local variable; that `activeSocket` is that client or the one just closed, in
the step before it is cleared, so that the shutdown from another thread reaches no stranger; `AnswerInv`
that a close call is in one of three places: kept, taken out, answered.

**SFTP clients** (`SFTPRuntimeProofs`): `OwnersSafe`, that is `Spec => []OwnersAreSafe`, and `KeepsPromise`. `OwnersInv` needs three facts
about the queue: a teardown comes behind a close (`ClosesFirst`), which is why the client dies before its session; every close call waits for one
block; and an open file whose Swift handle was dropped has its close in the queue (`SwiftInv`), which is why no file runtime is left to
its `dealloc`. The objects of the Objective-C layer used alone are not in the last two claims: there the property is false, as
section 4 says.

**SFTP transfers** (`SFTPTransferProofs`): `TransferExact`, `Spec => []TransferIsExact`, and `TransferProgress`, `Spec => ProgressInOrder`, for every length
of the source, chunk, limit and number of attempts. `DestInv` says of each `pc` what the destination holds of the source: a download and a read
write at the end of it, an upload at a position that is there (`PlaceInv`); what is truncated is a part of the source until a write that an older
attempt left under way comes (`PartInv`), and a fresh upload that succeeds has overwritten that too (`FreshInv`, `LateInv`). `ReportInv` says that
the reports in the delivery queue are ordered among themselves, not before what was seen, and end at what was copied.

**Socket handles** (`ConnectionRouteProofs`, from `SocketAssumption`): `HandlesOwn`, `NoLeak`, `ReuseSafe` and, of the first and the last, `SocketsOwned`: for any number of addresses, cancels and
descriptors, nothing leaks, and until libssh closes the descriptor it was lent, a handle's number is the connection's own and no foreign socket
is reached. The inductive invariant adds where, at each `pc`, the only descriptor of the connection is (in the local variable, in the handle, or
nowhere), that libssh's copy is that one, and that a handle older than the current one is empty; that is why a late cancel is harmless. It survives the
step in which libssh closes the descriptor, after which only the leak property still follows.

**Buffers** (`SessionProofs`, from `BufferAssumption`): for any word size, any set of sizes below it that a buffer may grow to, and any data, `TypeCorrect`;
`Invented`, that nothing is read that was not put in; and `Implements`, that `Buffer` refines `ByteQueue`. The invariant is `Valid`
(`pos <= used <= allocated <= SizeMax`, and the memory is as long as the allocated size) and `Clean` (what lies between the two positions is data).
The check of a length in `buffer.c` is a sum that may wrap: `WrapProperties` says that it wraps exactly if it is less than either summand, and one lemma
per call (`Shift`, `Realloc`, `TailRoomProperties`, `PutAppends`, `PassTakes`, `CutTakes`, ...) relates the new content to the old one.
`RoomIsFilled` is the hard step: between the allocation and the taking back the buffer holds memory nobody has filled.

**Channels** (`ChannelFlowProofs`, from `FlowAssumption`): `ChannelExact`, `Spec => []ChannelIsExact`, for windows and packets of every size and any
amount of data. The two ends need not agree at any one moment: they differ by what is under way, so `FlowInv` describes the queues. Of each
account (the data of a stream, the input, either window) the packets under way carry ascending ranges of numbers that begin at what the receiver has and end at
what the sender has (`Within`), and of the data none is missing (`Covered`). That a data packet fits the window of its receiver follows from the sum
over both streams; that a stream which ended is complete, from there being no data packet behind the end of file (`ServerEndInv`). `ClosedInv` says why a channel
is closed: by the application, or by the server once nothing is unread; `SentInv` and `CallInv` which call sends the end of
file and the close, and that none sends them twice: an end of file is known as sent only at the end of its flush, and until then
the call that flushes is the only one. Memory is given up behind the server's close, which is its last packet (`EndsLast`).

**Jump hosts** (`ConnectionRouteProofs`, too, from `ProxyJumpAssumption`): `HopsStaySafe`, `JumpSpec => []HopsAreSafe`, for any number of connections and
chains of any length, all over the one flag `proxy_disconnect`. What a connection rests on is known to threads that may have failed and ended
meanwhile, so `ChainInv` orders them: a chain is started from its first hop to its last (`InOrder`), each hop starting the
next, and gets through from the last to the first (`Proceeds`, `Chained`): a thread that serves its poll loop has a next thread that is `Through`, and what is
`Through` stays so whatever becomes of its thread. `FlagInv` says that while the flag is set every connection that
has threads has been disconnected, which is why a thread that sees it was not stopped by a disconnect from before its connection began.

**Remote forwards** (`ForwardProofs`, too, from `ForwardsAssumption`): `PortsAlwaysAgree`, `RemoteSpec => []PortsAgree`, for any number of ports, forwards and
connections. Replies and channel opens share one stream, and neither a reply nor a port says which forward it is
for, so the invariant counts occurrences in queues: requests and replies under way are one while a request is pending and none
otherwise (`One`); a connection is in the stream, in `messages`, or accepted (`Once`). Until a request is abandoned, the request and the reply under way are the
current step's (`Asked`, `RequestsAreOwn`, `AnswersAreOwn`, `Answered`), which an abandoned one ends for good. That
`Count` follows `Append` and `Tail` is proved from the theorems on finite sets.

**Jobs on channels** (`ChannelRequestsProofs`, from `RequestsAssumption`): `JobsStayExact`, `JobsSpec => []JobsAreExact`, for any number of jobs and channels and
any choice of calls that time out. `ChannelInv` says of each channel, on its own, which packets of it are under way in either direction and in which
order (`In`, `Before`): the open and its answer are alone; the server's close is its last word, and the exit status
comes before it; a packet is under way only for a channel that the server holds (`HeldInv`); the status that the
program ended with is on its way or known (`ExitInv`); a request that waits is on its way up, or its reply on its way down
(`RequestInv`). `JobInv` says how much of what a job asks for was granted at each of its steps. A step changes one channel, and `SameQueue` carries
the invariant of the others.

**SFTP requests** (`SFTPRuntimeProofs`, too, from `QueueAssumption`): `AnswersStayExact`, `QueueSpec => []AnswersAreExact`, for any number of jobs,
paths, names in a directory and calls whose time is up, as long as no time is up inside a packet (`~TornReads`: section 4 has what happens
otherwise). A late answer is never recognised as such, only by its id, so `QueueInv` follows every id through the requests, the stream and the
kept responses: they come in order (`OrderInv`), and while a call waits there is exactly one place where its request or answer is, and that is the
call's own request or something that answers it (`OwnInv`, `Fits`). The stream is a sequence of whole packets but for the one that is being read
(`AlignInv`). What is under way and kept, counted in pieces of a packet, is paid for by the calls whose time was up and
the one that waits (`WeightInv`), which bounds the queue. The names that the server gave from a handle are those the list has, until the call fails
(`ListInv`); and an open handle is known to the job, to a request that closes it or to an answer that names it (`KnownInv`). The
answer of `sftp_init` has no id, so `InitInv` says that nothing else is under way then.

**Authentication** (`SessionProofs`, too, from `AuthAssumption`): `AnswersStayOwn` and `VerdictsStayOwn`, `AuthSpec => []VerdictsAreOwn`, for any methods, keys and
number of calls. A verdict does not say which request it is for, so `AuthInv` has to show that there is no choice: at most one packet is under way, in either
direction, and with the newest request and `session->auth.state` it is in one of four states, `Sent`, `Coming`, `Broken`, `Arrived` (`WireInv`). A
call that waits is of the part that is pending (`AuthCallInv`), a real answer leaves nothing pending (`ReturnInv`), and so what arrives late
finds its own call or none. `AgentInv` says that all usable keys before the agent's were refused, through timeouts and new calls. `QuestionsAreOpen` needs
a caller who makes no other call while questions are open (`OneAtATime`; the server withdraws them at any other request, and libssh does not notice): that is `AskInv`.
SSHKit is such a caller, and so are the three instances of the run; the theorem without that hypothesis says the rest of anyone. Once the
connection is lost, only the types, and that no answers are sent any more, are claimed of the session.

**Only model-checked.** `ConfigIsExact` and `HostKeysAreJudged` compare computations over lists (folds), which would need induction over data.
`RoutesAreExact`, `PollIsExact` and the temporal properties `ExchangesAgree`, `RelayIsExact`, `SCPIsExact`,
`TasksAreSound` and `StreamIsExact` are in reach, but not proved. Liveness is out of the prover's reach, as is ENABLED, and stays with TLC.
No module declares a RECURSIVE operator.

## 7. What is not modelled, and the plan

1. *Proofs* over the modules that have none: the poll loop of `SocketPoll`, the keys and numbers of
   `Transport`.
2. *Compositions*: `ChannelFlow` under `CommandStream` and under `JumpRelay`, which each have a channel of their own;
   `Transport` over `SocketPoll`.
3. *Refinement*: an abstract stream (output, then Closed) that `CommandStream` implements, and an abstract channel
   that `ChannelFlow` does.
4. *Shells*: a callback queue that is concurrent, and what of the order of events survives it.
5. *Lifetime*: `dealloc` of a client, a worker or a forward that was never closed, and
   `requestClose` and the cancellation token of the worker, which nothing calls today.

Left out of the modelled parts of libssh: X11 and agent forwarding, the asynchronous channel and SFTP
calls, callbacks SSHKit does not install, poll contexts with several descriptors, proxy commands, the
parsing and formatting of attributes and payloads, ciphers, MACs and compression, options that SSHKit
does not use, the expansion of tokens in paths.

Not planned: the larger part of `Vendor/libssh`, because SSHKit does not build or call it (server
side, GSSAPI, PKCS#11), or because it computes values and keeps no state over time (keys and their
formats, cryptography, big numbers, option storage, logging); the headers of OpenSSL; configuration
values, algorithms, key pairs, stores, logging and latency of SSHKit, for the same reason; the example
application.
