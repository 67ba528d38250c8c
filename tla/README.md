# ShareSerial: a TLA+ model of the shared serial port

ShareSerial shares one serial port between several people. A server reads the port
and broadcasts what it reads to every connected client; what clients send goes to the
port, under an exclusive write lock. Clients present the connection as a virtual
terminal (Linux) or through a local TCP proxy (Windows).

This directory holds TLA+ modules of its packages and programs, TLC configurations that
check them on small instances, and proofs of the main safety properties for instances of
any size. `PROJECT.json` lists components, runs, mutants, the source lines of each
definition, findings, hazards and theorems.

    tlc -config TCPServerMC.cfg TCPServerMC   # any run of PROJECT.json
    tlapm ArbiterProofs.tla                   # any module whose name ends in Proofs

## 1. The system

| Component | State | Operations | Talks to | What is hard |
|---|---|---|---|---|
| Arbiter (`pkg/arbiter`) | owner, locked, timeout, expiry timer | Acquire, Release, ForceRelease, ExtendTimeout; timer callback | called by the server's handlers | callbacks that run after their timer was stopped or replaced |
| TCP server, write path (`internal/server`) | registry of clients by remote address, running, listener | Start, acceptLoop, handleClient per connection, Stop | arbiter, serial port | check-then-write, retries, disconnection at any point, Stop against accept, reuse of addresses |
| TCP server, broadcast path (`internal/server`, `cmd/server`, `cmd/server-windows`) | channel of 1024 chunks, snapshot, sockets | port reader, Broadcast, broadcastLoop, shutdown | serial port, clients | a blocked socket, a full channel, closing the channel, a registry keyed by address |
| Reconnect manager and Linux client (`internal/reconnect`, `cmd/client`) | connection, connected, retry count, two forwarding goroutines | Connect, Disconnect, AutoReconnect, forwarding, shutdown | server, PTY | a new connection against a reader of the old one; giving up; a blocked error channel |
| Windows client (`cmd/client-windows`) | connection, running, retry count | Start, connect, reconnectLoop, monitorLoop, Stop | server, local proxy | noticing that the connection is lost; a dial against Stop; when to give up |
| Local proxy (`internal/localproxy`) | local connections, buffer of up to 1 MB, remote connection | acceptLoop, handler per connection, remoteReadLoop, UpdateRemoteConnection, Stop | remote and local connections | a new connection against a chunk being published, the limits of the buffer, remote write under the mutex, Stop against accept |
| Broadcaster (`internal/broadcast`) | clients, input channel | AddClient, RemoveClient, Broadcast, Close | only its tests use it | one goroutine per chunk and client, Close against Broadcast |
| Serial ports (`pkg/serial`) | port, open; mock buffers; Handler with its own write owner | Open, Close, Read, Write | library | a Read that keeps the mutex while the device is silent; the owner changing during a write |
| Virtual terminal (`internal/pty`) | master, slave, link; mock queue | Create, Read, Write, Close | kernel | Close against a blocked Read, the link a crashed client leaves, two clients at one path |
| Configuration (`internal/config`) | - | load, search order, defaults | YAML | zero values that mean something |
| Log parser, CLI, report generator | - | filters and limits; options and answers; verdicts of tests | - | boundaries of ranges, verdicts that go to the wrong test |

What makes each correct:

- Arbiter: at most one owner; a held lock always ends; nobody but the owner and the
  owner's lease ends it.
- Write path: input reaches the port in order, one client at a time; a client that is
  gone holds no lock and is in no list; its handler returns if its write to the port does.
- Broadcast path: each registered client sees the stream without gap, repetition or
  reordering, independently of the others; shutdown ends the loop.
- Linux and Windows clients: there is one connection at a time; after a loss, and after
  a connection was closed by mistake, which the Linux client can do, the client is
  connected again or ends; it gives up when its limit of attempts says so.
- Local proxy: what a local connection sees is one piece of the remote stream; Stop
  leaves no local program connected.
- Serial ports and terminal: a write returns although the device is silent; the lock that
  was checked is the lock in force; Close ends the Read; the link leads to the client
  that runs.
- Configuration and tools: a flag before the first readable file before the default;
  exactly the lines that a filter names; no test with another's verdict.

## 2. What is modelled

    WriteLock            the abstract lock: Grant, Drop
       ^ implemented by (ImplementsWriteLock; theorem ArbiterIsWriteLock)
    Arbiter              locked, owner, the timers and their callbacks
       ^ used as Lock!Acquire, Lock!ForceRelease, Lock!Fire, Lock!Expire
    TCPServer            connections, acceptLoop, handleClient, Stop
    AtomicBroadcast      the abstract broadcast: Produce, Distribute, Subscribe, Forget,
                         Unsubscribe
       ^ implemented by (ImplementsAtomicBroadcast; theorem PathBroadcastsAtomically)
    BroadcastPath        port reader, channel, broadcastLoop, sockets, shutdown
    LinuxClient          reconnect manager, forwarding goroutines, main
    Config               search order, defaults and flags (operators)
    LocalProxy           the proxy's goroutines and local connections
       ^ extended, with Config, by
    WindowsClient        main, ConnectionManager, monitorLoop over the proxy
    Broadcaster          the Broadcaster and its mock clients
    SerialPort           the ports of the platforms, the mock port, the Handler
    Terminal             the virtual terminals of clients that share a path
    LogParser            the loops of the filters, of Stats and of ParseLines
    CommandLine          the loops over the arguments; the lines of an answer
    TestReport           the loop over the test logs and the summary
    Startup              main's settings (extends Config); the port number as text
       ^ the last seven and the Arbiter, side by side in PackagesMC

**Arbiter.** Each method body runs under `a.mu`, so a successful call is one step; a
call that fails changes nothing and is no step. `timer` maps every timer object of the
runtime to "idle", "armed" or "fired", with the `clientID` its closure captured;
`expireTimer` is the one `a.expireTimer` points to. `Fire` belongs to the runtime and
`Expire` is the callback once it has `a.mu`. Between the two any call may come, and
`Timer.Stop` has no effect on a fired timer: that is where the hard behaviours are.
Durations are left out: a timer may fire at any time after it was armed. An empty
`clientID`, which no program passes, is not modelled.

**TCPServer.** `pc` of each connection follows `handleClient`: reading, trying to
acquire (`Attempt`, one step per `Acquire`, the sleep between two being the gap between
two steps), checking the owner, writing, and the end of the connection in two steps
under `s.mu` (`Disconnect`, `Cleanup`), between which the lease may expire. `Read`
includes the first `Owner()` call, which commutes with the read. `accepted` is the
connection between `Accept` and its registration. Connections have addresses, and two
may have the same one, one after the other: the registry is keyed by address. A client
may dial, send and hang up at any time; a hang-up may lose what is in flight. The
serial port is set before `Start` and is never nil, as in both server programs. A chunk
is what one `conn.Read` returns. A `serial.Write` writes it, or the beginning of it, or
fails and the chunk is lost: the server ignores the result.

**BroadcastPath.** The port reader looks at `stopChan`, blocks in `port.Read`, and
sends on the channel; `broadcastLoop` takes a chunk with a snapshot of the clients and
writes to one after the other in an arbitrary order, blocking on a full socket. A
client may stall: it keeps its connection and never reads again. As in `acceptLoop`, a
connection is accepted in one step (`Accept`, `accepting`) and registered in another
(`Register`), whether or not the server still runs by then. Connections have addresses
(`id`), and both `Register` and `Remove`, the end of a handler, act on the entry of the
address: a connection from an address whose earlier connection has just ended may lose its
entry to the earlier one's handler, and stays open without getting anything. What else a
handler does is in `TCPServer`. `Signal` and `Stop` are the two steps of main's shutdown.
A send on the closed channel sets `panicked`, which ends every step. The end of the process
after `Stop` is not modelled, so a step that is possible after `Stop` is one the process may
take before main returns.
`AtomicBroadcast` is what the path promises: each chunk is given, in one step, to all who
are members at that moment, which one is from its registration to its end, unless the end
of another connection from the same address makes the server forget it (`Forget`).
`BroadcastPath` implements it with a client's stream taken as what it has read, what is in
its socket and, while it is connected, the chunk that the loop still owes it.

**LinuxClient.** `auto` is the goroutine of `AutoReconnect`, `down` and `up` the two
forwarding goroutines, `main` the rest of main after the first `Connect`. Each remembers
the connection it got from `GetConnection` (`downConn`, `upConn`) across its next steps,
while `Disconnect` closes whatever `r.conn` is by then: the reader of an old connection
may close the new one, and the model has those steps. `auto = "dial"` stands for
`tryReconnect` holding `r.mu`, which the steps that call the manager wait for. A
connection breaks at any time, a dial succeeds or fails, and the application on the PTY
may never read. A failed read of the PTY ends the goroutine that reads it (`UpReadFails`),
and the client goes on without. `misses` counts failed dials for `RetryWithinLimit` and
decides nothing. The data has no content. Negative values of `max_retry`, which mean no
limit, are not modelled.

**Config.** A configuration is a record of the structures' fields; a file is a record of
whether it can be read, whether it parses and what it says, which is a value for some of
the fields. `Unmarshal` fills the others with zeros, so that `ApplyClientDefaults` and
`ApplyDefaults` cannot tell a zero that the file says from a field it does not have.
`LoadClient`, `LoadServer` and the flag handling of the four mains are operators;
YAML itself is left out.

**LocalProxy.** `acceptor`, `handler` and `reader` are where `acceptLoop`, each
`handleLocalConnection` and `remoteReadLoop` are; `writers` are the goroutines that each
carry one chunk to one local connection. `Register`, `TakeBuffer` and `SendBuffer` are the
three steps in which a new connection enters the map, the buffer is copied and the copy
is sent; `Publish` may come between any two. `mu` names the handler that is inside `p.mu`
while it writes to the server, the only place where the mutex is held across a call that
may block. What a local program has received is a set of chunk numbers, since the writing
goroutines keep no order. Sizes are counted in chunks.

**WindowsClient.** main from its settings (through `ClientSettings` of Config, with the
user's `max_retry` in a file, or a file without one, and flag as `choice`) to its return,
`ConnectionManager` with `connect`, `reconnectLoop` and `Stop`, and `monitorLoop`, over
the proxy. A dial is made inside `cm.mu` and is one step with its outcome. `reconnectLoop`
looks at `stopChan` and at `running` and `conn` in two steps and dials in a third.
`ServerLoses` ends a connection from outside at any time. `monitorLoop`'s update of the
proxy is in the model; no run reaches it, because `conn` does not change while the proxy
runs. `failed` counts failed dials for `RetryAsConfigured` and decides nothing.

**Broadcaster.** One goroutine per subscriber and chunk (`sending`), the subscribers'
queues and what they have received, limited to the newest chunks. A `Broadcast` that meets
the closed channel panics, which ends the process.

**SerialPort.** `kind` is the platform. The one difference between the real ports is
whether `Read` keeps `r.mu` while the library waits for the device. On top of it the
`Handler`, whose `h.mu` is held over `port.Write`. The library is external: a Read of a
closed port returns, a Write does not wait for a Read.

**Terminal.** Clients with the same link path, as the default makes them. `CreatePTY`
removes what is at the path and makes the link, with a mock as fall-back at each step
that may fail; `ClosePTY` removes whatever is at the path; `Crash` leaves it. The master
is opened in blocking mode, so a Read that waits ends with the last holder of the slave:
the client itself or a user's program (`attached`).

**LogParser, CommandLine, TestReport, Startup.** The code that runs alone. Its loops are
machines whose steps are the rounds: `NextLine` brings one line of a log to every filter,
`SentCommand`, `Scan` and `Execute` are the two passes over the arguments of the CLI,
`SplitLines` takes one byte of an answer, `ParseTestLog` one line that `go test -v` may
write next and `AddSuite` the end of a log, `ParsePort` and `intToString` one digit. A
verdict names its test, which the parser does not look at; `OpenTests` has the test that
may get one. The inputs grow as the machine runs, so TLC sees every input up to a length
and the theorems, by induction over the steps, inputs of any length. A log line is the
second in its brackets, its level and whether it has the keyword; a kept line is its
place. A port number has at most 18 characters, because 19 digits may overflow an `int`.
The invariants compare the result so far with a reference definition that says nothing of
loops. The filter of `handleLog` is the loop of `Filter`.

Definitions in these modules that are named for a fault (`AcquireUnchecked`,
`DisconnectKeepsLock`, ...) are mutants, not part of the specification.

## 3. Runs

| Run | Instance | Shows |
|---|---|---|
| `arbiter_stale_timer` | 2 clients, 3 timers | violates `ReplacedTimerHarmless` |
| `server` | 3 connections of 2 addresses, 2 timers, 1 retry, 2 chunks | `TypeOK`, `OwnerHasHandler`, `NoGhostClient`, `RegisteredUnlessReused`, `PortOrder`, `LateClientAtMostOne`, `LockLostByOwner`, `DisconnectCleansUp` |
| `server_two_writers` | the same | violates `OneWriter` |
| `broadcast` | 2 connections, of one address or two, a channel of 2 chunks, sockets of 1, 3 chunks | `TypeOK`, `GaplessStream`, `ImplementsAtomicBroadcast`, `ReadChunkArrives`, `ShutdownEndsLoop` |
| `broadcast_stalled` | the same | violates `OthersUnaffected` |
| `broadcast_panic` | the same | violates `NoSendAfterClose` |
| `linux_client` | 3 connections, `max_retry` 2 | `TypeOK`, `OneConnection`, `RetryWithinLimit`, `BrokenIsReplaced`, `ShutdownEnds` |
| `linux_client_gives_up` | 2 connections, `max_retry` 2 | violates `GivesUpAtLimit` |
| `windows_client` | 1 local program, 3 chunks, a buffer of 2 of which 1 is sent; `max_retry` not set, and a flag of -1 over a file of 2 | `TypeOK`, `NoGap`, `StopLeavesNoConnection`, `RetryAsConfigured`, `ShutdownEnds` |
| `windows_client_lost` | the same without chunks | violates `LostConnectionReplaced` |
| `windows_client_retry_zero` | no chunks; a file that says `max_retry: 0`, as the shipped one | violates `UnlimitedIsNone` |
| `packages` | 3 clients and 4 timers of the arbiter; 2 subscribers, 2 chunks and queues of 1; 4 kinds of port, 2 writers; 2 terminals; 2 log lines and a day of 4 seconds, 4 arguments of 5 words, an answer of 5 bytes, 5 lines in up to 3 test logs, 3 files, 2 characters of a port | `TypeOK`, `LeaseRuns`, `NoOrphanTimer`, `NoStrangerEndsLease`, `LeaseEnds`, `ImplementsWriteLock`, `FiltersAreRight`, `OptionsAsGiven`, `LinesAreTheAnswer`, `VerdictsAreRight`, `SettingsPrecedence`, `OncePerClient`, `OwnerWrites`, `LinkUnlessShared`, `BroadcastArrives`, `PortWriteReturns`, `ReadEnds` |

Bounds. In `packages`, four timers let the callbacks of three replaced timers, of one
client or of several, wait at once beside the current timer. More add nothing new, since a
callback knows nothing but its client, and there are three clients: an owner, one who
waits and one who comes later. In `server`, two connections of one address and one of
another give both contention for the lock and reuse of an address; two chunks are enough
for one client's input to overtake or repeat itself and for two clients to compete; one
retry has a first, a middle and a last attempt (the code has ten, `MaxRetry`, and the
proofs hold for any). In `broadcast`, three chunks fill the socket of a stalled client,
the loop that waits for it and the channel or the reader's hands; a channel of two holds
chunks that the loop drains after `Stop`, so that a client registered after `Stop` can
stall and block the loop (it can: `Overlooked` in `ShutdownEndsLoop`). Two connections of
one address are an old one and the one whose entry its handler deletes; two of different
addresses are a slow client and another one. In `linux_client` the third connection
replaces one that the reader of the first closed by mistake; when the connections are used
up, dials fail, as they do when the server is gone. Since `errChan` holds one error and
main takes one, three attempts can fail in all, which is one more than `max_retry`. In
`windows_client` one local program meets the publication of a chunk before, between and
after the three steps of its registration; three chunks fill the buffer of two and leave
one that no later connection gets, and a buffer of two of which one is sent tells "recent"
from "all". Local connections meet each other only at `p.mu`; two of them make a state
space beyond what TLC finishes in minutes, so `NoGap` for several is the proof's, and
`ShutdownEnds` is checked for one. Ten retries, the default, are counted out in full. In
`packages`, two subscribers and two chunks let a chunk overtake another and a slow
subscriber meet a fast one, with every queue full; two writers are a lock and someone who
wants it; two terminals are a client and its successor, or two at one path; a day of four
seconds has ranges within a day, over midnight, of one second and of the whole day, and
two lines can be out of order; four arguments hold two options with values, also twice the
same; five lines hold a test with a subtest, its verdict and a package result, or two
logs. `CHECK_DEADLOCK FALSE` stands where the system may really stop: all connections used
up, the server stopped, or the process dead.

Fairness. A goroutine that can run does eventually (weak fairness per handler except for
its write to the serial port, for `Register`, for the reader's `Select` and `Broadcast`,
for `broadcastLoop`); an armed timer that is not stopped fires and its callback gets the
mutex; once `stopChan` is closed main calls `Stop`; a client that has not stalled reads.
In `LinuxClient` a read of a connection that has ended returns, and every dial returns, as
TCP's timeouts have it; `device.Write` and writes to an open connection need not. The
mutexes are Go's, which do not starve a waiter: strong fairness for `StopProxy`, for a
subscriber's `Send` (Go's channels serve waiting senders in turn) and for `PortWrite`,
weak fairness for the loops. In `WindowsClient` local programs read, and it is an
assumption that the server reads its input: a handler of the server reads on only when its
`serial.Write` returns. In `TCPServer` nothing is assumed of that write.
`DisconnectCleansUp` has as its premise that no handler stays in it for ever, which on
Linux the port's own module supports (`PortWriteReturns`) and which on Windows and macOS a
silent device can break, since `Read` keeps the mutex that `Write` needs. Nothing is
assumed about clients sending or hanging up, local programs typing, the serial port
delivering, or anybody starting or signalling. The lease's fairness is per timer object,
so that a lease extended for ever is not forced to end: `LeaseEnds` says that a lease ends
or is extended.

### Findings

- *A replaced timer still ends the lease* (`arbiter_stale_timer`). The timer fires, its
  callback waits for `a.mu`, `ExtendTimeout` returns nil, and the callback, which
  compares only the client, frees the lock. The same happens to a client that released
  and acquired again. `NoStrangerEndsLease` shows that it never hits another client.
- *Two clients write at once* (`server_two_writers`). No write renews the 30 s lease,
  and the owner is checked before the write, not during it.
- *One stalled client stops the broadcast* (`broadcast_stalled`). The writes are
  sequential and have no deadline. `ShutdownEndsLoop` shows that `Stop` still gets
  through, because the loop holds no mutex while it writes.
- *A panic at shutdown* (`broadcast_panic`). The port reader is past its look at
  `stopChan` when `Stop` closes the channel it sends on.
- *One failed attempt ends the Linux client* (`linux_client_gives_up`). main ends on the
  first error of `AutoReconnect`, not when `max_retry` is reached.
- *The Windows client does not reconnect* (`windows_client_lost`). `reconnectLoop` dials
  while `cm.conn` is nil, and only `Stop` makes it nil; the proxy reads the dead
  connection again every 100 ms and ignores failed writes.
- *A limit of 0 is one of 10* (`windows_client_retry_zero`). The shipped `client.yaml` says
  `max_retry: 0` and calls it infinite; `ApplyClientDefaults` takes every 0 for a field that
  nobody has set, so the default counts and not the file. A negative number does take the
  limit away. The Linux client uses the same settings.

Met while modelling, and visible in the definitions or in a property's exceptions:

- `Stop` of the server leaves the one connection that was between `Accept` and its
  registration (`LateClientAtMostOne` says that it is no more than one).
- The server forgets an open client when the handler of an earlier connection from its
  address ends after the client was registered: it deletes by address (`Forgotten` in
  `ReadChunkArrives`, `Forget` in `AtomicBroadcast`).
- A client that `Stop` does not close, because it is registered afterwards or was
  forgotten, can keep `broadcastLoop` in a write by not reading (`Overlooked` in
  `ShutdownEndsLoop`).
- Every 0 or empty string that a file says becomes the default, and `enabled` and
  `auto_release`, TRUE by default, are FALSE when a file does not say them (`AsFiled`
  leaves both open).
- The Linux client's reader may close the connection that has just replaced the one it
  read from (`Disconnect`); `BrokenIsReplaced` shows that it is replaced in turn.
- A failed read of the PTY ends the goroutine that forwards what is typed, and nothing
  tells main (`UpReadFails`).
- In a report, the verdict of a test with subtests goes to the last subtest, and the test
  itself stays without one.
- Once the proxy's buffer is full nothing is added to it: a new connection gets old data
  (`k > BufferCap` in `NoGap`).
- On Windows and macOS a write waits behind a Read of a silent device (the exception in
  `PortWriteReturns`); `docs/DEBUGGING-LESSONS.md` tells how Linux was cured of it.
- `Close` of the real PTY ends a waiting Read only when no user's program has the slave
  open (the premise of `ReadEnds`).
- Two clients at the default link path take the link from each other (`shared` in
  `LinkUnlessShared`).
- The CLI's requests are input like any other to the server, which writes them to the
  serial port. `handleSend` looks for the last `--command`, `cmd/cli` sends the first.
- `getConfigSource` of the Windows server names other paths than `LoadServer` reads.
- The status of a report does not look at the status of its suites: a package that fails
  without a failing test is not seen.

## 4. Proofs

For any clients, connections, addresses, timers, retries and amount of input, from the
assumptions on the constants alone (the "none" values are not members of their sets,
`IdOf` and `IdChoices` map connections to addresses, the bounds are naturals):

- `ArbiterProofs`. `Inv` is `TypeOK`, `LeaseRuns` and `NoOrphanTimer` together. The second
  is not inductive without the third: `Rearm` and `StopTimer` touch the current timer
  only, and what they do to the lease is known only if no other timer is armed. Two lemmas
  say what stopping and re-arming do to the timers; then one step per action. Theorems:
  `TypeCorrect`, `HeldLockHasLease`, `NoTimerIsOrphaned`, `StrangersNeverEndLease`, and
  the refinement `ArbiterIsWriteLock`, step by step: an `Acquire` is a `Grant`, a freeing
  step a `Drop`, everything else a stutter.
- `TCPServerProofs`. `ServerTypeCorrect` needs that a handler past its read has a chunk.
  `OwnerAlwaysHasHandler` and `NoClientIsGhost` rest on three lemmas: a step that moves
  nothing, a handler that goes on, a handler that leaves. `ServerRunsArbiter` shows that
  the server's steps are arbiter steps in the lock's variables, so the arbiter's theorems
  hold inside the server; `ServerLeaseRuns` is the instance that matters.
  `StoppedServerKeepsAtMostOne` needs that the listener is open exactly while the server
  runs (`LInv`); `ServedIsRegisteredUnlessReused` that a connection nobody has made is
  neither accepted nor served (`RInv`); `PortKeepsOrder` that the chunk in a handler's
  hands comes after all that its connection has written and before all it will read
  (`OInv`), whether or not its writes succeed. `LockIsLostByItsOwnerOnly` is the server's
  own use of the lock: `Cleanup` is reached only by a handler whose connection has ended
  (`EndedInCleanup`), and what it releases is the lock of its own address, however stale
  its look at the owner is by then.
- `BroadcastProofs`. `GaplessStream` says nothing of where the next chunk comes from, so
  it is not inductive. `Inv` adds that the loop's chunk, the channel and the reader's
  chunk are consecutive (`InOrder`); that the client being written to is not also in the
  rest of the snapshot (`Snapshot`); that a connection that is not registered yet is owed
  and was sent nothing (`Registry`); that two open connections never have one address
  (`Addresses`); and that what a client has read, followed by its socket, is a run of
  consecutive numbers which, while it is connected and registered or still owed a chunk,
  ends with the loop's chunk, or just before it while the loop owes it (`Piece`). Three
  lemmas say how a run of numbers grows and shrinks; then one lemma per action. Theorems:
  `PathTypeCorrect`, `StreamsAreGapless`, and the refinement `PathBroadcastsAtomically`:
  `Dequeue` is a `Distribute`, because every member is in the snapshot and the loop owes
  nobody an older chunk; writing to a client moves the chunk from what it is owed to its
  socket and is a stutter; a connection that ends loses the end of its stream. `Register`
  is a `Subscribe`, because by `Addresses` the entry it replaces belongs to a connection
  that has ended; `Remove` is a `Forget` when the entry it deletes belongs to an open one,
  and `Addresses` leaves no second such; otherwise both stutter.
- `LinuxClientProofs`. A new connection keeps `OneConnection` only because the old one is
  closed by then. `Inv` adds that `connected` is false exactly when `r.conn` is closed
  (`Flag`), that it is false from the check to the end of the dial (`Attempting`), that
  the goroutines' connections were made (`Made`), and that a dial in progress has been
  counted (`Counted`). Theorems: `ClientTypeCorrect`, `ClientHasOneConnection`,
  `DialsAreLimited`.

- `LocalProxyProofs` and `WindowsClientProofs`. `NoGap` speaks of connections that have
  been sent the buffer and is not inductive: the step that sends it has to know what the
  connection has by then. `PInv` follows a connection on its way: before it is registered
  nothing is meant for it (`Fresh`); after that, what it has live is closed upwards
  (`OnlyLive` in `Copying`); the buffer holds the first chunks published, in order
  (`Buffered`), so that the copy completes what came live (`BufferCompletes`); and later
  chunks keep it complete (`Served`). The proxy has no specification of its own, so its
  module has lemmas about its steps, and `WindowsClientProofs` composes them with the
  client: `CInv` adds that one connection at most is ever made before the end, that a dial
  is in progress only while there is none (`Connected`), and that the loop's count is the
  number of failures (`Counted`). `LimitIsAsked` computes the limit through
  `ClientSettings` for all integers: what was asked for, and 10 for a 0 in the file
  (`TheLimit`), of which `RetryAsConfigured` claims nothing. Theorems:
  `WindowsClientTypes`, `LocalProgramsMissNothing`, `StoppedClientIsDisconnected`,
  `RetriesAreAsConfigured`.
- `PackageProofs`. `HandlerWritesForOwner`: whoever is in `port.Write` holds `h.mu`
  (`HandlerInv`), and changing the owner takes it. `LinkLeadsToOwner`: without sharing one
  terminal at a time is open (`LinkInv`), so no other Close removes its link.
  `ChunkReachesSubscriberOnce`: a chunk is in one place on its way to a subscriber, the
  input, `process`, its goroutine, the queue or the buffer, and never comes back (`BcInv`).
- `ToolProofs`, for inputs of any length, a day of at least one second, the level words of
  the code and port numbers that fit an `int`. `LogIsFilteredRight`: each result is the
  increasing list of the places it should hold (`KeepRound`), the numbers of `Stats` add
  up to the entries, and `InRange` is distance on the clock modulo the day (`ClockRange`).
  `ArgumentsAreUnderstood`: `ArgsInv` says what the loops have found before the place they
  have come to; that a value is passed over or looked at again makes no difference because
  it is no option (`GivenStep`). `AnswerIsCutIntoItsLines`: the lines that are cut off
  cover the answer up to `start`, and there is no newline from there on (`AnswerInv`).
  `ReportCountsRight`: while a test is open the last case waits for its verdict and is
  that of the test or of a subtest, and after the start of a test and nothing but output
  it is the case of that test (`Waiting`); so a verdict never overwrites one, never finds
  an empty list, and reaches its own test or a subtest; lines are counted by cardinality
  over all logs (`Counted`). `SettingsHavePrecedence`: `First` finds the first readable
  file, and the fields are compared one by one, as the file says them or as `Unmarshal`
  leaves them; the digits are undone by division in the order in which multiplication put
  them there (`DigitInv`).

Only model-checked: liveness (`LeaseEnds`, `DisconnectCleansUp`, `ReadChunkArrives`,
`ShutdownEndsLoop`, `BrokenIsReplaced`, `ShutdownEnds` of both clients, `BroadcastArrives`,
`PortWriteReturns`, `ReadEnds`), which the prover does not reach. Every other property that
a passing run checks is the statement of a theorem.

## 5. Not modelled

- Pure I/O: port scanning (`scanner_*.go`), the calls that
  set up a PTY, YAML, `SetTermios` and `SetConfig`, logging, the macOS PTY
  (`real_pty_darwin.go`, the Linux one with other system calls).
- `ConnectionMonitor` of the Windows server: it counts and prints, nothing reads it.
- Test doubles that only record (`MockServer`); report pages, simulations and scripts:
  layout, test and release tooling without a protocol.
- `ClearBuffer` of the proxy, `AcquireWriteLock` and `ReleaseWriteLock` of the server: no
  program calls them. `ExtendTimeout` is in the arbiter, and no program calls it while it
  serves.
- A half-closed connection (a client that shuts down its sending side only): no client of
  the project does that.

## 6. Plan

Done: every component with a protocol, and the proofs of section 4. Left, should the code
change:

1. With a client that notices a lost connection, `LostConnectionReplaced` becomes a
   property of `windows_client`, and `monitorLoop`'s update of the proxy gets a run.
2. The composition of a client with `TCPServer` and `BroadcastPath` over one network: end
   to end, from a keystroke to the port and back. The instances are large; what is assumed
   of the other side is stated with each module's fairness.
3. `AtomicBroadcast` for the other two broadcasts: `Broadcaster` and `LocalProxy`, with a
   goroutine per chunk, keep no order, so it would take a version with sets for streams.
