# usbredirect in TLA+

usbredirect shares a serial port over a network. A *server* agent owns a
physical port; a *client* agent offers a virtual one (a PTY with a link such as
`/dev/ttyV0`); between them runs either plain TCP or a WebSocket relay called
Tether. This directory holds a model of the program's concurrent core, the TLC
configurations that check it on small instances, and proofs, checked by TLAPS,
of what can be proved for every instance.

## The system

| component | source | state it keeps | operations | talks to |
|---|---|---|---|---|
| Direct-TCP server | `internal/agent/tcp.go:19-111` | channel `serialData` (256 chunks), map `clientConns`, one handler goroutine per client | read a chunk, accept, add, broadcast, drop, remove, write to serial | serial port, TCP clients |
| Direct-TCP client | `internal/agent/tcp.go:114-242` | retry counter and delay, channel `done`, two bridge goroutines | dial, create port, copy both ways, end | TCP server, virtual port, main |
| Tether agent | `internal/agent/tether.go` | `done`, the sender and heartbeat goroutines | dial with retry, register, pair, bridge, end on error or signal | Tether client, port, main |
| Tether WebSocket client | `internal/tether/ws.go` | `conn`, `connected`, `cancel`, mutex `mu` | Connect, SendJSON, SendData, readMessages, Close, IsConnected | Tether server; callbacks into the agent |
| Serial port control | `internal/agent/tether.go:33-77`, `internal/serial/port.go` | the device's mode, `Port.config` | set_baud, set_parity, set_databits, set_stopbits | go.bug.st/serial |
| Virtual port | `internal/virtual/virtual_linux.go`, `_darwin`, `_windows` | PTY master and link, or a com0com pair | Create, Read, Write, Close | applications, other clients of the machine |
| Process | `cmd/usbredirect/main.go:107-135` | signal channel, `errCh` | run the agent, end on its return or a signal | agent |
| Dispatch, configuration, TLS, health check, RFC 2217 tables | `agent.go`, `config.go`, `tls.go`, `rfc2217.go` | none after start | parse, open, choose a mode | |

What is hard in it:

* *One hub, many goroutines.* The server's `select` loop alone owns the map of
  clients, but is absent from its `select` during a broadcast, whose writes have
  no deadline; handlers and the acceptor wait for it on unbuffered channels. A
  client may be dropped by the hub and, a little later, reported as gone by its
  own handler.
* *One mutex, five users.* In Tether mode agent, sender, heartbeat, the reader's
  deferred `Close` and the agent's `Close` on a signal compete for `Client.mu`,
  held during whole writes; `connected` is also written without it (ws.go:266).
* *Contexts.* The reader lives under the context of the dial.
* *Ends.* The process leaves when the agent returns or a signal arrives,
  whichever it sees first; deferred calls run only in the first case.
* *Names.* A virtual port is found by a path, or by the number of a COM port, that
  other processes create and remove without asking whose it is.
* *Back-pressure.* An application that stops reading fills the PTY, which blocks
  the client, which fills the connection, which blocks the server's hub.
* *Silence.* No read has a deadline; a link that goes silent is noticed only
  through writes that nobody acknowledges.
* *Remembered state.* Each control message starts from the configuration the
  agent was given, not from the mode the port is in.

Every such place is listed with its line under `hazards` in `PROJECT.json`, with
the properties that cover it.

## The modules

| module | models | role |
|---|---|---|
| `Broadcast` | what the TCP server promises its clients | abstract specification |
| `TcpServer` | `runServerTCP` | detailed specification; implements `Broadcast` |
| `TcpClient` | `runClientTCP`, the virtual port of one process, `runAgent` | detailed specification |
| `Cable` | what server and client together promise a device and an application | abstract specification |
| `Relay` | both, over one connection, from the device to the application | composition of `TcpServer` and `TcpClient`; implements each, and `Cable` |
| `Session` | what an agent promises the Tether server | abstract specification |
| `TetherSession` | `runServerTether`/`runClientTether`, `tether.Client`, `runAgent` | detailed specification; implements `Session` |
| `VirtualPort` | `Create` and `Close` of the three platforms, between processes | detailed specification |
| `SerialControl` | the `OnControl` callback, `Reconfigure`, the parsers | detailed specification |
| `MCTcpServer`, `MCRelay`, `MCVirtualPort`, `MCSerialControl` | | instances for TLC |
| `BroadcastProofs`, `CableProofs`, `TcpServerProofs`, `TcpClientProofs`, `RelayProofs`, `TetherSessionProofs`, `VirtualPortProofs`, `SerialControlProofs` | | inductive invariants, safety, refinements |

Data is abstracted everywhere: a chunk is the number of the `Read` that returned
it, a client's chunk is the pair of client and number, a frame is its kind (and
the number of its chunk). `PROJECT.json` `map` gives the lines every definition
stands for. Definitions preceded by a comment `Mutant:` are deliberately wrong
variants of the definition that follows them, used to show that a property would
notice; no specification refers to them.

### TcpServer

The serial reader (`SerialRead`, `SerialFail`, `SerialSend`), the acceptor
(`Accept`, `AcceptFail`), the hub (`HubTake`, `HubPick`, `HubWrite`,
`HubWriteFail`, `HubAdd`, `HubRemove`) and the handlers (`ClientRead`,
`ClientSerialWrite`, `ClientReadEnd`) are the code's goroutines. `todo` is what
is left of the hub's `range`, `target` the client whose `conn.Write` it is in;
`AtSelect` says it is in neither. A send on an unbuffered channel is one action
of sender and receiver: `HubAdd` empties the acceptor's hand, `HubRemove` ends
the handler. `HasRoom` is the socket buffer: a write blocks while the peer has
`SockCap` chunks unread. Peers send (also before they are accepted), read, stop
reading, finish and break off as they like; a handler may still find received
bytes after a reset, or not.

A failed serial read ends the reader goroutine and nothing else, as in the
code: the system may go on with no source. A failed serial write loses the
chunk. `joined` is a history variable.

### TcpClient

The dial loop with its growing delay (`DialOk`, `DialFail`, `NextDelay`),
`virtual.Create` (`Create`, `CreateFail`: the old link may already be gone when
`Symlink` fails), the two bridge goroutines, the `done` channel as a sequence of
reports, and the end: the agent's `select`, its deferred calls (`AgentReturn`),
and main's `select` (`Exit`), which a signal can win. The agent asks for signals
only once it waits, and only for interrupts (tcp.go:247). The link is `old` at
the start when an earlier client was killed. `AgentReturn` may fail to remove
the link (`stuck`): nobody looks at the error of `Close`. The PTY takes `PtyCap`
chunks the application has not read, then a write to it blocks.

A read of the virtual port that fails ends its goroutine at any moment
(`UpReadFail`): with an EOF, which happens on macOS when the application closes
the port and is reported as a clean end, or with any other error. So does a
write (`DownWriteFail`). On Windows every read and write fails in this way. The
EIO of a port nobody has open makes the code wait and retry, which changes
nothing. The two ends reported as clean are therefore told apart in
`BridgeIsLossless`: one of the connection costs no chunk, one of the virtual port
may leave chunks undelivered.

A link path is configured. The multiplier is the fraction `Num/Den`, and the delay
is cut to a whole number as by `time.Duration` (`Scaled`); the rounding of the
product as a `float64`, and one beyond 2^63, are left out.

### Relay

`Relay` instantiates `TcpServer` with a single connection and `TcpClient`, and
makes each the environment of the other by substitution: what the server has
written (`Len(out)`) is what has arrived at the client, and what the client has
sent and read is what the server's peer has sent and drained. It defines none of
the two programs' steps again; it only says whose turn it is (`ByClient`,
`ByServer`), when a dial can succeed (the server's kernel completes it before the
server accepts), and how one side's end reaches the other: `ClientGone` when the
client closed the connection or its process exited, with a reset if data was left
unread; `ServerStops` when the server's process ends. A network that breaks the
connection, and further clients, are left to the two modules. Every failure of
the virtual port is in the composition, since it is a step of `TcpClient`.

So `TcpServer!Peer` and `TcpClient!World`, which those modules leave free, are
here bound to a program. `ImplementsServer` and `ImplementsClient` say that the
freedom was enough: every behaviour of the composition is one the two modules
allow, and what they were shown to do, they do together.

`Cable` forgets the processes: a device says numbered chunks, an application is
plugged in, hears and types, the device is given some of what was typed. Its two
constants are lengths. `Depth` is how far the device can get ahead of an
application that is plugged in: the channel, the socket's buffer, the PTY, and
one chunk each in the hands of the serial reader, the hub and the client's
goroutine. `Backlog` is how much of what was said before the plug went in can
still be heard: the channel and the reader's chunk, which a client finds waiting
when it joins. `ImplementsCable` maps *said* to `nRead`, *heard* to the chunks
of the server's stream the application has read, *plugged in* to membership in
`clientConns`, and *passed* to `serialOut`.

### TetherSession

One run of an agent. `agent`, `reader`, `sender` and `beat` are where its
goroutines are, `mu` who holds the mutex. A send is three steps as in the code:
lock and check (`SendLock`, or `NotConnected`), then the write (`WriteOk`,
`WriteFail`) with the unlock, and what the caller does with the outcome (`Sent`,
`Failed`). `Close` is `CloseLock` (which cancels the context) and `CloseFrame` or
`CloseSilently`. `DialCancel` is the `cancel()` in `connectWithRetry`; since
`Connect` derived the reader's context from that one, it sets `ctxDone`.
`ReaderFail` writes `connected` without the mutex: a data race in Go, so the new
value may or may not become visible.

The link is up, silent or down. On a silent link nothing arrives, but the socket
still takes writes; what is not acknowledged (`unacked`), or a write that cannot
even be buffered, makes the kernel give up in the end (`Timeout`). The reader is
in `handling` while a callback writes to the local port, and the callback may
never return. A write on a healthy link may take for ever, with the mutex held.

What the connection has taken is kept as the kind of the last frame and the
number of the last chunk, which is the state of `Session`: there a frame can
follow only what it may follow, and chunks are numbered one by one.

Server and client mode differ in what they read locally and which errors they
retry; both are `LocalRead` and `LocalFail`.

### VirtualPort

`state` is where each process is in `Create` and `Close`; on Linux and macOS these
are the steps open, remove the path, make the link, and later close the PTY,
remove the path, with other processes' steps in between. The numbers of PTYs are
the kernel's to hand out again. A process may be killed at any step, or leave by
main's `select` before its deferred `Close`: the kernel closes the PTY and the
link stays. At the start any link may be there. On Windows `Create` installs the
pair of the user's port and the next one, and `Close` removes the pair by its
bridge port. `Init` chooses the platform.

Everything that can fail does: `os.Remove` in `Create` (`ClearFail`, after which
`Symlink` fails too unless the path became free) and in `Close` (`CloseLinkFail`),
`setupc remove` (`UninstallFail`), and `setupc install`, because a port is taken or
for any other reason. The code goes on in each case: a Windows client may run
without a pair, and no application can reach it.

`lone` and `littered` are history: the clients no other client of a clashing name
has overlapped and, on Windows, whose pair was there when they started; and the
names that a killed client has left or that could not be removed.

Clients that do overlap interfere: the second removes the first one's link, and
the first one to close removes the second one's. Two neighbouring COM ports on
Windows share a port and clash in the same way. The properties say where this
stops: a client that was not overlapped keeps the name it made, whatever was left
by others; and, but for names that a killed client has left or that could not be
removed, nothing remains when all have closed, and no link leads to the PTY of
another name outside the middle of a `Close`.

Which port of the pair is the user's, the repository says in two ways: here it is
the configured one, `comPort`, and the bridge port is the next, as in `Create`;
README.md:206 and the comment at virtual_windows.go:16-24 give the configured port
to the agent and the next one to the application. Since `Read` and `Write` open
neither, nothing the models check depends on it.

### SerialControl

`line` is the device's mode, `config` what `Port` remembers, `asked` and `last`
are history. Numbers arrive as JSON's, in units of `1/Unit`; the callback cuts the
fraction off (`Truncated`), so that a number of stop bits of -1/2 is 0, one stop bit
for the library. (A number beyond the range of Go's `int` is left out.)
`Reconfigure` may fail whatever the mode is; `Valid` is what
go.bug.st/serial accepts, with `OnePointFive` telling platforms apart. That
library treats a rate or a number of data bits of 0 as "default" on some
platforms; 0 is not among the values sent.

## The runs

Passing:

| run | instance | properties |
|---|---|---|
| `TcpServer` | 2 clients, channel 1, sockets 1; a silent device and 2 chunks from each client, or 2 serial chunks, or 1 and a client's chunk | `TypeOK`; `RegisteredWhileServed`: hub, handler and socket agree on a client's life; `UplinkInOrder`: each client's data reaches the port in order and never twice; `ImplementsBroadcast`; `EveryChunkIsDelivered`; `GonePeerIsReaped` |
| `TcpClient` | 3 dials, delays 3, 4, 5 (a multiplier of 3/2), 2 chunks each way, a PTY of 1 | `TypeOK`; `OneReportEach`: `done` is never overfull, and no goroutine ends unnoticed; `BridgeIsLossless`: each way only the chunk in hand is at risk, and none at a clean end of the connection; `NothingLeftBehind`; `DelayIsBounded`; `RemoteEndEndsClient` |
| `Relay` | 1 dial, 2 chunks from the device, from the application, or 1 from each, channel, sockets and PTY of 1 | `TypeOK`; `LiveClientIsKept`; `ImplementsServer`; `ImplementsClient`; `ImplementsCable`; `DeviceReachesApplication`; `ApplicationReachesDevice`; `GoneClientIsDropped` |
| `TetherSession` | 1 dial, 2 chunks, 1 frame waiting | `TypeOK`; `ChunkGivenUpMeansOver`: the sender drops a chunk only when the session is over; `OneFrameAfterCancel`; `ConnectedMeansOpen`; `SocketIsNotLeaked`: an open socket has a reader, a closed one was closed with the close frame unless the link was lost; `ImplementsSession`; `LostLinkIsClosed`; `DataAfterCloseEndsAgent`; `StuckCallbackStopsReaderOnly`: a callback that never returns leaves the sender alone |
| `VirtualPort` | 3 processes: two of one name, the third of the next COM port; 4 PTYs | `TypeOK` with no leaked PTY; `LoneClientKeepsItsName`; `NoLitter`; `NeverAnotherPort` |
| `SerialControl` | 13 numbers, whole and not, 3 strings, 2 rates | `TypeOK`; `ConfigIsLine` |

Violated, each by a behaviour of the code that a statement of the repository
denies:

| run | statement | what happens |
|---|---|---|
| `TcpServerStalled`, `ReaderIsServed` | "serial data is broadcast to all clients" (tcp.go:17) | a client that stops reading blocks the hub in `conn.Write`; the others get nothing until it leaves |
| `TetherSelfClose`, `OnlyFaultsEndTheRelay` | "Client connects to a Tether server and relays serial data" (ws.go:68) | `connectWithRetry` cancels the dial's context after a successful dial; the reader ends at its next check and closes the session |
| `TetherReconnect`, `ReconnectsOrExits` | "Auto-reconnect: exponential backoff on disconnect" (README) | after the session ended the agent waits in its `select`; it neither dials nor exits while the local port is silent |
| `SerialBaudKept`, `BaudIsKept` | the dialogue set_baud, set_parity of the README | set_parity restores the configured rate |
| `SerialStopBits`, `StopBitsAsAsked` | "Baud/parity/stopbits remote config" (README) | 1 is passed on as the enumeration value of one and a half |
| `TcpClientSignal`, `GracefulShutdown` | "Graceful shutdown: SIGINT/SIGTERM handling" (README), "Close closes the PTY and removes the symlink" (virtual_linux.go:127) | main returns on the signal without waiting for the agent; the link stays |

### Bounds

`MaxChunks`, `MaxUp`, `MaxDown` and `MaxInbox` bound what the environment
produces; they have no counterpart in the code. `ChanCap` (256 in the code),
`SockCap`, `PtyCap` and `MaxDials` (10 and 30) are the code's or the system's own
limits made small. With a channel of one chunk and sockets of one, two chunks
fill both: the serial reader blocks on the channel while the hub blocks on a
client, and in `Relay` the chain up to an application that does not read yet is
full. (Those two chunks do not reach `Depth` and `Backlog` of the cable, which are 6
and 2 there; that the lengths hold is the theorem's. On a safety-only instance
with seven chunks both are attained: with either one less, `ImplementsCable`
fails.) Two clients are enough for one to join or leave while the other is being
written to, and the properties speak of one client or of a pair. Three dials
with delays 3, 4, 5 give retries, a product that is not whole, a delay that is cut
at the maximum, and a give-up. 
`TcpServer` and `Relay` couple the bounds of the two directions, which otherwise
multiply: `LoadedSpec` restricts `Next` by `Load`. In `MCTcpServer` either the
device is silent and both clients send two chunks, so that the handlers' writes to
the serial port alternate in every order; or the device says two chunks; or it says
one and one client sends one. In `MCRelay` there are two chunks in all: two down, two up, or
one each way. Only the device, the clients and the application are held back so,
of whose sending no fairness is assumed. `MCRelay` also leaves out a link that
cannot be removed, which neither side sees, and SIGTERM, after which the client
does what it may do after an interrupt too; both are in the run `TcpClient`.

One frame that waits while another is handled distinguishes "at most one
after the cancellation" from "all": a frame that was read makes room for the
next. The passing tether run has one dial, which fails or not; a second attempt is
in the instances of `TetherSelfClose` and `TetherReconnect`. Two processes of one
name and a third of a clashing one make every overlap of `Create` and `Close`, and
one PTY more than processes lets numbers be handed out again or not. The theorems
below remove these bounds for the safety properties and refinements they cover.

`CHECK_DEADLOCK FALSE` is set where the system may rest: a server whose device
and clients are silent, a process that has exited. `SerialControl` and `VirtualPort` never
rest.

### Fairness

* `TcpServer`: goroutines that can run do (`WF`). Go's `select` chooses at random
  among the ready cases, and a goroutine blocked on an unbuffered channel is such
  a case each time the hub returns to its `select`, so these get `SF`. Serial
  writes return. That a peer reads what it is sent is no property of the program:
  it is the separate assumption `PeersRead`, which `TcpServerStalled` drops for
  one client.
* `TcpClient`: a dial ends, the goroutine that reads the connection runs, and the
  application reads the virtual port, without which that goroutine stays in its
  write. Nothing is assumed of the goroutine that reads the PTY, nor that a read
  or a write of the virtual port ever fails.
* `Relay`: the fairness of both, on the actions of the composition; the kernel
  tells the server of a client that is gone; the acceptor accepts. `PeersRead` is
  not assumed any more: it follows from the client's goroutine and the
  application. No goroutine is assumed to meet a failure of the virtual port
  (`UpGoesOn`, `DownGoesOn`). `ApplicationReachesDevice` ends at the serial port:
  every chunk that was typed is tried there, also after one whose write failed.
* `TetherSession`: goroutines run; Go's mutex hands over to a starved waiter
  after 1 ms, hence `SF` on the lock, also for the heartbeat's tick; writes on a
  failed link return; the kernel gives up on data that is never acknowledged
  (`Timeout`). Neither callbacks nor writes on a healthy link are assumed to
  return: `LostLinkIsClosed` names the first as its premise,
  `StuckCallbackStopsReaderOnly` the second. Only
  `TetherReconnect` adds `ServerReads`, so that its counterexample does not rest
  on a stuck write.
* Nothing is assumed of ports, links, signals and the Tether server.

## The proofs

`BroadcastProofs`. `BInv` adds to `TypeOK`, `Contiguous` and `Lockstep` only that
a client that has not joined was given nothing: a delivery appends the successor
of the last chunk the client was given, and a round begins only when all members
have been given the last.

`CableProofs`. On any cable what is heard is gapless, what is passed on is in order
and never twice, and the device is ahead of a listener by `Depth` at most, this
last if `Backlog` does not exceed `Depth` (else one could plug in too late).

`TcpServerProofs`. `RegisteredWhileServed` and `TypeOK` are not enough for the
refinement: one has to know that the chunk in the hub's hand is the next one of
every client still to be visited. The inductive invariant `HubInv` adds *Fresh*
(a connection not yet added has an untouched stream), *Queue* (the channel holds
the consecutive numbers between `taken` and `nRead`, so the copy of the read
buffer matters) and *Round* (a member's stream ends at `taken`, or one before it
exactly while the hub has it in `todo` or as its `target`).
`UplinkInOrder` has an invariant of its own, *Written*: what a client's handler
has written to the port is at most what it has read, and less while it holds a
chunk; and it has read no more than was sent. Each step lemma has one case per
action. `Implements` maps every step to `Join`, `Begin`, `Deliver`, `Leave` or a
stutter of `Broadcast`.

Two results about the server have no run of their own. `StreamsContiguous`
carries the theorems about `Broadcast` back through that refinement: each
client's stream is a run of consecutive chunks from its joining on.
`SlowestPaces` adds to *Queue* and *Round* that a socket holds at most what its
peer has yet to read and `SockCap` (*Buffered*): the serial reader is never ahead
of what any member has read by more than a socket, the channel and two chunks. It
is the bound on the server's memory, and the reason why one slow client slows
all of them.

`RelayProofs`. The refinements need that no step of the composition gives one
side an environment its module does not have. The invariant `Inv` relates the two
ends of the connection: the client sends no more than the application wrote
(*Counted*), the server's kernel learns of the client's end only after it, and the
client's kernel of the server's only when its process has stopped (*Ends*), so
that the server's handler closes a connection after the client hangs up (*Kept*,
which is `LiveClientIsKept`). With it each step of the client is a `Peer` step or a
stutter of `TcpServer` (`ServerImplemented`), and each step of the server a `World`
step or a stutter of `TcpClient` (`ClientImplemented`). The theorems of the two
proof modules then hold here, by instantiation of those modules under the same
substitutions; `SidesHold` collects them. They are what `CableImplemented` needs,
and no further invariant of the composition:

* a chunk can be said to a plugged-in application only within `Depth`, because
  *Queue*, *Round*, *Buffered* and the client's `PacedByApplication` each bound
  one stretch of the way;
* what the application reads next is `joined` plus its number, by
  `StreamsContiguous`, and the server's writing meanwhile changes no chunk the
  application has read;
* what the handler writes to the port is larger than all it wrote before and was
  typed, by *Written* and the client's types.

Every other step is a `Plug`, an `Unplug`, a `Type` or a stutter. `RelayIsACable`
then takes the theorems of `CableProofs` back through the refinement and states
them of the variables of the two programs.

`TetherSessionProofs`. The invariant ties the mutex to the goroutine that holds
it (*Holder*), the position of the agent to what has been written (*Progress*),
the reader to the frames handled since the cancellation (*Late*), and a cleared
`connected` and a chunk given up to the end of the session (*Over*). With it,
`ConnectedMeansOpen`, `OneFrameAfterCancel`, `SocketIsNotLeaked` and
`ChunkGivenUpMeansOver` hold for all values of the constants, and every step is
one of `Session` or a stutter (`Implements`): a goroutine that has the mutex in
`WriteOk` finds the session open and, but for the registration, begun.

`VirtualPortProofs`. `LoneClientKeepsItsName` is inductive only with *Lonely* (the
rivals of a lone client are idle, so nobody can remove its link). *Paired* says
that a pair is of a client that runs, or was left by one that was killed or could
not remove it. `NoLitter` and `NeverAnotherPort`
follow from *Explained* (outside littered names a link leads to a running client
of that name, or one of that name is closing) and *Unique* (a PTY belongs to one
client). All for any set of clients, names and PTYs.

`TcpClientProofs`. `NothingLeftBehind` needs to know what is open at each stage of
the agent (*Opened*): the process ends only with a returned agent or a signal, and
the agent returns through its deferred calls or before it opened anything.
`OneReportEach` is inductive with the types and *Started* (before
the bridge there is no goroutine and no report). `BridgeIsLossless` is made of
*Carried* (what was read and what was written differ by the chunk in hand) and
*Clean* (a clean end of the connection was reported after the last chunk; the
other report that may be clean is that of the virtual port's end). `ApplicationPaces` is the
client's part of the back-pressure: what it has read is ahead of the application by
the PTY and one chunk. `DelayIsBounded` rests on a lemma about one step of the
delay; it needs a first delay within the maximum and a multiplier of at least
one, whole or not, neither of which the code checks.

`SerialControlProofs`. Every message is one `Reconfigure` of a mode that differs
from the operator's in the setting it names (`OneReconfigure`); the two
theorems follow from that.

Assumptions: only those of the `ASSUME`s of the modules (distinct `NoConn`,
capacities of at least one, natural bounds).

Model-checked only: all liveness, which is out of the prover's reach under
fairness. Every safety property and every refinement a passing run checks is also
a theorem; `StreamsContiguous`, `SlowestPaces`, `ApplicationPaces` and
`RelayIsACable` are theorems only.

## Not modelled

* *Configuration* (`config.go`): the library viper merges defaults, file,
  environment and flags once, before any goroutine starts.
* *TLS, health check*: `DialTLS` and `ListenTLS` have no caller; `HealthCheck` is a
  single dial. *RFC 2217* constants are tables whose only user, `PortConfig`, has
  no caller; `ReconfigureFromPortConfig`, `bridgeSerialTCP`, `bridgeVirtualTCP`,
  `waitForSignal`, `DisconnectSerial`, `SendControl`, `InstallCom0com` and
  `ListInstalledPorts` have none either.
* *A bridge over com0com.* On Windows `Read` and `Write` return an error whatever
  they are given, so a client ends at its first one (`UpReadFail` or
  `DownWriteFail`, which may come at any time); how the bridge was meant to work
  cannot be told from the code.
* *An unknown parity* is applied as none (tether.go:49), and `SetParity` does so.
  Nothing in the repository says what should happen, so no property is about it.
* *The PTY's line discipline.* The port is never put into raw mode, so until an
  application does that the kernel may edit and echo what passes. The models see
  chunks, not bytes.
* *TCP keep-alive*, which Go switches on, is one more way for a silent link to be
  noticed; `TetherSession` shows that it is not needed.
* *The delay between dials* in Tether mode: the same lines as in the TCP client,
  where `NextDelay` models them.
* *Other clients in `Relay`*: it has one connection. What clients do to each other
  is checked in `TcpServer`.
