---------------------------- MODULE TetherSession ----------------------------
(***************************************************************************)
(* One run of an agent in tether mode: runServerTether and runClientTether *)
(* of internal/agent/tether.go over the Client of internal/tether/ws.go,   *)
(* inside the process of cmd/usbredirect/main.go.                          *)
(*                                                                         *)
(* Goroutines: the agent, which dials, registers, asks to be paired and    *)
(* then waits for the end; the reader (readMessages), which runs the       *)
(* callbacks; the sender, which copies the local port (serial port or      *)
(* virtual port) to the connection; the heartbeat; and main, which leaves  *)
(* when the agent returns or a signal arrives.  The mutex Client.mu is     *)
(* held during a whole WriteMessage, and a write may block; a callback     *)
(* writes to the local port inside the reader, and may block too.          *)
(*                                                                         *)
(* A chunk is the number of its Read.  What the callbacks do to the serial *)
(* port is in SerialControl.                                               *)
(***************************************************************************)
EXTENDS Naturals

CONSTANTS
  AutoPair,     \* cfg.Server.RemoteClient is set
  MaxDials,     \* attempts of connectWithRetry (30 in the code)
  MaxChunks,    \* bound: chunks the local port produces
  MaxInbox      \* bound: frames that have arrived and wait to be read

ASSUME TetherSessionAssumption ==
  /\ AutoPair \in BOOLEAN
  /\ MaxDials \in Nat \ {0} /\ MaxChunks \in Nat /\ MaxInbox \in Nat

VARIABLES
  agent,        \* the goroutine of Agent.Run
  attempts,     \* failed dials
  reader, sender, beat,
  done,         \* the sender has put its end into the channel done
  mu,           \* the goroutine that holds Client.mu, or "free"
  connected,    \* Client.connected
  ctxDone,      \* the reader's context is cancelled
  conn,         \* the socket on our side
  link,         \* up; silent, when nothing arrives any more; down, when the
                \* kernel knows
  unacked,      \* what was written to a silent link waits to be acknowledged
  inbox,        \* frames that have arrived and were not read
  late,         \* history: frames read since the context was cancelled
  nRead,        \* chunks read from the local port
  last, uplink, \* the last frame the connection took, and the last chunk
  signal,       \* the signal the process received, or "none"
  notified,     \* the agent's own signal channel holds it
  process

goVars == <<agent, reader, sender, beat, done>>
clientVars == <<mu, connected, ctxDone, conn>>
netVars == <<link, unacked, inbox>>
sentVars == <<last, uplink>>
countVars == <<attempts, late, nRead>>
osVars == <<signal, notified, process>>
vars == <<goVars, clientVars, netVars, sentVars, countVars, osVars>>

Writers == {"agent", "sender", "beat"}      \* they call SendJSON or SendData
Closers == {"agent", "reader"}              \* they call Close

TypeOK ==
  /\ agent \in {"dialing", "dialed", "registering", "pairing", "bridging",
                "closing", "returned"}
  /\ reader \in {"none", "checking", "reading", "handling", "closing", "ended"}
  /\ sender \in {"none", "reading", "sending", "ended"}
  /\ beat \in {"none", "idle", "beating"}
  /\ mu \in {"free"} \cup Writers \cup Closers
  /\ conn \in {"none", "open", "closed"}
  /\ link \in {"up", "silent", "down"}
  /\ done \in BOOLEAN /\ connected \in BOOLEAN /\ ctxDone \in BOOLEAN
  /\ unacked \in BOOLEAN /\ notified \in BOOLEAN
  /\ attempts \in 0 .. MaxDials /\ inbox \in 0 .. MaxInbox
  /\ late \in Nat /\ nRead \in 0 .. MaxChunks /\ uplink \in 0 .. nRead
  /\ last \in {"none", "register", "connect", "data", "heartbeat", "close"}
  /\ signal \in {"none", "int", "term"} /\ process \in {"running", "exited"}

Init ==
  /\ agent = "dialing" /\ reader = "none" /\ sender = "none" /\ beat = "none"
  /\ done = FALSE /\ mu = "free" /\ connected = FALSE /\ ctxDone = FALSE
  /\ conn = "none" /\ link = "up" /\ unacked = FALSE /\ inbox = 0
  /\ last = "none" /\ uplink = 0 /\ attempts = 0 /\ late = 0 /\ nRead = 0
  /\ signal = "none" /\ notified = FALSE /\ process = "running"

Running == process = "running"

-----------------------------------------------------------------------------
(* connectWithRetry and Connect.  Nothing else wants the mutex meanwhile. *)

\* Mutant: one attempt too many (i <= maxRetries).
MoreDialsLate == attempts <= MaxDials

MoreDials == attempts < MaxDials

DialOk ==
  /\ Running /\ agent = "dialing" /\ MoreDials
  /\ agent' = "dialed" /\ reader' = "checking"
  /\ conn' = "open" /\ connected' = TRUE
  /\ UNCHANGED <<sender, beat, done, mu, ctxDone, netVars, sentVars, countVars,
                 osVars>>

DialFail ==
  /\ Running /\ agent = "dialing" /\ MoreDials
  /\ attempts' = attempts + 1
  /\ agent' = IF MoreDials' THEN "dialing" ELSE "returned"
  /\ UNCHANGED <<reader, sender, beat, done, clientVars, netVars, sentVars, late,
                 nRead, osVars>>

\* cancel() of the dial's context, from which Connect derived the reader's.
DialCancel ==
  /\ Running /\ agent = "dialed"
  /\ agent' = "registering" /\ ctxDone' = TRUE
  /\ UNCHANGED <<reader, sender, beat, done, mu, connected, conn, netVars,
                 sentVars, countVars, osVars>>

-----------------------------------------------------------------------------
(* SendJSON and SendData: lock, check connected, write, unlock. *)

Wants(w) ==
  \/ w = "agent" /\ agent \in {"registering", "pairing"}
  \/ w = "sender" /\ sender = "sending"
  \/ w = "beat" /\ beat = "beating"

\* What the connection has taken after w's frame.
Took(w) ==
  /\ last' = IF w = "sender" THEN "data"
             ELSE IF w = "beat" THEN "heartbeat"
             ELSE IF agent = "registering" THEN "register" ELSE "connect"
  /\ uplink' = IF w = "sender" THEN nRead ELSE uplink

\* The bridge: the sender and the heartbeat start, the agent waits.
StartBridge == agent' = "bridging" /\ sender' = "reading" /\ beat' = "idle"

\* Mutants: a failed registration is only logged, as a failed pairing is; the
\* sender logs the error and reads the next chunk; it ends without a word.
RegisterFailedGoesOn == StartBridge
SendFailedGoesOn == sender' = "reading" /\ UNCHANGED done
SendFailedSilently == sender' = "ended" /\ UNCHANGED done

RegisterFailed == agent' = "returned" /\ UNCHANGED <<sender, beat>>
SendFailed == sender' = "ended" /\ done' = TRUE

\* What the caller does once its frame is written.
Sent(w) ==
  \/ /\ w = "agent" /\ UNCHANGED done
     /\ IF agent = "registering" /\ AutoPair
        THEN agent' = "pairing" /\ UNCHANGED <<sender, beat>>
        ELSE StartBridge
  \/ w = "sender" /\ sender' = "reading" /\ UNCHANGED <<agent, beat, done>>
  \/ w = "beat" /\ beat' = "idle" /\ UNCHANGED <<agent, sender, done>>

\* What it does with an error: registering gives up, pairing is only logged,
\* the sender reports on done and ends, the heartbeat does not look.
Failed(w) ==
  \/ /\ w = "agent" /\ UNCHANGED done
     /\ IF agent = "registering" THEN RegisterFailed ELSE StartBridge
  \/ w = "sender" /\ SendFailed /\ UNCHANGED <<agent, beat>>
  \/ w = "beat" /\ beat' = "idle" /\ UNCHANGED <<agent, sender, done>>

SendLock(w) ==
  /\ Running /\ Wants(w) /\ mu = "free" /\ connected
  /\ mu' = w
  /\ UNCHANGED <<goVars, connected, ctxDone, conn, netVars, sentVars, countVars,
                 osVars>>

NotConnected(w) ==
  /\ Running /\ Wants(w) /\ mu = "free" /\ ~ connected
  /\ Failed(w)
  /\ UNCHANGED <<reader, clientVars, netVars, sentVars, countVars, osVars>>

\* A write to a silent or failed link may still be accepted by the socket.
WriteOk(w) ==
  /\ Running /\ Wants(w) /\ mu = w /\ conn = "open"
  /\ Took(w) /\ Sent(w)
  /\ unacked' = (unacked \/ link = "silent")
  /\ mu' = "free"
  /\ UNCHANGED <<reader, connected, ctxDone, conn, link, inbox, countVars, osVars>>

WriteFail(w) ==
  /\ Running /\ Wants(w) /\ mu = w
  /\ link = "down" \/ conn = "closed"
  /\ Failed(w)
  /\ mu' = "free"
  /\ UNCHANGED <<reader, connected, ctxDone, conn, netVars, sentVars, countVars,
                 osVars>>

-----------------------------------------------------------------------------
(* readMessages. *)

\* Mutant: the callbacks run with the mutex held.
ReaderMovesLocked(from, to) ==
  /\ Running /\ reader = from /\ reader' = to
  /\ to = "handling" => mu = "free"
  /\ mu' = IF to = "handling" THEN "reader"
           ELSE IF from = "handling" THEN "free" ELSE mu
  /\ UNCHANGED <<agent, sender, beat, done, ctxDone, conn, link, unacked,
                 sentVars, attempts, nRead, osVars>>

ReaderMoves(from, to) ==
  /\ Running /\ reader = from /\ reader' = to
  /\ UNCHANGED <<agent, sender, beat, done, mu, ctxDone, conn, link, unacked,
                 sentVars, attempts, nRead, osVars>>

\* Mutant: the reader never looks at its context.
AfterCheckBlind == "reading"

\* Mutant: it returns without its deferred Close.
AfterCheckReturns == IF ctxDone THEN "ended" ELSE "reading"

AfterCheck == IF ctxDone THEN "closing" ELSE "reading"

\* Mutant: a cancelled reader marks the session as over before it closes it.
ReaderCheckClearsFlag ==
  /\ ReaderMoves("checking", AfterCheck) /\ UNCHANGED <<inbox, late>>
  /\ connected' = (connected /\ ~ ctxDone)

ReaderCheck ==
  ReaderMoves("checking", AfterCheck) /\ UNCHANGED <<connected, inbox, late>>

\* A frame that has arrived can be read whatever became of the connection.
ReaderRead ==
  /\ ReaderMoves("reading", "handling")
  /\ inbox > 0 /\ inbox' = inbox - 1
  /\ late' = IF ctxDone THEN late + 1 ELSE late
  /\ UNCHANGED connected

\* The callback returns: the port has taken the data.
ReaderHandled ==
  ReaderMoves("handling", "checking") /\ UNCHANGED <<connected, inbox, late>>

\* c.connected = false without the mutex: a data race, so that a goroutine
\* which locks afterwards may or may not see it before Close stores it again.
ReaderFail ==
  /\ ReaderMoves("reading", "closing")
  /\ link = "down" \/ conn = "closed"
  /\ connected' \in {connected, FALSE}
  /\ UNCHANGED <<inbox, late>>

-----------------------------------------------------------------------------
(* Close, called by the reader as it ends and by the agent on a signal. *)

Closing(w) ==
  \/ w = "reader" /\ reader = "closing"
  \/ w = "agent" /\ agent = "closing"

\* cancel(), before anything else.
CloseLock(w) ==
  /\ Running /\ Closing(w) /\ mu = "free"
  /\ mu' = w /\ ctxDone' = TRUE
  /\ UNCHANGED <<goVars, connected, conn, netVars, sentVars, countVars, osVars>>

\* Mutant: Close leaves connected set.
CloseConnKeepsFlag(w) ==
  /\ conn' = "closed" /\ mu' = "free" /\ UNCHANGED <<connected, ctxDone>>
  /\ \/ w = "reader" /\ reader' = "ended" /\ UNCHANGED agent
     \/ w = "agent" /\ agent' = "returned" /\ UNCHANGED reader
  /\ UNCHANGED <<sender, beat, done, netVars, uplink, countVars, osVars>>

\* conn.Close(), the flag, the unlock and the return.
CloseConn(w) ==
  /\ conn' = "closed" /\ connected' = FALSE /\ mu' = "free" /\ UNCHANGED ctxDone
  /\ \/ w = "reader" /\ reader' = "ended" /\ UNCHANGED agent
     \/ w = "agent" /\ agent' = "returned" /\ UNCHANGED reader
  /\ UNCHANGED <<sender, beat, done, netVars, uplink, countVars, osVars>>

CloseFrame(w) ==
  /\ Running /\ Closing(w) /\ mu = w /\ conn = "open"
  /\ last' = "close"
  /\ CloseConn(w)

\* The close frame cannot be written; its error is dropped.
CloseSilently(w) ==
  /\ Running /\ Closing(w) /\ mu = w
  /\ link = "down" \/ conn = "closed"
  /\ CloseConn(w) /\ UNCHANGED last

-----------------------------------------------------------------------------
(* The sender and the heartbeat. *)

\* Read returned bytes.  (In client mode a retryable error only makes it wait.)
LocalRead ==
  /\ Running /\ sender = "reading" /\ nRead < MaxChunks
  /\ nRead' = nRead + 1 /\ sender' = "sending"
  /\ UNCHANGED <<agent, reader, beat, done, clientVars, netVars, sentVars,
                 attempts, late, osVars>>

LocalFail ==
  /\ Running /\ sender = "reading"
  /\ SendFailed
  /\ UNCHANGED <<agent, reader, beat, clientVars, netVars, sentVars, countVars,
                 osVars>>

\* Mutant: the ticker's case never sends.
AfterTickIdle == "idle"

AfterTick == IF connected THEN "beating" ELSE "idle"

\* IsConnected takes the mutex for a moment.
Tick ==
  /\ Running /\ beat = "idle" /\ mu = "free"
  /\ beat' = AfterTick
  /\ UNCHANGED <<agent, reader, sender, done, clientVars, netVars, sentVars,
                 countVars, osVars>>

-----------------------------------------------------------------------------
(* The end: the agent's select, main's select, and the signals. *)

AgentEnds(to) ==
  /\ Running /\ agent = "bridging" /\ agent' = to
  /\ UNCHANGED <<reader, sender, beat, done, clientVars, netVars, sentVars,
                 countVars, osVars>>

AgentDone == done /\ AgentEnds("returned")

AgentSignal == notified /\ AgentEnds("closing")

\* main is notified of both signals, the agent of an interrupt once it waits.
Signal(s) ==
  /\ Running /\ signal = "none"
  /\ signal' = s /\ notified' = (s = "int" /\ agent = "bridging")
  /\ UNCHANGED <<goVars, clientVars, netVars, sentVars, countVars, process>>

MainLeaves == agent = "returned" \/ signal # "none"

\* main returns, and with it every goroutine ends where it is.
Exit ==
  /\ Running /\ MainLeaves
  /\ process' = "exited"
  /\ UNCHANGED <<goVars, clientVars, netVars, sentVars, countVars, signal, notified>>

-----------------------------------------------------------------------------
(* The Tether server and the network. *)

NetMoves ==
  /\ Running /\ conn = "open"
  /\ UNCHANGED <<goVars, clientVars, sentVars, countVars, osVars>>

ServerSend ==
  /\ NetMoves /\ link = "up" /\ inbox < MaxInbox
  /\ inbox' = inbox + 1 /\ UNCHANGED <<link, unacked>>

\* The server or the network ends the connection, or goes silent.
LinkFail ==
  /\ NetMoves /\ link = "up"
  /\ link' \in {"silent", "down"} /\ UNCHANGED <<unacked, inbox>>

\* The kernel gives up on what nobody acknowledges, or on a write it cannot
\* even buffer.
Timeout ==
  /\ NetMoves /\ link = "silent"
  /\ unacked \/ mu # "free"
  /\ link' = "down" /\ unacked' = FALSE /\ UNCHANGED inbox

-----------------------------------------------------------------------------
Dial == DialOk \/ DialFail

Send(w) == SendLock(w) \/ NotConnected(w)

Reader == ReaderCheck \/ ReaderRead \/ ReaderFail

Next ==
  \/ Dial \/ DialCancel
  \/ \E w \in Writers : Send(w) \/ WriteOk(w) \/ WriteFail(w)
  \/ Reader \/ ReaderHandled
  \/ \E w \in Closers : CloseLock(w) \/ CloseFrame(w) \/ CloseSilently(w)
  \/ LocalRead \/ LocalFail \/ Tick
  \/ AgentDone \/ AgentSignal \/ Exit
  \/ \E s \in {"int", "term"} : Signal(s)
  \/ ServerSend \/ LinkFail \/ Timeout

Spec == Init /\ [][Next]_vars

(***************************************************************************)
(* Fairness.  Goroutines are scheduled; a dial ends (10 s timeout); the    *)
(* mutex is fair, so a goroutine that waits for it gets it, the heartbeat  *)
(* included; a write ends when the link is down; the kernel gives up on a  *)
(* link that acknowledges nothing.  Neither a callback nor a write to a    *)
(* link that is up need ever return: that they do is in ServerReads.       *)
(***************************************************************************)
FairSpec ==
  /\ Spec
  /\ WF_vars(Dial) /\ WF_vars(DialCancel) /\ WF_vars(Reader) /\ SF_vars(Tick)
  /\ \A w \in Writers : SF_vars(Send(w)) /\ WF_vars(WriteFail(w))
  /\ \A w \in Closers : SF_vars(CloseLock(w)) /\ WF_vars(CloseSilently(w))
  /\ WF_vars(AgentDone) /\ WF_vars(AgentSignal) /\ WF_vars(Exit) /\ WF_vars(Timeout)

ServerReads ==
  /\ WF_vars(ReaderHandled)
  /\ \A w \in Writers : WF_vars(WriteOk(w))
  /\ \A w \in Closers : WF_vars(CloseFrame(w))

FairServerSpec == FairSpec /\ ServerReads

-----------------------------------------------------------------------------
(***************************************************************************)
(* Whichever goroutines write, and in whichever order they get the mutex,  *)
(* the Tether server sees a session: the registration first, the chunks in *)
(* order and without a gap between heartbeats, nothing after the close.    *)
(***************************************************************************)
S == INSTANCE Session

ImplementsSession == S!Spec

(***************************************************************************)
(* The sender gives up a chunk it read only when the session is over: the  *)
(* kernel knows that the link is down, or Close has ended the socket.  It  *)
(* never meets a cleared connected on a session that works, in spite of    *)
(* the reader's unlocked store, and reads nothing after the chunk that     *)
(* failed.  (This bounds what the agent drops, not what is lost: chunks    *)
(* the socket took on a link that is silent or down are lost with it.)     *)
(***************************************************************************)
ChunkGivenUpMeansOver ==
  nRead # uplink =>
    /\ nRead = uplink + 1
    /\ \/ sender = "sending"
       \/ sender = "ended" /\ (link = "down" \/ conn = "closed")

(***************************************************************************)
(* Once the session is cancelled the reader hands at most the one frame it *)
(* was already waiting for to the callbacks, however many have arrived.    *)
(***************************************************************************)
OneFrameAfterCancel == late <= 1

(***************************************************************************)
(* Client.connected never outlives the socket: a goroutine that sees it    *)
(* under the mutex writes to a connection that no Close has ended, in      *)
(* spite of the reader's unlocked store and of Close being called twice.   *)
(***************************************************************************)
ConnectedMeansOpen ==
  /\ connected => conn = "open"
  /\ \A w \in Writers : mu = w /\ Wants(w) => conn = "open"

(***************************************************************************)
(* However the session ends, a socket that is open still has a reader that *)
(* will close it, and one that is closed was closed with the close frame   *)
(* unless the link was already lost: the partner is not left to a timeout, *)
(* whichever of the two calls of Close comes first.                        *)
(***************************************************************************)
SocketIsNotLeaked ==
  /\ conn = "open" => reader \notin {"none", "ended"}
  /\ conn = "closed" => last = "close" \/ link = "down"

(***************************************************************************)
(* A connection that failed is closed, also one that went silent, with no  *)
(* read deadline and no look at the heartbeat's answer: the heartbeat that *)
(* is never acknowledged ends it.  The reader then fails, and the mutex    *)
(* its Close needs is given back by every writer caught in a write.  Only  *)
(* a callback that never returns, on a port nobody reads, prevents it.     *)
(***************************************************************************)
CallbacksReturn == []<>(reader # "handling")

LostLinkIsClosed ==
  CallbacksReturn => (link # "up" ~> (conn = "closed" \/ process = "exited"))

(***************************************************************************)
(* A chunk that meets a closed session ends the agent: the sender learns   *)
(* that it is not connected and its report on done reaches the select.     *)
(***************************************************************************)
DataAfterCloseEndsAgent ==
  (conn = "closed" /\ sender = "sending") ~> process = "exited"

(***************************************************************************)
(* A callback that never returns, on a port that nobody reads, holds up    *)
(* the reader alone: a chunk of the other direction is still sent or given *)
(* up, if no write to the socket lasts for ever, whatever the heartbeat    *)
(* and Close do with the mutex meanwhile.                                  *)
(***************************************************************************)
WritesReturn == []<>~(\E g \in Writers \cup Closers : mu = g /\ (Wants(g) \/ Closing(g)))

StuckCallbackStopsReaderOnly ==
  WritesReturn => (sender = "sending" ~> (sender # "sending" \/ process = "exited"))

(***************************************************************************)
(* The client "connects to a Tether server and relays serial data": the    *)
(* relay goes on until the link fails or a signal asks for the end.        *)
(***************************************************************************)
OnlyFaultsEndTheRelay == conn = "closed" => link # "up" \/ signal # "none"

(***************************************************************************)
(* "Auto-reconnect: exponential backoff on disconnect": an agent whose     *)
(* session ended dials again, or at least ends and can be started again.   *)
(***************************************************************************)
ReconnectsOrExits == conn = "closed" ~> (agent = "dialing" \/ process = "exited")
=============================================================================
