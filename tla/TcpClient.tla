------------------------------ MODULE TcpClient ------------------------------
(***************************************************************************)
(* The direct-TCP client: runClientTCP of internal/agent/tcp.go with the   *)
(* virtual port of internal/virtual/virtual_linux.go, inside the process   *)
(* of cmd/usbredirect/main.go.                                             *)
(*                                                                         *)
(* The agent dials with a growing delay, makes a PTY and the link          *)
(* applications open it by, and bridges it to the connection with two      *)
(* goroutines: up reads the PTY and writes the connection, down the other  *)
(* way round.  The first to end reports on the channel done and ends the   *)
(* agent, whose deferred calls then close the port and the connection.     *)
(***************************************************************************)
EXTENDS Integers, Sequences

CONSTANTS
  MaxDials,     \* attempts to connect (10 in the code)
  Initial,      \* cfg.Server.Reconnect.Initial
  Max,          \* cfg.Server.Reconnect.Max
  Num, Den,     \* cfg.Server.Reconnect.Multiplier, the fraction Num / Den
  PtyCap,       \* chunks the PTY takes while no application reads it
  MaxUp,        \* bound: chunks the application writes
  MaxDown       \* bound: chunks the server sends

ASSUME TcpClientAssumption ==
  /\ MaxDials \in Nat \ {0}
  /\ Initial \in Nat /\ Max \in Nat /\ Num \in Nat /\ Den \in Nat \ {0}
  /\ PtyCap \in Nat \ {0} /\ MaxUp \in Nat /\ MaxDown \in Nat

VARIABLES
  agent,        \* runClientTCP
  attempts, delay,
  sock,         \* the client's end of the connection
  remote,       \* the server's end
  pty,          \* the PTY master
  link,         \* the virtual port's name: absent, an old one, ours, or ours
                \* and stuck: os.Remove failed
  appSent,      \* chunks the application has written to the virtual port
  up, down,     \* the bridge goroutines
  done,         \* the channel of their reports
  upRead, sent, \* chunks read from the PTY, and written to the connection
  arrived, downRead, given,  \* chunks sent by the server, read, and written
                             \* to the PTY
  appRead,      \* chunks the application has read from the virtual port
  signal, notified, process

dialVars == <<attempts, delay>>
portVars == <<sock, pty, link>>
upVars == <<up, upRead, sent>>
downVars == <<down, downRead, given>>
worldVars == <<remote, appSent, appRead, arrived>>
osVars == <<signal, notified, process>>
vars == <<agent, dialVars, portVars, upVars, downVars, worldVars, osVars, done>>

TypeOK ==
  /\ agent \in {"dialing", "connected", "bridging", "leaving", "returned"}
  /\ attempts \in 0 .. MaxDials /\ delay \in Nat
  /\ sock \in {"none", "open", "closed"} /\ remote \in {"up", "fin", "reset"}
  /\ pty \in {"none", "open", "closed"} /\ link \in {"none", "old", "ours", "stuck"}
  /\ up \in {"none", "reading", "writing", "ended"}
  /\ down \in {"none", "reading", "writing", "ended"}
  /\ done \in Seq({"nil", "error"})
  /\ appSent \in 0 .. MaxUp /\ upRead \in 0 .. appSent
  /\ sent \in 0 .. upRead
  /\ arrived \in 0 .. MaxDown /\ downRead \in 0 .. arrived
  /\ given \in 0 .. downRead /\ appRead \in 0 .. given
  /\ signal \in {"none", "int", "term"} /\ notified \in BOOLEAN
  /\ process \in {"running", "exited"}

\* An earlier client that was killed may have left its link behind.
Init ==
  /\ agent = "dialing" /\ attempts = 0 /\ delay = Initial
  /\ sock = "none" /\ remote = "up"
  /\ pty = "none" /\ link \in {"none", "old"}
  /\ up = "none" /\ down = "none" /\ done = << >>
  /\ appSent = 0 /\ upRead = 0 /\ sent = 0
  /\ arrived = 0 /\ downRead = 0 /\ given = 0 /\ appRead = 0
  /\ signal = "none" /\ notified = FALSE /\ process = "running"

Running == process = "running"

-----------------------------------------------------------------------------
(* Connecting. *)

\* time.Duration(float64(delay) * Multiplier), cut down to a whole number.
Scaled(d) == (d * Num) \div Den

\* Mutant: the product is not cut down to the maximum.
NextDelayUncapped(d) == IF d >= Max THEN d ELSE Scaled(d)

NextDelay(d) ==
  IF d >= Max THEN d
  ELSE IF Scaled(d) > Max THEN Max ELSE Scaled(d)

DialOk ==
  /\ Running /\ agent = "dialing" /\ attempts < MaxDials
  /\ sock' = "open"
  /\ agent' = "connected"
  /\ UNCHANGED <<dialVars, pty, link, upVars, downVars, worldVars, osVars, done>>

\* Mutant: one attempt too many (i <= maxRetries).
DialFailOnceMore ==
  /\ Running /\ agent = "dialing" /\ attempts <= MaxDials
  /\ attempts' = attempts + 1
  /\ delay' = NextDelay(delay)
  /\ agent' = IF attempts' > MaxDials THEN "returned" ELSE "dialing"
  /\ UNCHANGED <<portVars, upVars, downVars, worldVars, osVars, done>>

\* The dial failed; the delay passes, after the last attempt too.
DialFail ==
  /\ Running /\ agent = "dialing" /\ attempts < MaxDials
  /\ attempts' = attempts + 1
  /\ delay' = NextDelay(delay)
  /\ agent' = IF attempts' = MaxDials THEN "returned" ELSE "dialing"
  /\ UNCHANGED <<portVars, upVars, downVars, worldVars, osVars, done>>

\* virtual.Create: the PTY, and the link in the place of whatever was there.
Create ==
  /\ Running /\ agent = "connected"
  /\ pty' = "open" /\ link' = "ours"
  /\ up' = "reading" /\ down' = "reading"
  /\ agent' = "bridging"
  /\ UNCHANGED <<dialVars, sock, upRead, sent, downRead, given, worldVars, osVars,
                 done>>

\* It fails before the old link is removed, or at the symlink after that.
CreateFail ==
  /\ Running /\ agent = "connected"
  /\ link' \in {link, "none"}
  /\ sock' = "closed"
  /\ agent' = "returned"
  /\ UNCHANGED <<dialVars, pty, upVars, downVars, worldVars, osVars, done>>

-----------------------------------------------------------------------------
(* The bridge. *)

Report(r) == done' = Append(done, r)

\* The EIO of a port nobody has open is retried, and changes nothing.
UpRead ==
  /\ Running /\ up = "reading"
  /\ pty = "open" /\ upRead < appSent
  /\ upRead' = upRead + 1
  /\ up' = "writing"
  /\ UNCHANGED <<agent, dialVars, portVars, sent, downVars, worldVars, osVars, done>>

\* EOF, when an application has closed the port (macOS), is a clean end; any
\* other error is not, and may come at any time (on Windows every Read fails).
UpReadFail ==
  /\ Running /\ up = "reading"
  /\ \/ pty = "open" /\ upRead = appSent /\ Report("nil")
     \/ Report("error")
  /\ up' = "ended"
  /\ UNCHANGED <<agent, dialVars, portVars, upRead, sent, downVars, worldVars,
                 osVars>>

\* Mutant: the error of conn.Write is ignored.
UpWriteUnchecked ==
  /\ Running /\ up = "writing"
  /\ sent' = sent + 1
  /\ up' = "reading"
  /\ UNCHANGED <<agent, dialVars, portVars, upRead, downVars, worldVars, osVars, done>>

UpWrite ==
  /\ Running /\ up = "writing"
  /\ sock = "open" /\ remote # "reset"
  /\ sent' = sent + 1
  /\ up' = "reading"
  /\ UNCHANGED <<agent, dialVars, portVars, upRead, downVars, worldVars, osVars, done>>

\* Mutant: a failed conn.Write is passed over (continue for return).
UpWriteFailGoesOn ==
  /\ Running /\ up = "writing"
  /\ sock = "closed" \/ remote = "reset"
  /\ up' = "reading"
  /\ UNCHANGED <<agent, dialVars, portVars, upRead, sent, downVars, worldVars,
                 osVars, done>>

UpWriteFail ==
  /\ Running /\ up = "writing"
  /\ sock = "closed" \/ remote = "reset"
  /\ Report("error")
  /\ up' = "ended"
  /\ UNCHANGED <<agent, dialVars, portVars, upRead, sent, downVars, worldVars,
                 osVars>>

DownRead ==
  /\ Running /\ down = "reading"
  /\ sock = "open" /\ downRead < arrived
  /\ downRead' = downRead + 1
  /\ down' = "writing"
  /\ UNCHANGED <<agent, dialVars, portVars, upVars, given, worldVars, osVars, done>>

\* Mutant: the end of the connection is reported, and read again.
DownReadEndAgain ==
  /\ Running /\ down = "reading"
  /\ \/ sock = "closed" /\ Report("error")
     \/ remote = "reset" /\ Report("error")
     \/ sock = "open" /\ remote = "fin" /\ downRead = arrived /\ Report("nil")
  /\ Len(done) < 3
  /\ UNCHANGED <<agent, dialVars, portVars, upVars, downVars, worldVars, osVars>>

\* Mutant: a clean end is not reported.
DownReadEndSilent ==
  /\ Running /\ down = "reading"
  /\ \/ sock = "closed" /\ Report("error")
     \/ remote = "reset" /\ Report("error")
     \/ sock = "open" /\ remote = "fin" /\ downRead = arrived /\ UNCHANGED done
  /\ down' = "ended"
  /\ UNCHANGED <<agent, dialVars, portVars, upVars, downRead, given, worldVars,
                 osVars>>

\* EOF after the last chunk is a clean end, everything else an error.
DownReadEnd ==
  /\ Running /\ down = "reading"
  /\ \/ sock = "closed" /\ Report("error")
     \/ remote = "reset" /\ Report("error")
     \/ sock = "open" /\ remote = "fin" /\ downRead = arrived /\ Report("nil")
  /\ down' = "ended"
  /\ UNCHANGED <<agent, dialVars, portVars, upVars, downRead, given, worldVars,
                 osVars>>

\* vp.Write blocks while the PTY is full.
DownWrite ==
  /\ Running /\ down = "writing"
  /\ pty = "open" /\ given < appRead + PtyCap
  /\ given' = given + 1
  /\ down' = "reading"
  /\ UNCHANGED <<agent, dialVars, portVars, upVars, downRead, worldVars, osVars, done>>

\* At any time as well (on Windows every Write fails).
DownWriteFail ==
  /\ Running /\ down = "writing"
  /\ Report("error")
  /\ down' = "ended"
  /\ UNCHANGED <<agent, dialVars, portVars, upVars, downRead, given, worldVars,
                 osVars>>

-----------------------------------------------------------------------------
(* The end. *)

AgentDone ==
  /\ Running /\ agent = "bridging"
  /\ done # << >>
  /\ done' = Tail(done)
  /\ agent' = "leaving"
  /\ UNCHANGED <<dialVars, portVars, upVars, downVars, worldVars, osVars>>

AgentSignal ==
  /\ Running /\ agent = "bridging"
  /\ notified
  /\ notified' = FALSE
  /\ agent' = "leaving"
  /\ UNCHANGED <<dialVars, portVars, upVars, downVars, worldVars, signal, process,
                 done>>

\* Mutant: the port is closed without removing its link.
AgentReturnKeepsLink ==
  /\ Running /\ agent = "leaving"
  /\ pty' = "closed" /\ sock' = "closed"
  /\ agent' = "returned"
  /\ UNCHANGED <<dialVars, link, upVars, downVars, worldVars, osVars, done>>

\* The deferred calls: conn.Close, and vp.Close, which removes the link; that
\* os.Remove failed is dropped with the error of Close.
AgentReturn ==
  /\ Running /\ agent = "leaving"
  /\ pty' = "closed" /\ link' \in {"none", "stuck"}
  /\ sock' = "closed"
  /\ agent' = "returned"
  /\ UNCHANGED <<dialVars, upVars, downVars, worldVars, osVars, done>>

Signal(s) ==
  /\ Running /\ signal = "none"
  /\ signal' = s
  /\ notified' = (s = "int" /\ agent = "bridging")
  /\ UNCHANGED <<agent, dialVars, portVars, upVars, downVars, worldVars, process,
                 done>>

\* main's select: the agent returned, or a signal; deferred calls do not run.
Exit ==
  /\ Running
  /\ agent = "returned" \/ signal # "none"
  /\ process' = "exited"
  /\ UNCHANGED <<agent, dialVars, portVars, upVars, downVars, worldVars, signal,
                 notified, done>>

-----------------------------------------------------------------------------
(* The application and the server. *)

AppWrite ==
  /\ Running /\ pty = "open"
  /\ appSent < MaxUp
  /\ appSent' = appSent + 1
  /\ UNCHANGED <<agent, dialVars, portVars, upVars, downVars, remote, appRead,
                 arrived, osVars, done>>

AppRead ==
  /\ Running /\ pty = "open"
  /\ appRead < given
  /\ appRead' = appRead + 1
  /\ UNCHANGED <<agent, dialVars, portVars, upVars, downVars, remote, appSent,
                 arrived, osVars, done>>

\* The server learns only later that the client has closed the connection.
RemoteSend ==
  /\ sock # "none" /\ remote = "up"
  /\ arrived < MaxDown
  /\ arrived' = arrived + 1
  /\ UNCHANGED <<agent, dialVars, portVars, upVars, downVars, remote, appSent,
                 appRead, osVars, done>>

RemoteEnd(r) ==
  /\ sock # "none" /\ remote = "up"
  /\ remote' = r
  /\ UNCHANGED <<agent, dialVars, portVars, upVars, downVars, appSent, appRead,
                 arrived, osVars, done>>

-----------------------------------------------------------------------------
Connect == DialOk \/ DialFail \/ Create \/ CreateFail

Up == UpRead \/ UpReadFail \/ UpWrite \/ UpWriteFail

Down == DownRead \/ DownReadEnd \/ DownWrite \/ DownWriteFail

Leave == AgentDone \/ AgentSignal \/ AgentReturn \/ Exit

World ==
  \/ AppWrite \/ AppRead \/ RemoteSend
  \/ \E r \in {"fin", "reset"} : RemoteEnd(r)
  \/ \E s \in {"int", "term"} : Signal(s)

Next == Connect \/ Up \/ Down \/ Leave \/ World

Spec == Init /\ [][Next]_vars

(***************************************************************************)
(* Fairness.  A dial ends; goroutines are scheduled; reads and writes of a *)
(* connection that ended return; and the application reads the virtual     *)
(* port: a client stuck in a write to a full PTY hears of nothing else.    *)
(* That the port fails is never assumed.                                   *)
(***************************************************************************)
UpGoesOn == UpRead \/ UpWrite \/ UpWriteFail

DownGoesOn == DownRead \/ DownReadEnd \/ DownWrite

FairSpec ==
  /\ Spec
  /\ WF_vars(Connect) /\ WF_vars(DownGoesOn) /\ WF_vars(Leave) /\ WF_vars(AppRead)

-----------------------------------------------------------------------------
(***************************************************************************)
(* Each goroutine reports its end once, so that the two places of done are *)
(* enough and neither ever blocks on a channel nobody reads any more; and  *)
(* none ends unnoticed while the agent waits.                              *)
(***************************************************************************)
Ended == (IF up = "ended" THEN 1 ELSE 0) + (IF down = "ended" THEN 1 ELSE 0)

OneReportEach ==
  Len(done) <= Ended /\ (agent = "bridging" => Len(done) = Ended)

(***************************************************************************)
(* On either way only the chunk a goroutine has in hand can be lost with   *)
(* it.  And the clean end of a connection costs nothing: when nil is       *)
(* reported and the port has not ended, the application was given all that *)
(* the server sent.  (A nil after the port's own end may be the port's.)   *)
(***************************************************************************)
InHand(g) == IF g = "writing" THEN 1 ELSE 0

BridgeIsLossless ==
  /\ upRead <= sent + 1 /\ (up # "ended" => upRead = sent + InHand(up))
  /\ downRead <= given + 1 /\ (down # "ended" => downRead = given + InHand(down))
  /\ \A i \in DOMAIN done : done[i] = "nil" /\ up # "ended" => given = arrived

(***************************************************************************)
(* A client that ends by itself, whether the server went away, the port    *)
(* could not be made or a goroutine failed, leaves nothing behind: the     *)
(* connection and the PTY are closed and the link is gone, or could not be *)
(* removed.                                                                *)
(***************************************************************************)
NothingLeftBehind ==
  process = "exited" /\ signal = "none" =>
    sock # "open" /\ pty # "open" /\ link # "ours"

(***************************************************************************)
(* The delay between dials never exceeds the configured maximum, nor is it *)
(* ever shorter than the first one, if the multiplier, whole or not, is at *)
(* least one and the first delay at most the maximum; the code checks      *)
(* neither.                                                                *)
(***************************************************************************)
DelayIsBounded ==
  Initial <= Max /\ Num >= Den => Initial <= delay /\ delay <= Max

(***************************************************************************)
(* When the server goes away, in whatever way and whatever the bridge is   *)
(* doing, the client ends.                                                 *)
(***************************************************************************)
RemoteEndEndsClient == remote # "up" ~> process = "exited"

(***************************************************************************)
(* "Graceful shutdown: SIGINT/SIGTERM handling" and "Close closes the PTY  *)
(* and removes the symlink": after a signal the link is gone.              *)
(***************************************************************************)
GracefulShutdown == process = "exited" /\ signal # "none" => link # "ours"
=============================================================================
