----------------------------- MODULE VirtualPort -----------------------------
(***************************************************************************)
(* The name applications open a virtual port by, between the client        *)
(* processes of one machine: Create and Close of internal/virtual, of      *)
(* virtual_linux.go and virtual_darwin.go, where the name is a link to a   *)
(* PTY, and of virtual_windows.go, where it is one end of a com0com pair.  *)
(*                                                                         *)
(* Processes are started, end and are killed at any moment, several of     *)
(* them with the same name.  A process that is killed, or whose main       *)
(* returns on a signal before the deferred Close has run, leaves the name  *)
(* behind; the kernel closes its PTY.  Neither Create nor Close looks at   *)
(* whose name it removes, nor whether it could: the errors of os.Remove    *)
(* and of setupc are dropped.                                              *)
(***************************************************************************)
EXTENDS Naturals

CONSTANTS
  Clients,      \* client processes; one that ended can be started again
  Name,         \* cfg.Virtual.Port of each, a path or the number of a COM port
  Ptys          \* numbers of PTYs the kernel hands out

None == 0       \* no PTY, or no link

ASSUME VirtualPortAssumption ==
  /\ Name \in [Clients -> Nat \ {0}]
  /\ Ptys \subseteq Nat \ {0}

VARIABLES
  platform,     \* "unix" or "windows"
  state,        \* where each process is in Create or Close
  pty,          \* the PTY each has open
  link,         \* what the link of each name leads to
  pairs,        \* the com0com pairs, <<bridge port, user port>>
  lone,         \* history: live clients no other of a clashing name has met
                \* (and, on Windows, whose pair was there to begin with)
  littered      \* history: names a killed client left, or that could not be
                \* removed, until the next Close that removes them

vars == <<platform, state, pty, link, pairs, lone, littered>>

Names == {Name[c] : c \in Clients}

TypeOK ==
  /\ platform \in {"unix", "windows"}
  /\ state \in [Clients -> {"idle", "opened", "cleared", "blocked", "running",
                           "closed"}]
  /\ pty \in [Clients -> Ptys \cup {None}]
  /\ link \in [Names -> Ptys \cup {None}]
  /\ pairs \subseteq Nat \X Nat
  /\ lone \subseteq Clients /\ littered \subseteq Names
  /\ \A c \in Clients :      \* no path leaks a PTY
       pty[c] # None <=> platform = "unix" /\ state[c] \notin {"idle", "closed"}

\* Links left by clients that were killed earlier may lead anywhere.
Init ==
  /\ platform \in {"unix", "windows"}
  /\ state = [c \in Clients |-> "idle"]
  /\ pty = [c \in Clients |-> None]
  /\ link \in [Names -> IF platform = "unix" THEN Ptys \cup {None} ELSE {None}]
  /\ pairs = {} /\ lone = {}
  /\ littered = {n \in Names : link[n] # None}

\* generateBridgePort: the port after the one the user asked for.
BridgePort(c) == Name[c] + 1
Pair(c) == <<BridgePort(c), Name[c]>>

\* Two names clash: the same link, or pairs that share a port.
Clash(c, d) ==
  \/ Name[c] = Name[d]
  \/ platform = "windows" /\ (BridgePort(c) = Name[d] \/ BridgePort(d) = Name[c])

Rivals(c) == {d \in Clients \ {c} : Clash(c, d)}

Taken(c) == {p \in pairs : {p[1], p[2]} \cap {BridgePort(c), Name[c]} # {}}

\* A process starts: it is lone unless a rival lives, or it has no pair.
Start(c, to) ==
  /\ state[c] = "idle"
  /\ state' = [state EXCEPT ![c] = to]
  /\ lone' = (lone \ Rivals(c)) \cup
       {d \in {c} : /\ \A r \in Rivals(c) : state[r] = "idle"
                    /\ platform = "windows" => Pair(c) \in pairs'}
  /\ UNCHANGED <<platform, littered>>

Move(c, from, to) ==
  /\ platform = "unix" /\ state[c] \in from
  /\ state' = [state EXCEPT ![c] = to]
  /\ UNCHANGED <<platform, pairs>>

\* Mutant: the error path returns without closing the PTY.
ReleaseNot(c) == UNCHANGED pty

\* The PTY is closed, by the process or by the kernel.
Release(c) == pty' = [pty EXCEPT ![c] = None]

-----------------------------------------------------------------------------
(* Linux and macOS. *)

\* /dev/ptmx: a PTY with a number that is free.
Open(c) ==
  /\ platform = "unix"
  /\ Start(c, "opened")
  /\ \E n \in Ptys \ {pty[d] : d \in Clients} : pty' = [pty EXCEPT ![c] = n]
  /\ UNCHANGED <<link, pairs>>

\* grantpt, unlockpt or ptsname failed, or /dev/ptmx itself.
OpenFail(c) ==
  /\ Move(c, {"opened"}, "idle") /\ Release(c)
  /\ lone' = lone \ {c} /\ UNCHANGED <<link, littered>>

\* Mutant: the path is left as it is.
LeftAlone(n) == link

\* os.Remove, of a link or of nothing.
Removed(n) == [link EXCEPT ![n] = None]

\* os.Remove(linkPath) in Create.
Clear(c) ==
  /\ Move(c, {"opened"}, "cleared")
  /\ link' = Removed(Name[c])
  /\ UNCHANGED <<pty, lone, littered>>

\* It failed, and Create goes on.
ClearFail(c) ==
  /\ Move(c, {"opened"}, "blocked")
  /\ UNCHANGED <<pty, link, lone, littered>>

\* os.Symlink, which makes no link where there is one.
Publish(c) ==
  /\ Move(c, {"cleared", "blocked"}, "running")
  /\ link[Name[c]] = None
  /\ link' = [link EXCEPT ![Name[c]] = pty[c]]
  /\ UNCHANGED <<pty, lone, littered>>

\* Mutant: Create fails after the link was made, and only closes the PTY.
PublishFailLate(c) ==
  /\ Move(c, {"cleared", "blocked"}, "idle") /\ Release(c)
  /\ link' = [link EXCEPT ![Name[c]] = pty[c]]
  /\ lone' = lone \ {c} /\ UNCHANGED littered

\* It failed: there is a link, the old one or one that another process has made
\* since, or the path is no good.
PublishFail(c) ==
  /\ Move(c, {"cleared", "blocked"}, "idle") /\ Release(c)
  /\ lone' = lone \ {c} /\ UNCHANGED <<link, littered>>

\* Close, in its first half.
ClosePty(c) ==
  /\ Move(c, {"running"}, "closed") /\ Release(c)
  /\ UNCHANGED <<link, lone, littered>>

\* Close, in its second: os.Remove of the path, whatever it leads to by now.
CloseLink(c) ==
  /\ Move(c, {"closed"}, "idle")
  /\ link' = Removed(Name[c])
  /\ lone' = lone \ {c} /\ littered' = littered \ {Name[c]}
  /\ UNCHANGED pty

\* It failed, and the deferred Close drops the error.
CloseLinkFail(c) ==
  /\ Move(c, {"closed"}, "idle")
  /\ lone' = lone \ {c} /\ littered' = littered \cup {Name[c]}
  /\ UNCHANGED <<pty, link>>

-----------------------------------------------------------------------------
(* Windows. *)

\* setupc install.  It fails if a port is taken, or for any other reason, and
\* its failure is taken to mean that the pair exists.
Install(c) ==
  /\ platform = "windows"
  /\ pairs' = pairs \/ (Taken(c) = {} /\ pairs' = pairs \cup {Pair(c)})
  /\ Start(c, "running")
  /\ UNCHANGED <<pty, link>>

\* Close: setupc remove, by the name of the bridge port.
Uninstall(c) ==
  /\ platform = "windows" /\ state[c] = "running"
  /\ state' = [state EXCEPT ![c] = "idle"]
  /\ pairs' = {p \in pairs : p[1] # BridgePort(c)}
  /\ lone' = lone \ {c} /\ littered' = littered \ {Name[c]}
  /\ UNCHANGED <<platform, pty, link>>

\* It failed: the pair stays, and the deferred Close drops the error.
UninstallFail(c) ==
  /\ platform = "windows" /\ state[c] = "running"
  /\ state' = [state EXCEPT ![c] = "idle"]
  /\ lone' = lone \ {c} /\ littered' = littered \cup {Name[c]}
  /\ UNCHANGED <<platform, pty, link, pairs>>

-----------------------------------------------------------------------------
\* The process is killed, or main returns before the deferred Close.
Kill(c) ==
  /\ state[c] # "idle"
  /\ state' = [state EXCEPT ![c] = "idle"]
  /\ Release(c)
  /\ lone' = lone \ {c}
  /\ littered' = IF state[c] \in {"running", "closed"}
                 THEN littered \cup {Name[c]} ELSE littered
  /\ UNCHANGED <<platform, link, pairs>>

Create(c) ==
  \/ Open(c) \/ OpenFail(c) \/ Clear(c) \/ ClearFail(c) \/ Publish(c)
  \/ PublishFail(c) \/ Install(c)

Close(c) ==
  \/ ClosePty(c) \/ CloseLink(c) \/ CloseLinkFail(c)
  \/ Uninstall(c) \/ UninstallFail(c)

Next == \E c \in Clients : Create(c) \/ Close(c) \/ Kill(c)

Spec == Init /\ [][Next]_vars

-----------------------------------------------------------------------------
(***************************************************************************)
(* Whatever earlier clients left at its name, a client that no other of a  *)
(* clashing name has overlapped makes its link, unless the file system     *)
(* refuses, and keeps it: once os.Remove has succeeded the path is free,   *)
(* and while the client runs the link leads to its PTY.  On Windows it     *)
(* keeps the pair it found or installed, although pairs are removed by one *)
(* of their ports.  (One that was overlapped may lose its name: the other  *)
(* one's Close removes it.)                                                *)
(***************************************************************************)
LoneClientKeepsItsName ==
  \A c \in lone :
    /\ state[c] = "cleared" => link[Name[c]] = None
    /\ state[c] = "running" =>
         IF platform = "unix" THEN link[Name[c]] = pty[c] ELSE Pair(c) \in pairs

(***************************************************************************)
(* Unless a client was killed, or could not remove its name, and none of   *)
(* that name has removed it since, a name exists only while a client of    *)
(* that name runs or is closing: of any number that overlap, the last to   *)
(* close leaves nothing, and a failed Create leaves nothing of its own.    *)
(***************************************************************************)
Served(n) == \E c \in Clients : Name[c] = n /\ state[c] \in {"running", "closed"}

NoLitter ==
  /\ \A n \in Names : link[n] # None => n \in littered \/ Served(n)
  /\ \A p \in pairs : p[2] \in littered \/ Served(p[2])

(***************************************************************************)
(* A link never leads to the PTY of a client of another name, although     *)
(* numbers of PTYs are handed out again, except after a kill or a failed   *)
(* removal and in the moment between the two halves of a Close.            *)
(***************************************************************************)
NeverAnotherPort ==
  \A c \in Clients, n \in Names :
    pty[c] # None /\ link[n] = pty[c] /\ Name[c] # n =>
      n \in littered \/ \E d \in Clients : Name[d] = n /\ state[d] = "closed"
=============================================================================
