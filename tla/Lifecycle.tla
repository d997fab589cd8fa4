----------------------------- MODULE Lifecycle -----------------------------
(***************************************************************************)
(* The life of the daemon as `cia start', `cia stop' and the other         *)
(* commands manage it (cia/cli.py): by two files, the socket the daemon    *)
(* binds and the file with its process id.  The daemon may crash, take any *)
(* time to flush its queue when it is stopped, or be signalled by someone  *)
(* else.  What it does with its store is Daemon.                           *)
(***************************************************************************)
EXTENDS Integers

CONSTANTS Procs,        \* process ids; none is used twice
          Clis,         \* terminals: each runs one command after another
          NoProc,
          SlowStart,    \* whether a start may take longer than its parent waits
          Unlinking,    \* the processes on Python 3.13 or later, whose asyncio removes
                        \*   the socket of a server that it closes
          MaxSignals    \* bound on the signals from elsewhere

ASSUME NoProcAssumption == NoProc \notin Procs
ASSUME SlowStartAssumption == SlowStart \in BOOLEAN
ASSUME UnlinkingAssumption == Unlinking \subseteq Procs
ASSUME MaxSignalsAssumption == MaxSignals \in Nat

VARIABLES proc,     \* each process: "none", "forked", "starting", "serving", "stopping", "gone"
          told,     \* the processes that have a stop command to read
          socket,   \* the process that bound the socket file, if there is one
          pidFile,  \* the process named in the pid file, if there is one
          cli,      \* where each terminal's command is
          target,   \* the process it forked or read from the pid file
          asked,    \* stop: it sent the command
          signals

files == <<socket, pidFile>>
command == <<cli, target, asked>>
lifecycle == <<proc, told, files, command, signals>>

InitLifecycle == /\ proc = [p \in Procs |-> "none"]
                 /\ told = {}
                 /\ socket = NoProc /\ pidFile = NoProc
                 /\ cli = [c \in Clis |-> "idle"]
                 /\ target = [c \in Clis |-> NoProc]
                 /\ asked = [c \in Clis |-> FALSE]
                 /\ signals = 0

Alive(p) == p # NoProc /\ proc[p] \notin {"none", "gone"}
Goes(c, place) == cli' = [cli EXCEPT ![c] = place]
Becomes(p, state) == proc' = [proc EXCEPT ![p] = state]

-----------------------------------------------------------------------------
(* cia start.                                                              *)

\* Mutant: the socket is not looked for.
StartChecks_Never(c) ==
    /\ cli[c] = "idle"
    /\ Goes(c, "start")
    /\ UNCHANGED <<proc, told, files, target, asked, signals>>

StartChecks(c) ==
    /\ cli[c] = "idle"
    /\ socket = NoProc
    /\ Goes(c, "start")
    /\ UNCHANGED <<proc, told, files, target, asked, signals>>

Fork(c, p) ==
    /\ cli[c] = "start"
    /\ proc[p] = "none"
    /\ Becomes(p, "forked")
    /\ target' = [target EXCEPT ![c] = p]
    /\ Goes(c, "started")
    /\ UNCHANGED <<told, files, asked, signals>>

\* The parent waits 5 s for the socket to appear.
Started(c) ==
    /\ cli[c] = "started"
    /\ socket # NoProc \/ ~Alive(target[c]) \/ SlowStart
    /\ target' = [target EXCEPT ![c] = NoProc]
    /\ Goes(c, "idle")
    /\ UNCHANGED <<proc, told, files, asked, signals>>

-----------------------------------------------------------------------------
(* The daemon.                                                             *)

WritesPid(p) ==
    /\ proc[p] = "forked"
    /\ pidFile' = p
    /\ Becomes(p, "starting")
    /\ UNCHANGED <<told, socket, command, signals>>

\* Its socket replaces the one that is there.  If the ports are taken by another
\* process it fails, and stops.
Binds(p) ==
    /\ proc[p] = "starting"
    /\ socket' = p
    /\ Becomes(p, IF \E q \in Procs : proc[q] = "serving" THEN "stopping" ELSE "serving")
    /\ UNCHANGED <<told, pidFile, command, signals>>

\* The servers are closed and the flush begins.
Stops(p) ==
    /\ Becomes(p, "stopping")
    /\ socket' = IF p \in Unlinking /\ socket = p THEN NoProc ELSE socket
    /\ UNCHANGED <<told, pidFile>>

\* SIGTERM ends a process that has no handler for it yet; while the store is
\* being opened it has no effect, as run sets running afterwards.
Terminated(p) ==
    CASE proc[p] = "forked" -> Becomes(p, "gone") /\ UNCHANGED <<told, files>>
      [] proc[p] = "serving" -> Stops(p)
      [] OTHER -> UNCHANGED <<proc, told, files>>

ReadsStop(p) ==
    /\ p \in told /\ proc[p] = "serving"
    /\ Stops(p)
    /\ UNCHANGED <<command, signals>>

\* The flush is done, or the process crashes.
Ends(p) ==
    /\ Alive(p)
    /\ Becomes(p, "gone")
    /\ UNCHANGED <<told, files, command, signals>>

SignalledElsewhere(p) ==
    /\ Alive(p)
    /\ signals < MaxSignals
    /\ signals' = signals + 1
    /\ Terminated(p)
    /\ UNCHANGED command

-----------------------------------------------------------------------------
(* cia stop.                                                               *)

Listening == socket # NoProc /\ proc[socket] = "serving"

\* Without a listener the command goes on to the process id.
StopAsks(c) ==
    /\ cli[c] = "idle"
    /\ asked' = [asked EXCEPT ![c] = Listening]
    /\ told' = IF Listening THEN told \cup {socket} ELSE told
    /\ Goes(c, "wait")
    /\ UNCHANGED <<proc, files, target, signals>>

\* It waits for the socket to go, at most 2 s.
StopWaits(c) ==
    /\ cli[c] = "wait"
    /\ Goes(c, IF ~asked[c] \/ socket # NoProc THEN "pid" ELSE "clear")
    /\ UNCHANGED <<proc, told, files, target, asked, signals>>

\* _stop_via_pid.
StopSignals(c) ==
    /\ cli[c] = "pid"
    /\ IF Alive(pidFile)
       THEN /\ target' = [target EXCEPT ![c] = pidFile]
            /\ Terminated(pidFile)
            /\ Goes(c, "escalate")
       ELSE Goes(c, "clear") /\ UNCHANGED <<proc, told, files, target>>
    /\ UNCHANGED <<asked, signals>>

\* Mutant: a process that outlives the 3 s is left alone.
StopEscalates_Waits(c) ==
    /\ cli[c] = "escalate"
    /\ Goes(c, "clear")
    /\ UNCHANGED <<proc, told, files, target, asked, signals>>

\* It waits for the process to go, at most 3 s, then kills it.
StopEscalates(c) ==
    /\ cli[c] = "escalate"
    /\ Becomes(target[c], "gone")
    /\ Goes(c, "clear")
    /\ UNCHANGED <<told, files, target, asked, signals>>

\* Both files go, whoever wrote them.
StopClears(c) ==
    /\ cli[c] = "clear"
    /\ socket' = NoProc /\ pidFile' = NoProc
    /\ target' = [target EXCEPT ![c] = NoProc]
    /\ asked' = [asked EXCEPT ![c] = FALSE]
    /\ Goes(c, "idle")
    /\ UNCHANGED <<proc, told, signals>>

-----------------------------------------------------------------------------
(* The other commands: _send.                                              *)

\* Mutant: the files are cleared whenever the daemon does not answer in time.
Send_Impatient(c) ==
    /\ cli[c] = "idle"
    /\ socket # NoProc
    /\ socket' = NoProc /\ pidFile' = NoProc
    /\ UNCHANGED <<proc, told, command, signals>>

\* The connection is refused, and the files are taken for leftovers.
Send(c) ==
    /\ cli[c] = "idle"
    /\ socket # NoProc /\ ~Listening
    /\ socket' = NoProc /\ pidFile' = NoProc
    /\ UNCHANGED <<proc, told, command, signals>>

NextLifecycle == \/ \E p \in Procs : \/ WritesPid(p) \/ Binds(p) \/ ReadsStop(p) \/ Ends(p)
                                     \/ SignalledElsewhere(p)
                 \/ \E c \in Clis : \/ StartChecks(c) \/ Started(c) \/ \E p \in Procs : Fork(c, p)
                                    \/ StopAsks(c) \/ StopWaits(c) \/ StopSignals(c)
                                    \/ StopEscalates(c) \/ StopClears(c) \/ Send(c)

SpecLifecycle == InitLifecycle /\ [][NextLifecycle]_lifecycle

-----------------------------------------------------------------------------
(* Properties.                                                             *)

HasStore(p) == proc[p] \in {"starting", "serving", "stopping"}

\* A daemon that flushes and that no file need lead to any more: a signal from
\* elsewhere stopped it, so that it refused connections and the next command took
\* its files for leftovers; or its server removed the socket as it closed, which a
\* stop takes for the end of the daemon.
Hidden(p) == proc[p] = "stopping" /\ (signals > 0 \/ p \in Unlinking)

\* Of two processes that have the store open, SQLite's file and the JSONL mirror
\* with it, one flushes its queue and is hidden: across any sequence of starts,
\* stops, crashes and other commands, and of Pythons that an upgrade between them
\* may change.
OneStore ==
    \A p, q \in Procs : p # q /\ HasStore(p) /\ HasStore(q) => Hidden(p) \/ Hidden(q)

\* A daemon that serves can be reached, by its socket and by its process id: no
\* command clears the files of a daemon that serves, or replaces its socket.
Reachable == \A p \in Procs : proc[p] = "serving" => socket = p /\ pidFile = p

\* When `cia stop' has ended no daemon serves, whether it took the command, hung
\* or had crashed; the process that it signalled, because its socket stayed or
\* nobody listened, is gone; no other is left but one that flushes and is hidden;
\* and the files do not keep the next start from running.
StopLeavesNothing ==
    [][\A c \in Clis : cli[c] = "clear" /\ cli'[c] = "idle" =>
           /\ ~Alive(target[c])
           /\ \A p \in Procs : Alive(p) => Hidden(p)
           /\ socket' = NoProc /\ pidFile' = NoProc]_lifecycle

=============================================================================
