------------------------------- MODULE Daemon -------------------------------
(***************************************************************************)
(* The daemon of cia/daemon.py: the monitors emit events into one asyncio  *)
(* queue, a drain loop moves them into the store, and stopping the daemon  *)
(* cancels its tasks, flushes the queue and closes the store.  Clients of  *)
(* the IPC socket clear, back up and stop it meanwhile.                    *)
(*                                                                         *)
(* It extends Store, whose callers are the drain loop, the main coroutine  *)
(* (Daemon.run and _shutdown) and the socket's handlers: each step that    *)
(* uses the store is a step of Store as well.  _maybe_watch_created_path,  *)
(* which the drain loop calls after each event, only adds a source of      *)
(* events; any source may emit at any time here.                           *)
(***************************************************************************)
EXTENDS Store, FiniteSets

CONSTANTS Drain,     \* the task of _drain_loop
          Main,      \* the task that runs Daemon.run
          Commands,  \* what socket clients ask for: "clear", "backup"
          MaxMishaps \* bound on crashes, failed components and failed statements together

Clients == Callers \ {Drain, Main}

ASSUME CallersAssumption == Drain \in Callers /\ Main \in Callers /\ Drain # Main
ASSUME CommandsAssumption == Commands \subseteq {"clear", "backup"}
ASSUME MaxMishapsAssumption == MaxMishaps \in Nat

VARIABLES main,     \* where Daemon.run is
          drain,    \* where the drain loop is
          taken,    \* the event the drain loop has taken and not begun to add
          queue,    \* _event_queue
          running,  \* Daemon.running
          session,  \* history: the events this process emitted, in order
          asked,    \* history: how many it had emitted when told to stop
          overtaken, \* history: the events the flush passed while the drain loop had them
          crashes   \* how many crashes and failed components there have been

store == vars
own == <<main, drain, taken, queue, running, session, asked, overtaken, crashes>>
daemonVars == <<store, own>>

NotAsked == -1

DaemonInit ==
    /\ Init
    /\ main = "down"
    /\ drain = "over"
    /\ taken = NoEvent
    /\ queue = <<>>
    /\ running = FALSE
    /\ session = <<>>
    /\ asked = NotAsked
    /\ overtaken = {}
    /\ crashes = 0

-----------------------------------------------------------------------------
(* Daemon.run, up to gather.                                               *)

StartProcess ==
    /\ main = "down"
    /\ main' = "opening"
    /\ session' = <<>>
    /\ asked' = NotAsked
    /\ overtaken' = {}
    /\ UNCHANGED <<store, drain, taken, queue, running, crashes>>

\* open has returned: running is set and the tasks are created, with no await
\* in between (starting the proxy blocks the loop).
Serve ==
    /\ main = "opening"
    /\ Open
    /\ running' = TRUE
    /\ main' = "serving"
    /\ drain' = "get"
    /\ UNCHANGED <<taken, queue, session, asked, overtaken, crashes>>

\* A monitor emits: its handlers outlive the tasks that stop cancels, so this
\* goes on until the loop ends.  Each event is new; which one it is makes no
\* difference.
Emit ==
    /\ main \in {"serving", "flush", "closing"}
    /\ LET new == {e \in Events : Fresh(e) /\ e \notin Range(session)}
           e   == CHOOSE e \in new : TRUE
       IN  /\ new # {}
           /\ queue' = Append(queue, e)
           /\ session' = Append(session, e)
    /\ UNCHANGED <<store, main, drain, taken, running, asked, overtaken, crashes>>

\* A component's task raises (its port is in use): gather re-raises, and the
\* other tasks keep running.
ComponentFails ==
    /\ main = "serving"
    /\ crashes + faults < MaxMishaps
    /\ crashes' = crashes + 1
    /\ main' = "flush"
    /\ UNCHANGED <<store, drain, taken, queue, running, session, asked, overtaken>>

\* Mutant: the shutdown waits for the cancelled drain loop to empty the queue.
Unwind_WhenDrained ==
    /\ main = "serving"
    /\ ~running
    /\ queue = <<>>
    /\ main' = "flush"
    /\ UNCHANGED <<store, drain, taken, queue, running, session, asked, overtaken, crashes>>

\* gather ends because a task was cancelled or raised.  A drain loop that has
\* its event in hand resumes before the cancelled tasks have all finished.
Unwind ==
    /\ main = "serving"
    /\ drain = "over" \/ (~running /\ drain # "taken")
    /\ main' = "flush"
    /\ UNCHANGED <<store, drain, taken, queue, running, session, asked, overtaken, crashes>>

-----------------------------------------------------------------------------
(* _drain_loop.                                                            *)

\* Mutant: an event that arrives with the timeout is taken and dropped.
DrainTake_Timeout ==
    /\ drain = "get"
    /\ queue # <<>>
    /\ queue' = Tail(queue)
    /\ UNCHANGED <<store, main, drain, taken, running, session, asked, overtaken, crashes>>

\* Mutant: the loop waits for a second event.
DrainTake_Batch ==
    /\ drain = "get"
    /\ Len(queue) > 1
    /\ taken' = Head(queue)
    /\ queue' = Tail(queue)
    /\ drain' = "taken"
    /\ UNCHANGED <<store, main, running, session, asked, overtaken, crashes>>

DrainTake ==
    /\ drain = "get"
    /\ queue # <<>>
    /\ taken' = Head(queue)
    /\ queue' = Tail(queue)
    /\ drain' = "taken"
    /\ UNCHANGED <<store, main, running, session, asked, overtaken, crashes>>

\* Mutant: the loop keeps hold of the event it adds.
DrainAdd_Keeps ==
    /\ drain = "taken"
    /\ AddBegin(Drain, taken)
    /\ drain' = "adding"
    /\ UNCHANGED <<main, taken, queue, running, session, asked, overtaken, crashes>>

\* add begins, or raises because the store is closed.
DrainAdd ==
    /\ drain = "taken"
    /\ \/ /\ AddBegin(Drain, taken)
          /\ drain' = "adding"
       \/ /\ ~Accepting
          /\ drain' = "over"
          /\ UNCHANGED store
    /\ taken' = NoEvent
    /\ UNCHANGED <<main, queue, running, session, asked, overtaken, crashes>>

\* add goes on, or raises: that ends the task.
DrainGoesOn ==
    /\ AddInserted(Drain) \/ Raise(Drain) \/ Discard(Drain)
    /\ UNCHANGED own

DrainAdded ==
    /\ AddCommitted(Drain)
    /\ drain' = IF running THEN "get" ELSE "over"
    /\ UNCHANGED <<main, taken, queue, running, session, asked, overtaken, crashes>>

\* Mutant: an event whose add failed is queued again.
DrainRaises_Retry ==
    /\ Caught(Drain)
    /\ drain' = "get"
    /\ queue' = Append(queue, ev[Drain])
    /\ UNCHANGED <<main, taken, running, session, asked, overtaken, crashes>>

DrainRaises ==
    /\ Caught(Drain)
    /\ drain' = "over"
    /\ UNCHANGED <<main, taken, queue, running, session, asked, overtaken, crashes>>

-----------------------------------------------------------------------------
(* stop, from a signal or from a socket client.                            *)

\* Cancelling the drain loop while it has its event in hand has no effect:
\* wait_for has its result and returns it (CPython 3.11; from 3.12 on the event
\* is taken and the add begun in one step).  Before open has returned there are
\* no tasks, and run sets running again.
Stop ==
    /\ main \in {"opening", "serving", "flush", "closing"}
    /\ running' = FALSE
    /\ asked' = IF asked = NotAsked /\ main = "serving" THEN Len(session) ELSE asked
    /\ \/ /\ drain = "get"
          /\ drain' = "over"
          /\ UNCHANGED store
       \/ /\ drain = "adding"
          /\ CancelCall(Drain)
          /\ drain' = "over"
       \/ /\ drain \in {"taken", "over"} \/ (drain = "adding" /\ at[Drain] = "raised")
          /\ UNCHANGED <<store, drain>>
    /\ UNCHANGED <<main, taken, queue, session, overtaken, crashes>>

-----------------------------------------------------------------------------
(* _shutdown.                                                              *)

\* Mutant: the flush takes the newest event first.
FlushOne_Newest ==
    /\ main = "flush"
    /\ queue # <<>>
    /\ AddBegin(Main, Last(queue))
    /\ queue' = Front(queue)
    /\ overtaken' = overtaken \cup ({taken} \ {NoEvent})
    /\ UNCHANGED <<main, drain, taken, running, session, asked, crashes>>

FlushOne ==
    /\ main = "flush"
    /\ queue # <<>>
    /\ AddBegin(Main, Head(queue))
    /\ queue' = Tail(queue)
    /\ overtaken' = overtaken \cup ({taken} \ {NoEvent})
    /\ UNCHANGED <<main, drain, taken, running, session, asked, crashes>>

\* The add goes on and ends; an exception it raises is dropped, with its event.
FlushGoesOn ==
    /\ \/ AddInserted(Main) \/ AddCommitted(Main)
       \/ Raise(Main) \/ Caught(Main)
    /\ UNCHANGED own

\* Mutant: the store is closed with events still queued.
FlushEnds_Early ==
    /\ main = "flush"
    /\ CloseBegin(Main)
    /\ main' = "closing"
    /\ UNCHANGED <<drain, taken, queue, running, session, asked, overtaken, crashes>>

FlushEnds ==
    /\ main = "flush"
    /\ queue = <<>>
    /\ CloseBegin(Main)
    /\ main' = "closing"
    /\ UNCHANGED <<drain, taken, queue, running, session, asked, overtaken, crashes>>

Closed ==
    /\ CloseDone(Main)
    /\ main' = "exited"
    /\ UNCHANGED <<drain, taken, queue, running, session, asked, overtaken, crashes>>

\* Whatever is left of the process goes: its queue, its coroutines, its threads.
Gone == /\ ProcessEnds
        /\ main' = "down"
        /\ drain' = "over"
        /\ taken' = NoEvent
        /\ queue' = <<>>
        /\ running' = FALSE
        /\ UNCHANGED <<session, asked, overtaken>>

Exit == main = "exited" /\ Gone /\ UNCHANGED crashes

\* SIGKILL, or the machine stops.
Crash == /\ main # "down"
         /\ crashes + faults < MaxMishaps
         /\ crashes' = crashes + 1
         /\ Gone

-----------------------------------------------------------------------------
(* The socket's handlers.                                                  *)

Command(k) ==
    /\ main \in {"serving", "flush", "closing"}
    /\ \/ "clear" \in Commands /\ ClearBegin(k)
       \/ "backup" \in Commands /\ BackupBegin(k)
    /\ UNCHANGED own

\* The handler goes on; it answers ok: false to an exception.
HandlerGoesOn(k) ==
    /\ main \notin {"down", "exited"}
    /\ \/ ClearDeleted(k) \/ ClearCommitted(k)
       \/ BackupCopied(k) \/ BackupCounted(k)
       \/ Raise(k) \/ Caught(k)
    /\ UNCHANGED own

Worker == /\ \E c \in Callers : Exec(c)
          /\ faults' + crashes <= MaxMishaps
          /\ UNCHANGED own

DrainStep == DrainTake \/ DrainAdd \/ DrainGoesOn \/ DrainAdded \/ DrainRaises
MainStep == Serve \/ Unwind \/ FlushOne \/ FlushGoesOn \/ FlushEnds \/ Closed \/ Exit

DaemonNext ==
    \/ StartProcess \/ ComponentFails \/ Crash \/ Stop
    \/ DrainStep
    \/ MainStep
    \/ Worker
    \/ Emit
    \/ \E k \in Clients : Command(k) \/ HandlerGoesOn(k)

DaemonSpec == DaemonInit /\ [][DaemonNext]_daemonVars

\* The event loop runs every task that is ready, and the worker thread runs.
FairSpec == /\ DaemonSpec
            /\ WF_daemonVars(DrainStep)
            /\ WF_daemonVars(MainStep)
            /\ WF_daemonVars(Worker)
            /\ \A k \in Clients : WF_daemonVars(HandlerGoesOn(k))

-----------------------------------------------------------------------------
(* Properties.                                                             *)

\* The type invariant of the daemon's own variables; StoreContract implies that of the
\* store's (Store's TypeOK).
DaemonTypeOK ==
    /\ main \in {"down", "opening", "serving", "flush", "closing", "exited"}
    /\ drain \in {"get", "taken", "adding", "over"}
    /\ taken \in Events \cup {NoEvent}
    /\ (drain = "taken") <=> (taken # NoEvent)
    /\ queue \in Seq(Events)
    /\ running \in BOOLEAN
    /\ session \in Seq(Events)
    /\ asked \in {NotAsked} \cup 0..Len(session)
    /\ overtaken \subseteq Events
    /\ crashes \in Nat
    /\ crashes + faults <= MaxMishaps

\* The daemon uses the store as Store allows it, and each event once: whatever
\* holds of Store holds of the daemon.
StoreContract == Spec

\* While the daemon serves and no statement fails, every event emitted is in the
\* queue, in the drain loop's hands, or recorded.
NothingLostWhileServing ==
    main = "serving" /\ running /\ faults = 0 =>
        Range(session) \subseteq Range(queue) \cup {taken, ev[Drain]} \cup Range(jsonl)

\* Stopping costs at most the one event that the drain loop was adding: all the
\* others emitted before the stop are recorded when the daemon has exited.
StopLosesAtMostOne ==
    main = "exited" /\ faults = 0 =>
        Cardinality({i \in 1..asked : session[i] \notin Range(jsonl)}) <= 1

\* Both files list events in the order of their emission: across the hand-over from
\* the drain loop to the flush, and through failed statements and crashes.  The one
\* exception is an event that the drain loop has taken and not begun to add when the
\* flush begins to add a later one.  That takes a drain loop still running beside the
\* flush, which a component that fails leaves behind and stopping never does: nothing
\* is overtaken until a component has failed or a process has crashed.
EmissionOrder ==
    /\ crashes = 0 => overtaken = {}
    /\ \A i, j \in DOMAIN session : i < j /\ session[i] \notin overtaken =>
           \A f \in {jsonl, committed} :
               {session[i], session[j]} \subseteq Range(f) =>
                   Pos(f, session[i]) < Pos(f, session[j])

\* A queued event is recorded, by the drain loop if the daemon is not stopped
\* first, and by the flush if it is still queued when the daemon is told to
\* stop, unless something fails.
QueuedIsRecorded ==
    \A e \in Events :
        /\ main = "serving" /\ e \in Range(queue) ~>
               e \in Range(jsonl) \/ ~running \/ crashes + faults > 0
        /\ main = "serving" /\ ~running /\ e \in Range(queue) ~>
               e \in Range(jsonl) \/ crashes + faults > 0

\* What README.md:157 says of a backup: "The backup uses SQLite's online backup
\* API, so it is safe to run while the daemon is recording."  It is answered.
BackupAnswered == \A k \in Clients : at[k] = "backup" ~> at[k] = "idle"

\* Nobody waits for ever while the daemon stops, whatever failed before: a daemon
\* that is told to stop ends, and every client's clear is done, or raises because
\* the store was closed first.
NobodyWaits ==
    /\ main = "serving" /\ ~running ~> main \in {"exited", "down"}
    /\ \A k \in Clients : at[k] # "idle" ~> at[k] = "idle"
=============================================================================
