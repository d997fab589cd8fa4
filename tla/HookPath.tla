------------------------------ MODULE HookPath ------------------------------
(***************************************************************************)
(* The way of a hook: Claude Code runs a script of cia/hooks.py, whose     *)
(* curl posts the payload to the receiver of cia/hook_receiver.py; the     *)
(* event is queued, and once the drain loop has recorded it, cia/daemon.py *)
(* starts a watcher for the directory that Claude wrote a file to.         *)
(***************************************************************************)
EXTENDS Integers, FiniteSets, SequencesExt

CONSTANTS Fires,    \* the runs of hooks
          Dirs,     \* the directories there are
          Parent,   \* the directory above each; a top directory is its own parent
          Roots,    \* the directories of watch_dirs, watched with all below them
          Unwatchable, \* directories that are ignored or gone, and the home directory
          MaxDynamic,  \* _MAX_DYNAMIC_WATCHERS
          NoWrite      \* what a hook is of, if not of a tool that wrote a file

ASSUME DirsAssumption == /\ Parent \in [Dirs -> Dirs] /\ NoWrite \notin Dirs
                         /\ Roots \subseteq Dirs /\ Unwatchable \subseteq Dirs
ASSUME MaxDynamicAssumption == MaxDynamic \in Nat

VARIABLES wrote,   \* the directory of the file written by the tool call of each run
          client,  \* where the script and its curl are
          server,  \* where the receiver is with the request
          queue,   \* the events emitted and not yet recorded
          events,  \* history: the runs whose events were emitted, in order
          up,      \* whether the daemon runs
          roots,   \* _watch_roots
          dynamic, \* the directories that have a dynamic watcher, live or not
          dead     \* those of them whose fswatch has ended

path == <<wrote, client, server, queue, events, up>>
watch == <<roots, dynamic, dead>>
vars == <<path, watch>>

Init == /\ wrote = [r \in Fires |-> NoWrite]
        /\ client = [r \in Fires |-> "new"]
        /\ server = [r \in Fires |-> "none"]
        /\ queue = <<>> /\ events = <<>>
        /\ up = TRUE
        /\ roots = Roots /\ dynamic = {} /\ dead = {}

-----------------------------------------------------------------------------
(* Claude Code and the script.                                             *)

\* A hook runs its script; which of the runs it is makes no difference.
Fire(d) ==
    /\ \E r \in Fires : client[r] = "new"
    /\ LET r == CHOOSE q \in Fires : client[q] = "new"
       IN /\ wrote' = [wrote EXCEPT ![r] = d]
          /\ client' = [client EXCEPT ![r] = "run"]
    /\ UNCHANGED <<server, queue, events, up, watch>>

\* curl does not connect within --connect-timeout, or the script was found empty
\* because an install was writing it.
ScriptFails(r) ==
    /\ client[r] = "run"
    /\ client' = [client EXCEPT ![r] = "failed"]
    /\ UNCHANGED <<wrote, server, queue, events, up, watch>>

\* curl posts the payload, which arrives in one piece, or its head alone first.
Send(r) ==
    /\ client[r] = "run" /\ up
    /\ client' = [client EXCEPT ![r] = "sent"]
    /\ \E part \in {"whole", "head"} : server' = [server EXCEPT ![r] = part]
    /\ UNCHANGED <<wrote, queue, events, up, watch>>

RestArrives(r) ==
    /\ server[r] = "head"
    /\ server' = [server EXCEPT ![r] = "whole"]
    /\ UNCHANGED <<wrote, client, queue, events, up, watch>>

\* curl has waited for --max-time: the script ends, and the request stays.
GiveUp(r) ==
    /\ client[r] = "sent"
    /\ client' = [client EXCEPT ![r] = "failed"]
    /\ UNCHANGED <<wrote, server, queue, events, up, watch>>

-----------------------------------------------------------------------------
(* HookReceiver._handle.                                                   *)

\* Mutant: a request that its sender has given up is dropped.
Parses_WhileAwaited(r) == server[r] = "whole" /\ client[r] = "sent"

\* One read gives what has arrived; a body that is cut does not parse.
Parses(r) == server[r] = "whole"

Handle(r) ==
    /\ server[r] \in {"whole", "head"}
    /\ IF Parses(r)
       THEN /\ server' = [server EXCEPT ![r] = "ok"]
            /\ queue' = Append(queue, r)
            /\ events' = Append(events, r)
       ELSE /\ server' = [server EXCEPT ![r] = "bad"]
            /\ UNCHANGED <<queue, events>>
    /\ UNCHANGED <<wrote, client, up, watch>>

Answer(r) ==
    /\ server[r] \in {"ok", "bad"} /\ client[r] = "sent"
    /\ client' = [client EXCEPT ![r] = server[r]]
    /\ UNCHANGED <<wrote, server, queue, events, up, watch>>

\* The daemon dies, with its queue and the requests it has not handled.
Dies == /\ up
        /\ up' = FALSE
        /\ queue' = <<>>
        /\ server' = [r \in Fires |-> IF server[r] \in {"whole", "head"} THEN "bad" ELSE server[r]]
        /\ UNCHANGED <<wrote, client, events, watch>>

-----------------------------------------------------------------------------
(* _drain_loop and _maybe_watch_created_path.                              *)

\* d is root, or below it.
Under(d, root) == d = root \/ Parent[d] = root \/ Parent[Parent[d]] = root

\* Mutant: only the directory itself is looked for among the roots.
Covered_Itself(d) == d \in roots

Covered(d) == \E root \in roots : Under(d, root)

Room == Cardinality(dynamic) < MaxDynamic

Record ==
    /\ up /\ queue # <<>>
    /\ queue' = Tail(queue)
    /\ LET d == wrote[Head(queue)]
       IN IF d \in Dirs \ Unwatchable /\ ~Covered(d) /\ Room
          THEN /\ roots' = roots \cup {d}
               /\ dynamic' = dynamic \cup {d}
          ELSE UNCHANGED <<roots, dynamic>>
    /\ UNCHANGED <<wrote, client, server, events, up, dead>>

\* The fswatch of a dynamic watcher ends; its root and its place stay taken.
WatcherEnds(d) ==
    /\ d \in dynamic \ dead
    /\ dead' = dead \cup {d}
    /\ UNCHANGED <<path, roots, dynamic>>

Next == \/ Dies \/ Record
        \/ \E d \in Dirs \cup {NoWrite} : Fire(d)
        \/ \E r \in Fires : \/ ScriptFails(r) \/ Send(r) \/ RestArrives(r) \/ GiveUp(r)
                            \/ Handle(r) \/ Answer(r)
        \/ \E d \in Dirs : WatcherEnds(d)

\* curl's clock runs, and the daemon's loop runs every handler that is ready.
Spec == /\ Init /\ [][Next]_vars
        /\ WF_vars(Record)
        /\ \A r \in Fires : /\ WF_vars(ScriptFails(r) \/ Send(r)) /\ WF_vars(GiveUp(r) \/ Answer(r))
                            /\ WF_vars(Handle(r))

-----------------------------------------------------------------------------
(* Properties.                                                             *)

\* Every script that Claude Code runs ends, whatever becomes of the daemon, and a
\* request that arrived whole gives its event, also when curl no longer waits for
\* the answer, unless the daemon dies.
ScriptsEnd ==
    \A r \in Fires : /\ client[r] = "run" ~> client[r] \in {"ok", "bad", "failed"}
                     /\ server[r] = "whole" ~> r \in Range(events) \/ ~up

\* What is recorded is watched, once: a run gives one event at most, and an
\* answer of 200 means it did; and the directory of a recorded write has a watcher
\* of its own or lies under a watched root, where no second watcher reports it,
\* unless all the places for dynamic watchers are taken.
WritesWatchedOnce ==
    /\ IsInjective(events)
    /\ \A r \in Fires : client[r] = "ok" => r \in Range(events)
    /\ Cardinality(dynamic) <= MaxDynamic
    /\ \A d \in dynamic : \A root \in Roots : ~Under(d, root)
    /\ \A r \in Range(events) \ Range(queue) :
           up /\ wrote[r] \in Dirs \ Unwatchable =>
               \/ Covered(wrote[r])
               \/ Cardinality(dynamic) = MaxDynamic
=============================================================================
