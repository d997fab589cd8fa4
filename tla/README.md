# CIA: models, checks and proofs

CIA ("Claude Introspection Agent") watches a Claude Code session through an HTTPS
proxy, Claude's hooks, its OpenTelemetry export and the file system, and records
what it sees as events in SQLite with a JSONL mirror. This directory holds TLA+
models of that program (`cia/*.py`), TLC configurations and TLAPS proofs.

## 1. The system

### Components, their state and their operations

| Part | Source | State | Operations |
|---|---|---|---|
| Store | `cia/store.py` | SQLite table, its implicit transaction, JSONL mirror | open, add, clear, backup, close, queries |
| Daemon | `cia/daemon.py` | event queue, task list, `running`, watch roots | run, stop, emit, drain loop, dynamic watchers, shutdown |
| Socket server | `cia/socket_server.py` | none of its own | status, stop, clear, backup, sessions, export |
| Proxy addon | `cia/proxy.py` | one parser per streaming flow, timing of every flow | request, responseheaders, response, JSON responses |
| SSE parser | `cia/sse_parser.py` | the open content blocks and counters of one response | feed, flush, six event handlers |
| File watcher | `cia/watcher.py` | last size, text and record count of each file | start (fswatch), prime, observe, stop |
| Hook receiver | `cia/hook_receiver.py` | none | parse one HTTP request, emit, answer |
| OTLP receiver | `cia/otlp_receiver.py` | none | parse metrics, logs, traces; emit; answer |
| CLI | `cia/cli.py` | pid file, socket file, tail cursor | start, stop, run, tail, export, report |
| Hook installer | `cia/hooks.py` | Claude's `settings.json` | install, uninstall |
| Event schema | `cia/schema.py` | none | building events from hook payloads |
| Endpoint catalogue | `cia/endpoints.py`, `cia/claude_paths.py` | none | classification |
| Transcripts | `cia/transcripts.py` | none | parsing Claude's transcript files |
| Analytics | `cia/analytics.py` | none | pure functions over a list of events |

### How they interact

The proxy runs in a thread of its own and bridges its events to the main asyncio
loop; every other component is a task of that loop. All of them put events into one
unbounded `asyncio.Queue`. The drain loop is its only reader until the daemon is
stopped; then `_shutdown` empties it. The store is one `aiosqlite` connection, that
is one worker thread executing statements first come, first served, on behalf of
the drain loop, of the shutdown and of the socket's handlers. The CLI talks to
the daemon through the socket, and through signals when the socket does not answer.

### What is hard

* Two coroutines in one SQLite transaction (`store.py:81`, `97`, `120`).
* Cancellation in the middle of an add (`daemon.py:128`), and handlers that no stop
  cancels and that go on emitting until the loop ends.
* The flush running beside a drain loop that is still alive after a component
  failed (`daemon.py:120`).
* A crash between two steps of an add; a SIGKILL that `cia stop` sends by itself.
* A cursor over row ids that a clear restarts (`cli.py:408`).
* One SSE stream cut anywhere; two bookkeeping tables of the proxy per flow.
* Pid file and socket file as the only evidence of a running daemon.
* Files that other programs append to, rewrite and remove between the stat and the read
  of one observation (`watcher.py:122`).
* `settings.json`, which cia, Claude Code and the user all rewrite (`hooks.py:70`).
* Hooks whose script gives up while the receiver still works, and exports that are
  retried, late or lost, of a counter that a resumed session starts again.
* Analytics that have to make sense of lists with events missing, of sessions side by
  side.

PROJECT.json lists every hazard at its line, with the properties that cover it.


## 2. The modules

    EventLog   Table                 abstract: a durable log; a table its readers see
        ^       ^     \
        |       |      \ EXTENDS
        +-Store-+       Tail         Store implements both; Tail pages through Table
           ^
           | EXTENDS
         Daemon                      Daemon implements the store's Spec (StoreContract)

    SSEParser   Proxy   Lifecycle    Proxy reduces a parser to the messages that frame
                                     an answer; Lifecycle reduces a daemon to its phase

    HookSettings -> HookPath         the scripts one installs are the clients of the other
                       |
    Watcher  <---------+             which starts the watchers of new directories
                       |
    Telemetry      Analytics         what reports are computed from: the cost counter, and
                                     lists of hooks and responses

    Daemon_proofs (Store and Daemon)   Proxy_proofs     Cli_proofs (Tail, Lifecycle)
    Receivers_proofs (HookPath, HookSettings, Telemetry)                 proofs (section 4)
    SSEParser_proofs   Watcher_proofs  Analytics_proofs

    Sums                             facts on sums, for the last two rows of proofs

Each has an MC module (constants, symmetry) and one `.cfg` for each run. An operator
`X_Something` above a definition `X` is `X` with a plausible bug; PROJECT.json says
which property it breaks, so every property is known to notice something.

### Store (`cia/store.py`)

One SQLite connection under `aiosqlite`. State: `committed` (the rows of the file),
`txn` (what the implicit transaction would change), `jsonl`, and the two queues of
`aiosqlite`: `ops`, statements submitted to the worker thread, and `replies`, statements
executed whose coroutine has not been resumed. `at[c]` is where coroutine `c` stands
in its call. Each `await` of the code is therefore two steps, execution by the worker
(`Exec...`) and resumption by the loop (`AddInserted`, `ClearDeleted`, ...), and other
coroutines come in between either. Statements fail (`ExecFails`), calls are
cancelled (`CancelCall`), the connection closes under a caller, and the process ends
anywhere (`ProcessEnds`), which rolls the transaction back.

`EventLog` is what the store promises of the file: a log that grows at its end or is
emptied by a clear. `Table` is what readers of the same connection see, uncommitted
rows included; a row's seq is its position.

### Tail (`cia/cli.py` tail, `socket_server.py` export, `store.py` query and max_seq)

A poll is `Ask`, `MaxSeq`, `Select`, `Fetch`: three operations of the worker thread, with
the writers of `Table` (`Record`, `Save`, `Clear`, `Restart`) between them. The SELECT
steps to its first row when it is executed and reads the rest at the fetch. The
first poll asks by time and its answer is in the order of time; the next ones ask by seq. The
rows of an answer are described by what they are (`Pages`): some rows, each once, in the order
asked for, and no row left out before one that is in.

### Daemon (`cia/daemon.py`, the handlers of `socket_server.py`)

`main` is where `Daemon.run` is, `drain` where the drain loop is, `taken` the event it
has taken from `queue` and not begun to add. The drain loop, the main coroutine and each
socket client are callers of the store. Daemon extends Store, so that what is proved of the
store can be cited in proofs about the daemon; its own behaviour is `DaemonSpec`, and
each of its actions is an action of the store, or leaves it alone (`StoreContract`).
`Emit` stands for every monitor, the proxy thread's bridge included; monitors' handlers
survive `stop`, so it stays enabled until the loop ends.

### SSEParser (`cia/sse_parser.py`)

One action per message handler, with the server (`server`) as the environment that
sends blocks of any type one after the other and may stop anywhere, and `Lose` for a
message that does not decode. The cut of bytes into messages is abstracted. `out` is the list
of events emitted; what `message_end` sums up is `total`.

### Proxy (`cia/proxy.py`, `cia/endpoints.py`)

The hooks of concurrent flows, `_req_info` (an insertion-ordered dict with a bound: a
sequence, of which `Evict` keeps the end and `Without` takes one entry) and `_parsers`. `kind`
says what the hooks ask of a flow, `out[f]` lists what flow `f` has emitted. `Fail` is a flow
that gets no further hook, as the addon has no `error` hook.

### Lifecycle (`cia/cli.py` start, stop, _send)

The pid file and the socket file, the processes behind them, and terminals that run
one command after another. A daemon goes through forked, starting, serving, stopping,
gone; a stop waits, falls back to SIGTERM, then to SIGKILL.

### Watcher (`cia/watcher.py`)

`FsWatcher.start` primes a `FileDelta` with the files under its root and then observes each
path fswatch reports. `sizes` and `texts` are its two dictionaries; `obs` is the file that
is between its stat (`PrimeStat`, `ObserveStat`) and its read (`PrimeRead`, `ReadLog`,
`ReadNote`), so that others' changes come
between. A log has a generation and a length in units of half a record; a note has one
of five contents, which differ in what the code tells apart (equal size, binary, above
the snapshot limit). `Since(l)` are the places in `out` of what was told of log `l` since it was
last removed.

### HookSettings (`cia/hooks.py`) and HookPath (`hooks.py`, `hook_receiver.py`, `daemon.py`)

HookSettings is the file that install and uninstall read, change and write in place,
beside processes that replace it; `file` may be torn, and a command may be killed while it
is. A bucket of hooks is how often it holds cia's script, and whether it holds others'.
HookPath takes one run of a script through curl, the receiver and the queue to
`_maybe_watch_created_path`: `client[r]` and `server[r]` are the two ends of the request,
which go apart when curl gives up or the daemon dies; `roots` is `_watch_roots`, `dynamic` the
watchers started, `dead` those whose fswatch has ended.

### Telemetry (`cli.py` `_build_run_env`, `otlp_receiver.py`, `analytics.py` cost_attribution)

The exporter turns a counter into exports, the receiver emits a point for each and answers,
and `cost_attribution` makes increments of the points and gives each to the latest turn:
`Increment(i)` is what point `i` adds, by the reading before it if the values look like those
of a counter (`OfCounter`). `spent` is a history of the cost by turn, to which `CostOf` is compared.

### Analytics (`cia/analytics.py`)

The state is the recorded list `events`, made by sessions whose hooks may be lost, and a history
of what the sessions did (`turns`, `calls`, `asked`, `responses`). `PairToolCalls`,
`PermissionWaits`, `InputWaits`, `ThinkTimes`, `TurnAnatomy`, `ToolProfile`, `Story` and `Rework`
are the functions of the code applied to the list. A call has a tool, by which it is paired, and a
file, which `Rework` takes from the start of its pair. `Unmatched` is what the loop of
`pair_tool_calls` holds after each event, its two dictionaries as one set of starts, of which an
end takes what `Taken` says. Where the code searches, `First` is the first later event of some
phases; and the one pass of `turn_anatomy` is described by the prompts that open a turn (`Opens`:
none is open) and the event that closes it (`Closing`). The properties compare them with the
history after every event.

## 3. What the runs check

| Run | Question | Bounds |
|---|---|---|
| `store` | Do calls that share a transaction keep file, mirror and backups consistent? `ImplementsEventLog`, `ImplementsTable` | 2 events, 2 callers, 1 failing statement; any number of cancellations, closings, restarts |
| `tail` | Does paging by seq print each event once, in commit order, and all of them? | 3 events, 2 timestamps, 2 rows an answer, 1 clear or restart |
| `daemon` | Is anything lost while serving, at a stop, or in the hand-over to the flush (`StoreContract`), and is the order of emission kept through it? Is every queued event recorded, does every stop end, every client get its answer? | 2 events, 1 clearing client, 1 failing statement, 1 crash or failed component |
| `daemon_backup` | Is a backup answered while the daemon records? (No.) | as `daemon`, with a client that asks for a backup |
| `sse` | Does each thinking block end once, and does the summary agree with the events? | 3 blocks of 3 types, 1 delta each, clock to 2, 1 message lost |
| `proxy` | Does each flow give its documented events, whatever is evicted meanwhile? | 3 flows, 9 kinds, 1 entry before eviction |
| `lifecycle` | One store at a time, a daemon always reachable, nothing left by a stop, but for daemons that flush hidden from the commands? | 4 processes, of which 2 on a Python that removes the socket file of a closed server; 1 terminal, 1 signal from elsewhere |
| `watcher` | Does the tracker agree with the disk once nothing is pending, do the byte counts of a log add up, is each appended record previewed once or accounted for? | 1 log, 1 note, 3 changes by others, logs up to 6 units, reads of 4 units and 1 record |
| `hook_settings` | Do installs and uninstalls leave the rest of settings.json alone, and cia's entry never doubled? | 2 processes, 2 hook events, 4 changes, any overlap and kills |
| `hook_path` | Does every script end, a whole request give one event, a directory written to one watcher while there is room? | 2 hooks, a tree of 5 directories, 1 dynamic watcher |
| `telemetry` | Is the cost attributed the cost that was spent and delivered, and never to too early a turn? | 3 units, 2 prompts, 2 exports, 1 retry, 1 resumed session; both temporalities, declared or not |
| `analytics` | Do pairs, waits and turns agree with what the sessions did? | 2 sessions, 1 tool, which edits, 2 files, 6 steps, among them 2 prompts, 2 calls, 2 notifications, 1 response; 1 lost hook |

Why these bounds are enough to see the interesting cases. Two callers are what it takes to share a
transaction, and with two events every order of two inserts, commits, lines and failures occurs;
the `store` proofs remove the bound for the two main properties. The third caller of `daemon` is a
client beside the drain loop and the flush. With one entry before eviction and three flows, each
eviction happens with the evicted flow before, in and after its answer. With two rows an answer
and three events an answer is cut off, and the next poll starts in the middle. Three blocks give
thinking twice before a tool call, and two tool calls after one thinking block. A daemon that
hangs, one that has crashed and one that starts again take three process ids; the fourth shows a
start after them. Two edits side by side, each of one of two files, are what it takes for a file
to be credited with the other's. Three changes of a file put one before its priming, one between
the stat and the read and one after; an append of more than four units, or of two records, is
clipped. Two processes and four changes of settings.json are an install and an uninstall with an
edit inside either. Two exports and a retry arrive in every order, before and after a prompt. Five
steps are a prompt and two calls side by side that return in either order, and the sixth a call
lost or a turn's end.

### Fairness

`FairSpec` of Daemon is weakly fair to the drain loop, the main coroutine, the handlers
and the worker thread: the asyncio loop runs every task that is ready, and the worker
is a thread that does nothing else. Nothing is assumed of the monitors, of clients
that have not asked, of stops or of crashes. `FairSpec` of Tail is weakly fair to the four
steps of a poll: `cia tail` loops until it is interrupted, and the worker serves what is
submitted. The writers are not fair. HookPath is weakly fair to a script once it
runs (curl has timeouts of its own, so it gives up if nobody answers), to the receiver's
handler and to the drain loop; nothing makes a hook fire, a request come whole, or the
daemon stay alive. The other modules have safety properties only.

No run checks deadlock: each of these systems really stops when the bounded environment
has nothing more to send. That nobody waits for ever is `NobodyWaits` of Daemon, and
`ScriptsEnd` of HookPath.

### Where the program and its documentation differ

One has a run. `daemon_backup`: `README.md:157` says that a backup is safe to run while the
daemon is recording; a backup that reaches the worker between an INSERT and its COMMIT
waits for ever, and everything else with it.

The others are states that the models reach, which the properties name as exceptions:

* `docs/setup.md:117`: the daemon flushes any queued events before exiting. The one event
  that the drain loop is adding is cancelled and rolled back (`StopLosesAtMostOne`).
* `docs/event-schema.md:23`: seq never goes backwards. After a clear it starts again at 1,
  below the cursor of a running tail, which prints nothing until the new rows pass it
  (`NothingPassed` is of tables that lost no row).
* `docs/event-schema.md:98-101`: every flow which is no inference or tokenizer call gives one
  network_request. A check-in that Anthropic's host answers with an event stream gets a parser like
  any other stream, and `proxy.py:195-200` returns before the event. `EventsOfFlow` is of these
  flows too, and its exception for them (`Swallowed`) says that they give nothing.
* `cli.py:42`: removes the files of a daemon that died uncleanly. It also removes those of a
  daemon that is still flushing after a signal from elsewhere. And where a closing server removes
  its socket, `cia stop` takes that for the daemon's end (`cli.py:323`) and removes the pid file. In
  both cases the next start opens the store beside a daemon that flushes: `OneStore` and
  `StopLeavesNothing` say so, and that nothing else does.
* `docs/architecture.md:92`: the two files are updated atomically. A stop between the COMMIT
  and the line leaves an event in one of them.
* `socket_server.py:106-108`: nothing is skipped. A first poll, which asks by time, takes for
  its cursor the tip (or the highest seq it got), past rows with older timestamps recorded
  meanwhile.
* `sse_parser.py:280` counts the arguments of a tool call as generation; a response that
  holds only tool calls has no generation_ms.

Met while modelling, and contradicted by no document: the byte counts of a text file that
is written between its stat and its read do not add up, only those of logs do; a watcher
whose fswatch has died keeps its place and its root for ever; a hook request that comes in
two pieces is refused and its event lost; an export that is retried because its answer was
lost is counted twice if it is of increments; two permission notifications before one
approval are both measured to it, and `_one_turn` adds the two; edits of two files made side by side
without use ids are paired last in, first out, so that while one of them runs rework may credit the
other with its file; an event that a drain loop has taken when a component fails may be recorded
after a later one, which the flush records beside it (`overtaken`).

## 4. What is proved

The theorems hold for all values of the constants that satisfy the named assumptions of
the modules (`NoEventAssumption`, `CallersAssumption`, `CapAssumption`, ...), which say no more
than that bounds are numbers and that values meant to differ do. Hypotheses beyond
those are stated in the theorem and named below. In every module the argument is the same:
an invariant stronger than the property, shown to hold initially, to be kept by every
action (one lemma or step for each), and to imply the property.

### Store

`Daemon_proofs`, parts I to III. Part I: `StoreTypeOK` (inductive by itself), `Durability`
(`DurabilityInv`) and its corollaries `MirrorFollowsStoreThm` and `BackupIsDurableThm`. Part II:
`Freshness` (`FreshnessInv`), `RecordedOnceThm`, `Inductive` (all of it, `InductiveInv`, which the
run `store` checks too), and the two refinements `StoreImplementsEventLog` and
`StoreImplementsTable`. Part III: the order of adds.

`MirrorFollowsStore` (a line is only ever of a durable row) is not inductive: the line
is written by a coroutine that only knows that its own COMMIT returned, and that COMMIT
may have been somebody else's work, or may have committed somebody else's DELETE. The
strengthening follows a row from its INSERT: as long as the connection is open the row
is readable through it or was deleted by a clear (`Held`); a COMMIT of anyone turns
what is held into what is `Safe`; the end of the connection takes a held row back, and
then the add that inserted it has no successful COMMIT to come. `AddIsSafe` states
this at each place of an add. `DurabilityStep` has one step per action; most leave the
files alone and are dispatched by `DurabilityFrame`.

`RecordedOnce` (no event twice) is not inductive either: an INSERT adds a row, so
nothing may hold that row before. `FreshnessInv` says that a statement which waits for
the worker is of an event that is recorded nowhere, is not in another add and was not
deleted, and that a coroutine is at most once in the two queues (`QueuesInv`),
without which its INSERT might run twice. The refinements need both invariants: a
COMMIT that follows a DELETE is a `Clear` of the log only because nothing that was
deleted is added again, and an INSERT is an `Insert` of the table because its event is new
even to the rows that an uncommitted DELETE hides. `RowSteps` reduces every step of
the store to the four that change rows.

Part III has the three properties about the order of adds. `SameOrderThm` rests on
`Waits` (a coroutine in the middle of a call is in one of the two queues) and `Order`
(`OrderInv`): of two events of which one is above the other in the table, the lower one's
line is written first. That holds because an add submits its COMMIT when its INSERT is
answered, and both queues are first in, first out; so the order of the rows is that of the
INSERTs' answers, of the COMMITs, of their answers, and of the lines. `MirrorCompleteThm` says
that every committed row has its line or an add on its way to it (`CompleteInv`), unless
something failed. `BackupMirrorCoversThm` follows a backup over its two awaits
(`CoversInv`): a copied row without a line belongs to an add whose answer comes before
the backup's.

### Daemon

`Daemon_proofs`, part IV: `StoreContractThm`, that every step of the daemon is one of the store,
with the precondition that only fresh events are added; from which `StoreInDaemon` takes the six
properties above over to the daemon. It needs `DaemonInv`: where each coroutine may be in its
calls for each place of `main` and of the drain loop (`PlacesInv`), and that the queue holds the
last events emitted, in order, of which nobody has begun to add one (`QueueInv`).

* `NothingLostWhileServingThm`, by `ServingInv`: while no statement fails, no call raises.
* `StopLosesAtMostOneThm`, by `LossInv`: of what was emitted before the stop, all but one event
  are recorded or still to be flushed. The one is what the drain loop had in hand when the
  stop cancelled it; `FlushStep` shows that what the flush has before it stays there until
  its line is written.
* `EmissionOrderThm`, by `EmissionInv` and `HandoverInv`: rows, lines and the INSERTs under way
  keep the order of emission, for every pair of events whose first was not overtaken, and through
  failed statements, failed components and crashes. The flush and the drain loop may be in an add
  each at the hand-over, and the drain loop's event is then the older one and its INSERT was
  submitted first, or else it had only been taken, and the flush overtook it (`HandoverInv`). The
  theorem also says when that happens: never before a component failed or a process crashed,
  because a stopped drain loop takes no event again and `Unwind` waits for the one in hand. An add
  that is refused makes its event fresh again, so it is not enough to say that what was begun is
  in order.

### Proxy

`Proxy_proofs`: `TablesInvariant` (both tables), from which `OldestEvictedFirstThm` and
`NothingLeftBehindThm` follow. An eviction takes the oldest entry; to say that its flow was
outrun by more than `Cap` requests, `EntriesInv` bounds, for the entry at place i of n, the
requests made after its own by n - i from below. `EventsOfFlowThm` rests on
`EventsInv`, which says for each state of a flow and of its answer what it has emitted so
far; hooks of other flows, evictions included, cannot change that (`PhasesAdded`).
It holds for every set of kinds, the check-ins answered with a stream among them, of which it
says that they give nothing (section 3).

### Tail

`Cli_proofs`. `PrintedInOrderThm` and `NothingPassedThm`, by `TailInv`. That no event is printed
twice, and that those recorded after the first answer come in the order of their seqs, needs what
is true of an event for life: `OneSeq` (a rollback that brings it back brings back its seq),
`PrintedBelow` (what was printed is at or below the cursor, wherever it still is), and
`FirstIsNext`: the row to which the SELECT has stepped is the one after the cursor, however long
the fetch takes. `TableGrows` says that cursor, tip and answer are of the table as it is while
nothing was cleared.

### SSE parser

All six invariants of the run, for any number of blocks and deltas, any clock and any number of
messages lost. `BaseOK` is the type invariant with what ties the open blocks to the server, and
the properties have each an invariant of their own, on top of it:

* `ThinkingEndsOnceThm`, by `PairsOK`: a block that has begun is open or has ended, an open one has
  begun and not ended, and those to come have done neither.
* `ProgressIsPacedThm`, by `ProgressOK`: `lastProgress` is at or after every progress emitted.
* `GapMeasuredOnceThm`, by `GapOK`: while `thinkingEnd` is set, it is the time of the latest end,
  and no gap was emitted after that.
* `LatenciesNestThm`, by `WholeOK` (as long as no message is lost, the open block is the
  server's) and `LatencyOK` (what is measured so far lies between the start and now).
* `SummaryAddsUpThm`, by `CountsOK` (blocks, durations, tokens and interruptions of `total` are
  those of the ends emitted, and the completed blocks are in their order) and `CharsOK` (its
  characters are those of the ended blocks and of the one that is being sent). A message stop ends
  all the blocks that are still thinking at once, in any order, which is where sums over sets are
  needed.

### Lifecycle

`Cli_proofs`. `LifecycleTypeOK`; `OneStoreThm`, `ReachableThm` and `StopLeavesNothingThm`. They
assume `OneTerminal` (two starts at the same time both find no socket and both fork), `~SlowStart`
(a start that outlasts its parent's wait may be started again), and nothing else: each daemon may
be on a Python that removes the socket file of a closed server, or on one that leaves it
(`Unlinking`). A daemon that flushes is `Hidden` after a signal from elsewhere or when its socket
was removed; only beside a hidden one may the store be opened again, and only a hidden one may
outlive a stop. Without the two TLC finds the properties violated, and nothing in the repository
claims them. The invariant says that a process which has not opened its socket is alone and has a
parent waiting (`StartsAlone`), that one which flushes has the stop command that told it still
running, unless it is hidden (`FlushesUnderStop`), and what a stop command knows at each of its
places (`StopAchieves`, `ToldWhileStopping`).

### HookPath, HookSettings, Telemetry

`Receivers_proofs`. Part I: `WritesWatchedOnceThm`, by `HookInv`: the receiver has answered 200 to
exactly the requests that have an event, and a queued event is one of those (`HandledOnce`), the
watchers started are at most `MaxDynamic` and none is under a root (`Places`), and a write
recorded is covered, or else every place was taken when it was handled, and no place is ever given
back (`RecordedWatched`).

Part II: `SettingsKeptThm`, by `SettingsInv`. While no two changes overlapped and none was killed
with the file open, one process at most is at work (`OneAtWork`), and what the owners wrote is
in the file or with that process (`SomebodyKeeps`): what it has read is what is still there.

Part III: `CostAddsUpThm` and `CostNeverEarlyThm`, by `TelemetryInv`, for any number of prompts,
exports, retries and resumed sessions. For increments (`DeltaInv`): what is recorded, owed by
exports in flight, given up and not yet collected is together what was spent; and for each
prompt, what is recorded and owed of before it is at most what was spent before it. For the
counter itself (`CounterInv`): a reading is at most what was spent by its time, and later
readings are no less, so that the differences of neighbours telescope to the latest reading
(`Telescope`), whatever order the points came in.

### Watcher

`AgreesWhenIdleThm`, by `WatcherInv`: a file that nobody will still be told of (`Settled`: not in
the queue, not to be primed, not changed unseen) has the size that the tracker keeps from the stat
on, and the text from the read on. `ChangeStep` shows that every change makes its file unsettled;
`TrackStep` that an observation need only look after its own file. A file between its stat and its
read is why size and text are separate: it may change in between, and is then in the queue again.

`DeltasAddUpThm`, by `SumsInv`: the changes of a log since it was last removed bring it from the
size at which it was first tracked to the size up to which it is told of (`AddUp`); for a file
between its stat and its read that is the size before (`Expect`). `BookStep` classifies every
step, for each log: it leaves the account alone, starts it, forgets it or adds one change
(`Accounts`). `RecordsOnceThm`, by `RecordsInv`: the ranges of a log that only grew follow each
other and leave out nothing (`Grown`), and each change previews what `Told` says of its range.

### Analytics

`Analytics_proofs`: `WaitsNestThm`, `CallsMeasuredThm` and `TurnsShareNothingThm`, for any
sessions, with or without use ids, any tools, any numbers of events, calls, permissions and
responses, and any hooks lost. Every step is that of one event, which is recorded or not
(`StepHappens`); what it does beside is told by its phase (`Effect`, `CallEffect`,
`RequestEffect`), so that the invariants below have one lemma each for the step, not one for each
action. There are three layers:

* `BaseThm`. `Base` is the type invariant, with the times of the events (`Timed`). `Told` says
  what the list tells as long as no hook was lost: each permission, and what answered it, before
  anything that ends a turn (`AskedHeard`, `AskedFirst`), nothing after the end of a turn but a
  prompt (`QuietTillPrompt`), and each turn, ended or open, by its prompt and by the first end
  after it (`TurnsTold`). `FirstGrows` says that a later event changes the first one of its kind
  only where there was none; what ends a wait is never revised. `WaitsNest` follows from these.
* `CallsInvariant`. `StartsLeft` says which starts are left unmatched: with use ids those of the
  calls that run, or whose end was lost. `IdsMeasured` and `AloneMeasured` follow a call from
  its start, which stays on top of its stack while the call has no other of its session and
  tool beside it (`AloneLeft`). For calls that swap their ends no pair is a call, and no
  invariant of single calls holds; `Balanced` is of all of them together: with each start
  left taken for a pair that has not ended, there are as many pairs as calls, and the same total
  duration. It holds for every set of sessions and tools (`Within`), so that the tool profiles
  (all sessions, one tool) and the stories (one session, all tools) are two instances of it.
* `TurnsInvariant`. Calls run in the open turn of their session, which begins after the others
  ended (`OpenLate`), and so do the starts left (`StartsInTurn`), as `Balanced` leaves none of a
  session that has no call running: that is why a pair whose end was swapped still starts in the
  turn of its call, and why each turn has as many pairs as calls of any set of tools (`PerTurn`).
  `TurnsMade`, `TurnsSeen` and `OpenSeen` match the turns measured with those made, `CallsAddUp`
  the calls of the turns with those of the story, and `FlowsShared` a response with its turn: the
  account that comes after it is what closes an open turn behind it. For `Rework` pairs and calls
  are matched by their starts, since a swap changes the end of a pair and never its start, which
  is where session, tool and file come from. `StartsKept` says that each start of the list is left
  or in a pair, `CallsListed` that each call has its start in the list; so once no edit runs, no
  start of one is left (`Balanced`), pairs and edits of a file have the same starts
  (`EditsPaired`), in each turn too, and are as many (`SameStarts`).

`Unmatched` is a recursive function. `LoopExists` and `LoopSame`, by least counterexamples, say
that the loop defines one, and that what comes later in the list does not change what it held
before.

### Sums

`SumFunctionOnSet` is a recursion over the subsets of a finite set. The library's induction
theorems cannot be used for it, as they take an operator as parameter; `Sums` proves what is
needed by least counterexamples instead: a set of numbers has a least element, and a family of
subsets of a finite set has one from which nothing can be taken. From these follow that the
recursion defines a function, that a sum grows by the element added, that it does not depend on
the order, and that it splits by classes. Hypotheses are stated with `ClassSums` where the provers
would lose themselves in the definitions.

### What is only model-checked

Every safety property and every action property of the runs is a theorem. What is left:

* Liveness: `QueuedIsRecorded`, `NobodyWaits`, `ScriptsEnd`, `EverythingPrinted`. The prover
  handles neither ENABLED nor fairness.

### What the proofs changed

A proof that failed showed that `MirrorComplete`, true of two callers, was false of three: a call
that the closing connection refuses in the middle (`broken` now counts it as cut short) can leave
a committed row without its line. `OldestEvictedFirst` said too little to be inductive and now
says by how many requests a flow was outrun. `out` of Proxy became one list per flow, as no
property relates the events of two. `RecordsOnce` spoke of all changes of a log together, which no
step preserves by itself; it now says of each record to which one change it belongs, which is
more. The increments of the cost counter, the rows of an answer, the records of a preview, the
changes of a log, and the pairs and turns of Analytics were sorted, selected or folded lists; they
are now described by their elements and their order, which is what the properties are about.
`EmissionOrder` was of runs without failed component, failed statement and crash; what its proof
uses is less, and it now holds through all three, but for the events it names. `OneStore` and
`StopLeavesNothing` were of Pythons before 3.13; they now say what holds on every one. The edits
of a file were counted by tool; counted by file, the turn that has most of them is only right once
all edits are back, and the proof is by starts.

## 5. What is abstracted, and what is not modelled

* Store: a failing statement leaves its transaction open, as constraint and busy
  errors do. That SQLite rolls back by itself on some disk errors is not modelled. A
  statement left behind a close on the worker's queue is answered with an error; the
  newest versions of aiosqlite may leave it unanswered. A crash loses nothing that was
  written (no power failure).
* Daemon: a stop while `store.open` is awaited is without effect, as in the code; it is a hazard
  listed without a property. Dynamic watchers only add a source of events here; HookPath has them.
* Daemon follows CPython 3.11 in what `wait_for` does when it is cancelled with its
  result at hand (the comment at `Stop` gives the later behaviour).
* Lifecycle: one terminal, and a start that is not slower than its parent waits. With `SlowStart`
  or two terminals, OneStore and Reachable fail; nothing in the repository claims them there.
  Process ids are not used twice; `--foreground`, which writes no pid file, is left out.
* Proxy: the catalogue of endpoints is reduced to the nine kinds of `Traits`.
* Watcher: what a path's name decides (ignored, category), the wording of previews and
  diffs, and the end of fswatch are left out; a change by others is atomic, an append may
  end inside a record.
* HookPath: of a payload only the directory written to; Telemetry: one session, one series;
  log records and spans are converted without state.
* Analytics: no two events have the same timestamp; `duration_ms`, tokens and costs are
  reduced to which events are counted. Of `tool_profiles`, `session_stories` and `rework` the
  counts and sums are modelled; the percentiles and the other reports (`tool_chains`,
  `context_pressure`, `cache_economics`, `compaction_cost`, ...) are not.
* Not modelled yet: SSE framing (see the plan). Not modelled at all: rendering, reports,
  `transcripts.py`, `claude_paths.py` and most of `schema.py`, which convert records and keep
  no state.

## 6. Plan

Done, in the order of their weight: Store with EventLog and Table, Daemon, Tail,
SSEParser, Proxy, Lifecycle; then Watcher, HookSettings, HookPath, Telemetry, Analytics.

Next, if room is made for it:

1. `SSEFraming` (`sse_parser.py:125-156`): feed and flush over every cut of a stream, as
   functions, against the messages of the whole stream.
2. A task list in Daemon, to say which components a stop that comes while the store opens
   (`daemon.py:75`) leaves running.
3. `tool_chains` and `compaction_cost`, over the lists of Analytics.

What the first two add has theorems to go with it: that any cut of a stream gives the messages of
the whole one, and that no component is left running behind a stop.
