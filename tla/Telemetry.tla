----------------------------- MODULE Telemetry ------------------------------
(***************************************************************************)
(* The way of Claude Code's cost counter: the exporter that `cia run'      *)
(* configures collects it every two seconds and posts it, the receiver of  *)
(* cia/otlp_receiver.py emits a point for each, and cost_attribution in    *)
(* cia/analytics.py makes increments of the points and gives each to a     *)
(* turn.  Exports are retried when their answer is lost, arrive late and   *)
(* in any order, and are given up; a resumed session counts from 0 again.  *)
(*                                                                         *)
(* One session and one series; a turn is the time of its prompt.           *)
(***************************************************************************)
EXTENDS Integers, SequencesExt

CONSTANTS MaxCost,     \* bound on the cost units spent
          MaxTurns,    \* bound on the prompts
          MaxExports,  \* bound on the collections
          MaxRetries,  \* bound on the retries of an export
          MaxResumes   \* bound on the processes after the first

ASSUME BoundsAssumption ==
    {MaxCost, MaxTurns, MaxExports, MaxRetries, MaxResumes} \subseteq Nat

VARIABLES asked,     \* the temporality that the exporter uses
          recorded,  \* whether its exports declare it
          clock,
          turns,     \* the times of the prompts
          spent,     \* history: the cost spent, by the number of prompts before it
          counter,   \* the counter of the process
          collected, \* its value at the last collection
          inflight,  \* the exports made and not yet answered or given up
          points,    \* the points recorded, in the order of their arrival
          exports, resumes,
          missing,   \* history: cost that no export will deliver any more
          repeated   \* history: an export was delivered twice

exporter == <<counter, collected, inflight, exports, resumes, missing>>
choice == <<asked, recorded>>
telemetry == <<choice, clock, turns, spent, exporter, points, repeated>>

\* What the exports that were not delivered yet would deliver.
Undelivered == {b \in inflight : ~b.given}
Total(S) == SumFunction([b \in S |-> b.value])

InitTelemetry ==
    /\ asked \in {"delta", "cumulative"} /\ recorded \in BOOLEAN
    /\ clock = 0
    /\ turns = <<>>
    /\ spent = <<0>>
    /\ counter = 0 /\ collected = 0
    /\ inflight = {} /\ points = <<>>
    /\ exports = 0 /\ resumes = 0 /\ missing = 0
    /\ repeated = FALSE

-----------------------------------------------------------------------------
(* Claude Code and its exporter.                                           *)

Prompt == /\ Len(turns) < MaxTurns
          /\ clock' = clock + 1
          /\ turns' = Append(turns, clock')
          /\ spent' = Append(spent, 0)
          /\ UNCHANGED <<choice, exporter, points, repeated>>

Spend == /\ SumFunction(spent) < MaxCost
         /\ spent' = [spent EXCEPT ![Len(spent)] = @ + 1]
         /\ counter' = counter + 1
         /\ UNCHANGED <<choice, clock, turns, collected, inflight, points, exports, resumes, missing, repeated>>

\* _build_run_env asks for increments; an exporter that is run otherwise sends
\* the counter itself.
Collect ==
    /\ exports < MaxExports
    /\ exports' = exports + 1
    /\ clock' = clock + 1
    /\ collected' = counter
    /\ inflight' = inflight \cup
           {[ts |-> clock', value |-> IF asked = "delta" THEN counter - collected ELSE counter,
             given |-> FALSE, tries |-> 0]}
    /\ UNCHANGED <<choice, turns, spent, counter, points, resumes, missing, repeated>>

GiveUpExport(b) ==
    /\ inflight' = inflight \ {b}
    /\ missing' = missing + IF b.given THEN 0 ELSE b.value
    /\ UNCHANGED <<choice, clock, turns, spent, counter, collected, points, exports, resumes, repeated>>

\* The process ends, with what it has not exported, and the session is resumed.
Resume ==
    /\ resumes < MaxResumes
    /\ resumes' = resumes + 1
    /\ counter' = 0 /\ collected' = 0
    /\ inflight' = {}
    /\ missing' = missing + (counter - collected) + Total(Undelivered)
    /\ UNCHANGED <<choice, clock, turns, spent, points, exports, repeated>>

-----------------------------------------------------------------------------
(* OTLPReceiver._handle.                                                   *)

Answered(b) == inflight' = inflight \ {b}

Retried(b, given) ==
    /\ b.tries < MaxRetries
    /\ inflight' = (inflight \ {b}) \cup {[b EXCEPT !.given = given, !.tries = @ + 1]}

\* The request is read whole, its events are emitted, and then it is answered;
\* the exporter may not get the answer in time.
HandleExport(b) ==
    /\ points' = Append(points, [ts |-> b.ts, value |-> b.value])
    /\ repeated' = (repeated \/ b.given)
    /\ Answered(b) \/ Retried(b, TRUE)
    /\ UNCHANGED <<choice, clock, turns, spent, counter, collected, exports, resumes, missing>>

\* The request is cut off, or the read times out: it is answered 400 and none of
\* its events is emitted.
Refuse(b) ==
    /\ Retried(b, b.given)
    /\ UNCHANGED <<choice, clock, turns, spent, counter, collected, points, exports, resumes, missing, repeated>>

NextTelemetry == \/ Prompt \/ Spend \/ Collect \/ Resume
                 \/ \E b \in inflight : GiveUpExport(b) \/ HandleExport(b) \/ Refuse(b)

SpecTelemetry == InitTelemetry /\ [][NextTelemetry]_telemetry

-----------------------------------------------------------------------------
(* cost_attribution.                                                       *)

Temporality == IF recorded THEN asked ELSE "none"

\* The readings are sorted by time; those of one export, which are equal, as they
\* arrived.  The one before each, and whether the values grow.
Before(i) == {j \in DOMAIN points : \/ points[j].ts < points[i].ts
                                   \/ (points[j].ts = points[i].ts /\ j < i)}

Previous(i) ==
    IF Before(i) = {} THEN 0
    ELSE points[CHOOSE j \in Before(i) : Before(i) = Before(j) \cup {j}].value

Grows == \A i \in DOMAIN points : \A j \in Before(i) : points[j].value <= points[i].value

\* Mutant: the recorded temporality is not looked at.
OfCounter_Guess == Len(points) >= 2 /\ Grows

\* Whether the readings are taken for those of a counter.
OfCounter == \/ Temporality = "cumulative"
             \/ Temporality = "none" /\ Len(points) >= 2 /\ Grows

\* _series_deltas: the increment of each reading.
Increment(i) == points[i].value - IF OfCounter THEN Previous(i) ELSE 0

\* Mutant: the first turn that started before, in place of the latest.
TurnOf_First(ts) == IF turns # <<>> /\ turns[1] <= ts THEN 1 ELSE 0

\* The number of the latest turn that started by then; 0 if there is none.
TurnOf(ts) == Max({0} \cup {k \in DOMAIN turns : turns[k] <= ts})

\* What the turns cost; turn 0 is unattributed_usd.
CostOf(k) ==
    SumFunction([i \in {j \in DOMAIN points : TurnOf(points[j].ts) = k} |-> Increment(i)])

TotalCost == SumFunction([i \in DOMAIN points |-> Increment(i)])

-----------------------------------------------------------------------------
(* Properties.                                                             *)

\* Where the exports can be read exactly: increments that say so, each delivered
\* once, or the counter itself, of one process.
Exact == \/ asked = "delta" /\ recorded /\ ~repeated
         \/ asked = "cumulative" /\ resumes = 0

\* Then the total is what was spent, but for what is not delivered yet or never
\* will be: for a counter, up to the latest reading that was recorded, however
\* often and in whatever order the readings arrived.  And the turns, with what is
\* unattributed, share exactly that total.
CostAddsUp ==
    /\ SumFunction([k \in 0..Len(turns) |-> CostOf(k)]) = TotalCost
    /\ Exact =>
           TotalCost = IF asked = "delta"
                       THEN SumFunction(spent) - missing - (counter - collected) - Total(Undelivered)
                       ELSE Max({0} \cup {points[i].value : i \in DOMAIN points})

\* An export lags behind the work, so cost may be given to a later turn than the
\* one that caused it, but never to an earlier one: no turn and those before it
\* are given more than was spent by its end.
CostNeverEarly ==
    Exact => \A k \in 0..Len(turns) :
        SumFunction([j \in 0..k |-> CostOf(j)]) <= SumFunctionOnSet(spent, 1..(k + 1))
=============================================================================
