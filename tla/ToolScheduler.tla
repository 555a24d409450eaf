---------------------------- MODULE ToolScheduler ----------------------------
(***************************************************************************)
(* The scheduler that runs one assistant step's tool calls                 *)
(* (packages/core/agent-loop/src/tool-calls.ts).                           *)
(*                                                                         *)
(* The model's calls are numbered 1..N in model order.  They are cut into  *)
(* groups: an exclusive call is a group of its own, a parallel call opens  *)
(* a group of everything that is left and runs it through a bounded pool,  *)
(* re-reading the mode of every later call just before starting it.  Tool  *)
(* bodies overlap; the durable tool/call and tool/result events do not     *)
(* leave model order.                                                      *)
(*                                                                         *)
(* An action is the code between two awaits.  The registry (mode), the     *)
(* turn's abort signal and the settling of dispatched bodies belong to     *)
(* other tasks and may change at every await.  A tool body or policy hook  *)
(* that fails is folded into an error result by dsh-tools; "failure" is a  *)
(* failure of the scheduler itself (a stage that rejects, a refused        *)
(* append, a refused context).                                             *)
(***************************************************************************)
EXTENDS Naturals, Sequences, FiniteSets

CONSTANTS
    N,             \* how many calls the assistant message carries
    MaxParallel,   \* config.maxParallelToolCalls
    MaxFlips       \* bound: how often plugins re-register a tool's mode

ASSUME NAssumption == N \in Nat \ {0}
ASSUME MaxParallelAssumption == MaxParallel \in Nat \ {0}
ASSUME MaxFlipsAssumption == MaxFlips \in Nat

VARIABLES
    pc,         \* where executeToolCalls/runGroup awaits
    mode,       \* live ctx.tools.executionMode of every call
    flips,      \* mode changes so far
    signal,     \* signal.aborted of the step
    last,       \* last call of the running group
    started,    \* calls 1..started have their tool/call event
    committed,  \* calls 1..committed have their tool/result event
    startedAs,  \* the mode a call was started under
    inFlight,   \* keys of the inFlight map
    running,    \* dispatched bodies that have not settled
    slots,      \* calls whose settled outcome waits for finalization
    failure,    \* schedulerFailure is set
    concluded,  \* accumulated concludesTurn of the committed results
    log         \* durable tool events of the step, in append order

vars == <<pc, mode, flips, signal, last, started, committed, startedAs,
          inFlight, running, slots, failure, concluded, log>>

Calls == 1..N
Modes == {"parallel", "exclusive"}
Exits == {"done", "failed"}

CallEvent(i) == [type |-> "tool/call", call |-> i]
ResultEvent(i, how) == [type |-> "tool/result", call |-> i, how |-> how]
Events == {CallEvent(i) : i \in Calls}
          \cup {ResultEvent(i, how) : i \in Calls, how \in {"plain", "concludes", "skipped"}}

(* Mutant: one pair too many. *)
SkippedPairsOffByOne(lo, hi) ==
    [k \in 1..(2 * (hi - lo + 2)) |->
        LET i == lo + (k - 1) \div 2
        IN  IF k % 2 = 1 THEN CallEvent(i) ELSE ResultEvent(i, "skipped")]

(* appendSkippedToolCall for every call of a range, in order. *)
SkippedPairs(lo, hi) ==
    [k \in 1..(IF hi < lo THEN 0 ELSE 2 * (hi - lo + 1)) |->
        LET i == lo + (k - 1) \div 2
        IN  IF k % 2 = 1 THEN CallEvent(i) ELSE ResultEvent(i, "skipped")]

-----------------------------------------------------------------------------
Init ==
    /\ pc = "classify"
    /\ mode \in [Calls -> Modes]
    /\ flips = 0
    /\ signal \in BOOLEAN
    /\ last = 0
    /\ started = 0
    /\ committed = 0
    /\ startedAs = [i \in Calls |-> "none"]
    /\ inFlight = {}
    /\ running = {}
    /\ slots = {}
    /\ failure = FALSE
    /\ concluded = FALSE
    /\ log = <<>>

(* startCall up to its first await: the tool/call event is durable before  *)
(* the policy gate of the call runs.                                       *)
StartCall(i) ==
    /\ log' = Append(log, CallEvent(i))
    /\ started' = i
    /\ startedAs' = [startedAs EXCEPT ![i] = mode[i]]
    /\ pc' = "prepare"

(* abort: every call that was not started gets its synthetic pair. *)
SkipRemaining ==
    /\ log' = log \o SkippedPairs(started + 1, N)
    /\ pc' = "done"
    /\ UNCHANGED <<started, startedAs>>

(* executeToolCalls: classify the first unconsumed call and enter runGroup, *)
(* which reads the signal and starts the first call before it awaits.       *)
Classify ==
    /\ pc = "classify"
    /\ started < N
    /\ last' = IF mode[started + 1] = "parallel" THEN N ELSE started + 1
    /\ IF signal THEN SkipRemaining ELSE StartCall(started + 1)
    /\ UNCHANGED <<mode, flips, signal, committed, inFlight, running, slots,
                   failure, concluded>>

AllConsumed ==
    /\ pc = "classify"
    /\ started = N
    /\ pc' = "done"
    /\ UNCHANGED <<mode, flips, signal, last, started, committed, startedAs,
                   inFlight, running, slots, failure, concluded, log>>

(* The awaited prepare stage of call `started` resolves.  The gate never    *)
(* asks for a dispatch once the caller is cancelled.  A failure recorded    *)
(* meanwhile by a dispatched body is thrown before the outcome is used.     *)
Prepared(outcome) ==
    /\ pc = "prepare"
    /\ outcome = "dispatch" => ~signal
    /\ IF failure \/ outcome = "reject"
       THEN /\ failure' = TRUE
            /\ pc' = "drain"
            /\ UNCHANGED <<inFlight, running, slots>>
       ELSE /\ pc' = "commit"
            /\ IF outcome = "dispatch"
               THEN /\ inFlight' = inFlight \cup {started}
                    /\ running' = running \cup {started}
                    /\ UNCHANGED slots
               ELSE /\ slots' = slots \cup {started}
                    /\ UNCHANGED <<inFlight, running>>
            /\ UNCHANGED failure
    /\ UNCHANGED <<mode, flips, signal, last, started, committed, startedAs,
                   concluded, log>>

(* Mutant: results are committed as they settle. *)
CommitAnySettled(concludes) ==
    /\ pc = "commit"
    /\ \E i \in slots :
          /\ \A k \in DOMAIN log : log[k].type = "tool/result" => log[k].call # i
          /\ log' = Append(log, ResultEvent(i, IF concludes THEN "concludes" ELSE "plain"))
    /\ concluded' = (concluded \/ concludes)
    /\ committed' = committed + 1
    /\ UNCHANGED <<pc, mode, flips, signal, last, started, startedAs, inFlight,
                   running, slots, failure>>

(* commitReady finalizes the next model-order slot, appends its result,     *)
(* accepts its contexts and advances.                                       *)
CommitNext(concludes) ==
    /\ pc = "commit"
    /\ committed + 1 \in slots
    /\ log' = Append(log, ResultEvent(committed + 1, IF concludes THEN "concludes" ELSE "plain"))
    /\ concluded' = (concluded \/ concludes)
    /\ committed' = committed + 1
    /\ UNCHANGED <<pc, mode, flips, signal, last, started, startedAs, inFlight,
                   running, slots, failure>>

(* The finalization, the append or a context is refused; the context is     *)
(* accepted after the result became durable.                                *)
CommitThrows(resultLogged) ==
    /\ pc = "commit"
    /\ committed + 1 \in slots
    /\ log' = IF resultLogged THEN Append(log, ResultEvent(committed + 1, "plain")) ELSE log
    /\ failure' = TRUE
    /\ pc' = "drain"
    /\ UNCHANGED <<mode, flips, signal, last, started, committed, startedAs,
                   inFlight, running, slots, concluded>>

CommitDone ==
    /\ pc = "commit"
    /\ committed + 1 \notin slots
    /\ pc' = IF failure THEN "drain" ELSE "fill"
    /\ UNCHANGED <<mode, flips, signal, last, started, committed, startedAs,
                   inFlight, running, slots, failure, concluded, log>>

(* Mutants: the pool also starts calls that are not parallel, or ignores the signal. *)
CanStartUnclassified ==
    /\ ~signal
    /\ started < last
    /\ Cardinality(inFlight) < MaxParallel

CanStartAborted ==
    /\ started < last
    /\ Cardinality(inFlight) < MaxParallel
    /\ mode[started + 1] = "parallel"

(* fillPool may start another call of the group. *)
CanStart ==
    /\ ~signal
    /\ started < last
    /\ Cardinality(inFlight) < MaxParallel
    /\ mode[started + 1] = "parallel"

Fill ==
    /\ pc = "fill"
    /\ CanStart
    /\ StartCall(started + 1)
    /\ UNCHANGED <<mode, flips, signal, last, committed, inFlight, running,
                   slots, failure, concluded>>

AwaitRace ==
    /\ pc = "fill"
    /\ ~CanStart
    /\ inFlight # {}
    /\ pc' = "race"
    /\ UNCHANGED <<mode, flips, signal, last, started, committed, startedAs,
                   inFlight, running, slots, failure, concluded, log>>

(* The pool is empty: an aborted group pairs off what it did not start,     *)
(* any other returns to executeToolCalls for the next classification.       *)
GroupEnds ==
    /\ pc = "fill"
    /\ ~CanStart
    /\ inFlight = {}
    /\ IF signal
       THEN SkipRemaining
       ELSE /\ pc' = "classify"
            /\ UNCHANGED <<log, started, startedAs>>
    /\ UNCHANGED <<mode, flips, signal, last, committed, inFlight, running,
                   slots, failure, concluded>>

(* Mutant: the settled entry stays in the map. *)
RaceKeepsEntry(i) ==
    /\ pc = "race"
    /\ i \in inFlight \ running
    /\ pc' = IF failure THEN "drain" ELSE "commit"
    /\ UNCHANGED <<mode, flips, signal, last, started, committed, startedAs,
                   inFlight, running, slots, failure, concluded, log>>

(* Promise.race hands over a settled entry of the map. *)
Race(i) ==
    /\ pc = "race"
    /\ i \in inFlight \ running
    /\ inFlight' = inFlight \ {i}
    /\ pc' = IF failure THEN "drain" ELSE "commit"
    /\ UNCHANGED <<mode, flips, signal, last, started, committed, startedAs,
                   running, slots, failure, concluded, log>>

(* The catch clause waits for every dispatched body, then rethrows. *)
Drain ==
    /\ pc = "drain"
    /\ inFlight \cap running = {}
    /\ pc' = "failed"
    /\ UNCHANGED <<mode, flips, signal, last, started, committed, startedAs,
                   inFlight, running, slots, failure, concluded, log>>

(* A dispatched body settles: into its slot, or as a scheduler failure. *)
Settle(i, rejects) ==
    /\ i \in running
    /\ running' = running \ {i}
    /\ slots' = IF rejects THEN slots ELSE slots \cup {i}
    /\ failure' = (failure \/ rejects)
    /\ UNCHANGED <<pc, mode, flips, signal, last, started, committed, startedAs,
                   inFlight, concluded, log>>

(* Agent.cancel fires the turn's signal. *)
Abort ==
    /\ ~signal
    /\ signal' = TRUE
    /\ UNCHANGED <<pc, mode, flips, last, started, committed, startedAs,
                   inFlight, running, slots, failure, concluded, log>>

(* A plugin replaces a registered tool by one of the other mode. *)
Reclassify(i) ==
    /\ flips < MaxFlips
    /\ pc \notin Exits
    /\ mode' = [mode EXCEPT ![i] = IF @ = "parallel" THEN "exclusive" ELSE "parallel"]
    /\ flips' = flips + 1
    /\ UNCHANGED <<pc, signal, last, started, committed, startedAs, inFlight,
                   running, slots, failure, concluded, log>>

Scheduler ==
    \/ Classify
    \/ AllConsumed
    \/ \E outcome \in {"dispatch", "post-result", "final-result", "reject"} : Prepared(outcome)
    \/ \E concludes \in BOOLEAN : CommitNext(concludes)
    \/ \E resultLogged \in BOOLEAN : CommitThrows(resultLogged)
    \/ CommitDone
    \/ Fill
    \/ AwaitRace
    \/ GroupEnds
    \/ \E i \in Calls : Race(i)
    \/ Drain

Bodies == \E i \in Calls, rejects \in BOOLEAN : Settle(i, rejects)

Next ==
    \/ Scheduler
    \/ Bodies
    \/ Abort
    \/ \E i \in Calls : Reclassify(i)

(* The event loop runs every continuation that is ready, and tool bodies    *)
(* are required to settle; nobody has to cancel or re-register anything.    *)
Spec == Init /\ [][Next]_vars /\ WF_vars(Scheduler) /\ WF_vars(Bodies)

-----------------------------------------------------------------------------
ControlType ==
    /\ pc \in {"classify", "prepare", "commit", "fill", "race", "drain"} \cup Exits
    /\ mode \in [Calls -> Modes]
    /\ startedAs \in [Calls -> Modes \cup {"none"}]

CounterType ==
    /\ flips \in 0..MaxFlips
    /\ last \in 0..N
    /\ started \in 0..N
    /\ committed \in 0..N

SetType == inFlight \subseteq Calls /\ running \subseteq Calls /\ slots \subseteq Calls

FlagType == {signal, failure, concluded} \subseteq BOOLEAN

LogType == log \in Seq(Events)

TypeOK == ControlType /\ CounterType /\ SetType /\ FlagType /\ LogType

(* The started calls whose result is not durable yet. *)
Open == (committed + 1)..started

(* No more than maxParallelToolCalls dispatches are ever in flight, even    *)
(* while the calls of a drained pool are reclassified and restarted.        *)
PoolBound == Cardinality(running) <= MaxParallel

(* An exclusive call is an ordering barrier: while it is open no other call *)
(* is, so no earlier body can still be running and no later call starts     *)
(* before its result is committed.                                          *)
ExclusiveBarrier ==
    \A i \in Open : startedAs[i] = "exclusive" => Open = {i}

(* The durable events stay in model order whatever order bodies settle in:  *)
(* calls and results each appear at most once and in increasing order, and  *)
(* no result precedes its call.                                             *)
ModelOrder ==
    \A j, k \in DOMAIN log : j < k =>
        /\ log[j].type = log[k].type => log[j].call < log[k].call
        /\ log[j].type = "tool/result" /\ log[k].type = "tool/call"
              => log[j].call # log[k].call

(* Completion and cancellation alike leave every model call with its        *)
(* durable call/result pair, so the transcript replays.                     *)
CompleteOnExit ==
    pc = "done" => \A i \in Calls, type \in {"tool/call", "tool/result"} :
                      \E k \in DOMAIN log : log[k].type = type /\ log[k].call = i

(* A scheduler failure keeps the recorded calls and fabricates no result.   *)
FailureFabricatesNothing ==
    pc = "failed" => \A k \in DOMAIN log :
                        log[k].type = "tool/result" => log[k].how # "skipped"

(* Cancellation and failure never abandon a body: the step is left only     *)
(* when everything that was dispatched has settled.                         *)
QuiescentOnExit == pc \in Exits => running = {}

(* The guard the code marks unreachable: a group that returns normally has  *)
(* committed everything it started.                                         *)
GroupCommitsStarted == pc = "classify" => committed = started /\ inFlight = {}

(* The turn is concluded exactly when some committed result asked for it,   *)
(* in whichever group that was.                                             *)
ConcludedFaithful ==
    concluded <=> \E k \in DOMAIN log :
                     log[k].type = "tool/result" /\ log[k].how = "concludes"

(* The pool keeps its bound and its barriers, whatever is reclassified.     *)
PoolDiscipline == PoolBound /\ ExclusiveBarrier

(* What reaches the log: pairs in model order, all of them when the batch   *)
(* ends, and the conclusion the committed results ask for.                  *)
CommitDiscipline ==
    ModelOrder /\ CompleteOnExit /\ GroupCommitsStarted /\ ConcludedFaithful

(* A batch that ends early abandons no body and invents no result.          *)
FailureIsContained == FailureFabricatesNothing /\ QuiescentOnExit

(* The log tells what happened, whichever way the batch ends: its pairs are *)
(* in order, complete, and none of them is invented or still running.       *)
LogIsTrue == CommitDiscipline /\ FailureIsContained

(* Once the signal is aborted no further body is dispatched and no further  *)
(* call is started for real.                                                *)
NoStartAfterAbort ==
    [][signal => running' \subseteq running /\ started' = started]_vars

(* Every batch ends, by completion, cancellation or failure. *)
Terminates == <>(pc \in Exits)

=============================================================================
