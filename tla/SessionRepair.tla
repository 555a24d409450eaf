---------------------------- MODULE SessionRepair ----------------------------
(***************************************************************************)
(* A session log over crashes: what the agent loop appends for turns,      *)
(* steps and tool calls, when the checkpoint policy makes it durable, what *)
(* a crash leaves of it, and how resume closes an interrupted turn         *)
(* (packages/core/session/src/repair.ts and invariant.ts).                 *)
(*                                                                         *)
(* An event's seq is its position in the log.  Two independent folds read  *)
(* the log: the relational invariant (validateEvent) and the repair        *)
(* (interruptedTurnClosers).  A crash keeps the durable prefix and any     *)
(* part of what follows; a crash during the repair keeps any part of the   *)
(* closers.  Call ids repeat across steps; within one message they differ. *)
(***************************************************************************)
EXTENDS Integers, Sequences, FiniteSets, SequencesExt

CONSTANTS
    CallId,      \* ids that a model gives its tool calls
    MaxTurns,    \* bound: turns in a log
    MaxSteps,    \* bound: steps in a log
    MaxChunks,   \* bound: streamed responses in a log
    MaxPrunes,   \* bound: pruned results in a log
    MaxCrashes   \* bound: crashes

ASSUME CallIdAssumption == IsFiniteSet(CallId) /\ CallId # {}
ASSUME BoundsAssumption == /\ MaxTurns \in Nat \ {0}
                           /\ MaxSteps \in Nat \ {0}
                           /\ MaxChunks \in Nat
                           /\ MaxPrunes \in Nat
                           /\ MaxCrashes \in Nat

VARIABLES
    log,        \* the session's events
    disk,       \* a crash keeps at least this many of them
    pc,         \* where the driver is, or "down", or "repairing"
    turn,       \* the driver's last opened turn
    step,       \* the driver's last opened step
    calls,      \* tool calls of the assistant message, in model order
    callSeqs,   \* seqs of their tool/call events
    committed,  \* how many of them have their result
    dispatched, \* indexes of the calls whose body was dispatched
    crashes,    \* crashes so far
    exposed     \* history: the longest log somebody outside acted on

driver == <<turn, step, calls, callSeqs, committed, dispatched>>
vars == <<log, disk, pc, driver, crashes, exposed>>

(* The tool calls a message may carry. *)
Messages == {s \in SeqOf(CallId, Cardinality(CallId)) : IsInjective(s)}

TurnEvent(type, t) == [type |-> type, turn |-> t]
StepEvent(type, t, s) == [type |-> type, turn |-> t, step |-> s]
Message(t, s, cs) == [type |-> "assistant/message", turn |-> t, step |-> s, calls |-> cs]
ToolCall(t, s, c) == [type |-> "tool/call", turn |-> t, step |-> s, call |-> c]
ToolResult(t, s, c, how, cites) ==
    [type |-> "tool/result", turn |-> t, step |-> s, call |-> c, how |-> how,
     surfaceOp |-> "append", cites |-> cites]
(* step/end; `failed` is a history field: the scheduler gave up its calls. *)
StepEnd(t, s, failed) == [type |-> "step/end", turn |-> t, step |-> s, failed |-> failed]
Other(type) == [type |-> type]

IsResult(e) == e.type = "tool/result" /\ e.surfaceOp = "append"
IsReplacement(e) == e.type = "tool/result" /\ e.surfaceOp # "append"

-----------------------------------------------------------------------------
(* The relational invariant.  0 stands for null.                           *)
FreshTrace == [openTurn |-> 0, openStep |-> 0, nextTurn |-> 1, nextStep |-> 1,
               pendingCalls |-> {}, ok |-> TRUE]

InOpenStep(trace, e) == trace.openTurn = e.turn /\ trace.openStep = e.step

ValidEvent(trace, e) ==
    CASE e.type = "turn/start" -> trace.openTurn = 0 /\ e.turn = trace.nextTurn
      [] e.type = "turn/end" -> trace.openTurn = e.turn /\ trace.openStep = 0
      [] e.type = "step/start" -> /\ trace.openTurn = e.turn
                                  /\ trace.openStep = 0
                                  /\ e.step = trace.nextStep
      [] e.type \in {"step/end", "assistant/chunk", "assistant/message", "tool/call"} ->
            InOpenStep(trace, e)
      [] e.type = "tool/result" ->
            IF e.surfaceOp # "append"
            THEN trace.openTurn # 0
            ELSE /\ InOpenStep(trace, e)
                 /\ e.call \in trace.pendingCalls \/ e.how = "TOOL_NOT_STARTED"
      [] e.type = "request/header" -> trace.openTurn # 0
      [] OTHER -> TRUE

Applied(trace, e) ==
    CASE e.type = "turn/start" -> [trace EXCEPT !.openTurn = e.turn, !.nextStep = 1]
      [] e.type = "turn/end" -> [trace EXCEPT !.openTurn = 0, !.nextTurn = @ + 1]
      [] e.type = "step/start" -> [trace EXCEPT !.openStep = e.step]
      [] e.type = "step/end" -> [trace EXCEPT !.openStep = 0, !.nextStep = @ + 1,
                                              !.pendingCalls = {}]
      [] e.type = "tool/call" -> [trace EXCEPT !.pendingCalls = @ \cup {e.call}]
      [] IsResult(e) -> [trace EXCEPT !.pendingCalls = @ \ {e.call}]
      [] OTHER -> trace

(* seedSession: every stored event goes through the same check.            *)
SeedSession(events) ==
    LET trace[n \in 0..Len(events)] ==
            IF n = 0 THEN FreshTrace
            ELSE LET before == trace[n - 1]
                 IN  [Applied(before, events[n])
                        EXCEPT !.ok = before.ok /\ ValidEvent(before, events[n])]
    IN  trace[Len(events)]

-----------------------------------------------------------------------------
(* The repair.  pendingCalls is the insertion-ordered map of the code, as  *)
(* a sequence with one entry per id; callSeq 0 stands for undefined.       *)
NoPending == [openTurn |-> 0, openStep |-> 0, pendingCalls |-> <<>>]

(* Map.delete: what is left of the open calls.                             *)
Without(pending, ids) ==
    LET kept[n \in 0..Len(pending)] ==
            IF n = 0 THEN <<>>
            ELSE IF pending[n].call \in ids THEN kept[n - 1]
            ELSE Append(kept[n - 1], pending[n])
    IN  kept[Len(pending)]

(* Map.set: a call that is open keeps its place, the others go to the end. *)
Register(pending, s, cs) ==
    LET entry(c) == [call |-> c, step |-> s, callSeq |-> 0]
    IN  [i \in DOMAIN pending |-> IF Contains(cs, pending[i].call)
                                  THEN entry(pending[i].call) ELSE pending[i]]
        \o Without([i \in DOMAIN cs |-> entry(cs[i])],
                   {pending[i].call : i \in DOMAIN pending})

Scanned(state, e, seq) ==
    CASE e.type = "turn/start" ->
            [openTurn |-> e.turn, openStep |-> 0, pendingCalls |-> <<>>]
      [] e.type = "turn/end" -> NoPending
      [] e.type = "step/start" -> [state EXCEPT !.openStep = e.step]
      [] e.type = "step/end" -> [state EXCEPT !.openStep = 0, !.pendingCalls = <<>>]
      [] e.type = "assistant/message" ->
            [state EXCEPT !.pendingCalls = Register(@, e.step, e.calls)]
      [] e.type = "tool/call" ->
            [state EXCEPT !.pendingCalls =
                [i \in DOMAIN @ |-> IF @[i].call = e.call
                                    THEN [@[i] EXCEPT !.callSeq = seq] ELSE @[i]]]
      [] e.type = "tool/result" ->
            [state EXCEPT !.pendingCalls = Without(@, {e.call})]
      [] OTHER -> state

Scan(events) ==
    LET state[n \in 0..Len(events)] ==
            IF n = 0 THEN NoPending ELSE Scanned(state[n - 1], events[n], n)
    IN  state[Len(events)]

Closer(t, p) ==
    ToolResult(t, p.step, p.call,
               IF p.callSeq = 0 THEN "TOOL_NOT_STARTED" ELSE "TOOL_OUTCOME_UNKNOWN",
               p.callSeq)

(* Mutant: the step is closed before its calls are answered. *)
ClosersStepFirst(events) ==
    LET tail == Scan(events)
        t == tail.openTurn
    IN  IF t = 0
        THEN <<>>
        ELSE (IF tail.openStep = 0 THEN <<>> ELSE <<StepEnd(t, tail.openStep, FALSE)>>)
             \o [i \in DOMAIN tail.pendingCalls |-> Closer(t, tail.pendingCalls[i])]
             \o <<TurnEvent("turn/end", t)>>

InterruptedTurnClosers(events) ==
    LET tail == Scan(events)
        t == tail.openTurn
    IN  IF t = 0
        THEN <<>>
        ELSE [i \in DOMAIN tail.pendingCalls |-> Closer(t, tail.pendingCalls[i])]
             \o (IF tail.openStep = 0 THEN <<>> ELSE <<StepEnd(t, tail.openStep, FALSE)>>)
             \o <<TurnEvent("turn/end", t)>>

(* turnBoundary.lastTurn, from which a resumed driver goes on counting.    *)
LastTurn(events) ==
    LET k == SelectLastInSeq(events, LAMBDA e : e.type = "turn/start")
    IN  IF k = 0 THEN 0 ELSE events[k].turn

(* _forkSeed accepts the prefix that ends at this seq.                     *)
ForkAccepts(events, boundary) ==
    LET k == SelectLastInSeq(SubSeq(events, 1, boundary),
                             LAMBDA e : e.type \in {"turn/start", "turn/end"})
    IN  k = 0 \/ events[k].type = "turn/end"

-----------------------------------------------------------------------------
Init ==
    /\ log = <<>>
    /\ disk = 0
    /\ pc = "idle"
    /\ turn = 0
    /\ step = 0
    /\ calls = <<>>
    /\ callSeqs = <<>>
    /\ committed = 0
    /\ dispatched = {}
    /\ crashes = 0
    /\ exposed = <<>>

Longer(s, t) == IF Len(s) < Len(t) THEN t ELSE s

(* Mutant: the checkpoint does not wait for storage. *)
NotAwaited(n) == disk' = disk

(* An awaited session/flush that kept its promise: what was in the log     *)
(* when it was called is durable.  Storage may hold more; a crash chooses. *)
(* (JsonlHandle shows the one window in which a flush resolves too early:  *)
(* FlushIsBarrier.)                                                        *)
Flushed(n) == disk' = Max({disk, n})

(* The locals of a step that has called no tools.                          *)
NoStep ==
    /\ calls' = <<>>
    /\ callSeqs' = <<>>
    /\ committed' = 0
    /\ dispatched' = {}

TurnStart ==
    /\ pc = "idle"
    /\ turn < MaxTurns
    /\ log' = Append(log, TurnEvent("turn/start", turn + 1))
    /\ turn' = turn + 1
    /\ step' = 0
    /\ pc' = "turn"
    /\ UNCHANGED <<disk, calls, callSeqs, committed, dispatched, crashes, exposed>>

(* agent/pre-step passes its checkpoint and the step is opened.            *)
StepStart ==
    /\ pc = "turn"
    /\ Cardinality({k \in DOMAIN log : log[k].type = "step/start"}) < MaxSteps
    /\ Flushed(Len(log))
    /\ log' = Append(log, StepEvent("step/start", turn, step + 1))
    /\ step' = step + 1
    /\ NoStep
    /\ pc' = "request"
    /\ UNCHANGED <<turn, crashes, exposed>>

(* The pruner rewrites an earlier result that was not rewritten before, in *)
(* a pre-step or after a request overflowed; the step has no calls yet.    *)
PruneResult(k) ==
    /\ pc \in {"turn", "request"}
    /\ Cardinality({j \in DOMAIN log : IsReplacement(log[j])}) < MaxPrunes
    /\ IsResult(log[k])
    /\ \A j \in DOMAIN log : IsReplacement(log[j]) => log[j].cites # k
    /\ log' = Append(log, [log[k] EXCEPT !.surfaceOp = "replace", !.cites = k])
    /\ UNCHANGED <<disk, pc, driver, crashes, exposed>>

LastOf(type) == SelectLastInSeq(log, LAMBDA e : e.type = type)

(* buildRequest logs the first header of this process, and a new one when  *)
(* the surface was rewritten since.                                        *)
NeedsHeader ==
    \/ LastOf("request/header") <= LastOf("session/end-seed")
    \/ LastOf("request/header") < SelectLastInSeq(log, IsReplacement)

BuildRequest ==
    /\ pc = "request"
    /\ log' = IF NeedsHeader THEN Append(log, Other("request/header")) ELSE log
    /\ pc' = "checkpoint"
    /\ UNCHANGED <<disk, driver, crashes, exposed>>

(* llm/stream: the request leaves once the logged prefix is durable.       *)
Request ==
    /\ pc = "checkpoint"
    /\ Flushed(Len(log))
    /\ exposed' = Longer(exposed, log)
    /\ pc' = "stream"
    /\ UNCHANGED <<log, driver, crashes>>

(* One chunk stands for all chunks of a stream.                            *)
Chunk ==
    /\ pc = "stream"
    /\ Cardinality({k \in DOMAIN log : log[k].type = "assistant/chunk"}) < MaxChunks
    /\ log' = Append(log, StepEvent("assistant/chunk", turn, step))
    /\ pc' = "streamed"
    /\ UNCHANGED <<disk, driver, crashes, exposed>>

(* A failed request that the retry policy repeats.                         *)
RetryRequest ==
    /\ pc = "streamed"
    /\ pc' = "request"
    /\ UNCHANGED <<log, disk, driver, crashes, exposed>>

(* The finished message; a cut-off one carries no calls.                   *)
AssistantMessage(cs) ==
    /\ pc = "streamed"
    /\ log' = Append(log, Message(turn, step, cs))
    /\ calls' = cs
    /\ pc' = IF cs = <<>> THEN "closing" ELSE "tools"
    /\ UNCHANGED <<disk, turn, step, callSeqs, committed, dispatched, crashes, exposed>>

(* A cancelled stream keeps its text and none of its tool calls.           *)
InterruptedMessage ==
    /\ pc = "streamed"
    /\ log' = Append(log, Message(turn, step, <<>>))
    /\ pc' = "throwing"
    /\ UNCHANGED <<disk, driver, crashes, exposed>>

(* A step that throws before its message: request building, checkpoint,    *)
(* or a failure that is not retried.                                       *)
RequestFails ==
    /\ pc \in {"request", "checkpoint", "stream", "streamed"}
    /\ pc' = "throwing"
    /\ UNCHANGED <<log, disk, driver, crashes, exposed>>

StartCall ==
    /\ pc = "tools"
    /\ Len(callSeqs) < Len(calls)
    /\ log' = Append(log, ToolCall(turn, step, calls[Len(callSeqs) + 1]))
    /\ callSeqs' = Append(callSeqs, Len(log) + 1)
    /\ UNCHANGED <<disk, pc, turn, step, calls, committed, dispatched, crashes, exposed>>

(* tools/execute: the call is durable before its body begins.              *)
Dispatch(i) ==
    /\ pc = "tools"
    /\ i \in (committed + 1)..Len(callSeqs)
    /\ i \notin dispatched
    /\ Flushed(callSeqs[i])
    /\ dispatched' = dispatched \cup {i}
    /\ exposed' = Longer(exposed, SubSeq(log, 1, callSeqs[i]))
    /\ UNCHANGED <<log, pc, turn, step, calls, callSeqs, committed, crashes>>

(* Results are committed in model order, of bodies and of denied calls.    *)
CommitResult ==
    /\ pc = "tools"
    /\ committed < Len(callSeqs)
    /\ log' = Append(log, ToolResult(turn, step, calls[committed + 1], "outcome",
                                     callSeqs[committed + 1]))
    /\ committed' = committed + 1
    /\ UNCHANGED <<disk, pc, turn, step, calls, callSeqs, dispatched, crashes, exposed>>

(* All results are in; whether the turn goes on is decided at "turn".       *)
ToolsDone ==
    /\ pc = "tools"
    /\ committed = Len(calls)
    /\ pc' = "closing"
    /\ UNCHANGED <<log, disk, driver, crashes, exposed>>

SkippedPair(k, seq) ==
    <<ToolCall(turn, step, calls[k]),
      ToolResult(turn, step, calls[k], "skipped", seq)>>

(* Cancelled: the started calls are committed, the others get their pair.  *)
SkipRemaining ==
    /\ pc = "tools"
    /\ committed = Len(callSeqs)
    /\ committed < Len(calls)
    /\ log' = log \o FlattenSeq([j \in 1..(Len(calls) - committed) |->
                                    SkippedPair(committed + j, Len(log) + 2 * j - 1)])
    /\ pc' = "throwing"
    /\ UNCHANGED <<disk, driver, crashes, exposed>>

(* The scheduler itself fails and fabricates no results.                   *)
SchedulerFails ==
    /\ pc = "tools"
    /\ pc' = "failing"
    /\ UNCHANGED <<log, disk, driver, crashes, exposed>>

EndStep ==
    /\ pc \in {"closing", "throwing", "failing"}
    /\ log' = Append(log, StepEnd(turn, step, pc = "failing"))
    /\ pc' = IF pc = "closing" THEN "turn" ELSE "ending"
    /\ NoStep
    /\ UNCHANGED <<disk, turn, step, crashes, exposed>>

EndTurn ==
    /\ pc \in {"turn", "ending"}
    /\ log' = Append(log, TurnEvent("turn/end", turn))
    /\ pc' = "idle"
    /\ UNCHANGED <<disk, driver, crashes, exposed>>

-----------------------------------------------------------------------------
(* The process dies.  The log is what storage still holds.                 *)
Crash(kept) ==
    /\ pc # "down"
    /\ crashes < MaxCrashes
    /\ kept \in disk..Len(log)
    /\ log' = SubSeq(log, 1, kept)
    /\ disk' = kept
    /\ pc' = "down"
    /\ crashes' = crashes + 1
    /\ NoStep
    /\ turn' = 0
    /\ step' = 0
    /\ UNCHANGED exposed

(* resumeWith: read, and append the closers as one batch.                  *)
Resume ==
    /\ pc = "down"
    /\ log' = log \o InterruptedTurnClosers(log)
    /\ pc' = "repairing"
    /\ UNCHANGED <<disk, driver, crashes, exposed>>

(* Mutant: the rollback truncates too much. *)
RollbackToNothing ==
    /\ pc = "repairing"
    /\ log' = <<>>
    /\ pc' = "down"
    /\ UNCHANGED <<disk, driver, crashes, exposed>>

(* The append is refused and rolled back; somebody may try again.          *)
ResumeFails ==
    /\ pc = "repairing"
    /\ log' = SubSeq(log, 1, disk)
    /\ pc' = "down"
    /\ UNCHANGED <<disk, driver, crashes, exposed>>

(* The session is built from the repaired log and marked, its driver       *)
(* starts from the last turn of the log.                                   *)
Resumed ==
    /\ pc = "repairing"
    /\ log' = IF log # <<>> /\ Last(log).type = "session/end-seed"
              THEN log ELSE Append(log, Other("session/end-seed"))
    /\ turn' = LastTurn(log)
    /\ step' = 0
    /\ pc' = "idle"
    /\ UNCHANGED <<disk, calls, callSeqs, committed, dispatched, crashes, exposed>>

Next ==
    \/ TurnStart
    \/ StepStart
    \/ \E k \in DOMAIN log : PruneResult(k)
    \/ BuildRequest
    \/ Request
    \/ Chunk
    \/ RetryRequest
    \/ \E cs \in Messages : AssistantMessage(cs)
    \/ InterruptedMessage
    \/ RequestFails
    \/ StartCall
    \/ \E i \in DOMAIN callSeqs : Dispatch(i)
    \/ CommitResult
    \/ ToolsDone
    \/ SkipRemaining
    \/ SchedulerFails
    \/ EndStep
    \/ EndTurn
    \/ \E kept \in 0..Len(log) : Crash(kept)
    \/ Resume
    \/ ResumeFails
    \/ Resumed

Spec == Init /\ [][Next]_vars

-----------------------------------------------------------------------------
(* Type correctness; what is durable is part of the log, and no more calls *)
(* are answered than started, or started than asked for.                   *)
TypeOK ==
    /\ disk \in 0..Len(log)
    /\ pc \in {"idle", "turn", "request", "checkpoint", "stream", "streamed", "tools",
              "closing", "throwing", "failing", "ending", "down", "repairing"}
    /\ turn \in 0..MaxTurns
    /\ step \in 0..MaxSteps
    /\ calls \in Messages
    /\ committed <= Len(callSeqs) /\ Len(callSeqs) <= Len(calls)
    /\ dispatched \subseteq DOMAIN callSeqs
    /\ crashes \in 0..MaxCrashes

(* The log is accepted by the relational invariant from its first event,   *)
(* in every state: while the loop appends, after a crash at any point,     *)
(* after the repair, and when the resumed driver numbers its next turn.    *)
SeedAccepted == SeedSession(log).ok

ResultsFor(e, c) ==
    {k \in DOMAIN log : /\ IsResult(log[k])
                        /\ <<log[k].turn, log[k].step, log[k].call>> = <<e.turn, e.step, c>>}

(* A provider rejects a transcript with dangling calls: once a step is     *)
(* closed, by the loop or by the repair, every call of its message has     *)
(* exactly one result (unless the scheduler failed in that step), and no   *)
(* call ever has two.                                                      *)
AnsweredOnce ==
    \A k \in DOMAIN log : log[k].type = "assistant/message" =>
        \A i \in DOMAIN log[k].calls :
            LET n == Cardinality(ResultsFor(log[k], log[k].calls[i]))
            IN  /\ n <= 1
                /\ (\E j \in DOMAIN log : log[j] = StepEnd(log[k].turn, log[k].step, FALSE))
                       => n = 1

(* A result cites the tool/call event of its own call in its own step, and *)
(* a call is reported as TOOL_NOT_STARTED only if the log never recorded   *)
(* its start, although ids repeat and the log was cut and repaired.        *)
CitesItsCall ==
    \A k \in DOMAIN log : IsResult(log[k]) =>
        LET start == ToolCall(log[k].turn, log[k].step, log[k].call)
        IN  IF log[k].how = "TOOL_NOT_STARTED"
            THEN log[k].cites = 0 /\ ~Contains(log, start)
            ELSE log[k].cites \in 1..(k - 1) /\ log[log[k].cites] = start

(* Results match their calls, one to one and by citation.                  *)
ResultsFaithful == AnsweredOnce /\ CitesItsCall

(* What the outside has acted on stays in the log through every crash and  *)
(* repair: the history sent with a model request, and the recorded start   *)
(* of a tool call whose body began.  With CitesItsCall: such a call is     *)
(* never reported as not started.                                          *)
ExposedIsKept == IsPrefix(exposed, log)

(* The log tells the truth about what ran: one result for each call, about   *)
(* that call, and none of what was acted upon is missing (the checkpoints,   *)
(* interruptedTurnClosers).                                                  *)
TranscriptIsTrue == ResultsFaithful /\ ExposedIsKept

(* A crash in the middle of the repair is harmless: whatever part of the   *)
(* closers was stored, the next resume appends exactly the rest.           *)
RepairResumes ==
    pc = "down" =>
        LET closers == InterruptedTurnClosers(log)
        IN  \A k \in 0..Len(closers) :
                InterruptedTurnClosers(log \o SubSeq(closers, 1, k))
                    = SubSeq(closers, k + 1, Len(closers))

(* A repaired log is a legal log, whole or cut short a second time.        *)
RepairIsSound == SeedAccepted /\ RepairResumes

(* A fork is accepted exactly where nothing is open: _forkSeed looks at    *)
(* the last turn boundary only, the relational invariant at everything.    *)
(* (Every prefix of a log is itself a log: a crash may leave it.)          *)
ForkIsClosed ==
    LET trace == SeedSession(log)
    IN  log # <<>> =>
            (ForkAccepts(log, Len(log))
                <=> trace.openTurn = 0 /\ trace.openStep = 0 /\ trace.pendingCalls = {})

(* Crashed, repaired, cut again or forked, a log is one the session takes.  *)
LogsAreLegal == RepairIsSound /\ ForkIsClosed
=============================================================================
