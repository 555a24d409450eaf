# TLA+ specifications of the dsh kernel

The dsh kernel is an agent runtime: plugins on a dependency-injection host, an
agent loop that drives a language model through turns and steps, tools it may
call, and an append-only session log from which everything else is derived and
recovered.  The program is single-threaded JavaScript, so its hard cases are
not memory races.  They are the things that happen *at an await*: another task
calls the agent, a cancel arrives, a plugin re-registers a tool, a timer fires,
a storage call fails, the process dies; and the things that happen *inside a
publication*, when an observer calls back into the code that is notifying it.
These specifications model that core and leave out text, transport and user
interface.

## Inventory

| Part (under `src/packages/`) | State | Operations | What makes it correct |
|---|---|---|---|
| tool-call scheduler, `core/agent-loop/src/tool-calls.ts` | a batch of calls, the in-flight map, settled slots, the signal | classify, start, dispatch, settle, commit, skip, drain | bounded pool, exclusive barriers, durable events in model order, every call paired, nothing abandoned |
| agent driver, `core/agent-loop/src/agent.ts` | phase, abort controller, wake latch, turn and step counters | send, cancel, maintenance, turn, step, whenIdle | boundaries well formed on every path, no wake lost, cancel and teardown converge |
| inbox, `core/agent/src/inbox.ts` | two durable pending lists | splice, claim, remove, clear, replay | a message is claimed once; replay rebuilds the lists |
| session log, `core/session/src` | events, trace of open turn/step/calls | append, flush, fork, repair | relational invariant; a crashed log is repaired to an acceptable one, and says truthfully what ran |
| agent lifecycle, `core/agent-loop/src/index.ts` | registry entries, write handle, stored cursor | create, resume, publish, dispose | one owner per id, nothing published unstored, failed creation leaves nothing |
| JSONL storage, `session/session-persistence-jsonl/src` | artifact, write handle: chain, buffer, timer, drain | create, open, append, flush, close | contiguous log over crashes and failures, flush is durable, one writer |
| tools pipeline, `core/tools/src` | registry, hooks | prepare, dispatch, finalize | hook order, an outcome for every call |
| goals, `goal/goal`, `goal/goal-round-driver` | the goal folded from the log, armed flag, the driver's attempt and pass | create, edit, pause, clear, queue and admit a round, unload | no stale round enters, a round waits for its checkpoint, an armed goal is worked on until it concludes |
| subagents, `subagent/subagent/src/continuation.ts` | activations, ownership edges, child locks, closing scopes | start, deliver, settle, interrupt, drain | a working child keeps its parent, nothing else does; drains are final; everything settles |
| background jobs, `jobs/jobs-local`, `jobs/tool-jobs` | records, waiters, wake budget, owner cleanups | start, settle, kill, read, wait, notify, dispose | no completion silenced without a reason, no work without a record, bounded wakes |
| approvals and questions, workflows | registries of pending work | ask, answer, cancel, dispose | everything pending settles once |
| llm retry and timeouts | attempt counter, delays | attempt, back off, abort | bounded, abortable |
| compaction, projections, checkpoints, titles | folds of the log | fold, replace, cache | a projection equals the fold of its log |
| settings, storage domains | documents on disk | read-modify-write, reload | no lost update |
| gateway streams, `api/gateway/src/client/{remote-stream,journal-stream}.ts` | generation, revision and retry count of a stream; cursors of the window shown | open, accept, restart, repair, prepend, dispose | the window is one unbroken stretch that never moves back; a stream gives up only for a cause and catches up otherwise |
| client connection, `client/connection/src/client`, with the mux of `api/gateway/src/client/stream-client.ts` | loop, attempt, delay; socket, waiters, streams; generation and state shown | start, reconnect, network on and off, stop; open, connect, lose, close | the loop never hangs, no stream stays on a dead socket, what is shown is so |
| rest of the gateway, client, shells, sandboxes, file and web tools, boot, type generator | mostly I/O and text | | |

The components interact by calls and callbacks inside one process.  The driver
appends to the session; the session publishes each event synchronously to its
observers, one of which buffers it in the write handle; the checkpoint policy
flushes the handle before model calls and tool bodies; the scheduler runs
inside a step of the driver; disposal cancels the driver, waits for it, closes
the handle and leaves the registries.  Goals, subagents and jobs drive agents
from the outside: each reacts to status edges, inbox notifications and
settlements by sending a message that may start a turn, and each has to cope
with the agent being cancelled, maintained or disposed at that moment.  A client
follows the journals of a Host over a socket it may lose at any moment.

`PROJECT.json` lists every component with its status, and the hazards of the
code at their lines.

## Modules

**`ToolScheduler`** models `executeToolCalls`/`runGroup` for one batch.  `pc`
is the await the code is at (`classify` stands for the top of the loop);
`started`, `committed`, `inFlight`, `slots`, `failure` and `concluded` are the
variables of the same names, `running` the bodies that have not settled, `mode`
the live answer of `ctx.tools.executionMode`.  One action is the code between
two awaits: `Classify` reads the mode, enters `runGroup` and starts the first
call; `Prepared` is the policy gate's answer; `CommitNext`/`CommitThrows`
finalize the next model-order slot; `Fill` and `AwaitRace` are `fillPool` and
the pool loop; `Drain` is the catch clause.  `Settle`, `Abort` and `Reclassify`
belong to other tasks and may happen at every await.  Tool bodies and hooks
that fail are folded into error results before the scheduler sees them, so a
failure in the model is one of the scheduler itself.

**`AgentDriver`** models one `ManagedAgent`: phase, inbox and the turn/step
loop.  Segments between awaits are actions.  Three kinds of points in between
let others in: an await (anybody may call), a status or inbox notification
(`conv`, `sending`, `pc = "turn"`: observers may call before the segment goes
on), and the publication of a session event (`SyncPoint`), where a reentrant
append is refused by the session, so that only a cancel that touches no inbox
list gets through.  The session log is represented by the trace that
`validateEvent` folds it into; `illegal` records a boundary that breaks the
relational invariant.  The session may refuse what the driver appends: a
`turn/start` or a claim (`TurnStartThrows`, `ClaimThrows`), and the closing
appends of the two `finally` clauses (`StepEndThrows`, `TurnEndThrows`), which
leave the step or the turn open; `lost` records that.  Where the invariant
companion is not mounted, an append that breaks its rules is taken; the model
allows both.  `disposing` follows `whenIdle` through its loop: it awaits
`activityDone`, which may be replaced meanwhile ("stale"), and returns when the
promise it awaited is still the current one ("done").  The agent stays
registered after that, so callers may go on waking it ("woken").  `lastEnd`,
`wakers`, `late`, `owes` and `lost` are history variables for the properties.

**`JsonlHandle`** models one stored session over several write handles: the
promise chain, the routed live buffer, the batching timer, the single-flight
drain, `session/flush`, `close`, the ownership table, the artifact itself, and
the part of creation and resume that stores the unpublished prefix and
publishes.  An event is its seq.  The artifact is a count of committed events,
whether torn bytes follow, how many records a torn zstd frame still yields, and
whether it was ever made unreadable.  Continuations (microtasks) run before
timers and storage completions (macrotasks), as in the event loop: `Ready`,
`Macrotask`.  A storage call takes effect when it settles; it may fail without
effect, fail after its effect, fail and fail to roll back, or be cut short by a
crash.  `taint` records that the log left the code's hands, so that each
property can say exactly which exceptions it makes.

**`SessionRepair`** models the session log of one agent over several
processes: the events the loop appends for turns, steps, requests, messages and
tool calls, the three checkpoints of the checkpoint policy, a crash that keeps
the durable prefix and any part of the rest, and `resumeWith`, which appends the
closers of `interruptedTurnClosers` as one batch, marks the seed and counts on
from the last turn.  An event's seq is its position.  The relational invariant
(`SeedSession`) and the repair (`Scan`) are two independent folds of the same
log, as in the code; the fork check and the turn projection are two more.  Call
ids repeat across steps, as adapters may repeat them, and differ within a
message.  `exposed` is a history variable: the longest log on which a model
request or a tool body was started.  The `failed` field of a step's end is
history too: it marks a step whose scheduler failed, which fabricates no
results.  The scheduling inside a step is that of `ToolScheduler`, reduced to
its durable events; one chunk stands for a stream.

**`AgentLifecycle`** models create, createAgent, resume and configured starts
on one session id: each transaction from its first await to its answer, the
teardown it registers, the session store and agent registry it publishes in,
and the write claim of the backend.  `at` is the await, `disp` the memoized
disposal.  A publication is one synchronous segment whose listeners may veto or
tear down, so it is split at the announcements.  A caller's abort, an unload, a
backend that is not mounted and an I/O failure are choices at the awaits where
the code meets them.  **`SessionIdentity`** is what callers may rely on for the
id: one holder, visible only while held, a log created once and never replaced.
`AgentLifecycle` implements it with `holder` as the write claim, or the store's
entry without a backend (`ImplementsIdentity`).

**`GoalRounds`** composes the goal service (`g`: the strict fold with its
activation and the state of its checkpoint), the round driver (`d`: the
attempt, the coalesced pass that awaits a flush) and the part of the agent they
race with: the two inbox lists, a claim, the pre-step listener before and after
the other listeners, cancel, maintenance, restart.  `OuterAwait` is a
composition in which a listener mounted before the driver awaits after the
driver's last check, as `agent-instructions` does in the base bundle; everybody
may act there.  `hist` remembers what a cancel met.  **`GoalFence`** adds a
history variable to `GoalRounds`: `overtaken` is set while a round is on its way
from the driver's last check to its step and its goal gets another revision, or
a driver is mounted that never checked it.  Messages are their kind and the goal, revision
and round they carry.  The list for the next step and the claimed batch are
sets, because both are always taken whole; the list for later turns, which is
taken one by one, is a sequence.

**`Subagents`** models the continuation manager: activations, the ownership
edges that keep a parent resident, the holds of calls that are still
establishing a child, the child lock, the settlement watcher, notices, and the
two drains. `Parent` is the durable tree; the walks of the code up to the root
and down the owned children are least closed sets (`Lineage`, `Below`). The
caller's abort is a choice of each step that looks at the signal. `Init` also
admits trees whose children are resident in the middle of a turn, as earlier
calls leave them. The members of a closing scope are the descendants of its
root (true of the code as long as lineage is complete, as here); notices
injected without waking are not represented; the driver's retirement gap is
left to `AgentDriver`; the root belongs to nobody and leaves after its drain.

**`Jobs`** models the process-local job registry, the completion listener and
the waiting `job_output` of tool-jobs, with as much of an owner as decides
whether a notice wakes it and when its cleanup runs: its driver with abort and
retirement, and the segments of its disposal (`closing`, `unwinding`, `disposing`,
`cleaning`).  A wait is counted from its call to its continuation, which is
where settlements, timers and aborts meet it.  Slots of finished jobs are used
again, so that the chain of jobs is unbounded.  The controls are unloaded
together with the registry they depend on.

**`JournalStream`** models `RemoteJournalStream` on top of `RemoteStream`, with
the Host's source, its pages, the socket and the connection's generation as
their environment.  `stream.at` is where the generator of `RemoteStream.read`
is, `journal.phase` where its consumer is; an action is what happens between two
awaits of either.  A cursor is a number, an entry the cursor it covers, a page a
run of at most `Limit` entries.  The Host may leave entries out, repeat the last
one, end or fail the stream and come back without its newest entry; the carrier
and the connection may be lost.  `faults` counts these for `GivesUpForCause`.
**`JournalWindow`** is what the owner of a stream may rely on: one unbroken
stretch of the journal whose end never moves back, whatever happened to the
carrier.  `JournalStream` implements it with the window it published
(`ImplementsWindow`).

**`Connection`** models what `JournalStream` takes for granted: the loop of
`ConnectionController` (`ctl.pc` is its await), the socket, the attempt and the
waiters of `RemoteStreamMuxClient` (`mux`), the `$events` stream whose life is a
generation (`src`), and what the handle shows.  An attempt that failed rejects
its waiters in a continuation, which may come after the next generation has
begun to wait.  A stream that was handed the open socket is registered on it one
await later (`opening`, `Registers`); a socket dropped in between has failed the
registered streams by then and misses this one (`GiveUp`).  Events of the socket
and the browser, and delays that pass, come only when the queued continuations
have run (`NewTask`), callers come at any time.  Sinks that call back into the
loop are left out.

**`MC*`** modules instantiate these for TLC.  **`*_proofs`** modules hold the
TLAPS proofs.  Definitions marked *Mutant* are plausible bugs, used to see that
each property notices one.

## Runs

| Run | Bounds | Properties and what they show |
|---|---|---|
| `tool_scheduler` | 4 calls, pool of 2, 1 mode change | `PoolDiscipline`: pool bound and exclusive barriers; `LogIsTrue`: model order, complete pairs, faithful conclusion (`CommitDiscipline`), no body abandoned, no result invented (`FailureIsContained`); `NoStartAfterAbort`; `Terminates` |
| `agent_driver` | 2 messages, 2 steps per turn, 1 maintenance job | `LogDiscipline`: boundaries accepted on every path unless a closing append was refused, idle means closed but for the refused one; `NothingOwed`: no stranded wake, no unsent results after a completed turn; `DisposedIsQuiescent`: `whenIdle` returns to a disposal only when nothing runs, and nothing starts after it but what a caller starts; `NoWorkAfterAbort`; `Converges`: cancels and disposal end, latched wakes are replayed |
| `jsonl_handle` | compressed, 2 events, 2 handles, 1 fault, 1 crash | `LosesNothing`: contiguous log, order retained over failures, no event forgotten in a buffer (`BufferDiscipline`), acknowledged events survive, close is lossless (`DurableAsPromised`); `HandleProgresses`: close ends, an unpaused buffer drains |
| `session_repair` | 2 call ids, 2 turns, 2 steps, 2 streams and 1 pruned result per log, 2 crashes | `TranscriptIsTrue`: every call of a closed step answered once and by a result about it, nothing acted upon is lost; `LogsAreLegal`: the log is accepted at every moment, a cut repair is finished by the next one, and a fork is accepted exactly where nothing is open |
| `agent_lifecycle` | 2 transactions on one id | `RegistriesExact`: store, agents and write claim name one transaction, and no failure path leaves anything in them; `ImplementsIdentity` (refinement); `CallsConclude`: calls are answered, unloads give everything back |
| `goal_rounds` | 1 goal, 2 revisions, at most 2 rounds, 1 prompt, `OuterAwait` | `FoldFailsOnlyOvertaken`: the fold refuses a round only if its goal was changed, or a driver mounted, while an outer listener held the step; `RoundDiscipline`: a round waits for its goal to be stored, and one that is fenced takes no human input with it; `RestIsExplained`: no lost trigger, a cancel stops automatic work; `ArmedGoalConcludes` |
| `subagents` | chain of 2 children, 2 calls, 1 message | `OwnershipIsExact`: an accepted child keeps its parent, and only working children do; `DrainIsFinal`; `Settles`: every activation is released, no circular wait |
| `jobs` | 1 agent, 2 job slots, limit 1, 1 wait, budget 1, 2 job calls per turn, 1 prompt, 1 reload | `JobDiscipline`: limit respected, no work without a record but what a throwing cancel left, nothing kept for a gone owner (`WorkIsAccounted`), a completion is silenced only for a reason, the turns opened by notices alone are bounded (`NoticeDiscipline`); `JobsConclude`: waits and disposals end |
| `journal_stream` | 6 entries, pages of 2, 1 frame under way, 1 caller of prepend, 3 faults | `ImplementsWindow` (refinement): no gap, duplicate, swap or step back in what is shown; `StreamIsHonest`: the cursors kept are those of the window, older history is denied only where there is none, a stream fails only for a cause; `CatchesUp`: no loss, gap or restart leaves it waiting for ever, except for a connection that is not there |
| `connection` | `$events` and 1 other stream, 2 retry tiers, 5 outages | `ConnectionIsTrue`: no stream on a dead socket but through two named windows, the event stream never, nothing shown that is not so; `Recovers`: the loop ends up connected, or waits for the network, the user or an absent Host; a stop ends it |
| `flush_barrier` | as `jsonl_handle` | violation: a flush joins a finished drain and resolves too early |
| `goal_fence` | as `goal_rounds`, 3 revisions | violation: an edit after the driver's last check lets a stale round enter |

Each passing run also checks the `TypeOK` of its module.

Why the bounds are enough.  Four calls with a pool of two give a full pool, a
barrier that cuts it, a refill behind it, and a call that waits in each of the
stages; a fifth repeats one of these situations.  Two messages let one be
claimed while the other waits or arrives late, or both be parked; with three the
safety properties hold as well (2.7 million states), but the liveness properties
take TLC too long; two steps give a first step, a later
step and a boundary between them; turns are not bounded.  Two events suffice for
an order, two handles for a successor, one fault and one crash for a failure
inside a recovery.  Two crashes let the second one cut the repair of the first; two
steps with two ids let a repeated id, a pruned result and an unanswered call
meet in one log; ids are only compared, so their symmetry is used.  Two
transactions are what every registry check distinguishes: mine and another's; a
third would meet the id in a state one of the two leaves it in.  Two revisions
make a round stale, two rounds reach a cap after one that did not, one prompt
competes with a queued round.  A chain of two children has an inner node that is
child and parent at once, and two calls are what a hold can be shared by.  With
a limit of one job every start meets the limit while another job runs or stops;
an unowned job has its own bucket; a budget of one wake is spent by the first
notice and missed by the second; that later prompts restore it is covered by the
proof (`Budgeted`), whose invariant TLC confirmed with two prompts.  Three faults let three entries be left out
around one repair, or a carrier be lost, lost again and the connection with it;
six entries with pages of two leave room for a gap, a second page and an older
one.  One frame under way is enough because the consumer takes frames one at a
time and a lost carrier drops the others unseen.  Five interruptions of the
connection let one meet each of the states a previous one has left: an attempt
that fails, a reconnect meanwhile, the network gone and back, and a stop; two
tiers have a delay before the final one.

The violation runs each check one sentence that a comment or a README states,
quoted in `PROJECT.json`.  `CHECK_DEADLOCK FALSE` is set everywhere: an idle
agent, a finished batch and a released handle may rest forever, and a log that
has used its bounds stops.

## Fairness

The event loop runs every continuation that is ready, hence weak fairness of
the scheduler, of the driver and of the internal steps of the handle.  Models,
tools, hooks, maintenance jobs and storage calls are assumed to settle: each is
awaited without a bound, and a step that never settles blocks its turn by
design.  A storage completion or a timer waits until no continuation is left,
so its action is enabled only intermittently while continuations keep coming;
strong fairness of `StorageCall` and `TimerFires` says that the event loop gets
to its macrotasks.  Callers, cancels, faults, crashes and re-registrations are
never required to happen.

`AgentLifecycle` asks for strong fairness of each transaction's next segment and
of its teardown: a segment is disabled for the moments in which another one
publishes or detaches, which are synchronous or microtasks.  `GoalRounds` has
weak fairness of the turn's continuations and of the driver's pass, strong
fairness of the end of a step and of maintenance, which share the agent with
callers.  `Subagents` has weak fairness per call, per child and of the teardown;
turns end, deliveries may be aborted but need not be.  `Jobs` has weak fairness
of settlements, continuations, timers, turns and disposal steps; the work of a
job has to end only after a cancel was accepted, as the registry's contract with
producers says, and a turn makes finitely many job calls (`MaxCalls`): a model
that polls for ever keeps its turn open, which no code here prevents.
`JournalStream` has weak fairness of the generator, the consumer and page reads
(continuations and requests that settle), and of a connected Host that serves
and sends; none of the journal's growth, of faults or of callers, nor of the
connection's return: the connection loop waits for the user or the network at
its last backoff tier (`connection.ts:198`), and `CatchesUp` exempts a stream
that waits for it.  `Connection` has fairness of the loader, continuations and
delays, of an attempt, which opens or fails, of a closing socket, which closes,
and of a Host that is reached, which answers; it is strong where the step is a
task, because a task waits until no stream is between its two awaits, and
callers may open streams time and again: the event loop still gets to its tasks.
None is asked of callers, of the network or of the Host's return.

## Proofs

TLAPS proves, for every value of the constants:

* `ToolScheduler_proofs`: type correctness and every safety property of the run,
  `PoolDiscipline`, `LogIsTrue`, `NoStartAfterAbort`.
  The inductive invariant follows a started call through its life.  `Accounted`
  says that an open call is being prepared, in the in-flight map or in its
  slot; this is what makes a group that returns with an empty map have
  committed everything (`GroupCommitsStarted`), which in turn gives the
  exclusive barrier (`Barrier`: an exclusive call is also the last of its
  group) and the quiescent exits.  `Pool` keeps a place for the call being
  prepared.  `Recorded` says that a live batch has logged exactly the calls up
  to `started` and the results up to `committed`; from it, `LogSteps` (every
  step keeps the log, appends the next call, appends the next result, or writes
  the skipped pairs) gives model order and complete pairs.
* `Agent_proofs`, the driver: type correctness, `LogDiscipline` (`LogAccepted` and
  `IdleIsClosed`), `DisposedIsQuiescent`, `NoWorkAfterAbort` and `NothingOwed`.
  The inductive invariant of the log is `Boundaries`: as long as no closing
  append was refused, the segment the driver is in determines which turn and
  step the log has open, and that the driver's own counters number the next
  ones.  It is needed because `LogAccepted` alone says nothing about where the
  next append happens.  `LeftOpen` adds that a turn or step the driver is not in
  is open only because its closing append was refused, and `Quiet` that a
  promise resolves only when its activity is over, which is what makes the loop
  of `whenIdle` end in quiescence.  For `NothingOwed`, `Watched`
  says who will claim a parked message that did not come late: without a driver
  a wake being sent, replayed or latched behind maintenance, and behind a driver
  on its way out the wake it has latched.  `Endings` says that a turn with which
  the driver leaves has not completed, and that a completed one owes nothing.
* `Agent_proofs`, the lifecycle: type correctness, `RegistriesExact`, and that
  `AgentLifecycle` implements `SessionIdentity` (`ImplementsIdentity`), for any
  set of competing transactions.  The inductive invariant is `ClaimExact`: where
  a transaction is and how far its teardown has come determine whether it has
  the claim on the log.  `EntryExact` says the same of the registries, and
  `TeardownAt` how far a teardown can be at each await, without which neither
  would survive a disposal in the middle of a publication.
* `Client_proofs`, the journal stream: type correctness, `StreamIsHonest`, and that
  `JournalStream` implements `JournalWindow` (`ImplementsWindow`), for any page
  size, length and number of faults.  The window is safe only because of what is
  still under way, so the inductive invariant describes the feed:
  `FeedContinues` says that its frames continue the entries taken but for holes
  that counted faults paid for, and `GenShape` that no entry of a new generation
  is taken before its opening.  `LossesPaid` charges each retry and each frame
  that ends the stream to a fault, which makes `GivesUpForCause` inductive.  A
  run of the journal is a sequence given by its two ends; the lemmas on `Run`
  say how it grows at either end.
* `Client_proofs`, the connection below it, which shares no state with the
  stream: type correctness and `ConnectionIsTrue`, for any set of streams, number
  of tiers and outages.  Every operation of the mux keeps
  `MuxIsOne` (waiters only beside an attempt, streams only on the socket that is
  there, but for those one of the two windows is to blame for, `Blamed`);
  `SourceAt` relates the `$events` stream to its place in the mux, and from it
  what is shown follows.  `EventsHeld` says that the `$events` stream is never
  left on a dead socket: whoever drops the socket under it aborts it too.
* `JsonlHandle_proofs`: type correctness and `LosesNothing`, with or without
  compression, for any number of events, handles, failing storage calls and
  crashes.  `LosesNothing` speaks of what is on its way, so the invariant says
  where an event can be.  `SessionRouted`: what the owner has in its running
  drain and its buffer continues its cursor without a gap and ends with the
  session's last event, and before publication the one append under way carries
  the suffix not yet stored.  `DiskTrue`: the cursor of an open handle is what is
  committed and what it has recovered and must write again, and a torn artifact
  is known to be torn by whoever may write it; this is what keeps a write behind
  its repairs (`OperationFits`).  `FlushTrue` and `CloseTrue` follow a caller's
  answer from the moment it was asked for: a flush needs that the drain it joined
  has not failed and has written up to its need when it settles, a close that a
  second look at the buffer comes after the chain.  `SingleDrain` makes all of
  these inductive: there is one drain at a time, on the chain or running.  The
  promises are made while nothing is tainted: no event fell into the gap before
  publication, no released handle wrote (both under Observations), and no failed
  append was followed by a failed rollback.  Order and content of the artifact
  need only the last two, in which a handle does not know its bytes.
* `SessionRepair_proofs`: type correctness, `TranscriptIsTrue` and `LogsAreLegal`,
  for any call ids and any number of turns, steps and crashes.  Both folds over
  the log are functions on its positions; `Induct`, an induction over a bounded
  range that needs no operator parameter, carries facts along them.  `Fits`
  says, in terms of the two folds, which events the loop and the repair append:
  turns and steps in order, calls recorded once, results in the order of the
  message.  A log is `Legal` when every event fits what comes before it; every
  prefix of a legal log is legal, so a crash needs no case of its own.
  `LegalSound` derives event by event what a legal log is: the folds agree, an
  open call knows its record and has no result, the calls of a step are answered
  once or still open, results cite their records.  `ClosersResume` shows that
  every event of the repair fits and leaves the rest of the repair to the next.
  The inductive invariant adds `DriverAt` (the driver knows which turn, step and
  calls the log has open, so what it appends fits) and `ExposedAt` (what was
  acted upon is durable).
* `Jobs_proofs`: type correctness and `JobDiscipline`, for any number of jobs,
  agents, waits, prompts and reloads.  `Owed` says that a recorded job of an
  agent is one its cleanup will find, or has found: it is what a job started
  while its owner is being disposed needs.  `Counted` and `ReportedLive` make
  `SilenceIsExplained` inductive: the flag that keeps a notice from its owner is
  only ever set for a wait that is still to be answered.  `Budgeted` bounds the
  turns opened by notices together with the notices still queued: both are paid
  by the budgets used up and by what is spent of the last one.
* `GoalRounds_proofs`: type correctness, `RoundDiscipline`, `RestIsExplained`
  and, over `GoalFence`, `FoldFailsOnlyOvertaken`, for any number of goals,
  revisions, rounds and inputs and for every composition.  The rounds rest on
  two facts.  `Stamps`: an attempt is of a revision at most the current one, and
  one of the current revision is stored and within the cap; a goal with authority
  is stored or its checkpoint is due.  `Separate`: a prompt is in one list or in
  the claimed batch and a batch has one round at most, so the round that is
  checked is the one that is entered and what the fence puts back is not there
  twice.  `LastLook` adds that a round about to enter is the one the fold
  expects, unless it was overtaken.  It is inductive because nothing else that
  may run while an outer listener holds the step touches the batch, the decision
  or the terms of an active goal at the same revision (`OuterKeeps`).  Without
  the exception the statement is false, which is the run `goal_fence`; in a
  composition without an awaiting outer listener (`OuterAwait = FALSE`) nobody
  can overtake, and `FoldNeverFails` holds there.
  `RestIsExplained` follows from `Awake`, which keeps a requested pass, a
  checkpoint under way or a wake for each armed goal while no turn runs, and
  from `CancelMet`, which follows a cancelled round to its idle edge.
* `Subagents_proofs`: type correctness, `OwnershipIsExact` and `DrainIsFinal`,
  for any tree of children, any calls and any bound on the inbox.  `EdgesAt`
  gives each edge its reason, an activation or the hold of a call under way;
  `ResidentsAt` says that a resident child is owned or is still the business of
  the call that created it, which has the child's lock (`CallsAt`).  For the
  drains, `ClosingsAt` says that disposal is closed downwards: an owned child of
  a closing agent closes too, and either the parent's disposal or the call that
  rolls it back waits for it.  `ManagerAt` and `DrainsAt` then say that whatever
  is left below a drain is awaited by it, by a closing parent that is itself
  below the drain, or through a tracked call.  When a drain returns, a highest
  activation that is left would be awaited by none of these, and there is a
  highest one because the parents of every child end at the root.

The assumptions are the named ones of the modules: the bounds are natural
numbers, at least one call, one pool place, one turn and one step, finitely many
call ids and job slots, and a `Parent` relation that is a tree (every nonempty set of children
has one whose parent is outside it: a child's durable parent is there before
the child).

A proof attempt corrected a property.  `WakesAreBounded` used to bound the
consecutive turns opened by notices since the last prompt.  That is not
inductive, and for a reason: after a failed turn notices may be queued behind a
prompt, whose claim restores the budget although they still open turns.  With
one prompt per behaviour TLC could not see it; with two it does.  What the code
guarantees, and the property now says, is a budget per claimed prompt.

Only model-checked: all liveness (fairness and ENABLED are outside the prover),
and the two violations, `goal_fence` and `flush_barrier`.

## Observations

What the models show besides the runs.  Each named definition is in its module
and can be checked with a configuration that names it alone.

* `LiveDriversClaim` (`agent.ts:333`, "Live drivers claim queued work
  themselves"): a waking send between the last inbox check and idle stays
  queued.  `NoStrandedWake` states exactly this exception.
* `TeardownIsQuiescent` (agent-loop `index.ts:584`, "a disposed-cause cancel
  followed by quiescence"): a dispose from a session observer with queued input
  tears down under a running driver, and after `whenIdle` has returned the agent
  can still be woken until it is detached, two awaits later (591, 601): a message
  sent then opens a turn in an agent whose write handle is being closed.
* A refused `turn/end` (`agent.ts:325-332`; a dispatch listener that vetoes it,
  or the invariant while a refused `step/end` has left the step open) leaves the
  turn open and the driver idle.  With the invariant companion mounted every
  later `turn/start` is refused; without it the next turn opens inside the old
  one and the log is illegal from there on.  The session is whole again only
  when a resume repairs it.
* `DisposalNeverLatches` (`agent.ts:186`): the abort reason of an earlier user
  cancel lets a wake latch during disposal.
* `SingleWriter` (`storage.ts:200`): the timer of a released handle writes.
* `PublishedIsStored` (agent-loop `index.ts:745`): an event appended during the
  last store before publication is lost.
* A cut-off (max-tokens) step earlier in a turn makes a later tool step close
  the turn although its results were never sent; an event buffered during a
  failing drain leaves the timer armed, so the retry is automatic after all; a
  torn zstd frame is partly returned to its next reader; a step whose scheduler
  failed leaves calls that neither the loop nor the repair ever answers (the
  `failed` exception of `AnsweredOnce`).  `SessionRepair` takes a checkpoint for
  a barrier; `flush_barrier` shows the window in which it is not, and there a
  tool body may start before its call is durable.
* Lifecycle: `findLog` may have passed a directory before a competing creation
  wrote there; the exclusive `link()` then refuses the second log.  A
  configured start that meets an occupied id waits also for an occupant that is
  healthy.  A backend that is unmounted and mounted again starts with an empty
  ownership table (not modelled).
* `CancelledGoalIsPaused` (goal-round-driver README, "a goal whose round was
  under way or already queued is paused at the next idle point"): a cancel that
  discards a queued round while maintenance runs meets no status edge, and the
  goal rests active and armed.  An edit may lower `maxGoalRounds` below the
  rounds that were started; a round that was queued before the driver's unload
  enters without its fence; a human prompt queued behind a fenced round waits
  for the next wake.
* `HoldLasts` (`continuation.ts`, holdOwnership: "so the parent cannot settle
  while a caller is still establishing or resuming that child"): the second
  call for a child shares the hold of the first and loses it when that fails.
  `ClosingIsNotWoken` ("A parent
  whose own teardown already began must not be woken"): the guard looks at the
  manager's drain and at closing scopes, which an interrupt of the children and
  a settlement do not set, so that the notice of a grandchild released first
  starts a turn in a parent being disposed.  `ChildFirst` ("Release remains child-first"): the releaser of a hold takes the
  edge from a child that is closing.  A child whose turn failed with messages
  queued stays parked and pins its ancestors (`Parked` in `Settles`).
* `DisposalIsQuiet` (tool-jobs README, "disposal never spends a model request
  announcing a notice nobody can read"): a job that finishes by itself after the
  disposal's cancel, before the scope is closed, finds an idle owner and opens a
  turn, for which the disposal then waits.  A completion while tool-jobs is
  unloaded is never announced, and a reload gives every owner a new budget
  (`remounts` in `WakesAreBounded`).  `maxConsecutiveWakes` bounds the wakes per
  claimed prompt, not those in a row: notices queued behind a prompt, as a failed
  turn leaves them, follow it without costing the budget it restored.
* Journal streams: a prepend asked for when nothing older is shown, and
  overtaken by a replacement, publishes that there is no older history over a
  window that does not begin with the journal (`cut` in `WindowIsKnown`).  After
  a failure of the consumer the stream is not released until it is disposed of:
  the Host goes on sending to an inbox nobody reads, and older pages are still
  published.  A restart between the arrival of a repair page and its use is
  taken for a failure of the journal (`PageOvertaken`).  Waiting for a new
  generation of the connection does not give back the retry: a stream that
  waited and is lost again before its opening gives up.  Outside the models, by
  reading: the gateway README says a socket that missed the previous ping is
  terminated, the server tolerates two (`MAX_MISSED_HEARTBEATS`).
* Connection: a `start()` of the mux that finds its socket closing opens the
  next one at once, and the close event of the old one then fails nothing: a
  stream that was open over it hears of nothing any more (`crossed` in
  `SocketIsShared`).  The loop itself always reconnects first.  A stream opened
  in the same task as a `reconnect()`, while the loop is in its delay or has
  given up and the socket is still open, is handed the socket that the loop's
  next continuation drops, registers on it and is not told (`overtaken`;
  `stream-client.ts:94-97`).  The `$events` stream is not exposed to it: the
  reconnect that drops its socket aborts it.

## What is not modelled

Message and tool content; the Windows publication path and the listing,
deletion and naming of artifacts; inbox splices other than those of the agent,
the goal driver and the notices; the output of jobs and the scope layers of
their controls; one-shot subagents; maintenance of subagents; snapshot streams,
the server's side of the multiplexed socket with its heartbeats, entries that
cover more than one cursor, and frames no Host sends (a second opening, an entry
before it, a page that does not end where it was asked to).

Most of the repository's 135,000 lines carry no protocol that a state machine
would add to: the type generator, the API catalog, the browser client and its
fixtures, the command-line and desktop applications, provider clients, file,
web and shell tools, prompt and result text.  The models are about the parts
that keep state over an await.  A larger share of the lines could only be
claimed by mapping code whose behaviour the models do not represent.

## Plan

Done: the scheduler and the driver, storage, repair, lifecycle with its abstract
specification, goals, subagents, jobs, journal streams with their abstract
specification, the connection.  Next, in this order:

1. `DurableLog`: what a reader may ever see, as an abstract specification that
   `JsonlHandle` implements outside its tainted states.
2. `Connection` composed with `JournalStream` in place of its environment, and
   the server's heartbeats.
3. Pending-request protocols (approvals, questions), retry and timeouts, the
   projection cache, settings and storage domains, workflow workers.
