----------------------------- MODULE AgentDriver -----------------------------
(***************************************************************************)
(* One agent's driver: the phase machine, its inbox and the turn/step loop *)
(* (packages/core/agent-loop/src/agent.ts, packages/core/agent/src/inbox.ts).*)
(*                                                                         *)
(* JavaScript runs one segment of code between two awaits without          *)
(* interleaving, but a segment that publishes (a status change, an inbox   *)
(* notification, a session event) runs its observers in the middle.  The   *)
(* model has one action per segment and three kinds of points in between:  *)
(*   - an await, where any other task may call the agent;                  *)
(*   - a notification (conv, sending, pc = "turn"), where observers may    *)
(*     call the agent as well, before the segment goes on;                 *)
(*   - a session-event publication (SyncPoint), where an observer's call   *)
(*     fails if it has to append to the same session: only a cancel that   *)
(*     touches no inbox list gets through.                                 *)
(* The session log is kept as the trace that the session's relational      *)
(* invariant folds it into (packages/core/session/src/invariant.ts).  The  *)
(* session may refuse any append: a dispatch listener vetoes it, or the    *)
(* mounted invariant does.  Where no invariant is mounted an append that   *)
(* breaks its rules is taken; the model allows both.                       *)
(***************************************************************************)
EXTENDS Naturals, Sequences

CONSTANTS
    MaxMessages,   \* bound: messages ever sent to the agent
    MaxSteps,      \* bound: steps per turn
    MaxJobs        \* bound: maintenance jobs ever started

ASSUME BoundsAssumption ==
    /\ MaxMessages \in Nat
    /\ MaxSteps \in Nat \ {0}
    /\ MaxJobs \in Nat

VARIABLES
    phase,          \* "idle", "maintenance" or "running"
    abort,          \* reason of the phase's abort signal, "none" while live
    wakeRequested,  \* phase.wakeRequested
    step,           \* phase.step
    turn,           \* phase.turn, or lastTurn while idle
    nextTurn,       \* inbox list next-turn
    nextStep,       \* inbox list next-step
    pc,             \* where the driver awaits
    target,         \* inbox target of the next claim
    turnEnds,       \* turnEnds of the open turn, "null" while undecided
    leaves,         \* the turn ends by return false or by a throw
    owes,           \* the last step's tools owe another request
    conv,           \* kick's finally, between setPhase(idle) and the replay
    sending,        \* send(), between the insertion and wakeDriver
    trace,          \* SessionTrace: open and next turn and step
    illegal,        \* some append broke the session's relational rules
    lost,           \* the kinds of closing appends the session ever refused
    lastEnd,        \* how the last driver activity ended
    sent,           \* messages sent so far (message ids are 1..sent)
    wakers,         \* messages sent with a wakeup
    late,           \* wakers that reached a driver past its last inbox check
    jobs,           \* maintenance jobs started
    resolved,       \* the promise activityDone has resolved
    disposing       \* lifecycle dispose(), see ControlType

phaseVars  == <<phase, abort, wakeRequested, step, turn>>
inboxVars  == <<nextTurn, nextStep>>
turnVars   == <<target, turnEnds, leaves, owes>>
logVars    == <<trace, illegal, lost>>
ghostVars  == <<sent, wakers, late>>
otherVars  == <<jobs, resolved, disposing>>
vars == <<phaseVars, inboxVars, pc, turnVars, conv, sending, logVars, lastEnd,
          ghostVars, otherVars>>

Messages == 1..MaxMessages
Aborted == abort # "none"
TornDown == disposing \in {"done", "woken", "failed"}
HasPending == nextTurn # <<>> \/ nextStep # <<>>
PendingSet == {nextTurn[i] : i \in DOMAIN nextTurn} \cup {nextStep[i] : i \in DOMAIN nextStep}

(* turn/end reasons; "emptied" is a completed turn that entered no step. *)
TurnEndReasons == {"completed", "max-tokens", "emptied", "blocked", "error", "aborted"}

(* Where a caller other than a session-event observer may be running. *)
Awaits == {"off", "turn", "preStep", "model", "tools", "stopping", "exit"}
OpenPoint ==
    \/ pc \in Awaits
    \/ pc = "endTurn" /\ turnEnds = "error"   \* agent/error is published first
SyncPoint == ~OpenPoint

Init ==
    /\ phase = "idle" /\ abort = "none" /\ wakeRequested = FALSE
    /\ step = 0 /\ turn = 0
    /\ nextTurn = <<>> /\ nextStep = <<>>
    /\ pc = "off"
    /\ target = "next-turn" /\ turnEnds = "null"
    /\ leaves = FALSE /\ owes = FALSE
    /\ conv = "none" /\ sending = "none"
    /\ trace = [openTurn |-> 0, openStep |-> 0, nextTurn |-> 1, nextStep |-> 1]
    /\ illegal = FALSE /\ lost = {}
    /\ lastEnd = "none"
    /\ sent = 0 /\ wakers = {} /\ late = {}
    /\ jobs = 0 /\ resolved = TRUE /\ disposing = "no"

-----------------------------------------------------------------------------
(* Session appends, checked by validateEvent and folded by applyTransition. *)
(* 0 stands for no open turn or step.  An append the session refuses throws *)
(* and changes nothing: the actions below that throw say what follows.      *)
AppendTurnStart(t) ==
    /\ illegal' = (illegal \/ trace.openTurn # 0 \/ t # trace.nextTurn)
    /\ trace' = [trace EXCEPT !.openTurn = t, !.nextStep = 1]
    /\ UNCHANGED lost

AppendTurnEnd(t) ==
    /\ illegal' = (illegal \/ trace.openTurn # t \/ trace.openStep # 0)
    /\ trace' = [trace EXCEPT !.openTurn = 0, !.nextTurn = trace.nextTurn + 1]
    /\ UNCHANGED lost

AppendStepStart(t, s) ==
    /\ illegal' = (illegal \/ trace.openTurn # t \/ trace.openStep # 0 \/ s # trace.nextStep)
    /\ trace' = [trace EXCEPT !.openStep = s]
    /\ UNCHANGED lost

AppendStepEnd(t, s) ==
    /\ illegal' = (illegal \/ trace.openTurn # t \/ trace.openStep # s)
    /\ trace' = [trace EXCEPT !.openStep = 0, !.nextStep = trace.nextStep + 1]
    /\ UNCHANGED lost

-----------------------------------------------------------------------------
(* A new activity replaces the promise activityDone that whenIdle awaits.   *)
(* Once whenIdle has returned, only a caller's activity wakes the agent.    *)
NewActivity(byCaller) ==
    /\ resolved' = FALSE
    /\ disposing' = CASE disposing = "waiting" -> "stale"
                      [] disposing = "done" /\ byCaller -> "woken"
                      [] OTHER -> disposing

(* wakeDriver: start a driver, or latch the wake behind maintenance or an   *)
(* aborted activity.                                                        *)
WakeDriver(wakeAfterAbort, byCaller) ==
    IF phase # "idle"
    THEN /\ wakeRequested' = \/ wakeRequested
                             \/ /\ abort # "disposed"
                                /\ phase = "maintenance" \/ wakeAfterAbort
         /\ UNCHANGED <<phase, abort, step, turn, pc, resolved, disposing>>
    ELSE /\ NewActivity(byCaller)
         /\ phase' = "running"
         /\ abort' = "none"
         /\ step' = 0
         /\ wakeRequested' = FALSE
         /\ pc' = "turn"
         /\ UNCHANGED turn

(* send up to the end of its inbox splice. *)
Send(to, wakeup) ==
    /\ OpenPoint /\ sending = "none" /\ sent < MaxMessages
    /\ LET m == sent + 1
           wakingAfterAbort == wakeup /\ phase # "idle" /\ Aborted
           box == IF wakingAfterAbort THEN "next-turn" ELSE to
       IN  /\ IF box = "next-turn"
              THEN nextTurn' = Append(nextTurn, m) /\ UNCHANGED nextStep
              ELSE nextStep' = Append(nextStep, m) /\ UNCHANGED nextTurn
           /\ sending' = CASE ~wakeup -> "none"
                           [] wakingAfterAbort -> "wakeAfterAbort"
                           [] OTHER -> "wake"
           /\ sent' = m
           /\ wakers' = IF wakeup THEN wakers \cup {m} ELSE wakers
           /\ late' = IF wakeup /\ pc = "exit" /\ ~Aborted THEN late \cup {m} ELSE late
    /\ UNCHANGED <<phaseVars, pc, turnVars, conv, logVars, lastEnd, otherVars>>

followup == Send("next-turn", TRUE)
steer    == Send("next-step", TRUE)
inject   == Send("next-step", FALSE)

(* The rest of send, once the observers of the insertion have run. *)
SendWakes ==
    /\ sending # "none"
    /\ sending' = "none"
    /\ WakeDriver(sending = "wakeAfterAbort", TRUE)
    /\ UNCHANGED <<inboxVars, turnVars, conv, logVars, lastEnd, ghostVars, jobs>>

(* The effect of cancel on phase and inbox.  An abort signal keeps its      *)
(* first reason.                                                            *)
DoCancel(cause, keepInbox) ==
    /\ IF keepInbox
       THEN UNCHANGED <<nextTurn, nextStep, wakeRequested>>
       ELSE /\ nextTurn' = <<>>
            /\ nextStep' = <<>>
            /\ wakeRequested' = FALSE
    /\ abort' = IF phase # "idle" /\ ~Aborted THEN cause ELSE abort
    /\ UNCHANGED <<phase, step, turn>>

cancel(keepInbox) ==
    /\ SyncPoint => keepInbox \/ ~HasPending
    /\ DoCancel("user", keepInbox)
    /\ UNCHANGED <<pc, turnVars, conv, sending, logVars, lastEnd, ghostVars, otherVars>>

Without(list, k) == SubSeq(list, 1, k - 1) \o SubSeq(list, k + 1, Len(list))

(* Inbox.remove, called by a client that withdraws a pending message. *)
RemoveMessage ==
    /\ OpenPoint
    /\ \/ /\ \E k \in DOMAIN nextTurn : nextTurn' = Without(nextTurn, k)
          /\ UNCHANGED nextStep
       \/ /\ \E k \in DOMAIN nextStep : nextStep' = Without(nextStep, k)
          /\ UNCHANGED nextTurn
    /\ UNCHANGED <<phaseVars, pc, turnVars, conv, sending, logVars, lastEnd,
                   ghostVars, otherVars>>

runMaintenance ==
    /\ OpenPoint
    /\ phase = "idle" /\ jobs < MaxJobs
    /\ NewActivity(TRUE)
    /\ phase' = "maintenance"
    /\ abort' = "none"
    /\ wakeRequested' = FALSE
    /\ jobs' = jobs + 1
    /\ UNCHANGED <<step, turn, inboxVars, pc, turnVars, conv, sending, logVars,
                   lastEnd, ghostVars>>

(* The job settles: back to idle (no status change to publish), and the     *)
(* latched wake is replayed.                                                *)
MaintenanceEnds ==
    /\ phase = "maintenance" /\ conv = "none" /\ sending = "none"
    /\ IF wakeRequested /\ HasPending
       THEN phase' = "running" /\ pc' = "turn" /\ NewActivity(FALSE)
       ELSE phase' = "idle" /\ UNCHANGED <<pc, resolved, disposing>>
    /\ abort' = "none" /\ step' = 0 /\ wakeRequested' = FALSE
    /\ UNCHANGED <<turn, inboxVars, turnVars, conv, sending, logVars, lastEnd,
                   ghostVars, jobs>>

(* The activity's promise resolves, some microtasks after the driver or the *)
(* job gave way.  The promise of a replaced activity matters to nobody.     *)
ActivityResolves ==
    /\ ~resolved
    /\ phase = "idle" /\ conv = "none" /\ sending = "none"
    /\ resolved' = TRUE
    /\ UNCHANGED <<phaseVars, inboxVars, pc, turnVars, conv, sending, logVars,
                   lastEnd, ghostVars, jobs, disposing>>

(* The lifecycle's dispose: a disposed-cause cancel, then whenIdle.  A      *)
(* cancel that cannot clear the inbox throws, as it must where an append is *)
(* being published; dispose collects the failure and goes on to close the   *)
(* write handle and leave the registries.                                   *)
dispose ==
    /\ disposing = "no"
    /\ \/ /\ HasPending
          /\ disposing' = "failed"
          /\ UNCHANGED <<phaseVars, inboxVars>>
       \/ /\ OpenPoint \/ ~HasPending
          /\ disposing' = "waiting"
          /\ DoCancel("disposed", FALSE)
    /\ UNCHANGED <<pc, turnVars, conv, sending, logVars, lastEnd, ghostVars, jobs,
                   resolved>>

(* Mutant: whenIdle awaits the activity it found, and no later one.         *)
WhenIdleOnce ==
    /\ disposing = "stale" \/ (disposing = "waiting" /\ resolved)
    /\ conv = "none" /\ sending = "none"
    /\ disposing' = "done"
    /\ UNCHANGED <<phaseVars, inboxVars, pc, turnVars, conv, sending, logVars,
                   lastEnd, ghostVars, jobs, resolved>>

(* whenIdle resumes after the promise it awaited: it returns if that one is *)
(* still activityDone, and otherwise awaits the one that replaced it.  The  *)
(* agent stays registered, and can be called, over the awaits that follow.  *)
whenIdle ==
    /\ conv = "none" /\ sending = "none"
    /\ \/ disposing = "waiting" /\ resolved /\ disposing' = "done"
       \/ disposing = "stale" /\ disposing' = "waiting"
    /\ UNCHANGED <<phaseVars, inboxVars, pc, turnVars, conv, sending, logVars,
                   lastEnd, ghostVars, jobs, resolved>>

-----------------------------------------------------------------------------
(* The driver.  No segment of it starts while another one is interrupted by *)
(* its observers.                                                           *)
At(label) == pc = label /\ conv = "none" /\ sending = "none"

(* Mutant: the exit forgets to assign the turn ending. *)
EndsWithoutReason(reason, exits) ==
    /\ UNCHANGED turnEnds
    /\ leaves' = exits
    /\ pc' = "endTurn"

(* Leave the turn body for its finally clause. *)
EndsWith(reason, exits) ==
    /\ turnEnds' = reason
    /\ leaves' = exits
    /\ pc' = "endTurn"

EndsAborted == EndsWith("aborted", TRUE)
EndsFailed == EndsWith(IF Aborted THEN "aborted" ELSE "error", TRUE)

(* turn(): nothing is opened under an aborted signal. *)
TurnAborted ==
    /\ At("turn") /\ Aborted
    /\ pc' = "exit"
    /\ lastEnd' = "aborted"
    /\ UNCHANGED <<phaseVars, inboxVars, turnVars, conv, sending, logVars,
                   ghostVars, otherVars>>

TurnStart ==
    /\ At("turn") /\ ~Aborted
    /\ AppendTurnStart(turn + 1)
    /\ turn' = turn + 1
    /\ turnEnds' = "null" /\ leaves' = FALSE /\ owes' = FALSE
    /\ target' = "next-turn"
    /\ pc' = "claim"
    /\ UNCHANGED <<phase, abort, wakeRequested, step, inboxVars, conv,
                   sending, lastEnd, ghostVars, otherVars>>

(* The session refuses the turn/start: the driver reports it and leaves. *)
TurnStartThrows ==
    /\ At("turn") /\ ~Aborted
    /\ pc' = "exit"
    /\ lastEnd' = "error"
    /\ UNCHANGED <<phaseVars, inboxVars, turnVars, conv, sending, logVars,
                   ghostVars, otherVars>>

(* A claiming splice is refused, before or after the next-step list was     *)
(* taken.                                                                   *)
ClaimThrows ==
    /\ At("claim") /\ ~Aborted /\ HasPending
    /\ EndsFailed
    /\ nextStep' \in {nextStep, <<>>}
    /\ UNCHANGED <<phaseVars, nextTurn, target, owes, conv, sending, logVars,
                   lastEnd, ghostVars, otherVars>>

(* preStep up to its await: all next-step input, plus one queued prompt at  *)
(* a turn boundary.                                                         *)
Claim ==
    /\ At("claim")
    /\ IF Aborted
       THEN /\ EndsAborted
            /\ UNCHANGED inboxVars
       ELSE LET prompts == IF target = "next-turn" /\ nextTurn # <<>> THEN 1 ELSE 0
            IN  /\ nextStep' = <<>>
                /\ nextTurn' = SubSeq(nextTurn, prompts + 1, Len(nextTurn))
                /\ pc' = "preStep"
                /\ UNCHANGED <<turnEnds, leaves>>
    /\ UNCHANGED <<phaseVars, target, owes, conv, sending, logVars, lastEnd,
                   ghostVars, otherVars>>

(* The prompt assembly or the pre-step waterfall fails, or its caller is    *)
(* aborted when it resumes.                                                 *)
PreStepThrows ==
    /\ At("preStep")
    /\ EndsFailed
    /\ UNCHANGED <<phaseVars, inboxVars, target, owes, conv, sending,
                   logVars, lastEnd, ghostVars, otherVars>>

PreStepRejects ==
    /\ At("preStep") /\ ~Aborted
    /\ EndsWith("blocked", TRUE)
    /\ UNCHANGED <<phaseVars, inboxVars, target, owes, conv, sending,
                   logVars, lastEnd, ghostVars, otherVars>>

(* The decision enters no message at a boundary that owes no request: the   *)
(* turn closes, and a turn without a step leaves the driver.                *)
PreStepEntersNothing ==
    /\ At("preStep") /\ ~Aborted
    /\ turnEnds # "null" \/ step = 0
    /\ IF turnEnds # "null" THEN EndsWith(turnEnds, FALSE) ELSE EndsWith("emptied", TRUE)
    /\ UNCHANGED <<phaseVars, inboxVars, target, owes, conv, sending,
                   logVars, lastEnd, ghostVars, otherVars>>

(* Mutant: the signal is not read again after the pre-step waterfall. *)
PreStepEntersUnchecked ==
    /\ At("preStep")
    /\ step < MaxSteps
    /\ AppendStepStart(turn, step + 1)
    /\ step' = step + 1
    /\ owes' = FALSE
    /\ pc' = "model"
    /\ UNCHANGED <<phase, abort, wakeRequested, turn, inboxVars, target, turnEnds,
                   leaves, conv, sending, lastEnd, ghostVars, otherVars>>

(* step/start and the user/message batch; the batch may be empty only where *)
(* the tools of the previous step owe a request.                            *)
PreStepEnters ==
    /\ At("preStep") /\ ~Aborted
    /\ step < MaxSteps
    /\ AppendStepStart(turn, step + 1)
    /\ step' = step + 1
    /\ owes' = FALSE
    /\ pc' = "model"
    /\ UNCHANGED <<phase, abort, wakeRequested, turn, inboxVars, target, turnEnds,
                   leaves, conv, sending, lastEnd, ghostVars, otherVars>>

(* step() returns: max-tokens is sticky, null leaves the turn undecided. *)
StepReturns(stepEnd) ==
    /\ turnEnds' = IF turnEnds = "max-tokens" THEN turnEnds ELSE stepEnd
    /\ owes' = (stepEnd = "null")
    /\ leaves' = FALSE
    /\ pc' = "stepEnd"

StepThrows ==
    /\ leaves' = TRUE
    /\ pc' = "stepEnd"
    /\ UNCHANGED <<turnEnds, owes>>

(* The request, with its retries: aborted, failed, finished, cut off or     *)
(* answered with tool calls.                                                *)
ModelThrows ==
    /\ At("model")
    /\ StepThrows
    /\ UNCHANGED <<phaseVars, inboxVars, target, conv, sending, logVars,
                   lastEnd, ghostVars, otherVars>>

ModelFinishes(finish) ==
    /\ At("model") /\ ~Aborted
    /\ StepReturns(finish)
    /\ UNCHANGED <<phaseVars, inboxVars, target, conv, sending, logVars,
                   lastEnd, ghostVars, otherVars>>

ModelCallsTools ==
    /\ At("model") /\ ~Aborted
    /\ pc' = "tools"
    /\ UNCHANGED <<phaseVars, inboxVars, turnVars, conv, sending, logVars, lastEnd,
                   ghostVars, otherVars>>

(* A committed tool result carries context: it waits for the next step. *)
ToolContext ==
    /\ At("tools") /\ sent < MaxMessages
    /\ nextStep' = Append(nextStep, sent + 1)
    /\ sent' = sent + 1
    /\ UNCHANGED <<phaseVars, nextTurn, pc, turnVars, conv, sending, logVars,
                   lastEnd, wakers, late, otherVars>>

(* executeToolCalls returns, aborted or not, or rethrows a scheduler failure. *)
ToolsReturn(concluded) ==
    /\ At("tools")
    /\ StepReturns(IF concluded THEN "completed" ELSE "null")
    /\ UNCHANGED <<phaseVars, inboxVars, target, conv, sending, logVars,
                   lastEnd, ghostVars, otherVars>>

ToolsThrow ==
    /\ At("tools")
    /\ StepThrows
    /\ UNCHANGED <<phaseVars, inboxVars, target, conv, sending, logVars,
                   lastEnd, ghostVars, otherVars>>

(* The finally clause of the step. *)
StepEnd ==
    /\ At("stepEnd")
    /\ AppendStepEnd(turn, step)
    /\ pc' = "stepEnded"
    /\ UNCHANGED <<phaseVars, inboxVars, turnVars, conv, sending, lastEnd,
                   ghostVars, otherVars>>

(* The session refuses the step/end: the step stays open in the log, and    *)
(* the turn fails with it.                                                  *)
StepEndThrows ==
    /\ At("stepEnd")
    /\ EndsFailed
    /\ lost' = lost \cup {"step/end"}
    /\ UNCHANGED <<phaseVars, inboxVars, target, owes, conv, sending, trace, illegal,
                   lastEnd, ghostVars, otherVars>>

(* What the loop does after a step: fail, stop, or claim the next batch. *)
Continue ==
    /\ target' = "next-step"
    /\ pc' = "claim"
    /\ UNCHANGED <<turnEnds, leaves>>

StepEnded ==
    /\ At("stepEnded")
    /\ CASE leaves \/ Aborted -> EndsFailed /\ UNCHANGED target
         [] ~leaves /\ ~Aborted /\ turnEnds # "null" /\ nextStep = <<>>
              -> pc' = "stopping" /\ UNCHANGED <<target, turnEnds, leaves>>
         [] OTHER -> Continue
    /\ UNCHANGED <<phaseVars, inboxVars, owes, conv, sending, logVars,
                   lastEnd, ghostVars, otherVars>>

(* agent/turn-stopping resolves; a listener may have steered meanwhile. *)
TurnStopping ==
    /\ At("stopping")
    /\ CASE Aborted -> EndsAborted /\ UNCHANGED target
         [] ~Aborted /\ nextStep = <<>> -> EndsWith(turnEnds, FALSE) /\ UNCHANGED target
         [] OTHER -> Continue
    /\ UNCHANGED <<phaseVars, inboxVars, owes, conv, sending, logVars,
                   lastEnd, ghostVars, otherVars>>

TurnStoppingThrows ==
    /\ At("stopping")
    /\ EndsFailed
    /\ UNCHANGED <<phaseVars, inboxVars, target, owes, conv, sending,
                   logVars, lastEnd, ghostVars, otherVars>>

(* Mutant: a failed turn is left to the repair of the next resume. *)
TurnEndUnlessFailed ==
    /\ At("endTurn")
    /\ IF turnEnds = "error" THEN UNCHANGED logVars ELSE AppendTurnEnd(turn)
    /\ lastEnd' = turnEnds
    /\ pc' = "turnEnded"
    /\ UNCHANGED <<phaseVars, inboxVars, target, turnEnds, leaves, owes, conv,
                   sending, ghostVars, otherVars>>

(* The finally clause of the turn. *)
TurnEnd ==
    /\ At("endTurn")
    /\ AppendTurnEnd(turn)
    /\ lastEnd' = turnEnds
    /\ pc' = "turnEnded"
    /\ UNCHANGED <<phaseVars, inboxVars, target, turnEnds, leaves, owes, conv,
                   sending, ghostVars, otherVars>>

(* The session refuses the turn/end, as the mounted invariant does while a  *)
(* step is open: the driver reports it and leaves, the turn stays open.     *)
TurnEndThrows ==
    /\ At("endTurn")
    /\ lost' = lost \cup {"turn/end"}
    /\ lastEnd' = "error"
    /\ pc' = "exit"
    /\ UNCHANGED <<phaseVars, inboxVars, turnVars, conv, sending, trace, illegal,
                   ghostVars, otherVars>>

(* Mutant: the driver looks at the next-step list only. *)
NextTurnForgetsQueue ==
    /\ At("turnEnded")
    /\ IF leaves \/ nextStep = <<>>
       THEN /\ pc' = "exit"
            /\ UNCHANGED <<abort, wakeRequested, step>>
       ELSE /\ pc' = "turn"
            /\ abort' = "none"
            /\ wakeRequested' = FALSE
            /\ step' = 0
    /\ UNCHANGED <<phase, turn, inboxVars, turnVars, conv, sending, logVars,
                   lastEnd, ghostVars, otherVars>>

(* A turn that ran to its end is followed by another one while the inbox    *)
(* holds anything, under a fresh controller.                                *)
NextTurn ==
    /\ At("turnEnded")
    /\ IF leaves \/ ~HasPending
       THEN /\ pc' = "exit"
            /\ UNCHANGED <<abort, wakeRequested, step>>
       ELSE /\ pc' = "turn"
            /\ abort' = "none"
            /\ wakeRequested' = FALSE
            /\ step' = 0
    /\ UNCHANGED <<phase, turn, inboxVars, turnVars, conv, sending, logVars,
                   lastEnd, ghostVars, otherVars>>

(* kick's finally: publish idle ... *)
DriverIdles ==
    /\ At("exit")
    /\ phase' = "idle"
    /\ conv' = IF wakeRequested THEN "latched" ELSE "quiet"
    /\ abort' = "none" /\ wakeRequested' = FALSE /\ step' = 0
    /\ pc' = "off"
    /\ UNCHANGED <<turn, inboxVars, turnVars, sending, logVars, lastEnd,
                   ghostVars, otherVars>>

(* Mutant: the latch is dropped at convergence. *)
ReplayDropsLatch ==
    /\ conv # "none" /\ sending = "none"
    /\ conv' = "none"
    /\ UNCHANGED <<phaseVars, pc, inboxVars, turnVars, sending, logVars, lastEnd,
                   ghostVars, otherVars>>

(* ... and, once the observers have run, replay a latched wake. *)
Replay ==
    /\ conv # "none" /\ sending = "none"
    /\ conv' = "none"
    /\ IF conv = "latched" /\ HasPending
       THEN WakeDriver(FALSE, FALSE)
       ELSE UNCHANGED <<phaseVars, pc, resolved, disposing>>
    /\ UNCHANGED <<inboxVars, turnVars, sending, logVars, lastEnd, ghostVars, jobs>>

Driver ==
    \/ SendWakes \/ TurnAborted \/ TurnStart \/ TurnStartThrows \/ Claim \/ ClaimThrows
    \/ PreStepThrows \/ PreStepRejects \/ PreStepEntersNothing \/ PreStepEnters
    \/ ModelThrows \/ ModelCallsTools
    \/ \E finish \in {"completed", "max-tokens"} : ModelFinishes(finish)
    \/ ToolContext \/ ToolsThrow
    \/ \E concluded \in BOOLEAN : ToolsReturn(concluded)
    \/ StepEnd \/ StepEndThrows \/ StepEnded \/ TurnStopping \/ TurnStoppingThrows
    \/ TurnEnd \/ TurnEndThrows \/ NextTurn \/ DriverIdles \/ Replay

Callers ==
    \/ followup \/ steer \/ inject
    \/ \E keepInbox \in BOOLEAN : cancel(keepInbox)
    \/ RemoveMessage \/ runMaintenance \/ dispose

Next == Driver \/ MaintenanceEnds \/ ActivityResolves \/ whenIdle \/ Callers

(* The event loop runs every ready continuation, and models, tools, hooks   *)
(* and maintenance jobs settle; no caller has to do anything.               *)
Spec ==
    /\ Init /\ [][Next]_vars
    /\ WF_vars(Driver) /\ WF_vars(MaintenanceEnds)
    /\ WF_vars(ActivityResolves) /\ WF_vars(whenIdle)

-----------------------------------------------------------------------------
PhaseType ==
    /\ phase \in {"idle", "maintenance", "running"}
    /\ abort \in {"none", "user", "disposed"}
    /\ step \in 0..MaxSteps
    /\ turn \in Nat

InboxType == nextTurn \in Seq(Messages) /\ nextStep \in Seq(Messages)

(* Disposal: whenIdle awaits activityDone ("waiting") or an activity that   *)
(* was replaced since ("stale"); it has returned ("done"), and a caller has *)
(* woken the agent after that ("woken"); or the cancel threw ("failed").    *)
ControlType ==
    /\ pc \in Awaits \cup {"claim", "stepEnd", "stepEnded", "endTurn", "turnEnded"}
    /\ conv \in {"none", "quiet", "latched"}
    /\ sending \in {"none", "wake", "wakeAfterAbort"}
    /\ disposing \in {"no", "waiting", "stale", "done", "woken", "failed"}
    /\ jobs \in 0..MaxJobs

TurnType ==
    /\ target \in {"next-turn", "next-step"}
    /\ turnEnds \in TurnEndReasons \cup {"null"}
    /\ lastEnd \in TurnEndReasons \cup {"none"}

TraceSet == [openTurn : Nat, openStep : Nat, nextTurn : Nat, nextStep : Nat]
TraceType == trace \in TraceSet

LostType == lost \subseteq {"step/end", "turn/end"}

FlagType == {wakeRequested, leaves, owes, illegal, resolved} \subseteq BOOLEAN

GhostType ==
    /\ sent \in 0..MaxMessages
    /\ wakers \subseteq Messages
    /\ late \subseteq Messages

TypeOK ==
    /\ PhaseType /\ InboxType /\ ControlType /\ TurnType
    /\ TraceType /\ LostType /\ FlagType /\ GhostType

(* Every path through the driver, aborts and throws included, writes turn    *)
(* and step boundaries that the session's relational invariant accepts,      *)
(* properly nested and consecutively numbered, as long as the session never  *)
(* refused the driver a closing one.                                         *)
LogAccepted == lost = {} => ~illegal

(* The driver and the phase agree: work is in progress exactly while the     *)
(* phase is running.  An agent that is not running has closed its turn and   *)
(* its step, unless the session refused just that; whatever else failed, it  *)
(* resumes numbering where the log stops.                                    *)
IdleIsClosed ==
    /\ phase = "running" <=> pc # "off"
    /\ phase # "running" =>
          /\ trace.openTurn # 0 => "turn/end" \in lost
          /\ trace.openStep # 0 => "step/end" \in lost
          /\ lost = {} => trace.nextTurn = turn + 1

(* The log the driver writes is accepted and closed, on every path on which  *)
(* its closing appends are taken; and each is offered on every path.         *)
LogDiscipline == LogAccepted /\ IdleIsClosed

Settled == phase = "idle" /\ conv = "none" /\ sending = "none"

Parked == wakers \cap PendingSet

(* A waking message is parked behind an idle driver only when the last       *)
(* driver gave up (blocked, failed, cancelled, first batch emptied), except  *)
(* for one that arrived after the driver's last look at its inbox.           *)
NoStrandedWake ==
    Settled /\ disposing = "no" /\ lastEnd \in {"none", "completed", "max-tokens"}
        => Parked \subseteq late

(* "Live drivers claim queued work themselves": no exception.                *)
LiveDriversClaim ==
    Settled /\ disposing = "no" /\ lastEnd \in {"none", "completed", "max-tokens"}
        => Parked = {}

(* A turn that completes owes the model nothing: its last step left no tool  *)
(* results behind that no request has carried.                               *)
CompletedOwesNothing ==
    pc = "turnEnded" /\ lastEnd = "completed" => ~owes

(* A driver that ends its work normally leaves neither input it should have  *)
(* claimed nor results it should have sent (kick, turn, StepReturns).        *)
NothingOwed == NoStrandedWake /\ CompletedOwesNothing

(* Once its signal is aborted a driver opens no turn and no step: only a     *)
(* fresh controller, installed after the turn closed, lets it work again.    *)
NoWorkAfterAbort ==
    [][Aborted => trace'.openTurn \in {0, trace.openTurn} /\ trace'.openStep \in {0, trace.openStep}]_vars

(* "disposal never latches, so teardown waits on no model turn": no wake for *)
(* a queued message is latched once teardown has begun.                      *)
DisposalNeverLatches ==
    [][disposing # "no" /\ HasPending' /\ wakeRequested' => wakeRequested]_vars

(* whenIdle does not return early, whichever activities replaced the one it  *)
(* awaited, and nothing left over from before it returned starts a driver:   *)
(* until a caller wakes the agent again no driver or job runs, and no turn   *)
(* is open that the session let it close.                                    *)
DisposedIsQuiescent ==
    disposing = "done" =>
        /\ phase = "idle" /\ pc = "off"
        /\ trace.openTurn # 0 => "turn/end" \in lost

(* Disposal is a cancel "followed by quiescence", wherever it is called.     *)
TeardownIsQuiescent == TornDown => pc = "off" /\ trace.openTurn = 0

(* A cancelled activity converges: the driver or the job gives way.          *)
AbortConverges == phase # "idle" /\ Aborted ~> ~Aborted

(* A latched wake is never forgotten: a driver starts on the queue, unless   *)
(* the queue was emptied first.                                              *)
LatchedWakeReplayed == wakeRequested /\ HasPending ~> pc = "turn" \/ ~HasPending

(* Disposal ends.                                                            *)
DisposalCompletes == disposing \in {"waiting", "stale"} ~> disposing = "done"

(* Cancelling, waking behind a cancel and disposing each come to their end,  *)
(* wherever in a turn, a maintenance job or each other they arrive.          *)
Converges == AbortConverges /\ LatchedWakeReplayed /\ DisposalCompletes

=============================================================================
