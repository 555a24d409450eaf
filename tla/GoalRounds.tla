----------------------------- MODULE GoalRounds -----------------------------
(***************************************************************************)
(* Automatic goal rounds of one agent: the goal log and its strict fold    *)
(* (packages/goal/goal), the round driver that queues, fences and admits   *)
(* goal messages (packages/goal/goal-round-driver), and the part of the    *)
(* agent they race with: inbox, turns, cancellation, maintenance, restart  *)
(* (packages/core/agent, packages/core/agent-loop).                        *)
(*                                                                         *)
(* An action is the code between two awaits.  drive() runs in the caller's *)
(* task up to its flush and a latched wake is replayed in the task that    *)
(* made the agent idle, so both go before everything else (Quiet).         *)
(***************************************************************************)
EXTENDS Naturals, Sequences

CONSTANTS MaxGoals,   \* goals created
          MaxRevision,\* revisions of a goal
          MaxCap,     \* largest maxGoalRounds
          MaxInput,   \* human prompts and context messages
          OuterAwait  \* a pre-step listener mounted before the driver awaits
                      \* after the driver's second check

ASSUME BoundsAssumption ==
    /\ {MaxGoals, MaxRevision, MaxCap, MaxInput} \subseteq Nat
    /\ OuterAwait \in BOOLEAN

VARIABLES
    g,        \* the goal: folded log, activation, durability
    d,        \* DriverState of the agent
    mounted,  \* the driver plugin: on, stopping, off
    status,   \* the agent's phase: idle, running, maint(enance)
    pc,       \* await of the running driver
    aborted,  \* its abort signal
    latch,    \* wakeRequested
    turnQ,    \* inbox next-turn
    stepQ,    \* inbox next-step: a set, since it is only ever claimed whole
    claimed,  \* set of the messages of the proposed step
    decision, \* what pre-step decided: enter, reject, fenced (by the driver)
    first,    \* no step of this turn was entered yet
    limited,  \* a step of this turn hit its max-tokens ceiling
    inputs,   \* inputs sent so far
    hist      \* what a user's cancel met (for properties only)

agentVars == <<status, pc, aborted, latch, turnQ, stepQ, claimed, decision, first, limited>>
vars == <<g, d, mounted, status, pc, aborted, latch, turnQ, stepQ, claimed,
          decision, first, limited, inputs, hist>>

-----------------------------------------------------------------------------
(* Messages and records.                                                   *)

\* The messages of a list.
Items(q) == {q[i] : i \in DOMAIN q}

GoalMsg(id, rev, round) == [kind |-> "goal", id |-> id, rev |-> rev, round |-> round]
InputMsg(kind, n) == [kind |-> kind, id |-> n, rev |-> 0, round |-> 0]

NoMsg == GoalMsg(0, 0, 0)
NoAttempt == [msg |-> NoMsg, phase |-> "none", cancelled |-> FALSE, stale |-> FALSE]

FreshDriver == [attempt |-> NoAttempt, competing |-> FALSE, needs |-> FALSE,
                requested |-> FALSE, run |-> "rest"]

NoGoal == [id |-> 0, rev |-> 0, phase |-> "none", max |-> 0, rounds |-> 0,
           armed |-> FALSE, failed |-> "no", stored |-> "yes"]

Init ==
    /\ g = NoGoal
    /\ d = FreshDriver
    /\ mounted = "on"
    /\ status = "idle" /\ pc = "off"
    /\ aborted = FALSE /\ latch = FALSE
    /\ turnQ = <<>> /\ stepQ = {} /\ claimed = {}
    /\ decision = "none" /\ first = TRUE /\ limited = FALSE
    /\ inputs = 0
    /\ hist = [hit |-> "no", cut |-> FALSE]

\* An unload has nothing left to wait for.
Finished ==
    /\ mounted = "stopping" /\ d.run = "rest"
    /\ d.attempt.phase = "none" \/ status # "running"

Quiet == d.run # "loop" /\ ~(status = "idle" /\ latch) /\ ~Finished

\* Others act while the running driver awaits.  Where no outer listener awaits,
\* the promise hops between the driver's check and the step run in one drain of
\* the microtask queue; OuterAwait = TRUE lets everybody act there.
Free == Quiet /\ (pc = "outer" => OuterAwait)

HasPending == turnQ # <<>> \/ stepQ # {}

-----------------------------------------------------------------------------
(* The goal service: compare-and-set changes of the log.                   *)

\* The goal as GoalService.get shows it; a failed replay refuses every access.
Current(x) == x.failed = "no" /\ x.phase # "none"
ActiveArmed(x) == Current(x) /\ x.phase = "active" /\ x.armed

\* commit(): one more revision, not yet stored.
Commit(x, phase, max, armed) ==
    [x EXCEPT !.rev = @ + 1, !.phase = phase, !.max = max, !.armed = armed,
              !.stored = "no"]

\* disarm(): authority goes, the log stays.
Disarm(x) == IF Current(x) THEN [x EXCEPT !.armed = FALSE] ELSE x

(* Mutant: an admitted round is not counted. *)
FoldUncounted(x, m) == IF m.rev = x.rev THEN x ELSE [x EXCEPT !.failed = "fenced"]

\* applyGoalEvent on an admitted user/message: the next round of the active
\* goal at its revision, or the replay fails for good.
FoldRound(x, m) ==
    IF x.failed # "no" THEN x
    ELSE IF /\ x.phase = "active"
            /\ m.id = x.id /\ m.rev = x.rev
            /\ m.round = x.rounds + 1 /\ m.round <= x.max
    THEN [x EXCEPT !.rounds = m.round]
    ELSE [x EXCEPT !.failed = IF mounted = "off" THEN "unfenced" ELSE "fenced"]

-----------------------------------------------------------------------------
(* The driver's listeners, as functions of its state.                      *)

(* Mutant: a trigger that meets a running pass is dropped. *)
RequestWhenAtRest(x) ==
    IF mounted # "on" \/ x.run # "rest" THEN x
    ELSE [x EXCEPT !.requested = TRUE, !.run = "loop"]

RequestDrive(x) ==
    IF mounted # "on" THEN x
    ELSE [x EXCEPT !.requested = TRUE, !.run = IF @ = "rest" THEN "loop" ELSE @]

(* Mutant: a change creates no durability obligation. *)
ChangedUnchecked(x) == IF mounted = "off" THEN x ELSE RequestDrive(x)

\* goal/changed
GoalChanged(x) ==
    IF mounted = "off" THEN x ELSE RequestDrive([x EXCEPT !.needs = TRUE])

\* agent/inbox/inserted for a next-turn message that is not the reservation.
Competes(x) ==
    IF mounted = "off" THEN x
    ELSE [x EXCEPT !.competing = TRUE,
                   !.attempt = IF x.attempt.phase = "queued"
                               THEN [x.attempt EXCEPT !.stale = TRUE] ELSE x.attempt]

\* agent/inbox/claimed
OnClaimed(x, msgs) ==
    IF x.attempt.phase # "none" /\ x.attempt.msg \in msgs
    THEN [x EXCEPT !.attempt = [x.attempt EXCEPT !.phase = "claimed"]] ELSE x

\* agent/inbox/discarded
OnDiscarded(x, msgs) ==
    IF x.attempt.phase # "none" /\ x.attempt.msg \in msgs
    THEN [x EXCEPT !.attempt = [x.attempt EXCEPT !.cancelled = TRUE]] ELSE x

\* session/event user/message
OnAdmitted(x, msgs) ==
    IF x.attempt.phase # "none" /\ x.attempt.msg \in msgs
    THEN [x EXCEPT !.attempt = [x.attempt EXCEPT !.phase = "admitted"]] ELSE x

UnderWay(x) == x.attempt.phase \in {"claimed", "admitted"}

\* session/event turn/end, and agent/error before it when the turn failed.
TurnEndGoal(x, y, reason) ==
    IF /\ mounted # "off"
       /\ \/ reason \in {"max-tokens", "error"}
          \/ reason = "aborted" /\ ~UnderWay(y)
    THEN Disarm(x) ELSE x

TurnEndDriver(y, reason) ==
    IF reason = "aborted" /\ UnderWay(y)
    THEN [y EXCEPT !.attempt = [y.attempt EXCEPT !.cancelled = TRUE]] ELSE y

\* agent/status idle: the dropped or cancelled round's own goal is paused.
PausesAtIdle(x, y) ==
    /\ mounted # "off"
    /\ y.attempt.phase \in {"queued", "claimed"} \/ y.attempt.cancelled
    /\ ActiveArmed(x)
    /\ y.attempt.msg.id = x.id /\ y.attempt.msg.rev = x.rev

IdleGoal(x, y) ==
    IF PausesAtIdle(x, y) THEN Commit(x, "paused", x.max, FALSE) ELSE x

IdleDriver(x, y) ==
    IF mounted = "off" THEN y
    ELSE LET z == [y EXCEPT !.competing = FALSE] IN
         RequestDrive(IF PausesAtIdle(x, y)
                      THEN GoalChanged([z EXCEPT !.attempt = NoAttempt]) ELSE z)

-----------------------------------------------------------------------------
(* Turns.                                                                  *)

\* A turn opens and claims its first batch: all next-step input and one prompt.
\* y is the driver state, tq and sq the inbox before the claim.
OpenTurn(y, tq, sq) ==
    LET batch == sq \union (IF tq = <<>> THEN {} ELSE {Head(tq)}) IN
    /\ status' = "running" /\ pc' = "assemble"
    /\ aborted' = FALSE /\ latch' = FALSE
    /\ claimed' = batch
    /\ turnQ' = IF tq = <<>> THEN <<>> ELSE Tail(tq)
    /\ stepQ' = {}
    /\ decision' = "none" /\ first' = TRUE /\ limited' = FALSE
    /\ d' = OnClaimed(y, batch)

\* wakeDriver after the message is in tq or sq.
Wake(y, tq, sq) ==
    IF status = "idle"
    THEN OpenTurn(y, tq, sq)
    ELSE /\ latch' = (latch \/ status = "maint" \/ aborted)
         /\ turnQ' = tq /\ stepQ' = sq
         /\ d' = y
         /\ UNCHANGED <<status, pc, aborted, claimed, decision, first, limited>>

\* What a cancel met is remembered as long as the goal is active and armed.
Met(x, cut) ==
    hist' = [hit |-> IF ActiveArmed(x) THEN hist.hit ELSE "no", cut |-> cut]

\* The turn ends for reason; a driver that goes on opens the next turn, the
\* others become idle.  x and y are goal and driver state.
EndTurn(x, y, reason) ==
    LET x1 == TurnEndGoal(x, y, reason)
        y1 == TurnEndDriver(y, reason) IN
    IF reason \in {"completed", "max-tokens"} /\ ~first /\ HasPending
    THEN OpenTurn(y1, turnQ, stepQ) /\ g' = x1 /\ Met(x1, hist.cut)
    ELSE /\ status' = "idle" /\ pc' = "off"
         /\ aborted' = FALSE
         /\ claimed' = {} /\ decision' = "none" /\ first' = TRUE /\ limited' = FALSE
         /\ g' = IdleGoal(x1, y1)
         /\ d' = IdleDriver(x1, y1)
         /\ Met(g', FALSE)
         /\ UNCHANGED <<turnQ, stepQ, latch>>

\* kick() and runMaintenance() end: a latched wake starts a driver if the inbox
\* still holds anything.
ReplayWake ==
    /\ status = "idle" /\ latch /\ d.run # "loop"
    /\ IF HasPending
       THEN OpenTurn(d, turnQ, stepQ)
       ELSE latch' = FALSE /\ UNCHANGED <<d, status, pc, aborted, turnQ, stepQ,
                                          claimed, decision, first, limited>>
    /\ UNCHANGED <<g, mounted, inputs, hist>>

-----------------------------------------------------------------------------
(* The pre-step waterfall.                                                 *)

Rounds(msgs) == {m \in msgs : m.kind = "goal"}
Others(msgs) == msgs \ Rounds(msgs)

\* The round in the batch; a prompt is claimed alone, so there is one at most.
Submitted == CHOOSE m \in claimed : m.kind = "goal"

\* restoreOtherClaimed
Restored == (Others(claimed) \ Items(turnQ)) \union stepQ

(* Mutant: the reservation is checked without the goal's revision. *)
ValidAnyRevision(m) ==
    /\ mounted = "on"
    /\ d.attempt.phase = "claimed" /\ ~d.attempt.stale /\ d.attempt.msg = m
    /\ ActiveArmed(g)
    /\ m.id = g.id /\ m.round = g.rounds + 1

\* validReservation
Valid(m) ==
    /\ mounted = "on"
    /\ d.attempt.phase = "claimed" /\ ~d.attempt.stale /\ d.attempt.msg = m
    /\ ActiveArmed(g)
    /\ m.id = g.id /\ m.rev = g.rev /\ m.round = g.rounds + 1

\* The driver rejects its own round and gives the rest of the batch back.
Fence(m) ==
    /\ pc' = "outer" /\ decision' = "fenced"
    /\ stepQ' = Restored
    /\ d' = RequestDrive(IF d.attempt.msg = m \/ pc = "down"
                         THEN [d EXCEPT !.attempt = NoAttempt] ELSE d)
    /\ UNCHANGED <<g, status, aborted, latch, turnQ, claimed, first, limited, hist>>

\* systemPrompt.assemble settles and the waterfall reaches the driver.
Assembled ==
    /\ Quiet /\ pc = "assemble"
    /\ \/ /\ aborted
          /\ EndTurn(g, d, "aborted")
       \/ /\ ~aborted
          /\ EndTurn(g, d, "error")
       \/ /\ ~aborted
          /\ mounted # "off" /\ Rounds(claimed) # {} /\ ~Valid(Submitted)
          /\ Fence(Submitted)
       \/ /\ ~aborted
          /\ mounted # "off" /\ Rounds(claimed) # {} => Valid(Submitted)
          /\ pc' = "down"
          /\ UNCHANGED <<g, d, status, aborted, latch, turnQ, stepQ, claimed,
                         decision, first, limited, hist>>
    /\ UNCHANGED <<mounted, inputs>>

\* The listeners after the driver settle: enter.
DownstreamEnters ==
    LET mine == mounted # "off" /\ Rounds(claimed) # {} IN
    \/ /\ mine /\ ~aborted /\ ~Valid(Submitted)
       /\ Fence(Submitted)
    \/ /\ mine /\ ~aborted => Valid(Submitted)
       /\ pc' = "outer" /\ decision' = "enter"
       /\ stepQ' = IF mine /\ aborted THEN Restored ELSE stepQ
       /\ UNCHANGED <<g, d, status, aborted, latch, turnQ, claimed, first, limited, hist>>

\* The listeners after the driver reject the step: the goal is blocked.
DownstreamRejects ==
    LET mine == mounted # "off" /\ Rounds(claimed) # {} /\ ~aborted
        m == Submitted
        blocks == mine /\ ActiveArmed(g) /\ m.id = g.id /\ m.rev = g.rev
        y == IF mine THEN [d EXCEPT !.attempt = NoAttempt] ELSE d IN
    /\ pc' = "outer" /\ decision' = "reject"
    /\ g' = IF blocks THEN Commit(g, "blocked", g.max, FALSE) ELSE g
    /\ d' = IF blocks THEN GoalChanged(y) ELSE y
    /\ UNCHANGED <<status, aborted, latch, turnQ, stepQ, claimed, first, limited, hist>>

\* They throw: unless the turn is aborted the reservation is cleared first.
DownstreamThrows ==
    LET mine == mounted # "off" /\ Rounds(claimed) # {} IN
    IF aborted
    THEN EndTurn(g, d, "aborted")
    ELSE EndTurn(g, IF mine THEN RequestDrive([d EXCEPT !.attempt = NoAttempt]) ELSE d,
                 "error")

Downstream ==
    /\ Quiet /\ pc = "down"
    /\ DownstreamEnters \/ DownstreamRejects \/ DownstreamThrows
    /\ UNCHANGED <<mounted, inputs>>

\* preStep returns to turn(): aborted, rejected, empty, or the batch is logged.
EnterStep ==
    /\ Quiet /\ pc = "outer"
    /\ IF aborted
       THEN EndTurn(g, d, "aborted")
       ELSE IF decision # "enter"
       THEN EndTurn(g, d, "blocked")
       ELSE IF first /\ claimed = {}
       THEN EndTurn(g, d, "completed")
       ELSE /\ pc' = "step" /\ first' = FALSE
            /\ g' = IF Rounds(claimed) = {} THEN g
                    ELSE FoldRound(g, Submitted)
            /\ d' = OnAdmitted(d, claimed)
            /\ claimed' = {} /\ decision' = "none"
            /\ UNCHANGED <<status, aborted, latch, turnQ, stepQ, limited, hist>>
    /\ UNCHANGED <<mounted, inputs>>

\* A step ends the turn unless next-step input or tool results want another.
StepEnds(reason) ==
    /\ Quiet /\ pc = "step" /\ ~aborted
    /\ IF stepQ = {}
       THEN EndTurn(g, d, IF limited THEN "max-tokens" ELSE reason)
       ELSE /\ pc' = "assemble"
            /\ claimed' = stepQ /\ stepQ' = {}
            /\ limited' = (limited \/ reason = "max-tokens")
            /\ UNCHANGED <<g, d, status, aborted, latch, turnQ, decision, first, hist>>
    /\ UNCHANGED <<mounted, inputs>>

StepContinues ==
    /\ Quiet /\ pc = "step" /\ ~aborted
    /\ pc' = "assemble"
    /\ claimed' = stepQ /\ stepQ' = {}
    /\ UNCHANGED <<g, d, mounted, status, aborted, latch, turnQ, decision, first,
                   limited, inputs, hist>>

StepFails ==
    /\ Quiet /\ pc = "step"
    /\ EndTurn(g, d, IF aborted THEN "aborted" ELSE "error")
    /\ UNCHANGED <<mounted, inputs>>

-----------------------------------------------------------------------------
(* drive().                                                                *)

ReadyToDrive(y) == mounted = "on" /\ status # "running" /\ ~y.competing

Looping(x, y) ==
    /\ g' = x /\ d' = y
    /\ UNCHANGED <<agentVars, hist>>

\* block(): round-limit, or queue-failed.
Blocked(x, y) == Looping(Commit(x, "blocked", x.max, FALSE), GoalChanged(y))

\* After the checkpoint: retire the finished attempt, or reserve and queue one
\* round, or block the goal.  x and y are goal and driver state, run = "loop".
Reserve(x, y) ==
    IF y.attempt.phase # "none"
    THEN Looping(x, [y EXCEPT !.attempt = NoAttempt, !.needs = TRUE, !.requested = TRUE])
    ELSE IF ~ActiveArmed(x) THEN Looping(x, y)
    ELSE IF x.rounds >= x.max THEN Blocked(x, y)
    ELSE LET m == GoalMsg(x.id, x.rev, x.rounds + 1) IN
         \/ /\ Wake([y EXCEPT !.attempt = [NoAttempt EXCEPT !.msg = m, !.phase = "queued"]],
                    Append(turnQ, m), stepQ)
            /\ g' = x /\ UNCHANGED hist
         \/ \* followup refused
            Blocked(x, y)

\* One iteration of the loop of requestDrive, up to its await.
Drive ==
    /\ d.run = "loop"
    /\ IF ~d.requested \/ mounted # "on"
       THEN Looping(g, [d EXCEPT !.run = "rest"])
       ELSE LET y == [d EXCEPT !.requested = FALSE] IN
            IF ~ReadyToDrive(y) THEN Looping(g, y)
            ELSE IF y.needs
            THEN Looping([g EXCEPT !.stored = IF @ = "no" THEN "flushing" ELSE @],
                         [y EXCEPT !.needs = FALSE, !.run = "flush"])
            ELSE Reserve(g, y)
    /\ UNCHANGED <<mounted, inputs>>

\* sessions.flush settles; what changed meanwhile gets its own checkpoint.
FlushSettles ==
    LET y == [d EXCEPT !.run = "loop"]
        x == [g EXCEPT !.stored = IF @ = "flushing" THEN "yes" ELSE @] IN
    /\ Free /\ d.run = "flush"
    /\ \/ Looping(Disarm([g EXCEPT !.stored = IF @ = "flushing" THEN "no" ELSE @]), y)
       \/ IF ReadyToDrive(y) /\ ~y.needs THEN Reserve(x, y) ELSE Looping(x, y)
    /\ UNCHANGED <<mounted, inputs>>

-----------------------------------------------------------------------------
(* Operations on the goal, by the host or by the model inside its turn.     *)

\* A change reaches the log and the driver; a pause by the host aborts the
\* running turn and keeps the inbox.
Change(x, abort) ==
    /\ g' = x
    /\ d' = GoalChanged(d)
    /\ aborted' = (aborted \/ (abort /\ mounted # "off" /\ status = "running"))
    /\ UNCHANGED <<mounted, status, pc, latch, turnQ, stepQ, claimed, decision,
                   first, limited, inputs>>

\* The user asked for automatic work, or changed the goal, after a cancel.
Renewed == hist' = [hist EXCEPT !.hit = "no"]
Touched == hist' = [hist EXCEPT !.hit = IF ~ActiveArmed(g') THEN "no"
                                        ELSE IF @ = "exact" THEN "other" ELSE @]

Changeable == Free /\ Current(g) /\ g.rev < MaxRevision

Create(max) ==
    /\ Free /\ g.failed = "no" /\ g.phase \in {"none", "complete"} /\ g.id < MaxGoals
    /\ Change([NoGoal EXCEPT !.id = g.id + 1, !.rev = 1, !.phase = "active",
                             !.max = max, !.armed = TRUE, !.stored = "no"], FALSE)
    /\ Renewed

Edit(max) ==
    /\ Changeable
    /\ Change(Commit(g, g.phase, max, g.armed), FALSE)
    /\ Touched

\* By the host, or by the model (update_goal) while its step runs.
Pause(host) ==
    /\ Changeable /\ g.phase = "active"
    /\ host \/ pc = "step"
    /\ Change(Commit(g, "paused", g.max, FALSE), host)
    /\ Touched

Resume ==
    /\ Changeable /\ g.phase \in {"active", "paused", "blocked"}
    /\ ~(g.phase = "active" /\ g.armed)
    /\ g.rounds < g.max
    /\ Change(Commit(g, "active", g.max, TRUE), FALSE)
    /\ Renewed

Complete ==
    /\ Changeable /\ g.phase # "complete"
    /\ Change(Commit(g, "complete", g.max, FALSE), FALSE)
    /\ Touched

\* The model reports a blocker.
Block ==
    /\ Changeable /\ g.phase = "active" /\ pc = "step"
    /\ Change(Commit(g, "blocked", g.max, FALSE), FALSE)
    /\ Touched

\* The tombstone leaves no current goal; ids are never used again.
Clear ==
    /\ Free /\ Current(g)
    /\ Change([NoGoal EXCEPT !.id = g.id], FALSE)
    /\ Touched

-----------------------------------------------------------------------------
(* The agent's users.                                                      *)

\* A human prompt, or steering: after an abort it waits for the next turn.
Send(kind) ==
    LET m == InputMsg(kind, inputs + 1)
        queued == kind = "user" \/ (status # "idle" /\ aborted) IN
    /\ Free /\ inputs < MaxInput
    /\ inputs' = inputs + 1
    /\ IF queued
       THEN Wake(Competes(d), Append(turnQ, m), stepQ)
       ELSE Wake(d, turnQ, stepQ \union {m})
    /\ UNCHANGED <<g, mounted, hist>>

\* inject(): context for the next step, without a wake.
Inject ==
    /\ Free /\ inputs < MaxInput
    /\ inputs' = inputs + 1
    /\ stepQ' = stepQ \union {InputMsg("context", inputs + 1)}
    /\ UNCHANGED <<g, d, mounted, status, pc, aborted, latch, turnQ, claimed,
                   decision, first, limited, hist>>

\* cancel(): the inbox is cleared and the activity aborted.
CancelWith(y) ==
    /\ turnQ' = <<>> /\ stepQ' = {}
    /\ latch' = FALSE
    /\ aborted' = (status # "idle")
    /\ d' = OnDiscarded(y, Items(turnQ) \union stepQ)
    /\ UNCHANGED <<status, pc, claimed, decision, first, limited, inputs>>

Cancel ==
    /\ Free
    /\ CancelWith(d)
    /\ hist' = [hit |-> IF d.attempt.phase = "none" \/ d.attempt.msg.id # g.id \/ ~ActiveArmed(g)
                          THEN hist.hit
                        ELSE IF d.attempt.msg.rev = g.rev /\ status = "running" /\ ~aborted
                          THEN "exact" ELSE "other",
                cut |-> \/ hist.cut
                        \/ status = "maint" /\ (d.competing \/ d.attempt.phase # "none")]
    /\ UNCHANGED <<g, mounted>>

\* runMaintenance: the public status stays idle, so no edge is announced.
BeginMaintenance ==
    /\ Free /\ status = "idle"
    /\ status' = "maint" /\ aborted' = FALSE
    /\ UNCHANGED <<g, d, mounted, pc, latch, turnQ, stepQ, claimed, decision,
                   first, limited, inputs, hist>>

EndMaintenance ==
    /\ Free /\ status = "maint"
    /\ status' = "idle" /\ aborted' = FALSE
    /\ UNCHANGED <<g, d, mounted, pc, latch, turnQ, stepQ, claimed, decision,
                   first, limited, inputs, hist>>

-----------------------------------------------------------------------------
(* Lifetimes.                                                              *)

\* The plugin unloads: it stops scheduling, disarms, cancels its round.
Unload ==
    /\ Free /\ mounted = "on"
    /\ mounted' = "stopping"
    /\ g' = Disarm(g)
    /\ LET y == IF d.attempt.phase = "none" THEN d ELSE [d EXCEPT !.attempt = [d.attempt EXCEPT !.stale = TRUE]] IN
       IF y.attempt.phase # "none" /\ status = "running"
       THEN CancelWith(y)
       ELSE d' = y /\ UNCHANGED <<agentVars, inputs>>
    /\ UNCHANGED hist

\* Its tasks and its cancelled round settled: the listeners go.
Unloaded ==
    /\ Finished
    /\ mounted' = "off"
    /\ d' = FreshDriver
    /\ UNCHANGED <<g, agentVars, inputs, hist>>

\* Mounted over a live agent: no authority is inherited.
Load ==
    /\ Free /\ mounted = "off"
    /\ mounted' = "on"
    /\ g' = Disarm(g)
    /\ UNCHANGED <<d, agentVars, inputs, hist>>

(* Mutant: the resumed agent keeps the step of the old process. *)
RestartInStep ==
    /\ Free
    /\ g' = [g EXCEPT !.armed = FALSE, !.stored = "yes"]
    /\ d' = FreshDriver
    /\ mounted' = "on"
    /\ status' = "idle"
    /\ aborted' = FALSE /\ latch' = FALSE
    /\ hist' = [hit |-> "no", cut |-> FALSE]
    /\ UNCHANGED <<pc, claimed, decision, first, limited, turnQ, stepQ, inputs>>

\* The process ends and the session is resumed: the log is replayed, claimed
\* messages are in neither list, nothing is armed (agent/session-start).
Restart ==
    /\ Free
    /\ g' = [g EXCEPT !.armed = FALSE, !.stored = "yes"]
    /\ d' = FreshDriver
    /\ mounted' = "on"
    /\ status' = "idle" /\ pc' = "off"
    /\ aborted' = FALSE /\ latch' = FALSE
    /\ claimed' = {} /\ decision' = "none" /\ first' = TRUE /\ limited' = FALSE
    /\ hist' = [hit |-> "no", cut |-> FALSE]
    /\ UNCHANGED <<turnQ, stepQ, inputs>>

-----------------------------------------------------------------------------
\* What the running agent, the model and storage bring to an end.
AgentStep ==
    \/ Assembled \/ Downstream \/ EnterStep
    \/ StepFails \/ \E reason \in {"completed", "max-tokens"} : StepEnds(reason)

DriverStep == Drive \/ FlushSettles \/ ReplayWake \/ Unloaded

HostStep ==
    \/ \E max \in 1 .. MaxCap : Create(max) \/ Edit(max)
    \/ \E host \in BOOLEAN : Pause(host)
    \/ Resume \/ Complete \/ Block \/ Clear
    \/ \E kind \in {"user", "steer"} : Send(kind)
    \/ Inject \/ Cancel \/ BeginMaintenance \/ EndMaintenance
    \/ Unload \/ Load \/ Restart

Next == AgentStep \/ StepContinues \/ DriverStep \/ HostStep

\* Every await of the agent settles, a round does not call tools for ever, a
\* maintenance task ends, a flush settles.
Fairness ==
    /\ WF_vars(Assembled \/ Downstream \/ EnterStep)
    /\ SF_vars(StepFails \/ \E reason \in {"completed", "max-tokens"} : StepEnds(reason))
    /\ WF_vars(DriverStep)
    /\ SF_vars(EndMaintenance)

Spec == Init /\ [][Next]_vars /\ Fairness

-----------------------------------------------------------------------------
(* Properties.                                                             *)

Message ==
    [kind : {"goal"}, id : 0 .. MaxGoals, rev : 0 .. MaxRevision + 1, round : 0 .. MaxCap]
      \union [kind : {"user", "steer", "context"}, id : 1 .. MaxInput, rev : {0}, round : {0}]

\* Every variable has its type.
TypeOK ==
    /\ g.phase \in {"none", "active", "paused", "blocked", "complete"}
    /\ g.failed \in {"no", "fenced", "unfenced"}
    /\ d.attempt.msg \in Message
    /\ d.run \in {"rest", "loop", "flush"}
    /\ Items(turnQ) \union stepQ \union claimed \subseteq Message
    /\ (status = "running") <=> (pc # "off")

\* No interleaving of edits, pauses, clears, prompts and cancels with a round
\* that is queued, claimed or being prepared lets a goal message enter that the
\* strict fold refuses: the fold never forgives one (goal/src/fold.ts).  That is
\* the README's claim; it is true where no outer listener awaits.
FoldNeverFails == g.failed # "fenced"

\* A round is reserved only for a revision whose change is stored: no crash
\* finds model work done for a goal the log does not have.
CheckpointedFirst ==
    d.attempt.phase # "none" /\ d.attempt.msg.id = g.id /\ d.attempt.msg.rev = g.rev
        => g.stored = "yes"

AtRest == status = "idle" /\ ~latch /\ d.run = "rest"

\* No lost trigger: an idle agent with the driver at rest has no active armed
\* goal, whichever of the coalesced requests, checkpoints and idle edges came
\* last.  The exception is a cancel of maintenance, which no edge announces.
NoStalledGoal == AtRest /\ mounted = "on" /\ ActiveArmed(g) => hist.cut

\* A user's cancel that meets a round of the current revision stops automatic
\* work until the goal is operated on again.
CancelPauses == AtRest /\ hist.hit = "exact" => ~ActiveArmed(g)

\* When everything is at rest no goal believes it is being worked on.
RestIsExplained == NoStalledGoal /\ CancelPauses

\* "Cancellation never auto-restarts a round: a goal whose round was under way
\* or already queued is paused at the next idle point."
CancelledGoalIsPaused == AtRest /\ hist.hit # "no" => ~ActiveArmed(g)

\* What the driver rejects is its own round only: human context claimed with it
\* is pending again, until a cancel clears the inbox.
FenceKeepsInput ==
    decision = "fenced" /\ ~aborted => Others(claimed) \subseteq stepQ

\* A round enters only with its goal stored, and one that is turned away takes
\* nothing else with it (ensureCheckpoint, restoreOtherClaimed).
RoundDiscipline == CheckpointedFirst /\ FenceKeepsInput

\* An armed goal does not run for ever: its rounds, its cap or a stop end it,
\* unless maintenance tasks keep coming between its checkpoints.
ArmedGoalConcludes ==
    <>[](status # "maint")
        => (ActiveArmed(g) ~> ~ActiveArmed(g) \/ hist.cut \/ mounted # "on")
=============================================================================
