-------------------------------- MODULE Jobs --------------------------------
(***************************************************************************)
(* Background jobs: the process-local registry                             *)
(* (packages/jobs/jobs-local/src/index.ts), the completion notices and the *)
(* job_output wait of packages/jobs/tool-jobs/src/index.ts, and as much of *)
(* the owning agents as decides whether a notice wakes them and when their *)
(* cleanup runs (packages/core/agent-loop/src).                            *)
(*                                                                         *)
(* A job slot is one TrackedTask with the work of its producer.  A slot is *)
(* used again once its record is terminal, its work is over and no call    *)
(* waits for it.  A caller without access to a job only gets an error, so  *)
(* every call in the model comes from a caller with access.                *)
(***************************************************************************)
EXTENDS Naturals, Sequences, FiniteSets

CONSTANTS Job,         \* slots for jobs
          Owner,       \* agents
          NoOwner,     \* owner of the unowned jobs
          Wait,        \* job_output calls with wait: true
          NoJob,
          MaxJobs,     \* maxConcurrentJobsPerOwner
          MaxWakes,    \* maxConsecutiveWakes
          MaxCalls,    \* jobs the model starts or waits for in one turn
          MaxInput,    \* prompts of the user
          MaxRemounts  \* reloads of tool-jobs

ASSUME JobsAssumption ==
    /\ NoOwner \notin Owner /\ NoJob \notin Job /\ IsFiniteSet(Job)
    /\ MaxJobs \in Nat \ {0} /\ MaxWakes \in Nat \ {0}
    /\ MaxCalls \in Nat /\ MaxInput \in Nat /\ MaxRemounts \in Nat

VARIABLES
    job,       \* the records, and the work behind them
    wait,      \* the calls of wait(): the await each is at
    agent,     \* the owners
    svc,       \* the registry: up, closing (disposeAll), down
    mounted,   \* tool-jobs is loaded: controller and completion listener
    input,     \* prompts sent
    remounts

vars == <<job, wait, agent, svc, mounted, input, remounts>>

-----------------------------------------------------------------------------
\* st is the status, with one value for the three terminal ones, and "none"
\* where the store has no record.  work is the producer's side: on, ended (its
\* `done` has resolved and settle is due) or off.  History: known says
\* that the completion was announced, that no listener was there to announce
\* it, or that somebody killed, read or tore down the job; forced that a
\* throwing cancel left the work behind.
NoRecord == [st |-> "none", owner |-> NoOwner, work |-> "off",
             reported |-> FALSE, known |-> FALSE, forced |-> FALSE]

\* by is the agent whose tool body waits, counted its share of job.waiters.
NotWaiting == [pc |-> "idle", job |-> NoJob, by |-> NoOwner, counted |-> FALSE]

\* reg is where the disposal of the agent is, act its driver.  turnQ and notes
\* are the next-turn list and whether notices are in the next-step list; spent
\* is spentWakes, attached says that ownerCleanups has the agent, owned is the
\* snapshot of disposeOwned.  calls counts the job calls of the turn.  History:
\* chain counts the turns opened by notices alone, prompts the claimed prompts.
Fresh == [reg |-> "live", act |-> "idle", latch |-> FALSE, turnQ |-> <<>>,
          notes |-> FALSE, spent |-> 0, attached |-> FALSE, owned |-> {},
          calls |-> 0, chain |-> 0, prompts |-> 0]

Init ==
    /\ job = [j \in Job |-> NoRecord]
    /\ wait = [w \in Wait |-> NotWaiting]
    /\ agent = [o \in Owner |-> Fresh]
    /\ svc = "up" /\ mounted = TRUE
    /\ input = 0 /\ remounts = 0

Live(j)     == job[j].st \in {"running", "stopping"}
Terminal(j) == job[j].st = "terminal"

\* activeTaskCount
Active(o) == Cardinality({j \in Job : Live(j) /\ job[j].owner = o})

Awaited(j) == \E w \in Wait : wait[w].job = j

\* Nobody refers to what the slot held before.
Reusable(j) ==
    /\ ~Live(j) /\ job[j].work = "off" /\ ~Awaited(j)
    /\ \A o \in Owner : j \notin agent[o].owned

\* A tool body of the agent is running; a cancelled turn still awaits it.
InTool(o) == agent[o].act \in {"step", "aborting"}

\* A tool body of o is inside a job_output call.
Calling(o) == \E w \in Wait : wait[w].by = o

-----------------------------------------------------------------------------
(* The registry. *)

\* ensureOwnerCleanup: the agent is registered and, unless the cleanup is
\* attached already, its scope still takes effects.
Ownable(o) ==
    /\ agent[o].reg # "gone"
    /\ agent[o].attached \/ agent[o].reg \in {"live", "closing", "unwinding"}

\* start() by a tool body of its owner.  The cleanup is attached before the
\* limit is looked at and before the producer runs, which may throw.
StartOwned(j, o) ==
    /\ svc = "up" /\ mounted
    /\ InTool(o) /\ Ownable(o) /\ agent[o].calls < MaxCalls
    /\ Reusable(j)
    /\ agent' = [agent EXCEPT ![o] = [@ EXCEPT !.attached = TRUE, !.calls = agent[o].calls + 1]]
    /\ \/ /\ Active(o) < MaxJobs
          /\ job' = [job EXCEPT ![j] = [NoRecord EXCEPT !.st = "running",
                                          !.owner = o, !.work = "on"]]
       \/ UNCHANGED job
    /\ UNCHANGED <<wait, svc, mounted, input, remounts>>

\* start() without an owner.
StartUnowned(j) ==
    /\ svc = "up" /\ mounted
    /\ Reusable(j)
    /\ Active(NoOwner) < MaxJobs
    /\ job' = [job EXCEPT ![j] = [NoRecord EXCEPT !.st = "running", !.work = "on"]]
    /\ UNCHANGED <<wait, agent, svc, mounted, input, remounts>>

\* The work ends by itself or because it was cancelled: `done` resolves or
\* rejects.  Forced work may end too.
WorkEnds(j) ==
    /\ job[j].work = "on"
    /\ job' = [job EXCEPT ![j].work = "ended"]
    /\ UNCHANGED <<wait, agent, svc, mounted, input, remounts>>

(* Mutant: the budget is spent and not looked at. *)
NotifyUnbounded(a) ==
    IF a.act = "idle"
    THEN [a EXCEPT !.spent = @ + 1, !.turnQ = Append(@, "note"), !.act = "open"]
    ELSE [a EXCEPT !.notes = TRUE]

\* The completion listener: a notice wakes an idle owner while its budget
\* lasts and is otherwise left for the next step.
Notify(a) ==
    IF a.act = "idle" /\ a.spent < MaxWakes
    THEN [a EXCEPT !.spent = @ + 1, !.turnQ = Append(@, "note"), !.act = "open"]
    ELSE [a EXCEPT !.notes = TRUE]

\* settle() releases the waits of the settled jobs.
Released(J) ==
    [w \in Wait |-> IF wait[w].job \in J /\ wait[w].pc = "waiting"
                    THEN [wait[w] EXCEPT !.pc = "resolved"] ELSE wait[w]]

\* settle() after `done`: the first terminal outcome is recorded, a counted
\* wait makes the job reported, and the completion is announced last.
Settle(j) ==
    LET o        == job[j].owner
        reported == job[j].reported \/ \E w \in Wait : wait[w].job = j /\ wait[w].counted
        heard    == mounted /\ svc = "up"
        due      == ~reported /\ o # NoOwner
    IN /\ job[j].work = "ended"
       /\ IF ~Live(j)
          THEN /\ job' = [job EXCEPT ![j].work = "off"]
               /\ UNCHANGED <<wait, agent>>
          ELSE /\ job' = [job EXCEPT ![j] =
                      [@ EXCEPT !.st = "terminal", !.work = "off",
                                !.reported = reported, !.known = job[j].known \/ due]]
               /\ wait' = Released({j})
               /\ agent' = IF due /\ heard THEN [agent EXCEPT ![o] = Notify(@)] ELSE agent
       /\ UNCHANGED <<svc, mounted, input, remounts>>

\* kill() of a live job whose cancel does not throw.
Kill(j) ==
    /\ svc = "up" /\ Live(j)
    /\ job' = [job EXCEPT ![j] = [@ EXCEPT !.st = "stopping", !.reported = TRUE,
                                           !.known = TRUE]]
    /\ UNCHANGED <<wait, agent, svc, mounted, input, remounts>>

\* read() of a terminal job; kill() and wait() of one do the same.
Read(j) ==
    /\ svc = "up" /\ Terminal(j)
    /\ job' = [job EXCEPT ![j] = [@ EXCEPT !.reported = TRUE, !.known = TRUE]]
    /\ UNCHANGED <<wait, agent, svc, mounted, input, remounts>>

-----------------------------------------------------------------------------
(* wait(), called by job_output in a step of an agent. *)

BeginWait(w, j, o) ==
    /\ svc = "up" /\ mounted
    /\ wait[w].pc = "idle"
    /\ agent[o].act = "step" /\ agent[o].calls < MaxCalls
    /\ agent' = [agent EXCEPT ![o].calls = @ + 1]
    /\ Live(j) /\ job[j].owner \in {o, NoOwner}
    /\ wait' = [wait EXCEPT ![w] = [pc |-> "waiting", job |-> j, by |-> o, counted |-> TRUE]]
    /\ UNCHANGED <<job, svc, mounted, input, remounts>>

\* onAbort for the deadline: the wait resolves and stays counted until its
\* continuation runs.
TimerFires(w) ==
    /\ wait[w].pc = "waiting"
    /\ wait' = [wait EXCEPT ![w].pc = "resolved"]
    /\ UNCHANGED <<job, agent, svc, mounted, input, remounts>>

(* Mutant: the wait is uncounted by its continuation only. *)
AbortedLater(w) == [wait[w] EXCEPT !.pc = "rejected"]

\* onAbort for the caller's signal: the wait is uncounted at once.
Aborted(w) == [wait[w] EXCEPT !.pc = "rejected", !.counted = FALSE]

\* The call's own signal fires, by its timeout policy for instance.
AbortWait(w) ==
    /\ wait[w].pc = "waiting"
    /\ wait' = [wait EXCEPT ![w] = Aborted(w)]
    /\ UNCHANGED <<job, agent, svc, mounted, input, remounts>>

\* The continuation of wait(): uncount, and report a job that is terminal by
\* now; a rejected call is over.
WaitReturns(w) ==
    /\ wait[w].pc \in {"resolved", "rejected"}
    /\ LET j == wait[w].job
       IN IF wait[w].pc = "rejected"
          THEN /\ wait' = [wait EXCEPT ![w] = NotWaiting]
               /\ UNCHANGED job
          ELSE /\ wait' = [wait EXCEPT ![w] = [@ EXCEPT !.pc = "reading", !.counted = FALSE]]
               /\ job' = [job EXCEPT ![j].reported = @ \/ Terminal(j)]
    /\ UNCHANGED <<agent, svc, mounted, input, remounts>>

\* job_output reads the job after the wait; the record may be gone.
ReadAfterWait(w) ==
    LET j == wait[w].job
    IN /\ wait[w].pc = "reading"
       /\ wait' = [wait EXCEPT ![w] = NotWaiting]
       /\ job' = [job EXCEPT ![j] = [@ EXCEPT
                             !.reported = job[j].reported \/ Terminal(j),
                             !.known = job[j].known \/ Terminal(j)]]
       /\ UNCHANGED <<agent, svc, mounted, input, remounts>>

-----------------------------------------------------------------------------
(* The driver of an agent, reduced to what the notices meet. *)

\* A prompt: it waits for the running turn, wakes an idle agent, or is latched
\* behind an aborted turn.  Nobody writes to an agent that is being disposed.
Send(o) ==
    /\ input < MaxInput /\ input' = input + 1
    /\ agent[o].reg = "live"
    /\ agent' = [agent EXCEPT ![o] =
           [@ EXCEPT !.turnQ = Append(agent[o].turnQ, "user"),
                     !.act = IF agent[o].act = "idle" THEN "open" ELSE agent[o].act,
                     !.latch = agent[o].latch \/ agent[o].act \in {"aborting", "aborted"}]]
    /\ UNCHANGED <<job, wait, svc, mounted, remounts>>

\* The claim listener: a prompt restores the budget, a notice does not.
Refilled(spent, prompt) == IF prompt /\ mounted THEN 0 ELSE spent

\* A turn opens and claims the notices and one queued message.
OpenTurn(o) ==
    LET a      == agent[o]
        prompt == a.turnQ # <<>> /\ Head(a.turnQ) = "user"
        claims == a.turnQ # <<>> \/ a.notes
    IN /\ a.act = "open"
       /\ agent' = [agent EXCEPT ![o] =
              [a EXCEPT !.act = "step", !.calls = 0,
                        !.turnQ = IF a.turnQ = <<>> THEN <<>> ELSE Tail(a.turnQ),
                        !.notes = FALSE,
                        !.spent = Refilled(a.spent, prompt),
                        !.prompts = IF prompt THEN a.prompts + 1 ELSE a.prompts,
                        !.chain = IF ~prompt /\ claims THEN a.chain + 1 ELSE a.chain]]
       /\ UNCHANGED <<job, wait, svc, mounted, input, remounts>>

\* The step ends: pending notices are claimed by another step, else the turn
\* closes and the driver goes on to the next one or has nothing left.
StepEnds(o) ==
    /\ agent[o].act = "step" /\ ~Calling(o)
    /\ agent' = [agent EXCEPT ![o] =
           [@ EXCEPT !.notes = FALSE,
                     !.act = CASE agent[o].notes -> "step"
                               [] ~agent[o].notes /\ agent[o].turnQ # <<>> -> "open"
                               [] ~agent[o].notes /\ agent[o].turnQ = <<>> -> "retiring"]]
    /\ UNCHANGED <<job, wait, svc, mounted, input, remounts>>

\* A failed or blocked turn ends the driver, whatever is pending.
TurnFails(o) ==
    /\ agent[o].act \in {"open", "step"} /\ ~Calling(o)
    /\ agent' = [agent EXCEPT ![o].act = "retiring"]
    /\ UNCHANGED <<job, wait, svc, mounted, input, remounts>>

\* The driver that passed its last inbox check commits its idle phase.
Retire(o) ==
    /\ agent[o].act = "retiring"
    /\ agent' = [agent EXCEPT ![o].act = "idle"]
    /\ UNCHANGED <<job, wait, svc, mounted, input, remounts>>

\* cancel(): the inbox is cleared unless it is kept, the turn is aborted and
\* with it the waits of its tool bodies.
Cancelled(a, keep) ==
    [a EXCEPT !.turnQ = IF keep THEN a.turnQ ELSE <<>>, !.notes = keep /\ a.notes,
              !.latch = keep /\ a.latch,
              !.act = CASE a.act = "idle" -> "idle"
                        [] a.act \in {"step", "aborting"} -> "aborting"
                        [] OTHER -> "aborted"]

AbortCalls(o) ==
    wait' = [w \in Wait |-> IF wait[w].by = o /\ wait[w].pc = "waiting"
                            THEN Aborted(w) ELSE wait[w]]

Cancel(o, keep) ==
    /\ agent[o].reg = "live"
    /\ agent' = [agent EXCEPT ![o] = Cancelled(@, keep)]
    /\ AbortCalls(o)
    /\ UNCHANGED <<job, svc, mounted, input, remounts>>

\* The aborted turn has settled; a latched wake is replayed.
AbortSettles(o) ==
    /\ agent[o].act \in {"aborting", "aborted"} /\ ~Calling(o)
    /\ agent' = [agent EXCEPT ![o] =
           [@ EXCEPT !.latch = FALSE,
                     !.act = IF agent[o].latch /\ (agent[o].turnQ # <<>> \/ agent[o].notes)
                             THEN "open" ELSE "idle"]]
    /\ UNCHANGED <<job, wait, svc, mounted, input, remounts>>

-----------------------------------------------------------------------------
(* Disposal of an owner, of the registry, and reloads of tool-jobs. *)

(* Mutant: a throwing cancel leaves the record as it is. *)
TornDownUnforced(J, T) ==
    [j \in Job |->
        IF j \notin J \/ ~Live(j) THEN job[j]
        ELSE [job[j] EXCEPT !.reported = TRUE, !.known = TRUE,
                            !.st = IF j \in T THEN @ ELSE "stopping"]]

\* cancelForTeardown of the jobs J, of which those in T have a throwing cancel
\* and are failed by force: their settlement is reported and announces nothing.
TornDown(J, T) ==
    [j \in Job |->
        IF j \notin J \/ ~Live(j) THEN job[j]
        ELSE [job[j] EXCEPT !.reported = TRUE, !.known = TRUE,
                            !.st = IF j \in T THEN "terminal" ELSE "stopping",
                            !.forced = j \in T]]

\* The records of J leave the store; forced work goes on without one.
Dropped(J) ==
    [j \in Job |-> IF j \in J
                   THEN [NoRecord EXCEPT !.work = job[j].work, !.forced = job[j].forced]
                   ELSE job[j]]

OwnedBy(o) == {j \in Job : job[j].st # "none" /\ job[j].owner = o}

\* dispose(): a cancel that keeps nothing, then whenIdle.
Dispose(o) ==
    /\ agent[o].reg = "live"
    /\ agent' = [agent EXCEPT ![o] = [Cancelled(@, FALSE) EXCEPT !.reg = "closing"]]
    /\ AbortCalls(o)
    /\ UNCHANGED <<job, svc, mounted, input, remounts>>

\* whenIdle returns: the last activity is over and no other one began.
Quiesced(o) ==
    /\ agent[o].reg = "closing" /\ agent[o].act = "idle"
    /\ agent' = [agent EXCEPT ![o].reg = "unwinding"]
    /\ UNCHANGED <<job, wait, svc, mounted, input, remounts>>

\* scope.dispose(): from here the scope takes no effect.
ScopeCloses(o) ==
    /\ agent[o].reg = "unwinding"
    /\ agent' = [agent EXCEPT ![o].reg = "disposing"]
    /\ UNCHANGED <<job, wait, svc, mounted, input, remounts>>

\* The owner's cleanup, if there is one: forget it, take the snapshot of the
\* owned jobs and cancel them.
CleanupBegins(o, T) ==
    /\ agent[o].reg = "disposing" /\ agent[o].attached
    /\ T \subseteq {j \in OwnedBy(o) : Live(j)}
    /\ agent' = [agent EXCEPT ![o] = [@ EXCEPT !.reg = "cleaning", !.attached = FALSE,
                                               !.owned = OwnedBy(o)]]
    /\ job' = TornDown(OwnedBy(o), T)
    /\ wait' = Released(T)
    /\ UNCHANGED <<svc, mounted, input, remounts>>

\* disposeOwned has awaited every settlement and deletes its snapshot; the
\* agent leaves the registry.
CleanupEnds(o) ==
    /\ \/ agent[o].reg = "cleaning" /\ \A j \in agent[o].owned : ~Live(j)
       \/ agent[o].reg = "disposing" /\ ~agent[o].attached
    /\ job' = Dropped(agent[o].owned)
    /\ agent' = [agent EXCEPT ![o] = [@ EXCEPT !.reg = "gone", !.owned = {}]]
    /\ UNCHANGED <<wait, svc, mounted, input, remounts>>

\* disposeAll; tool-jobs depends on the registry and is unloaded with it.
DisposeAll(T) ==
    /\ svc = "up" /\ svc' = "closing" /\ mounted' = FALSE
    /\ T \subseteq {j \in Job : Live(j)}
    /\ job' = TornDown(Job, T)
    /\ wait' = Released(T)
    /\ UNCHANGED <<agent, input, remounts>>

\* Everything has settled: the store is cleared and the cleanups detached.
AllSettled ==
    /\ svc = "closing" /\ svc' = "down"
    /\ \A j \in Job : ~Live(j)
    /\ job' = Dropped(Job)
    /\ agent' = [o \in Owner |-> [agent[o] EXCEPT !.attached = FALSE]]
    /\ UNCHANGED <<wait, mounted, input, remounts>>

\* tool-jobs is unloaded, and loaded again with a full budget for everybody.
Unmount ==
    /\ svc = "up" /\ mounted /\ mounted' = FALSE
    /\ remounts < MaxRemounts /\ remounts' = remounts + 1
    /\ UNCHANGED <<job, wait, agent, svc, input>>

Mount ==
    /\ svc = "up" /\ ~mounted /\ mounted' = TRUE
    /\ agent' = [o \in Owner |-> [agent[o] EXCEPT !.spent = 0]]
    /\ UNCHANGED <<job, wait, svc, input, remounts>>

-----------------------------------------------------------------------------
Next ==
    \/ \E j \in Job : \/ \E o \in Owner : StartOwned(j, o)
                      \/ StartUnowned(j)
                      \/ WorkEnds(j) \/ Settle(j) \/ Kill(j) \/ Read(j)
    \/ \E w \in Wait : \/ \E j \in Job, o \in Owner : BeginWait(w, j, o)
                       \/ TimerFires(w) \/ AbortWait(w)
                       \/ WaitReturns(w) \/ ReadAfterWait(w)
    \/ \E o \in Owner : \/ Send(o) \/ OpenTurn(o) \/ StepEnds(o)
                        \/ TurnFails(o) \/ Retire(o) \/ AbortSettles(o)
                        \/ \E keep \in BOOLEAN : Cancel(o, keep)
                        \/ Dispose(o) \/ Quiesced(o) \/ ScopeCloses(o)
                        \/ \E T \in SUBSET Job : CleanupBegins(o, T)
                        \/ CleanupEnds(o)
    \/ \E T \in SUBSET Job : DisposeAll(T)
    \/ AllSettled \/ Unmount \/ Mount

\* Continuations run, timers fire, a turn comes to its end, work that was
\* asked to stop stops, and a disposal goes on where its awaits allow it.
Fairness ==
    /\ \A j \in Job : /\ WF_vars(Settle(j))
                      /\ WF_vars(job[j].st = "stopping" /\ WorkEnds(j))
    /\ \A w \in Wait : /\ WF_vars(TimerFires(w))
                       /\ WF_vars(WaitReturns(w)) /\ WF_vars(ReadAfterWait(w))
    /\ \A o \in Owner : /\ WF_vars(OpenTurn(o)) /\ WF_vars(StepEnds(o))
                        /\ WF_vars(Retire(o)) /\ WF_vars(AbortSettles(o))
                        /\ WF_vars(Quiesced(o)) /\ WF_vars(ScopeCloses(o))
                        /\ WF_vars(\E T \in SUBSET Job : CleanupBegins(o, T))
                        /\ WF_vars(CleanupEnds(o))
    /\ WF_vars(AllSettled)

Spec == Init /\ [][Next]_vars /\ Fairness

-----------------------------------------------------------------------------
(* Properties. *)

TypeOK ==
    /\ job \in [Job -> [st: {"none", "running", "stopping", "terminal"},
                        owner: Owner \union {NoOwner}, work: {"on", "ended", "off"},
                        reported: BOOLEAN, known: BOOLEAN,
                        forced: BOOLEAN]]
    /\ wait \in [Wait -> [pc: {"idle", "waiting", "resolved", "rejected", "reading"},
                          job: Job \union {NoJob}, by: Owner \union {NoOwner},
                          counted: BOOLEAN]]
    /\ agent \in [Owner -> [reg: {"live", "closing", "unwinding", "disposing",
                                   "cleaning", "gone"},
                            act: {"idle", "open", "step", "retiring",
                                   "aborting", "aborted"},
                            latch: BOOLEAN, turnQ: Seq({"user", "note"}),
                            notes: BOOLEAN, spent: 0 .. MaxWakes,
                            attached: BOOLEAN, owned: SUBSET Job,
                            calls: 0 .. MaxCalls, chain: Nat, prompts: Nat]]
    /\ svc \in {"up", "closing", "down"} /\ mounted \in BOOLEAN
    /\ input \in 0 .. MaxInput /\ remounts \in 0 .. MaxRemounts

\* A completion is kept from its owner only for a reason: the owner's job was
\* killed, read or torn down, no listener was there, or a call that has not
\* failed is about to return it.  The reported flag is set for waits that may
\* still time out or be aborted (settle, wait).
SilenceIsExplained ==
    \A j \in Job : Terminal(j) /\ job[j].owner # NoOwner =>
        \/ job[j].known
        \/ \E w \in Wait : wait[w].job = j /\ wait[w].pc \in {"resolved", "reading"}

\* No owner has more work running than the limit, work without a live record
\* was left behind by a throwing cancel, and nothing is recorded for an agent
\* that is gone or in a registry that is down, whatever was started while they
\* were closing (start, disposeOwned, disposeAll).
WorkIsAccounted ==
    /\ \A o \in Owner \union {NoOwner} :
         Cardinality({j \in Job : job[j].work = "on" /\ job[j].owner = o
                                  /\ ~job[j].forced}) <= MaxJobs
    /\ \A j \in Job : /\ job[j].work = "on" => Live(j) \/ job[j].forced
                      /\ svc = "down" => job[j].st = "none"
                      /\ job[j].st # "none" /\ job[j].owner # NoOwner
                           => agent[job[j].owner].reg # "gone"

\* Jobs whose completion wakes the agent that starts the next one open at most
\* maxConsecutiveWakes turns for each prompt that was claimed, over cancels,
\* failed turns and notices that were never claimed; each reload of the plugin
\* adds a budget (the completion listener, the claim listener).
WakesAreBounded ==
    \A o \in Owner : agent[o].chain <= MaxWakes * (agent[o].prompts + remounts)

\* An owner hears of its jobs when it has to, and its jobs cannot keep it going.
NoticeDiscipline == SilenceIsExplained /\ WakesAreBounded

\* A job is on record while it works, for an owner that is there, and what that
\* owner hears of its end is right.
JobDiscipline == WorkIsAccounted /\ NoticeDiscipline

\* A wait ends, the disposal of an owner ends although completions may wake it
\* in the meantime, and so does the disposal of the registry.
JobsConclude ==
    /\ \A w \in Wait : wait[w].pc # "idle" ~> wait[w].pc = "idle"
    /\ \A o \in Owner : agent[o].reg = "closing" ~> agent[o].reg = "gone"
    /\ svc = "closing" ~> svc = "down"

\* What the documentation claims and the code does not do: "disposal never spends a model request announcing a notice
\* nobody can read" (the README of tool-jobs).
DisposalIsQuiet ==
    [][\A o \in Owner : agent[o].reg # "live" /\ agent[o].act = "idle"
         => agent'[o].act = "idle"]_vars
=============================================================================
