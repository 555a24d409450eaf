---------------------------- MODULE Jobs_proofs ----------------------------
(***************************************************************************)
(* What TLAPS proves of the background jobs, for any number of jobs,       *)
(* agents, waits, prompts and reloads.  Two facts carry the proof: Owed,   *)
(* that a recorded job of an agent is one its cleanup will find or has     *)
(* found, and Budgeted, which counts the notices that are still queued     *)
(* among the turns to be paid for.                                         *)
(***************************************************************************)
EXTENDS Jobs, FiniteSetTheorems, FunctionTheorems, TLAPS

Work    == {"on", "ended", "off"}
Records == [st: {"none", "running", "stopping", "terminal"},
            owner: Owner \union {NoOwner}, work: Work,
            reported: BOOLEAN, known: BOOLEAN, forced: BOOLEAN]
Waits   == [pc: {"idle", "waiting", "resolved", "rejected", "reading"},
            job: Job \union {NoJob}, by: Owner \union {NoOwner}, counted: BOOLEAN]
Regs    == {"live", "closing", "unwinding", "disposing", "cleaning", "gone"}
Acts    == {"idle", "open", "step", "retiring", "aborting", "aborted"}
Queues  == Seq({"user", "note"})
Spends  == 0 .. MaxWakes
Numbers == 0 .. MaxCalls
Agents  == [reg: Regs, act: Acts, latch: BOOLEAN, turnQ: Queues, notes: BOOLEAN,
            spent: Spends, attached: BOOLEAN, owned: SUBSET Job, calls: Numbers,
            chain: Nat, prompts: Nat]

\* The variables keep their domains.
Typed ==
    /\ job \in [Job -> Records]
    /\ wait \in [Wait -> Waits]
    /\ agent \in [Owner -> Agents]
    /\ svc \in {"up", "closing", "down"} /\ mounted \in BOOLEAN
    /\ input \in 0 .. MaxInput /\ remounts \in 0 .. MaxRemounts

\* The cleanup takes its snapshot once, and detaches the agent for good.
CleansOnce ==
    \A o \in Owner :
        /\ agent[o].reg \in {"cleaning", "gone"} => ~agent[o].attached
        /\ agent[o].reg # "cleaning" => agent[o].owned = {}

\* A recorded job of an agent is one its cleanup will find, or has found.
Owed ==
    \A j \in Job, o \in Owner : job[j].st # "none" /\ job[j].owner = o =>
        \/ agent[o].attached
        \/ agent[o].reg = "cleaning" /\ j \in agent[o].owned

\* Work has a live record unless a throwing cancel left it behind.
Recorded ==
    /\ \A j \in Job : job[j].work = "on" => Live(j) \/ job[j].forced
    /\ svc = "down" => \A j \in Job : job[j].st = "none"

Actives(o) == {j \in Job : Live(j) /\ job[j].owner = o}

\* No owner has more live jobs than the limit.
Limited == \A o \in Owner \union {NoOwner} : Cardinality(Actives(o)) <= MaxJobs

\* A counted call waits still, or its continuation is due.
Counted ==
    \A w \in Wait : /\ wait[w].pc # "idle" => wait[w].job \in Job
                    /\ wait[w].counted => wait[w].pc \in {"waiting", "resolved"}

\* A live job is reported only by those who say so.
ReportedLive == \A j \in Job : Live(j) /\ job[j].reported => job[j].known
\* An agent about to open a turn has a message for it; so has one that is to be
\* woken when its aborted turn has settled.
Attentive ==
    \A o \in Owner :
        /\ agent[o].act = "open" => agent[o].turnQ # <<>>
        /\ agent[o].latch => /\ agent[o].turnQ # <<>>
                             /\ agent[o].act \in {"aborting", "aborted"}

\* Before its first prompt an agent runs no tools, so it has no jobs.
Prompted ==
    /\ \A o \in Owner : agent[o].prompts = 0 =>
         /\ agent[o].spent = 0 /\ agent[o].chain = 0
         /\ agent[o].act \notin {"step", "aborting"}
         /\ \A i \in 1 .. Len(agent[o].turnQ) : agent[o].turnQ[i] = "user"
    /\ \A o \in Owner, j \in Job :
         job[j].st # "none" /\ job[j].owner = o => agent[o].prompts # 0

\* The notices of a queue.
Notes(q) == Cardinality({i \in 1 .. Len(q) : q[i] = "note"})

\* A reload is counted when it begins and pays when it ends.
Owing == IF svc = "up" /\ ~mounted THEN 1 ELSE 0

\* What n budgets pay for.
Grant(n) == MaxWakes * n

\* The turns opened by notices, and those that the queued ones will open, are
\* paid by the budgets used up so far and by what is spent of the last one.
Budgeted ==
    /\ Owing <= remounts
    /\ \A o \in Owner : agent[o].prompts # 0 =>
         agent[o].chain + Notes(agent[o].turnQ) + MaxWakes
           <= Grant(agent[o].prompts + remounts - Owing) + agent[o].spent

IInv ==
    /\ Typed /\ CleansOnce /\ Owed /\ Recorded /\ Limited
    /\ Counted /\ ReportedLive /\ SilenceIsExplained
    /\ Attentive /\ Prompted /\ Budgeted

\* start() attaches the cleanup and counts the call.
LEMMA StartOwnedOwner ==
  ASSUME JobsAssumption, agent \in [Owner -> Agents], NEW j \in Job, NEW o \in Owner,
         StartOwned(j, o)
  PROVE  /\ agent' \in [Owner -> Agents]
         /\ \A k \in Owner \ {o} : agent'[k] = agent[k]
         /\ agent'[o].reg = agent[o].reg /\ agent'[o].act = agent[o].act
         /\ agent'[o].latch = agent[o].latch /\ agent'[o].turnQ = agent[o].turnQ
         /\ agent'[o].notes = agent[o].notes /\ agent'[o].spent = agent[o].spent
         /\ agent'[o].attached /\ agent'[o].owned = agent[o].owned
         /\ agent'[o].calls = agent[o].calls + 1 /\ agent'[o].chain = agent[o].chain
         /\ agent'[o].prompts = agent[o].prompts
<1> DEFINE new_calls == agent[o].calls + 1
<1> DEFINE b == [agent[o] EXCEPT !.attached = TRUE,
                              !.calls = new_calls]
<1>0. /\ new_calls \in Numbers
  BY DEF JobsAssumption, Agents, StartOwned, Numbers
<1> HIDE DEF new_calls
<1>1. b \in Agents
  BY <1>0 DEF Agents
<1>2. /\ b.reg = agent[o].reg /\ b.act = agent[o].act /\ b.latch = agent[o].latch
      /\ b.turnQ = agent[o].turnQ /\ b.notes = agent[o].notes
      /\ b.spent = agent[o].spent /\ b.attached /\ b.owned = agent[o].owned
      /\ b.calls = new_calls /\ b.chain = agent[o].chain
      /\ b.prompts = agent[o].prompts
  BY <1>0 DEF Agents
<1>3. agent' = [agent EXCEPT ![o] = b]
  BY DEF StartOwned, new_calls
<1> HIDE DEF b
<1>4. /\ b.calls = agent[o].calls + 1
  BY <1>2 DEF Agents, StartOwned, new_calls
<1> QED
  BY <1>1, <1>2, <1>3, <1>4


\* wait() counts the call.
LEMMA BeginWaitOwner ==
  ASSUME JobsAssumption, agent \in [Owner -> Agents], NEW w \in Wait, NEW j \in Job,
         NEW o \in Owner, BeginWait(w, j, o)
  PROVE  /\ agent' \in [Owner -> Agents]
         /\ \A k \in Owner \ {o} : agent'[k] = agent[k]
         /\ agent'[o].reg = agent[o].reg /\ agent'[o].act = agent[o].act
         /\ agent'[o].latch = agent[o].latch /\ agent'[o].turnQ = agent[o].turnQ
         /\ agent'[o].notes = agent[o].notes /\ agent'[o].spent = agent[o].spent
         /\ agent'[o].attached = agent[o].attached /\ agent'[o].owned = agent[o].owned
         /\ agent'[o].calls = agent[o].calls + 1 /\ agent'[o].chain = agent[o].chain
         /\ agent'[o].prompts = agent[o].prompts
<1> DEFINE new_calls == agent[o].calls + 1
<1> DEFINE b == [agent[o] EXCEPT !.calls = new_calls]
<1>0. /\ new_calls \in Numbers
  BY DEF JobsAssumption, Agents, BeginWait, Numbers
<1> HIDE DEF new_calls
<1>1. b \in Agents
  BY <1>0 DEF Agents
<1>2. /\ b.reg = agent[o].reg /\ b.act = agent[o].act /\ b.latch = agent[o].latch
      /\ b.turnQ = agent[o].turnQ /\ b.notes = agent[o].notes
      /\ b.spent = agent[o].spent /\ b.attached = agent[o].attached
      /\ b.owned = agent[o].owned /\ b.calls = new_calls /\ b.chain = agent[o].chain
      /\ b.prompts = agent[o].prompts
  BY <1>0 DEF Agents
<1>3. agent' = [agent EXCEPT ![o] = b]
  BY DEF BeginWait, new_calls
<1> HIDE DEF b
<1>4. /\ b.calls = agent[o].calls + 1
  BY <1>2 DEF Agents, BeginWait, new_calls
<1> QED
  BY <1>1, <1>2, <1>3, <1>4


\* A prompt is queued and wakes an idle agent or is latched.
LEMMA SendOwner ==
  ASSUME JobsAssumption, agent \in [Owner -> Agents], NEW o \in Owner, Send(o)
  PROVE  /\ agent' \in [Owner -> Agents]
         /\ \A k \in Owner \ {o} : agent'[k] = agent[k]
         /\ agent'[o].reg = agent[o].reg
         /\ agent'[o].act = IF agent[o].act = "idle" THEN "open" ELSE agent[o].act
         /\ (agent'[o].latch => agent[o].latch \/ agent[o].act \in {"aborting", "aborted"})
         /\ agent'[o].turnQ = Append(agent[o].turnQ, "user")
         /\ agent'[o].notes = agent[o].notes /\ agent'[o].spent = agent[o].spent
         /\ agent'[o].attached = agent[o].attached /\ agent'[o].owned = agent[o].owned
         /\ agent'[o].calls = agent[o].calls /\ agent'[o].chain = agent[o].chain
         /\ agent'[o].prompts = agent[o].prompts
<1> DEFINE new_turnQ == Append(agent[o].turnQ, "user")
           new_act == IF agent[o].act = "idle" THEN "open" ELSE agent[o].act
           new_latch == agent[o].latch \/ agent[o].act \in {"aborting", "aborted"}
<1> DEFINE b == [agent[o] EXCEPT !.turnQ = new_turnQ,
                              !.act = new_act,
                              !.latch = new_latch]
<1>0. /\ new_turnQ \in Queues /\ new_act \in Acts /\ new_latch \in BOOLEAN
  BY DEF JobsAssumption, Agents, Send, Acts, Queues
<1> HIDE DEF new_turnQ, new_act, new_latch
<1>1. b \in Agents
  BY <1>0 DEF Agents
<1>2. /\ b.reg = agent[o].reg /\ b.act = new_act /\ (b.latch <=> new_latch)
      /\ b.turnQ = new_turnQ /\ b.notes = agent[o].notes /\ b.spent = agent[o].spent
      /\ b.attached = agent[o].attached /\ b.owned = agent[o].owned
      /\ b.calls = agent[o].calls /\ b.chain = agent[o].chain
      /\ b.prompts = agent[o].prompts
  BY <1>0 DEF Agents
<1>3. agent' = [agent EXCEPT ![o] = b]
  BY DEF Send, new_turnQ, new_act, new_latch
<1> HIDE DEF b
<1>4. /\ b.turnQ = Append(agent[o].turnQ, "user")
      /\ b.act = IF agent[o].act = "idle" THEN "open" ELSE agent[o].act
      /\ (b.latch => agent[o].latch \/ agent[o].act \in {"aborting", "aborted"})
  BY <1>2 DEF Agents, Send, new_turnQ, new_act, new_latch
<1> QED
  BY <1>1, <1>2, <1>3, <1>4


\* A turn claims the head of the queue: a prompt restores the budget.
LEMMA OpenTurnOwner ==
  ASSUME JobsAssumption, agent \in [Owner -> Agents], NEW o \in Owner, OpenTurn(o),
         mounted \in BOOLEAN, agent[o].turnQ # <<>>
  PROVE  /\ agent' \in [Owner -> Agents]
         /\ \A k \in Owner \ {o} : agent'[k] = agent[k]
         /\ agent'[o].reg = agent[o].reg /\ agent'[o].act = "step"
         /\ agent'[o].latch = agent[o].latch /\ agent'[o].turnQ = Tail(agent[o].turnQ)
         /\ ~agent'[o].notes
         /\ agent'[o].spent = IF Head(agent[o].turnQ) = "user" /\ mounted THEN 0
                  ELSE agent[o].spent
         /\ agent'[o].attached = agent[o].attached /\ agent'[o].owned = agent[o].owned
         /\ agent'[o].calls = 0
         /\ agent'[o].chain = IF Head(agent[o].turnQ) = "user" THEN agent[o].chain
                  ELSE agent[o].chain + 1
         /\ agent'[o].prompts = IF Head(agent[o].turnQ) = "user"
                                THEN agent[o].prompts + 1 ELSE agent[o].prompts
<1> DEFINE prompt == agent[o].turnQ # <<>> /\ Head(agent[o].turnQ) = "user"
           claims == agent[o].turnQ # <<>> \/ agent[o].notes
<1> DEFINE new_turnQ == IF agent[o].turnQ = <<>> THEN <<>> ELSE Tail(agent[o].turnQ)
           new_spent == Refilled(agent[o].spent, prompt)
           new_prompts == IF prompt THEN agent[o].prompts + 1 ELSE agent[o].prompts
           new_chain == IF ~prompt /\ claims THEN agent[o].chain + 1 ELSE agent[o].chain
<1> DEFINE b == [agent[o] EXCEPT !.act = "step",
                              !.calls = 0,
                              !.turnQ = new_turnQ,
                              !.notes = FALSE,
                              !.spent = new_spent,
                              !.prompts = new_prompts,
                              !.chain = new_chain]
<1>0. /\ new_turnQ \in Queues /\ new_spent \in Spends /\ new_prompts \in Nat
      /\ new_chain \in Nat
  BY DEF JobsAssumption, Agents, OpenTurn, Refilled, Queues, Spends
<1> HIDE DEF new_turnQ, new_spent, new_prompts, new_chain
<1>l. /\ "step" \in Acts /\ 0 \in Numbers
  BY DEF JobsAssumption, Acts, Numbers
<1>1. b \in Agents
  BY <1>0, <1>l DEF Agents
<1>2. /\ b.reg = agent[o].reg /\ b.act = "step" /\ b.latch = agent[o].latch
      /\ b.turnQ = new_turnQ /\ ~b.notes /\ b.spent = new_spent
      /\ b.attached = agent[o].attached /\ b.owned = agent[o].owned /\ b.calls = 0
      /\ b.chain = new_chain /\ b.prompts = new_prompts
  BY <1>0 DEF Agents
<1>3. agent' = [agent EXCEPT ![o] = b]
  BY DEF OpenTurn, Refilled, new_turnQ, new_spent, new_prompts, new_chain
<1> HIDE DEF b
<1>4. /\ b.turnQ = Tail(agent[o].turnQ)
      /\ b.spent = IF Head(agent[o].turnQ) = "user" /\ mounted THEN 0 ELSE agent[o].spent
      /\ b.prompts = IF Head(agent[o].turnQ) = "user" THEN agent[o].prompts + 1
               ELSE agent[o].prompts
      /\ b.chain = IF Head(agent[o].turnQ) = "user" THEN agent[o].chain ELSE agent[o].chain + 1
  BY <1>2 DEF Agents, Refilled, OpenTurn, new_turnQ, new_spent, new_prompts, new_chain
<1> QED
  BY <1>1, <1>2, <1>3, <1>4


\* After a step comes another one, the next turn or retirement.
LEMMA StepEndsOwner ==
  ASSUME JobsAssumption, agent \in [Owner -> Agents], NEW o \in Owner, StepEnds(o)
  PROVE  /\ agent' \in [Owner -> Agents]
         /\ \A k \in Owner \ {o} : agent'[k] = agent[k]
         /\ agent'[o].reg = agent[o].reg
         /\ agent'[o].act \in {"step", "open", "retiring"}
         /\ (agent'[o].act = "open" => agent[o].turnQ # <<>>)
         /\ agent'[o].latch = agent[o].latch /\ agent'[o].turnQ = agent[o].turnQ
         /\ ~agent'[o].notes /\ agent'[o].spent = agent[o].spent
         /\ agent'[o].attached = agent[o].attached /\ agent'[o].owned = agent[o].owned
         /\ agent'[o].calls = agent[o].calls /\ agent'[o].chain = agent[o].chain
         /\ agent'[o].prompts = agent[o].prompts
<1> DEFINE new_act == CASE agent[o].notes -> "step"
                        [] ~agent[o].notes /\ agent[o].turnQ # <<>> -> "open"
                        [] ~agent[o].notes /\ agent[o].turnQ = <<>> -> "retiring"
<1> DEFINE b == [agent[o] EXCEPT !.notes = FALSE,
                              !.act = new_act]
<1>0. /\ new_act \in Acts
  BY DEF JobsAssumption, Agents, StepEnds, Acts
<1> HIDE DEF new_act
<1>1. b \in Agents
  BY <1>0 DEF Agents
<1>2. /\ b.reg = agent[o].reg /\ b.act = new_act /\ b.latch = agent[o].latch
      /\ b.turnQ = agent[o].turnQ /\ ~b.notes /\ b.spent = agent[o].spent
      /\ b.attached = agent[o].attached /\ b.owned = agent[o].owned
      /\ b.calls = agent[o].calls /\ b.chain = agent[o].chain
      /\ b.prompts = agent[o].prompts
  BY <1>0 DEF Agents
<1>3. agent' = [agent EXCEPT ![o] = b]
  BY DEF StepEnds, new_act
<1> HIDE DEF b
<1>4. /\ b.act \in {"step", "open", "retiring"}
      /\ (b.act = "open" => agent[o].turnQ # <<>>)
  BY <1>2 DEF Agents, StepEnds, new_act
<1> QED
  BY <1>1, <1>2, <1>3, <1>4


\* A failed turn leaves the queue alone.
LEMMA TurnFailsOwner ==
  ASSUME JobsAssumption, agent \in [Owner -> Agents], NEW o \in Owner, TurnFails(o)
  PROVE  /\ agent' \in [Owner -> Agents]
         /\ \A k \in Owner \ {o} : agent'[k] = agent[k]
         /\ agent'[o].reg = agent[o].reg /\ agent'[o].act = "retiring"
         /\ agent'[o].latch = agent[o].latch /\ agent'[o].turnQ = agent[o].turnQ
         /\ agent'[o].notes = agent[o].notes /\ agent'[o].spent = agent[o].spent
         /\ agent'[o].attached = agent[o].attached /\ agent'[o].owned = agent[o].owned
         /\ agent'[o].calls = agent[o].calls /\ agent'[o].chain = agent[o].chain
         /\ agent'[o].prompts = agent[o].prompts
<1> DEFINE b == [agent[o] EXCEPT !.act = "retiring"]
<1>l. /\ "retiring" \in Acts
  BY DEF JobsAssumption, Acts
<1>1. b \in Agents
  BY <1>l DEF Agents
<1>2. /\ b.reg = agent[o].reg /\ b.act = "retiring" /\ b.latch = agent[o].latch
      /\ b.turnQ = agent[o].turnQ /\ b.notes = agent[o].notes
      /\ b.spent = agent[o].spent /\ b.attached = agent[o].attached
      /\ b.owned = agent[o].owned /\ b.calls = agent[o].calls
      /\ b.chain = agent[o].chain /\ b.prompts = agent[o].prompts
  BY DEF Agents
<1>3. agent' = [agent EXCEPT ![o] = b]
  BY DEF TurnFails
<1> HIDE DEF b
<1> QED
  BY <1>1, <1>2, <1>3


\* The idle phase is committed.
LEMMA RetireOwner ==
  ASSUME JobsAssumption, agent \in [Owner -> Agents], NEW o \in Owner, Retire(o)
  PROVE  /\ agent' \in [Owner -> Agents]
         /\ \A k \in Owner \ {o} : agent'[k] = agent[k]
         /\ agent'[o].reg = agent[o].reg /\ agent'[o].act = "idle"
         /\ agent'[o].latch = agent[o].latch /\ agent'[o].turnQ = agent[o].turnQ
         /\ agent'[o].notes = agent[o].notes /\ agent'[o].spent = agent[o].spent
         /\ agent'[o].attached = agent[o].attached /\ agent'[o].owned = agent[o].owned
         /\ agent'[o].calls = agent[o].calls /\ agent'[o].chain = agent[o].chain
         /\ agent'[o].prompts = agent[o].prompts
<1> DEFINE b == [agent[o] EXCEPT !.act = "idle"]
<1>l. /\ "idle" \in Acts
  BY DEF JobsAssumption, Acts
<1>1. b \in Agents
  BY <1>l DEF Agents
<1>2. /\ b.reg = agent[o].reg /\ b.act = "idle" /\ b.latch = agent[o].latch
      /\ b.turnQ = agent[o].turnQ /\ b.notes = agent[o].notes
      /\ b.spent = agent[o].spent /\ b.attached = agent[o].attached
      /\ b.owned = agent[o].owned /\ b.calls = agent[o].calls
      /\ b.chain = agent[o].chain /\ b.prompts = agent[o].prompts
  BY DEF Agents
<1>3. agent' = [agent EXCEPT ![o] = b]
  BY DEF Retire
<1> HIDE DEF b
<1> QED
  BY <1>1, <1>2, <1>3


\* A cancel keeps the queue or empties it.
LEMMA CancelOwner ==
  ASSUME JobsAssumption, agent \in [Owner -> Agents], NEW o \in Owner, NEW keep \in BOOLEAN,
         Cancel(o, keep)
  PROVE  /\ agent' \in [Owner -> Agents]
         /\ \A k \in Owner \ {o} : agent'[k] = agent[k]
         /\ agent'[o].reg = agent[o].reg
         /\ agent'[o].act \in {"idle", "aborting", "aborted"}
         /\ (agent'[o].act = "idle" => agent[o].act = "idle")
         /\ (agent'[o].act = "aborting" => agent[o].act \in {"step", "aborting"})
         /\ (agent'[o].latch => agent[o].latch /\ agent'[o].turnQ = agent[o].turnQ)
         /\ agent'[o].turnQ \in {agent[o].turnQ, <<>>}
         /\ agent'[o].spent = agent[o].spent /\ agent'[o].attached = agent[o].attached
         /\ agent'[o].owned = agent[o].owned /\ agent'[o].calls = agent[o].calls
         /\ agent'[o].chain = agent[o].chain /\ agent'[o].prompts = agent[o].prompts
<1> DEFINE new_turnQ == IF keep THEN agent[o].turnQ ELSE <<>>
           new_notes == keep /\ agent[o].notes
           new_latch == keep /\ agent[o].latch
           new_act == CASE agent[o].act = "idle" -> "idle"
                        [] agent[o].act \in {"step", "aborting"} -> "aborting"
                        [] OTHER -> "aborted"
<1> DEFINE b == [agent[o] EXCEPT !.turnQ = new_turnQ,
                              !.notes = new_notes,
                              !.latch = new_latch,
                              !.act = new_act]
<1>0. /\ new_turnQ \in Queues /\ new_notes \in BOOLEAN /\ new_latch \in BOOLEAN
      /\ new_act \in Acts
  BY DEF JobsAssumption, Agents, Cancel, Cancelled, Acts, Queues
<1> HIDE DEF new_turnQ, new_notes, new_latch, new_act
<1>1. b \in Agents
  BY <1>0 DEF Agents
<1>2. /\ b.reg = agent[o].reg /\ b.act = new_act /\ (b.latch <=> new_latch)
      /\ b.turnQ = new_turnQ /\ (b.notes <=> new_notes) /\ b.spent = agent[o].spent
      /\ b.attached = agent[o].attached /\ b.owned = agent[o].owned
      /\ b.calls = agent[o].calls /\ b.chain = agent[o].chain
      /\ b.prompts = agent[o].prompts
  BY <1>0 DEF Agents
<1>3. agent' = [agent EXCEPT ![o] = b]
  BY DEF Cancel, Cancelled, new_turnQ, new_notes, new_latch, new_act
<1> HIDE DEF b
<1>4. /\ b.turnQ \in {agent[o].turnQ, <<>>}
      /\ (b.latch => agent[o].latch /\ b.turnQ = agent[o].turnQ)
      /\ b.act \in {"idle", "aborting", "aborted"}
      /\ (b.act = "idle" => agent[o].act = "idle")
      /\ (b.act = "aborting" => agent[o].act \in {"step", "aborting"})
  BY <1>2 DEF Agents, Cancelled, Cancel, new_turnQ, new_notes, new_latch, new_act
<1> QED
  BY <1>1, <1>2, <1>3, <1>4


\* A latched wake is replayed.
LEMMA AbortSettlesOwner ==
  ASSUME JobsAssumption, agent \in [Owner -> Agents], NEW o \in Owner, AbortSettles(o)
  PROVE  /\ agent' \in [Owner -> Agents]
         /\ \A k \in Owner \ {o} : agent'[k] = agent[k]
         /\ agent'[o].reg = agent[o].reg /\ agent'[o].act \in {"open", "idle"}
         /\ (agent'[o].act = "open" => agent[o].latch) /\ ~agent'[o].latch
         /\ agent'[o].turnQ = agent[o].turnQ /\ agent'[o].notes = agent[o].notes
         /\ agent'[o].spent = agent[o].spent /\ agent'[o].attached = agent[o].attached
         /\ agent'[o].owned = agent[o].owned /\ agent'[o].calls = agent[o].calls
         /\ agent'[o].chain = agent[o].chain /\ agent'[o].prompts = agent[o].prompts
<1> DEFINE new_act == IF agent[o].latch /\ (agent[o].turnQ # <<>> \/ agent[o].notes)
                      THEN "open" ELSE "idle"
<1> DEFINE b == [agent[o] EXCEPT !.latch = FALSE,
                              !.act = new_act]
<1>0. /\ new_act \in Acts
  BY DEF JobsAssumption, Agents, AbortSettles, Acts
<1> HIDE DEF new_act
<1>1. b \in Agents
  BY <1>0 DEF Agents
<1>2. /\ b.reg = agent[o].reg /\ b.act = new_act /\ ~b.latch
      /\ b.turnQ = agent[o].turnQ /\ b.notes = agent[o].notes
      /\ b.spent = agent[o].spent /\ b.attached = agent[o].attached
      /\ b.owned = agent[o].owned /\ b.calls = agent[o].calls
      /\ b.chain = agent[o].chain /\ b.prompts = agent[o].prompts
  BY <1>0 DEF Agents
<1>3. agent' = [agent EXCEPT ![o] = b]
  BY DEF AbortSettles, new_act
<1> HIDE DEF b
<1>4. /\ b.act \in {"open", "idle"} /\ (b.act = "open" => agent[o].latch)
  BY <1>2 DEF Agents, AbortSettles, new_act
<1> QED
  BY <1>1, <1>2, <1>3, <1>4


\* A disposal begins with a cancel that keeps nothing.
LEMMA DisposeOwner ==
  ASSUME JobsAssumption, agent \in [Owner -> Agents], NEW o \in Owner, Dispose(o)
  PROVE  /\ agent' \in [Owner -> Agents]
         /\ \A k \in Owner \ {o} : agent'[k] = agent[k]
         /\ agent'[o].reg = "closing"
         /\ agent'[o].act \in {"idle", "aborting", "aborted"}
         /\ (agent'[o].act = "idle" => agent[o].act = "idle")
         /\ (agent'[o].act = "aborting" => agent[o].act \in {"step", "aborting"})
         /\ (agent'[o].latch => agent[o].latch /\ agent'[o].turnQ = agent[o].turnQ)
         /\ agent'[o].turnQ \in {agent[o].turnQ, <<>>}
         /\ agent'[o].spent = agent[o].spent /\ agent'[o].attached = agent[o].attached
         /\ agent'[o].owned = agent[o].owned /\ agent'[o].calls = agent[o].calls
         /\ agent'[o].chain = agent[o].chain /\ agent'[o].prompts = agent[o].prompts
<1> DEFINE new_turnQ == IF FALSE THEN agent[o].turnQ ELSE <<>>
           new_notes == FALSE /\ agent[o].notes
           new_latch == FALSE /\ agent[o].latch
           new_act == CASE agent[o].act = "idle" -> "idle"
                        [] agent[o].act \in {"step", "aborting"} -> "aborting"
                        [] OTHER -> "aborted"
<1> DEFINE b == [agent[o] EXCEPT !.reg = "closing",
                              !.turnQ = new_turnQ,
                              !.notes = new_notes,
                              !.latch = new_latch,
                              !.act = new_act]
<1>0. /\ new_turnQ \in Queues /\ new_notes \in BOOLEAN /\ new_latch \in BOOLEAN
      /\ new_act \in Acts
  BY DEF JobsAssumption, Agents, Dispose, Cancelled, Acts, Queues
<1> HIDE DEF new_turnQ, new_notes, new_latch, new_act
<1>l. /\ "closing" \in Regs
  BY DEF JobsAssumption, Regs
<1>1. b \in Agents
  BY <1>0, <1>l DEF Agents
<1>2. /\ b.reg = "closing" /\ b.act = new_act /\ (b.latch <=> new_latch)
      /\ b.turnQ = new_turnQ /\ (b.notes <=> new_notes) /\ b.spent = agent[o].spent
      /\ b.attached = agent[o].attached /\ b.owned = agent[o].owned
      /\ b.calls = agent[o].calls /\ b.chain = agent[o].chain
      /\ b.prompts = agent[o].prompts
  BY <1>0 DEF Agents
<1>3. agent' = [agent EXCEPT ![o] = b]
  BY DEF Dispose, Cancelled, new_turnQ, new_notes, new_latch, new_act
<1> HIDE DEF b
<1>4. /\ b.turnQ \in {agent[o].turnQ, <<>>}
      /\ (b.latch => agent[o].latch /\ b.turnQ = agent[o].turnQ)
      /\ b.act \in {"idle", "aborting", "aborted"}
      /\ (b.act = "idle" => agent[o].act = "idle")
      /\ (b.act = "aborting" => agent[o].act \in {"step", "aborting"})
  BY <1>2 DEF Agents, Cancelled, Dispose, new_turnQ, new_notes, new_latch, new_act
<1> QED
  BY <1>1, <1>2, <1>3, <1>4


\* The disposal goes on when the agent is idle.
LEMMA QuiescedOwner ==
  ASSUME JobsAssumption, agent \in [Owner -> Agents], NEW o \in Owner, Quiesced(o)
  PROVE  /\ agent' \in [Owner -> Agents]
         /\ \A k \in Owner \ {o} : agent'[k] = agent[k]
         /\ agent'[o].reg = "unwinding" /\ agent'[o].act = agent[o].act
         /\ agent'[o].latch = agent[o].latch /\ agent'[o].turnQ = agent[o].turnQ
         /\ agent'[o].notes = agent[o].notes /\ agent'[o].spent = agent[o].spent
         /\ agent'[o].attached = agent[o].attached /\ agent'[o].owned = agent[o].owned
         /\ agent'[o].calls = agent[o].calls /\ agent'[o].chain = agent[o].chain
         /\ agent'[o].prompts = agent[o].prompts
<1> DEFINE b == [agent[o] EXCEPT !.reg = "unwinding"]
<1>l. /\ "unwinding" \in Regs
  BY DEF JobsAssumption, Regs
<1>1. b \in Agents
  BY <1>l DEF Agents
<1>2. /\ b.reg = "unwinding" /\ b.act = agent[o].act /\ b.latch = agent[o].latch
      /\ b.turnQ = agent[o].turnQ /\ b.notes = agent[o].notes
      /\ b.spent = agent[o].spent /\ b.attached = agent[o].attached
      /\ b.owned = agent[o].owned /\ b.calls = agent[o].calls
      /\ b.chain = agent[o].chain /\ b.prompts = agent[o].prompts
  BY DEF Agents
<1>3. agent' = [agent EXCEPT ![o] = b]
  BY DEF Quiesced
<1> HIDE DEF b
<1> QED
  BY <1>1, <1>2, <1>3


\* The scope of the agent closes.
LEMMA ScopeClosesOwner ==
  ASSUME JobsAssumption, agent \in [Owner -> Agents], NEW o \in Owner, ScopeCloses(o)
  PROVE  /\ agent' \in [Owner -> Agents]
         /\ \A k \in Owner \ {o} : agent'[k] = agent[k]
         /\ agent'[o].reg = "disposing" /\ agent'[o].act = agent[o].act
         /\ agent'[o].latch = agent[o].latch /\ agent'[o].turnQ = agent[o].turnQ
         /\ agent'[o].notes = agent[o].notes /\ agent'[o].spent = agent[o].spent
         /\ agent'[o].attached = agent[o].attached /\ agent'[o].owned = agent[o].owned
         /\ agent'[o].calls = agent[o].calls /\ agent'[o].chain = agent[o].chain
         /\ agent'[o].prompts = agent[o].prompts
<1> DEFINE b == [agent[o] EXCEPT !.reg = "disposing"]
<1>l. /\ "disposing" \in Regs
  BY DEF JobsAssumption, Regs
<1>1. b \in Agents
  BY <1>l DEF Agents
<1>2. /\ b.reg = "disposing" /\ b.act = agent[o].act /\ b.latch = agent[o].latch
      /\ b.turnQ = agent[o].turnQ /\ b.notes = agent[o].notes
      /\ b.spent = agent[o].spent /\ b.attached = agent[o].attached
      /\ b.owned = agent[o].owned /\ b.calls = agent[o].calls
      /\ b.chain = agent[o].chain /\ b.prompts = agent[o].prompts
  BY DEF Agents
<1>3. agent' = [agent EXCEPT ![o] = b]
  BY DEF ScopeCloses
<1> HIDE DEF b
<1> QED
  BY <1>1, <1>2, <1>3


\* The cleanup forgets the agent and takes its snapshot.
LEMMA CleanupBeginsOwner ==
  ASSUME JobsAssumption, agent \in [Owner -> Agents], NEW o \in Owner, NEW T \in SUBSET Job,
         CleanupBegins(o, T)
  PROVE  /\ agent' \in [Owner -> Agents]
         /\ \A k \in Owner \ {o} : agent'[k] = agent[k]
         /\ agent'[o].reg = "cleaning" /\ agent'[o].act = agent[o].act
         /\ agent'[o].latch = agent[o].latch /\ agent'[o].turnQ = agent[o].turnQ
         /\ agent'[o].notes = agent[o].notes /\ agent'[o].spent = agent[o].spent
         /\ ~agent'[o].attached /\ agent'[o].owned = OwnedBy(o)
         /\ agent'[o].calls = agent[o].calls /\ agent'[o].chain = agent[o].chain
         /\ agent'[o].prompts = agent[o].prompts
<1> DEFINE new_owned == OwnedBy(o)
<1> DEFINE b == [agent[o] EXCEPT !.reg = "cleaning",
                              !.attached = FALSE,
                              !.owned = new_owned]
<1>0. /\ new_owned \in SUBSET Job
  BY DEF JobsAssumption, Agents, CleanupBegins, OwnedBy
<1> HIDE DEF new_owned
<1>l. /\ "cleaning" \in Regs
  BY DEF JobsAssumption, Regs
<1>1. b \in Agents
  BY <1>0, <1>l DEF Agents
<1>2. /\ b.reg = "cleaning" /\ b.act = agent[o].act /\ b.latch = agent[o].latch
      /\ b.turnQ = agent[o].turnQ /\ b.notes = agent[o].notes
      /\ b.spent = agent[o].spent /\ ~b.attached /\ b.owned = new_owned
      /\ b.calls = agent[o].calls /\ b.chain = agent[o].chain
      /\ b.prompts = agent[o].prompts
  BY <1>0 DEF Agents
<1>3. agent' = [agent EXCEPT ![o] = b]
  BY DEF CleanupBegins, new_owned
<1> HIDE DEF b
<1>4. /\ b.owned = OwnedBy(o)
  BY <1>2 DEF Agents, CleanupBegins, new_owned
<1> QED
  BY <1>1, <1>2, <1>3, <1>4


\* The cleanup gives its snapshot up.
LEMMA CleanupEndsOwner ==
  ASSUME JobsAssumption, agent \in [Owner -> Agents], NEW o \in Owner, CleanupEnds(o)
  PROVE  /\ agent' \in [Owner -> Agents]
         /\ \A k \in Owner \ {o} : agent'[k] = agent[k]
         /\ agent'[o].reg = "gone" /\ agent'[o].act = agent[o].act
         /\ agent'[o].latch = agent[o].latch /\ agent'[o].turnQ = agent[o].turnQ
         /\ agent'[o].notes = agent[o].notes /\ agent'[o].spent = agent[o].spent
         /\ agent'[o].attached = agent[o].attached /\ agent'[o].owned = {}
         /\ agent'[o].calls = agent[o].calls /\ agent'[o].chain = agent[o].chain
         /\ agent'[o].prompts = agent[o].prompts
<1> DEFINE new_owned == {}
<1> DEFINE b == [agent[o] EXCEPT !.reg = "gone",
                              !.owned = new_owned]
<1>0. /\ new_owned \in SUBSET Job
  BY DEF JobsAssumption, Agents, CleanupEnds
<1> HIDE DEF new_owned
<1>l. /\ "gone" \in Regs
  BY DEF JobsAssumption, Regs
<1>1. b \in Agents
  BY <1>0, <1>l DEF Agents
<1>2. /\ b.reg = "gone" /\ b.act = agent[o].act /\ b.latch = agent[o].latch
      /\ b.turnQ = agent[o].turnQ /\ b.notes = agent[o].notes
      /\ b.spent = agent[o].spent /\ b.attached = agent[o].attached
      /\ b.owned = new_owned /\ b.calls = agent[o].calls /\ b.chain = agent[o].chain
      /\ b.prompts = agent[o].prompts
  BY <1>0 DEF Agents
<1>3. agent' = [agent EXCEPT ![o] = b]
  BY DEF CleanupEnds, new_owned
<1> HIDE DEF b
<1>4. /\ b.owned = {}
  BY <1>2 DEF Agents, CleanupEnds, new_owned
<1> QED
  BY <1>1, <1>2, <1>3, <1>4


\* The work of a job ends.
LEMMA WorkEndsRecord ==
  ASSUME JobsAssumption, job \in [Job -> Records], NEW j \in Job, WorkEnds(j)
  PROVE  /\ job' \in [Job -> Records]
         /\ \A k \in Job \ {j} : job'[k] = job[k]
         /\ job'[j].st = job[j].st /\ job'[j].owner = job[j].owner
         /\ job'[j].work = "ended" /\ job'[j].reported = job[j].reported
         /\ job'[j].known = job[j].known /\ job'[j].forced = job[j].forced
<1> DEFINE b == [job[j] EXCEPT !.work = "ended"]
<1>1. b \in Records
  BY DEF Records, Work
<1>2. /\ b.st = job[j].st /\ b.owner = job[j].owner /\ b.work = "ended"
      /\ b.reported = job[j].reported /\ b.known = job[j].known
      /\ b.forced = job[j].forced
  BY DEF Records, Work
<1>3. job' = [job EXCEPT ![j] = b]
  BY DEF WorkEnds
<1> HIDE DEF b
<1> QED
  BY <1>1, <1>2, <1>3


\* A killed job is known to the killer.
LEMMA KillRecord ==
  ASSUME JobsAssumption, job \in [Job -> Records], NEW j \in Job, Kill(j)
  PROVE  /\ job' \in [Job -> Records]
         /\ \A k \in Job \ {j} : job'[k] = job[k]
         /\ job'[j].st = "stopping" /\ job'[j].owner = job[j].owner
         /\ job'[j].work = job[j].work /\ job'[j].reported /\ job'[j].known
         /\ job'[j].forced = job[j].forced
<1> DEFINE b == [job[j] EXCEPT !.st = "stopping",
                              !.reported = TRUE,
                              !.known = TRUE]
<1>1. b \in Records
  BY DEF Records, Work
<1>2. /\ b.st = "stopping" /\ b.owner = job[j].owner /\ b.work = job[j].work
      /\ b.reported /\ b.known /\ b.forced = job[j].forced
  BY DEF Records, Work
<1>3. job' = [job EXCEPT ![j] = b]
  BY DEF Kill
<1> HIDE DEF b
<1> QED
  BY <1>1, <1>2, <1>3


\* A terminal job that is read is known.
LEMMA ReadRecord ==
  ASSUME JobsAssumption, job \in [Job -> Records], NEW j \in Job, Read(j)
  PROVE  /\ job' \in [Job -> Records]
         /\ \A k \in Job \ {j} : job'[k] = job[k]
         /\ job'[j].st = job[j].st /\ job'[j].owner = job[j].owner
         /\ job'[j].work = job[j].work /\ job'[j].reported /\ job'[j].known
         /\ job'[j].forced = job[j].forced
<1> DEFINE b == [job[j] EXCEPT !.reported = TRUE,
                              !.known = TRUE]
<1>1. b \in Records
  BY DEF Records, Work
<1>2. /\ b.st = job[j].st /\ b.owner = job[j].owner /\ b.work = job[j].work
      /\ b.reported /\ b.known /\ b.forced = job[j].forced
  BY DEF Records, Work
<1>3. job' = [job EXCEPT ![j] = b]
  BY DEF Read
<1> HIDE DEF b
<1> QED
  BY <1>1, <1>2, <1>3


\* A deadline resolves a wait, which stays counted.
LEMMA TimerFiresCall ==
  ASSUME JobsAssumption, wait \in [Wait -> Waits], NEW w \in Wait, TimerFires(w)
  PROVE  /\ wait' \in [Wait -> Waits]
         /\ \A k \in Wait \ {w} : wait'[k] = wait[k]
         /\ wait'[w].pc = "resolved" /\ wait'[w].job = wait[w].job
         /\ wait'[w].by = wait[w].by /\ wait'[w].counted = wait[w].counted
<1> DEFINE b == [wait[w] EXCEPT !.pc = "resolved"]
<1>1. b \in Waits
  BY DEF Waits
<1>2. /\ b.pc = "resolved" /\ b.job = wait[w].job /\ b.by = wait[w].by
      /\ b.counted = wait[w].counted
  BY DEF Waits
<1>3. wait' = [wait EXCEPT ![w] = b]
  BY DEF TimerFires
<1> HIDE DEF b
<1> QED
  BY <1>1, <1>2, <1>3


\* An aborted wait is uncounted at once.
LEMMA AbortWaitCall ==
  ASSUME JobsAssumption, wait \in [Wait -> Waits], NEW w \in Wait, AbortWait(w)
  PROVE  /\ wait' \in [Wait -> Waits]
         /\ \A k \in Wait \ {w} : wait'[k] = wait[k]
         /\ wait'[w].pc = "rejected" /\ wait'[w].job = wait[w].job
         /\ wait'[w].by = wait[w].by /\ ~wait'[w].counted
<1> DEFINE b == [wait[w] EXCEPT !.pc = "rejected",
                              !.counted = FALSE]
<1>1. b \in Waits
  BY DEF Waits
<1>2. /\ b.pc = "rejected" /\ b.job = wait[w].job /\ b.by = wait[w].by /\ ~b.counted
  BY DEF Waits
<1>3. wait' = [wait EXCEPT ![w] = b]
  BY DEF AbortWait, Aborted
<1> HIDE DEF b
<1> QED
  BY <1>1, <1>2, <1>3

\* cancelForTeardown changes the live jobs it is for, and nothing else.
LEMMA TornDownIs ==
  ASSUME job \in [Job -> Records], NEW J, NEW T
  PROVE  /\ TornDown(J, T) \in [Job -> Records]
         /\ \A k \in Job : k \notin J \/ ~Live(k) => TornDown(J, T)[k] = job[k]
         /\ \A k \in Job : k \in J /\ Live(k) =>
              /\ TornDown(J, T)[k].owner = job[k].owner /\ TornDown(J, T)[k].work = job[k].work
              /\ TornDown(J, T)[k].reported /\ TornDown(J, T)[k].known
              /\ TornDown(J, T)[k].st = IF k \in T THEN "terminal" ELSE "stopping"
              /\ TornDown(J, T)[k].forced <=> k \in T
<1> DEFINE R(k) == [job[k] EXCEPT !.reported = TRUE, !.known = TRUE,
                           !.st = IF k \in T THEN "terminal" ELSE "stopping",
                           !.forced = k \in T]
<1>1. ASSUME NEW k \in Job
      PROVE  /\ R(k) \in Records /\ R(k).owner = job[k].owner /\ R(k).work = job[k].work
             /\ R(k).reported /\ R(k).known
             /\ R(k).st = IF k \in T THEN "terminal" ELSE "stopping"
             /\ R(k).forced <=> k \in T
  <2> DEFINE st == IF k \in T THEN "terminal" ELSE "stopping"
             forced == k \in T
             r == [job[k] EXCEPT !.reported = TRUE, !.known = TRUE, !.st = st,
                                 !.forced = forced]
  <2>0. st \in {"terminal", "stopping"} /\ forced \in BOOLEAN
    OBVIOUS
  <2> HIDE DEF st, forced
  <2>1. /\ r \in Records /\ r.owner = job[k].owner /\ r.work = job[k].work
        /\ r.reported /\ r.known /\ r.st = st /\ r.forced = forced
    BY <2>0 DEF Records, Work
  <2> QED
    BY <2>1 DEF st, forced
<1>2. TornDown(J, T) = [k \in Job |-> IF k \notin J \/ ~Live(k) THEN job[k] ELSE R(k)]
  BY DEF TornDown
<1> HIDE DEF R
<1> QED
  BY <1>1, <1>2

\* Dropping leaves the work and the mark of a throwing cancel.
LEMMA DroppedIs ==
  ASSUME JobsAssumption, job \in [Job -> Records], NEW J
  PROVE  /\ Dropped(J) \in [Job -> Records]
         /\ \A k \in Job \ J : Dropped(J)[k] = job[k]
         /\ \A k \in Job \cap J :
              /\ Dropped(J)[k].st = "none" /\ Dropped(J)[k].owner = NoOwner
              /\ Dropped(J)[k].work = job[k].work
              /\ Dropped(J)[k].forced = job[k].forced
              /\ ~Dropped(J)[k].reported /\ ~Dropped(J)[k].known
<1> DEFINE R(k) == [NoRecord EXCEPT !.work = job[k].work, !.forced = job[k].forced]
<1>1. ASSUME NEW k \in Job
      PROVE  /\ R(k) \in Records /\ R(k).st = "none" /\ R(k).owner = NoOwner
             /\ R(k).work = job[k].work /\ R(k).forced = job[k].forced
             /\ ~R(k).reported /\ ~R(k).known
  BY DEF Records, NoRecord, Work
<1>2. Dropped(J) = [k \in Job |-> IF k \in J THEN R(k) ELSE job[k]]
  BY DEF Dropped
<1> HIDE DEF R
<1> QED
  BY <1>1, <1>2

\* settle() and the teardown resolve the waits for the jobs J.
LEMMA ReleasedIs ==
  ASSUME wait \in [Wait -> Waits], NEW J
  PROVE  /\ Released(J) \in [Wait -> Waits]
         /\ \A v \in Wait : /\ Released(J)[v].job = wait[v].job /\ Released(J)[v].by = wait[v].by
                            /\ Released(J)[v].counted = wait[v].counted
                            /\ Released(J)[v].pc =
                                 IF wait[v].job \in J /\ wait[v].pc = "waiting"
                                 THEN "resolved" ELSE wait[v].pc
<1> DEFINE R(v) == [wait[v] EXCEPT !.pc = "resolved"]
<1>1. ASSUME NEW v \in Wait
      PROVE  /\ R(v) \in Waits /\ R(v).job = wait[v].job /\ R(v).by = wait[v].by
             /\ R(v).counted = wait[v].counted /\ R(v).pc = "resolved"
  BY DEF Waits
<1>2. Released(J) = [v \in Wait |-> IF wait[v].job \in J /\ wait[v].pc = "waiting"
                                    THEN R(v) ELSE wait[v]]
  BY DEF Released
<1> HIDE DEF R
<1> QED
  BY <1>1, <1>2

\* Cancelling an agent rejects the waits of its tool bodies.
LEMMA AbortCallsIs ==
  ASSUME wait \in [Wait -> Waits], NEW o, AbortCalls(o)
  PROVE  /\ wait' \in [Wait -> Waits]
         /\ \A v \in Wait : /\ wait'[v].job = wait[v].job /\ wait'[v].by = wait[v].by
                            /\ \/ wait'[v] = wait[v]
                               \/ wait[v].pc = "waiting" /\ wait'[v].pc = "rejected"
                                  /\ ~wait'[v].counted
<1>1. ASSUME NEW v \in Wait
      PROVE  /\ Aborted(v) \in Waits /\ Aborted(v).job = wait[v].job
             /\ Aborted(v).by = wait[v].by
             /\ Aborted(v).pc = "rejected" /\ ~Aborted(v).counted
  BY DEF Waits, Aborted
<1>2. wait' = [v \in Wait |-> IF wait[v].by = o /\ wait[v].pc = "waiting"
                              THEN Aborted(v) ELSE wait[v]]
  BY DEF AbortCalls
<1> QED
  BY <1>1, <1>2

\* A new record.
LEMMA StartedIs ==
  ASSUME job \in [Job -> Records], NEW j \in Job, NEW o \in Owner \union {NoOwner},
         job' = [job EXCEPT ![j] = [NoRecord EXCEPT !.st = "running", !.owner = o,
                                                    !.work = "on"]]
  PROVE  /\ job' \in [Job -> Records]
         /\ \A k \in Job \ {j} : job'[k] = job[k]
         /\ job'[j].st = "running" /\ job'[j].owner = o /\ job'[j].work = "on"
         /\ ~job'[j].reported /\ ~job'[j].known /\ ~job'[j].forced
<1> DEFINE r == [NoRecord EXCEPT !.st = "running", !.owner = o, !.work = "on"]
<1>1. /\ r \in Records /\ r.st = "running" /\ r.owner = o /\ r.work = "on"
      /\ ~r.reported /\ ~r.known /\ ~r.forced
  BY DEF NoRecord, Records, Work
<1> HIDE DEF r
<1>2. job' = [job EXCEPT ![j] = r]
  BY DEF r
<1> QED
  BY <1>1, <1>2

\* The first terminal outcome.
LEMMA SettledIs ==
  ASSUME job \in [Job -> Records], NEW j \in Job, NEW reported \in BOOLEAN,
         NEW due \in BOOLEAN,
         job' = [job EXCEPT ![j] = [@ EXCEPT !.st = "terminal", !.work = "off",
                                    !.reported = reported, !.known = job[j].known \/ due]]
  PROVE  /\ job' \in [Job -> Records]
         /\ \A k \in Job \ {j} : job'[k] = job[k]
         /\ job'[j].st = "terminal" /\ job'[j].owner = job[j].owner /\ job'[j].work = "off"
         /\ job'[j].reported = reported /\ (job'[j].known <=> job[j].known \/ due)
         /\ job'[j].forced = job[j].forced
<1> DEFINE known == job[j].known \/ due
           r == [job[j] EXCEPT !.st = "terminal", !.work = "off", !.reported = reported,
                               !.known = known]
<1>0. known \in BOOLEAN
  OBVIOUS
<1> HIDE DEF known
<1>1. /\ r \in Records /\ r.st = "terminal" /\ r.owner = job[j].owner /\ r.work = "off"
      /\ r.reported = reported /\ r.known = known /\ r.forced = job[j].forced
  BY <1>0 DEF Records, Work
<1>2. job' = [job EXCEPT ![j] = r]
  BY DEF known
<1> HIDE DEF r
<1> QED
  BY <1>1, <1>2 DEF known

\* A call that is over.
LEMMA OverIs ==
  ASSUME JobsAssumption, wait \in [Wait -> Waits], NEW w \in Wait,
         wait' = [wait EXCEPT ![w] = NotWaiting]
  PROVE  /\ wait' \in [Wait -> Waits]
         /\ \A v \in Wait \ {w} : wait'[v] = wait[v]
         /\ wait'[w].pc = "idle" /\ wait'[w].job = NoJob /\ wait'[w].by = NoOwner
         /\ ~wait'[w].counted
BY DEF NotWaiting, Waits

\* A notice: either it wakes the owner, within its budget, or it is left.
LEMMA NotifyIs ==
  ASSUME JobsAssumption, NEW a \in Agents
  PROVE  /\ Notify(a) \in Agents
         /\ Notify(a).reg = a.reg /\ Notify(a).attached = a.attached
         /\ Notify(a).owned = a.owned /\ Notify(a).latch = a.latch
         /\ Notify(a).calls = a.calls /\ Notify(a).chain = a.chain
         /\ Notify(a).prompts = a.prompts
         /\ \/ /\ a.act = "idle" /\ a.spent < MaxWakes /\ Notify(a).act = "open"
               /\ Notify(a).spent = a.spent + 1 /\ Notify(a).turnQ = Append(a.turnQ, "note")
            \/ /\ Notify(a).act = a.act /\ Notify(a).spent = a.spent
               /\ Notify(a).turnQ = a.turnQ
<1>1. CASE a.act = "idle" /\ a.spent < MaxWakes
  <2> DEFINE s == a.spent + 1
             q == Append(a.turnQ, "note")
             b == [a EXCEPT !.spent = s, !.turnQ = q, !.act = "open"]
  <2>1. s \in Spends /\ q \in Queues /\ "open" \in Acts
    BY <1>1 DEF Agents, Spends, Queues, Acts, JobsAssumption
  <2>2. Notify(a) = b
    BY <1>1 DEF Notify
  <2> HIDE DEF s, q
  <2>3. /\ b \in Agents /\ b.reg = a.reg /\ b.attached = a.attached /\ b.owned = a.owned
        /\ b.latch = a.latch /\ b.calls = a.calls /\ b.chain = a.chain
        /\ b.prompts = a.prompts /\ b.act = "open" /\ b.spent = s /\ b.turnQ = q
    BY <2>1 DEF Agents
  <2> HIDE DEF b
  <2> QED
    BY <1>1, <2>2, <2>3 DEF s, q
<1>2. CASE ~(a.act = "idle" /\ a.spent < MaxWakes)
  <2> DEFINE b == [a EXCEPT !.notes = TRUE]
  <2>1. Notify(a) = b
    BY <1>2 DEF Notify
  <2>2. /\ b \in Agents /\ b.reg = a.reg /\ b.attached = a.attached /\ b.owned = a.owned
        /\ b.latch = a.latch /\ b.calls = a.calls /\ b.chain = a.chain
        /\ b.prompts = a.prompts /\ b.act = a.act /\ b.spent = a.spent /\ b.turnQ = a.turnQ
    BY DEF Agents
  <2> HIDE DEF b
  <2> QED
    BY <2>1, <2>2
<1> QED
  BY <1>1, <1>2

\* A job_output call begins to wait.
LEMMA BeginWaitCall ==
  ASSUME wait \in [Wait -> Waits], NEW w \in Wait, NEW j \in Job, NEW o \in Owner,
         BeginWait(w, j, o)
  PROVE  /\ wait' \in [Wait -> Waits]
         /\ \A v \in Wait \ {w} : wait'[v] = wait[v]
         /\ wait[w].pc = "idle" /\ wait'[w].pc = "waiting" /\ wait'[w].job = j
         /\ wait'[w].by = o /\ wait'[w].counted
BY DEF BeginWait, Waits

\* The continuation of a wait that was not rejected reports a terminal job.
LEMMA WaitReturnsIs ==
  ASSUME JobsAssumption, wait \in [Wait -> Waits], job \in [Job -> Records], NEW w \in Wait,
         WaitReturns(w), wait[w].job \in Job
  PROVE  /\ wait' \in [Wait -> Waits] /\ job' \in [Job -> Records]
         /\ \A v \in Wait \ {w} : wait'[v] = wait[v]
         /\ \A k \in Job : /\ job'[k].st = job[k].st /\ job'[k].owner = job[k].owner
                           /\ job'[k].work = job[k].work /\ job'[k].known = job[k].known
                           /\ job'[k].forced = job[k].forced
                           /\ job'[k].reported => job[k].reported \/ Terminal(k)
         /\ ~wait'[w].counted
         /\ \/ wait[w].pc = "rejected" /\ wait'[w].pc = "idle" /\ UNCHANGED job
            \/ wait[w].pc = "resolved" /\ wait'[w].pc = "reading"
               /\ wait'[w].job = wait[w].job
<1>1. CASE wait[w].pc = "rejected"
  <2>1. UNCHANGED job /\ wait' = [wait EXCEPT ![w] = NotWaiting]
    BY <1>1 DEF WaitReturns
  <2> QED
    BY <1>1, <2>1, OverIs
<1>2. CASE wait[w].pc = "resolved"
  <2> DEFINE j == wait[w].job
             b == [wait[w] EXCEPT !.pc = "reading", !.counted = FALSE]
             reported == job[j].reported \/ Terminal(j)
             r == [job[j] EXCEPT !.reported = reported]
  <2>1. /\ b \in Waits /\ b.pc = "reading" /\ ~b.counted /\ b.job = wait[w].job
    BY DEF Waits
  <2>2. reported \in BOOLEAN
    BY DEF Records, Terminal
  <2>3. wait' = [wait EXCEPT ![w] = b] /\ job' = [job EXCEPT ![j] = r]
    BY <1>2 DEF WaitReturns
  <2> HIDE DEF b, reported, j
  <2>4. j \in Job
    BY DEF j
  <2>5. /\ r \in Records /\ r.st = job[j].st /\ r.owner = job[j].owner
        /\ r.work = job[j].work /\ r.known = job[j].known /\ r.forced = job[j].forced
        /\ r.reported = reported
    BY <2>2, <2>4 DEF Records, Work
  <2> HIDE DEF r
  <2>6. r.reported => job[j].reported \/ Terminal(j)
    BY <2>5 DEF reported
  <2> QED
    BY <1>2, <2>1, <2>3, <2>4, <2>5, <2>6
<1> QED
  BY <1>1, <1>2 DEF WaitReturns

\* job_output reads the job after its wait.
LEMMA ReadAfterWaitIs ==
  ASSUME JobsAssumption, wait \in [Wait -> Waits], job \in [Job -> Records], NEW w \in Wait,
         ReadAfterWait(w), wait[w].job \in Job
  PROVE  /\ wait' \in [Wait -> Waits] /\ job' \in [Job -> Records]
         /\ \A v \in Wait \ {w} : wait'[v] = wait[v]
         /\ wait[w].pc = "reading" /\ wait'[w].pc = "idle" /\ ~wait'[w].counted
         /\ \A k \in Job : /\ job'[k].st = job[k].st /\ job'[k].owner = job[k].owner
                           /\ job'[k].work = job[k].work
                           /\ job'[k].forced = job[k].forced
                           /\ job'[k].reported => job[k].reported \/ Terminal(k)
                           /\ job[k].known => job'[k].known
         /\ Terminal(wait[w].job) => job'[wait[w].job].known
<1> DEFINE j == wait[w].job
           reported == job[j].reported \/ Terminal(j)
           known == job[j].known \/ Terminal(j)
           r == [job[j] EXCEPT !.reported = reported, !.known = known]
<1>1. reported \in BOOLEAN /\ known \in BOOLEAN
  BY DEF Records, Terminal
<1>2. wait' = [wait EXCEPT ![w] = NotWaiting] /\ job' = [job EXCEPT ![j] = r]
      /\ wait[w].pc = "reading"
  BY DEF ReadAfterWait
<1>3. (reported => job[j].reported \/ Terminal(j)) /\ (job[j].known \/ Terminal(j) => known)
  OBVIOUS
<1>4. j \in Job /\ j = wait[w].job
  OBVIOUS
<1> HIDE DEF reported, known, j
<1>5. /\ r \in Records /\ r.st = job[j].st /\ r.owner = job[j].owner
      /\ r.work = job[j].work /\ r.known = known /\ r.forced = job[j].forced
      /\ r.reported = reported
  <2>1. job[j] \in Records
    BY <1>4
  <2> QED
    BY <1>1, <2>1 DEF Records, Work
<1> HIDE DEF r
<1>6. /\ wait' \in [Wait -> Waits]
      /\ \A v \in Wait \ {w} : wait'[v] = wait[v]
      /\ wait'[w].pc = "idle" /\ ~wait'[w].counted
  BY <1>2, OverIs
<1> QED
  BY <1>2, <1>3, <1>4, <1>5, <1>6

\* Every agent forgets that its cleanup was attached.
LEMMA AllSettledOwner ==
  ASSUME agent \in [Owner -> Agents], AllSettled
  PROVE  /\ agent' \in [Owner -> Agents]
         /\ \A p \in Owner :
              /\ ~agent'[p].attached /\ agent'[p].reg = agent[p].reg
              /\ agent'[p].owned = agent[p].owned /\ agent'[p].act = agent[p].act
              /\ agent'[p].latch = agent[p].latch /\ agent'[p].turnQ = agent[p].turnQ
              /\ agent'[p].spent = agent[p].spent /\ agent'[p].chain = agent[p].chain
              /\ agent'[p].prompts = agent[p].prompts
BY DEF AllSettled, Agents

\* A full budget for everybody.
LEMMA MountOwner ==
  ASSUME JobsAssumption, agent \in [Owner -> Agents], Mount
  PROVE  /\ agent' \in [Owner -> Agents]
         /\ \A p \in Owner :
              /\ agent'[p].attached = agent[p].attached /\ agent'[p].reg = agent[p].reg
              /\ agent'[p].owned = agent[p].owned /\ agent'[p].act = agent[p].act
              /\ agent'[p].latch = agent[p].latch /\ agent'[p].turnQ = agent[p].turnQ
              /\ agent'[p].spent = 0 /\ agent'[p].chain = agent[p].chain
              /\ agent'[p].prompts = agent[p].prompts
<1>1. 0 \in Spends
  BY DEF JobsAssumption, Spends
<1> QED
  BY <1>1 DEF Mount, Agents

\* Nobody refers to a slot that is used again.
LEMMA ReusableIs ==
  ASSUME NEW j \in Job, Reusable(j)
  PROVE  /\ ~Live(j) /\ job[j].work = "off"
         /\ \A w \in Wait : wait[w].job # j
         /\ \A p \in Owner : j \notin agent[p].owned
BY DEF Reusable, Awaited

\* What start() does to the store, for an owner that can be cleaned up after.
LEMMA StartOwnedRecord ==
  ASSUME job \in [Job -> Records], NEW j \in Job, NEW o \in Owner, StartOwned(j, o)
  PROVE  /\ Ownable(o) /\ InTool(o) /\ svc = "up"
         /\ UNCHANGED <<wait, svc, mounted, input, remounts>>
         /\ ~Live(j) /\ job[j].work = "off"
         /\ \A w \in Wait : wait[w].job # j
         /\ \A p \in Owner : j \notin agent[p].owned
         /\ \/ UNCHANGED job
            \/ /\ job' \in [Job -> Records] /\ Cardinality(Actives(o)) < MaxJobs
               /\ \A k \in Job \ {j} : job'[k] = job[k]
               /\ job'[j].st = "running" /\ job'[j].owner = o /\ job'[j].work = "on"
               /\ ~job'[j].reported /\ ~job'[j].known /\ ~job'[j].forced
<1>1. /\ Ownable(o) /\ InTool(o) /\ svc = "up" /\ Reusable(j)
      /\ UNCHANGED <<wait, svc, mounted, input, remounts>>
  BY DEF StartOwned
<1>2. \/ UNCHANGED job
      \/ /\ Active(o) < MaxJobs
         /\ job' = [job EXCEPT ![j] = [NoRecord EXCEPT !.st = "running", !.owner = o,
                                                       !.work = "on"]]
  BY DEF StartOwned
<1>3. Active(o) = Cardinality(Actives(o))
  BY DEF Active, Actives
<1>4. CASE UNCHANGED job
  BY <1>1, <1>4, ReusableIs
<1>5. CASE /\ Active(o) < MaxJobs
           /\ job' = [job EXCEPT ![j] = [NoRecord EXCEPT !.st = "running", !.owner = o,
                                                         !.work = "on"]]
  <2>1. /\ job' \in [Job -> Records]
        /\ \A k \in Job \ {j} : job'[k] = job[k]
        /\ job'[j].st = "running" /\ job'[j].owner = o /\ job'[j].work = "on"
        /\ ~job'[j].reported /\ ~job'[j].known /\ ~job'[j].forced
    BY <1>5, StartedIs
  <2> QED
    BY <1>1, <1>3, <1>5, <2>1, ReusableIs
<1> QED
  BY <1>2, <1>4, <1>5

\* The same without an owner.
LEMMA StartUnownedRecord ==
  ASSUME job \in [Job -> Records], NEW j \in Job, StartUnowned(j)
  PROVE  /\ svc = "up" /\ UNCHANGED <<wait, agent, svc, mounted, input, remounts>>
         /\ ~Live(j) /\ job[j].work = "off"
         /\ \A w \in Wait : wait[w].job # j
         /\ \A p \in Owner : j \notin agent[p].owned
         /\ job' \in [Job -> Records] /\ Cardinality(Actives(NoOwner)) < MaxJobs
         /\ \A k \in Job \ {j} : job'[k] = job[k]
         /\ job'[j].st = "running" /\ job'[j].owner = NoOwner /\ job'[j].work = "on"
         /\ ~job'[j].reported /\ ~job'[j].known /\ ~job'[j].forced
<1>1. /\ svc = "up" /\ Reusable(j) /\ UNCHANGED <<wait, agent, svc, mounted, input, remounts>>
      /\ Active(NoOwner) < MaxJobs
  BY DEF StartUnowned
<1> DEFINE r == [NoRecord EXCEPT !.st = "running", !.work = "on"]
<1>2. /\ r \in Records /\ r.st = "running" /\ r.owner = NoOwner /\ r.work = "on"
      /\ ~r.reported /\ ~r.known /\ ~r.forced
  BY DEF NoRecord, Records, Work
<1>5. job' = [job EXCEPT ![j] = r]
  BY DEF StartUnowned
<1> HIDE DEF r
<1>3. Active(NoOwner) = Cardinality(Actives(NoOwner))
  BY DEF Active, Actives
<1>4. /\ job' \in [Job -> Records]
      /\ \A k \in Job \ {j} : job'[k] = job[k]
      /\ job'[j].st = "running" /\ job'[j].owner = NoOwner /\ job'[j].work = "on"
      /\ ~job'[j].reported /\ ~job'[j].known /\ ~job'[j].forced
  BY <1>2, <1>5
<1> QED
  BY <1>1, <1>3, <1>4, ReusableIs

\* Forced work ends without a record.
LEMMA SettleDead ==
  ASSUME job \in [Job -> Records], NEW j \in Job, Settle(j), ~Live(j)
  PROVE  /\ UNCHANGED <<wait, agent, svc, mounted, input, remounts>>
         /\ job' \in [Job -> Records]
         /\ \A k \in Job \ {j} : job'[k] = job[k]
         /\ job'[j].st = job[j].st /\ job'[j].owner = job[j].owner /\ job'[j].work = "off"
         /\ job'[j].reported = job[j].reported /\ job'[j].known = job[j].known
         /\ job'[j].forced = job[j].forced
<1>1. /\ UNCHANGED <<wait, agent, svc, mounted, input, remounts>>
      /\ job' = [job EXCEPT ![j].work = "off"]
  BY DEF Settle
<1> DEFINE r == [job[j] EXCEPT !.work = "off"]
<1>2. /\ r \in Records /\ r.st = job[j].st /\ r.owner = job[j].owner /\ r.work = "off"
      /\ r.reported = job[j].reported /\ r.known = job[j].known /\ r.forced = job[j].forced
  BY DEF Records, Work
<1>3. job' = [job EXCEPT ![j] = r]
  BY <1>1
<1> HIDE DEF r
<1> QED
  BY <1>1, <1>2, <1>3

\* The waits that make settle() report a job.
Expected(j) == job[j].reported \/ \E w \in Wait : wait[w].job = j /\ wait[w].counted

\* The end of a live job is recorded, its waits are resolved, and its owner is
\* told if nobody else is.
LEMMA SettleLive ==
  ASSUME JobsAssumption, job \in [Job -> Records], wait \in [Wait -> Waits],
         agent \in [Owner -> Agents], NEW j \in Job, Settle(j), Live(j)
  PROVE  /\ UNCHANGED <<svc, mounted, input, remounts>>
         /\ job' \in [Job -> Records]
         /\ \A k \in Job \ {j} : job'[k] = job[k]
         /\ job'[j].st = "terminal" /\ job'[j].owner = job[j].owner /\ job'[j].work = "off"
         /\ job'[j].forced = job[j].forced
         /\ job[j].known \/ (~Expected(j) /\ job[j].owner # NoOwner) => job'[j].known
         /\ wait' = Released({j})
         /\ \/ UNCHANGED agent
            \/ /\ job[j].owner \in Owner /\ mounted /\ svc = "up"
               /\ agent' = [agent EXCEPT ![job[j].owner] = Notify(agent[job[j].owner])]
<1> DEFINE reported == Expected(j)
           due == ~reported /\ job[j].owner # NoOwner
           heard == mounted /\ svc = "up"
<1>0. reported \in BOOLEAN /\ due \in BOOLEAN
  BY DEF Expected, Records
<1>1. /\ UNCHANGED <<svc, mounted, input, remounts>> /\ wait' = Released({j})
      /\ job' = [job EXCEPT ![j] =
                    [@ EXCEPT !.st = "terminal", !.work = "off",
                              !.reported = reported, !.known = job[j].known \/ due]]
      /\ agent' = IF due /\ heard THEN [agent EXCEPT ![job[j].owner] = Notify(@)] ELSE agent
  BY DEF Settle, Expected
<1>2. due => job[j].owner \in Owner
  BY DEF Records
<1> HIDE DEF reported
<1>3. \/ UNCHANGED agent
      \/ /\ job[j].owner \in Owner /\ mounted /\ svc = "up"
         /\ agent' = [agent EXCEPT ![job[j].owner] = Notify(agent[job[j].owner])]
  BY <1>1, <1>2
<1> HIDE DEF due
<1>4. /\ job' \in [Job -> Records]
      /\ \A k \in Job \ {j} : job'[k] = job[k]
      /\ job'[j].st = "terminal" /\ job'[j].owner = job[j].owner /\ job'[j].work = "off"
      /\ (job'[j].known <=> job[j].known \/ due)
      /\ job'[j].forced = job[j].forced
  BY <1>0, <1>1, SettledIs
<1> QED
  BY <1>1, <1>3, <1>4 DEF due, reported

\* The cleanup cancels what its agent owns.
LEMMA CleanupBeginsRest ==
  ASSUME job \in [Job -> Records], wait \in [Wait -> Waits], NEW o \in Owner,
         NEW T \in SUBSET Job, CleanupBegins(o, T)
  PROVE  /\ UNCHANGED <<svc, mounted, input, remounts>>
         /\ agent[o].reg = "disposing" /\ agent[o].attached
         /\ T \subseteq {j \in OwnedBy(o) : Live(j)}
         /\ job' = TornDown(OwnedBy(o), T) /\ wait' = Released(T)
BY DEF CleanupBegins

\* The cleanup deletes its snapshot.
LEMMA CleanupEndsRest ==
  ASSUME NEW o \in Owner, CleanupEnds(o)
  PROVE  /\ UNCHANGED <<wait, svc, mounted, input, remounts>>
         /\ job' = Dropped(agent[o].owned)
         /\ \/ agent[o].reg = "cleaning" /\ \A j \in agent[o].owned : ~Live(j)
            \/ agent[o].reg = "disposing" /\ ~agent[o].attached
BY DEF CleanupEnds

\* Nothing is queued in an empty queue.
LEMMA NoNotes == Notes(<<>>) = 0
BY FS_EmptySet DEF Notes

\* The notices are counted.
LEMMA NotesType ==
  ASSUME NEW q \in Queues
  PROVE  IsFiniteSet({i \in 1 .. Len(q) : q[i] = "note"}) /\ Notes(q) \in Nat
<1>1. IsFiniteSet(1 .. Len(q))
  <2>1. Len(q) \in Nat
    BY DEF Queues
  <2> QED
    BY <2>1, FS_Interval
<1>2. {i \in 1 .. Len(q) : q[i] = "note"} \subseteq 1 .. Len(q)
  OBVIOUS
<1> QED
  BY <1>1, <1>2, FS_Subset, FS_CardinalityType DEF Notes

\* A queued message is a notice or not.
LEMMA NotesAppend ==
  ASSUME NEW q \in Queues
  PROVE  /\ Notes(Append(q, "user")) = Notes(q)
         /\ Notes(Append(q, "note")) = Notes(q) + 1
<1> DEFINE S == {i \in 1 .. Len(q) : q[i] = "note"}
           n == Len(q)
<1>1. n \in Nat /\ q \in Seq({"user", "note"})
  BY DEF Queues
<1>2. ASSUME NEW x \in {"user", "note"}
      PROVE  /\ Len(Append(q, x)) = n + 1
             /\ \A i \in 1 .. n : Append(q, x)[i] = q[i]
             /\ Append(q, x)[n + 1] = x
  BY <1>1
<1>3. {i \in 1 .. Len(Append(q, "user")) : Append(q, "user")[i] = "note"} = S
  <2>1. 1 .. Len(Append(q, "user")) = (1 .. n) \union {n + 1}
    BY <1>1, <1>2
  <2> QED
    BY <1>1, <1>2, <2>1
<1>4. {i \in 1 .. Len(Append(q, "note")) : Append(q, "note")[i] = "note"} = S \union {n + 1}
  <2>1. 1 .. Len(Append(q, "note")) = (1 .. n) \union {n + 1}
    BY <1>1, <1>2
  <2> QED
    BY <1>1, <1>2, <2>1
<1>5. n + 1 \notin S
  BY <1>1
<1>6. IsFiniteSet(S)
  BY NotesType
<1> HIDE DEF S
<1>7. Cardinality(S \union {n + 1}) = Cardinality(S) + 1
  BY <1>5, <1>6, FS_AddElement
<1> QED
  BY <1>3, <1>4, <1>7 DEF Notes, S

\* Taking a message off the queue.
LEMMA NotesTail ==
  ASSUME NEW q \in Queues, q # <<>>
  PROVE  Notes(q) = IF Head(q) = "user" THEN Notes(Tail(q)) ELSE Notes(Tail(q)) + 1
<1> DEFINE S == {i \in 1 .. Len(q) : q[i] = "note"}
           U == {i \in 1 .. Len(Tail(q)) : Tail(q)[i] = "note"}
           n == Len(q)
<1>1. /\ n \in Nat /\ n >= 1 /\ q \in Seq({"user", "note"}) /\ Head(q) = q[1]
      /\ Tail(q) \in Queues /\ Len(Tail(q)) = n - 1
      /\ \A i \in 1 .. (n - 1) : Tail(q)[i] = q[i + 1]
  BY DEF Queues
<1>2. IsFiniteSet(S) /\ IsFiniteSet(U)
  BY <1>1, NotesType
<1>3. U \subseteq 1 .. (n - 1) /\ S \subseteq 1 .. n
  BY <1>1
<1>4. \A i \in 2 .. n : i \in S <=> i - 1 \in U
  BY <1>1
<1>5. Cardinality(S \ {1}) = Cardinality(U)
  <2> DEFINE f == [i \in S \ {1} |-> i - 1]
  <2>1. f \in [S \ {1} -> U]
    BY <1>1, <1>3, <1>4
  <2>2. \A x, y \in S \ {1} : f[x] = f[y] => x = y
    BY <1>1, <1>3
  <2>3. \A u \in U : \E x \in S \ {1} : f[x] = u
    <3> TAKE u \in U
    <3>1. u + 1 \in S \ {1} /\ (u + 1) - 1 = u
      BY <1>1, <1>3, <1>4
    <3> QED
      BY <3>1
  <2>4. f \in Bijection(S \ {1}, U)
    BY <2>1, <2>2, <2>3, Fun_IsBij
  <2>5. IsFiniteSet(S \ {1})
    BY <1>2, FS_RemoveElement
  <2>6. ExistsBijection(S \ {1}, U)
    BY <2>4 DEF ExistsBijection
  <2> HIDE DEF S, U
  <2> QED
    BY <2>5, <2>6, FS_Bijection
<1>6. Head(q) = "user" \/ Head(q) = "note"
  BY <1>1
<1>7. CASE Head(q) = "user"
  <2>1. 1 \notin S
    BY <1>1, <1>7
  <2>2. S \ {1} = S
    BY <2>1
  <2> QED
    BY <1>5, <1>7, <2>2 DEF Notes
<1>8. CASE Head(q) = "note"
  <2>1. 1 \in S
    BY <1>1, <1>8
  <2>2. Cardinality(S \ {1}) = Cardinality(S) - 1 /\ Cardinality(S) \in Nat
    BY <1>2, <2>1, FS_RemoveElement, FS_CardinalityType
  <2>3. Notes(q) = Cardinality(S) /\ Notes(Tail(q)) = Cardinality(U)
    BY DEF Notes
  <2> HIDE DEF S, U
  <2> QED
    BY <1>5, <1>8, <2>2, <2>3
<1> QED
  BY <1>6, <1>7, <1>8

\* One more budget pays for MaxWakes more turns.
LEMMA GrantNext ==
  ASSUME JobsAssumption, NEW n \in Nat
  PROVE  Grant(n) \in Nat /\ Grant(n + 1) = Grant(n) + MaxWakes
BY DEF JobsAssumption, Grant

\* Live jobs are counted, and a set of them is no larger for having lost some.
LEMMA FewerActives ==
  ASSUME JobsAssumption, NEW S \in SUBSET Job, NEW U \in SUBSET S
  PROVE  Cardinality(U) \in Nat /\ Cardinality(S) \in Nat /\ Cardinality(U) <= Cardinality(S)
<1>1. IsFiniteSet(S)
  BY FS_Subset DEF JobsAssumption
<1> QED
  BY <1>1, FS_Subset, FS_CardinalityType

\* A limit is kept by a step that makes no job live.
LEMMA LimitKept ==
  ASSUME JobsAssumption, Limited,
         \A k \in Job : job'[k].st \in {"running", "stopping"}
                          => Live(k) /\ job'[k].owner = job[k].owner
  PROVE  Limited'
<1> SUFFICES ASSUME NEW o \in Owner \union {NoOwner}
             PROVE  Cardinality(Actives(o)') <= MaxJobs
  BY DEF Limited
<1>1. Actives(o)' \subseteq Actives(o) /\ Actives(o) \subseteq Job
  BY DEF Actives, Live
<1>2. Cardinality(Actives(o)) <= MaxJobs
  BY DEF Limited
<1> QED
  BY <1>1, <1>2, FewerActives DEF JobsAssumption

\* A limit is kept by a start that looked at it.
LEMMA LimitOnStart ==
  ASSUME JobsAssumption, Limited, NEW j \in Job, NEW p \in Owner \union {NoOwner},
         ~Live(j), Cardinality(Actives(p)) < MaxJobs,
         \A k \in Job \ {j} : job'[k] = job[k], job'[j].owner = p
  PROVE  Limited'
<1> SUFFICES ASSUME NEW o \in Owner \union {NoOwner}
             PROVE  Cardinality(Actives(o)') <= MaxJobs
  BY DEF Limited
<1>1. Cardinality(Actives(o)) <= MaxJobs
  BY DEF Limited
<1>2. Actives(o) \subseteq Job /\ j \notin Actives(o)
  BY DEF Actives
<1>3. IsFiniteSet(Actives(o))
  BY <1>2, FS_Subset DEF JobsAssumption
<1>4. CASE o # p
  <2>1. Actives(o)' \subseteq Actives(o)
    BY <1>4 DEF Actives, Live
  <2> QED
    BY <1>1, <1>2, <2>1, FewerActives DEF JobsAssumption
<1>5. CASE o = p
  <2>1. Actives(o)' \subseteq Actives(o) \union {j}
    BY DEF Actives, Live
  <2>2. Cardinality(Actives(o) \union {j}) = Cardinality(Actives(o)) + 1
    BY <1>2, <1>3, FS_AddElement
  <2>3. /\ Cardinality(Actives(o)') \in Nat /\ Cardinality(Actives(o)) \in Nat
        /\ Cardinality(Actives(o)') <= Cardinality(Actives(o) \union {j})
    BY <1>2, <2>1, FewerActives
  <2> QED
    BY <1>5, <2>2, <2>3 DEF JobsAssumption
<1> QED
  BY <1>4, <1>5

\* What the budget of an agent is made of.
LEMMA BudgetOf ==
  ASSUME JobsAssumption, Typed, Budgeted, NEW p \in Owner
  PROVE  /\ agent[p].turnQ \in Queues /\ agent[p].chain \in Nat /\ agent[p].prompts \in Nat
         /\ agent[p].spent \in Nat /\ agent[p].spent <= MaxWakes
         /\ Notes(agent[p].turnQ) \in Nat
         /\ agent[p].prompts + remounts - Owing \in Nat
         /\ Owing \in {0, 1} /\ remounts \in Nat /\ Owing <= remounts
         /\ MaxWakes \in Nat /\ Grant(agent[p].prompts + remounts - Owing) \in Nat
         /\ agent[p].prompts # 0 =>
              agent[p].chain + Notes(agent[p].turnQ) + MaxWakes
                <= Grant(agent[p].prompts + remounts - Owing) + agent[p].spent
<1>1. agent[p] \in Agents /\ remounts \in Nat /\ Owing \in {0, 1} /\ Owing <= remounts
      /\ MaxWakes \in Nat
  BY DEF Typed, Budgeted, Owing, JobsAssumption
<1>2. /\ agent[p].turnQ \in Queues /\ agent[p].chain \in Nat /\ agent[p].prompts \in Nat
      /\ agent[p].spent \in Nat /\ agent[p].spent <= MaxWakes
  BY <1>1 DEF Agents, Spends
<1>3. agent[p].prompts + remounts - Owing \in Nat
  BY <1>1, <1>2
<1>4. Notes(agent[p].turnQ) \in Nat /\ Grant(agent[p].prompts + remounts - Owing) \in Nat
  BY <1>2, <1>3, NotesType, GrantNext
<1>5. agent[p].prompts # 0 =>
        agent[p].chain + Notes(agent[p].turnQ) + MaxWakes
          <= Grant(agent[p].prompts + remounts - Owing) + agent[p].spent
  BY DEF Budgeted
<1> QED
  BY <1>1, <1>2, <1>3, <1>4, <1>5

\* A step that takes nothing from the budgets keeps them: what it adds to the
\* turns and the notices of an agent it adds to what is spent.
LEMMA BudgetKept ==
  ASSUME JobsAssumption, Typed, Budgeted, agent' \in [Owner -> Agents],
         UNCHANGED remounts, Owing' \in {0, Owing},
         \A p \in Owner :
           /\ agent'[p].prompts = agent[p].prompts
           /\ agent'[p].chain + Notes(agent'[p].turnQ) + agent[p].spent
                <= agent[p].chain + Notes(agent[p].turnQ) + agent'[p].spent
  PROVE  Budgeted'
<1>1. ASSUME NEW p \in Owner, agent'[p].prompts # 0
      PROVE  agent'[p].chain + Notes(agent'[p].turnQ) + MaxWakes
               <= Grant(agent'[p].prompts + remounts' - Owing') + agent'[p].spent
  <2> DEFINE n == agent[p].prompts + remounts - Owing
             m == agent[p].prompts + remounts - Owing'
             c == agent'[p].chain + Notes(agent'[p].turnQ)
             b == agent[p].chain + Notes(agent[p].turnQ)
  <2>1. /\ n \in Nat /\ Owing \in {0, 1} /\ Grant(n) \in Nat /\ MaxWakes \in Nat
        /\ b + MaxWakes <= Grant(n) + agent[p].spent
        /\ b \in Nat /\ agent[p].spent \in Nat
    BY <1>1, BudgetOf
  <2>2. m = n \/ m = n + 1
    BY <2>1, BudgetOf
  <2>3. Grant(m) \in Nat /\ Grant(n) <= Grant(m)
    BY <2>1, <2>2, GrantNext
  <2>4. /\ agent'[p].spent \in Nat /\ agent'[p].chain \in Nat
        /\ Notes(agent'[p].turnQ) \in Nat
    <3>1. agent'[p] \in Agents /\ MaxWakes \in Nat
      BY DEF JobsAssumption
    <3>2. /\ agent'[p].spent \in Nat /\ agent'[p].chain \in Nat
          /\ agent'[p].turnQ \in Queues
      BY <3>1 DEF Agents, Spends
    <3> QED
      BY <3>2, NotesType
  <2>5. c \in Nat /\ c + agent[p].spent <= b + agent'[p].spent
    BY <2>4
  <2>6. agent'[p].prompts + remounts' - Owing' = m
    OBVIOUS
  <2> HIDE DEF n, m, b
  <2>7. c + MaxWakes <= Grant(m) + agent'[p].spent
    BY <2>1, <2>3, <2>4, <2>5
  <2> QED
    BY <2>6, <2>7
<1>2. Owing' <= remounts'
  <2>1. Owing \in {0, 1} /\ Owing <= remounts /\ remounts \in Nat
    BY DEF Budgeted, Owing, Typed
  <2> QED
    BY <2>1
<1> QED
  BY <1>1, <1>2 DEF Budgeted

\* Every step keeps it.
LEMMA NextIInv ==
  ASSUME JobsAssumption, IInv, [Next]_vars
  PROVE  IInv'
<1>i. /\ Typed /\ CleansOnce /\ Owed /\ Recorded /\ Limited /\ Counted
      /\ ReportedLive /\ SilenceIsExplained /\ Attentive /\ Prompted /\ Budgeted
  BY DEF IInv
<1>t. /\ job \in [Job -> Records] /\ wait \in [Wait -> Waits]
      /\ agent \in [Owner -> Agents] /\ mounted \in BOOLEAN
  BY <1>i DEF Typed
<1>1. ASSUME NEW j \in Job, NEW o \in Owner, StartOwned(j, o) PROVE IInv'
  <2>u. /\ Ownable(o) /\ InTool(o) /\ svc = "up"
        /\ UNCHANGED <<wait, svc, mounted, input, remounts>>
        /\ ~Live(j) /\ job[j].work = "off"
        /\ \A w \in Wait : wait[w].job # j
        /\ \A p \in Owner : j \notin agent[p].owned
    BY <1>1, <1>t, StartOwnedRecord
  <2>j. /\ job' \in [Job -> Records]
        /\ \A k \in Job \ {j} : job'[k] = job[k]
        /\ \/ job'[j] = job[j]
           \/ /\ Cardinality(Actives(o)) < MaxJobs
              /\ job'[j].st = "running" /\ job'[j].owner = o /\ job'[j].work = "on"
              /\ ~job'[j].reported /\ ~job'[j].known /\ ~job'[j].forced
    BY <1>1, <1>t, StartOwnedRecord
  <2>1. Counted'
    BY <1>i, <2>u DEF Counted
  <2>2. Typed'
    BY <1>1, <1>i, <1>t, <2>u, <2>j, StartOwnedOwner DEF Typed, JobsAssumption
  <2>3. CleansOnce'
    BY <1>1, <1>i, <1>t, <2>u, <2>j, StartOwnedOwner DEF CleansOnce, Ownable
  <2>4. Owed'
    BY <1>1, <1>i, <1>t, <2>u, <2>j, StartOwnedOwner DEF Owed, Ownable
  <2>5. Recorded'
    BY <1>1, <1>i, <1>t, <2>u, <2>j, StartOwnedOwner DEF Recorded, Live
  <2>6. Limited'
    <3>1. CASE job'[j] = job[j]
      BY <1>i, <2>j, <3>1, LimitKept DEF Live
    <3>2. CASE job'[j] # job[j]
      BY <1>i, <2>u, <2>j, <3>2, LimitOnStart
    <3> QED
      BY <3>1, <3>2
  <2>7. ReportedLive'
    BY <1>1, <1>i, <1>t, <2>u, <2>j, StartOwnedOwner DEF ReportedLive, Live
  <2>8. SilenceIsExplained'
    BY <1>1, <1>i, <1>t, <2>u, <2>j, StartOwnedOwner DEF SilenceIsExplained, Terminal
  <2>9. Attentive'
    BY <1>1, <1>i, <1>t, <2>u, <2>j, StartOwnedOwner DEF Attentive
  <2>10. Prompted'
    BY <1>1, <1>i, <1>t, <2>u, <2>j, StartOwnedOwner DEF Prompted, InTool
  <2>11. Budgeted'
    BY <1>1, <1>i, <1>t, <2>u, <2>j, StartOwnedOwner DEF Budgeted, Owing
  <2> QED
    BY <2>1, <2>2, <2>3, <2>4, <2>5, <2>6, <2>7, <2>8, <2>9, <2>10, <2>11 DEF IInv
<1>2. ASSUME NEW j \in Job, StartUnowned(j) PROVE IInv'
  <2>u. /\ svc = "up" /\ UNCHANGED <<wait, agent, svc, mounted, input, remounts>>
        /\ ~Live(j) /\ job[j].work = "off"
        /\ \A w \in Wait : wait[w].job # j
        /\ \A p \in Owner : j \notin agent[p].owned
        /\ job' \in [Job -> Records] /\ Cardinality(Actives(NoOwner)) < MaxJobs
        /\ \A k \in Job \ {j} : job'[k] = job[k]
        /\ job'[j].st = "running" /\ job'[j].owner = NoOwner /\ job'[j].work = "on"
        /\ ~job'[j].reported /\ ~job'[j].known /\ ~job'[j].forced
    BY <1>2, <1>t, StartUnownedRecord
  <2>1. /\ CleansOnce' /\ Counted' /\ Attentive' /\ Budgeted'
    BY <1>i, <2>u DEF Attentive, Budgeted, CleansOnce, Counted, Owing
  <2>2. Typed'
    BY <1>2, <1>i, <1>t, <2>u DEF Typed, JobsAssumption
  <2>3. Owed'
    BY <1>2, <1>i, <1>t, <2>u DEF Owed
  <2>4. Recorded'
    BY <1>2, <1>i, <1>t, <2>u DEF Recorded, Live
  <2>5. Limited'
    BY <1>i, <2>u, LimitOnStart
  <2>6. ReportedLive'
    BY <1>2, <1>i, <1>t, <2>u DEF ReportedLive, Live
  <2>7. SilenceIsExplained'
    BY <1>2, <1>i, <1>t, <2>u DEF SilenceIsExplained, Terminal
  <2>8. Prompted'
    BY <1>2, <1>i, <1>t, <2>u DEF Prompted
  <2> QED
    BY <2>1, <2>2, <2>3, <2>4, <2>5, <2>6, <2>7, <2>8 DEF IInv
<1>3. ASSUME NEW j \in Job, WorkEnds(j) PROVE IInv'
  <2>u. /\ UNCHANGED <<wait, agent, svc, mounted, input, remounts>>
        /\ job[j].work = "on"
    BY <1>3, <1>i DEF WorkEnds
  <2>1. /\ CleansOnce' /\ Counted' /\ Attentive' /\ Budgeted'
    BY <1>i, <2>u DEF Attentive, Budgeted, CleansOnce, Counted, Owing
  <2>2. Typed'
    BY <1>3, <1>i, <1>t, <2>u, WorkEndsRecord DEF Typed, JobsAssumption
  <2>3. Owed'
    BY <1>3, <1>i, <1>t, <2>u, WorkEndsRecord DEF Owed
  <2>4. Recorded'
    BY <1>3, <1>i, <1>t, <2>u, WorkEndsRecord DEF Recorded, Live
  <2>5. Limited'
    BY <1>3, <1>i, <1>t, <2>u, WorkEndsRecord, LimitKept DEF Live
  <2>6. ReportedLive'
    BY <1>3, <1>i, <1>t, <2>u, WorkEndsRecord DEF ReportedLive, Live
  <2>7. SilenceIsExplained'
    BY <1>3, <1>i, <1>t, <2>u, WorkEndsRecord DEF SilenceIsExplained, Terminal
  <2>8. Prompted'
    BY <1>3, <1>i, <1>t, <2>u, WorkEndsRecord DEF Prompted
  <2> QED
    BY <2>1, <2>2, <2>3, <2>4, <2>5, <2>6, <2>7, <2>8 DEF IInv
<1>4. ASSUME NEW j \in Job, Settle(j) PROVE IInv'
  <2>1. CASE ~Live(j)
    <3>1. /\ UNCHANGED <<wait, agent, svc, mounted, input, remounts>>
          /\ job' \in [Job -> Records]
          /\ \A k \in Job \ {j} : job'[k] = job[k]
          /\ job'[j].st = job[j].st /\ job'[j].owner = job[j].owner /\ job'[j].work = "off"
          /\ job'[j].reported = job[j].reported /\ job'[j].known = job[j].known
          /\ job'[j].forced = job[j].forced
      BY <1>4, <1>t, <2>1, SettleDead
    <3>2. Typed'
      BY <1>i, <3>1 DEF Typed
    <3>3. CleansOnce' /\ Counted' /\ Attentive' /\ Budgeted'
      BY <1>i, <3>1 DEF CleansOnce, Counted, Attentive, Budgeted, Owing
    <3>4. Owed' /\ Recorded' /\ Prompted'
      BY <1>i, <3>1 DEF Owed, Recorded, Prompted, Live
    <3>5. Limited'
      BY <1>i, <3>1, LimitKept DEF Live
    <3>6. ReportedLive' /\ SilenceIsExplained'
      BY <1>i, <3>1 DEF ReportedLive, SilenceIsExplained, Live, Terminal
    <3> QED
      BY <3>2, <3>3, <3>4, <3>5, <3>6 DEF IInv
  <2>2. CASE Live(j)
    <3>1. /\ UNCHANGED <<svc, mounted, input, remounts>>
          /\ job' \in [Job -> Records]
          /\ \A k \in Job \ {j} : job'[k] = job[k]
          /\ job'[j].st = "terminal" /\ job'[j].owner = job[j].owner /\ job'[j].work = "off"
          /\ job'[j].forced = job[j].forced
          /\ job[j].known \/ (~Expected(j) /\ job[j].owner # NoOwner) => job'[j].known
          /\ wait' = Released({j})
      BY <1>4, <1>t, <2>2, SettleLive
    <3>2. \/ UNCHANGED agent
          \/ /\ job[j].owner \in Owner /\ mounted /\ svc = "up"
             /\ agent' = [agent EXCEPT ![job[j].owner] = Notify(agent[job[j].owner])]
      BY <1>4, <1>t, <2>2, SettleLive
    <3>3. /\ wait' \in [Wait -> Waits]
          /\ \A v \in Wait : /\ wait'[v].job = wait[v].job /\ wait'[v].counted = wait[v].counted
                             /\ wait'[v].pc = IF wait[v].job \in {j} /\ wait[v].pc = "waiting"
                                              THEN "resolved" ELSE wait[v].pc
      BY <1>t, <3>1, ReleasedIs
    <3>4. /\ agent' \in [Owner -> Agents]
          /\ \A p \in Owner :
               /\ agent'[p].reg = agent[p].reg /\ agent'[p].attached = agent[p].attached
               /\ agent'[p].owned = agent[p].owned /\ agent'[p].latch = agent[p].latch
               /\ agent'[p].chain = agent[p].chain /\ agent'[p].prompts = agent[p].prompts
               /\ \/ /\ agent[p].act = "idle" /\ agent'[p].act = "open" /\ job[j].owner = p
                     /\ agent'[p].spent = agent[p].spent + 1
                     /\ agent'[p].turnQ = Append(agent[p].turnQ, "note")
                  \/ /\ agent'[p].act = agent[p].act /\ agent'[p].spent = agent[p].spent
                     /\ agent'[p].turnQ = agent[p].turnQ
      <4>1. CASE UNCHANGED agent
        BY <1>t, <4>1
      <4>2. CASE /\ job[j].owner \in Owner
                 /\ agent' = [agent EXCEPT ![job[j].owner] = Notify(agent[job[j].owner])]
        <5> DEFINE o == job[j].owner
        <5>1. agent[o] \in Agents
          BY <1>t, <4>2
        <5>2. agent' \in [Owner -> Agents] /\ agent'[o] = Notify(agent[o])
          BY <1>t, <4>2, <5>1, NotifyIs
        <5>3. \A p \in Owner \ {o} : agent'[p] = agent[p]
          BY <1>t, <4>2
        <5> HIDE DEF o
        <5>4. o = job[j].owner
          BY DEF o
        <5> QED
          BY <5>1, <5>2, <5>3, <5>4, NotifyIs
      <4> QED
        BY <3>2, <4>1, <4>2
    <3>5. Typed'
      BY <1>i, <3>1, <3>3, <3>4 DEF Typed
    <3>6. CleansOnce'
      BY <1>i, <3>4 DEF CleansOnce
    <3>7. Owed'
      BY <1>i, <2>2, <3>1, <3>4 DEF Owed, Live
    <3>8. Recorded' /\ ReportedLive'
      <4>1. svc # "down"
        BY <1>i, <2>2 DEF Recorded, Live
      <4>2. \A k \in Job : job'[k].work = "on" => job'[k].st \in {"running", "stopping"}
                                                   \/ job'[k].forced
        BY <1>i, <3>1 DEF Recorded, Live
      <4>3. Recorded'
        BY <3>1, <4>1, <4>2 DEF Recorded, Live
      <4>4. ReportedLive'
        BY <1>i, <3>1 DEF ReportedLive, Live
      <4> QED
        BY <4>3, <4>4
    <3>9. Limited'
      BY <1>i, <3>1, LimitKept DEF Live
    <3>10. Counted'
      BY <1>i, <3>3 DEF Counted
    <3>11. SilenceIsExplained'
      <4> SUFFICES ASSUME NEW k \in Job, Terminal(k)', job'[k].owner # NoOwner, ~job'[k].known
                   PROVE  \E w \in Wait : wait'[w].job = k /\ wait'[w].pc \in {"resolved", "reading"}
        BY DEF SilenceIsExplained
      <4>1. CASE k # j
        <5>1. job'[k] = job[k]
          BY <3>1, <4>1
        <5>2. Terminal(k) /\ job[k].owner # NoOwner /\ ~job[k].known
          BY <5>1 DEF Terminal
        <5>3. PICK w \in Wait : wait[w].job = k /\ wait[w].pc \in {"resolved", "reading"}
          BY <1>i, <5>2 DEF SilenceIsExplained
        <5> QED
          BY <3>3, <5>3
      <4>2. CASE k = j
        <5>1. Expected(j) /\ ~job[j].known
          BY <3>1, <4>2
        <5>2. ~job[j].reported
          BY <1>i, <2>2, <5>1 DEF ReportedLive
        <5>3. PICK w \in Wait : wait[w].job = j /\ wait[w].counted
          BY <5>1, <5>2 DEF Expected
        <5>4. wait[w].pc \in {"waiting", "resolved"}
          BY <1>i, <5>3 DEF Counted
        <5> QED
          BY <3>3, <4>2, <5>3, <5>4
      <4> QED
        BY <4>1, <4>2
    <3>12. Attentive'
      <4>1. \A p \in Owner : Append(agent[p].turnQ, "note") # <<>>
        <5>1. \A q \in Queues : Append(q, "note") # <<>>
          BY DEF Queues
        <5> QED
          BY <1>t, <5>1 DEF Agents
      <4>2. \A p \in Owner : agent[p].latch => agent[p].act # "idle"
        BY <1>i DEF Attentive
      <4> QED
        BY <1>i, <3>4, <4>1, <4>2 DEF Attentive
    <3>13. Prompted'
      BY <1>i, <2>2, <3>1, <3>4 DEF Prompted, Live
    <3>14. Budgeted'
      <4>1. ASSUME NEW p \in Owner
            PROVE  /\ agent'[p].prompts = agent[p].prompts
                   /\ agent'[p].chain + Notes(agent'[p].turnQ) + agent[p].spent
                        <= agent[p].chain + Notes(agent[p].turnQ) + agent'[p].spent
        <5>1. /\ Notes(agent[p].turnQ) \in Nat /\ agent[p].chain \in Nat
              /\ agent[p].spent \in Nat /\ agent[p].turnQ \in Queues
          BY <1>i, BudgetOf
        <5>2. Notes(Append(agent[p].turnQ, "note")) = Notes(agent[p].turnQ) + 1
          BY <5>1, NotesAppend
        <5>3. /\ agent'[p].prompts = agent[p].prompts /\ agent'[p].chain = agent[p].chain
              /\ \/ /\ agent'[p].spent = agent[p].spent + 1
                    /\ agent'[p].turnQ = Append(agent[p].turnQ, "note")
                 \/ /\ agent'[p].spent = agent[p].spent
                    /\ agent'[p].turnQ = agent[p].turnQ
          BY <3>4
        <5>4. CASE agent'[p].turnQ = agent[p].turnQ /\ agent'[p].spent = agent[p].spent
          BY <5>1, <5>3, <5>4
        <5>5. CASE /\ agent'[p].turnQ = Append(agent[p].turnQ, "note")
                   /\ agent'[p].spent = agent[p].spent + 1
          <6>1. Notes(agent'[p].turnQ) = Notes(agent[p].turnQ) + 1
            BY <5>2, <5>5
          <6> QED
            BY <5>1, <5>3, <5>5, <6>1
        <5> QED
          BY <5>3, <5>4, <5>5
      <4>2. Owing' = Owing
        BY <3>1 DEF Owing
      <4> QED
        BY <1>i, <3>1, <3>4, <4>1, <4>2, BudgetKept
    <3> QED
      BY <3>5, <3>6, <3>7, <3>8, <3>9, <3>10, <3>11, <3>12, <3>13, <3>14 DEF IInv
  <2> QED
    BY <2>1, <2>2
<1>5. ASSUME NEW j \in Job, Kill(j) PROVE IInv'
  <2>u. /\ UNCHANGED <<wait, agent, svc, mounted, input, remounts>> /\ Live(j)
    BY <1>5, <1>i DEF Kill
  <2>1. /\ CleansOnce' /\ Counted' /\ Attentive' /\ Budgeted'
    BY <1>i, <2>u DEF Attentive, Budgeted, CleansOnce, Counted, Owing
  <2>2. Typed'
    BY <1>5, <1>i, <1>t, <2>u, KillRecord DEF Typed, JobsAssumption
  <2>3. Owed'
    BY <1>i, <1>t, <1>5, <2>u, KillRecord DEF Owed, Live
  <2>4. Recorded'
    BY <1>5, <1>i, <1>t, <2>u, KillRecord DEF Recorded, Live
  <2>5. Limited'
    BY <1>5, <1>i, <1>t, <2>u, KillRecord, LimitKept DEF Live
  <2>6. ReportedLive'
    BY <1>5, <1>i, <1>t, <2>u, KillRecord DEF ReportedLive, Live
  <2>7. SilenceIsExplained'
    BY <1>5, <1>i, <1>t, <2>u, KillRecord DEF SilenceIsExplained, Terminal
  <2>8. Prompted'
    BY <1>i, <1>t, <1>5, <2>u, KillRecord DEF Prompted, Live
  <2> QED
    BY <2>1, <2>2, <2>3, <2>4, <2>5, <2>6, <2>7, <2>8 DEF IInv
<1>6. ASSUME NEW j \in Job, Read(j) PROVE IInv'
  <2>u. /\ UNCHANGED <<wait, agent, svc, mounted, input, remounts>> /\ Terminal(j)
    BY <1>6, <1>i DEF Read
  <2>1. /\ CleansOnce' /\ Counted' /\ Attentive' /\ Budgeted'
    BY <1>i, <2>u DEF Attentive, Budgeted, CleansOnce, Counted, Owing
  <2>2. Typed'
    BY <1>6, <1>i, <1>t, <2>u, ReadRecord DEF Typed, JobsAssumption
  <2>3. Owed'
    BY <1>6, <1>i, <1>t, <2>u, ReadRecord DEF Owed
  <2>4. Recorded'
    BY <1>6, <1>i, <1>t, <2>u, ReadRecord DEF Recorded, Live
  <2>5. Limited'
    BY <1>6, <1>i, <1>t, <2>u, ReadRecord, LimitKept DEF Live
  <2>6. ReportedLive'
    BY <1>6, <1>i, <1>t, <2>u, ReadRecord DEF ReportedLive, Live
  <2>7. SilenceIsExplained'
    BY <1>6, <1>i, <1>t, <2>u, ReadRecord DEF SilenceIsExplained, Terminal
  <2>8. Prompted'
    BY <1>6, <1>i, <1>t, <2>u, ReadRecord DEF Prompted
  <2> QED
    BY <2>1, <2>2, <2>3, <2>4, <2>5, <2>6, <2>7, <2>8 DEF IInv
<1>7. ASSUME NEW w \in Wait, NEW j \in Job, NEW o \in Owner, BeginWait(w, j, o) PROVE IInv'
  <2>u. /\ UNCHANGED <<job, svc, mounted, input, remounts>> /\ Live(j)
        /\ agent[o].act = "step"
    BY <1>7, <1>i DEF BeginWait
  <2>1. /\ Recorded' /\ Limited' /\ ReportedLive'
    BY <1>i, <2>u DEF Limited, Recorded, ReportedLive, Actives, Live
  <2>2. Typed'
    BY <1>7, <1>i, <1>t, <2>u, BeginWaitCall, BeginWaitOwner DEF Typed, JobsAssumption
  <2>3. CleansOnce'
    BY <1>7, <1>i, <1>t, <2>u, BeginWaitCall, BeginWaitOwner DEF CleansOnce
  <2>4. Owed'
    BY <1>7, <1>i, <1>t, <2>u, BeginWaitCall, BeginWaitOwner DEF Owed
  <2>5. Counted'
    BY <1>7, <1>i, <1>t, <2>u, BeginWaitCall, BeginWaitOwner DEF Counted
  <2>6. SilenceIsExplained'
    BY <1>7, <1>i, <1>t, <2>u, BeginWaitCall, BeginWaitOwner DEF SilenceIsExplained, Terminal
  <2>7. Attentive'
    BY <1>7, <1>i, <1>t, <2>u, BeginWaitCall, BeginWaitOwner DEF Attentive
  <2>8. Prompted'
    BY <1>7, <1>i, <1>t, <2>u, BeginWaitCall, BeginWaitOwner DEF Prompted
  <2>9. Budgeted'
    BY <1>7, <1>i, <1>t, <2>u, BeginWaitCall, BeginWaitOwner DEF Budgeted, Owing
  <2> QED
    BY <2>1, <2>2, <2>3, <2>4, <2>5, <2>6, <2>7, <2>8, <2>9 DEF IInv
<1>8. ASSUME NEW w \in Wait, TimerFires(w) PROVE IInv'
  <2>u. /\ UNCHANGED <<job, agent, svc, mounted, input, remounts>>
        /\ wait[w].pc = "waiting"
    BY <1>8, <1>i DEF TimerFires
  <2>1. /\ CleansOnce' /\ Owed' /\ Recorded' /\ Limited' /\ ReportedLive' /\ Attentive'
        /\ Prompted' /\ Budgeted'
    BY <1>i, <2>u DEF Attentive, Budgeted, CleansOnce, Limited, Owed, Prompted, Recorded,
       ReportedLive, Actives, Live, Owing
  <2>2. Typed'
    BY <1>8, <1>i, <1>t, <2>u, TimerFiresCall DEF Typed, JobsAssumption
  <2>3. Counted'
    BY <1>8, <1>i, <1>t, <2>u, TimerFiresCall DEF Counted
  <2>4. SilenceIsExplained'
    BY <1>8, <1>i, <1>t, <2>u, TimerFiresCall DEF SilenceIsExplained, Terminal
  <2> QED
    BY <2>1, <2>2, <2>3, <2>4 DEF IInv
<1>9. ASSUME NEW w \in Wait, AbortWait(w) PROVE IInv'
  <2>u. /\ UNCHANGED <<job, agent, svc, mounted, input, remounts>>
        /\ wait[w].pc = "waiting"
    BY <1>9, <1>i DEF AbortWait
  <2>1. /\ CleansOnce' /\ Owed' /\ Recorded' /\ Limited' /\ ReportedLive' /\ Attentive'
        /\ Prompted' /\ Budgeted'
    BY <1>i, <2>u DEF Attentive, Budgeted, CleansOnce, Limited, Owed, Prompted, Recorded,
       ReportedLive, Actives, Live, Owing
  <2>2. Typed'
    BY <1>9, <1>i, <1>t, <2>u, AbortWaitCall DEF Typed, JobsAssumption
  <2>3. Counted'
    BY <1>9, <1>i, <1>t, <2>u, AbortWaitCall DEF Counted
  <2>4. SilenceIsExplained'
    BY <1>9, <1>i, <1>t, <2>u, AbortWaitCall DEF SilenceIsExplained, Terminal
  <2> QED
    BY <2>1, <2>2, <2>3, <2>4 DEF IInv
<1>10. ASSUME NEW w \in Wait, WaitReturns(w) PROVE IInv'
  <2>u. /\ UNCHANGED <<agent, svc, mounted, input, remounts>> /\ wait[w].job \in Job
    BY <1>10, <1>i DEF WaitReturns, Counted
  <2>1. /\ CleansOnce' /\ Attentive' /\ Budgeted'
    BY <1>i, <2>u DEF Attentive, Budgeted, CleansOnce, Owing
  <2>2. Typed'
    BY <1>10, <1>i, <1>t, <2>u, WaitReturnsIs DEF Typed, JobsAssumption
  <2>3. Owed'
    BY <1>10, <1>i, <1>t, <2>u, WaitReturnsIs DEF Owed
  <2>4. Recorded'
    BY <1>10, <1>i, <1>t, <2>u, WaitReturnsIs DEF Recorded, Live
  <2>5. Limited'
    BY <1>10, <1>i, <1>t, <2>u, WaitReturnsIs, LimitKept DEF Live
  <2>6. Counted'
    BY <1>10, <1>i, <1>t, <2>u, WaitReturnsIs DEF Counted
  <2>7. ReportedLive'
    BY <1>10, <1>i, <1>t, <2>u, WaitReturnsIs DEF ReportedLive, Live, Terminal
  <2>8. SilenceIsExplained'
    BY <1>10, <1>i, <1>t, <2>u, WaitReturnsIs DEF SilenceIsExplained, Terminal
  <2>9. Prompted'
    BY <1>10, <1>i, <1>t, <2>u, WaitReturnsIs DEF Prompted
  <2> QED
    BY <2>1, <2>2, <2>3, <2>4, <2>5, <2>6, <2>7, <2>8, <2>9 DEF IInv
<1>11. ASSUME NEW w \in Wait, ReadAfterWait(w) PROVE IInv'
  <2>u. /\ UNCHANGED <<agent, svc, mounted, input, remounts>> /\ wait[w].job \in Job
    BY <1>11, <1>i DEF ReadAfterWait, Counted
  <2>1. /\ CleansOnce' /\ Attentive' /\ Budgeted'
    BY <1>i, <2>u DEF Attentive, Budgeted, CleansOnce, Owing
  <2>2. Typed'
    BY <1>11, <1>i, <1>t, <2>u, ReadAfterWaitIs DEF Typed, JobsAssumption
  <2>3. Owed'
    BY <1>11, <1>i, <1>t, <2>u, ReadAfterWaitIs DEF Owed
  <2>4. Recorded'
    BY <1>11, <1>i, <1>t, <2>u, ReadAfterWaitIs DEF Recorded, Live
  <2>5. Limited'
    BY <1>11, <1>i, <1>t, <2>u, ReadAfterWaitIs, LimitKept DEF Live
  <2>6. Counted'
    BY <1>11, <1>i, <1>t, <2>u, ReadAfterWaitIs DEF Counted
  <2>7. ReportedLive'
    BY <1>11, <1>i, <1>t, <2>u, ReadAfterWaitIs DEF ReportedLive, Live, Terminal
  <2>8. SilenceIsExplained'
    BY <1>11, <1>i, <1>t, <2>u, ReadAfterWaitIs DEF SilenceIsExplained, Terminal
  <2>9. Prompted'
    BY <1>11, <1>i, <1>t, <2>u, ReadAfterWaitIs DEF Prompted
  <2> QED
    BY <2>1, <2>2, <2>3, <2>4, <2>5, <2>6, <2>7, <2>8, <2>9 DEF IInv
<1>12. ASSUME NEW o \in Owner, Send(o) PROVE IInv'
  <2>u. /\ UNCHANGED <<job, wait, svc, mounted, remounts>> /\ agent[o].reg = "live"
        /\ input' \in 0 .. MaxInput
    BY <1>12, <1>i DEF Send, Typed, JobsAssumption
  <2>1. /\ Recorded' /\ Limited' /\ Counted' /\ ReportedLive' /\ SilenceIsExplained'
    BY <1>i, <2>u DEF Counted, Limited, Recorded, ReportedLive, SilenceIsExplained, Actives,
       Live, Terminal
  <2>2. Typed'
    BY <1>12, <1>i, <1>t, <2>u, SendOwner DEF Typed, JobsAssumption
  <2>3. CleansOnce'
    BY <1>12, <1>i, <1>t, <2>u, SendOwner DEF CleansOnce
  <2>4. Owed'
    BY <1>12, <1>i, <1>t, <2>u, SendOwner DEF Owed
  <2>5. Attentive'
    BY <1>12, <1>i, <1>t, <2>u, SendOwner DEF Attentive
  <2>6. Prompted'
    <3>1. ASSUME NEW p \in Owner, agent'[p].prompts = 0
          PROVE  \A i \in 1 .. Len(agent'[p].turnQ) : agent'[p].turnQ[i] = "user"
      <4>1. /\ agent[p].prompts = 0
            /\ agent'[p].turnQ \in {agent[p].turnQ, Append(agent[p].turnQ, "user")}
        BY <1>12, <1>t, <3>1, SendOwner
      <4>2. /\ agent[p].turnQ \in Seq({"user", "note"})
            /\ \A i \in 1 .. Len(agent[p].turnQ) : agent[p].turnQ[i] = "user"
        BY <1>i, <1>t, <4>1 DEF Prompted, Agents, Queues
      <4>3. CASE agent'[p].turnQ = agent[p].turnQ
        BY <4>2, <4>3
      <4>4. CASE agent'[p].turnQ = Append(agent[p].turnQ, "user")
        <5> DEFINE q == agent[p].turnQ
        <5>1. /\ Len(q) \in Nat /\ Len(Append(q, "user")) = Len(q) + 1
              /\ \A i \in 1 .. Len(q) : Append(q, "user")[i] = q[i]
              /\ Append(q, "user")[Len(q) + 1] = "user"
          BY <4>2
        <5> HIDE DEF q
        <5>2. \A i \in 1 .. Len(Append(q, "user")) : Append(q, "user")[i] = "user"
          BY <4>2, <5>1 DEF q
        <5> QED
          BY <4>4, <5>2 DEF q
      <4> QED
        BY <4>1, <4>3, <4>4
    <3>2. ASSUME NEW p \in Owner, agent'[p].prompts = 0
          PROVE  /\ agent'[p].spent = 0 /\ agent'[p].chain = 0
                 /\ agent'[p].act \notin {"step", "aborting"}
      BY <1>12, <1>i, <1>t, <3>2, SendOwner DEF Prompted
    <3>3. \A p \in Owner : agent'[p].prompts = agent[p].prompts
      BY <1>12, <1>t, SendOwner
    <3> QED
      BY <1>i, <2>u, <3>1, <3>2, <3>3 DEF Prompted
  <2>7. Budgeted'
    <3>1. ASSUME NEW p \in Owner
          PROVE  /\ agent'[p].prompts = agent[p].prompts
                 /\ agent'[p].chain + Notes(agent'[p].turnQ) + agent[p].spent
                      <= agent[p].chain + Notes(agent[p].turnQ) + agent'[p].spent
      <4>1. /\ Notes(agent[p].turnQ) \in Nat /\ agent[p].chain \in Nat
            /\ agent[p].spent \in Nat /\ agent[p].turnQ \in Queues
        BY <1>i, BudgetOf
      <4>2. /\ agent'[p].prompts = agent[p].prompts /\ agent'[p].chain = agent[p].chain
            /\ agent'[p].spent = agent[p].spent
            /\ agent'[p].turnQ \in {agent[p].turnQ, Append(agent[p].turnQ, "user")}
        BY <1>12, <1>t, SendOwner
      <4>3. /\ Notes(Append(agent[p].turnQ, "user")) \in Nat
            /\ Notes(Append(agent[p].turnQ, "user")) <= Notes(agent[p].turnQ)
        BY <4>1, NotesAppend
      <4>4. Notes(agent'[p].turnQ) \in Nat /\ Notes(agent'[p].turnQ) <= Notes(agent[p].turnQ)
        <5>1. CASE agent'[p].turnQ = agent[p].turnQ
          BY <4>1, <5>1
        <5>2. CASE agent'[p].turnQ = Append(agent[p].turnQ, "user")
          BY <4>3, <5>2
        <5> QED
          BY <4>2, <5>1, <5>2
      <4> QED
        BY <4>1, <4>2, <4>4
    <3>2. Owing' = Owing
      BY <2>u DEF Owing
    <3> QED
      BY <1>12, <1>i, <1>t, <2>u, <3>1, <3>2, SendOwner, BudgetKept
  <2> QED
    BY <2>1, <2>2, <2>3, <2>4, <2>5, <2>6, <2>7 DEF IInv
<1>13. ASSUME NEW o \in Owner, OpenTurn(o) PROVE IInv'
  <2>u. /\ UNCHANGED <<job, wait, svc, mounted, input, remounts>>
        /\ agent[o].act = "open" /\ agent[o].turnQ # <<>>
    BY <1>13, <1>i DEF OpenTurn, Attentive
  <2>1. /\ Recorded' /\ Limited' /\ Counted' /\ ReportedLive' /\ SilenceIsExplained'
    BY <1>i, <2>u DEF Counted, Limited, Recorded, ReportedLive, SilenceIsExplained, Actives,
       Live, Terminal
  <2>2. Typed'
    BY <1>13, <1>i, <1>t, <2>u, OpenTurnOwner DEF Typed, JobsAssumption
  <2>3. CleansOnce'
    BY <1>13, <1>i, <1>t, <2>u, OpenTurnOwner DEF CleansOnce
  <2>4. Owed'
    BY <1>13, <1>i, <1>t, <2>u, OpenTurnOwner DEF Owed
  <2>5. Attentive'
    BY <1>13, <1>i, <1>t, <2>u, OpenTurnOwner DEF Attentive
  <2>6. Prompted'
    <3>1. agent[o].turnQ \in Seq({"user", "note"}) /\ agent[o].prompts \in Nat
      BY <1>t DEF Agents, Queues
    <3>2. 1 \in 1 .. Len(agent[o].turnQ) /\ Head(agent[o].turnQ) = agent[o].turnQ[1]
      BY <2>u, <3>1
    <3>3. agent[o].prompts = 0 => Head(agent[o].turnQ) = "user"
      BY <1>i, <3>2 DEF Prompted
    <3>4. agent'[o].prompts # 0
      BY <1>13, <1>t, <2>u, <3>1, <3>3, OpenTurnOwner
    <3>5. \A p \in Owner \ {o} : agent'[p] = agent[p]
      BY <1>13, <1>t, <2>u, OpenTurnOwner
    <3> QED
      BY <1>i, <2>u, <3>4, <3>5 DEF Prompted
  <2>7. Budgeted'
    <3>1. agent[o].turnQ \in Seq({"user", "note"}) /\ agent[o].prompts \in Nat
      BY <1>t DEF Agents, Queues
    <3>2. 1 \in 1 .. Len(agent[o].turnQ) /\ Head(agent[o].turnQ) = agent[o].turnQ[1]
      BY <2>u, <3>1
    <3>3. agent[o].prompts = 0 => Head(agent[o].turnQ) = "user"
      BY <1>i, <3>2 DEF Prompted
    <3>5. /\ \A p \in Owner \ {o} : agent'[p] = agent[p]
          /\ agent'[o].turnQ = Tail(agent[o].turnQ)
          /\ agent'[o].spent = IF Head(agent[o].turnQ) = "user" /\ mounted THEN 0
                                ELSE agent[o].spent
          /\ agent'[o].prompts = IF Head(agent[o].turnQ) = "user" THEN agent[o].prompts + 1
                                  ELSE agent[o].prompts
          /\ agent'[o].chain = IF Head(agent[o].turnQ) = "user" THEN agent[o].chain
                                ELSE agent[o].chain + 1
      BY <1>13, <1>t, <2>u, OpenTurnOwner
    <3>6. Owing' = Owing /\ Owing' <= remounts'
      BY <1>i, <2>u DEF Owing, Budgeted
    <3>7. agent'[o].chain + Notes(agent'[o].turnQ) + MaxWakes
             <= Grant(agent'[o].prompts + remounts' - Owing') + agent'[o].spent
      <4> DEFINE n == agent[o].prompts + remounts - Owing
                 t == Notes(agent[o].turnQ)
                 u == Notes(agent'[o].turnQ)
      <4>1. /\ agent[o].chain \in Nat /\ agent[o].spent \in Nat /\ agent[o].spent <= MaxWakes
            /\ t \in Nat /\ n \in Nat /\ MaxWakes \in Nat /\ Grant(n) \in Nat
            /\ agent[o].turnQ \in Queues /\ agent[o].prompts \in Nat /\ remounts \in Nat
            /\ Owing \in {0, 1}
            /\ agent[o].prompts # 0 => agent[o].chain + t + MaxWakes <= Grant(n) + agent[o].spent
        BY <1>i, BudgetOf
      <4>2. t = IF Head(agent[o].turnQ) = "user" THEN u ELSE u + 1
        BY <2>u, <3>5, <4>1, NotesTail
      <4>3. u \in Nat
        <5>1. agent'[o].turnQ \in Queues
          BY <2>u, <3>1, <3>5 DEF Queues
        <5> QED
          BY <5>1, NotesType
      <4>4. CASE Head(agent[o].turnQ) # "user"
        <5>1. agent[o].prompts # 0 /\ agent'[o].prompts + remounts' - Owing' = n
          BY <2>u, <3>3, <3>5, <3>6, <4>4
        <5> HIDE DEF n, t, u
        <5>2. agent'[o].chain + u + MaxWakes <= Grant(n) + agent'[o].spent
          BY <3>5, <4>1, <4>2, <4>3, <4>4, <5>1
        <5> QED
          BY <5>1, <5>2 DEF u
      <4>5. CASE Head(agent[o].turnQ) = "user"
        <5>1. agent'[o].prompts + remounts' - Owing' = n + 1
          BY <2>u, <3>5, <3>6, <4>1, <4>5
        <5>2. Grant(n + 1) = Grant(n) + MaxWakes
          BY <4>1, GrantNext
        <5>3. agent[o].prompts = 0 => agent[o].chain = 0 /\ t = 0 /\ agent[o].spent = 0
          <6> SUFFICES ASSUME agent[o].prompts = 0
                       PROVE  agent[o].chain = 0 /\ t = 0 /\ agent[o].spent = 0
            OBVIOUS
          <6>1. {i \in 1 .. Len(agent[o].turnQ) : agent[o].turnQ[i] = "note"} = {}
            BY <1>i DEF Prompted
          <6> QED
            BY <1>i, <6>1, FS_EmptySet DEF Prompted, Notes
        <5> HIDE DEF n, t, u
        <5>4. agent'[o].chain + u + MaxWakes <= Grant(n) + MaxWakes + agent'[o].spent
          BY <3>5, <4>1, <4>2, <4>3, <4>5, <5>3
        <5> QED
          BY <5>1, <5>2, <5>4 DEF u
      <4> QED
        BY <4>4, <4>5
    <3>8. ASSUME NEW p \in Owner \ {o}, agent'[p].prompts # 0
          PROVE  agent'[p].chain + Notes(agent'[p].turnQ) + MaxWakes
                   <= Grant(agent'[p].prompts + remounts' - Owing') + agent'[p].spent
      BY <1>i, <2>u, <3>5, <3>6, <3>8 DEF Budgeted
    <3> QED
      BY <3>6, <3>7, <3>8 DEF Budgeted
  <2> QED
    BY <2>1, <2>2, <2>3, <2>4, <2>5, <2>6, <2>7 DEF IInv
<1>14. ASSUME NEW o \in Owner, StepEnds(o) PROVE IInv'
  <2>u. /\ UNCHANGED <<job, wait, svc, mounted, input, remounts>>
        /\ agent[o].act = "step"
    BY <1>14, <1>i DEF StepEnds
  <2>1. /\ Recorded' /\ Limited' /\ Counted' /\ ReportedLive' /\ SilenceIsExplained'
    BY <1>i, <2>u DEF Counted, Limited, Recorded, ReportedLive, SilenceIsExplained, Actives,
       Live, Terminal
  <2>2. Typed'
    BY <1>14, <1>i, <1>t, <2>u, StepEndsOwner DEF Typed, JobsAssumption
  <2>3. CleansOnce'
    BY <1>14, <1>i, <1>t, <2>u, StepEndsOwner DEF CleansOnce
  <2>4. Owed'
    BY <1>14, <1>i, <1>t, <2>u, StepEndsOwner DEF Owed
  <2>5. Attentive'
    BY <1>14, <1>i, <1>t, <2>u, StepEndsOwner DEF Attentive
  <2>6. Prompted'
    BY <1>14, <1>i, <1>t, <2>u, StepEndsOwner DEF Prompted
  <2>7. Budgeted'
    BY <1>14, <1>i, <1>t, <2>u, StepEndsOwner DEF Budgeted, Owing
  <2> QED
    BY <2>1, <2>2, <2>3, <2>4, <2>5, <2>6, <2>7 DEF IInv
<1>15. ASSUME NEW o \in Owner, TurnFails(o) PROVE IInv'
  <2>u. /\ UNCHANGED <<job, wait, svc, mounted, input, remounts>>
        /\ agent[o].act \in {"open", "step"}
    BY <1>15, <1>i DEF TurnFails
  <2>1. /\ Recorded' /\ Limited' /\ Counted' /\ ReportedLive' /\ SilenceIsExplained'
    BY <1>i, <2>u DEF Counted, Limited, Recorded, ReportedLive, SilenceIsExplained, Actives,
       Live, Terminal
  <2>2. Typed'
    BY <1>15, <1>i, <1>t, <2>u, TurnFailsOwner DEF Typed, JobsAssumption
  <2>3. CleansOnce'
    BY <1>15, <1>i, <1>t, <2>u, TurnFailsOwner DEF CleansOnce
  <2>4. Owed'
    BY <1>15, <1>i, <1>t, <2>u, TurnFailsOwner DEF Owed
  <2>5. Attentive'
    BY <1>15, <1>i, <1>t, <2>u, TurnFailsOwner DEF Attentive
  <2>6. Prompted'
    BY <1>15, <1>i, <1>t, <2>u, TurnFailsOwner DEF Prompted
  <2>7. Budgeted'
    BY <1>15, <1>i, <1>t, <2>u, TurnFailsOwner DEF Budgeted, Owing
  <2> QED
    BY <2>1, <2>2, <2>3, <2>4, <2>5, <2>6, <2>7 DEF IInv
<1>16. ASSUME NEW o \in Owner, Retire(o) PROVE IInv'
  <2>u. /\ UNCHANGED <<job, wait, svc, mounted, input, remounts>>
        /\ agent[o].act = "retiring"
    BY <1>16, <1>i DEF Retire
  <2>1. /\ Recorded' /\ Limited' /\ Counted' /\ ReportedLive' /\ SilenceIsExplained'
    BY <1>i, <2>u DEF Counted, Limited, Recorded, ReportedLive, SilenceIsExplained, Actives,
       Live, Terminal
  <2>2. Typed'
    BY <1>16, <1>i, <1>t, <2>u, RetireOwner DEF Typed, JobsAssumption
  <2>3. CleansOnce'
    BY <1>16, <1>i, <1>t, <2>u, RetireOwner DEF CleansOnce
  <2>4. Owed'
    BY <1>16, <1>i, <1>t, <2>u, RetireOwner DEF Owed
  <2>5. Attentive'
    BY <1>16, <1>i, <1>t, <2>u, RetireOwner DEF Attentive
  <2>6. Prompted'
    BY <1>16, <1>i, <1>t, <2>u, RetireOwner DEF Prompted
  <2>7. Budgeted'
    BY <1>16, <1>i, <1>t, <2>u, RetireOwner DEF Budgeted, Owing
  <2> QED
    BY <2>1, <2>2, <2>3, <2>4, <2>5, <2>6, <2>7 DEF IInv
<1>17. ASSUME NEW o \in Owner, AbortSettles(o) PROVE IInv'
  <2>u. /\ UNCHANGED <<job, wait, svc, mounted, input, remounts>>
        /\ agent[o].act \in {"aborting", "aborted"}
    BY <1>17, <1>i DEF AbortSettles
  <2>1. /\ Recorded' /\ Limited' /\ Counted' /\ ReportedLive' /\ SilenceIsExplained'
    BY <1>i, <2>u DEF Counted, Limited, Recorded, ReportedLive, SilenceIsExplained, Actives,
       Live, Terminal
  <2>2. Typed'
    BY <1>17, <1>i, <1>t, <2>u, AbortSettlesOwner DEF Typed, JobsAssumption
  <2>3. CleansOnce'
    BY <1>17, <1>i, <1>t, <2>u, AbortSettlesOwner DEF CleansOnce
  <2>4. Owed'
    BY <1>17, <1>i, <1>t, <2>u, AbortSettlesOwner DEF Owed
  <2>5. Attentive'
    BY <1>17, <1>i, <1>t, <2>u, AbortSettlesOwner DEF Attentive
  <2>6. Prompted'
    BY <1>17, <1>i, <1>t, <2>u, AbortSettlesOwner DEF Prompted
  <2>7. Budgeted'
    BY <1>17, <1>i, <1>t, <2>u, AbortSettlesOwner DEF Budgeted, Owing
  <2> QED
    BY <2>1, <2>2, <2>3, <2>4, <2>5, <2>6, <2>7 DEF IInv
<1>18. ASSUME NEW o \in Owner, NEW keep \in BOOLEAN, Cancel(o, keep) PROVE IInv'
  <2>u. /\ UNCHANGED <<job, svc, mounted, input, remounts>> /\ AbortCalls(o)
    BY <1>18, <1>i DEF Cancel
  <2>1. /\ Recorded' /\ Limited' /\ ReportedLive'
    BY <1>i, <2>u DEF Limited, Recorded, ReportedLive, Actives, Live
  <2>2. Typed'
    BY <1>18, <1>i, <1>t, <2>u, CancelOwner, AbortCallsIs DEF Typed, JobsAssumption
  <2>3. CleansOnce'
    BY <1>18, <1>i, <1>t, <2>u, CancelOwner, AbortCallsIs DEF CleansOnce
  <2>4. Owed'
    BY <1>18, <1>i, <1>t, <2>u, CancelOwner, AbortCallsIs DEF Owed
  <2>5. Counted'
    BY <1>18, <1>i, <1>t, <2>u, CancelOwner, AbortCallsIs DEF Counted
  <2>6. SilenceIsExplained'
    BY <1>18, <1>i, <1>t, <2>u, CancelOwner, AbortCallsIs DEF SilenceIsExplained, Terminal
  <2>7. Attentive'
    BY <1>18, <1>i, <1>t, <2>u, CancelOwner, AbortCallsIs DEF Attentive
  <2>8. Prompted'
    BY <1>18, <1>i, <1>t, <2>u, CancelOwner, AbortCallsIs DEF Prompted
  <2>9. Budgeted'
    <3>1. ASSUME NEW p \in Owner
          PROVE  /\ agent'[p].prompts = agent[p].prompts
                 /\ agent'[p].chain + Notes(agent'[p].turnQ) + agent[p].spent
                      <= agent[p].chain + Notes(agent[p].turnQ) + agent'[p].spent
      <4>1. /\ Notes(agent[p].turnQ) \in Nat /\ agent[p].chain \in Nat
            /\ agent[p].spent \in Nat /\ agent[p].turnQ \in Queues
        BY <1>i, BudgetOf
      <4>2. /\ agent'[p].prompts = agent[p].prompts /\ agent'[p].chain = agent[p].chain
            /\ agent'[p].spent = agent[p].spent
            /\ agent'[p].turnQ \in {agent[p].turnQ, <<>>}
        BY <1>18, <1>t, CancelOwner
      <4>3. Notes(<<>>) \in Nat /\ Notes(<<>>) <= Notes(agent[p].turnQ)
        BY <4>1, NoNotes
      <4>4. Notes(agent'[p].turnQ) \in Nat /\ Notes(agent'[p].turnQ) <= Notes(agent[p].turnQ)
        <5>1. CASE agent'[p].turnQ = agent[p].turnQ
          BY <4>1, <5>1
        <5>2. CASE agent'[p].turnQ = <<>>
          BY <4>3, <5>2
        <5> QED
          BY <4>2, <5>1, <5>2
      <4> QED
        BY <4>1, <4>2, <4>4
    <3>2. Owing' = Owing
      BY <2>u DEF Owing
    <3> QED
      BY <1>18, <1>i, <1>t, <2>u, <3>1, <3>2, CancelOwner, BudgetKept
  <2> QED
    BY <2>1, <2>2, <2>3, <2>4, <2>5, <2>6, <2>7, <2>8, <2>9 DEF IInv
<1>19. ASSUME NEW o \in Owner, Dispose(o) PROVE IInv'
  <2>u. /\ UNCHANGED <<job, svc, mounted, input, remounts>> /\ AbortCalls(o)
        /\ agent[o].reg = "live"
    BY <1>19, <1>i DEF Dispose
  <2>1. /\ Recorded' /\ Limited' /\ ReportedLive'
    BY <1>i, <2>u DEF Limited, Recorded, ReportedLive, Actives, Live
  <2>2. Typed'
    BY <1>19, <1>i, <1>t, <2>u, DisposeOwner, AbortCallsIs DEF Typed, JobsAssumption
  <2>3. CleansOnce'
    BY <1>19, <1>i, <1>t, <2>u, DisposeOwner, AbortCallsIs DEF CleansOnce
  <2>4. Owed'
    BY <1>19, <1>i, <1>t, <2>u, DisposeOwner, AbortCallsIs DEF Owed
  <2>5. Counted'
    BY <1>19, <1>i, <1>t, <2>u, DisposeOwner, AbortCallsIs DEF Counted
  <2>6. SilenceIsExplained'
    BY <1>19, <1>i, <1>t, <2>u, DisposeOwner, AbortCallsIs DEF SilenceIsExplained, Terminal
  <2>7. Attentive'
    BY <1>19, <1>i, <1>t, <2>u, DisposeOwner, AbortCallsIs DEF Attentive
  <2>8. Prompted'
    BY <1>19, <1>i, <1>t, <2>u, DisposeOwner, AbortCallsIs DEF Prompted
  <2>9. Budgeted'
    <3>1. ASSUME NEW p \in Owner
          PROVE  /\ agent'[p].prompts = agent[p].prompts
                 /\ agent'[p].chain + Notes(agent'[p].turnQ) + agent[p].spent
                      <= agent[p].chain + Notes(agent[p].turnQ) + agent'[p].spent
      <4>1. /\ Notes(agent[p].turnQ) \in Nat /\ agent[p].chain \in Nat
            /\ agent[p].spent \in Nat /\ agent[p].turnQ \in Queues
        BY <1>i, BudgetOf
      <4>2. /\ agent'[p].prompts = agent[p].prompts /\ agent'[p].chain = agent[p].chain
            /\ agent'[p].spent = agent[p].spent
            /\ agent'[p].turnQ \in {agent[p].turnQ, <<>>}
        BY <1>19, <1>t, DisposeOwner
      <4>3. Notes(<<>>) \in Nat /\ Notes(<<>>) <= Notes(agent[p].turnQ)
        BY <4>1, NoNotes
      <4>4. Notes(agent'[p].turnQ) \in Nat /\ Notes(agent'[p].turnQ) <= Notes(agent[p].turnQ)
        <5>1. CASE agent'[p].turnQ = agent[p].turnQ
          BY <4>1, <5>1
        <5>2. CASE agent'[p].turnQ = <<>>
          BY <4>3, <5>2
        <5> QED
          BY <4>2, <5>1, <5>2
      <4> QED
        BY <4>1, <4>2, <4>4
    <3>2. Owing' = Owing
      BY <2>u DEF Owing
    <3> QED
      BY <1>19, <1>i, <1>t, <2>u, <3>1, <3>2, DisposeOwner, BudgetKept
  <2> QED
    BY <2>1, <2>2, <2>3, <2>4, <2>5, <2>6, <2>7, <2>8, <2>9 DEF IInv
<1>20. ASSUME NEW o \in Owner, Quiesced(o) PROVE IInv'
  <2>u. /\ UNCHANGED <<job, wait, svc, mounted, input, remounts>>
        /\ agent[o].reg = "closing"
    BY <1>20, <1>i DEF Quiesced
  <2>1. /\ Recorded' /\ Limited' /\ Counted' /\ ReportedLive' /\ SilenceIsExplained'
    BY <1>i, <2>u DEF Counted, Limited, Recorded, ReportedLive, SilenceIsExplained, Actives,
       Live, Terminal
  <2>2. Typed'
    BY <1>20, <1>i, <1>t, <2>u, QuiescedOwner DEF Typed, JobsAssumption
  <2>3. CleansOnce'
    BY <1>20, <1>i, <1>t, <2>u, QuiescedOwner DEF CleansOnce
  <2>4. Owed'
    BY <1>20, <1>i, <1>t, <2>u, QuiescedOwner DEF Owed
  <2>5. Attentive'
    BY <1>20, <1>i, <1>t, <2>u, QuiescedOwner DEF Attentive
  <2>6. Prompted'
    BY <1>20, <1>i, <1>t, <2>u, QuiescedOwner DEF Prompted
  <2>7. Budgeted'
    BY <1>20, <1>i, <1>t, <2>u, QuiescedOwner DEF Budgeted, Owing
  <2> QED
    BY <2>1, <2>2, <2>3, <2>4, <2>5, <2>6, <2>7 DEF IInv
<1>21. ASSUME NEW o \in Owner, ScopeCloses(o) PROVE IInv'
  <2>u. /\ UNCHANGED <<job, wait, svc, mounted, input, remounts>>
        /\ agent[o].reg = "unwinding"
    BY <1>21, <1>i DEF ScopeCloses
  <2>1. /\ Recorded' /\ Limited' /\ Counted' /\ ReportedLive' /\ SilenceIsExplained'
    BY <1>i, <2>u DEF Counted, Limited, Recorded, ReportedLive, SilenceIsExplained, Actives,
       Live, Terminal
  <2>2. Typed'
    BY <1>21, <1>i, <1>t, <2>u, ScopeClosesOwner DEF Typed, JobsAssumption
  <2>3. CleansOnce'
    BY <1>21, <1>i, <1>t, <2>u, ScopeClosesOwner DEF CleansOnce
  <2>4. Owed'
    BY <1>21, <1>i, <1>t, <2>u, ScopeClosesOwner DEF Owed
  <2>5. Attentive'
    BY <1>21, <1>i, <1>t, <2>u, ScopeClosesOwner DEF Attentive
  <2>6. Prompted'
    BY <1>21, <1>i, <1>t, <2>u, ScopeClosesOwner DEF Prompted
  <2>7. Budgeted'
    BY <1>21, <1>i, <1>t, <2>u, ScopeClosesOwner DEF Budgeted, Owing
  <2> QED
    BY <2>1, <2>2, <2>3, <2>4, <2>5, <2>6, <2>7 DEF IInv
<1>22. ASSUME NEW o \in Owner, NEW T \in SUBSET Job, CleanupBegins(o, T) PROVE IInv'
  <2>u. /\ UNCHANGED <<svc, mounted, input, remounts>>
    BY <1>22, <1>i DEF CleanupBegins
  <2>1. Typed'
    BY <1>22, <1>i, <1>t, <2>u, CleanupBeginsOwner, CleanupBeginsRest, TornDownIs,
       ReleasedIs DEF Typed, JobsAssumption
  <2>2. CleansOnce'
    BY <1>22, <1>i, <1>t, <2>u, CleanupBeginsOwner, CleanupBeginsRest, TornDownIs,
       ReleasedIs DEF CleansOnce
  <2>3. Owed'
    <3>1. /\ job' = TornDown(OwnedBy(o), T) /\ agent[o].attached
      BY <1>22, <1>t, CleanupBeginsRest
    <3>2. \A k \in Job : job'[k].st # "none" =>
             job[k].st # "none" /\ job'[k].owner = job[k].owner
      BY <1>t, <3>1, TornDownIs DEF Live
    <3> QED
      BY <1>22, <1>i, <1>t, <3>2, CleanupBeginsOwner DEF Owed, OwnedBy
  <2>4. Recorded'
    BY <1>22, <1>i, <1>t, <2>u, CleanupBeginsOwner, CleanupBeginsRest, TornDownIs,
       ReleasedIs DEF Recorded, Live
  <2>5. Limited'
    BY <1>22, <1>i, <1>t, <2>u, CleanupBeginsOwner, CleanupBeginsRest, TornDownIs,
       ReleasedIs, LimitKept DEF Live
  <2>6. Counted'
    BY <1>22, <1>i, <1>t, <2>u, CleanupBeginsOwner, CleanupBeginsRest, TornDownIs,
       ReleasedIs DEF Counted
  <2>7. ReportedLive'
    BY <1>22, <1>i, <1>t, <2>u, CleanupBeginsOwner, CleanupBeginsRest, TornDownIs,
       ReleasedIs DEF ReportedLive, Live
  <2>8. SilenceIsExplained'
    BY <1>22, <1>i, <1>t, <2>u, CleanupBeginsOwner, CleanupBeginsRest, TornDownIs,
       ReleasedIs DEF SilenceIsExplained, Terminal
  <2>9. Attentive'
    BY <1>22, <1>i, <1>t, <2>u, CleanupBeginsOwner, CleanupBeginsRest, TornDownIs,
       ReleasedIs DEF Attentive
  <2>10. Prompted'
    <3>1. /\ job' = TornDown(OwnedBy(o), T) /\ agent[o].attached
      BY <1>22, <1>t, CleanupBeginsRest
    <3>2. \A k \in Job : job'[k].st # "none" =>
             job[k].st # "none" /\ job'[k].owner = job[k].owner
      BY <1>t, <3>1, TornDownIs DEF Live
    <3> QED
      BY <1>22, <1>i, <1>t, <3>2, CleanupBeginsOwner DEF Prompted
  <2>11. Budgeted'
    BY <1>22, <1>i, <1>t, <2>u, CleanupBeginsOwner, CleanupBeginsRest, TornDownIs,
       ReleasedIs DEF Budgeted, Owing
  <2> QED
    BY <2>1, <2>2, <2>3, <2>4, <2>5, <2>6, <2>7, <2>8, <2>9, <2>10, <2>11 DEF IInv
<1>23. ASSUME NEW o \in Owner, CleanupEnds(o) PROVE IInv'
  <2>u. /\ UNCHANGED <<wait, svc, mounted, input, remounts>>
    BY <1>23, <1>i DEF CleanupEnds
  <2>1. Counted'
    BY <1>i, <2>u DEF Counted
  <2>2. Typed'
    BY <1>23, <1>i, <1>t, <2>u, CleanupEndsOwner, CleanupEndsRest, DroppedIs DEF Typed,
       JobsAssumption
  <2>3. CleansOnce'
    BY <1>23, <1>i, <1>t, <2>u, CleanupEndsOwner, CleanupEndsRest, DroppedIs DEF CleansOnce
  <2>4. Owed'
    BY <1>23, <1>i, <1>t, <2>u, CleanupEndsOwner, CleanupEndsRest, DroppedIs DEF Owed
  <2>5. Recorded'
    <3>1. \A k \in agent[o].owned : ~Live(k)
      BY <1>23, <1>i, CleanupEndsRest DEF CleansOnce
    <3>2. /\ UNCHANGED svc /\ job' = Dropped(agent[o].owned)
      BY <1>23, CleanupEndsRest
    <3> QED
      BY <1>i, <1>t, <3>1, <3>2, DroppedIs DEF Recorded, Live
  <2>6. Limited'
    BY <1>23, <1>i, <1>t, <2>u, CleanupEndsOwner, CleanupEndsRest, DroppedIs, LimitKept DEF Live
  <2>7. ReportedLive'
    BY <1>23, <1>i, <1>t, <2>u, CleanupEndsOwner, CleanupEndsRest,
       DroppedIs DEF ReportedLive, Live
  <2>8. SilenceIsExplained'
    BY <1>23, <1>i, <1>t, <2>u, CleanupEndsOwner, CleanupEndsRest,
       DroppedIs DEF SilenceIsExplained, Terminal
  <2>9. Attentive'
    BY <1>23, <1>i, <1>t, <2>u, CleanupEndsOwner, CleanupEndsRest, DroppedIs DEF Attentive
  <2>10. Prompted'
    BY <1>23, <1>i, <1>t, <2>u, CleanupEndsOwner, CleanupEndsRest, DroppedIs DEF Prompted
  <2>11. Budgeted'
    BY <1>23, <1>i, <1>t, <2>u, CleanupEndsOwner, CleanupEndsRest, DroppedIs DEF Budgeted, Owing
  <2> QED
    BY <2>1, <2>2, <2>3, <2>4, <2>5, <2>6, <2>7, <2>8, <2>9, <2>10, <2>11 DEF IInv
<1>24. ASSUME NEW T \in SUBSET Job, DisposeAll(T) PROVE IInv'
  <2>u. /\ UNCHANGED <<agent, input, remounts>> /\ svc' = "closing" /\ mounted' = FALSE
        /\ job' = TornDown(Job, T) /\ wait' = Released(T)
    BY <1>24, <1>i DEF DisposeAll
  <2>1. /\ CleansOnce' /\ Attentive'
    BY <1>i, <2>u DEF Attentive, CleansOnce
  <2>2. Typed'
    BY <1>24, <1>i, <1>t, <2>u, TornDownIs, ReleasedIs DEF Typed, JobsAssumption
  <2>3. Owed'
    <3>1. \A k \in Job : job'[k].st # "none" =>
             job[k].st # "none" /\ job'[k].owner = job[k].owner
      BY <1>t, <2>u, TornDownIs DEF Live
    <3> QED
      BY <1>i, <2>u, <3>1 DEF Owed
  <2>4. Recorded'
    BY <1>24, <1>i, <1>t, <2>u, TornDownIs, ReleasedIs DEF Recorded, Live
  <2>5. Limited'
    BY <1>24, <1>i, <1>t, <2>u, TornDownIs, ReleasedIs, LimitKept DEF Live
  <2>6. Counted'
    BY <1>24, <1>i, <1>t, <2>u, TornDownIs, ReleasedIs DEF Counted
  <2>7. ReportedLive'
    BY <1>24, <1>i, <1>t, <2>u, TornDownIs, ReleasedIs DEF ReportedLive, Live
  <2>8. SilenceIsExplained'
    BY <1>24, <1>i, <1>t, <2>u, TornDownIs, ReleasedIs DEF SilenceIsExplained, Terminal
  <2>9. Prompted'
    <3>1. \A k \in Job : job'[k].st # "none" =>
             job[k].st # "none" /\ job'[k].owner = job[k].owner
      BY <1>t, <2>u, TornDownIs DEF Live
    <3> QED
      BY <1>i, <2>u, <3>1 DEF Prompted
  <2>10. Budgeted'
    <3>1. \A p \in Owner : Notes(agent[p].turnQ) \in Nat
                          /\ agent[p].chain \in Nat /\ agent[p].spent \in Nat
      BY <1>i, BudgetOf
    <3>2. Owing' = 0
      BY <2>u DEF Owing
    <3> QED
      BY <1>i, <1>t, <2>u, <3>1, <3>2, BudgetKept
  <2> QED
    BY <2>1, <2>2, <2>3, <2>4, <2>5, <2>6, <2>7, <2>8, <2>9, <2>10 DEF IInv
<1>25. ASSUME AllSettled PROVE IInv'
  <2>u. /\ UNCHANGED <<wait, mounted, input, remounts>> /\ svc' = "down"
        /\ job' = Dropped(Job) /\ \A j \in Job : ~Live(j)
    BY <1>25, <1>i DEF AllSettled
  <2>1. Counted'
    BY <1>i, <2>u DEF Counted
  <2>2. Typed'
    BY <1>25, <1>i, <1>t, <2>u, AllSettledOwner, DroppedIs DEF Typed, JobsAssumption
  <2>3. CleansOnce'
    BY <1>25, <1>i, <1>t, <2>u, AllSettledOwner, DroppedIs DEF CleansOnce
  <2>4. Owed'
    BY <1>25, <1>i, <1>t, <2>u, AllSettledOwner, DroppedIs DEF Owed
  <2>5. Recorded'
    BY <1>25, <1>i, <1>t, <2>u, AllSettledOwner, DroppedIs DEF Recorded, Live
  <2>6. Limited'
    BY <1>25, <1>i, <1>t, <2>u, AllSettledOwner, DroppedIs, LimitKept DEF Live
  <2>7. ReportedLive'
    BY <1>25, <1>i, <1>t, <2>u, AllSettledOwner, DroppedIs DEF ReportedLive, Live
  <2>8. SilenceIsExplained'
    BY <1>25, <1>i, <1>t, <2>u, AllSettledOwner, DroppedIs DEF SilenceIsExplained, Terminal
  <2>9. Attentive'
    BY <1>25, <1>i, <1>t, <2>u, AllSettledOwner, DroppedIs DEF Attentive
  <2>10. Prompted'
    BY <1>25, <1>i, <1>t, <2>u, AllSettledOwner, DroppedIs DEF Prompted
  <2>11. Budgeted'
    <3>1. \A p \in Owner : Notes(agent[p].turnQ) \in Nat
                          /\ agent[p].chain \in Nat /\ agent[p].spent \in Nat
      BY <1>i, BudgetOf
    <3>2. Owing' = 0
      BY <2>u DEF Owing
    <3> QED
      BY <1>25, <1>i, <1>t, <2>u, <3>1, <3>2, AllSettledOwner, BudgetKept
  <2> QED
    BY <2>1, <2>2, <2>3, <2>4, <2>5, <2>6, <2>7, <2>8, <2>9, <2>10, <2>11 DEF IInv
<1>26. ASSUME Unmount PROVE IInv'
  <2>u. /\ UNCHANGED <<job, wait, agent, svc, input>> /\ svc = "up" /\ mounted
        /\ mounted' = FALSE /\ remounts < MaxRemounts /\ remounts' = remounts + 1
    BY <1>26, <1>i DEF Unmount
  <2>1. /\ CleansOnce' /\ Owed' /\ Recorded' /\ Limited' /\ Counted' /\ ReportedLive'
        /\ SilenceIsExplained' /\ Attentive' /\ Prompted'
    BY <1>i, <2>u DEF Attentive, CleansOnce, Counted, Limited, Owed, Prompted, Recorded,
       ReportedLive, SilenceIsExplained, Actives, Live, Terminal
  <2>2. Typed'
    <3>1. remounts' \in 0 .. MaxRemounts
      BY <1>i, <2>u DEF Typed, JobsAssumption
    <3>2. mounted' \in BOOLEAN
      BY <2>u
    <3> QED
      BY <1>i, <2>u, <3>1, <3>2 DEF Typed
  <2>3. Budgeted'
    <3>1. Owing = 0 /\ Owing' = 1
      BY <2>u DEF Owing
    <3>2. ASSUME NEW p \in Owner
          PROVE  agent[p].prompts + remounts' - Owing' = agent[p].prompts + remounts - Owing
      BY <1>i, <2>u, <3>1, BudgetOf
    <3>3. Owing' <= remounts'
      BY <1>i, <2>u, <3>1 DEF Typed, JobsAssumption
    <3> QED
      BY <1>i, <2>u, <3>2, <3>3 DEF Budgeted
  <2> QED
    BY <2>1, <2>2, <2>3 DEF IInv
<1>27. ASSUME Mount PROVE IInv'
  <2>u. /\ UNCHANGED <<job, wait, svc, input, remounts>> /\ svc = "up" /\ ~mounted
        /\ mounted' = TRUE
    BY <1>27, <1>i DEF Mount
  <2>1. /\ Recorded' /\ Limited' /\ Counted' /\ ReportedLive' /\ SilenceIsExplained'
    BY <1>i, <2>u DEF Counted, Limited, Recorded, ReportedLive, SilenceIsExplained, Actives,
       Live, Terminal
  <2>2. Typed'
    BY <1>27, <1>i, <1>t, <2>u, MountOwner DEF Typed, JobsAssumption
  <2>3. CleansOnce'
    BY <1>27, <1>i, <1>t, <2>u, MountOwner DEF CleansOnce
  <2>4. Owed'
    BY <1>27, <1>i, <1>t, <2>u, MountOwner DEF Owed
  <2>5. Attentive'
    BY <1>27, <1>i, <1>t, <2>u, MountOwner DEF Attentive
  <2>6. Prompted'
    BY <1>27, <1>i, <1>t, <2>u, MountOwner DEF Prompted
  <2>7. Budgeted'
    <3>1. Owing = 1 /\ Owing' = 0
      BY <2>u DEF Owing
    <3>2. ASSUME NEW p \in Owner, agent'[p].prompts # 0
          PROVE  agent'[p].chain + Notes(agent'[p].turnQ) + MaxWakes
                   <= Grant(agent'[p].prompts + remounts' - Owing') + agent'[p].spent
      <4> DEFINE n == agent[p].prompts + remounts - Owing
      <4>1. /\ agent'[p].prompts = agent[p].prompts /\ agent'[p].chain = agent[p].chain
            /\ agent'[p].turnQ = agent[p].turnQ /\ agent'[p].spent = 0
        BY <1>27, <1>t, MountOwner
      <4>2. /\ agent[p].chain \in Nat /\ agent[p].spent \in Nat /\ agent[p].spent <= MaxWakes
            /\ Notes(agent[p].turnQ) \in Nat /\ n \in Nat /\ MaxWakes \in Nat
            /\ Grant(n) \in Nat /\ agent[p].prompts \in Nat /\ remounts \in Nat
            /\ agent[p].chain + Notes(agent[p].turnQ) + MaxWakes <= Grant(n) + agent[p].spent
        BY <1>i, <3>2, <4>1, BudgetOf
      <4>3. agent'[p].prompts + remounts' - Owing' = n + 1
        BY <2>u, <3>1, <4>1, <4>2
      <4>4. Grant(n + 1) = Grant(n) + MaxWakes
        BY <4>2, GrantNext
      <4> HIDE DEF n
      <4> QED
        BY <4>1, <4>2, <4>3, <4>4
    <3>3. Owing' <= remounts'
      BY <1>i, <2>u, <3>1 DEF Typed
    <3> QED
      BY <3>2, <3>3 DEF Budgeted
  <2> QED
    BY <2>1, <2>2, <2>3, <2>4, <2>5, <2>6, <2>7 DEF IInv
<1>28. ASSUME UNCHANGED vars PROVE IInv'
  BY <1>28, <1>i DEF vars, IInv, Typed, CleansOnce, Owed, Recorded, Limited, Actives, Counted,
     ReportedLive, SilenceIsExplained, Attentive, Prompted, Budgeted, Owing, Live, Terminal
<1> QED
  BY <1>1, <1>2, <1>3, <1>4, <1>5, <1>6, <1>7, <1>8, <1>9, <1>10, <1>11, <1>12, <1>13, <1>14,
     <1>15, <1>16, <1>17, <1>18, <1>19, <1>20, <1>21, <1>22, <1>23, <1>24, <1>25, <1>26, <1>27, <1>28 DEF Next

-----------------------------------------------------------------------------
(* The theorems. *)

\* The program starts in the invariant.
LEMMA InitIInv ==
  ASSUME JobsAssumption, Init
  PROVE  IInv
<1>1. /\ NoRecord \in Records /\ NoRecord.st = "none" /\ NoRecord.owner = NoOwner
      /\ NoRecord.work = "off" /\ ~NoRecord.reported
  BY DEF NoRecord, Records, Work
<1>2. /\ NotWaiting \in Waits /\ NotWaiting.pc = "idle" /\ ~NotWaiting.counted
  BY DEF NotWaiting, Waits
<1>3. /\ Fresh.reg = "live" /\ Fresh.act = "idle" /\ ~Fresh.latch /\ Fresh.turnQ = <<>>
      /\ Fresh.owned = {} /\ Fresh.spent = 0 /\ Fresh.chain = 0 /\ Fresh.prompts = 0
  BY DEF Fresh
<1>4. Fresh \in Agents
  <2>1. "live" \in Regs /\ "idle" \in Acts /\ <<>> \in Queues /\ 0 \in Spends /\ 0 \in Numbers
    BY DEF Regs, Acts, Queues, Spends, Numbers, JobsAssumption
  <2> QED
    BY <2>1 DEF Fresh, Agents
<1>5. /\ job = [j \in Job |-> NoRecord] /\ wait = [w \in Wait |-> NotWaiting]
      /\ agent = [o \in Owner |-> Fresh]
      /\ svc = "up" /\ mounted = TRUE /\ input = 0 /\ remounts = 0
  BY DEF Init
<1>6. \A j \in Job : /\ job[j].st = "none" /\ job[j].work = "off" /\ ~Live(j) /\ ~Terminal(j)
                     /\ job[j].owner = NoOwner
  BY <1>1, <1>5 DEF Live, Terminal
<1>7. Typed
  <2>1. input \in 0 .. MaxInput /\ remounts \in 0 .. MaxRemounts
    BY <1>5 DEF JobsAssumption
  <2> QED
    BY <1>1, <1>2, <1>4, <1>5, <2>1 DEF Typed
<1>8. CleansOnce /\ Attentive
  BY <1>3, <1>5 DEF CleansOnce, Attentive
<1>9. Owed /\ Recorded /\ ReportedLive /\ SilenceIsExplained
  BY <1>5, <1>6 DEF Owed, Recorded, ReportedLive, SilenceIsExplained
<1>10. Limited
  <2>1. \A o \in Owner \union {NoOwner} : Actives(o) = {}
    BY <1>6 DEF Actives
  <2> QED
    BY <2>1, FS_EmptySet DEF Limited, JobsAssumption
<1>11. Counted
  BY <1>2, <1>5 DEF Counted
<1>12. Prompted
  <2>1. \A i \in 1 .. Len(<<>>) : <<>>[i] = "user"
    OBVIOUS
  <2> QED
    BY <1>3, <1>5, <1>6, <2>1 DEF Prompted
<1>13. Budgeted
  BY <1>3, <1>5 DEF Budgeted, Owing
<1> QED
  BY <1>7, <1>8, <1>9, <1>10, <1>11, <1>12, <1>13 DEF IInv

\* The type invariant is among its conjuncts.
LEMMA IInvTypes ==
  ASSUME IInv
  PROVE  TypeOK
BY DEF IInv, Typed, TypeOK, Records, Work, Waits, Agents, Regs, Acts, Queues, Spends, Numbers

\* The discipline follows from it: what works without having been forced is
\* among the live jobs of its owner, an agent that is gone has nothing on
\* record, and the budgets bound the turns.
LEMMA IInvDisciplines ==
  ASSUME JobsAssumption, IInv
  PROVE  JobDiscipline
<1>1. /\ Typed /\ CleansOnce /\ Owed /\ Recorded /\ Limited /\ SilenceIsExplained
      /\ Prompted /\ Budgeted
  BY DEF IInv
<1>2. job \in [Job -> Records] /\ agent \in [Owner -> Agents]
  BY <1>1 DEF Typed
<1>3. ASSUME NEW o \in Owner \union {NoOwner}
      PROVE  Cardinality({j \in Job : job[j].work = "on" /\ job[j].owner = o
                                        /\ ~job[j].forced}) <= MaxJobs
  <2> DEFINE U == {j \in Job : job[j].work = "on" /\ job[j].owner = o /\ ~job[j].forced}
  <2>1. U \subseteq Actives(o) /\ Actives(o) \subseteq Job
    BY <1>1 DEF Recorded, Actives
  <2>2. Cardinality(Actives(o)) <= MaxJobs
    BY <1>1 DEF Limited
  <2> HIDE DEF U
  <2>3. Cardinality(U) <= MaxJobs
    BY <2>1, <2>2, FewerActives DEF JobsAssumption
  <2> QED
    BY <2>3 DEF U
<1>4. ASSUME NEW j \in Job, job[j].st # "none", job[j].owner # NoOwner
      PROVE  agent[job[j].owner].reg # "gone"
  <2>1. PICK o \in Owner : o = job[j].owner
    BY <1>2, <1>4 DEF Records
  <2>2. agent[o].attached \/ agent[o].reg = "cleaning"
    BY <1>1, <1>4, <2>1 DEF Owed
  <2>3. agent[o].reg # "gone"
    BY <1>1, <2>2 DEF CleansOnce
  <2> QED
    BY <2>1, <2>3
<1>5. WorkIsAccounted
  BY <1>1, <1>3, <1>4 DEF WorkIsAccounted, Recorded
<1>6. ASSUME NEW o \in Owner
      PROVE  agent[o].chain <= MaxWakes * (agent[o].prompts + remounts)
  <2> DEFINE m == agent[o].prompts + remounts
             n == agent[o].prompts + remounts - Owing
  <2>1. /\ agent[o].chain \in Nat /\ agent[o].prompts \in Nat /\ remounts \in Nat
        /\ agent[o].spent \in Nat /\ agent[o].spent <= MaxWakes /\ MaxWakes \in Nat
        /\ Notes(agent[o].turnQ) \in Nat /\ Owing \in {0, 1} /\ n \in Nat /\ Grant(n) \in Nat
        /\ agent[o].prompts # 0 =>
             agent[o].chain + Notes(agent[o].turnQ) + MaxWakes <= Grant(n) + agent[o].spent
    BY <1>1, BudgetOf
  <2>2. m \in Nat /\ (m = n \/ m = n + 1)
    BY <2>1
  <2>3. agent[o].prompts = 0 => agent[o].chain = 0
    BY <1>1 DEF Prompted
  <2>4. Grant(m) = MaxWakes * (agent[o].prompts + remounts)
    BY DEF Grant
  <2> HIDE DEF m, n
  <2>5. Grant(m) \in Nat /\ Grant(n) <= Grant(m)
    BY <2>1, <2>2, GrantNext
  <2>6. agent[o].chain <= Grant(m)
    BY <2>1, <2>3, <2>5
  <2> QED
    BY <2>4, <2>6
<1> QED
  BY <1>1, <1>5, <1>6 DEF JobDiscipline, NoticeDiscipline, WakesAreBounded

\* The invariant holds at every moment.
LEMMA IInvAlways ==
  ASSUME JobsAssumption
  PROVE  Spec => []IInv
<1>1. Init => IInv
  BY InitIInv
<1>2. IInv /\ [Next]_vars => IInv'
  BY NextIInv
<1> QED
  BY <1>1, <1>2, PTL DEF Spec

\* The registry, its waits and the reduced agents keep their types for any
\* number of jobs, agents and calls.
THEOREM TypeCorrect ==
  ASSUME JobsAssumption
  PROVE  Spec => []TypeOK
<1>1. IInv => TypeOK
  BY IInvTypes
<1> QED
  BY <1>1, IInvAlways, PTL

\* Whatever is started, killed, torn down, waited for or reloaded in whichever
\* order: no owner has more work running than the limit, nothing runs without a
\* record but what a throwing cancel left, nothing is kept for an agent that is
\* gone, a completion is silenced only for a reason, and notices alone open no
\* more turns than the budgets pay for (start, settle, wait, disposeOwned, and
\* the two listeners of tool-jobs).
THEOREM JobsAlwaysDisciplined ==
  ASSUME JobsAssumption
  PROVE  Spec => []JobDiscipline
<1>1. IInv => JobDiscipline
  BY IInvDisciplines
<1> QED
  BY <1>1, IInvAlways, PTL

=============================================================================
