------------------------- MODULE GoalRounds_proofs -------------------------
(***************************************************************************)
(* What TLAPS proves of the goal rounds, for any number of goals,          *)
(* revisions, rounds and inputs.                                           *)
(*                                                                         *)
(* Typed says how the variables of the agent and of the driver go          *)
(* together.  The rounds rest on two more facts: a round is of a revision  *)
(* that is stored (Stamps), and a message is in one place (Separate).      *)
(* What the driver found valid is what the fold is due, until the goal is  *)
(* changed or a driver mounted (LastLook): while a proposal is on its way  *)
(* back to the turn, everything else leaves its batch and the terms of its *)
(* goal alone (OuterKeeps).  What rest means follows from Awake, which     *)
(* keeps a pass, a checkpoint or a wake for every armed goal while no turn *)
(* runs, and from CancelMet, which follows a cancelled round to the pause  *)
(* at its idle edge.                                                       *)
(***************************************************************************)
EXTENDS GoalFence, TLAPS

Phases == {"none", "active", "paused", "blocked", "complete"}
Goals == [id : 0 .. MaxGoals, rev : Nat, phase : Phases,
          max : 0 .. MaxCap, rounds : Nat, armed : BOOLEAN,
          failed : {"no", "fenced", "unfenced"}, stored : {"yes", "no", "flushing"}]
Attempts == [msg : Message, phase : {"none", "queued", "claimed", "admitted"},
             cancelled : BOOLEAN, stale : BOOLEAN]
Drivers == [attempt : Attempts, competing : BOOLEAN, needs : BOOLEAN,
            requested : BOOLEAN, run : {"rest", "loop", "flush"}]

-----------------------------------------------------------------------------
(* Lists.                                                                  *)

\* What is queued last joins the list.
LEMMA ItemsAppend ==
    ASSUME NEW S, NEW q \in Seq(S), NEW m \in S
    PROVE  /\ Append(q, m) \in Seq(S) /\ Append(q, m) # <<>>
           /\ Items(Append(q, m)) = Items(q) \union {m}
<1>1. /\ Append(q, m) \in Seq(S) /\ Append(q, m) # <<>>
      /\ DOMAIN q = 1 .. Len(q) /\ Len(q) \in Nat
      /\ DOMAIN Append(q, m) = 1 .. Len(q) + 1
    OBVIOUS
<1>2. /\ \A i \in 1 .. Len(q) : Append(q, m)[i] = q[i]
      /\ Append(q, m)[Len(q) + 1] = m
    OBVIOUS
<1>3. 1 .. Len(q) + 1 = (1 .. Len(q)) \union {Len(q) + 1}
    BY <1>1
<1>4. Items(Append(q, m)) \subseteq Items(q) \union {m}
    BY <1>1, <1>2, <1>3 DEF Items
<1>5. Items(q) \union {m} \subseteq Items(Append(q, m))
  <2>1. ASSUME NEW i \in 1 .. Len(q) PROVE q[i] \in Items(Append(q, m))
      BY <1>1, <1>2, <1>3, <2>1 DEF Items
  <2>2. m \in Items(Append(q, m))
      BY <1>1, <1>2, <1>3 DEF Items
  <2> QED BY <1>1, <2>1, <2>2 DEF Items
<1> QED BY <1>1, <1>4, <1>5

\* What is taken from the front leaves the rest of the list.
LEMMA ItemsTail ==
    ASSUME NEW S, NEW q \in Seq(S), q # <<>>
    PROVE  /\ Tail(q) \in Seq(S) /\ Head(q) \in S
           /\ Items(q) = Items(Tail(q)) \union {Head(q)}
<1>1. /\ Tail(q) \in Seq(S) /\ Head(q) \in S /\ Head(q) = q[1]
      /\ DOMAIN q = 1 .. Len(q) /\ Len(q) \in Nat /\ Len(q) >= 1
      /\ DOMAIN Tail(q) = 1 .. Len(q) - 1
      /\ \A i \in 1 .. Len(q) - 1 : Tail(q)[i] = q[i + 1]
    OBVIOUS
<1>2. Items(Tail(q)) \union {Head(q)} \subseteq Items(q)
  <2>1. ASSUME NEW i \in 1 .. Len(q) - 1 PROVE Tail(q)[i] \in Items(q)
    <3>1. i + 1 \in 1 .. Len(q)
        BY <1>1
    <3> QED BY <1>1, <3>1 DEF Items
  <2>2. Head(q) \in Items(q)
    <3>1. 1 \in 1 .. Len(q)
        BY <1>1
    <3> QED BY <1>1, <3>1 DEF Items
  <2> QED BY <1>1, <2>1, <2>2 DEF Items
<1>3. Items(q) \subseteq Items(Tail(q)) \union {Head(q)}
  <2>1. ASSUME NEW i \in 1 .. Len(q), i # 1 PROVE q[i] \in Items(Tail(q))
    <3>1. i - 1 \in 1 .. Len(q) - 1 /\ (i - 1) + 1 = i
        BY <1>1, <2>1
    <3>2. Tail(q)[i - 1] = q[i]
        BY <1>1, <3>1
    <3> QED BY <1>1, <3>1, <3>2 DEF Items
  <2> QED BY <1>1, <2>1 DEF Items
<1> QED BY <1>1, <1>2, <1>3

\* An empty list has no items.
LEMMA ItemsEmpty == Items(<<>>) = {}
BY DEF Items

-----------------------------------------------------------------------------
(* The goal service's changes.                                             *)

\* A goal event makes the next revision and leaves the rounds alone.
LEMMA CommitIs ==
    ASSUME NEW x \in Goals, NEW phase \in Phases, NEW max \in 0 .. MaxCap, NEW armed \in BOOLEAN
    PROVE  LET z == Commit(x, phase, max, armed) IN
           /\ z \in Goals
           /\ z.id = x.id /\ z.rev = x.rev + 1 /\ z.phase = phase /\ z.max = max
           /\ z.rounds = x.rounds /\ z.armed = armed /\ z.failed = x.failed
           /\ z.stored = "no"
<1> DEFINE z == [x EXCEPT !.rev = x.rev + 1, !.phase = phase, !.max = max,
                          !.armed = armed, !.stored = "no"]
<1>1. x.rev + 1 \in Nat /\ x \in Goals /\ phase \in Phases
    BY DEF Goals
<1>2. z \in Goals
    BY <1>1 DEF Goals
<1>3. /\ z.id = x.id /\ z.rev = x.rev + 1 /\ z.phase = phase /\ z.max = max
      /\ z.rounds = x.rounds /\ z.armed = armed /\ z.failed = x.failed
      /\ z.stored = "no"
    BY <1>1 DEF Goals
<1>4. Commit(x, phase, max, armed) = z
    BY DEF Commit
<1> HIDE DEF z
<1> QED BY <1>2, <1>3, <1>4

\* Disarming takes only the authority to work on the goal.
LEMMA DisarmIs ==
    ASSUME NEW x \in Goals
    PROVE  LET z == Disarm(x) IN
           /\ z \in Goals /\ ~ActiveArmed(z)
           /\ z.id = x.id /\ z.rev = x.rev /\ z.phase = x.phase /\ z.max = x.max
           /\ z.rounds = x.rounds /\ z.failed = x.failed /\ z.stored = x.stored
BY DEF Disarm, Goals, ActiveArmed, Current

-----------------------------------------------------------------------------
(* The driver's listeners.                                                 *)

\* Asking for a pass changes only the loop, and nothing unless mounted.
LEMMA RequestDriveIs ==
    ASSUME NEW y \in Drivers
    PROVE  LET z == RequestDrive(y) IN
           /\ z \in Drivers
           /\ z.attempt = y.attempt /\ z.competing = y.competing /\ z.needs = y.needs
           /\ mounted # "on" => z = y
           /\ mounted = "on" => z.requested /\ z.run # "rest"
           /\ z.run = "flush" <=> y.run = "flush"
BY DEF RequestDrive, Drivers

\* A changed goal needs a checkpoint; its attempt is left to the loop.
LEMMA GoalChangedIs ==
    ASSUME NEW y \in Drivers
    PROVE  LET z == GoalChanged(y) IN
           /\ z \in Drivers
           /\ z.attempt = y.attempt /\ z.competing = y.competing
           /\ mounted = "off" => z = y
           /\ mounted # "off" => z.needs
           /\ mounted = "on" => z.requested /\ z.run # "rest"
           /\ z.run = "flush" <=> y.run = "flush"
<1>1. [y EXCEPT !.needs = TRUE] \in Drivers
    BY DEF Drivers
<1> QED BY <1>1, RequestDriveIs DEF GoalChanged, Drivers

\* y and z carry the same round, if any.
SameRound(y, z) ==
    /\ z.attempt.msg = y.attempt.msg
    /\ z.attempt.phase = "none" <=> y.attempt.phase = "none"

\* y and z are at the same place of the loop with the same requests.
SamePass(y, z) == z.needs = y.needs /\ z.requested = y.requested /\ z.run = y.run

\* The initial values are well formed.
LEMMA NoAttemptIs == NoAttempt \in Attempts /\ FreshDriver \in Drivers /\ NoGoal \in Goals
<1>1. NoMsg \in Message
    BY BoundsAssumption DEF NoMsg, GoalMsg, Message, BoundsAssumption
<1>2. NoAttempt \in Attempts
    BY <1>1 DEF NoAttempt, Attempts
<1>3. 0 \in 0 .. MaxGoals /\ 0 \in 0 .. MaxCap
    BY BoundsAssumption DEF BoundsAssumption
<1> QED BY <1>2, <1>3 DEF FreshDriver, Drivers, NoGoal, Goals, Phases

\* Dropping the attempt keeps what the loop was asked for.
LEMMA DroppedIs ==
    ASSUME NEW y \in Drivers
    PROVE  LET z == [y EXCEPT !.attempt = NoAttempt] IN
           /\ z \in Drivers /\ z.attempt = NoAttempt /\ z.attempt.phase = "none"
           /\ z.competing = y.competing /\ SamePass(y, z)
<1> DEFINE z == [y EXCEPT !.attempt = NoAttempt]
<1>1. z \in Drivers /\ z.attempt = NoAttempt /\ z.competing = y.competing /\ SamePass(y, z)
    BY NoAttemptIs DEF Drivers, SamePass
<1>2. NoAttempt.phase = "none"
    BY DEF NoAttempt
<1> QED BY <1>1, <1>2

\* A claim moves the attempt on, at the same round.
LEMMA OnClaimedIs ==
    ASSUME NEW y \in Drivers, NEW msgs
    PROVE  LET z == OnClaimed(y, msgs) IN
           /\ z \in Drivers /\ SameRound(y, z) /\ SamePass(y, z)
           /\ z.competing = y.competing
           /\ y.attempt.phase = "none" => z = y
<1> DEFINE a == [y.attempt EXCEPT !.phase = "claimed"]
<1>1. a \in Attempts /\ a.msg = y.attempt.msg /\ a.phase = "claimed"
    BY DEF Drivers, Attempts
<1>2. OnClaimed(y, msgs) = IF y.attempt.phase # "none" /\ y.attempt.msg \in msgs
                           THEN [y EXCEPT !.attempt = a] ELSE y
    BY DEF OnClaimed
<1> HIDE DEF a
<1> QED BY <1>1, <1>2 DEF Drivers, SameRound, SamePass

\* A discard marks the attempt cancelled, at the same round.
LEMMA OnDiscardedIs ==
    ASSUME NEW y \in Drivers, NEW msgs
    PROVE  LET z == OnDiscarded(y, msgs) IN
           /\ z \in Drivers /\ SameRound(y, z) /\ SamePass(y, z)
           /\ z.competing = y.competing
           /\ y.attempt.phase = "none" => z = y
<1> DEFINE a == [y.attempt EXCEPT !.cancelled = TRUE]
<1>1. a \in Attempts /\ a.msg = y.attempt.msg /\ a.phase = y.attempt.phase
    BY DEF Drivers, Attempts
<1>2. OnDiscarded(y, msgs) = IF y.attempt.phase # "none" /\ y.attempt.msg \in msgs
                           THEN [y EXCEPT !.attempt = a] ELSE y
    BY DEF OnDiscarded
<1> HIDE DEF a
<1> QED BY <1>1, <1>2 DEF Drivers, SameRound, SamePass

\* An admission moves the attempt on, at the same round.
LEMMA OnAdmittedIs ==
    ASSUME NEW y \in Drivers, NEW msgs
    PROVE  LET z == OnAdmitted(y, msgs) IN
           /\ z \in Drivers /\ SameRound(y, z) /\ SamePass(y, z)
           /\ z.competing = y.competing
           /\ y.attempt.phase = "none" => z = y
<1> DEFINE a == [y.attempt EXCEPT !.phase = "admitted"]
<1>1. a \in Attempts /\ a.msg = y.attempt.msg /\ a.phase = "admitted"
    BY DEF Drivers, Attempts
<1>2. OnAdmitted(y, msgs) = IF y.attempt.phase # "none" /\ y.attempt.msg \in msgs
                           THEN [y EXCEPT !.attempt = a] ELSE y
    BY DEF OnAdmitted
<1> HIDE DEF a
<1> QED BY <1>1, <1>2 DEF Drivers, SameRound, SamePass

\* A prompt competes and makes a queued attempt stale, at the same round.
LEMMA CompetesIs ==
    ASSUME NEW y \in Drivers
    PROVE  LET z == Competes(y) IN
           /\ z \in Drivers /\ SameRound(y, z) /\ SamePass(y, z)
           /\ mounted = "off" => z = y
<1> DEFINE a == IF y.attempt.phase = "queued"
                THEN [y.attempt EXCEPT !.stale = TRUE] ELSE y.attempt
<1>1. a \in Attempts /\ a.msg = y.attempt.msg /\ a.phase = y.attempt.phase
    BY DEF Drivers, Attempts
<1>2. Competes(y) = IF mounted = "off" THEN y
                    ELSE [y EXCEPT !.competing = TRUE, !.attempt = a]
    BY DEF Competes
<1> HIDE DEF a
<1> QED BY <1>1, <1>2 DEF Drivers, SameRound, SamePass

\* The end of an aborted turn marks its attempt cancelled, at the same round.
LEMMA TurnEndDriverIs ==
    ASSUME NEW y \in Drivers, NEW reason
    PROVE  LET z == TurnEndDriver(y, reason) IN
           /\ z \in Drivers /\ SameRound(y, z) /\ SamePass(y, z)
           /\ z.competing = y.competing
           /\ z.attempt.phase = y.attempt.phase
           /\ reason = "aborted" /\ UnderWay(y) => z.attempt.cancelled
           /\ y.attempt.phase = "none" => z = y
<1> DEFINE a == [y.attempt EXCEPT !.cancelled = TRUE]
<1>1. a \in Attempts /\ a.msg = y.attempt.msg /\ a.phase = y.attempt.phase /\ a.cancelled
    BY DEF Drivers, Attempts
<1>2. TurnEndDriver(y, reason) = IF reason = "aborted" /\ UnderWay(y)
                                 THEN [y EXCEPT !.attempt = a] ELSE y
    BY DEF TurnEndDriver
<1> HIDE DEF a
<1> QED BY <1>1, <1>2 DEF Drivers, SameRound, SamePass, UnderWay

\* A turn's end changes no goal but its authority.
LEMMA TurnEndGoalIs ==
    ASSUME NEW x \in Goals, NEW y, NEW reason
    PROVE  LET z == TurnEndGoal(x, y, reason) IN
           /\ z \in Goals
           /\ z = x \/ ~ActiveArmed(z)
           /\ z.id = x.id /\ z.rev = x.rev /\ z.phase = x.phase /\ z.max = x.max
           /\ z.rounds = x.rounds /\ z.failed = x.failed /\ z.stored = x.stored
           /\ mounted # "off" /\ reason = "aborted" /\ ~UnderWay(y) => ~ActiveArmed(z)
BY DisarmIs DEF TurnEndGoal

\* At the idle edge the goal is paused, or it stays as it is.
LEMMA IdleGoalIs ==
    ASSUME NEW x \in Goals, NEW y
    PROVE  LET z == IdleGoal(x, y) IN
           \/ ~PausesAtIdle(x, y) /\ z = x
           \/ /\ PausesAtIdle(x, y) /\ ActiveArmed(x) /\ z = Commit(x, "paused", x.max, FALSE)
              /\ z \in Goals /\ ~ActiveArmed(z)
<1>1. x.max \in 0 .. MaxCap /\ "paused" \in Phases
    BY DEF Goals, Phases
<1> QED BY <1>1, CommitIs DEF IdleGoal, PausesAtIdle, ActiveArmed

\* A paused goal's attempt is dropped.
LEMMA IdleDriverIs ==
    ASSUME NEW x, NEW y \in Drivers
    PROVE  LET z == IdleDriver(x, y) IN
           /\ z \in Drivers
           /\ mounted = "off" => z = y
           /\ mounted # "off" => ~z.competing
           /\ z.attempt = y.attempt \/ z.attempt.phase = "none"
           /\ y.needs => z.needs
           /\ mounted = "on" => z.requested /\ z.run # "rest"
           /\ z.run = "flush" <=> y.run = "flush"
<1> DEFINE u == [y EXCEPT !.competing = FALSE]
           v == [u EXCEPT !.attempt = NoAttempt]
           w == IF PausesAtIdle(x, y) THEN GoalChanged(v) ELSE u
<1>1. u \in Drivers /\ ~u.competing /\ SamePass(y, u) /\ u.attempt = y.attempt
    BY DEF Drivers, SamePass
<1>2. IdleDriver(x, y) = IF mounted = "off" THEN y ELSE RequestDrive(w)
    BY DEF IdleDriver
<1> HIDE DEF u
<1>3. /\ v \in Drivers /\ ~v.competing /\ SamePass(y, v) /\ v.attempt.phase = "none"
    BY <1>1, DroppedIs DEF SamePass
<1> HIDE DEF v
<1>4. /\ GoalChanged(v) \in Drivers /\ ~GoalChanged(v).competing
      /\ GoalChanged(v).attempt.phase = "none"
      /\ mounted # "off" => GoalChanged(v).needs
      /\ GoalChanged(v).run = "flush" <=> y.run = "flush"
    BY <1>3, GoalChangedIs DEF SamePass
<1>5. /\ w \in Drivers /\ ~w.competing
      /\ w.attempt = y.attempt \/ w.attempt.phase = "none"
      /\ mounted # "off" /\ y.needs => w.needs
      /\ w.run = "flush" <=> y.run = "flush"
    BY <1>1, <1>4 DEF SamePass
<1> HIDE DEF w
<1> QED BY <1>2, <1>5, RequestDriveIs

-----------------------------------------------------------------------------
(* Types, and how the variables of the agent go together.                  *)

Histories == [hit : {"no", "exact", "other"}, cut : BOOLEAN]

\* A running agent has an open turn; a wake is latched only while something is
\* pending, and by a running driver only when it was aborted.
PcAt ==
    /\ status = "running" <=> pc # "off"
    /\ decision # "none" => pc = "outer"
    /\ status = "idle" => ~aborted
    /\ latch /\ status = "running" => aborted
    /\ latch => HasPending

AgentTyped ==
    /\ status \in {"idle", "running", "maint"}
    /\ pc \in {"off", "assemble", "down", "outer", "step"}
    /\ aborted \in BOOLEAN /\ latch \in BOOLEAN
    /\ first \in BOOLEAN /\ limited \in BOOLEAN
    /\ turnQ \in Seq(Message) /\ stepQ \subseteq Message /\ claimed \subseteq Message
    /\ decision \in {"none", "enter", "reject", "fenced"}
    /\ PcAt

\* A goal with authority has a revision its messages can carry.
GoalTyped(x) == x \in Goals /\ (ActiveArmed(x) => x.rev <= MaxRevision + 1)

\* Without the plugin there is no state of it.
Blank(y) == y.attempt.phase = "none" /\ ~y.competing /\ ~y.requested /\ y.run = "rest"
DriverTyped(y) == y \in Drivers /\ (mounted = "off" => Blank(y))

Typed ==
    /\ AgentTyped /\ GoalTyped(g) /\ DriverTyped(d)
    /\ mounted \in {"on", "stopping", "off"}
    /\ inputs \in 0 .. MaxInput /\ hist \in Histories

\* What a cancel remembers is the exact round only if there was one.
LEMMA MetIs ==
    ASSUME NEW x, NEW cut \in BOOLEAN, hist \in Histories, Met(x, cut)
    PROVE  /\ hist' \in Histories /\ hist'.cut = cut
           /\ hist'.hit = "exact" => hist.hit = "exact" /\ ActiveArmed(x)
BY DEF Met, Histories

\* A turn opens on what was pending, with nothing decided.
LEMMA OpenTurnTyped ==
    ASSUME NEW y, DriverTyped(y), NEW tq \in Seq(Message), NEW sq \in SUBSET Message,
           OpenTurn(y, tq, sq)
    PROVE  AgentTyped' /\ DriverTyped(d')
<1>1. tq # <<>> => Tail(tq) \in Seq(Message) /\ Head(tq) \in Message
    BY ItemsTail
<1>2. turnQ' \in Seq(Message) /\ stepQ' \subseteq Message /\ claimed' \subseteq Message
    BY <1>1 DEF OpenTurn
<1>3. d' \in Drivers /\ (y.attempt.phase = "none" => d' = y)
  <2> PICK msgs : d' = OnClaimed(y, msgs)
      BY DEF OpenTurn
  <2> QED BY OnClaimedIs DEF DriverTyped
<1> QED BY <1>2, <1>3 DEF OpenTurn, AgentTyped, PcAt, DriverTyped, Blank

\* A waking send opens a turn or latches the wake.
LEMMA WakeTyped ==
    ASSUME AgentTyped, NEW y, DriverTyped(y), NEW tq \in Seq(Message),
           NEW sq \in SUBSET Message, tq # <<>> \/ sq # {}, Wake(y, tq, sq)
    PROVE  AgentTyped' /\ DriverTyped(d')
<1>1. CASE status = "idle"
    BY <1>1, OpenTurnTyped DEF Wake
<1>2. CASE status # "idle"
    BY <1>2 DEF Wake, AgentTyped, PcAt, HasPending, DriverTyped
<1> QED BY <1>1, <1>2

\* Without the plugin no pass is asked for.
LEMMA RequestDriveTyped ==
    ASSUME NEW y, DriverTyped(y)
    PROVE  DriverTyped(RequestDrive(y)) /\ DriverTyped(GoalChanged(y))
BY RequestDriveIs, GoalChangedIs DEF DriverTyped

\* Without the plugin there is no attempt either.
LEMMA DroppedTyped ==
    ASSUME NEW y, DriverTyped(y)
    PROVE  DriverTyped([y EXCEPT !.attempt = NoAttempt])
BY DroppedIs DEF DriverTyped, Blank, SamePass

\* The end of a turn, with the idle edge and the turn it may open.
LEMMA EndTurnTyped ==
    ASSUME AgentTyped, hist \in Histories, NEW x, GoalTyped(x), NEW y, DriverTyped(y),
           NEW reason, EndTurn(x, y, reason)
    PROVE  AgentTyped' /\ GoalTyped(g') /\ DriverTyped(d') /\ hist' \in Histories
<1> DEFINE x1 == TurnEndGoal(x, y, reason)
           y1 == TurnEndDriver(y, reason)
<1>1. GoalTyped(x1)
    BY TurnEndGoalIs DEF GoalTyped, ActiveArmed, Current
<1>2. DriverTyped(y1)
    BY TurnEndDriverIs DEF DriverTyped, Blank
<1>3. turnQ \in Seq(Message) /\ stepQ \in SUBSET Message
    BY DEF AgentTyped
<1>4. \/ OpenTurn(y1, turnQ, stepQ) /\ g' = x1 /\ Met(x1, hist.cut)
      \/ /\ status' = "idle" /\ pc' = "off" /\ aborted' = FALSE
         /\ claimed' = {} /\ decision' = "none" /\ first' = TRUE /\ limited' = FALSE
         /\ g' = IdleGoal(x1, y1) /\ d' = IdleDriver(x1, y1) /\ Met(g', FALSE)
         /\ UNCHANGED <<turnQ, stepQ, latch>>
    BY DEF EndTurn
<1> HIDE DEF x1, y1
<1>5. hist.cut \in BOOLEAN
    BY DEF Histories
<1>6. CASE OpenTurn(y1, turnQ, stepQ) /\ g' = x1 /\ Met(x1, hist.cut)
    BY <1>1, <1>2, <1>3, <1>5, <1>6, OpenTurnTyped, MetIs
<1>7. CASE /\ status' = "idle" /\ pc' = "off" /\ aborted' = FALSE
           /\ claimed' = {} /\ decision' = "none" /\ first' = TRUE /\ limited' = FALSE
           /\ g' = IdleGoal(x1, y1) /\ d' = IdleDriver(x1, y1) /\ Met(g', FALSE)
           /\ UNCHANGED <<turnQ, stepQ, latch>>
  <2>1. GoalTyped(g')
      BY <1>1, <1>7, IdleGoalIs DEF GoalTyped
  <2>2. DriverTyped(d')
      BY <1>2, <1>7, IdleDriverIs DEF DriverTyped
  <2>3. hist' \in Histories
      BY <1>7, MetIs
  <2>4. AgentTyped'
      BY <1>7 DEF AgentTyped, PcAt, HasPending
  <2> QED BY <2>1, <2>2, <2>3, <2>4
<1> QED BY <1>4, <1>6, <1>7

\* An operation on the goal, with the cancel a pause from the host makes.
LEMMA ChangeTyped ==
    ASSUME AgentTyped, DriverTyped(d), NEW x, GoalTyped(x), NEW abort \in BOOLEAN,
           Change(x, abort)
    PROVE  AgentTyped' /\ GoalTyped(g') /\ DriverTyped(d')
<1>1. AgentTyped'
    BY DEF Change, AgentTyped, PcAt, HasPending
<1>2. DriverTyped(d')
    BY RequestDriveTyped DEF Change
<1> QED BY <1>1, <1>2 DEF Change

\* What a rejected proposal puts back are messages.
LEMMA RestoredIs ==
    ASSUME AgentTyped
    PROVE  /\ Restored \subseteq Message /\ stepQ \subseteq Restored
           /\ stepQ # {} => Restored # {}
BY DEF AgentTyped, Restored, Others

\* The fence turns a round away.
LEMMA FenceTyped ==
    ASSUME AgentTyped, DriverTyped(d), pc # "off", NEW m, Fence(m)
    PROVE  AgentTyped' /\ DriverTyped(d')
<1>1. AgentTyped'
    BY RestoredIs DEF Fence, AgentTyped, PcAt, HasPending
<1>2. DriverTyped([d EXCEPT !.attempt = NoAttempt])
    BY DroppedTyped
<1>3. PICK y : DriverTyped(y) /\ d' = RequestDrive(y)
    BY <1>2 DEF Fence
<1> QED BY <1>1, <1>3, RequestDriveTyped

\* The round that is reserved is a message of the current goal.
LEMMA ReservedIs ==
    ASSUME NEW x, GoalTyped(x), ActiveArmed(x), x.rounds < x.max, NEW y \in Drivers
    PROVE  LET m == GoalMsg(x.id, x.rev, x.rounds + 1)
               z == [y EXCEPT !.attempt = [NoAttempt EXCEPT !.msg = m, !.phase = "queued"]] IN
           /\ m \in Message /\ z \in Drivers /\ SamePass(y, z) /\ z.competing = y.competing
           /\ z.attempt.msg = m /\ z.attempt.phase = "queued"
<1> DEFINE m == GoalMsg(x.id, x.rev, x.rounds + 1)
           a == [NoAttempt EXCEPT !.msg = m, !.phase = "queued"]
           z == [y EXCEPT !.attempt = a]
<1>1. m \in Message
  <2>1. /\ x.rev \in 0 .. MaxRevision + 1 /\ x.id \in 0 .. MaxGoals
        /\ x.rounds + 1 \in 0 .. MaxCap
      BY BoundsAssumption DEF GoalTyped, Goals, BoundsAssumption
  <2> QED BY <2>1 DEF GoalMsg, Message
<1> HIDE DEF m
<1>2. a \in Attempts /\ a.msg = m /\ a.phase = "queued"
    BY <1>1, NoAttemptIs DEF Attempts, NoAttempt
<1> HIDE DEF a
<1>3. z \in Drivers /\ SamePass(y, z) /\ z.competing = y.competing /\ z.attempt = a
    BY <1>2 DEF Drivers, SamePass
<1> QED BY <1>1, <1>2, <1>3 DEF m, a

\* A goal at its cap is blocked, which ends its authority.
LEMMA BlockedTyped ==
    ASSUME AgentTyped, NEW x, GoalTyped(x), NEW y, DriverTyped(y), Blocked(x, y)
    PROVE  AgentTyped' /\ GoalTyped(g') /\ DriverTyped(d') /\ ~ActiveArmed(g') /\ hist' = hist
<1>1. /\ g' = Commit(x, "blocked", x.max, FALSE) /\ d' = GoalChanged(y)
      /\ UNCHANGED agentVars /\ hist' = hist
    BY DEF Blocked, Looping
<1>2. "blocked" \in Phases /\ x.max \in 0 .. MaxCap /\ x \in Goals
    BY DEF Phases, GoalTyped, Goals
<1>3. g' \in Goals /\ ~ActiveArmed(g')
    BY <1>1, <1>2, CommitIs DEF ActiveArmed
<1>4. AgentTyped'
    BY <1>1 DEF AgentTyped, PcAt, HasPending, agentVars
<1> QED BY <1>1, <1>3, <1>4, RequestDriveTyped DEF GoalTyped

\* A pass that gets past its checkpoint queues a round or blocks.
LEMMA ReserveTyped ==
    ASSUME AgentTyped, hist \in Histories, NEW x, GoalTyped(x), NEW y, DriverTyped(y),
           mounted = "on", Reserve(x, y)
    PROVE  AgentTyped' /\ GoalTyped(g') /\ DriverTyped(d') /\ hist' = hist
<1>1. CASE y.attempt.phase # "none"
  <2>1. Looping(x, [y EXCEPT !.attempt = NoAttempt, !.needs = TRUE, !.requested = TRUE])
      BY <1>1 DEF Reserve
  <2>2. [y EXCEPT !.attempt = NoAttempt, !.needs = TRUE, !.requested = TRUE] \in Drivers
      BY NoAttemptIs DEF DriverTyped, Drivers
  <2>3. d' \in Drivers /\ g' = x /\ UNCHANGED agentVars /\ hist' = hist
      BY <2>1, <2>2 DEF Looping
  <2> QED BY <2>3 DEF AgentTyped, PcAt, HasPending, agentVars, DriverTyped
<1>2. CASE y.attempt.phase = "none" /\ ~ActiveArmed(x)
  <2>1. d' = y /\ g' = x /\ UNCHANGED agentVars /\ hist' = hist
      BY <1>2 DEF Reserve, Looping
  <2> QED BY <2>1 DEF AgentTyped, PcAt, HasPending, agentVars
<1>3. CASE y.attempt.phase = "none" /\ ActiveArmed(x)
  <2> DEFINE m == GoalMsg(x.id, x.rev, x.rounds + 1)
             z == [y EXCEPT !.attempt = [NoAttempt EXCEPT !.msg = m, !.phase = "queued"]]
  <2>1. \/ Blocked(x, y)
        \/ ~(x.rounds >= x.max) /\ Wake(z, Append(turnQ, m), stepQ) /\ g' = x /\ hist' = hist
      BY <1>3 DEF Reserve
  <2>2. CASE Blocked(x, y)
      BY <2>2, BlockedTyped
  <2>3. CASE ~(x.rounds >= x.max) /\ Wake(z, Append(turnQ, m), stepQ) /\ g' = x /\ hist' = hist
    <3>1. x.rounds < x.max
        BY <2>3 DEF GoalTyped, Goals
    <3>2. m \in Message /\ z \in Drivers
        BY <1>3, <3>1, ReservedIs DEF DriverTyped
    <3> HIDE DEF m, z
    <3>3. Append(turnQ, m) \in Seq(Message) /\ Append(turnQ, m) # <<>>
        BY <3>2, ItemsAppend DEF AgentTyped
    <3>4. DriverTyped(z) /\ stepQ \in SUBSET Message
        BY <3>2 DEF DriverTyped, AgentTyped
    <3>5. AgentTyped' /\ DriverTyped(d')
        BY <2>3, <3>3, <3>4, WakeTyped
    <3> QED BY <2>3, <3>5
  <2> QED BY <2>1, <2>2, <2>3
<1> QED BY <1>1, <1>2, <1>3

\* The driver's listener sees the claimed batch.
LEMMA AssembledTyped ==
    ASSUME Typed, Assembled
    PROVE  Typed'
<1>1. pc = "assemble" /\ UNCHANGED <<mounted, inputs>>
    BY DEF Assembled
<1>2. CASE \E reason : EndTurn(g, d, reason)
    BY <1>1, <1>2, EndTurnTyped DEF Typed, DriverTyped
<1>3. CASE Fence(Submitted)
  <2>1. AgentTyped' /\ DriverTyped(d')
      BY <1>1, <1>3, FenceTyped DEF Typed
  <2> QED BY <1>1, <1>3, <2>1 DEF Typed, Fence, DriverTyped
<1>4. CASE /\ pc' = "down"
           /\ UNCHANGED <<g, d, status, aborted, latch, turnQ, stepQ, claimed,
                          decision, first, limited, hist>>
    BY <1>1, <1>4 DEF Typed, AgentTyped, PcAt, HasPending, DriverTyped
<1> QED BY <1>2, <1>3, <1>4 DEF Assembled

\* The other listeners decide on the step.
LEMMA DownstreamTyped ==
    ASSUME Typed, Downstream
    PROVE  Typed'
<1>1. pc = "down" /\ UNCHANGED <<mounted, inputs>>
    BY DEF Downstream
<1>2. CASE DownstreamEnters
  <2>1. CASE Fence(Submitted)
    <3>1. AgentTyped' /\ DriverTyped(d')
        BY <1>1, <2>1, FenceTyped DEF Typed
    <3> QED BY <1>1, <2>1, <3>1 DEF Typed, Fence, DriverTyped
  <2>2. CASE /\ pc' = "outer" /\ decision' = "enter"
             /\ stepQ' = Restored \/ stepQ' = stepQ
             /\ UNCHANGED <<g, d, status, aborted, latch, turnQ, claimed, first, limited, hist>>
      BY <1>1, <2>2, RestoredIs DEF Typed, AgentTyped, PcAt, HasPending, DriverTyped
  <2> QED BY <1>2, <2>1, <2>2 DEF DownstreamEnters
<1>3. CASE DownstreamRejects
  <2> DEFINE mine == mounted # "off" /\ Rounds(claimed) # {} /\ ~aborted
             m == Submitted
             blocks == mine /\ ActiveArmed(g) /\ m.id = g.id /\ m.rev = g.rev
             y == IF mine THEN [d EXCEPT !.attempt = NoAttempt] ELSE d
  <2>1. /\ pc' = "outer" /\ decision' = "reject"
        /\ g' = IF blocks THEN Commit(g, "blocked", g.max, FALSE) ELSE g
        /\ d' = IF blocks THEN GoalChanged(y) ELSE y
        /\ UNCHANGED <<status, aborted, latch, turnQ, stepQ, claimed, first, limited, hist>>
      BY <1>3 DEF DownstreamRejects
  <2>2. DriverTyped(y)
      BY DroppedTyped DEF Typed
  <2>3. DriverTyped(d')
      BY <2>1, <2>2, RequestDriveTyped
  <2>4. "blocked" \in Phases /\ g.max \in 0 .. MaxCap /\ g \in Goals
      BY DEF Phases, Typed, GoalTyped, Goals
  <2>5. Commit(g, "blocked", g.max, FALSE) \in Goals
        /\ ~ActiveArmed(Commit(g, "blocked", g.max, FALSE))
      BY <2>4, CommitIs DEF ActiveArmed
  <2>6. GoalTyped(g')
      BY <2>1, <2>5 DEF Typed, GoalTyped
  <2> HIDE DEF y, blocks
  <2>7. AgentTyped'
      BY <1>1, <2>1 DEF Typed, AgentTyped, PcAt, HasPending
  <2> QED BY <1>1, <2>1, <2>3, <2>6, <2>7 DEF Typed, DriverTyped
<1>4. CASE DownstreamThrows
  <2>1. DriverTyped(RequestDrive([d EXCEPT !.attempt = NoAttempt]))
      BY DroppedTyped, RequestDriveTyped DEF Typed
  <2>2. PICK y, reason : DriverTyped(y) /\ EndTurn(g, y, reason)
      BY <1>4, <2>1 DEF DownstreamThrows, Typed
  <2> QED BY <1>1, <2>2, EndTurnTyped DEF Typed, DriverTyped
<1> QED BY <1>2, <1>3, <1>4 DEF Downstream

\* Folding a round counts it or records the failure; the revision stays.
LEMMA FoldRoundIs ==
    ASSUME NEW x \in Goals, NEW m \in Message
    PROVE  LET z == FoldRound(x, m) IN
           /\ z \in Goals
           /\ z.id = x.id /\ z.rev = x.rev /\ z.phase = x.phase /\ z.max = x.max
           /\ z.armed = x.armed /\ z.stored = x.stored
           /\ ActiveArmed(z) => ActiveArmed(x)
<1>1. m.round \in Nat
    BY BoundsAssumption DEF Message, BoundsAssumption
<1> QED BY <1>1 DEF FoldRound, Goals, ActiveArmed, Current

\* The round a batch submits is one of its messages.
LEMMA SubmittedIs ==
    ASSUME Rounds(claimed) # {}
    PROVE  Submitted \in claimed /\ Submitted.kind = "goal"
<1>1. \E m \in claimed : m.kind = "goal"
    BY DEF Rounds
<1> QED BY <1>1 DEF Submitted

\* The step is entered, and its round folded.
LEMMA EnterStepTyped ==
    ASSUME Typed, EnterStep
    PROVE  Typed'
<1>1. pc = "outer" /\ UNCHANGED <<mounted, inputs>>
    BY DEF EnterStep
<1>2. CASE \E reason : EndTurn(g, d, reason)
    BY <1>1, <1>2, EndTurnTyped DEF Typed, DriverTyped
<1>3. CASE /\ pc' = "step" /\ first' = FALSE
           /\ g' = IF Rounds(claimed) = {} THEN g ELSE FoldRound(g, Submitted)
           /\ d' = OnAdmitted(d, claimed)
           /\ claimed' = {} /\ decision' = "none"
           /\ UNCHANGED <<status, aborted, latch, turnQ, stepQ, limited, hist>>
  <2>1. AgentTyped'
      BY <1>1, <1>3 DEF Typed, AgentTyped, PcAt, HasPending
  <2>2. GoalTyped(g')
      BY <1>3, SubmittedIs, FoldRoundIs DEF Typed, GoalTyped, AgentTyped
  <2>3. DriverTyped(d')
      BY <1>3, OnAdmittedIs DEF Typed, DriverTyped, Blank
  <2> QED BY <1>1, <1>3, <2>1, <2>2, <2>3 DEF Typed, DriverTyped
<1> QED BY <1>2, <1>3 DEF EnterStep

\* The step ends, and with it the turn or not.
LEMMA StepTyped ==
    ASSUME Typed, StepFails \/ StepContinues \/ \E reason : StepEnds(reason)
    PROVE  Typed'
<1>1. pc = "step" /\ UNCHANGED <<mounted, inputs>>
    BY DEF StepFails, StepContinues, StepEnds
<1>2. CASE \E reason : EndTurn(g, d, reason)
    BY <1>1, <1>2, EndTurnTyped DEF Typed, DriverTyped
<1>3. CASE /\ ~aborted
           /\ pc' = "assemble" /\ claimed' = stepQ /\ stepQ' = {}
           /\ limited' \in BOOLEAN
           /\ UNCHANGED <<g, d, status, aborted, latch, turnQ, decision, first, hist>>
    BY <1>1, <1>3 DEF Typed, AgentTyped, PcAt, HasPending, DriverTyped
<1>4. limited \in BOOLEAN
    BY DEF Typed, AgentTyped
<1>5. CASE StepFails
    BY <1>2, <1>5 DEF StepFails
<1>6. CASE StepContinues
    BY <1>3, <1>4, <1>6 DEF StepContinues
<1>7. ASSUME NEW reason, StepEnds(reason) PROVE Typed'
    BY <1>2, <1>3, <1>4, <1>7 DEF StepEnds
<1> QED BY <1>5, <1>6, <1>7

\* The loop of the driver only changes its own place in it.
LEMMA LoopingTyped ==
    ASSUME AgentTyped, NEW x, GoalTyped(x), NEW y, DriverTyped(y), Looping(x, y)
    PROVE  AgentTyped' /\ GoalTyped(g') /\ DriverTyped(d') /\ hist' = hist
BY DEF Looping, AgentTyped, PcAt, HasPending, agentVars

\* The state of the checkpoint changes nothing else of the goal.
LEMMA StoringIs ==
    ASSUME NEW x, GoalTyped(x), NEW s \in {"yes", "no", "flushing"}
    PROVE  LET z == [x EXCEPT !.stored = s] IN
           /\ GoalTyped(z)
           /\ ActiveArmed(z) <=> ActiveArmed(x)
           /\ z.id = x.id /\ z.rev = x.rev /\ z.phase = x.phase /\ z.max = x.max
           /\ z.rounds = x.rounds /\ z.failed = x.failed /\ z.stored = s
BY DEF GoalTyped, Goals, ActiveArmed, Current

\* A pass of the loop.
LEMMA DriveTyped ==
    ASSUME Typed, Drive
    PROVE  Typed'
<1> DEFINE y == [d EXCEPT !.requested = FALSE]
<1>1. d.run = "loop" /\ UNCHANGED <<mounted, inputs>>
    BY DEF Drive
<1>2. mounted # "off"
    BY <1>1 DEF Typed, DriverTyped, Blank
<1>3. /\ DriverTyped([d EXCEPT !.run = "rest"])
      /\ DriverTyped(y)
      /\ DriverTyped([y EXCEPT !.needs = FALSE, !.run = "flush"])
    BY <1>2 DEF Typed, DriverTyped, Drivers
<1> HIDE DEF y
<1>4. GoalTyped([g EXCEPT !.stored = IF g.stored = "no" THEN "flushing" ELSE g.stored])
  <2> DEFINE s == IF g.stored = "no" THEN "flushing" ELSE g.stored
  <2>1. s \in {"yes", "no", "flushing"}
      BY DEF Typed, GoalTyped, Goals
  <2> HIDE DEF s
  <2>2. GoalTyped([g EXCEPT !.stored = s])
      BY <2>1, StoringIs DEF Typed
  <2> QED BY <2>2 DEF s
<1>5. \/ \E x, z : GoalTyped(x) /\ DriverTyped(z) /\ Looping(x, z)
      \/ mounted = "on" /\ Reserve(g, y)
    BY <1>3, <1>4 DEF Drive, y, Typed
<1> QED BY <1>1, <1>3, <1>5, LoopingTyped, ReserveTyped DEF Typed, DriverTyped

\* A checkpoint is answered and its pass goes on.
LEMMA FlushSettlesTyped ==
    ASSUME Typed, FlushSettles
    PROVE  Typed'
<1> DEFINE y == [d EXCEPT !.run = "loop"]
           w == [g EXCEPT !.stored = IF g.stored = "flushing" THEN "no" ELSE g.stored]
           x == [g EXCEPT !.stored = IF g.stored = "flushing" THEN "yes" ELSE g.stored]
<1>1. d.run = "flush" /\ UNCHANGED <<mounted, inputs>>
    BY DEF FlushSettles
<1>2. mounted # "off"
    BY <1>1 DEF Typed, DriverTyped, Blank
<1>3. DriverTyped(y)
    BY <1>2 DEF Typed, DriverTyped, Drivers
<1>4. GoalTyped(x) /\ GoalTyped(w)
  <2> DEFINE s == IF g.stored = "flushing" THEN "no" ELSE g.stored
             t == IF g.stored = "flushing" THEN "yes" ELSE g.stored
  <2>1. {s, t} \subseteq {"yes", "no", "flushing"}
      BY DEF Typed, GoalTyped, Goals
  <2> HIDE DEF s, t
  <2>2. GoalTyped([g EXCEPT !.stored = s]) /\ GoalTyped([g EXCEPT !.stored = t])
      BY <2>1, StoringIs DEF Typed
  <2> QED BY <2>2 DEF s, t
<1>5. \/ Looping(Disarm(w), y)
      \/ mounted = "on" /\ Reserve(x, y)
      \/ Looping(x, y)
    BY DEF FlushSettles, ReadyToDrive
<1> HIDE DEF w, x, y
<1>6. GoalTyped(Disarm(w))
    BY <1>4, DisarmIs DEF GoalTyped
<1> QED BY <1>1, <1>3, <1>4, <1>5, <1>6, LoopingTyped, ReserveTyped DEF Typed, DriverTyped

\* A latched wake is replayed.
LEMMA ReplayWakeTyped ==
    ASSUME Typed, ReplayWake
    PROVE  Typed'
<1>1. UNCHANGED <<g, mounted, inputs, hist>>
    BY DEF ReplayWake
<1>2. turnQ \in Seq(Message) /\ stepQ \in SUBSET Message
    BY DEF Typed, AgentTyped
<1>3. CASE OpenTurn(d, turnQ, stepQ)
    BY <1>1, <1>2, <1>3, OpenTurnTyped DEF Typed, DriverTyped
<1>4. CASE /\ latch' = FALSE
           /\ UNCHANGED <<d, status, pc, aborted, turnQ, stepQ, claimed,
                          decision, first, limited>>
    BY <1>1, <1>4 DEF Typed, AgentTyped, PcAt, HasPending, DriverTyped
<1> QED BY <1>3, <1>4 DEF ReplayWake

\* A change of the goal makes one more revision, unless it creates or clears it.
Revision(x, phase, max, armed) ==
    /\ Free /\ Current(g) /\ g.rev < MaxRevision
    /\ phase \in Phases /\ max \in 0 .. MaxCap /\ armed \in BOOLEAN
    /\ x = Commit(g, phase, max, armed)

Fresh(max) == [NoGoal EXCEPT !.id = g.id + 1, !.rev = 1, !.phase = "active",
                             !.max = max, !.armed = TRUE, !.stored = "no"]
Tombstone == [NoGoal EXCEPT !.id = g.id]

\* What the operations on the goal come down to.
Operation(x) ==
    \/ \E phase, max, armed : phase # "none" /\ Revision(x, phase, max, armed)
    \/ /\ Free /\ g.phase \in {"none", "complete"} /\ g.id < MaxGoals
       /\ \E max \in 1 .. MaxCap : x = Fresh(max)
    \/ Free /\ x = Tombstone

Operated == \E max \in 1 .. MaxCap : Create(max) \/ Edit(max)
Paused == \E host \in BOOLEAN : Pause(host)

\* Every operation of the service commits a goal with the type it had.
LEMMA OperationsAre ==
    ASSUME Typed, Operated \/ Paused \/ Resume \/ Complete \/ Block \/ Clear
    PROVE  /\ \E x : \E abort \in BOOLEAN : Operation(x) /\ Change(x, abort)
           /\ Renewed \/ Touched
<1> DEFINE To(phase, max, armed) == Commit(g, phase, max, armed)
<1>1. /\ g.max \in 0 .. MaxCap /\ g.armed \in BOOLEAN /\ g.phase \in Phases
      /\ {"active", "paused", "blocked", "complete"} \subseteq Phases
      /\ 1 .. MaxCap \subseteq 0 .. MaxCap
    BY BoundsAssumption DEF Typed, GoalTyped, Goals, Phases, BoundsAssumption
<1>2. ASSUME NEW phase \in Phases, NEW max \in 0 .. MaxCap, NEW armed \in BOOLEAN,
             phase # "none", Changeable
      PROVE  Operation(To(phase, max, armed))
  <2>1. Revision(To(phase, max, armed), phase, max, armed)
      BY <1>2 DEF Revision, Changeable
  <2> QED BY <1>2, <2>1 DEF Operation
<1> HIDE DEF To
<1>3. ASSUME NEW max \in 1 .. MaxCap, Create(max)
      PROVE  Operation(Fresh(max)) /\ Change(Fresh(max), FALSE) /\ Renewed
    BY <1>3 DEF Create, Operation, Fresh
<1>4. ASSUME NEW max \in 1 .. MaxCap, Edit(max)
      PROVE  /\ Operation(To(g.phase, max, g.armed)) /\ Change(To(g.phase, max, g.armed), FALSE)
             /\ Touched
  <2>1. Changeable /\ g.phase # "none"
      BY <1>4 DEF Edit, Changeable, Current
  <2>2. Operation(To(g.phase, max, g.armed))
      BY <1>1, <1>2, <2>1
  <2> QED BY <1>4, <2>2 DEF Edit, To
<1>5. ASSUME NEW host \in BOOLEAN, Pause(host)
      PROVE  /\ Operation(To("paused", g.max, FALSE)) /\ Change(To("paused", g.max, FALSE), host)
             /\ Touched
  <2>1. Operation(To("paused", g.max, FALSE))
      BY <1>1, <1>2, <1>5 DEF Pause
  <2> QED BY <1>5, <2>1 DEF Pause, To
<1>6. ASSUME Resume
      PROVE  /\ Operation(To("active", g.max, TRUE)) /\ Change(To("active", g.max, TRUE), FALSE)
             /\ Renewed
  <2>1. Operation(To("active", g.max, TRUE))
      BY <1>1, <1>2, <1>6 DEF Resume
  <2> QED BY <1>6, <2>1 DEF Resume, To
<1>7. ASSUME Complete
      PROVE  /\ Operation(To("complete", g.max, FALSE)) /\ Change(To("complete", g.max, FALSE), FALSE)
             /\ Touched
  <2>1. Operation(To("complete", g.max, FALSE))
      BY <1>1, <1>2, <1>7 DEF Complete
  <2> QED BY <1>7, <2>1 DEF Complete, To
<1>8. ASSUME Block
      PROVE  /\ Operation(To("blocked", g.max, FALSE)) /\ Change(To("blocked", g.max, FALSE), FALSE)
             /\ Touched
  <2>1. Operation(To("blocked", g.max, FALSE))
      BY <1>1, <1>2, <1>8 DEF Block
  <2> QED BY <1>8, <2>1 DEF Block, To
<1>9. ASSUME Clear
      PROVE  Operation(Tombstone) /\ Change(Tombstone, FALSE) /\ Touched
    BY <1>9 DEF Clear, Operation, Tombstone
<1>10. FALSE \in BOOLEAN
    OBVIOUS
<1>11. CASE Operated
    BY <1>3, <1>4, <1>10, <1>11 DEF Operated
<1>12. CASE Paused
    BY <1>5, <1>12 DEF Paused
<1> QED BY <1>6, <1>7, <1>8, <1>9, <1>10, <1>11, <1>12

\* A created goal has a new id and its first revision.
LEMMA FreshIs ==
    ASSUME g \in Goals
    PROVE  /\ \A max \in 1 .. MaxCap :
                /\ g.id < MaxGoals => Fresh(max) \in Goals
                /\ Fresh(max).id = g.id + 1 /\ Fresh(max).rev = 1
                /\ Fresh(max).phase = "active" /\ Fresh(max).max = max
           /\ Tombstone \in Goals
           /\ Tombstone.id = g.id /\ Tombstone.rev = 0 /\ Tombstone.phase = "none"
           /\ ~ActiveArmed(Tombstone)
<1>1. 0 \in 0 .. MaxCap /\ 1 .. MaxCap \subseteq 0 .. MaxCap
    BY BoundsAssumption DEF BoundsAssumption
<1>2. g.id \in 0 .. MaxGoals /\ (g.id < MaxGoals => g.id + 1 \in 0 .. MaxGoals)
    BY BoundsAssumption DEF BoundsAssumption, Goals
<1> QED BY <1>1, <1>2 DEF Fresh, Tombstone, NoGoal, Goals, Phases, ActiveArmed, Current

\* What an operation commits is a goal.
LEMMA OperationTyped ==
    ASSUME GoalTyped(g), NEW x, Operation(x)
    PROVE  GoalTyped(x)
<1>0. g \in Goals /\ MaxRevision \in Nat
    BY BoundsAssumption DEF GoalTyped, BoundsAssumption
<1>1. ASSUME NEW phase, NEW max, NEW armed, Revision(x, phase, max, armed)
      PROVE  GoalTyped(x)
  <2>1. x \in Goals /\ x.rev = g.rev + 1 /\ g.rev < MaxRevision
      BY <1>0, <1>1, CommitIs DEF Revision
  <2> QED BY <1>0, <2>1 DEF GoalTyped, Goals
<1>2. ASSUME g.id < MaxGoals, NEW max \in 1 .. MaxCap, x = Fresh(max)
      PROVE  GoalTyped(x)
    BY <1>0, <1>2, FreshIs DEF GoalTyped
<1>3. CASE x = Tombstone
    BY <1>0, <1>3, FreshIs DEF GoalTyped
<1> QED BY <1>1, <1>2, <1>3 DEF Operation

\* The operations of the service keep the types.
LEMMA OperatedTyped ==
    ASSUME Typed, Operated \/ Paused \/ Resume \/ Complete \/ Block \/ Clear
    PROVE  Typed'
<1>1. PICK x : \E abort \in BOOLEAN : Operation(x) /\ Change(x, abort)
    BY OperationsAre
<1>2. AgentTyped' /\ GoalTyped(g') /\ DriverTyped(d') /\ UNCHANGED <<mounted, inputs>>
    BY <1>1, OperationTyped, ChangeTyped DEF Typed, Change
<1>3. hist' \in Histories
  <2>1. Renewed \/ Touched
      BY OperationsAre
  <2>2. hist \in Histories
      BY DEF Typed
  <2> QED BY <2>1, <2>2 DEF Renewed, Touched, Histories
<1> QED BY <1>2, <1>3 DEF Typed, DriverTyped

\* Every input the bound allows is a message.
LEMMA InputIs ==
    ASSUME inputs \in 0 .. MaxInput, inputs < MaxInput,
           NEW kind \in {"user", "steer", "context"}
    PROVE  LET m == InputMsg(kind, inputs + 1) IN
           /\ m \in Message /\ m.kind = kind /\ m.id = inputs + 1 /\ kind # "goal"
           /\ inputs + 1 \in 0 .. MaxInput
<1>1. inputs + 1 \in 1 .. MaxInput /\ inputs + 1 \in 0 .. MaxInput
    BY BoundsAssumption DEF BoundsAssumption
<1> QED BY <1>1 DEF InputMsg, Message

\* A waking prompt keeps the types.
LEMMA SendTyped ==
    ASSUME Typed, NEW kind \in {"user", "steer"}, Send(kind)
    PROVE  Typed'
<1> DEFINE m == InputMsg(kind, inputs + 1)
<1>1. /\ inputs' = inputs + 1 /\ inputs < MaxInput /\ UNCHANGED <<g, mounted, hist>>
      /\ \/ Wake(Competes(d), Append(turnQ, m), stepQ)
         \/ Wake(d, turnQ, stepQ \union {m})
    BY DEF Send
<1>2. m \in Message /\ inputs + 1 \in 0 .. MaxInput
    BY <1>1, InputIs DEF Typed
<1> HIDE DEF m
<1>3. /\ Append(turnQ, m) \in Seq(Message) /\ Append(turnQ, m) # <<>>
      /\ turnQ \in Seq(Message) /\ stepQ \in SUBSET Message
      /\ stepQ \union {m} \in SUBSET Message /\ stepQ \union {m} # {}
    BY <1>2, ItemsAppend DEF Typed, AgentTyped
<1>4. DriverTyped(Competes(d))
    BY CompetesIs DEF Typed, DriverTyped
<1>5. AgentTyped' /\ DriverTyped(d')
    BY <1>1, <1>3, <1>4, WakeTyped DEF Typed
<1> QED BY <1>1, <1>2, <1>5 DEF Typed, DriverTyped

\* Injected context keeps the types.
LEMMA InjectTyped ==
    ASSUME Typed, Inject
    PROVE  Typed'
<1> DEFINE m == InputMsg("context", inputs + 1)
<1>1. m \in Message /\ inputs + 1 \in 0 .. MaxInput
    BY InputIs DEF Typed, Inject
<1>2. /\ inputs' = inputs + 1 /\ stepQ' = stepQ \union {m}
      /\ UNCHANGED <<g, d, mounted, status, pc, aborted, latch, turnQ, claimed,
                     decision, first, limited, hist>>
    BY DEF Inject
<1> HIDE DEF m
<1> QED BY <1>1, <1>2 DEF Typed, AgentTyped, PcAt, HasPending, DriverTyped

\* A cancel empties the inbox and the latch.
LEMMA CancelWithTyped ==
    ASSUME AgentTyped, NEW y, DriverTyped(y), CancelWith(y)
    PROVE  AgentTyped' /\ DriverTyped(d')
<1>1. DriverTyped(d')
    BY OnDiscardedIs DEF CancelWith, DriverTyped, Blank
<1>2. <<>> \in Seq(Message) /\ {} \subseteq Message
    OBVIOUS
<1> QED BY <1>1, <1>2 DEF CancelWith, AgentTyped, PcAt, HasPending

\* A user's cancel keeps the types.
LEMMA CancelTyped ==
    ASSUME Typed, Cancel
    PROVE  Typed'
<1>1. AgentTyped' /\ DriverTyped(d')
    BY CancelWithTyped DEF Cancel, Typed
<1>2. UNCHANGED <<g, mounted, inputs>>
    BY DEF Cancel, CancelWith
<1>3. hist' \in Histories
  <2> DEFINE hit == IF d.attempt.phase = "none" \/ d.attempt.msg.id # g.id \/ ~ActiveArmed(g)
                      THEN hist.hit
                    ELSE IF d.attempt.msg.rev = g.rev /\ status = "running" /\ ~aborted
                      THEN "exact" ELSE "other"
             cut == \/ hist.cut
                    \/ status = "maint" /\ (d.competing \/ d.attempt.phase # "none")
  <2>1. hist' = [hit |-> hit, cut |-> cut]
      BY DEF Cancel
  <2>2. hit \in {"no", "exact", "other"} /\ cut \in BOOLEAN
      BY DEF Typed, Histories
  <2> HIDE DEF hit, cut
  <2> QED BY <2>1, <2>2 DEF Histories
<1> QED BY <1>1, <1>2, <1>3 DEF Typed, DriverTyped

\* Maintenance keeps the types.
LEMMA MaintenanceTyped ==
    ASSUME Typed, BeginMaintenance \/ EndMaintenance
    PROVE  Typed'
<1>1. CASE BeginMaintenance
    BY <1>1 DEF BeginMaintenance, Typed, AgentTyped, PcAt, HasPending, DriverTyped
<1>2. CASE EndMaintenance
    BY <1>2 DEF EndMaintenance, Typed, AgentTyped, PcAt, HasPending, DriverTyped
<1> QED BY <1>1, <1>2

\* The round of a driver that stops is stale.
Staled(y) == IF y.attempt.phase = "none" THEN y
             ELSE [y EXCEPT !.attempt = [y.attempt EXCEPT !.stale = TRUE]]

\* Unloading makes the attempt stale, at the same round.
LEMMA StaledIs ==
    ASSUME NEW y \in Drivers
    PROVE  /\ Staled(y) \in Drivers /\ SameRound(y, Staled(y)) /\ SamePass(y, Staled(y))
           /\ Staled(y).competing = y.competing
<1> DEFINE a == [y.attempt EXCEPT !.stale = TRUE]
<1>1. a \in Attempts /\ a.msg = y.attempt.msg /\ a.phase = y.attempt.phase
    BY DEF Drivers, Attempts
<1>2. Staled(y) = IF y.attempt.phase = "none" THEN y ELSE [y EXCEPT !.attempt = a]
    BY DEF Staled
<1> HIDE DEF a
<1> QED BY <1>1, <1>2 DEF Drivers, SameRound, SamePass

\* Unloading disarms the goal, and cancels a turn that carries a round.
LEMMA UnloadIs ==
    ASSUME Unload
    PROVE  /\ Free /\ mounted = "on" /\ mounted' = "stopping" /\ g' = Disarm(g) /\ hist' = hist
           /\ inputs' = inputs
           /\ \/ CancelWith(Staled(d)) /\ Staled(d).attempt.phase # "none" /\ status = "running"
              \/ d' = Staled(d) /\ UNCHANGED agentVars
BY DEF Unload, Staled, CancelWith

\* Unloading keeps the types.
LEMMA UnloadTyped ==
    ASSUME Typed, Unload
    PROVE  Typed'
<1>1. DriverTyped(Staled(d))
    BY UnloadIs, StaledIs DEF Typed, DriverTyped
<1>2. AgentTyped' /\ DriverTyped(d')
  <2>1. CASE CancelWith(Staled(d))
      BY <1>1, <2>1, CancelWithTyped DEF Typed
  <2>2. CASE d' = Staled(d) /\ UNCHANGED agentVars
      BY <1>1, <2>2 DEF Typed, AgentTyped, PcAt, HasPending, agentVars
  <2> QED BY <2>1, <2>2, UnloadIs
<1>3. GoalTyped(g')
    BY UnloadIs, DisarmIs DEF Typed, GoalTyped
<1> QED BY <1>2, <1>3, UnloadIs DEF Typed, DriverTyped

\* A driver just mounted has nothing under way.
LEMMA FreshDriverIs == FreshDriver \in Drivers /\ Blank(FreshDriver) /\ ~FreshDriver.needs
BY NoAttemptIs DEF FreshDriver, NoAttempt, Blank

\* Unloaded, loaded again or restarted: the types stay.
LEMMA LifetimeTyped ==
    ASSUME Typed, Unloaded \/ Load \/ Restart
    PROVE  Typed'
<1>1. CASE Unloaded
  <2>1. UNCHANGED <<g, agentVars, inputs, hist>> /\ mounted' = "off" /\ d' = FreshDriver
      BY <1>1 DEF Unloaded
  <2> QED BY <2>1, FreshDriverIs DEF Typed, DriverTyped, AgentTyped, PcAt, HasPending, agentVars
<1>2. CASE Load
  <2>1. UNCHANGED <<d, agentVars, inputs, hist>> /\ mounted' = "on" /\ g' = Disarm(g)
      BY <1>2 DEF Load
  <2>2. GoalTyped(g')
      BY <2>1, DisarmIs DEF Typed, GoalTyped
  <2> QED BY <2>1, <2>2 DEF Typed, DriverTyped, AgentTyped, PcAt, HasPending, agentVars
<1>3. CASE Restart
  <2>1. /\ g' = [g EXCEPT !.armed = FALSE, !.stored = "yes"] /\ d' = FreshDriver /\ mounted' = "on"
        /\ status' = "idle" /\ pc' = "off" /\ aborted' = FALSE /\ latch' = FALSE
        /\ claimed' = {} /\ decision' = "none" /\ first' = TRUE /\ limited' = FALSE
        /\ hist' = [hit |-> "no", cut |-> FALSE]
        /\ UNCHANGED <<turnQ, stepQ, inputs>>
      BY <1>3 DEF Restart
  <2>2. GoalTyped(g') /\ hist' \in Histories
      BY <2>1 DEF Typed, GoalTyped, Goals, ActiveArmed, Current, Histories
  <2>3. AgentTyped'
      BY <2>1 DEF Typed, AgentTyped, PcAt, HasPending
  <2> QED BY <2>1, <2>2, <2>3, FreshDriverIs DEF Typed, DriverTyped
<1> QED BY <1>1, <1>2, <1>3

\* The steps by name: every proof that a step keeps something goes along these.
LEMMA StepsAre ==
    ASSUME Next
    PROVE  \/ Assembled \/ Downstream \/ EnterStep
           \/ StepFails \/ StepContinues \/ \E reason \in {"completed", "max-tokens"} : StepEnds(reason)
           \/ Drive \/ FlushSettles \/ ReplayWake \/ Unloaded
           \/ Operated \/ Paused \/ Resume \/ Complete \/ Block \/ Clear
           \/ \E kind \in {"user", "steer"} : Send(kind)
           \/ Inject \/ Cancel \/ BeginMaintenance \/ EndMaintenance
           \/ Unload \/ Load \/ Restart
BY DEF Next, AgentStep, DriverStep, HostStep, Operated, Paused

\* The types hold at the start.
LEMMA TypedInit == Init => Typed
<1> SUFFICES ASSUME Init PROVE Typed
    OBVIOUS
<1>1. AgentTyped
  <2>1. <<>> \in Seq(Message) /\ {} \subseteq Message
      OBVIOUS
  <2> QED BY <2>1 DEF Init, AgentTyped, PcAt, HasPending
<1>2. GoalTyped(g) /\ DriverTyped(d)
    BY NoAttemptIs DEF Init, GoalTyped, DriverTyped, NoGoal, ActiveArmed, Current
<1>3. inputs \in 0 .. MaxInput
    BY BoundsAssumption DEF Init, BoundsAssumption
<1> QED BY <1>1, <1>2, <1>3 DEF Init, Typed, Histories

\* Every step keeps the types.
LEMMA TypedStep ==
    ASSUME Typed, [Next]_vars
    PROVE  Typed'
<1>1. CASE Next
    BY <1>1, StepsAre, AssembledTyped, DownstreamTyped, EnterStepTyped, StepTyped, DriveTyped,
       FlushSettlesTyped, ReplayWakeTyped, OperatedTyped, SendTyped, InjectTyped, CancelTyped,
       MaintenanceTyped, UnloadTyped, LifetimeTyped
<1>2. CASE UNCHANGED vars
    BY <1>2 DEF vars, Typed, DriverTyped, AgentTyped, PcAt, HasPending
<1> QED BY <1>1, <1>2

\* The types hold in every behaviour.
LEMMA AlwaysTyped == Spec => []Typed
<1>1. Typed /\ [Next]_vars => Typed'
    BY TypedStep
<1> QED BY <1>1, TypedInit, PTL DEF Spec

\* The inductive form implies the type invariant of the runs.
LEMMA TypedHas == Typed => TypeOK
<1>1. ASSUME NEW q \in Seq(Message)
      PROVE  Items(q) \subseteq Message
    BY <1>1 DEF Items
<1> QED BY <1>1 DEF Typed, TypeOK, GoalTyped, DriverTyped, AgentTyped, PcAt, Goals, Phases,
                    Drivers, Attempts

\* The goal, the driver's attempt and loop, the inbox and the turn keep their
\* types and fit together: a running agent has an open turn, a wake is latched
\* only while something is pending (agent.ts, goal-round-driver/src/index.ts).
THEOREM TypeCorrect == Spec => []TypeOK
BY AlwaysTyped, TypedHas, PTL

-----------------------------------------------------------------------------
(* Checkpoints: a round is of a stored revision.                           *)

\* The attempt is of this goal or an earlier one, of this revision or an
\* earlier one, and what it is of is stored and allows its round.
StampedAt(x, y) ==
    LET m == y.attempt.msg IN
    /\ x.phase = "none" => x.rev = 0
    /\ x.phase # "none" => x.rev >= 1
    /\ y.attempt.phase # "none" =>
        /\ m.kind = "goal" /\ m.rev >= 1 /\ m.id <= x.id
        /\ m.id = x.id /\ x.phase # "none" => m.rev <= x.rev
        /\ m.id = x.id /\ m.rev = x.rev => x.stored = "yes" /\ m.round <= x.max

\* A goal with authority is stored, or its checkpoint is due or under way.
DueAt(x, y) ==
    mounted = "on" /\ ActiveArmed(x) =>
        x.stored = "yes" \/ y.needs \/ (x.stored = "flushing" /\ y.run = "flush")

Stamps(x, y) == StampedAt(x, y) /\ DueAt(x, y)

NoNewRound(y, w) ==
    w.attempt.phase # "none" => y.attempt.phase # "none" /\ w.attempt.msg = y.attempt.msg

\* z is the goal x at the same revision, stored if x was.
SameRevision(x, z) ==
    /\ z.id = x.id /\ z.rev = x.rev /\ z.phase = x.phase /\ z.max = x.max
    /\ x.stored = "yes" => z.stored = "yes"

\* z is x after a commit.
NextRevision(x, z) ==
    /\ z.id = x.id /\ z.rev = x.rev + 1
    /\ x.phase # "none" /\ z.phase # "none"

\* What every step but a reservation, a checkpoint, a new goal and a cleared
\* one does to goal and driver.
Moves(x, y, z, w) ==
    /\ NoNewRound(y, w)
    /\ \/ /\ SameRevision(x, z) /\ x.stored = z.stored
          /\ ActiveArmed(z) => ActiveArmed(x)
          /\ y.needs => w.needs
          /\ y.run = "flush" => w.run = "flush"
       \/ /\ NextRevision(x, z)
          /\ mounted = "on" /\ ActiveArmed(z) => w.needs

\* Such a step keeps the attempt of a stored revision.
LEMMA StampMoves ==
    ASSUME NEW x \in Goals, NEW z \in Goals, NEW y \in Drivers, NEW w \in Drivers,
           Stamps(x, y), Moves(x, y, z, w)
    PROVE  Stamps(z, w)
<1>1. y.attempt.msg.id \in Nat /\ y.attempt.msg.rev \in Nat /\ y.attempt.msg.round \in Nat
  <2>1. y.attempt.msg \in Message
      BY DEF Drivers, Attempts
  <2> QED BY <2>1, BoundsAssumption DEF Message, BoundsAssumption
<1>2. {x.id, x.rev, x.max, z.id, z.rev, z.max} \subseteq Nat
    BY BoundsAssumption DEF Goals, BoundsAssumption
<1>3. StampedAt(z, w)
    BY <1>1, <1>2 DEF Moves, Stamps, StampedAt, SameRevision, NextRevision, NoNewRound
<1>4. DueAt(z, w)
    BY DEF Moves, Stamps, DueAt, SameRevision, NextRevision
<1> QED BY <1>3, <1>4 DEF Stamps

\* A round that goes on is not a new one.
LEMMA SameRoundIs ==
    ASSUME NEW y, NEW w, SameRound(y, w)
    PROVE  NoNewRound(y, w)
BY DEF SameRound, NoNewRound

\* The end of a turn disarms at most.
LEMMA TurnEndMoves ==
    ASSUME NEW x \in Goals, NEW y \in Drivers, NEW reason
    PROVE  Moves(x, y, TurnEndGoal(x, y, reason), TurnEndDriver(y, reason))
<1> DEFINE z == TurnEndGoal(x, y, reason)
           w == TurnEndDriver(y, reason)
<1>1. /\ z = x \/ ~ActiveArmed(z)
      /\ z.id = x.id /\ z.rev = x.rev /\ z.phase = x.phase /\ z.max = x.max
      /\ z.stored = x.stored
    BY TurnEndGoalIs
<1>2. SameRound(y, w) /\ SamePass(y, w)
    BY TurnEndDriverIs
<1> HIDE DEF z, w
<1>3. Moves(x, y, z, w)
    BY <1>1, <1>2 DEF Moves, NoNewRound, SameRound, SamePass, SameRevision
<1> QED BY <1>3 DEF z, w

\* A commit keeps the stamps if an armed goal asks for its checkpoint.
LEMMA CommitMoves ==
    ASSUME NEW x \in Goals, x.phase # "none", NEW y \in Drivers, NEW w \in Drivers,
           NEW phase \in Phases, phase # "none", NEW max \in 0 .. MaxCap, NEW armed \in BOOLEAN,
           NoNewRound(y, w), mounted = "on" => ~ActiveArmed(Commit(x, phase, max, armed)) \/ w.needs
    PROVE  Moves(x, y, Commit(x, phase, max, armed), w)
<1> DEFINE z == Commit(x, phase, max, armed)
<1>1. z.id = x.id /\ z.rev = x.rev + 1 /\ z.phase = phase
    BY CommitIs
<1> HIDE DEF z
<1>2. Moves(x, y, z, w)
  <2>1. mounted = "on" => ~ActiveArmed(z) \/ w.needs
      BY DEF z
  <2> QED BY <1>1, <2>1 DEF Moves, NextRevision
<1> QED BY <1>2 DEF z

\* The idle edge pauses at most, and asks for the checkpoint of it.
LEMMA IdleMoves ==
    ASSUME NEW x \in Goals, NEW y \in Drivers
    PROVE  Moves(x, y, IdleGoal(x, y), IdleDriver(x, y))
<1> DEFINE z == IdleGoal(x, y)
           w == IdleDriver(x, y)
<1>1. /\ w \in Drivers
      /\ w.attempt = y.attempt \/ w.attempt.phase = "none"
      /\ y.needs => w.needs
      /\ w.run = "flush" <=> y.run = "flush"
    BY IdleDriverIs
<1>2. CASE z = x
  <2> HIDE DEF w
  <2>1. Moves(x, y, x, w)
      BY <1>1 DEF Moves, NoNewRound, SameRevision
  <2> QED BY <1>2, <2>1 DEF w
<1>3. CASE ActiveArmed(x) /\ z = Commit(x, "paused", x.max, FALSE) /\ ~ActiveArmed(z)
  <2>1. x.phase # "none" /\ "paused" \in Phases /\ x.max \in 0 .. MaxCap
      BY <1>3 DEF ActiveArmed, Current, Phases, Goals
  <2>2. NoNewRound(y, w)
      BY <1>1 DEF NoNewRound
  <2> HIDE DEF w, z
  <2>3. Moves(x, y, Commit(x, "paused", x.max, FALSE), w)
      BY <1>1, <1>3, <2>1, <2>2, CommitMoves
  <2> QED BY <1>3, <2>3 DEF w, z
<1> QED BY <1>2, <1>3, IdleGoalIs

\* Opening a turn stamps no round.
LEMMA OpenTurnStamps ==
    ASSUME NEW x \in Goals, NEW y \in Drivers, Stamps(x, y), NEW tq, NEW sq, OpenTurn(y, tq, sq)
    PROVE  Stamps(x, d')
<1>1. PICK msgs : d' = OnClaimed(y, msgs)
    BY DEF OpenTurn
<1>2. d' \in Drivers /\ SameRound(y, d') /\ SamePass(y, d')
    BY <1>1, OnClaimedIs
<1>3. Moves(x, y, x, d')
    BY <1>2 DEF Moves, NoNewRound, SameRound, SamePass, SameRevision
<1> QED BY <1>2, <1>3, StampMoves

\* Ending a turn stamps no round.
LEMMA EndTurnStamps ==
    ASSUME NEW x \in Goals, NEW y \in Drivers, Stamps(x, y), NEW reason, EndTurn(x, y, reason)
    PROVE  Stamps(g', d')
<1> DEFINE x1 == TurnEndGoal(x, y, reason)
           y1 == TurnEndDriver(y, reason)
<1>1. x1 \in Goals /\ y1 \in Drivers
    BY TurnEndGoalIs, TurnEndDriverIs
<1>2. Moves(x, y, x1, y1)
    BY TurnEndMoves
<1>3. \/ OpenTurn(y1, turnQ, stepQ) /\ g' = x1
      \/ g' = IdleGoal(x1, y1) /\ d' = IdleDriver(x1, y1)
    BY DEF EndTurn
<1> HIDE DEF x1, y1
<1>4. Stamps(x1, y1)
    BY <1>1, <1>2, StampMoves
<1>5. CASE OpenTurn(y1, turnQ, stepQ) /\ g' = x1
    BY <1>1, <1>4, <1>5, OpenTurnStamps
<1>6. CASE g' = IdleGoal(x1, y1) /\ d' = IdleDriver(x1, y1)
  <2>1. IdleGoal(x1, y1) \in Goals /\ IdleDriver(x1, y1) \in Drivers
      BY <1>1, IdleGoalIs, IdleDriverIs
  <2>2. Stamps(IdleGoal(x1, y1), IdleDriver(x1, y1))
      BY <1>1, <1>4, <2>1, IdleMoves, StampMoves
  <2> QED BY <1>6, <2>2
<1> QED BY <1>3, <1>5, <1>6

\* A wake stamps no round.
LEMMA WakeStamps ==
    ASSUME NEW x \in Goals, NEW y \in Drivers, Stamps(x, y), NEW tq, NEW sq, Wake(y, tq, sq)
    PROVE  Stamps(x, d')
BY OpenTurnStamps DEF Wake

\* A blocked goal has no authority and owes no checkpoint.
LEMMA BlockedStamps ==
    ASSUME NEW x \in Goals, NEW y \in Drivers, ActiveArmed(x), Stamps(x, y), Blocked(x, y)
    PROVE  Stamps(g', d')
<1>1. g' = Commit(x, "blocked", x.max, FALSE) /\ d' = GoalChanged(y)
    BY DEF Blocked, Looping
<1>2. x.phase # "none" /\ "blocked" \in Phases /\ x.max \in 0 .. MaxCap /\ FALSE \in BOOLEAN
    BY DEF ActiveArmed, Current, Phases, Goals
<1>3. /\ Commit(x, "blocked", x.max, FALSE) \in Goals
      /\ ~ActiveArmed(Commit(x, "blocked", x.max, FALSE))
    BY <1>2, CommitIs DEF ActiveArmed
<1>4. GoalChanged(y) \in Drivers /\ NoNewRound(y, GoalChanged(y))
    BY GoalChangedIs DEF NoNewRound
<1>5. Moves(x, y, Commit(x, "blocked", x.max, FALSE), GoalChanged(y))
    BY <1>2, <1>3, <1>4, CommitMoves
<1> QED BY <1>1, <1>3, <1>4, <1>5, StampMoves

\* A round is stamped with the revision that was stored for it.
LEMMA ReserveStamps ==
    ASSUME NEW x, GoalTyped(x), NEW y \in Drivers, Stamps(x, y),
           mounted = "on", ~y.needs, y.run = "loop", Reserve(x, y)
    PROVE  Stamps(g', d')
<1>0. x \in Goals
    BY DEF GoalTyped
<1>1. CASE y.attempt.phase # "none"
  <2> DEFINE w == [y EXCEPT !.attempt = NoAttempt, !.needs = TRUE, !.requested = TRUE]
  <2>1. g' = x /\ d' = w
      BY <1>1 DEF Reserve, Looping
  <2>2. /\ w \in Drivers /\ w.attempt = NoAttempt /\ w.needs /\ w.run = y.run
      BY NoAttemptIs DEF Drivers
  <2>3. NoAttempt.phase = "none"
      BY DEF NoAttempt
  <2> HIDE DEF w
  <2>4. Moves(x, y, x, w)
      BY <2>2, <2>3 DEF Moves, NoNewRound, SameRevision
  <2> QED BY <1>0, <2>1, <2>2, <2>4, StampMoves
<1>2. CASE y.attempt.phase = "none" /\ ~ActiveArmed(x)
    BY <1>2 DEF Reserve, Looping
<1>3. CASE y.attempt.phase = "none" /\ ActiveArmed(x)
  <2> DEFINE m == GoalMsg(x.id, x.rev, x.rounds + 1)
             z == [y EXCEPT !.attempt = [NoAttempt EXCEPT !.msg = m, !.phase = "queued"]]
  <2>1. \/ Blocked(x, y)
        \/ ~(x.rounds >= x.max) /\ Wake(z, Append(turnQ, m), stepQ) /\ g' = x
      BY <1>3 DEF Reserve
  <2>2. CASE Blocked(x, y)
      BY <1>0, <1>3, <2>2, BlockedStamps
  <2>3. CASE ~(x.rounds >= x.max) /\ Wake(z, Append(turnQ, m), stepQ) /\ g' = x
    <3>1. x.rounds < x.max /\ x.rounds + 1 <= x.max /\ x.id \in Nat /\ x.rev \in Nat
        BY <2>3, BoundsAssumption DEF GoalTyped, Goals, BoundsAssumption
    <3>2. /\ z \in Drivers /\ SamePass(y, z)
          /\ z.attempt.msg = m /\ z.attempt.phase = "queued"
        BY <1>3, <3>1, ReservedIs
    <3>3. m.kind = "goal" /\ m.id = x.id /\ m.rev = x.rev /\ m.round = x.rounds + 1
        BY DEF GoalMsg
    <3> HIDE DEF m, z
    <3>4. x.stored = "yes"
        BY <1>3 DEF Stamps, DueAt
    <3>5. x.phase # "none" /\ x.rev >= 1
        BY <1>3 DEF Stamps, StampedAt, ActiveArmed, Current
    <3>6. Stamps(x, z)
        BY <3>1, <3>2, <3>3, <3>4, <3>5 DEF Stamps, StampedAt, DueAt
    <3>7. Stamps(x, d')
        BY <1>0, <2>3, <3>2, <3>6, WakeStamps
    <3> QED BY <2>3, <3>7
  <2> QED BY <2>1, <2>2, <2>3
<1> QED BY <1>1, <1>2, <1>3

\* Dropping the attempt keeps the stamps, asked for a pass or not.
LEMMA DroppedMoves ==
    ASSUME NEW x, NEW y \in Drivers
    PROVE  LET w == [y EXCEPT !.attempt = NoAttempt] IN
           w \in Drivers /\ Moves(x, y, x, w) /\ Moves(x, y, x, RequestDrive(w))
<1> DEFINE w == [y EXCEPT !.attempt = NoAttempt]
<1>1. w \in Drivers /\ w.attempt.phase = "none" /\ SamePass(y, w)
    BY DroppedIs
<1> HIDE DEF w
<1>2. /\ RequestDrive(w).attempt = w.attempt /\ RequestDrive(w).needs = w.needs
      /\ RequestDrive(w).run = "flush" <=> w.run = "flush"
    BY <1>1, RequestDriveIs
<1>3. Moves(x, y, x, w) /\ Moves(x, y, x, RequestDrive(w))
    BY <1>1, <1>2 DEF Moves, NoNewRound, SamePass, SameRevision
<1> QED BY <1>1, <1>3 DEF w

\* So does asking for a pass.
LEMMA RequestDriveMoves ==
    ASSUME NEW x, NEW y \in Drivers
    PROVE  Moves(x, y, x, RequestDrive(y))
<1>1. /\ RequestDrive(y).attempt = y.attempt /\ RequestDrive(y).needs = y.needs
      /\ RequestDrive(y).run = "flush" <=> y.run = "flush"
    BY RequestDriveIs
<1> QED BY <1>1 DEF Moves, NoNewRound, SameRevision

\* The fence drops the attempt, or leaves one of another round.
LEMMA FenceStamps ==
    ASSUME Typed, Stamps(g, d), NEW m, Fence(m)
    PROVE  Stamps(g', d')
<1>1. g \in Goals /\ d \in Drivers
    BY DEF Typed, GoalTyped, DriverTyped
<1>2. g' = g /\ (d' = RequestDrive([d EXCEPT !.attempt = NoAttempt]) \/ d' = RequestDrive(d))
    BY DEF Fence
<1>3. [d EXCEPT !.attempt = NoAttempt] \in Drivers
    BY <1>1, DroppedIs
<1>4. Moves(g, d, g, d') /\ d' \in Drivers
    BY <1>1, <1>2, <1>3, DroppedMoves, RequestDriveMoves, RequestDriveIs
<1> QED BY <1>1, <1>2, <1>4, StampMoves

\* The turn stamps no round.
LEMMA AgentStepStamps ==
    ASSUME Typed, Stamps(g, d),
           Assembled \/ EnterStep \/ StepFails \/ StepContinues \/ \E reason : StepEnds(reason)
    PROVE  Stamps(g', d')
<1>1. g \in Goals /\ d \in Drivers
    BY DEF Typed, GoalTyped, DriverTyped
<1>2. CASE \E reason : EndTurn(g, d, reason)
    BY <1>1, <1>2, EndTurnStamps
<1>3. CASE UNCHANGED <<g, d>>
    BY <1>3
<1>4. CASE EnterStep
  <2>1. CASE /\ g' = IF Rounds(claimed) = {} THEN g ELSE FoldRound(g, Submitted)
             /\ d' = OnAdmitted(d, claimed)
    <3>1. /\ g' \in Goals /\ SameRevision(g, g') /\ g'.stored = g.stored
          /\ ActiveArmed(g') => ActiveArmed(g)
        BY <1>1, <2>1, SubmittedIs, FoldRoundIs DEF SameRevision, Typed, AgentTyped
    <3>2. d' \in Drivers /\ SameRound(d, d') /\ SamePass(d, d')
        BY <1>1, <2>1, OnAdmittedIs
    <3>3. Moves(g, d, g', d')
        BY <3>1, <3>2 DEF Moves, NoNewRound, SameRound, SamePass
    <3> QED BY <1>1, <3>1, <3>2, <3>3, StampMoves
  <2> QED BY <1>2, <1>4, <2>1 DEF EnterStep
<1>5. CASE Assembled
    BY <1>2, <1>3, <1>5, FenceStamps DEF Assembled
<1>6. CASE StepFails
    BY <1>2, <1>6 DEF StepFails
<1>7. CASE StepContinues
    BY <1>3, <1>7 DEF StepContinues
<1>8. ASSUME NEW reason, StepEnds(reason) PROVE Stamps(g', d')
    BY <1>2, <1>3, <1>8 DEF StepEnds
<1> QED BY <1>4, <1>5, <1>6, <1>7, <1>8

\* The other listeners stamp none either.
LEMMA DownstreamStamps ==
    ASSUME Typed, Stamps(g, d), Downstream
    PROVE  Stamps(g', d')
<1>1. g \in Goals /\ d \in Drivers
    BY DEF Typed, GoalTyped, DriverTyped
<1>2. CASE DownstreamEnters
    BY <1>2, FenceStamps DEF DownstreamEnters
<1>3. CASE DownstreamRejects
  <2> DEFINE y == [d EXCEPT !.attempt = NoAttempt]
             x == Commit(g, "blocked", g.max, FALSE)
  <2>1. \/ g' = g /\ d' \in {d, y}
        \/ /\ ActiveArmed(g) /\ g' = x /\ d' = GoalChanged(y)
      BY <1>3 DEF DownstreamRejects
  <2>2. y \in Drivers /\ Moves(g, d, g, y)
      BY <1>1, DroppedMoves
  <2>3. CASE g' = g /\ d' \in {d, y}
      BY <1>1, <2>2, <2>3, StampMoves
  <2>4. CASE ActiveArmed(g) /\ g' = x /\ d' = GoalChanged(y)
    <3>1. g.phase # "none" /\ "blocked" \in Phases /\ g.max \in 0 .. MaxCap /\ FALSE \in BOOLEAN
        BY <1>1, <2>4 DEF ActiveArmed, Current, Phases, Goals
    <3>2. x \in Goals /\ ~ActiveArmed(x)
        BY <1>1, <3>1, CommitIs DEF ActiveArmed
    <3> HIDE DEF y
    <3>3. GoalChanged(y) \in Drivers /\ NoNewRound(y, GoalChanged(y))
        BY <2>2, GoalChangedIs DEF NoNewRound
    <3>4. NoNewRound(d, GoalChanged(y))
        BY <2>2, <3>3 DEF NoNewRound, Moves
    <3>5. Moves(g, d, x, GoalChanged(y))
        BY <1>1, <3>1, <3>2, <3>3, <3>4, CommitMoves
    <3> QED BY <1>1, <2>4, <3>2, <3>3, <3>5, StampMoves
  <2> QED BY <2>1, <2>3, <2>4
<1>4. CASE DownstreamThrows
  <2> DEFINE y == RequestDrive([d EXCEPT !.attempt = NoAttempt])
  <2>1. \E reason : EndTurn(g, d, reason) \/ EndTurn(g, y, reason)
      BY <1>4 DEF DownstreamThrows
  <2>2. y \in Drivers /\ Moves(g, d, g, y)
      BY <1>1, DroppedMoves, RequestDriveIs, DroppedIs
  <2> HIDE DEF y
  <2>3. Stamps(g, y)
      BY <1>1, <2>2, StampMoves
  <2> QED BY <1>1, <2>1, <2>2, <2>3, EndTurnStamps
<1> QED BY <1>2, <1>3, <1>4 DEF Downstream

\* A pass begins a checkpoint, or reserves where none is needed.
LEMMA DriveStamps ==
    ASSUME Typed, Stamps(g, d), Drive
    PROVE  Stamps(g', d')
<1> DEFINE y == [d EXCEPT !.requested = FALSE]
           u == [d EXCEPT !.run = "rest"]
           w == [y EXCEPT !.needs = FALSE, !.run = "flush"]
           s == IF g.stored = "no" THEN "flushing" ELSE g.stored
           x == [g EXCEPT !.stored = s]
<1>1. g \in Goals /\ d \in Drivers /\ d.run = "loop"
    BY DEF Typed, GoalTyped, DriverTyped, Drive
<1>2. /\ y \in Drivers /\ y.attempt = d.attempt /\ y.needs = d.needs /\ y.run = "loop"
      /\ u \in Drivers /\ u.attempt = d.attempt /\ u.needs = d.needs
      /\ w.attempt = d.attempt /\ w.run = "flush"
    BY <1>1 DEF Drivers
<1>3. \/ g' = g /\ d' \in {u, y}
      \/ g' = x /\ d' = w
      \/ mounted = "on" /\ ~y.needs /\ Reserve(g, y)
    BY DEF Drive, Looping
<1>4. s \in {"yes", "no", "flushing"} /\ (g.stored = "yes" => s = "yes") /\ s # "no"
    BY <1>1 DEF Goals
<1> HIDE DEF u, y, w, s
<1>5. Stamps(g, y) /\ Stamps(g, u)
    BY <1>1, <1>2 DEF Stamps, StampedAt, DueAt
<1>6. CASE g' = x /\ d' = w
  <2>1. /\ x.id = g.id /\ x.rev = g.rev /\ x.phase = g.phase /\ x.max = g.max /\ x.stored = s
        /\ ActiveArmed(x) <=> ActiveArmed(g)
      BY <1>4, StoringIs DEF Typed
  <2> HIDE DEF x
  <2> QED BY <1>2, <1>4, <1>6, <2>1 DEF Stamps, StampedAt, DueAt
<1> QED BY <1>2, <1>3, <1>5, <1>6, ReserveStamps DEF Typed

\* A checkpoint that fails disarms; a round is reserved after one that succeeded.
LEMMA FlushSettlesStamps ==
    ASSUME Typed, Stamps(g, d), FlushSettles
    PROVE  Stamps(g', d')
<1> DEFINE y == [d EXCEPT !.run = "loop"]
           s == IF g.stored = "flushing" THEN "no" ELSE g.stored
           t == IF g.stored = "flushing" THEN "yes" ELSE g.stored
           w == [g EXCEPT !.stored = s]
           x == [g EXCEPT !.stored = t]
<1>1. g \in Goals /\ d \in Drivers
    BY DEF Typed, GoalTyped, DriverTyped
<1>2. y \in Drivers /\ y.attempt = d.attempt /\ y.needs = d.needs /\ y.run = "loop"
    BY <1>1 DEF Drivers
<1>3. \/ g' = Disarm(w) /\ d' = y
      \/ g' = x /\ d' = y
      \/ mounted = "on" /\ ~y.needs /\ Reserve(x, y)
    BY DEF FlushSettles, Looping, ReadyToDrive
<1>4. /\ s \in {"yes", "no", "flushing"} /\ (g.stored = "yes" => s = "yes")
      /\ t \in {"yes", "no", "flushing"} /\ (g.stored \in {"yes", "flushing"} => t = "yes")
    BY <1>1 DEF Goals
<1> HIDE DEF y, s, t
<1>5. /\ w.id = g.id /\ w.rev = g.rev /\ w.phase = g.phase /\ w.max = g.max /\ w.stored = s
      /\ GoalTyped(w)
    BY <1>4, StoringIs DEF Typed
<1>6. /\ x.id = g.id /\ x.rev = g.rev /\ x.phase = g.phase /\ x.max = g.max /\ x.stored = t
      /\ ActiveArmed(x) <=> ActiveArmed(g)
      /\ GoalTyped(x)
    BY <1>4, StoringIs DEF Typed
<1> HIDE DEF w, x
<1>7. Stamps(x, y)
    BY <1>2, <1>4, <1>6 DEF Stamps, StampedAt, DueAt
<1>8. CASE g' = Disarm(w) /\ d' = y
  <2>1. /\ ~ActiveArmed(g') /\ g'.id = g.id /\ g'.rev = g.rev /\ g'.phase = g.phase
        /\ g'.max = g.max /\ g'.stored = s
      BY <1>5, <1>8, DisarmIs DEF GoalTyped
  <2> QED BY <1>2, <1>4, <1>8, <2>1 DEF Stamps, StampedAt, DueAt
<1> QED BY <1>2, <1>3, <1>6, <1>7, <1>8, ReserveStamps

\* A new revision is not stored, but its checkpoint is due.
LEMMA OperatedStamps ==
    ASSUME Typed, Stamps(g, d), Operated \/ Paused \/ Resume \/ Complete \/ Block \/ Clear
    PROVE  Stamps(g', d')
<1>1. PICK x : Operation(x) /\ g' = x /\ d' = GoalChanged(d)
    BY OperationsAre DEF Change
<1>2. g \in Goals /\ d \in Drivers /\ x \in Goals
    BY <1>1, OperationTyped DEF Typed, GoalTyped, DriverTyped
<1>3. /\ d' \in Drivers /\ d'.attempt = d.attempt
      /\ mounted = "on" => d'.needs
    BY <1>1, <1>2, GoalChangedIs
<1>4. ASSUME NEW phase, NEW max, NEW armed, phase # "none", Revision(x, phase, max, armed)
      PROVE  Stamps(g', d')
  <2>1. /\ x = Commit(g, phase, max, armed) /\ g.phase # "none"
        /\ phase \in Phases /\ max \in 0 .. MaxCap /\ armed \in BOOLEAN
      BY <1>4 DEF Revision, Current
  <2>2. NoNewRound(d, d')
      BY <1>3 DEF NoNewRound
  <2>3. Moves(g, d, Commit(g, phase, max, armed), d')
      BY <1>2, <1>3, <1>4, <2>1, <2>2, CommitMoves
  <2> QED BY <1>1, <1>2, <1>3, <2>1, <2>3, StampMoves
<1>5. d.attempt.msg.id \in Nat /\ d.attempt.msg.rev \in Nat /\ g.id \in Nat
  <2>1. d.attempt.msg \in Message
      BY <1>2 DEF Drivers, Attempts
  <2> QED BY <1>2, <2>1, BoundsAssumption DEF Message, BoundsAssumption, Goals
<1>6. ASSUME NEW max \in 1 .. MaxCap, x = Fresh(max)
      PROVE  Stamps(g', d')
  <2>1. x.id = g.id + 1 /\ x.rev = 1 /\ x.phase = "active"
      BY <1>2, <1>6, FreshIs
  <2> QED BY <1>1, <1>3, <1>5, <2>1 DEF Stamps, StampedAt, DueAt
<1>7. CASE x = Tombstone
  <2>1. x.id = g.id /\ x.rev = 0 /\ x.phase = "none" /\ ~ActiveArmed(x)
      BY <1>2, <1>7, FreshIs
  <2> QED BY <1>1, <1>3, <1>5, <2>1 DEF Stamps, StampedAt, DueAt
<1> QED BY <1>1, <1>4, <1>6, <1>7 DEF Operation

\* Prompts, cancels and maintenance stamp no round.
LEMMA InputStamps ==
    ASSUME Typed, Stamps(g, d),
           ReplayWake \/ Inject \/ Cancel \/ BeginMaintenance \/ EndMaintenance
             \/ \E kind : Send(kind)
    PROVE  Stamps(g', d')
<1>1. g \in Goals /\ d \in Drivers
    BY DEF Typed, GoalTyped, DriverTyped
<1>2. CASE g' = g /\ d' = d
    BY <1>2
<1>3. CASE ReplayWake
  <2>1. g' = g /\ (OpenTurn(d, turnQ, stepQ) \/ d' = d)
      BY <1>3 DEF ReplayWake
  <2> QED BY <1>1, <1>2, <2>1, OpenTurnStamps
<1>4. CASE Cancel
  <2>1. PICK msgs : g' = g /\ d' = OnDiscarded(d, msgs)
      BY <1>4 DEF Cancel, CancelWith
  <2>2. d' \in Drivers /\ SameRound(d, d') /\ SamePass(d, d')
      BY <1>1, <2>1, OnDiscardedIs
  <2>3. Moves(g, d, g, d')
      BY <2>2 DEF Moves, NoNewRound, SameRound, SamePass, SameRevision
  <2> QED BY <1>1, <2>1, <2>2, <2>3, StampMoves
<1>5. ASSUME NEW kind, Send(kind) PROVE Stamps(g', d')
  <2>1. PICK y, tq, sq : y \in {d, Competes(d)} /\ Wake(y, tq, sq) /\ g' = g
      BY <1>5 DEF Send
  <2>2. /\ Competes(d) \in Drivers /\ SameRound(d, Competes(d)) /\ SamePass(d, Competes(d))
      BY <1>1, CompetesIs
  <2>3. Moves(g, d, g, Competes(d))
      BY <2>2 DEF Moves, NoNewRound, SameRound, SamePass, SameRevision
  <2>4. y \in Drivers /\ Stamps(g, y)
      BY <1>1, <2>1, <2>2, <2>3, StampMoves
  <2> QED BY <1>1, <2>1, <2>4, WakeStamps
<1>6. CASE Inject
    BY <1>2, <1>6 DEF Inject
<1>7. CASE BeginMaintenance \/ EndMaintenance
    BY <1>2, <1>7 DEF BeginMaintenance, EndMaintenance
<1> QED BY <1>3, <1>4, <1>5, <1>6, <1>7

\* Neither does the lifetime of the plugin, which disarms the goal.
LEMMA LifetimeStamps ==
    ASSUME Typed, Stamps(g, d), Unload \/ Unloaded \/ Load \/ Restart
    PROVE  Stamps(g, d)'
<1>1. g \in Goals /\ d \in Drivers
    BY DEF Typed, GoalTyped, DriverTyped
<1>2. CASE Unload
  <2>1. NoNewRound(d, d') /\ mounted' # "on"
    <3>1. Staled(d) \in Drivers /\ NoNewRound(d, Staled(d))
        BY <1>1, StaledIs, SameRoundIs
    <3>2. mounted' = "stopping" /\ (d' = Staled(d) \/ \E msgs : d' = OnDiscarded(Staled(d), msgs))
        BY <1>2, UnloadIs DEF CancelWith
    <3> QED BY <3>1, <3>2, OnDiscardedIs, SameRoundIs DEF NoNewRound
  <2>2. g'.id = g.id /\ g'.rev = g.rev /\ g'.phase = g.phase /\ g'.max = g.max /\ g'.stored = g.stored
      BY <1>1, <1>2, UnloadIs, DisarmIs
  <2> QED BY <2>1, <2>2 DEF Stamps, StampedAt, DueAt, NoNewRound
<1>3. CASE Unloaded
  <2>1. g' = g /\ mounted' = "off" /\ d'.attempt.phase = "none"
      BY <1>3, FreshDriverIs DEF Unloaded, Blank
  <2> QED BY <2>1 DEF Stamps, StampedAt, DueAt
<1>4. CASE Load
  <2>1. /\ g'.id = g.id /\ g'.rev = g.rev /\ g'.phase = g.phase /\ g'.max = g.max
        /\ g'.stored = g.stored /\ ~ActiveArmed(g') /\ d' = d
      BY <1>1, <1>4, DisarmIs DEF Load
  <2> QED BY <2>1 DEF Stamps, StampedAt, DueAt
<1>5. CASE Restart
  <2>1. g'.rev = g.rev /\ g'.phase = g.phase /\ g'.stored = "yes" /\ d'.attempt.phase = "none"
      BY <1>1, <1>5, FreshDriverIs DEF Restart, Blank, Goals
  <2> QED BY <2>1 DEF Stamps, StampedAt, DueAt
<1> QED BY <1>2, <1>3, <1>4, <1>5

\* The plugin is mounted or not by its own steps and a restart only.
LEMMA MountedStays ==
    ASSUME Next
    PROVE  mounted' = mounted \/ Unload \/ Unloaded \/ Load \/ Restart
<1>1. ASSUME Assembled \/ Downstream \/ EnterStep \/ Drive \/ FlushSettles \/ ReplayWake
      PROVE  mounted' = mounted
    BY <1>1 DEF Assembled, Downstream, EnterStep, Drive, FlushSettles, ReplayWake
<1>2. ASSUME StepFails \/ StepContinues \/ \E reason \in {"completed", "max-tokens"} : StepEnds(reason)
      PROVE  mounted' = mounted
    BY <1>2 DEF StepFails, StepContinues, StepEnds
<1>3. ASSUME Operated \/ Paused \/ Resume \/ Complete \/ Block \/ Clear
      PROVE  mounted' = mounted
    BY <1>3 DEF Operated, Paused, Create, Edit, Pause, Resume, Complete, Block, Clear, Change
<1>4. ASSUME \/ \E kind \in {"user", "steer"} : Send(kind)
             \/ Inject \/ Cancel \/ BeginMaintenance \/ EndMaintenance
      PROVE  mounted' = mounted
    BY <1>4 DEF Send, Inject, Cancel, BeginMaintenance, EndMaintenance
<1> QED BY <1>1, <1>2, <1>3, <1>4, StepsAre

\* Every step keeps the stamps.
LEMMA StampsStep ==
    ASSUME Typed, Stamps(g, d), [Next]_vars
    PROVE  Stamps(g, d)'
<1>1. CASE Unload \/ Unloaded \/ Load \/ Restart
    BY <1>1, LifetimeStamps
<1>2. CASE Next /\ mounted' = mounted /\ ~(Unload \/ Unloaded \/ Load \/ Restart)
  <2>1. Stamps(g', d')
      BY <1>2, StepsAre, AgentStepStamps, DownstreamStamps, DriveStamps, FlushSettlesStamps,
         OperatedStamps, InputStamps
  <2> QED BY <1>2, <2>1 DEF Stamps, StampedAt, DueAt
<1>3. CASE UNCHANGED vars
    BY <1>3 DEF vars, Stamps, StampedAt, DueAt
<1> QED BY <1>1, <1>2, <1>3, MountedStays

-----------------------------------------------------------------------------
(* Messages are in one place.                                              *)

\* Inputs are numbered as they come; a prompt is queued once, what is claimed
\* or meant for the next step is not queued as well, and a batch has at most
\* one round.
Inbox(n, tq, sq, batch) ==
    /\ \A m \in Items(tq) \union sq \union batch : m.kind # "goal" => m.id <= n
    /\ \A i, j \in DOMAIN tq : i # j /\ tq[i] = tq[j] => tq[i].kind = "goal"
    /\ (sq \union Others(batch)) \intersect Items(tq) = {}
    /\ Rounds(sq) = {}
    /\ \A m, r \in Rounds(batch) : m = r

Separate == Inbox(inputs, turnQ, stepQ, claimed)

\* A prompt taken from the front is not queued any more.
LEMMA HeadIsTaken ==
    ASSUME NEW tq \in Seq(Message), tq # <<>>, NEW n, NEW sq, NEW batch, Inbox(n, tq, sq, batch)
    PROVE  /\ \A i, j \in DOMAIN Tail(tq) :
                i # j /\ Tail(tq)[i] = Tail(tq)[j] => Tail(tq)[i].kind = "goal"
           /\ Head(tq).kind # "goal" => Head(tq) \notin Items(Tail(tq))
<1>1. /\ DOMAIN tq = 1 .. Len(tq) /\ Len(tq) \in Nat /\ Len(tq) >= 1 /\ Head(tq) = tq[1]
      /\ DOMAIN Tail(tq) = 1 .. Len(tq) - 1
      /\ \A i \in 1 .. Len(tq) - 1 : Tail(tq)[i] = tq[i + 1]
    OBVIOUS
<1>2. \A i, j \in DOMAIN tq : i # j /\ tq[i] = tq[j] => tq[i].kind = "goal"
    BY DEF Inbox
<1>3. ASSUME NEW i \in DOMAIN Tail(tq), NEW j \in DOMAIN Tail(tq), i # j, Tail(tq)[i] = Tail(tq)[j]
      PROVE  Tail(tq)[i].kind = "goal"
  <2>1. i + 1 \in DOMAIN tq /\ j + 1 \in DOMAIN tq /\ i + 1 # j + 1
      BY <1>1, <1>3
  <2> QED BY <1>1, <1>2, <1>3, <2>1
<1>4. ASSUME Head(tq).kind # "goal", NEW i \in DOMAIN Tail(tq), Head(tq) = Tail(tq)[i]
      PROVE  FALSE
  <2>1. i + 1 \in DOMAIN tq /\ 1 \in DOMAIN tq /\ i + 1 # 1
      BY <1>1, <1>4
  <2> QED BY <1>1, <1>2, <1>4, <2>1
<1> QED BY <1>3, <1>4 DEF Items

\* A turn that claims its first batch leaves the rest apart from it.
LEMMA OpenTurnInbox ==
    ASSUME NEW tq \in Seq(Message), NEW sq \in SUBSET Message, NEW batch, Inbox(inputs', tq, sq, batch),
           NEW y, OpenTurn(y, tq, sq)
    PROVE  Separate'
<1>1. CASE tq = <<>>
  <2>1. turnQ' = <<>> /\ stepQ' = {} /\ claimed' = sq
      BY <1>1 DEF OpenTurn
  <2>2. DOMAIN <<>> = {}
      OBVIOUS
  <2> QED BY <1>1, <2>1, <2>2, ItemsEmpty DEF Separate, Inbox, Rounds, Others
<1>2. CASE tq # <<>>
  <2>1. turnQ' = Tail(tq) /\ stepQ' = {} /\ claimed' = sq \union {Head(tq)}
      BY <1>2 DEF OpenTurn
  <2>2. Items(tq) = Items(Tail(tq)) \union {Head(tq)}
      BY <1>2, ItemsTail
  <2>3. \A m \in Items(Tail(tq)) \union {} \union (sq \union {Head(tq)}) :
            m.kind # "goal" => m.id <= inputs'
      BY <2>2 DEF Inbox
  <2>4. ({} \union Others(sq \union {Head(tq)})) \intersect Items(Tail(tq)) = {}
      BY <1>2, <2>2, HeadIsTaken DEF Inbox, Others, Rounds
  <2>5. Rounds({}) = {} /\ \A m, r \in Rounds(sq \union {Head(tq)}) : m = r
      BY DEF Inbox, Rounds
  <2>6. \A i, j \in DOMAIN Tail(tq) :
            i # j /\ Tail(tq)[i] = Tail(tq)[j] => Tail(tq)[i].kind = "goal"
      BY <1>2, HeadIsTaken
  <2> HIDE DEF Items
  <2>7. Separate' <=> /\ \A m \in Items(turnQ') \union stepQ' \union claimed' : m.kind # "goal" => m.id <= inputs'
                      /\ \A i, j \in DOMAIN turnQ' : i # j /\ turnQ'[i] = turnQ'[j] => turnQ'[i].kind = "goal"
                      /\ (stepQ' \union Others(claimed')) \intersect Items(turnQ') = {}
                      /\ Rounds(stepQ') = {}
                      /\ \A m, r \in Rounds(claimed') : m = r
      BY DEF Separate, Inbox
  <2> QED BY <2>1, <2>3, <2>4, <2>5, <2>6, <2>7
<1> QED BY <1>1, <1>2

\* Inbox over messages of a step's next state, spelled out.
LEMMA SeparateNext ==
    ASSUME NEW n, NEW tq, NEW sq, NEW batch, Inbox(n, tq, sq, batch),
           inputs' = n, turnQ' = tq, stepQ' = sq, claimed' = batch
    PROVE  Separate'
BY DEF Separate, Inbox, Items, Rounds, Others

\* A batch may be done with, or the lists claimed in its place.
LEMMA InboxLess ==
    ASSUME NEW n, NEW tq, NEW sq, NEW batch, Inbox(n, tq, sq, batch)
    PROVE  /\ Inbox(n, tq, sq, {})
           /\ Inbox(n, tq, {}, sq)
           /\ Inbox(n, <<>>, {}, batch)
  <1>1. DOMAIN <<>> = {}
      OBVIOUS
  <1> QED BY <1>1, ItemsEmpty DEF Inbox, Rounds, Others

\* A wake claims what is pending, or leaves it.
LEMMA WakeInbox ==
    ASSUME NEW tq \in Seq(Message), NEW sq \in SUBSET Message, Inbox(inputs', tq, sq, claimed),
           NEW y, Wake(y, tq, sq)
    PROVE  Separate'
<1>1. CASE status = "idle"
    BY <1>1, OpenTurnInbox DEF Wake
<1>2. CASE status # "idle"
  <2>1. turnQ' = tq /\ stepQ' = sq /\ claimed' = claimed
      BY <1>2 DEF Wake
  <2> QED BY <2>1, SeparateNext
<1> QED BY <1>1, <1>2

\* The end of a turn claims the next batch, or nothing.
LEMMA EndTurnInbox ==
    ASSUME AgentTyped, Separate, NEW x, NEW y, NEW reason, EndTurn(x, y, reason), inputs' = inputs
    PROVE  Separate'
<1>1. turnQ \in Seq(Message) /\ stepQ \in SUBSET Message
    BY DEF AgentTyped
<1>2. CASE OpenTurn(TurnEndDriver(y, reason), turnQ, stepQ)
    BY <1>1, <1>2, OpenTurnInbox DEF Separate
<1>3. CASE turnQ' = turnQ /\ stepQ' = stepQ /\ claimed' = {}
    BY <1>3, InboxLess, SeparateNext DEF Separate
<1> QED BY <1>2, <1>3 DEF EndTurn

\* What is put back after a rejection was nowhere else.
LEMMA RestoredInbox ==
    ASSUME Separate
    PROVE  Inbox(inputs, turnQ, Restored, claimed)
BY DEF Separate, Inbox, Restored, Rounds, Others

\* A new prompt or a round joins the queue.
LEMMA QueuedInbox ==
    ASSUME NEW n \in Nat, NEW tq \in Seq(Message), NEW sq \in SUBSET Message,
           NEW batch \in SUBSET Message, Inbox(n, tq, sq, batch), NEW m \in Message,
           NEW k \in Nat, n <= k,
           IF m.kind = "goal" THEN TRUE ELSE k = n + 1 /\ m.id = n + 1
    PROVE  Inbox(k, Append(tq, m), sq, batch)
<1> DEFINE q == Append(tq, m)
<1>1. /\ DOMAIN tq = 1 .. Len(tq) /\ Len(tq) \in Nat
      /\ DOMAIN q = 1 .. Len(tq) + 1
      /\ \A i \in 1 .. Len(tq) : q[i] = tq[i]
      /\ q[Len(tq) + 1] = m
    OBVIOUS
<1>2. Items(q) = Items(tq) \union {m}
    BY ItemsAppend
<1> HIDE DEF q
<1>3. \A r \in Items(tq) \union sq \union batch : r.kind # "goal" => r.id <= n
    BY DEF Inbox
<1>4. \A r \in Items(tq) \union sq \union batch : r \in Message /\ r.id \in Nat
  <2>1. Items(tq) \subseteq Message
      BY <1>1 DEF Items
  <2>2. \A r \in Message : r.id \in Nat
      BY BoundsAssumption DEF Message, BoundsAssumption
  <2> QED BY <2>1, <2>2
<1>5. m.kind # "goal" => m \notin Items(tq) \union sq \union batch
    BY <1>3, <1>4
<1>6. \A r \in Items(q) \union sq \union batch : r.kind # "goal" => r.id <= k
  <2>1. \A r \in Items(tq) \union sq \union batch : r.kind # "goal" => r.id <= k
      BY <1>3, <1>4
  <2>2. m.kind # "goal" => m.id <= k
      OBVIOUS
  <2> QED BY <1>2, <2>1, <2>2
<1>7. \A i, j \in DOMAIN q : i # j /\ q[i] = q[j] => q[i].kind = "goal"
  <2>1. SUFFICES ASSUME NEW i \in DOMAIN q, NEW j \in DOMAIN q, i # j, q[i] = q[j],
                        q[i].kind # "goal"
                 PROVE  FALSE
      OBVIOUS
  <2>2. CASE i \in 1 .. Len(tq) /\ j \in 1 .. Len(tq)
      BY <1>1, <2>1, <2>2 DEF Inbox
  <2>3. CASE i = Len(tq) + 1
    <3>1. j \in 1 .. Len(tq)
        BY <1>1, <2>1, <2>3
    <3>2. q[j] \in Items(tq)
        BY <1>1, <3>1 DEF Items
    <3> QED BY <1>1, <1>5, <2>1, <2>3, <3>2
  <2>4. CASE j = Len(tq) + 1
    <3>1. i \in 1 .. Len(tq)
        BY <1>1, <2>1, <2>4
    <3>2. q[i] \in Items(tq)
        BY <1>1, <3>1 DEF Items
    <3> QED BY <1>1, <1>5, <2>1, <2>4, <3>2
  <2> QED BY <1>1, <2>2, <2>3, <2>4
<1>8. (sq \union Others(batch)) \intersect Items(q) = {}
  <2>1. \A r \in sq \union Others(batch) : r.kind # "goal"
      BY DEF Inbox, Rounds, Others
  <2>2. m \notin sq \union Others(batch)
      BY <1>5, <2>1 DEF Others
  <2> QED BY <1>2, <2>2 DEF Inbox
<1> QED BY <1>6, <1>7, <1>8 DEF Inbox, q

\* New input for the next step joins it.
LEMMA SteeredInbox ==
    ASSUME NEW n \in Nat, NEW tq \in Seq(Message), NEW sq \in SUBSET Message,
           NEW batch \in SUBSET Message, Inbox(n, tq, sq, batch), NEW m \in Message,
           m.kind # "goal", m.id = n + 1
    PROVE  Inbox(n + 1, tq, sq \union {m}, batch)
<1>1. \A r \in Items(tq) \union sq \union batch : r.id \in Nat
  <2>1. Items(tq) \subseteq Message
    <3>1. \A i \in DOMAIN tq : tq[i] \in Message
        OBVIOUS
    <3> QED BY <3>1 DEF Items
  <2>2. \A r \in Message : r.id \in Nat
      BY BoundsAssumption DEF Message, BoundsAssumption
  <2> QED BY <2>1, <2>2
<1>2. m \notin Items(tq)
    BY <1>1 DEF Inbox
<1>3. \A r \in Items(tq) \union (sq \union {m}) \union batch : r.kind # "goal" => r.id <= n + 1
    BY <1>1 DEF Inbox
<1> QED BY <1>2, <1>3 DEF Inbox, Rounds, Others

\* A reserved round joins the queue, or nothing does.
LEMMA ReserveInbox ==
    ASSUME AgentTyped, Separate, inputs \in Nat, inputs' = inputs, NEW x, GoalTyped(x),
           NEW y \in Drivers, Reserve(x, y)
    PROVE  Separate'
<1>1. CASE y.attempt.phase # "none" \/ ~ActiveArmed(x)
  <2>1. UNCHANGED agentVars
      BY <1>1 DEF Reserve, Looping
  <2> QED BY <2>1, SeparateNext DEF agentVars, Separate
<1>2. CASE y.attempt.phase = "none" /\ ActiveArmed(x)
  <2> DEFINE m == GoalMsg(x.id, x.rev, x.rounds + 1)
             z == [y EXCEPT !.attempt = [NoAttempt EXCEPT !.msg = m, !.phase = "queued"]]
  <2>1. \/ UNCHANGED agentVars
        \/ ~(x.rounds >= x.max) /\ Wake(z, Append(turnQ, m), stepQ)
      BY <1>2 DEF Reserve, Blocked, Looping
  <2>2. CASE UNCHANGED agentVars
      BY <2>2, SeparateNext DEF agentVars, Separate
  <2>3. CASE ~(x.rounds >= x.max) /\ Wake(z, Append(turnQ, m), stepQ)
    <3>1. x.rounds < x.max
        BY <2>3 DEF GoalTyped, Goals
    <3>2. m \in Message /\ m.kind = "goal"
        BY <1>2, <3>1, ReservedIs DEF GoalMsg
    <3> HIDE DEF m, z
    <3>3. /\ turnQ \in Seq(Message) /\ stepQ \in SUBSET Message /\ claimed \in SUBSET Message
          /\ Append(turnQ, m) \in Seq(Message)
        BY <3>2, ItemsAppend DEF AgentTyped
    <3>4. Inbox(inputs, Append(turnQ, m), stepQ, claimed)
        BY <3>2, <3>3, QueuedInbox DEF Separate
    <3> QED BY <2>3, <3>3, <3>4, WakeInbox
  <2> QED BY <2>1, <2>2, <2>3
<1> QED BY <1>1, <1>2

\* A sent prompt has a number of its own.
LEMMA SendInbox ==
    ASSUME Typed, Separate, NEW kind \in {"user", "steer"}, Send(kind)
    PROVE  Separate'
<1> DEFINE m == InputMsg(kind, inputs + 1)
<1>1. /\ inputs' = inputs + 1 /\ inputs < MaxInput
      /\ \/ \E y : Wake(y, Append(turnQ, m), stepQ)
         \/ \E y : Wake(y, turnQ, stepQ \union {m})
    BY DEF Send
<1>2. m \in Message /\ m.id = inputs + 1 /\ m.kind # "goal"
    BY <1>1, InputIs DEF Typed
<1> HIDE DEF m
<1>3. /\ turnQ \in Seq(Message) /\ stepQ \in SUBSET Message /\ claimed \in SUBSET Message
      /\ Append(turnQ, m) \in Seq(Message) /\ stepQ \union {m} \in SUBSET Message
      /\ inputs \in Nat /\ inputs + 1 \in Nat /\ inputs <= inputs + 1
    BY <1>2, ItemsAppend, BoundsAssumption DEF Typed, AgentTyped, BoundsAssumption
<1>4. Inbox(inputs + 1, Append(turnQ, m), stepQ, claimed)
    BY <1>2, <1>3, QueuedInbox DEF Separate
<1>5. Inbox(inputs + 1, turnQ, stepQ \union {m}, claimed)
    BY <1>2, <1>3, SteeredInbox DEF Separate
<1> QED BY <1>1, <1>3, <1>4, <1>5, WakeInbox

\* Every step keeps the messages apart.
LEMMA SeparateStep ==
    ASSUME Typed, Separate, [Next]_vars
    PROVE  Separate'
<1>0. /\ AgentTyped /\ GoalTyped(g) /\ d \in Drivers /\ inputs \in Nat
      /\ turnQ \in Seq(Message) /\ stepQ \in SUBSET Message /\ claimed \in SUBSET Message
    BY BoundsAssumption DEF Typed, DriverTyped, AgentTyped, BoundsAssumption
<1>1. ASSUME \E x, y, reason : EndTurn(x, y, reason), inputs' = inputs
      PROVE  Separate'
    BY <1>0, <1>1, EndTurnInbox
<1>2. ASSUME UNCHANGED <<turnQ, stepQ, claimed, inputs>>
      PROVE  Separate'
    BY <1>2, SeparateNext DEF Separate
<1>3. ASSUME stepQ' = Restored, UNCHANGED <<turnQ, claimed, inputs>>
      PROVE  Separate'
    BY <1>3, RestoredInbox, SeparateNext
<1>4. ASSUME turnQ' = turnQ, stepQ' = {}, claimed' = stepQ, inputs' = inputs
      PROVE  Separate'
  <2>1. Inbox(inputs, turnQ, {}, stepQ)
      BY InboxLess DEF Separate
  <2> QED BY <1>4, <2>1, SeparateNext
<1>5. ASSUME turnQ' = <<>>, stepQ' = {}, UNCHANGED <<claimed, inputs>>
      PROVE  Separate'
    BY <1>5, InboxLess, SeparateNext DEF Separate
<1>6. ASSUME UNCHANGED <<turnQ, stepQ, inputs>>, claimed' = {}
      PROVE  Separate'
    BY <1>6, InboxLess, SeparateNext DEF Separate
<1>7. CASE Assembled
    BY <1>1, <1>2, <1>3, <1>7 DEF Assembled, Fence
<1>8. CASE Downstream
  <2>1. CASE DownstreamThrows
    <3>1. inputs' = inputs
        BY <1>8 DEF Downstream
    <3> QED BY <1>1, <2>1, <3>1 DEF DownstreamThrows
  <2> QED BY <1>2, <1>3, <1>8, <2>1 DEF Downstream, DownstreamEnters, DownstreamRejects, Fence
<1>9. CASE EnterStep
    BY <1>1, <1>6, <1>9 DEF EnterStep
<1>10. CASE StepFails \/ StepContinues
    BY <1>1, <1>4, <1>10 DEF StepFails, StepContinues
<1>11. ASSUME NEW reason, StepEnds(reason) PROVE Separate'
    BY <1>1, <1>4, <1>11 DEF StepEnds
<1>12. CASE Drive
  <2> DEFINE y == [d EXCEPT !.requested = FALSE]
  <2>1. y \in Drivers
      BY <1>0 DEF Drivers
  <2> HIDE DEF y
  <2>2. inputs' = inputs /\ (UNCHANGED agentVars \/ Reserve(g, y))
      BY <1>12 DEF Drive, Looping, y
  <2> QED BY <1>0, <1>2, <2>1, <2>2, ReserveInbox DEF agentVars
<1>13. CASE FlushSettles
  <2> DEFINE y == [d EXCEPT !.run = "loop"]
             t == IF g.stored = "flushing" THEN "yes" ELSE g.stored
             x == [g EXCEPT !.stored = t]
  <2>1. y \in Drivers /\ t \in {"yes", "no", "flushing"}
      BY <1>0 DEF Drivers, GoalTyped, Goals
  <2>2. inputs' = inputs /\ (UNCHANGED agentVars \/ Reserve(x, y))
      BY <1>13 DEF FlushSettles, Looping
  <2> HIDE DEF y, t
  <2>3. GoalTyped(x)
      BY <1>0, <2>1, StoringIs
  <2> HIDE DEF x
  <2> QED BY <1>0, <1>2, <2>1, <2>2, <2>3, ReserveInbox DEF agentVars
<1>14. CASE ReplayWake
  <2>1. inputs' = inputs /\ (OpenTurn(d, turnQ, stepQ) \/ UNCHANGED <<turnQ, stepQ, claimed>>)
      BY <1>14 DEF ReplayWake
  <2> QED BY <1>0, <1>2, <2>1, OpenTurnInbox DEF Separate
<1>15. CASE Operated \/ Paused \/ Resume \/ Complete \/ Block \/ Clear
  <2>1. UNCHANGED <<turnQ, stepQ, claimed, inputs>>
      BY <1>15, OperationsAre DEF Change
  <2> QED BY <1>2, <2>1
<1>16. ASSUME NEW kind \in {"user", "steer"}, Send(kind) PROVE Separate'
    BY <1>16, SendInbox
<1>17. CASE Inject
  <2> DEFINE m == InputMsg("context", inputs + 1)
  <2>1. /\ inputs' = inputs + 1 /\ stepQ' = stepQ \union {m}
        /\ UNCHANGED <<turnQ, claimed>>
      BY <1>17 DEF Inject
  <2>2. m \in Message /\ m.id = inputs + 1 /\ m.kind # "goal"
      BY <1>17, InputIs DEF Typed, Inject
  <2> HIDE DEF m
  <2>3. Inbox(inputs + 1, turnQ, stepQ \union {m}, claimed)
      BY <1>0, <2>2, SteeredInbox DEF Separate
  <2> QED BY <2>1, <2>3, SeparateNext
<1>18. CASE Cancel
    BY <1>5, <1>18 DEF Cancel, CancelWith
<1>19. CASE BeginMaintenance \/ EndMaintenance
    BY <1>2, <1>19 DEF BeginMaintenance, EndMaintenance
<1>20. CASE Unload
    BY <1>2, <1>5, <1>20, UnloadIs DEF CancelWith, agentVars
<1>21. CASE Unloaded \/ Load
    BY <1>2, <1>21 DEF Unloaded, Load, agentVars
<1>22. CASE Restart
    BY <1>6, <1>22 DEF Restart
<1>23. CASE UNCHANGED vars
    BY <1>2, <1>23 DEF vars
<1> QED BY <1>7, <1>8, <1>9, <1>10, <1>11, <1>12, <1>13, <1>14, <1>15, <1>16, <1>17, <1>18,
           <1>19, <1>20, <1>21, <1>22, <1>23, StepsAre

-----------------------------------------------------------------------------
(* The fence: what a round that is turned away leaves behind.              *)

\* The end of a turn leaves the proposal behind.
LEMMA EndTurnLeaves ==
    ASSUME NEW x, NEW y, NEW reason, EndTurn(x, y, reason)
    PROVE  pc' \in {"assemble", "off"} /\ decision' = "none"
BY DEF EndTurn, OpenTurn

\* A pass of the driver never makes a proposal.
LEMMA LoopLeaves ==
    ASSUME NEW x, NEW y, pc # "outer", Looping(x, y) \/ Reserve(x, y)
    PROVE  pc' # "outer"
BY DEF Looping, Reserve, Blocked, agentVars, Wake, OpenTurn

\* The steps by which a proposal comes back from the listeners.
LEMMA OuterEntered ==
    ASSUME Typed, pc # "outer", pc' = "outer", [Next]_vars
    PROVE  \/ /\ Fence(Submitted) /\ mounted' = mounted
           \/ /\ decision' = "enter" /\ UNCHANGED <<g, d, mounted, aborted, claimed>>
              /\ mounted # "off" /\ Rounds(claimed) # {} /\ ~aborted => Valid(Submitted)
           \/ decision' = "reject"
<1>1. CASE Assembled
    BY <1>1, EndTurnLeaves DEF Assembled
<1>2. CASE Downstream
    BY <1>2, EndTurnLeaves DEF Downstream, DownstreamEnters, DownstreamRejects, DownstreamThrows
<1>3. CASE EnterStep
    BY <1>3 DEF EnterStep
<1>4. CASE StepFails \/ StepContinues \/ \E reason : StepEnds(reason)
    BY <1>4, EndTurnLeaves DEF StepFails, StepContinues, StepEnds
<1>5. CASE Drive \/ FlushSettles
    BY <1>5, LoopLeaves DEF Drive, FlushSettles
<1>6. CASE ReplayWake
    BY <1>6 DEF ReplayWake, OpenTurn
<1>7. CASE Operated \/ Paused \/ Resume \/ Complete \/ Block \/ Clear
    BY <1>7, OperationsAre DEF Change
<1>8. ASSUME NEW kind, Send(kind) PROVE FALSE
    BY <1>8 DEF Send, Wake, OpenTurn
<1>9. CASE Inject \/ Cancel \/ BeginMaintenance \/ EndMaintenance
    BY <1>9 DEF Inject, Cancel, CancelWith, BeginMaintenance, EndMaintenance
<1>10. CASE Unload \/ Unloaded \/ Load \/ Restart
    BY <1>10, UnloadIs DEF CancelWith, Unloaded, Load, Restart, agentVars
<1>11. CASE UNCHANGED vars
    BY <1>11 DEF vars
<1> QED BY <1>1, <1>2, <1>3, <1>4, <1>5, <1>6, <1>7, <1>8, <1>9, <1>10, <1>11, StepsAre

\* Two goals that the fold tells apart by a round at most.
SameTerms(x, z) ==
    /\ z.id = x.id /\ z.rev = x.rev
    /\ z.phase = x.phase /\ z.max = x.max /\ z.rounds = x.rounds

\* Storing and disarming a goal leave its terms.
LEMMA StoredTerms ==
    ASSUME NEW x \in Goals, NEW s \in {"yes", "no", "flushing"}
    PROVE  LET z == [x EXCEPT !.stored = s] IN
           SameTerms(x, z) /\ SameTerms(x, Disarm(x)) /\ SameTerms(x, Disarm(z))
BY DEF Goals, SameTerms, Disarm, Current

\* While a proposal is on its way back its batch and its decision stay, an abort
\* stays, without one the input for the next step stays, and an active goal at
\* the same revision has the same terms.
LEMMA OuterKeeps ==
    ASSUME Typed, Stamps(g, d), pc = "outer", pc' = "outer", [Next]_vars
    PROVE  /\ claimed' = claimed /\ decision' = decision /\ (aborted => aborted')
           /\ ~aborted' => stepQ \subseteq stepQ'
           /\ mounted' \in {mounted, "off", "on", "stopping"}
           /\ mounted = "off" => mounted' \in {"off", "on"}
           /\ g.phase = "active" /\ g'.id = g.id /\ g'.rev = g.rev => SameTerms(g, g')
<1> DEFINE Kept == /\ claimed' = claimed /\ decision' = decision /\ (aborted => aborted')
                   /\ ~aborted' => stepQ \subseteq stepQ'
           Mounting == /\ mounted' \in {mounted, "off", "on", "stopping"}
                       /\ mounted = "off" => mounted' \in {"off", "on"}
           Terms == g.phase = "active" /\ g'.id = g.id /\ g'.rev = g.rev => SameTerms(g, g')
<1>0. /\ g \in Goals /\ d \in Drivers /\ status = "running" /\ aborted \in BOOLEAN
      /\ g.phase # "none" => g.rev >= 1
    BY DEF Typed, GoalTyped, DriverTyped, AgentTyped, PcAt, Stamps, StampedAt
<1>1. SameTerms(g, g)
    BY DEF SameTerms
<1>2. ASSUME \/ Assembled \/ Downstream \/ EnterStep \/ StepFails \/ StepContinues
             \/ (\E reason \in {"completed", "max-tokens"} : StepEnds(reason))
             \/ ReplayWake \/ BeginMaintenance \/ EndMaintenance \/ Restart
      PROVE  FALSE
    BY <1>0, <1>2, EndTurnLeaves DEF Assembled, Downstream, EnterStep, StepFails, StepContinues,
       StepEnds, ReplayWake, BeginMaintenance, EndMaintenance, Restart
<1>3. ASSUME NEW x, NEW y, Looping(x, y), SameTerms(g, x), mounted' = mounted
      PROVE  Kept /\ Mounting /\ Terms
    BY <1>3 DEF Looping, agentVars
<1>4. CASE Drive
  <2> DEFINE y == [d EXCEPT !.requested = FALSE]
             u == [d EXCEPT !.run = "rest"]
  <2>1. Looping(g, u) \/ Looping(g, y)
      BY <1>0, <1>4 DEF Drive, ReadyToDrive
  <2> HIDE DEF u, y
  <2> QED BY <1>1, <1>3, <1>4, <2>1 DEF Drive
<1>5. CASE FlushSettles
  <2> DEFINE s == IF g.stored = "flushing" THEN "no" ELSE g.stored
             t == IF g.stored = "flushing" THEN "yes" ELSE g.stored
             w == [g EXCEPT !.stored = s]
             x == [g EXCEPT !.stored = t]
  <2>1. {s, t} \subseteq {"yes", "no", "flushing"}
      BY <1>0 DEF Goals
  <2>2. \E y : Looping(Disarm(w), y) \/ Looping(x, y)
      BY <1>0, <1>5 DEF FlushSettles, ReadyToDrive
  <2> HIDE DEF s, t
  <2>3. SameTerms(g, Disarm(w)) /\ SameTerms(g, x)
      BY <1>0, <2>1, StoredTerms
  <2> HIDE DEF w, x
  <2> QED BY <1>3, <1>5, <2>2, <2>3 DEF FlushSettles
<1>6. CASE Operated \/ Paused \/ Resume \/ Complete \/ Block \/ Clear
  <2>1. PICK x : \E abort \in BOOLEAN : Operation(x) /\ Change(x, abort)
      BY <1>6, OperationsAre
  <2>2. Kept /\ Mounting /\ g' = x
      BY <1>0, <2>1 DEF Change
  <2>3. ASSUME NEW phase, NEW max, NEW armed, Revision(x, phase, max, armed)
        PROVE  x.rev = g.rev + 1
      BY <1>0, <2>3, CommitIs DEF Revision
  <2>4. x = Tombstone => x.rev = 0
      BY <1>0, FreshIs
  <2>5. \A max \in 1 .. MaxCap : x = Fresh(max) => x.id = g.id + 1
      BY <1>0, FreshIs
  <2>6. g.rev \in Nat /\ g.id \in Nat
      BY <1>0, BoundsAssumption DEF Goals, BoundsAssumption
  <2>7. Terms
      BY <1>0, <2>1, <2>2, <2>3, <2>4, <2>5, <2>6 DEF Operation
  <2> QED BY <2>2, <2>7
<1>7. ASSUME NEW kind, Send(kind)
      PROVE  Kept /\ Mounting /\ Terms
    BY <1>0, <1>1, <1>7 DEF Send, Wake
<1>8. CASE Inject \/ Cancel
    BY <1>0, <1>1, <1>8 DEF Inject, Cancel, CancelWith
<1>9. CASE Unload \/ Load
  <2>1. g' = Disarm(g) /\ Kept /\ Mounting
      BY <1>0, <1>9, UnloadIs DEF Load, CancelWith, agentVars
  <2>2. SameTerms(g, Disarm(g))
      BY <1>0, StoredTerms
  <2> QED BY <2>1, <2>2
<1>10. CASE Unloaded
    BY <1>1, <1>10 DEF Unloaded, agentVars
<1>11. CASE UNCHANGED vars
    BY <1>1, <1>11 DEF vars
<1> QED BY <1>2, <1>4, <1>5, <1>6, <1>7, <1>8, <1>9, <1>10, <1>11, StepsAre

\* Every step keeps the input of a round that is turned away.
LEMMA FenceStep ==
    ASSUME Typed, Stamps(g, d), Separate, FenceKeepsInput, [Next]_vars
    PROVE  FenceKeepsInput'
<1>1. CASE pc' # "outer"
  <2>1. decision' = "none"
      BY <1>1, TypedStep DEF Typed, AgentTyped, PcAt
  <2> QED BY <2>1 DEF FenceKeepsInput
<1>2. CASE pc = "outer" /\ pc' = "outer"
  <2>1. /\ claimed' = claimed /\ decision' = decision /\ (aborted => aborted')
        /\ ~aborted' => stepQ \subseteq stepQ'
      BY <1>2, OuterKeeps
  <2> QED BY <2>1 DEF FenceKeepsInput, Others, Rounds
<1>3. CASE pc # "outer" /\ pc' = "outer"
  <2>1. CASE Fence(Submitted)
    <3>1. Others(claimed) \subseteq Restored
        BY DEF Restored, Separate, Inbox
    <3>2. stepQ' = Restored /\ claimed' = claimed
        BY <2>1 DEF Fence
    <3> QED BY <3>1, <3>2 DEF FenceKeepsInput, Others, Rounds
  <2>2. CASE decision' \in {"enter", "reject"}
      BY <2>2 DEF FenceKeepsInput
  <2> QED BY <1>3, <2>1, <2>2, OuterEntered
<1> QED BY <1>1, <1>2, <1>3

\* The inductive invariant of the rounds.
Fenced == Typed /\ Stamps(g, d) /\ Separate /\ FenceKeepsInput

\* The rounds are disciplined at the start.
LEMMA FencedInit == Init => Fenced
<1> SUFFICES ASSUME Init PROVE Fenced
    OBVIOUS
<1>1. Stamps(g, d)
    BY DEF Init, Stamps, StampedAt, DueAt, NoGoal, FreshDriver, NoAttempt, ActiveArmed, Current
<1>2. Separate
  <2>1. DOMAIN <<>> = {}
      OBVIOUS
  <2> QED BY <2>1, ItemsEmpty DEF Init, Separate, Inbox, Rounds, Others
<1> QED BY <1>1, <1>2, TypedInit DEF Fenced, Init, FenceKeepsInput

\* Every step keeps the rounds disciplined.
LEMMA FencedStep ==
    ASSUME Fenced, [Next]_vars
    PROVE  Fenced'
<1>1. Typed' /\ Stamps(g, d)' /\ Separate'
    BY TypedStep, StampsStep, SeparateStep DEF Fenced
<1>2. FenceKeepsInput'
    BY FenceStep DEF Fenced
<1> QED BY <1>1, <1>2 DEF Fenced

\* The invariant of the rounds holds in every behaviour.
LEMMA AlwaysFenced == Spec => []Fenced
<1>1. Fenced /\ [Next]_vars => Fenced'
    BY FencedStep
<1> QED BY <1>1, FencedInit, PTL DEF Spec

\* A round is reserved only for a revision that is stored (ensureCheckpoint),
\* and a round that the fence turns away takes no human input with it
\* (restoreOtherClaimed) that a cancel does not clear, in whatever order edits,
\* checkpoints, prompts, unloads and restarts come.
THEOREM RoundsAlwaysDisciplined == Spec => []RoundDiscipline
<1>1. Fenced => RoundDiscipline
    BY DEF Fenced, RoundDiscipline, CheckpointedFirst, Stamps, StampedAt
<1> QED BY <1>1, AlwaysFenced, PTL

-----------------------------------------------------------------------------
(* The last look: what the fold refuses was overtaken.                     *)

\* The round the fold of the goal x expects next.
Due(x, m) ==
    /\ x.phase = "active" /\ m.id = x.id /\ m.rev = x.rev
    /\ m.round = x.rounds + 1 /\ m.round <= x.max

\* A round that is about to enter, and was not overtaken, is due.
LastLook ==
    pc = "outer" /\ decision = "enter" /\ ~aborted /\ mounted # "off"
        /\ Rounds(claimed) # {} /\ ~overtaken => Due(g, Submitted)

\* Only an entering step makes the fold fail.
LEMMA CommitFolds ==
    ASSUME NEW x \in Goals, NEW phase
    PROVE  Commit(x, phase, x.max, FALSE).failed = x.failed
BY DEF Commit, Goals

\* Only an entered step folds a round: not the end of a turn,
LEMMA EndTurnFolds ==
    ASSUME NEW x \in Goals, NEW y, NEW reason, EndTurn(x, y, reason)
    PROVE  g'.failed = x.failed
<1> DEFINE x1 == TurnEndGoal(x, y, reason)
           y1 == TurnEndDriver(y, reason)
<1>1. x1 \in Goals /\ x1.failed = x.failed
    BY TurnEndGoalIs
<1>2. g' = x1 \/ g' = IdleGoal(x1, y1)
    BY DEF EndTurn
<1> HIDE DEF x1, y1
<1>3. Commit(x1, "paused", x1.max, FALSE).failed = x1.failed
    BY <1>1, CommitFolds
<1> QED BY <1>1, <1>2, <1>3 DEF IdleGoal

\* nor a pass of the loop,
LEMMA ReserveFolds ==
    ASSUME NEW x \in Goals, NEW y, Reserve(x, y) \/ Looping(x, y)
    PROVE  g'.failed = x.failed
<1>1. g' = x \/ g' = Commit(x, "blocked", x.max, FALSE)
    BY DEF Reserve, Blocked, Looping
<1> QED BY <1>1, CommitFolds

\* nor anything else.
LEMMA OnlyEntriesFail ==
    ASSUME Typed, [Next]_vars, ~EnterStep, FoldNeverFails
    PROVE  FoldNeverFails'
<1>0. g \in Goals
    BY DEF Typed, GoalTyped
<1>1. ASSUME g'.failed \in {g.failed, "no"} PROVE FoldNeverFails'
    BY <1>1 DEF FoldNeverFails
<1>2. ASSUME \E y, reason : EndTurn(g, y, reason) PROVE FoldNeverFails'
    BY <1>0, <1>1, <1>2, EndTurnFolds
<1>3. CASE Assembled
    BY <1>1, <1>2, <1>3 DEF Assembled, Fence
<1>4. CASE Downstream
  <2>1. CASE DownstreamRejects
    <3>1. g' = g \/ g' = Commit(g, "blocked", g.max, FALSE)
        BY <2>1 DEF DownstreamRejects
    <3> QED BY <1>0, <1>1, <3>1, CommitFolds
  <2>2. CASE DownstreamEnters
      BY <1>1, <2>2 DEF DownstreamEnters, Fence
  <2>3. CASE DownstreamThrows
      BY <1>2, <2>3 DEF DownstreamThrows
  <2> QED BY <1>4, <2>1, <2>2, <2>3 DEF Downstream
<1>5. CASE StepFails \/ StepContinues \/ \E reason : StepEnds(reason)
    BY <1>1, <1>2, <1>5 DEF StepFails, StepContinues, StepEnds
<1>6. ASSUME NEW s \in {"yes", "no", "flushing"}
      PROVE  LET x == [g EXCEPT !.stored = s] IN x \in Goals /\ x.failed = g.failed
    BY <1>0 DEF Goals
<1>7. CASE Drive
  <2> DEFINE s == IF g.stored = "no" THEN "flushing" ELSE g.stored
             x == [g EXCEPT !.stored = s]
  <2>1. s \in {"yes", "no", "flushing"}
      BY <1>0 DEF Goals
  <2>2. \E y : Looping(g, y) \/ Looping(x, y) \/ Reserve(g, y)
      BY <1>7 DEF Drive
  <2> HIDE DEF s
  <2>3. x \in Goals /\ x.failed = g.failed
      BY <1>6, <2>1
  <2> HIDE DEF x
  <2> QED BY <1>0, <1>1, <2>2, <2>3, ReserveFolds
<1>8. CASE FlushSettles
  <2> DEFINE s == IF g.stored = "flushing" THEN "no" ELSE g.stored
             t == IF g.stored = "flushing" THEN "yes" ELSE g.stored
             w == [g EXCEPT !.stored = s]
             x == [g EXCEPT !.stored = t]
  <2>1. {s, t} \subseteq {"yes", "no", "flushing"}
      BY <1>0 DEF Goals
  <2>2. \E y : Looping(Disarm(w), y) \/ Looping(x, y) \/ Reserve(x, y)
      BY <1>8 DEF FlushSettles
  <2> HIDE DEF s, t
  <2>3. w \in Goals /\ w.failed = g.failed /\ x \in Goals /\ x.failed = g.failed
      BY <1>6, <2>1
  <2> HIDE DEF w, x
  <2>4. Disarm(w) \in Goals /\ Disarm(w).failed = g.failed
      BY <2>3, DisarmIs
  <2> QED BY <1>1, <2>2, <2>3, <2>4, ReserveFolds
<1>9. CASE Operated \/ Paused \/ Resume \/ Complete \/ Block \/ Clear
  <2>1. PICK x : Operation(x) /\ g' = x
      BY <1>9, OperationsAre DEF Change
  <2>2. ASSUME NEW phase, NEW max, NEW armed, Revision(x, phase, max, armed)
        PROVE  x.failed = g.failed
      BY <1>0, <2>2, CommitIs DEF Revision
  <2>3. \A max : Fresh(max).failed = "no"
      BY DEF Fresh, NoGoal
  <2>4. Tombstone.failed = "no"
      BY DEF Tombstone, NoGoal
  <2> QED BY <1>1, <2>1, <2>2, <2>3, <2>4 DEF Operation
<1>10. CASE ReplayWake \/ Inject \/ Cancel \/ BeginMaintenance \/ EndMaintenance
            \/ (\E kind : Send(kind)) \/ Unloaded \/ UNCHANGED vars
    BY <1>1, <1>10 DEF ReplayWake, Inject, Cancel, BeginMaintenance, EndMaintenance, Send,
       Unloaded, vars
<1>11. CASE Unload \/ Load
    BY <1>0, <1>1, <1>11, UnloadIs, DisarmIs DEF Load
<1>12. CASE Restart
    BY <1>0, <1>1, <1>12 DEF Restart, Goals
<1> QED BY <1>3, <1>4, <1>5, <1>7, <1>8, <1>9, <1>10, <1>11, <1>12, StepsAre

\* What the driver found valid is due.
LEMMA ValidIsDue ==
    ASSUME Stamps(g, d), NEW m, Valid(m)
    PROVE  Due(g, m)
BY DEF Valid, Due, Stamps, StampedAt, ActiveArmed, Current

\* Every step keeps the last look, until the round is overtaken.
LEMMA LastLookStep ==
    ASSUME Typed, Stamps(g, d), LastLook, overtaken \in BOOLEAN, [FenceNext]_fenceVars
    PROVE  LastLook'
<1>0. [Next]_vars /\ (Overtakes \/ UNCHANGED fenceVars)
    BY DEF FenceNext, fenceVars
<1>1. SUFFICES ASSUME pc' = "outer", decision' = "enter", ~aborted', mounted' # "off",
                      Rounds(claimed)' # {}, ~overtaken'
               PROVE  Due(g, Submitted)'
    BY DEF LastLook
<1>2. CASE pc = "outer"
  <2>1. /\ claimed' = claimed /\ decision = "enter" /\ (aborted => aborted')
        /\ mounted = "off" => mounted' \in {"off", "on"}
        /\ g.phase = "active" /\ g'.id = g.id /\ g'.rev = g.rev => SameTerms(g, g')
      BY <1>0, <1>1, <1>2, OuterKeeps
  <2>2. Submitted' = Submitted /\ Rounds(claimed) # {}
      BY <1>1, <2>1 DEF Submitted, Rounds
  <2>3. ~overtaken /\ g'.id = g.id /\ g'.rev = g.rev /\ mounted # "off"
    <3>1. CASE Overtakes
        BY <1>1, <1>2, <2>1, <2>2, <3>1 DEF Overtakes
    <3>2. CASE UNCHANGED fenceVars
        BY <1>1, <3>2 DEF fenceVars, vars
    <3> QED BY <1>0, <3>1, <3>2
  <2>4. Due(g, Submitted)
      BY <1>1, <1>2, <2>1, <2>2, <2>3 DEF LastLook
  <2>5. SameTerms(g, g')
      BY <2>1, <2>3, <2>4 DEF Due
  <2> QED BY <2>2, <2>4, <2>5 DEF Due, SameTerms
<1>3. CASE pc # "outer"
  <2>1. /\ UNCHANGED <<g, d, mounted, aborted, claimed>>
        /\ mounted # "off" /\ Rounds(claimed) # {} /\ ~aborted => Valid(Submitted)
      BY <1>0, <1>1, <1>3, OuterEntered DEF Fence
  <2>2. Submitted' = Submitted /\ Rounds(claimed) # {}
      BY <1>1, <2>1 DEF Submitted, Rounds
  <2>3. Due(g, Submitted)
      BY <1>1, <2>1, <2>2, ValidIsDue
  <2> QED BY <2>1, <2>2, <2>3 DEF Due
<1> QED BY <1>2, <1>3

\* A round that was not overtaken is the one the fold expects.
LEMMA EntersDue ==
    ASSUME Typed, LastLook, ~overtaken, EnterStep, g.failed = "no"
    PROVE  FoldNeverFails'
<1>0. g \in Goals
    BY DEF Typed, GoalTyped
<1>1. CASE \E reason : EndTurn(g, d, reason)
    BY <1>0, <1>1, EndTurnFolds DEF FoldNeverFails
<1>2. CASE /\ ~aborted /\ decision = "enter" /\ pc = "outer"
           /\ g' = IF Rounds(claimed) = {} THEN g ELSE FoldRound(g, Submitted)
  <2>1. CASE Rounds(claimed) = {}
      BY <1>0, <1>2, <2>1 DEF FoldNeverFails
  <2>2. CASE Rounds(claimed) # {} /\ mounted = "off"
    <3>1. g' = FoldRound(g, Submitted)
        BY <1>2, <2>2
    <3> QED BY <1>0, <2>2, <3>1 DEF FoldRound, FoldNeverFails, Goals
  <2>3. CASE Rounds(claimed) # {} /\ mounted # "off"
    <3>1. Due(g, Submitted)
        BY <1>2, <2>3 DEF LastLook
    <3>2. g' = [g EXCEPT !.rounds = Submitted.round]
        BY <1>2, <2>3, <3>1 DEF FoldRound, Due
    <3> QED BY <1>0, <3>2 DEF FoldNeverFails, Goals
  <2> QED BY <2>1, <2>2, <2>3
<1> QED BY <1>1, <1>2 DEF EnterStep

\* The inductive invariant of the last look.
Looked == Fenced /\ LastLook /\ overtaken \in BOOLEAN

\* Nothing is proposed at the start.
LEMMA LookedInit == FenceInit => Looked
BY FencedInit DEF FenceInit, Looked, LastLook, Init

\* Every step keeps it.
LEMMA LookedStep ==
    ASSUME Looked, [FenceNext]_fenceVars
    PROVE  Looked'
<1>1. [Next]_vars
    BY DEF FenceNext, fenceVars
<1>2. overtaken' \in BOOLEAN
    BY DEF Looked, FenceNext, Overtakes, fenceVars
<1> QED BY <1>1, <1>2, FencedStep, LastLookStep DEF Looked, Fenced

\* A step that makes the fold fail enters an overtaken round.
LEMMA FailsOvertaken ==
    ASSUME Looked, [FenceNext]_fenceVars, g.failed = "no", g'.failed = "fenced"
    PROVE  overtaken
<1>1. [Next]_vars /\ Typed /\ LastLook
    BY DEF FenceNext, fenceVars, Looked, Fenced
<1>2. FoldNeverFails /\ ~FoldNeverFails'
    BY DEF FoldNeverFails
<1>3. EnterStep
    BY <1>1, <1>2, OnlyEntriesFail
<1> QED BY <1>1, <1>2, <1>3, EntersDue

\* Whatever is mounted around the driver, its second check is worth this much:
\* the strict fold (goal/src/fold.ts) refuses a goal message only if its goal was
\* changed, or a driver mounted, while an outer listener held the step; no
\* prompt, cancel, unload, checkpoint or maintenance spoils the log.
THEOREM FoldFailsOvertaken == FenceSpec => FoldFailsOnlyOvertaken
<1>1. Looked /\ [FenceNext]_fenceVars => Looked'
    BY LookedStep
<1>2. Looked /\ [FenceNext]_fenceVars
        => [g.failed = "no" /\ g'.failed = "fenced" => overtaken]_fenceVars
    BY FailsOvertaken
<1> QED BY <1>1, <1>2, LookedInit, PTL DEF FenceSpec, FoldFailsOnlyOvertaken

-----------------------------------------------------------------------------
(* No lost trigger.                                                        *)

\* What changed during a checkpoint asked for another pass, and a loop at rest
\* owes none.
PassAt(y) ==
    mounted = "on" =>
        /\ y.run = "flush" /\ y.needs => y.requested
        /\ y.run = "rest" => ~y.requested

\* While no turn runs, a goal with authority has a pass requested, a checkpoint
\* under way, or a wake to come that a queued prompt or round asked for; a
\* competing prompt always has that wake.  st, l and c are status, latch and cut.
Awake(x, y, st, l, c) ==
    /\ mounted = "on" /\ st # "running" =>
        /\ ActiveArmed(x) /\ ~c =>
            y.requested \/ y.run = "flush" \/ (l /\ (y.competing \/ y.attempt.phase # "none"))
        /\ y.competing => l \/ c
    /\ PassAt(y)

AwakeNext == Awake(g', d', status', latch', hist'.cut)

\* What leaves the pass alone keeps what is said of it.
LEMMA PassKept ==
    ASSUME NEW y, NEW z, SamePass(y, z), PassAt(y)
    PROVE  PassAt(z)
BY DEF SamePass, PassAt

\* A running turn owes nobody a pass yet.
LEMMA AwakeRunning ==
    ASSUME status' = "running", PassAt(d')
    PROVE  AwakeNext
BY DEF AwakeNext, Awake

\* A pass asked for is one the loop owes.
LEMMA PassRequested ==
    ASSUME NEW y \in Drivers, PassAt(y)
    PROVE  PassAt(RequestDrive(y)) /\ PassAt(GoalChanged(y))
BY RequestDriveIs, GoalChangedIs DEF PassAt

\* An open turn has its idle edge to come.
LEMMA OpenTurnAwake ==
    ASSUME NEW y \in Drivers, PassAt(y), NEW tq, NEW sq, OpenTurn(y, tq, sq)
    PROVE  AwakeNext
<1>1. PICK msgs : d' = OnClaimed(y, msgs) /\ status' = "running"
    BY DEF OpenTurn
<1>2. PassAt(d')
    BY <1>1, OnClaimedIs, PassKept
<1> QED BY <1>1, <1>2, AwakeRunning

\* The end of a turn asks for a pass, or opens the next turn.
LEMMA EndTurnAwake ==
    ASSUME NEW x \in Goals, NEW y \in Drivers, PassAt(y), NEW reason, EndTurn(x, y, reason)
    PROVE  AwakeNext
<1> DEFINE x1 == TurnEndGoal(x, y, reason)
           y1 == TurnEndDriver(y, reason)
<1>1. y1 \in Drivers /\ SamePass(y, y1)
    BY TurnEndDriverIs
<1>2. OpenTurn(y1, turnQ, stepQ) \/ d' = IdleDriver(x1, y1)
    BY DEF EndTurn
<1> HIDE DEF x1, y1
<1>3. CASE OpenTurn(y1, turnQ, stepQ)
    BY <1>1, <1>3, PassKept, OpenTurnAwake
<1>4. CASE d' = IdleDriver(x1, y1)
  <2>1. /\ mounted # "off" => ~d'.competing
        /\ mounted = "on" => d'.requested /\ d'.run # "rest"
      BY <1>1, <1>4, IdleDriverIs
  <2> QED BY <2>1 DEF AwakeNext, Awake, PassAt
<1> QED BY <1>2, <1>3, <1>4

\* A wake that meets maintenance is latched.
LEMMA WakeAwake ==
    ASSUME status \in {"idle", "running", "maint"}, NEW x, NEW y \in Drivers,
           Awake(x, y, status, TRUE, hist.cut), NEW tq, NEW sq, Wake(y, tq, sq),
           g' = x, hist' = hist
    PROVE  AwakeNext
<1>1. CASE status = "idle"
    BY <1>1, OpenTurnAwake DEF Wake, Awake
<1>2. CASE status # "idle"
  <2>1. d' = y /\ status' = status /\ latch' = (latch \/ status = "maint" \/ aborted)
      BY <1>2 DEF Wake
  <2> QED BY <1>2, <2>1 DEF AwakeNext, Awake
<1> QED BY <1>1, <1>2

\* A blocked goal has no authority to wait with.
LEMMA BlockedAwake ==
    ASSUME AgentTyped, hist \in Histories, NEW x, GoalTyped(x), NEW y, DriverTyped(y), PassAt(y),
           ~y.competing, Blocked(x, y)
    PROVE  AwakeNext
<1>1. ~ActiveArmed(g')
    BY BlockedTyped
<1>2. d' = GoalChanged(y) /\ y \in Drivers
    BY DEF Blocked, Looping, DriverTyped
<1>3. d'.competing = y.competing /\ PassAt(d')
    BY <1>2, GoalChangedIs, PassRequested
<1> QED BY <1>1, <1>3 DEF AwakeNext, Awake

\* A reserved round wakes the agent, or the goal is blocked.
LEMMA ReserveAwake ==
    ASSUME AgentTyped, hist \in Histories, NEW x, GoalTyped(x), NEW y, DriverTyped(y),
           ~y.competing, y.run = "loop", Reserve(x, y)
    PROVE  AwakeNext
<1>0. y \in Drivers /\ PassAt(y) /\ status \in {"idle", "running", "maint"}
    BY DEF DriverTyped, PassAt, AgentTyped
<1>1. CASE y.attempt.phase # "none"
  <2> DEFINE w == [y EXCEPT !.attempt = NoAttempt, !.needs = TRUE, !.requested = TRUE]
  <2>1. d' = w
      BY <1>1 DEF Reserve, Looping
  <2>2. w.requested /\ w.run = y.run /\ w.competing = y.competing
      BY <1>0 DEF Drivers
  <2> HIDE DEF w
  <2> QED BY <2>1, <2>2 DEF AwakeNext, Awake, PassAt
<1>2. CASE y.attempt.phase = "none" /\ ~ActiveArmed(x)
  <2>1. g' = x /\ d' = y
      BY <1>2 DEF Reserve, Looping
  <2> QED BY <1>0, <1>2, <2>1 DEF AwakeNext, Awake
<1>3. CASE y.attempt.phase = "none" /\ ActiveArmed(x)
  <2> DEFINE m == GoalMsg(x.id, x.rev, x.rounds + 1)
             z == [y EXCEPT !.attempt = [NoAttempt EXCEPT !.msg = m, !.phase = "queued"]]
  <2>1. \/ Blocked(x, y)
        \/ ~(x.rounds >= x.max) /\ Wake(z, Append(turnQ, m), stepQ) /\ g' = x /\ hist' = hist
      BY <1>3 DEF Reserve
  <2>2. CASE Blocked(x, y)
      BY <1>0, <2>2, BlockedAwake
  <2>3. CASE ~(x.rounds >= x.max) /\ Wake(z, Append(turnQ, m), stepQ) /\ g' = x /\ hist' = hist
    <3>1. x.rounds < x.max
        BY <2>3 DEF GoalTyped, Goals
    <3>2. z \in Drivers /\ SamePass(y, z) /\ z.competing = y.competing /\ z.attempt.phase = "queued"
        BY <1>0, <1>3, <3>1, ReservedIs
    <3> HIDE DEF m, z
    <3>3. Awake(x, z, status, TRUE, hist.cut)
        BY <1>0, <3>2, PassKept DEF Awake
    <3> QED BY <1>0, <2>3, <3>2, <3>3, WakeAwake
  <2> QED BY <2>1, <2>2, <2>3
<1> QED BY <1>1, <1>2, <1>3

\* A step of a running turn has only the loop to keep.
LEMMA TurnAwake ==
    ASSUME Typed, Awake(g, d, status, latch, hist.cut),
           Assembled \/ Downstream \/ EnterStep \/ StepFails \/ StepContinues
             \/ \E reason : StepEnds(reason)
    PROVE  AwakeNext
<1>0. g \in Goals /\ d \in Drivers /\ PassAt(d) /\ status = "running"
  <2>1. pc # "off"
      BY DEF Assembled, Downstream, EnterStep, StepFails, StepContinues, StepEnds
  <2> QED BY <2>1 DEF Typed, GoalTyped, DriverTyped, AgentTyped, PcAt, Awake
<1>1. ASSUME \E reason : EndTurn(g, d, reason) PROVE AwakeNext
    BY <1>0, <1>1, EndTurnAwake
<1>2. ASSUME status' = status, d' = d PROVE AwakeNext
    BY <1>0, <1>2, AwakeRunning
<1> DEFINE y == [d EXCEPT !.attempt = NoAttempt]
<1>3. y \in Drivers /\ PassAt(y)
    BY <1>0, DroppedIs, PassKept
<1> HIDE DEF y
<1>4. ASSUME NEW m, Fence(m) PROVE AwakeNext
  <2>1. status' = status /\ (d' = RequestDrive(y) \/ d' = RequestDrive(d))
      BY <1>4 DEF Fence, y
  <2> QED BY <1>0, <1>3, <2>1, PassRequested, AwakeRunning
<1>5. CASE Assembled
    BY <1>1, <1>2, <1>4, <1>5 DEF Assembled
<1>6. CASE DownstreamEnters
    BY <1>2, <1>4, <1>6 DEF DownstreamEnters
<1>7. CASE DownstreamRejects
  <2>1. status' = status /\ d' \in {d, y, GoalChanged(y)}
      BY <1>7 DEF DownstreamRejects, y
  <2> QED BY <1>0, <1>3, <2>1, PassRequested, AwakeRunning
<1>8. CASE DownstreamThrows
  <2>1. \E reason : EndTurn(g, d, reason) \/ EndTurn(g, RequestDrive(y), reason)
      BY <1>8 DEF DownstreamThrows, y
  <2> QED BY <1>0, <1>1, <1>3, <2>1, PassRequested, RequestDriveIs, EndTurnAwake
<1>9. CASE EnterStep
  <2>1. CASE d' = OnAdmitted(d, claimed) /\ status' = status
      BY <1>0, <2>1, OnAdmittedIs, PassKept, AwakeRunning
  <2> QED BY <1>1, <1>9, <2>1 DEF EnterStep
<1>10. CASE StepFails \/ StepContinues \/ \E reason : StepEnds(reason)
    BY <1>1, <1>2, <1>10 DEF StepFails, StepContinues, StepEnds
<1> QED BY <1>5, <1>6, <1>7, <1>8, <1>9, <1>10 DEF Downstream

\* A pass ends only with its work done, or with a checkpoint under way.
LEMMA DriveAwake ==
    ASSUME Typed, Awake(g, d, status, latch, hist.cut), Drive
    PROVE  AwakeNext
<1> DEFINE y == [d EXCEPT !.requested = FALSE]
           u == [d EXCEPT !.run = "rest"]
           w == [y EXCEPT !.needs = FALSE, !.run = "flush"]
<1>0. /\ AgentTyped /\ hist \in Histories /\ GoalTyped(g) /\ d \in Drivers /\ d.run = "loop"
      /\ mounted # "off"
    BY DEF Typed, DriverTyped, Blank, Drive
<1>1. /\ y \in Drivers /\ ~y.requested /\ y.run = "loop" /\ y.competing = d.competing
      /\ y.attempt = d.attempt /\ DriverTyped(y)
      /\ u.requested = d.requested /\ u.run = "rest" /\ u.competing = d.competing
      /\ u.attempt = d.attempt
      /\ w.run = "flush" /\ w.competing = d.competing /\ ~w.needs
    BY <1>0 DEF Drivers, DriverTyped
<1>2. \/ (~d.requested \/ mounted # "on") /\ Looping(g, u)
      \/ ~ReadyToDrive(y) /\ Looping(g, y)
      \/ ReadyToDrive(y) /\ \E x : Looping(x, w)
      \/ ReadyToDrive(y) /\ Reserve(g, y)
    BY DEF Drive
<1> HIDE DEF y, u, w
<1>3. CASE (~d.requested \/ mounted # "on") /\ Looping(g, u)
  <2>1. g' = g /\ d' = u /\ UNCHANGED <<status, latch, hist>>
      BY <1>3 DEF Looping, agentVars
  <2> QED BY <1>0, <1>1, <1>3, <2>1 DEF AwakeNext, Awake, PassAt
<1>4. CASE ~ReadyToDrive(y) /\ Looping(g, y)
  <2>1. g' = g /\ d' = y /\ UNCHANGED <<status, latch, hist>>
      BY <1>4 DEF Looping, agentVars
  <2> QED BY <1>0, <1>1, <1>4, <2>1 DEF AwakeNext, Awake, PassAt, ReadyToDrive
<1>5. CASE ReadyToDrive(y) /\ \E x : Looping(x, w)
  <2>1. d' = w /\ UNCHANGED <<status, latch, hist>>
      BY <1>5 DEF Looping, agentVars
  <2> QED BY <1>0, <1>1, <1>5, <2>1 DEF AwakeNext, Awake, PassAt, ReadyToDrive
<1>6. CASE ReadyToDrive(y) /\ Reserve(g, y)
    BY <1>0, <1>1, <1>6, ReserveAwake DEF ReadyToDrive
<1> QED BY <1>2, <1>3, <1>4, <1>5, <1>6

\* What changed during a checkpoint gets a pass of its own.
LEMMA FlushSettlesAwake ==
    ASSUME Typed, Awake(g, d, status, latch, hist.cut), FlushSettles
    PROVE  AwakeNext
<1> DEFINE y == [d EXCEPT !.run = "loop"]
           s == IF g.stored = "flushing" THEN "no" ELSE g.stored
           t == IF g.stored = "flushing" THEN "yes" ELSE g.stored
           w == [g EXCEPT !.stored = s]
           x == [g EXCEPT !.stored = t]
<1>0. /\ AgentTyped /\ hist \in Histories /\ g \in Goals /\ d \in Drivers /\ d.run = "flush"
      /\ mounted # "off"
    BY DEF Typed, GoalTyped, DriverTyped, Blank, FlushSettles
<1>1. /\ y \in Drivers /\ y.run = "loop" /\ y.competing = d.competing /\ y.needs = d.needs
      /\ y.requested = d.requested /\ DriverTyped(y)
    BY <1>0 DEF Drivers, DriverTyped
<1>2. {s, t} \subseteq {"yes", "no", "flushing"}
    BY <1>0 DEF Goals
<1>3. \/ Looping(Disarm(w), y)
      \/ ReadyToDrive(y) /\ Reserve(x, y)
      \/ ~(ReadyToDrive(y) /\ ~y.needs) /\ Looping(x, y)
    BY DEF FlushSettles
<1> HIDE DEF y, s, t
<1>4. GoalTyped(w) /\ GoalTyped(x)
    BY <1>2, StoringIs DEF Typed
<1> HIDE DEF w, x
<1>5. CASE Looping(Disarm(w), y)
  <2>1. ~ActiveArmed(g') /\ d' = y /\ UNCHANGED <<status, latch, hist>>
      BY <1>4, <1>5, DisarmIs DEF Looping, agentVars, GoalTyped
  <2> QED BY <1>1, <2>1 DEF AwakeNext, Awake, PassAt
<1>6. CASE ReadyToDrive(y) /\ Reserve(x, y)
    BY <1>0, <1>1, <1>4, <1>6, ReserveAwake DEF ReadyToDrive
<1>7. CASE ~(ReadyToDrive(y) /\ ~y.needs) /\ Looping(x, y)
  <2>1. d' = y /\ UNCHANGED <<status, latch, hist>>
      BY <1>7 DEF Looping, agentVars
  <2>2. mounted = "on" => status = "running" \/ d.competing \/ d.requested
      BY <1>0, <1>1, <1>7 DEF ReadyToDrive, Awake, PassAt
  <2> QED BY <1>0, <1>1, <2>1, <2>2 DEF AwakeNext, Awake, PassAt
<1> QED BY <1>3, <1>5, <1>6, <1>7

\* An armed operation asks for a pass.
LEMMA OperatedAwake ==
    ASSUME Typed, Awake(g, d, status, latch, hist.cut),
           Operated \/ Paused \/ Resume \/ Complete \/ Block \/ Clear
    PROVE  AwakeNext
<1>1. d' = GoalChanged(d) /\ status' = status /\ latch' = latch /\ hist'.cut = hist.cut
  <2>1. (\E x, abort : Change(x, abort)) /\ (Renewed \/ Touched)
      BY OperationsAre
  <2> QED BY <2>1 DEF Change, Renewed, Touched, Typed, Histories
<1>2. d'.competing = d.competing /\ (mounted = "on" => d'.requested) /\ PassAt(d')
    BY <1>1, GoalChangedIs, PassRequested DEF Typed, DriverTyped, Awake
<1> QED BY <1>1, <1>2 DEF AwakeNext, Awake

\* Prompts and cancels leave a trigger, except a cancel of maintenance.
LEMMA InputAwake ==
    ASSUME Typed, Awake(g, d, status, latch, hist.cut),
           ReplayWake \/ Inject \/ Cancel \/ BeginMaintenance \/ EndMaintenance
             \/ \E kind : Send(kind)
    PROVE  AwakeNext
<1>0. d \in Drivers /\ PassAt(d) /\ status \in {"idle", "running", "maint"}
    BY DEF Typed, DriverTyped, AgentTyped, Awake
<1>1. CASE ReplayWake
  <2>1. OpenTurn(d, turnQ, stepQ)
      BY <1>1 DEF ReplayWake, Typed, AgentTyped, PcAt
  <2> QED BY <1>0, <2>1, OpenTurnAwake
<1>2. CASE Inject
    BY <1>2 DEF Inject, AwakeNext, Awake
<1>3. CASE BeginMaintenance \/ EndMaintenance
    BY <1>3 DEF BeginMaintenance, EndMaintenance, AwakeNext, Awake
<1>4. CASE Cancel
  <2>1. PICK msgs : /\ d' = OnDiscarded(d, msgs) /\ g' = g /\ status' = status /\ latch' = FALSE
                    /\ hist'.cut = (\/ hist.cut
                                    \/ status = "maint" /\ (d.competing \/ d.attempt.phase # "none"))
      BY <1>4 DEF Cancel, CancelWith
  <2>2. SameRound(d, d') /\ SamePass(d, d') /\ d'.competing = d.competing /\ PassAt(d')
      BY <1>0, <2>1, OnDiscardedIs, PassKept
  <2>3. ~(status = "idle" /\ latch)
      BY <1>4 DEF Cancel, Free, Quiet
  <2>4. CASE status = "running"
      BY <2>1, <2>2, <2>4, AwakeRunning
  <2>5. CASE status = "idle"
      BY <2>1, <2>2, <2>3, <2>5 DEF AwakeNext, Awake, SamePass
  <2>6. CASE status = "maint"
      BY <2>1, <2>2, <2>6 DEF AwakeNext, Awake, SamePass
  <2> QED BY <1>0, <2>4, <2>5, <2>6
<1>5. ASSUME NEW kind, Send(kind) PROVE AwakeNext
  <2>1. \/ \E tq, sq : Wake(d, tq, sq)
        \/ \E tq, sq : Wake(Competes(d), tq, sq)
      BY <1>5 DEF Send
  <2>2. g' = g /\ hist' = hist
      BY <1>5 DEF Send
  <2>3. Awake(g, d, status, TRUE, hist.cut)
      BY DEF Awake
  <2>4. /\ Competes(d) \in Drivers /\ SameRound(d, Competes(d)) /\ SamePass(d, Competes(d))
        /\ PassAt(Competes(d))
      BY <1>0, CompetesIs, PassKept
  <2>5. mounted = "on" => Competes(d).competing
      BY <1>0 DEF Competes, Drivers
  <2>6. Awake(g, Competes(d), status, TRUE, hist.cut)
      BY <2>4, <2>5 DEF Awake
  <2> QED BY <1>0, <2>1, <2>2, <2>3, <2>4, <2>6, WakeAwake
<1> QED BY <1>1, <1>2, <1>3, <1>4, <1>5

\* Every step keeps a trigger for the goal that is armed.
LEMMA AwakeStep ==
    ASSUME Typed, Awake(g, d, status, latch, hist.cut), [Next]_vars
    PROVE  Awake(g, d, status, latch, hist.cut)'
<1>1. CASE Unload \/ Unloaded
    BY <1>1, UnloadIs DEF Unloaded, Awake, PassAt
<1>2. CASE Load
  <2>1. mounted = "off" /\ d' = d /\ ~ActiveArmed(g')
      BY <1>2, DisarmIs DEF Load, Typed, GoalTyped
  <2>2. Blank(d)
      BY <2>1 DEF Typed, DriverTyped
  <2> QED BY <2>1, <2>2 DEF Awake, PassAt, Blank
<1>3. CASE Restart
  <2>1. d' = FreshDriver /\ ~ActiveArmed(g')
      BY <1>3 DEF Restart, ActiveArmed, Current, Typed, GoalTyped, Goals
  <2> QED BY <2>1, FreshDriverIs DEF Awake, PassAt, Blank
<1>4. CASE Next /\ mounted' = mounted /\ ~(Unload \/ Unloaded \/ Load \/ Restart)
  <2>1. AwakeNext
      BY <1>4, StepsAre, TurnAwake, DriveAwake, FlushSettlesAwake, OperatedAwake, InputAwake
  <2> QED BY <1>4, <2>1 DEF AwakeNext, Awake, PassAt
<1>5. CASE UNCHANGED vars
    BY <1>5 DEF vars, Awake, PassAt
<1> QED BY <1>1, <1>2, <1>3, <1>4, <1>5, MountedStays

-----------------------------------------------------------------------------
(* A cancel that met the round of this revision ends in its pause.         *)

HitAt(x, y) ==
    y.attempt.phase # "none" /\ y.attempt.msg.id = x.id /\ y.attempt.msg.rev = x.rev

\* Until it does, the aborted turn runs and carries that round.
CancelMet ==
    hist.hit = "exact" /\ ActiveArmed(g) =>
        status = "running" /\ aborted /\ HitAt(g, d)

\* A step of a turn that was not aborted, or of no turn, met no cancel.
LEMMA NothingMet ==
    ASSUME CancelMet, ~(status = "running" /\ aborted),
           hist'.hit = "exact" => hist.hit = "exact",
           hist'.hit = "exact" /\ ActiveArmed(g') => ActiveArmed(g)
    PROVE  CancelMet'
BY DEF CancelMet

\* A step that leaves the aborted turn, its goal and its round alone.
LEMMA StillMet ==
    ASSUME CancelMet, status' = status, aborted' = aborted,
           hist'.hit = "exact" => hist.hit = "exact",
           SameRound(d, d'), g'.id = g.id, g'.rev = g.rev,
           ActiveArmed(g') => ActiveArmed(g)
    PROVE  CancelMet'
<1>1. ActiveArmed(g)' <=> ActiveArmed(g')
    BY DEF ActiveArmed, Current
<1> QED BY <1>1 DEF CancelMet, HitAt, SameRound

\* The end of an aborted turn takes the authority of the round it carried.
LEMMA AbortedTurnPauses ==
    ASSUME NEW x \in Goals, NEW y \in Drivers, mounted # "off", HitAt(x, y),
           y.attempt.phase \in {"none", "queued", "claimed", "admitted"}
    PROVE  LET x1 == TurnEndGoal(x, y, "aborted")
               y1 == TurnEndDriver(y, "aborted") IN
           ~ActiveArmed(IdleGoal(x1, y1))
<1> DEFINE x1 == TurnEndGoal(x, y, "aborted")
           y1 == TurnEndDriver(y, "aborted")
<1>1. /\ x1 \in Goals /\ x1.id = x.id /\ x1.rev = x.rev
      /\ ~UnderWay(y) => ~ActiveArmed(x1)
    BY TurnEndGoalIs
<1>2. /\ SameRound(y, y1) /\ y1.attempt.phase = y.attempt.phase
      /\ UnderWay(y) => y1.attempt.cancelled
    BY TurnEndDriverIs
<1> HIDE DEF x1, y1
<1>3. ActiveArmed(x1) => PausesAtIdle(x1, y1)
    BY <1>1, <1>2 DEF PausesAtIdle, HitAt, SameRound, UnderWay
<1>4. ~ActiveArmed(IdleGoal(x1, y1))
    BY <1>1, <1>3, IdleGoalIs
<1> QED BY <1>4 DEF x1, y1

\* The idle edge of an aborted turn pauses the goal it carried.
LEMMA EndTurnMet ==
    ASSUME Typed, CancelMet, NEW y \in Drivers, NEW reason, EndTurn(g, y, reason),
           status = "running", aborted => reason = "aborted" /\ y = d
    PROVE  CancelMet'
<1> DEFINE x1 == TurnEndGoal(g, y, reason)
           y1 == TurnEndDriver(y, reason)
<1>0. g \in Goals /\ d \in Drivers /\ hist \in Histories /\ hist.cut \in BOOLEAN
    BY DEF Typed, GoalTyped, DriverTyped, Histories
<1>1. x1 \in Goals /\ (ActiveArmed(x1) => ActiveArmed(g))
    BY <1>0, TurnEndGoalIs
<1>2. \/ /\ reason # "aborted" /\ g' = x1 /\ Met(x1, hist.cut)
      \/ g' = IdleGoal(x1, y1) /\ Met(g', FALSE)
    BY DEF EndTurn
<1> HIDE DEF x1, y1
<1>3. ActiveArmed(g') => ActiveArmed(g)
    BY <1>1, <1>2, IdleGoalIs
<1>4. hist'.hit = "exact" => hist.hit = "exact" /\ ActiveArmed(g')
    BY <1>0, <1>2, MetIs
<1>5. CASE ~aborted
    BY <1>3, <1>4, <1>5, NothingMet
<1>6. CASE aborted
  <2>1. reason = "aborted" /\ y = d /\ g' = IdleGoal(x1, y1)
      BY <1>2, <1>6
  <2>2. ASSUME hist'.hit = "exact" PROVE FALSE
    <3>1. HitAt(g, d)
        BY <1>3, <1>4, <2>2 DEF CancelMet
    <3>2. mounted # "off"
        BY <3>1 DEF Typed, DriverTyped, Blank, HitAt
    <3>3. d.attempt.phase \in {"none", "queued", "claimed", "admitted"}
        BY <1>0 DEF Drivers, Attempts
    <3>4. ~ActiveArmed(g')
        BY <1>0, <2>1, <3>1, <3>2, <3>3, AbortedTurnPauses DEF x1, y1
    <3> QED BY <1>4, <2>2, <3>4
  <2> QED BY <2>2 DEF CancelMet
<1> QED BY <1>5, <1>6

\* A turn that goes on carries the round it was cancelled with.
LEMMA TurnMet ==
    ASSUME Typed, CancelMet,
           Assembled \/ Downstream \/ EnterStep \/ StepFails \/ StepContinues
             \/ \E reason : StepEnds(reason)
    PROVE  CancelMet'
<1>0. g \in Goals /\ d \in Drivers /\ status = "running"
  <2>1. pc # "off"
      BY DEF Assembled, Downstream, EnterStep, StepFails, StepContinues, StepEnds
  <2> QED BY <2>1 DEF Typed, GoalTyped, DriverTyped, AgentTyped, PcAt
<1>1. ASSUME \E reason : EndTurn(g, d, reason) /\ (aborted => reason = "aborted")
      PROVE  CancelMet'
    BY <1>0, <1>1, EndTurnMet
<1>2. ASSUME UNCHANGED <<g, d, status, aborted, hist>> PROVE CancelMet'
    BY <1>2, StillMet DEF SameRound
<1>3. ASSUME ~aborted, hist' = hist, ActiveArmed(g') => ActiveArmed(g) PROVE CancelMet'
    BY <1>3, NothingMet
<1>4. ASSUME ~aborted, NEW m, Fence(m) PROVE CancelMet'
    BY <1>3, <1>4 DEF Fence
<1>5. CASE Assembled
    BY <1>1, <1>2, <1>4, <1>5 DEF Assembled
<1>6. CASE DownstreamEnters
  <2>1. CASE Fence(Submitted)
    <3>1. ~aborted \/ UNCHANGED <<g, d, status, aborted, hist>>
        BY <1>6 DEF DownstreamEnters
    <3> QED BY <1>2, <1>4, <2>1, <3>1
  <2> QED BY <1>2, <1>6, <2>1 DEF DownstreamEnters
<1>7. CASE DownstreamRejects
  <2>1. CASE aborted
      BY <1>2, <1>7, <2>1 DEF DownstreamRejects
  <2>2. CASE ~aborted
    <3>1. hist' = hist /\ (g' = g \/ (ActiveArmed(g) /\ g' = Commit(g, "blocked", g.max, FALSE)))
        BY <1>7 DEF DownstreamRejects
    <3> QED BY <1>3, <2>2, <3>1
  <2> QED BY <2>1, <2>2
<1>8. CASE DownstreamThrows
  <2> DEFINE y == [d EXCEPT !.attempt = NoAttempt]
  <2>1. CASE aborted
      BY <1>1, <1>8, <2>1 DEF DownstreamThrows
  <2>2. CASE ~aborted
    <3>1. EndTurn(g, d, "error") \/ EndTurn(g, RequestDrive(y), "error")
        BY <1>8, <2>2 DEF DownstreamThrows
    <3>2. RequestDrive(y) \in Drivers
        BY <1>0, DroppedIs, RequestDriveIs
    <3> QED BY <1>0, <2>2, <3>1, <3>2, EndTurnMet
  <2> QED BY <2>1, <2>2
<1>9. CASE EnterStep
  <2>1. CASE /\ ~aborted /\ hist' = hist
             /\ g' = IF Rounds(claimed) = {} THEN g ELSE FoldRound(g, Submitted)
    <3>1. ActiveArmed(g') => ActiveArmed(g)
        BY <1>0, <2>1, SubmittedIs, FoldRoundIs DEF Typed, AgentTyped
    <3> QED BY <1>3, <2>1, <3>1
  <2> QED BY <1>1, <1>9, <2>1 DEF EnterStep
<1>10. CASE StepFails
    BY <1>1, <1>10 DEF StepFails
<1>11. CASE StepContinues
    BY <1>2, <1>11 DEF StepContinues
<1>12. ASSUME NEW reason, StepEnds(reason) PROVE CancelMet'
    BY <1>1, <1>2, <1>12 DEF StepEnds
<1> QED BY <1>5, <1>6, <1>7, <1>8, <1>9, <1>10, <1>11, <1>12 DEF Downstream

\* A pass cannot touch the round of a running turn.
LEMMA LoopMet ==
    ASSUME Typed, CancelMet, Drive \/ FlushSettles
    PROVE  CancelMet'
<1>0. g \in Goals /\ d \in Drivers /\ GoalTyped(g)
    BY DEF Typed, GoalTyped, DriverTyped
<1>1. ASSUME NEW x, NEW y, Looping(x, y), SameRound(d, y), x.id = g.id, x.rev = g.rev,
             ActiveArmed(x) => ActiveArmed(g)
      PROVE  CancelMet'
  <2>1. g' = x /\ d' = y /\ UNCHANGED <<status, aborted, hist>>
      BY <1>1 DEF Looping, agentVars
  <2> QED BY <1>1, <2>1, StillMet
<1>2. ASSUME NEW x, NEW y, Reserve(x, y), status # "running", ActiveArmed(x) => ActiveArmed(g)
      PROVE  CancelMet'
  <2>1. hist' = hist /\ (g' = x \/ (ActiveArmed(x) /\ g' = Commit(x, "blocked", x.max, FALSE)))
      BY <1>2 DEF Reserve, Blocked, Looping
  <2>2. hist' = hist /\ (ActiveArmed(g') => ActiveArmed(g))
      BY <1>2, <2>1
  <2> QED BY <1>2, <2>2, NothingMet
<1>3. CASE Drive
  <2> DEFINE y == [d EXCEPT !.requested = FALSE]
             u == [d EXCEPT !.run = "rest"]
             w == [y EXCEPT !.needs = FALSE, !.run = "flush"]
             s == IF g.stored = "no" THEN "flushing" ELSE g.stored
             x == [g EXCEPT !.stored = s]
  <2>1. SameRound(d, y) /\ SameRound(d, u) /\ SameRound(d, w)
      BY <1>0 DEF Drivers, SameRound
  <2>2. s \in {"yes", "no", "flushing"}
      BY <1>0 DEF Goals
  <2>3. \/ Looping(g, u) \/ Looping(g, y) \/ Looping(x, w)
        \/ Reserve(g, y) /\ status # "running"
      BY <1>3 DEF Drive, ReadyToDrive
  <2> HIDE DEF s, y, u, w
  <2>4. x.id = g.id /\ x.rev = g.rev /\ (ActiveArmed(x) => ActiveArmed(g))
      BY <1>0, <2>2, StoringIs
  <2> HIDE DEF x
  <2> QED BY <1>1, <1>2, <2>1, <2>3, <2>4
<1>4. CASE FlushSettles
  <2> DEFINE y == [d EXCEPT !.run = "loop"]
             s == IF g.stored = "flushing" THEN "no" ELSE g.stored
             t == IF g.stored = "flushing" THEN "yes" ELSE g.stored
             w == [g EXCEPT !.stored = s]
             x == [g EXCEPT !.stored = t]
  <2>1. SameRound(d, y)
      BY <1>0 DEF Drivers, SameRound
  <2>2. {s, t} \subseteq {"yes", "no", "flushing"}
      BY <1>0 DEF Goals
  <2>3. \/ Looping(Disarm(w), y) \/ Looping(x, y)
        \/ Reserve(x, y) /\ status # "running"
      BY <1>4 DEF FlushSettles, ReadyToDrive
  <2> HIDE DEF s, t, y
  <2>4. /\ x.id = g.id /\ x.rev = g.rev /\ (ActiveArmed(x) => ActiveArmed(g))
        /\ w.id = g.id /\ w.rev = g.rev /\ w \in Goals
      BY <1>0, <2>2, StoringIs DEF GoalTyped
  <2> HIDE DEF w, x
  <2>5. Disarm(w).id = g.id /\ Disarm(w).rev = g.rev /\ ~ActiveArmed(Disarm(w))
      BY <2>4, DisarmIs
  <2> QED BY <1>1, <1>2, <2>1, <2>3, <2>4, <2>5
<1> QED BY <1>3, <1>4

\* Operations, prompts and cancels keep what the first cancel met.
LEMMA UsersMet ==
    ASSUME Typed, CancelMet,
           \/ Operated \/ Paused \/ Resume \/ Complete \/ Block \/ Clear
           \/ ReplayWake \/ Inject \/ Cancel \/ BeginMaintenance \/ EndMaintenance
           \/ \E kind : Send(kind)
    PROVE  CancelMet'
<1>0. d \in Drivers /\ hist \in Histories
    BY DEF Typed, DriverTyped
<1>1. CASE Operated \/ Paused \/ Resume \/ Complete \/ Block \/ Clear
  <2>1. hist'.hit # "exact"
      BY <1>0, <1>1, OperationsAre DEF Renewed, Touched, Histories
  <2> QED BY <2>1 DEF CancelMet
<1>2. CASE ReplayWake
  <2>1. status = "idle" /\ hist' = hist /\ g' = g
      BY <1>2 DEF ReplayWake
  <2> QED BY <2>1, NothingMet
<1>3. CASE Inject
    BY <1>3, StillMet DEF Inject, SameRound
<1>4. CASE BeginMaintenance \/ EndMaintenance
  <2>1. status # "running" /\ hist' = hist /\ g' = g
      BY <1>4 DEF BeginMaintenance, EndMaintenance
  <2> QED BY <2>1, NothingMet
<1>5. CASE Cancel
  <2>1. PICK msgs : /\ d' = OnDiscarded(d, msgs) /\ g' = g /\ status' = status
                    /\ aborted' = (status # "idle")
      BY <1>5 DEF Cancel, CancelWith
  <2>2. SameRound(d, d')
      BY <1>0, <2>1, OnDiscardedIs
  <2>3. hist'.hit = IF d.attempt.phase = "none" \/ d.attempt.msg.id # g.id \/ ~ActiveArmed(g)
                      THEN hist.hit
                    ELSE IF d.attempt.msg.rev = g.rev /\ status = "running" /\ ~aborted
                      THEN "exact" ELSE "other"
      BY <1>5 DEF Cancel
  <2>4. ActiveArmed(g)' <=> ActiveArmed(g)
      BY <2>1 DEF ActiveArmed, Current
  <2> QED BY <2>1, <2>2, <2>3, <2>4 DEF CancelMet, HitAt, SameRound
<1>6. ASSUME NEW kind, Send(kind) PROVE CancelMet'
  <2>1. PICK y, tq, sq : y \in {d, Competes(d)} /\ Wake(y, tq, sq) /\ g' = g /\ hist' = hist
      BY <1>6 DEF Send
  <2>2. SameRound(d, y)
      BY <1>0, <2>1, CompetesIs DEF SameRound
  <2>3. CASE status = "idle"
      BY <2>1, <2>3, NothingMet
  <2>4. CASE status # "idle"
    <3>1. d' = y /\ status' = status /\ aborted' = aborted
        BY <2>1, <2>4 DEF Wake
    <3> QED BY <2>1, <2>2, <3>1, StillMet
  <2> QED BY <2>3, <2>4
<1> QED BY <1>1, <1>2, <1>3, <1>4, <1>5, <1>6

\* Every step keeps the pause to come.
LEMMA CancelMetStep ==
    ASSUME Typed, CancelMet, [Next]_vars
    PROVE  CancelMet'
<1>0. g \in Goals
    BY DEF Typed, GoalTyped
<1>1. ASSUME ~ActiveArmed(g') PROVE CancelMet'
  <2>1. ActiveArmed(g)' <=> ActiveArmed(g')
      BY DEF ActiveArmed, Current
  <2> QED BY <1>1, <2>1 DEF CancelMet
<1>2. CASE Unload \/ Load
    BY <1>0, <1>1, <1>2, UnloadIs, DisarmIs DEF Load
<1>3. CASE Unloaded
  <2>1. /\ d.attempt.phase = "none" \/ status # "running"
        /\ UNCHANGED <<g, hist>>
      BY <1>3 DEF Unloaded, Finished
  <2>2. ActiveArmed(g)' <=> ActiveArmed(g)
      BY <2>1 DEF ActiveArmed, Current
  <2> QED BY <2>1, <2>2 DEF CancelMet, HitAt
<1>4. CASE Restart
    BY <1>4 DEF Restart, CancelMet
<1>5. CASE UNCHANGED vars
    BY <1>5, StillMet DEF vars, SameRound
<1> QED BY <1>2, <1>3, <1>4, <1>5, StepsAre, TurnMet, LoopMet, UsersMet

\* The inductive invariant of what rest means.
Rested == Typed /\ Awake(g, d, status, latch, hist.cut) /\ CancelMet

\* Everything is explained at the start.
LEMMA RestedInit == Init => Rested
<1> SUFFICES ASSUME Init PROVE Rested
    OBVIOUS
<1>1. Awake(g, d, status, latch, hist.cut) /\ CancelMet
    BY DEF Init, Awake, PassAt, CancelMet, FreshDriver, NoAttempt, NoGoal, ActiveArmed, Current
<1> QED BY <1>1, TypedInit DEF Rested

\* The invariant of rest holds in every behaviour.
LEMMA AlwaysRested == Spec => []Rested
<1>1. Rested /\ [Next]_vars => Rested'
    BY TypedStep, AwakeStep, CancelMetStep DEF Rested
<1> QED BY <1>1, RestedInit, PTL DEF Spec

\* No trigger is lost among the coalesced passes, the checkpoints and the idle
\* edges (requestDrive, runLoop), and a cancel that met the round of this
\* revision has paused its goal: an idle agent has no goal that believes it is
\* being worked on.
THEOREM RestAlwaysExplained == Spec => []RestIsExplained
<1>1. Rested => RestIsExplained
    BY DEF Rested, Awake, PassAt, CancelMet, RestIsExplained, NoStalledGoal, CancelPauses, AtRest
<1> QED BY <1>1, AlwaysRested, PTL
=============================================================================
