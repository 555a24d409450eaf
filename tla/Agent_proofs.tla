---------------------------- MODULE Agent_proofs ----------------------------
(***************************************************************************)
(* What TLAPS proves of an agent: of its driver, for any number of         *)
(* messages, steps and maintenance jobs, and of its lifecycle, for any set *)
(* of transactions that create, resume and dispose it.                     *)
(*                                                                         *)
(* The driver's key fact is Aligned: as long as the session takes what     *)
(* closes a turn or a step, the segment the driver is in determines which  *)
(* turn and step the session log has open, and that the driver's own       *)
(* counters number the next ones.  LeftOpen says what stays open when a    *)
(* closing append was refused, Quiet what a returned whenIdle means.  The  *)
(* last part, about wakes and owed results, adds who will claim each       *)
(* parked message (Watched) and what an ending implies (Endings).          *)
(*                                                                         *)
(* The lifecycle's key fact is ClaimExact: where a transaction is, and how *)
(* far its teardown has come, determines whether it has the claim on the   *)
(* log.                                                                    *)
(***************************************************************************)
EXTENDS AgentDriver, AgentLifecycle, SequenceTheorems, TLAPS

Outside  == {"off", "turn", "exit", "turnEnded"}
Between  == {"claim", "preStep", "stepEnded", "stopping", "endTurn"}
InStep   == {"model", "tools", "stepEnd"}

Aligned ==
    /\ pc \in Outside =>
          trace.openTurn = 0 /\ trace.openStep = 0 /\ trace.nextTurn = turn + 1
    /\ pc \in Between =>
          /\ trace.openTurn = turn /\ trace.openStep = 0
          /\ trace.nextTurn = turn /\ trace.nextStep = step + 1
    /\ pc \in InStep =>
          /\ trace.openTurn = turn /\ trace.openStep = step
          /\ trace.nextTurn = turn /\ trace.nextStep = step
    /\ pc = "turn" => step = 0

Boundaries == lost = {} => Aligned

(* A turn or step is open in the log while the driver is in it, or because  *)
(* the session refused to have it closed.                                   *)
LeftOpen ==
    /\ trace.openTurn # 0 => "turn/end" \in lost \/ pc \in Between \union InStep
    /\ trace.openStep # 0 => "step/end" \in lost \/ pc \in InStep

(* The driver exists exactly while the phase is running, and an ending is   *)
(* decided before the turn is closed with it.                               *)
Control ==
    /\ phase = "running" <=> pc # "off"
    /\ pc \in {"stopping", "endTurn"} => turnEnds # "null"

(* The promise whenIdle awaits is resolved only while nothing is going on,  *)
(* and it stays so once whenIdle has returned, until a caller intervenes.   *)
Quiet ==
    /\ resolved => phase = "idle" /\ conv = "none"
    /\ disposing = "done" => resolved

IInv == TypeOK /\ LogAccepted /\ Boundaries /\ LeftOpen /\ Control /\ Quiet

-----------------------------------------------------------------------------
(* The lists stay lists of messages under the operations of the inbox.      *)
LEMMA EmptyPending == <<>> \in Seq(Messages)
  OBVIOUS

(* Appending keeps a list of messages. *)
LEMMA PendingAppend ==
  ASSUME NEW list \in Seq(Messages), NEW m \in Messages
  PROVE  Append(list, m) \in Seq(Messages)
  OBVIOUS

(* Claiming the head of the queue. *)
LEMMA PendingSuffix ==
  ASSUME NEW list \in Seq(Messages), NEW n \in {0, 1}
  PROVE  SubSeq(list, n + 1, Len(list)) \in Seq(Messages)
  BY SubSeqProperties

(* Removing one message. *)
LEMMA PendingWithout ==
  ASSUME NEW list \in Seq(Messages), NEW k \in DOMAIN list
  PROVE  Without(list, k) \in Seq(Messages)
<1>1. k \in 1..Len(list)
  OBVIOUS
<1>2. SubSeq(list, 1, k - 1) \in Seq(Messages)
  BY <1>1, SubSeqProperties
<1>3. SubSeq(list, k + 1, Len(list)) \in Seq(Messages)
  BY <1>1, SubSeqProperties
<1> QED
  BY <1>2, <1>3 DEF Without

(* Every new phase starts at step 0, within the bound. *)
LEMMA NumbersInRange == 0 \in 0..MaxSteps
  BY BoundsAssumption DEF BoundsAssumption

(* Nothing else refuses the driver a closing append. *)
LEMMA LostKept == [Next]_vars => UNCHANGED lost \/ StepEndThrows \/ TurnEndThrows
  BY DEF Next, Driver, Callers, vars, logVars, SendWakes, TurnAborted, TurnStart,
     AppendTurnStart, TurnStartThrows, Claim, ClaimThrows, PreStepThrows,
     PreStepRejects, PreStepEntersNothing, PreStepEnters, AppendStepStart,
     ModelThrows, ModelCallsTools, ModelFinishes, ToolContext, ToolsThrow,
     ToolsReturn, StepEnd, AppendStepEnd, StepEnded, TurnStopping,
     TurnStoppingThrows, TurnEnd, AppendTurnEnd, NextTurn, DriverIdles, Replay,
     MaintenanceEnds, ActivityResolves, whenIdle, followup, steer, inject, Send,
     cancel, RemoveMessage, runMaintenance, dispose

(* Only the four boundary appends touch the trace. *)
LEMMA TraceKept ==
  [Next]_vars => \/ UNCHANGED <<trace, illegal>>
                 \/ TurnStart \/ PreStepEnters \/ StepEnd \/ TurnEnd
  BY DEF Next, Driver, Callers, vars, logVars, SendWakes, TurnAborted,
     TurnStartThrows, Claim, ClaimThrows, PreStepThrows, PreStepRejects,
     PreStepEntersNothing, ModelThrows, ModelCallsTools, ModelFinishes, ToolContext,
     ToolsThrow, ToolsReturn, StepEndThrows, StepEnded, TurnStopping,
     TurnStoppingThrows, TurnEndThrows, NextTurn, DriverIdles, Replay,
     MaintenanceEnds, ActivityResolves, whenIdle, followup, steer, inject, Send,
     cancel, RemoveMessage, runMaintenance, dispose

(* The phase object: kinds, abort reasons and counters in range. *)
LEMMA PhaseTypeInit == Init => PhaseType
  BY BoundsAssumption DEF BoundsAssumption, Init, PhaseType

(* The same over every step. *)
LEMMA PhaseTypeNext == IInv /\ [Next]_vars => PhaseType'
<1> SUFFICES ASSUME IInv, [Next]_vars PROVE PhaseType'
  OBVIOUS
<1> USE BoundsAssumption DEF BoundsAssumption, IInv, TypeOK, PhaseType, At,
     phaseVars, inboxVars, turnVars, logVars, ghostVars, otherVars, vars
<1>1. CASE SendWakes
  BY <1>1, NumbersInRange DEF SendWakes, WakeDriver, NewActivity
<1>2. CASE TurnStart
  BY <1>2 DEF TurnStart, AppendTurnStart
<1>3. CASE PreStepEnters
  BY <1>3 DEF PreStepEnters, AppendStepStart
<1>4. CASE NextTurn
  BY <1>4 DEF NextTurn
<1>5. CASE DriverIdles
  BY <1>5 DEF DriverIdles
<1>6. CASE Replay
  BY <1>6, NumbersInRange DEF Replay, WakeDriver, NewActivity
<1>7. CASE MaintenanceEnds
  BY <1>7 DEF MaintenanceEnds, NewActivity
<1>8. CASE \E keepInbox \in BOOLEAN : cancel(keepInbox)
  BY <1>8 DEF cancel, DoCancel
<1>9. CASE runMaintenance
  BY <1>9 DEF runMaintenance, NewActivity
<1>10. CASE dispose
  BY <1>10 DEF dispose, DoCancel
<1> QED
  BY <1>1, <1>2, <1>3, <1>4, <1>5, <1>6, <1>7, <1>8, <1>9, <1>10 DEF Next,
     Driver, Callers, TurnAborted, TurnStartThrows, Claim, PreStepThrows,
     PreStepRejects, PreStepEntersNothing, ModelThrows, ModelCallsTools,
     ModelFinishes, ToolContext, ToolsThrow, ToolsReturn, StepEnd,
     StepEnded, TurnStopping, TurnStoppingThrows, TurnEnd, whenIdle,
     followup, steer, inject, Send, RemoveMessage,
     ActivityResolves, ClaimThrows, StepEndThrows, TurnEndThrows

(* The pending lists hold messages only, whatever send, claim, clear and
   remove do. *)
LEMMA InboxTypeInit == Init => InboxType
  BY BoundsAssumption DEF BoundsAssumption, Init, InboxType, GhostType,
     Messages

(* The same over every step. *)
LEMMA InboxTypeNext == IInv /\ [Next]_vars => InboxType'
<1> SUFFICES ASSUME IInv, [Next]_vars PROVE InboxType'
  OBVIOUS
<1> USE BoundsAssumption DEF BoundsAssumption, IInv, TypeOK, InboxType,
     GhostType, Messages, phaseVars, inboxVars, turnVars, logVars,
     ghostVars, otherVars, vars
<1>1. CASE Claim
  BY <1>1, EmptyPending, PendingSuffix DEF Claim
<1>2. CASE ToolContext
  BY <1>2 DEF ToolContext
<1>3. CASE followup \/ steer \/ inject
  <2>1. sent + 1 \in Messages
    BY <1>3 DEF followup, steer, inject, Send
  <2> QED
    BY <1>3, <2>1, PendingAppend DEF followup, steer, inject, Send
<1>4. CASE \E keepInbox \in BOOLEAN : cancel(keepInbox)
  BY <1>4, EmptyPending DEF cancel, DoCancel
<1>5. CASE RemoveMessage
  BY <1>5, PendingWithout DEF RemoveMessage
<1>6. CASE dispose
  BY <1>6, EmptyPending DEF dispose, DoCancel
<1>7. CASE ClaimThrows
  BY <1>7, EmptyPending DEF ClaimThrows
<1> QED
  BY <1>7, <1>1, <1>2, <1>3, <1>4, <1>5, <1>6 DEF Next, Driver, Callers,
     SendWakes, TurnAborted, TurnStart, TurnStartThrows, PreStepThrows,
     PreStepRejects, PreStepEntersNothing, PreStepEnters, ModelThrows,
     ModelCallsTools, ModelFinishes, ToolsThrow, ToolsReturn, StepEnd,
     StepEnded, TurnStopping, TurnStoppingThrows, TurnEnd, NextTurn,
     DriverIdles, Replay, MaintenanceEnds, whenIdle, runMaintenance,
     ActivityResolves, StepEndThrows, TurnEndThrows

(* The driver only awaits where the code awaits. *)
LEMMA ControlTypeInit == Init => ControlType
  BY BoundsAssumption DEF BoundsAssumption, Init, ControlType, Awaits

(* The same over every step. *)
LEMMA ControlTypeNext == IInv /\ [Next]_vars => ControlType'
<1> SUFFICES ASSUME IInv, [Next]_vars PROVE ControlType'
  OBVIOUS
<1> USE BoundsAssumption DEF BoundsAssumption, IInv, TypeOK, ControlType,
     Awaits, phaseVars, inboxVars, turnVars, logVars, ghostVars, otherVars,
     vars
<1>1. CASE SendWakes
  BY <1>1 DEF SendWakes, WakeDriver, NewActivity
<1>2. CASE TurnAborted
  BY <1>2 DEF TurnAborted
<1>3. CASE TurnStart
  BY <1>3 DEF TurnStart, AppendTurnStart
<1>4. CASE TurnStartThrows
  BY <1>4 DEF TurnStartThrows
<1>5. CASE Claim
  BY <1>5 DEF Claim, EndsAborted, EndsWith
<1>6. CASE PreStepThrows
  BY <1>6 DEF PreStepThrows, EndsFailed, EndsWith
<1>7. CASE PreStepRejects
  BY <1>7 DEF PreStepRejects, EndsWith
<1>8. CASE PreStepEntersNothing
  BY <1>8 DEF PreStepEntersNothing, EndsWith
<1>9. CASE PreStepEnters
  BY <1>9 DEF PreStepEnters, AppendStepStart
<1>10. CASE ModelThrows
  BY <1>10 DEF ModelThrows, StepThrows
<1>11. CASE ModelCallsTools
  BY <1>11 DEF ModelCallsTools
<1>12. CASE \E finish \in {"completed", "max-tokens"} : ModelFinishes(finish)
  BY <1>12 DEF ModelFinishes, StepReturns
<1>13. CASE ToolsThrow
  BY <1>13 DEF ToolsThrow, StepThrows
<1>14. CASE \E concluded \in BOOLEAN : ToolsReturn(concluded)
  BY <1>14 DEF ToolsReturn, StepReturns
<1>15. CASE StepEnd
  BY <1>15 DEF StepEnd, AppendStepEnd
<1>16. CASE StepEnded
  BY <1>16 DEF StepEnded, EndsFailed, EndsWith, Continue
<1>17. CASE TurnStopping
  BY <1>17 DEF TurnStopping, EndsAborted, EndsWith, Continue
<1>18. CASE TurnStoppingThrows
  BY <1>18 DEF TurnStoppingThrows, EndsFailed, EndsWith
<1>19. CASE TurnEnd
  BY <1>19 DEF TurnEnd, AppendTurnEnd
<1>20. CASE NextTurn
  BY <1>20 DEF NextTurn
<1>21. CASE DriverIdles
  BY <1>21 DEF DriverIdles
<1>22. CASE Replay
  BY <1>22 DEF Replay, WakeDriver, NewActivity
<1>23. CASE MaintenanceEnds
  BY <1>23 DEF MaintenanceEnds, NewActivity
<1>24. CASE whenIdle
  BY <1>24 DEF whenIdle
<1>25. CASE followup \/ steer \/ inject
  BY <1>25 DEF followup, steer, inject, Send
<1>26. CASE runMaintenance
  BY <1>26 DEF runMaintenance, NewActivity
<1>27. CASE dispose
  BY <1>27 DEF dispose, DoCancel
<1>28. CASE ClaimThrows
  BY <1>28 DEF ClaimThrows, EndsFailed, EndsWith
<1>29. CASE StepEndThrows
  BY <1>29 DEF StepEndThrows, EndsFailed, EndsWith
<1>30. CASE TurnEndThrows
  BY <1>30 DEF TurnEndThrows
<1> QED
  BY <1>28, <1>29, <1>30, <1>1, <1>2, <1>3, <1>4, <1>5, <1>6, <1>7, <1>8, <1>9, <1>10, <1>11,
     <1>12, <1>13, <1>14, <1>15, <1>16, <1>17, <1>18, <1>19, <1>20, <1>21,
     <1>22, <1>23, <1>24, <1>25, <1>26, <1>27 DEF Next, Driver, Callers,
     ToolContext, cancel, RemoveMessage,
     ActivityResolves

(* A turn's ending is one of the reasons; turn/end never records null. *)
LEMMA TurnTypeInit == Init => TurnType
  BY BoundsAssumption DEF BoundsAssumption, Init, TurnType, Control,
     TurnEndReasons

(* The same over every step. *)
LEMMA TurnTypeNext == IInv /\ [Next]_vars => TurnType'
<1> SUFFICES ASSUME IInv, [Next]_vars PROVE TurnType'
  OBVIOUS
<1> USE BoundsAssumption DEF BoundsAssumption, IInv, TypeOK, TurnType,
     Control, TurnEndReasons, At, Aborted, phaseVars, inboxVars, turnVars,
     logVars, ghostVars, otherVars, vars
<1>1. CASE TurnAborted
  BY <1>1 DEF TurnAborted
<1>2. CASE TurnStart
  BY <1>2 DEF TurnStart, AppendTurnStart
<1>3. CASE TurnStartThrows
  BY <1>3 DEF TurnStartThrows
<1>4. CASE Claim
  BY <1>4 DEF Claim, EndsAborted, EndsWith
<1>5. CASE PreStepThrows
  BY <1>5 DEF PreStepThrows, EndsFailed, EndsWith
<1>6. CASE PreStepRejects
  BY <1>6 DEF PreStepRejects, EndsWith
<1>7. CASE PreStepEntersNothing
  BY <1>7 DEF PreStepEntersNothing, EndsWith
<1>8. CASE ModelThrows
  BY <1>8 DEF ModelThrows, StepThrows
<1>9. CASE \E finish \in {"completed", "max-tokens"} : ModelFinishes(finish)
  BY <1>9 DEF ModelFinishes, StepReturns
<1>10. CASE ToolsThrow
  BY <1>10 DEF ToolsThrow, StepThrows
<1>11. CASE \E concluded \in BOOLEAN : ToolsReturn(concluded)
  BY <1>11 DEF ToolsReturn, StepReturns
<1>12. CASE StepEnded
  BY <1>12 DEF StepEnded, EndsFailed, EndsWith, Continue
<1>13. CASE TurnStopping
  BY <1>13 DEF TurnStopping, EndsAborted, EndsWith, Continue
<1>14. CASE TurnStoppingThrows
  BY <1>14 DEF TurnStoppingThrows, EndsFailed, EndsWith
<1>15. CASE TurnEnd
  BY <1>15 DEF TurnEnd, AppendTurnEnd
<1>16. CASE ClaimThrows
  BY <1>16 DEF ClaimThrows, EndsFailed, EndsWith
<1>17. CASE StepEndThrows
  BY <1>17 DEF StepEndThrows, EndsFailed, EndsWith
<1>18. CASE TurnEndThrows
  BY <1>18 DEF TurnEndThrows
<1> QED
  BY <1>16, <1>17, <1>18, <1>1, <1>2, <1>3, <1>4, <1>5, <1>6, <1>7, <1>8, <1>9, <1>10, <1>11,
     <1>12, <1>13, <1>14, <1>15, ZenonT(60)
     DEF Next, Driver, Callers, SendWakes,
     PreStepEnters, ModelCallsTools, ToolContext, StepEnd, NextTurn,
     DriverIdles, Replay, MaintenanceEnds, whenIdle, followup, steer,
     inject, Send, cancel, RemoveMessage, runMaintenance, dispose,
     ActivityResolves

(* The trace keeps its shape over the boundary appends. *)
LEMMA TraceTypeInit == Init => TraceType
  BY BoundsAssumption DEF BoundsAssumption, Init, TraceType, TraceSet,
     PhaseType

(* The same over every step. *)
LEMMA TraceTypeNext == IInv /\ [Next]_vars => TraceType'
<1> SUFFICES ASSUME IInv, [Next]_vars PROVE TraceType'
  OBVIOUS
<1>a. /\ TraceType /\ turn \in Nat /\ trace.nextStep \in Nat /\ trace.nextTurn \in Nat
      /\ step + 1 \in Nat
  BY BoundsAssumption DEF BoundsAssumption, IInv, TypeOK, PhaseType, TraceType, TraceSet
<1>1. CASE TurnStart
  <2>1. turn + 1 \in Nat
    BY <1>a
  <2>2. trace' = [trace EXCEPT !.openTurn = turn + 1, !.nextStep = 1]
    BY <1>1 DEF TurnStart, AppendTurnStart
  <2>3. [trace EXCEPT !.openTurn = turn + 1, !.nextStep = 1] \in TraceSet
    BY <1>a, <2>1 DEF TraceType, TraceSet
  <2> QED
    BY <2>2, <2>3 DEF TraceType
<1>2. CASE PreStepEnters
  <2>1. trace' = [trace EXCEPT !.openStep = step + 1]
    BY <1>2 DEF PreStepEnters, AppendStepStart
  <2> QED
    BY <1>a, <2>1 DEF TraceType, TraceSet
<1>3. CASE StepEnd
  <2>1. trace.nextStep + 1 \in Nat
    BY <1>a
  <2>2. trace' = [trace EXCEPT !.openStep = 0, !.nextStep = trace.nextStep + 1]
    BY <1>3 DEF StepEnd, AppendStepEnd
  <2>3. [trace EXCEPT !.openStep = 0, !.nextStep = trace.nextStep + 1] \in TraceSet
    BY <1>a, <2>1 DEF TraceType, TraceSet
  <2> QED
    BY <2>2, <2>3 DEF TraceType
<1>4. CASE TurnEnd
  <2>1. trace.nextTurn + 1 \in Nat
    BY <1>a
  <2>2. trace' = [trace EXCEPT !.openTurn = 0, !.nextTurn = trace.nextTurn + 1]
    BY <1>4 DEF TurnEnd, AppendTurnEnd
  <2>3. [trace EXCEPT !.openTurn = 0, !.nextTurn = trace.nextTurn + 1] \in TraceSet
    BY <1>a, <2>1 DEF TraceType, TraceSet
  <2> QED
    BY <2>2, <2>3 DEF TraceType
<1> QED
  BY <1>a, <1>1, <1>2, <1>3, <1>4, TraceKept DEF TraceType

(* Two kinds of closing appends can be lost. *)
LEMMA LostTypeInit == Init => LostType
  BY DEF Init, LostType

(* The same over every step. *)
LEMMA LostTypeNext == IInv /\ [Next]_vars => LostType'
<1> SUFFICES ASSUME IInv, [Next]_vars PROVE LostType'
  OBVIOUS
<1> USE DEF IInv, TypeOK, LostType, logVars, vars
<1>1. CASE StepEndThrows \/ TurnEndThrows
  BY <1>1 DEF StepEndThrows, TurnEndThrows
<1>2. lost' = lost \/ StepEndThrows \/ TurnEndThrows
  BY LostKept
<1> QED
  BY <1>1, <1>2

(* The flags stay Boolean. *)
LEMMA FlagTypeInit == Init => FlagType
  BY BoundsAssumption DEF BoundsAssumption, Init, FlagType

(* The same over every step. *)
LEMMA FlagTypeNext == IInv /\ [Next]_vars => FlagType'
<1> SUFFICES ASSUME IInv, [Next]_vars PROVE FlagType'
  OBVIOUS
<1> USE BoundsAssumption DEF BoundsAssumption, IInv, TypeOK, FlagType,
     phaseVars, inboxVars, turnVars, logVars, ghostVars, otherVars, vars
<1> QED
  BY DEF Next, Driver, Callers, SendWakes, WakeDriver, NewActivity, TurnAborted,
     TurnStart, AppendTurnStart, TurnStartThrows, Claim, EndsAborted,
     EndsWith, PreStepThrows, EndsFailed, PreStepRejects,
     PreStepEntersNothing, PreStepEnters, AppendStepStart, ModelThrows,
     StepThrows, ModelCallsTools, ModelFinishes, StepReturns, ToolContext,
     ToolsThrow, ToolsReturn, StepEnd, AppendStepEnd, StepEnded, Continue,
     TurnStopping, TurnStoppingThrows, TurnEnd, AppendTurnEnd, NextTurn,
     DriverIdles, Replay, MaintenanceEnds, whenIdle, followup, steer,
     inject, Send, cancel, DoCancel, RemoveMessage, Without, runMaintenance,
     dispose,
     ActivityResolves, ClaimThrows, StepEndThrows, TurnEndThrows

(* The history variables stay within the messages sent. *)
LEMMA GhostTypeInit == Init => GhostType
  BY BoundsAssumption DEF BoundsAssumption, Init, GhostType, Messages

(* The same over every step. *)
LEMMA GhostTypeNext == IInv /\ [Next]_vars => GhostType'
<1> SUFFICES ASSUME IInv, [Next]_vars PROVE GhostType'
  OBVIOUS
<1> USE BoundsAssumption DEF BoundsAssumption, IInv, TypeOK, GhostType,
     Messages, phaseVars, inboxVars, turnVars, logVars, ghostVars,
     otherVars, vars
<1>1. CASE ToolContext
  BY <1>1 DEF ToolContext
<1>2. CASE followup \/ steer \/ inject
  <2>1. sent < MaxMessages /\ sent' = sent + 1
    BY <1>2 DEF followup, steer, inject, Send
  <2>2. sent + 1 \in 1..MaxMessages
    BY <2>1
  <2>3. wakers' \subseteq wakers \union {sent + 1} /\ late' \subseteq late \union {sent + 1}
    BY <1>2 DEF followup, steer, inject, Send
  <2> QED
    BY <2>1, <2>2, <2>3
<1> QED
  BY <1>1, <1>2 DEF Next, Driver, Callers, SendWakes, TurnAborted,
     TurnStart, TurnStartThrows, Claim, PreStepThrows, PreStepRejects,
     PreStepEntersNothing, PreStepEnters, ModelThrows, ModelCallsTools,
     ModelFinishes, ToolsThrow, ToolsReturn, StepEnd, StepEnded,
     TurnStopping, TurnStoppingThrows, TurnEnd, NextTurn, DriverIdles,
     Replay, MaintenanceEnds, whenIdle, cancel, RemoveMessage,
     runMaintenance, dispose,
     ActivityResolves, ClaimThrows, StepEndThrows, TurnEndThrows

(* Unless a closing append was refused before, the four boundary appends
   happen where Aligned gives them what validateEvent asks for. *)
LEMMA AcceptedInit == Init => LogAccepted
  BY DEF Init, LogAccepted

(* The same over every step. *)
LEMMA AcceptedNext == IInv /\ [Next]_vars => LogAccepted'
<1> SUFFICES ASSUME IInv, [Next]_vars, lost' = {} PROVE ~illegal'
  BY DEF LogAccepted
<1>1. lost = {}
  BY LostKept DEF StepEndThrows, TurnEndThrows
<1>2. Aligned /\ ~illegal
  BY <1>1 DEF IInv, Boundaries, LogAccepted
<1> USE <1>2 DEF IInv, TypeOK, PhaseType, TraceType, TraceSet, Aligned, Outside,
     Between, InStep, At
<1>3. CASE TurnStart
  BY <1>3 DEF TurnStart, AppendTurnStart
<1>4. CASE PreStepEnters
  BY <1>4 DEF PreStepEnters, AppendStepStart
<1>5. CASE StepEnd
  BY <1>5 DEF StepEnd, AppendStepEnd
<1>6. CASE TurnEnd
  BY <1>6 DEF TurnEnd, AppendTurnEnd
<1> QED
  BY <1>3, <1>4, <1>5, <1>6, TraceKept

(* Every segment leaves the log's open turn and step as the next one
   expects. *)
LEMMA BoundariesInit == Init => Boundaries
  BY DEF Init, Boundaries, Aligned, Outside, Between, InStep

(* The same over every step. *)
LEMMA BoundariesNext == IInv /\ [Next]_vars => Boundaries'
<1> SUFFICES ASSUME IInv, [Next]_vars, lost' = {} PROVE Aligned'
  BY DEF Boundaries
<1>a. lost = {} /\ ~StepEndThrows /\ ~TurnEndThrows
  BY LostKept DEF StepEndThrows, TurnEndThrows
<1>b. Aligned
  BY <1>a DEF IInv, Boundaries
<1> USE <1>b, BoundsAssumption DEF BoundsAssumption, IInv, TypeOK, PhaseType,
     TraceType, TraceSet, ControlType, Awaits, Aligned, Control, Outside,
     Between, InStep, At, Aborted, phaseVars, inboxVars, turnVars, logVars,
     ghostVars, otherVars, vars
<1>1. CASE SendWakes
  BY <1>1 DEF SendWakes, WakeDriver, NewActivity
<1>2. CASE TurnAborted
  BY <1>2 DEF TurnAborted
<1>3. CASE TurnStart
  BY <1>3 DEF TurnStart, AppendTurnStart
<1>4. CASE TurnStartThrows
  BY <1>4 DEF TurnStartThrows
<1>5. CASE Claim
  BY <1>5 DEF Claim, EndsAborted, EndsWith
<1>6. CASE PreStepThrows
  BY <1>6 DEF PreStepThrows, EndsFailed, EndsWith
<1>7. CASE PreStepRejects
  BY <1>7 DEF PreStepRejects, EndsWith
<1>8. CASE PreStepEntersNothing
  BY <1>8 DEF PreStepEntersNothing, EndsWith
<1>9. CASE PreStepEnters
  BY <1>9 DEF PreStepEnters, AppendStepStart
<1>10. CASE ModelThrows
  BY <1>10 DEF ModelThrows, StepThrows
<1>11. CASE ModelCallsTools
  BY <1>11 DEF ModelCallsTools
<1>12. CASE \E finish \in {"completed", "max-tokens"} : ModelFinishes(finish)
  BY <1>12 DEF ModelFinishes, StepReturns
<1>13. CASE ToolsThrow
  BY <1>13 DEF ToolsThrow, StepThrows
<1>14. CASE \E concluded \in BOOLEAN : ToolsReturn(concluded)
  BY <1>14 DEF ToolsReturn, StepReturns
<1>15. CASE StepEnd
  BY <1>15 DEF StepEnd, AppendStepEnd
<1>16. CASE StepEnded
  BY <1>16 DEF StepEnded, EndsFailed, EndsWith, Continue
<1>17. CASE TurnStopping
  BY <1>17 DEF TurnStopping, EndsAborted, EndsWith, Continue
<1>18. CASE TurnStoppingThrows
  BY <1>18 DEF TurnStoppingThrows, EndsFailed, EndsWith
<1>19. CASE TurnEnd
  BY <1>19 DEF TurnEnd, AppendTurnEnd
<1>20. CASE NextTurn
  BY <1>20 DEF NextTurn
<1>21. CASE DriverIdles
  BY <1>21 DEF DriverIdles
<1>22. CASE Replay
  BY <1>22 DEF Replay, WakeDriver, NewActivity
<1>23. CASE MaintenanceEnds
  BY <1>23 DEF MaintenanceEnds, NewActivity
<1>24. CASE \E keepInbox \in BOOLEAN : cancel(keepInbox)
  BY <1>24 DEF cancel, DoCancel
<1>25. CASE dispose
  BY <1>25 DEF dispose, DoCancel
<1>26. CASE ClaimThrows
  BY <1>26 DEF ClaimThrows, EndsFailed, EndsWith
<1> QED
  BY <1>a, <1>26, <1>1, <1>2, <1>3, <1>4, <1>5, <1>6, <1>7, <1>8, <1>9, <1>10, <1>11,
     <1>12, <1>13, <1>14, <1>15, <1>16, <1>17, <1>18, <1>19, <1>20, <1>21,
     <1>22, <1>23, <1>24, <1>25 DEF Next, Driver, Callers, ToolContext,
     whenIdle, followup, steer, inject, Send, RemoveMessage, runMaintenance,
     ActivityResolves

(* Driver and phase agree, and endings are decided in time. *)
LEMMA ControlInit == Init => Control
  BY BoundsAssumption DEF BoundsAssumption, Init, PhaseType, ControlType,
     Awaits, TurnType, TurnEndReasons, Control

(* The same over every step. *)
LEMMA ControlNext == IInv /\ [Next]_vars => Control'
<1> SUFFICES ASSUME IInv, [Next]_vars PROVE Control'
  OBVIOUS
<1> USE BoundsAssumption DEF BoundsAssumption, IInv, TypeOK, PhaseType,
     ControlType, Awaits, TurnType, TurnEndReasons, Control, At, Aborted,
     phaseVars, inboxVars, turnVars, logVars, ghostVars, otherVars, vars
<1>1. CASE SendWakes
  BY <1>1 DEF SendWakes, WakeDriver, NewActivity
<1>2. CASE TurnAborted
  BY <1>2 DEF TurnAborted
<1>3. CASE TurnStart
  BY <1>3 DEF TurnStart, AppendTurnStart
<1>4. CASE TurnStartThrows
  BY <1>4 DEF TurnStartThrows
<1>5. CASE Claim
  BY <1>5 DEF Claim, EndsAborted, EndsWith
<1>6. CASE PreStepThrows
  BY <1>6 DEF PreStepThrows, EndsFailed, EndsWith
<1>7. CASE PreStepRejects
  BY <1>7 DEF PreStepRejects, EndsWith
<1>8. CASE PreStepEntersNothing
  BY <1>8 DEF PreStepEntersNothing, EndsWith
<1>9. CASE PreStepEnters
  BY <1>9 DEF PreStepEnters, AppendStepStart
<1>10. CASE ModelThrows
  BY <1>10 DEF ModelThrows, StepThrows
<1>11. CASE ModelCallsTools
  BY <1>11 DEF ModelCallsTools
<1>12. CASE \E finish \in {"completed", "max-tokens"} : ModelFinishes(finish)
  BY <1>12 DEF ModelFinishes, StepReturns
<1>13. CASE ToolsThrow
  BY <1>13 DEF ToolsThrow, StepThrows
<1>14. CASE \E concluded \in BOOLEAN : ToolsReturn(concluded)
  BY <1>14 DEF ToolsReturn, StepReturns
<1>15. CASE StepEnd
  BY <1>15 DEF StepEnd, AppendStepEnd
<1>16. CASE StepEnded
  BY <1>16 DEF StepEnded, EndsFailed, EndsWith, Continue
<1>17. CASE TurnStopping
  BY <1>17 DEF TurnStopping, EndsAborted, EndsWith, Continue
<1>18. CASE TurnStoppingThrows
  BY <1>18 DEF TurnStoppingThrows, EndsFailed, EndsWith
<1>19. CASE TurnEnd
  BY <1>19 DEF TurnEnd, AppendTurnEnd
<1>20. CASE NextTurn
  BY <1>20 DEF NextTurn
<1>21. CASE DriverIdles
  BY <1>21 DEF DriverIdles
<1>22. CASE Replay
  BY <1>22 DEF Replay, WakeDriver, NewActivity
<1>23. CASE MaintenanceEnds
  BY <1>23 DEF MaintenanceEnds, NewActivity
<1>24. CASE \E keepInbox \in BOOLEAN : cancel(keepInbox)
  BY <1>24 DEF cancel, DoCancel
<1>25. CASE runMaintenance
  BY <1>25 DEF runMaintenance, NewActivity
<1>26. CASE dispose
  BY <1>26 DEF dispose, DoCancel
<1>27. CASE ClaimThrows
  BY <1>27 DEF ClaimThrows, EndsFailed, EndsWith
<1>28. CASE StepEndThrows
  BY <1>28 DEF StepEndThrows, EndsFailed, EndsWith
<1>29. CASE TurnEndThrows
  BY <1>29 DEF TurnEndThrows
<1> QED
  BY <1>27, <1>28, <1>29, <1>1, <1>2, <1>3, <1>4, <1>5, <1>6, <1>7, <1>8, <1>9, <1>10, <1>11,
     <1>12, <1>13, <1>14, <1>15, <1>16, <1>17, <1>18, <1>19, <1>20, <1>21,
     <1>22, <1>23, <1>24, <1>25, <1>26 DEF Next, Driver, Callers,
     ToolContext, whenIdle, followup, steer, inject, Send, RemoveMessage,
     ActivityResolves

(* What is open in the log is being worked on, or could not be closed. *)
LEMMA LeftOpenInit == Init => LeftOpen
  BY DEF Init, LeftOpen

(* The same over every step. *)
LEMMA LeftOpenNext == IInv /\ [Next]_vars => LeftOpen'
<1> SUFFICES ASSUME IInv, [Next]_vars PROVE LeftOpen'
  OBVIOUS
<1> USE DEF IInv, TypeOK, PhaseType, TraceType, TraceSet, LeftOpen, Between, InStep, At
<1>1. CASE TurnStart
  BY <1>1 DEF TurnStart, AppendTurnStart
<1>2. CASE PreStepEnters
  BY <1>2 DEF PreStepEnters, AppendStepStart
<1>3. CASE StepEnd
  BY <1>3 DEF StepEnd, AppendStepEnd
<1>4. CASE TurnEnd
  BY <1>4 DEF TurnEnd, AppendTurnEnd
<1>5. CASE StepEndThrows
  BY <1>5 DEF StepEndThrows, EndsFailed, EndsWith
<1>6. CASE TurnEndThrows
  BY <1>6 DEF TurnEndThrows
<1>7. CASE UNCHANGED <<trace, lost>>
  <2>1. \/ pc' = pc
        \/ pc \notin Between \union InStep
        \/ pc \in Between /\ pc' \in Between
        \/ pc \in InStep /\ pc' \in InStep
        \/ StepEnd \/ PreStepEnters \/ TurnEnd \/ StepEndThrows \/ TurnEndThrows
    BY DEF Next, Driver, Callers, vars, phaseVars, SendWakes, WakeDriver, TurnAborted,
       TurnStart, TurnStartThrows, Claim, ClaimThrows, EndsAborted, EndsFailed,
       EndsWith, PreStepThrows, PreStepRejects, PreStepEntersNothing, ModelThrows,
       StepThrows, StepReturns, ModelCallsTools, ModelFinishes, ToolContext,
       ToolsThrow, ToolsReturn, StepEnded, TurnStopping, TurnStoppingThrows, Continue,
       NextTurn, DriverIdles, Replay, MaintenanceEnds, ActivityResolves, whenIdle,
       followup, steer, inject, Send, cancel, RemoveMessage, runMaintenance, dispose,
       Control
  <2> QED
    BY <1>2, <1>3, <1>4, <1>5, <1>6, <1>7, <2>1
<1> QED
  BY <1>1, <1>2, <1>3, <1>4, <1>5, <1>6, <1>7, LostKept, TraceKept

(* whenIdle returns behind a resolved activity, and nothing but a caller    *)
(* starts another one.                                                      *)
LEMMA QuietInit == Init => Quiet
  BY DEF Init, Quiet

(* The same over every step. *)
LEMMA QuietNext == IInv /\ [Next]_vars => Quiet'
<1> SUFFICES ASSUME IInv, [Next]_vars PROVE Quiet'
  OBVIOUS
<1>a. /\ phase = "running" <=> pc # "off"
      /\ resolved \in BOOLEAN
  BY DEF IInv, TypeOK, FlagType, Control
<1>b. Quiet
  BY DEF IInv
<1>1. CASE SendWakes
  BY <1>1, <1>a, <1>b DEF SendWakes, WakeDriver, NewActivity, Quiet
<1>2. CASE Replay
  BY <1>2, <1>a, <1>b DEF Replay, WakeDriver, NewActivity, Quiet, phaseVars
<1>3. CASE MaintenanceEnds
  BY <1>3, <1>a, <1>b DEF MaintenanceEnds, NewActivity, Quiet
<1>4. CASE runMaintenance
  BY <1>4, <1>a, <1>b DEF runMaintenance, NewActivity, Quiet
<1>5. CASE DriverIdles
  BY <1>5, <1>a, <1>b DEF DriverIdles, At, Quiet, otherVars
<1>6. CASE ActivityResolves
  BY <1>6, <1>a, <1>b DEF ActivityResolves, Quiet, phaseVars
<1>7. CASE whenIdle
  BY <1>7, <1>a, <1>b DEF whenIdle, Quiet, phaseVars
<1>8. CASE dispose
  BY <1>8, <1>a, <1>b DEF dispose, DoCancel, Quiet, phaseVars
<1>9. CASE \E keepInbox \in BOOLEAN : cancel(keepInbox)
  BY <1>9, <1>a, <1>b DEF cancel, DoCancel, Quiet, phaseVars, otherVars
<1>10. CASE UNCHANGED <<phase, conv, resolved, disposing>>
  BY <1>10, <1>b DEF Quiet
<1> QED
  BY <1>1, <1>2, <1>3, <1>4, <1>5, <1>6, <1>7, <1>8, <1>9, <1>10
  DEF Next, Driver, Callers, vars, phaseVars, otherVars, TurnAborted, TurnStart,
      TurnStartThrows, Claim, ClaimThrows, PreStepThrows, PreStepRejects,
      PreStepEntersNothing, PreStepEnters, ModelThrows, ModelCallsTools,
      ModelFinishes, ToolContext, ToolsThrow, ToolsReturn, StepEnd, StepEndThrows,
      StepEnded, TurnStopping, TurnStoppingThrows, TurnEnd, TurnEndThrows, NextTurn,
      followup, steer, inject, Send, RemoveMessage

-----------------------------------------------------------------------------
(* The initial state satisfies the inductive invariant. *)
LEMMA InitIInv == Init => IInv
  BY PhaseTypeInit, InboxTypeInit, ControlTypeInit, TurnTypeInit, TraceTypeInit,
     LostTypeInit, FlagTypeInit, GhostTypeInit, AcceptedInit, BoundariesInit,
     LeftOpenInit, ControlInit, QuietInit
  DEF IInv, TypeOK

(* Every step keeps the inductive invariant. *)
LEMMA NextIInv == IInv /\ [Next]_vars => IInv'
  BY PhaseTypeNext, InboxTypeNext, ControlTypeNext, TurnTypeNext, TraceTypeNext,
     LostTypeNext, FlagTypeNext, GhostTypeNext, AcceptedNext, BoundariesNext,
     LeftOpenNext, ControlNext, QuietNext
  DEF IInv, TypeOK

(* The inductive invariant holds in every reachable state.                  *)
THEOREM Invariance == Spec => []IInv
  BY InitIInv, NextIInv, PTL DEF Spec

(* Type correctness of the driver's state.                                  *)
THEOREM TypeCorrect == Spec => []TypeOK
<1>1. IInv => TypeOK
  BY DEF IInv
<1> QED
  BY <1>1, Invariance, PTL

(* As long as the session takes the driver's closing appends, every turn    *)
(* and step boundary it appends obeys the session's relational rules,       *)
(* whatever else is refused, cancelled, thrown or disposed.                 *)
THEOREM LogAlwaysAccepted == Spec => []LogAccepted
<1>1. IInv => LogAccepted
  BY DEF IInv
<1> QED
  BY <1>1, Invariance, PTL

(* kick's finally leaves nothing open that the session let the driver       *)
(* close, and numbers the next turn where the log stops.                    *)
THEOREM IdleAlwaysClosed == Spec => []IdleIsClosed
<1>1. IInv => IdleIsClosed
  BY DEF IInv, Boundaries, Aligned, LeftOpen, Control, Outside, Between, InStep,
     IdleIsClosed
<1> QED
  BY <1>1, Invariance, PTL

(* A turn or step stays open behind the driver, and a boundary breaks the   *)
(* rules, only after the session refused a closing append: on no path does  *)
(* the driver itself forget one (the finally clauses of turn).              *)
THEOREM LogAlwaysDisciplined == Spec => []LogDiscipline
<1>1. LogAccepted /\ IdleIsClosed => LogDiscipline
  BY DEF LogDiscipline
<1> QED
  BY <1>1, LogAlwaysAccepted, IdleAlwaysClosed, PTL

(* When whenIdle returns to the lifecycle's dispose nothing runs, however   *)
(* many activities it waited for, and only a caller starts another one.     *)
THEOREM DisposedAlwaysQuiescent == Spec => []DisposedIsQuiescent
<1>1. IInv => DisposedIsQuiescent
  BY DEF IInv, LeftOpen, Control, Quiet, Between, InStep, DisposedIsQuiescent
<1> QED
  BY <1>1, Invariance, PTL

(* Under an aborted signal no turn and no step is opened.                   *)
THEOREM NeverWorksAborted == Spec => NoWorkAfterAbort
<1>1. ASSUME IInv, [Next]_vars, Aborted
      PROVE  /\ trace'.openTurn \in {0, trace.openTurn}
             /\ trace'.openStep \in {0, trace.openStep}
  <2>1. CASE UNCHANGED trace
    BY <2>1
  <2>2. CASE StepEnd \/ TurnEnd
    BY <1>1, <2>2 DEF StepEnd, AppendStepEnd, TurnEnd, AppendTurnEnd, IInv, TypeOK,
       TraceType, TraceSet
  <2>3. ~TurnStart /\ ~PreStepEnters
    BY <1>1 DEF TurnStart, PreStepEnters
  <2> QED
    BY <1>1, <2>1, <2>2, <2>3, TraceKept
<1>2. IInv /\ [Next]_vars =>
         [Aborted => /\ trace'.openTurn \in {0, trace.openTurn}
                     /\ trace'.openStep \in {0, trace.openStep}]_vars
  BY <1>1
<1> QED
  BY <1>2, Invariance, PTL DEF Spec, NoWorkAfterAbort

-----------------------------------------------------------------------------
(* An ending says whether the driver leaves with it and whether results     *)
(* are owed: one that leaves is none that completes.                        *)
Endings ==
    /\ turnEnds = "completed" => ~owes
    /\ pc = "endTurn" /\ leaves => turnEnds \notin {"completed", "max-tokens"}
    /\ pc = "turnEnded" => lastEnd # "none"
    /\ pc = "turnEnded" /\ leaves => lastEnd \notin {"completed", "max-tokens"}
    /\ pc = "turnEnded" /\ lastEnd = "completed" => ~owes

(* Where a stranded wake would have no excuse. *)
Unexcused == disposing = "no" /\ lastEnd \in {"none", "completed", "max-tokens"}

(* Who will claim a parked waking message, if it did not come late: without *)
(* a driver a wake that is being sent, replayed or latched behind           *)
(* maintenance; a driver on its way out, the wake it has latched.           *)
Watched ==
    /\ Unexcused /\ phase # "running" =>
          \/ Parked \subseteq late
          \/ sending # "none" \/ conv = "latched"
          \/ phase = "maintenance" /\ wakeRequested
    /\ Unexcused /\ pc = "exit" =>
          Parked \subseteq late \/ sending = "wakeAfterAbort" \/ wakeRequested

(* Messages are numbered as they are sent, and an agent is aborted with the *)
(* cause of a disposal only by its disposal.                                *)
Causes ==
    /\ wakers \subseteq 1..sent
    /\ abort = "disposed" => disposing # "no"

OInv == Endings /\ Watched /\ Causes

(* The messages of one list. *)
Listed(list) == {list[i] : i \in DOMAIN list}

(* A sent message joins its list. *)
LEMMA ListedAppend ==
  ASSUME NEW list \in Seq(Messages), NEW m \in Messages
  PROVE  Listed(Append(list, m)) \subseteq Listed(list) \union {m}
<1>1. /\ DOMAIN Append(list, m) = 1..(Len(list) + 1) /\ DOMAIN list = 1..Len(list)
      /\ Len(list) \in Nat
      /\ \A i \in 1..Len(list) : Append(list, m)[i] = list[i]
      /\ Append(list, m)[Len(list) + 1] = m
  OBVIOUS
<1>2. 1..(Len(list) + 1) = 1..Len(list) \union {Len(list) + 1}
  BY <1>1
<1> QED
  BY <1>1, <1>2 DEF Listed

(* A withdrawn message leaves its list, and no other joins. *)
LEMMA ListedWithout ==
  ASSUME NEW list \in Seq(Messages), NEW k \in DOMAIN list
  PROVE  Listed(Without(list, k)) \subseteq Listed(list)
<1> DEFINE before == SubSeq(list, 1, k - 1)
           after == SubSeq(list, k + 1, Len(list))
<1>1. k \in 1..Len(list) /\ Len(list) \in Nat /\ DOMAIN list = 1..Len(list)
  OBVIOUS
<1>2. /\ before \in Seq(Messages) /\ Len(before) = k - 1
      /\ \A i \in 1..(k - 1) : before[i] = list[i]
  BY <1>1, SubSeqProperties
<1>3. /\ after \in Seq(Messages) /\ Len(after) = Len(list) - k
      /\ \A i \in 1..(Len(list) - k) : after[i] = list[k + i]
  BY <1>1, SubSeqProperties
<1> HIDE DEF before, after
<1>4. /\ DOMAIN (before \o after) = 1..(Len(before) + Len(after))
      /\ \A i \in 1..(Len(before) + Len(after)) :
            (before \o after)[i] = IF i <= Len(before) THEN before[i]
                                   ELSE after[i - Len(before)]
  BY <1>2, <1>3, ConcatProperties
<1>5. Len(before) + Len(after) = Len(list) - 1
  BY <1>1, <1>2, <1>3
<1>6. ASSUME NEW i \in 1..(Len(list) - 1)
      PROVE  (before \o after)[i] \in Listed(list)
  <2>1. i \in Nat /\ i >= 1 /\ i <= Len(list) - 1 /\ k \in Nat /\ k >= 1 /\ k <= Len(list)
    BY <1>1
  <2>2. CASE i <= k - 1
    <3>1. i \in 1..(k - 1) /\ i \in 1..Len(list)
      BY <1>1, <2>1, <2>2
    <3>2. (before \o after)[i] = list[i]
      BY <1>2, <1>4, <1>5, <2>2, <3>1
    <3> QED
      BY <1>1, <3>1, <3>2 DEF Listed
  <2>3. CASE ~(i <= k - 1)
    <3>1. i - (k - 1) \in 1..(Len(list) - k) /\ i + 1 \in 1..Len(list)
      BY <1>1, <2>1, <2>3
    <3>2. k + (i - (k - 1)) = i + 1
      BY <2>1
    <3>3. (before \o after)[i] = after[i - (k - 1)]
      BY <1>2, <1>4, <1>5, <2>3
    <3>4. (before \o after)[i] = list[i + 1]
      BY <1>3, <3>1, <3>2, <3>3
    <3> QED
      BY <1>1, <3>1, <3>4 DEF Listed
  <2> QED
    BY <2>2, <2>3
<1> QED
  BY <1>4, <1>5, <1>6 DEF Without, Listed, before, after

(* Nothing is in an empty list. *)
LEMMA ListedEmpty == Listed(<<>>) = {}
<1>1. DOMAIN <<>> = {}
  OBVIOUS
<1> QED
  BY <1>1 DEF Listed

(* The endings and the causes over every step. *)
LEMMA EndingsNext == IInv /\ Endings /\ [Next]_vars => Endings'
<1> SUFFICES ASSUME IInv, Endings, [Next]_vars PROVE Endings'
  OBVIOUS
<1> USE DEF IInv, TypeOK, PhaseType, ControlType, Awaits, TurnType, TurnEndReasons,
     FlagType, Control, Endings, At, Aborted, phaseVars, inboxVars, turnVars, logVars,
     ghostVars, otherVars, vars
<1>1. CASE SendWakes
  BY <1>1 DEF SendWakes, WakeDriver, NewActivity
<1>2. CASE TurnAborted \/ TurnStartThrows
  BY <1>2 DEF TurnAborted, TurnStartThrows
<1>3. CASE TurnStart
  BY <1>3 DEF TurnStart
<1>4. CASE Claim
  BY <1>4 DEF Claim, EndsAborted, EndsWith
<1>5. CASE PreStepThrows \/ PreStepRejects
  BY <1>5 DEF PreStepThrows, PreStepRejects, EndsFailed, EndsWith
<1>6. CASE PreStepEntersNothing
  BY <1>6 DEF PreStepEntersNothing, EndsWith
<1>7. CASE PreStepEnters
  BY <1>7 DEF PreStepEnters
<1>8. CASE ModelThrows \/ ToolsThrow
  BY <1>8 DEF ModelThrows, ToolsThrow, StepThrows
<1>9. CASE ModelCallsTools
  BY <1>9 DEF ModelCallsTools
<1>10. CASE \E finish \in {"completed", "max-tokens"} : ModelFinishes(finish)
  BY <1>10 DEF ModelFinishes, StepReturns
<1>11. CASE \E concluded \in BOOLEAN : ToolsReturn(concluded)
  BY <1>11 DEF ToolsReturn, StepReturns
<1>12. CASE StepEnd
  BY <1>12 DEF StepEnd
<1>13. CASE StepEnded
  BY <1>13 DEF StepEnded, EndsFailed, EndsWith, Continue
<1>14. CASE TurnStopping \/ TurnStoppingThrows
  BY <1>14 DEF TurnStopping, TurnStoppingThrows, EndsAborted, EndsFailed, EndsWith, Continue
<1>15. CASE TurnEnd
  BY <1>15 DEF TurnEnd
<1>16. CASE NextTurn
  BY <1>16 DEF NextTurn
<1>17. CASE DriverIdles
  BY <1>17 DEF DriverIdles
<1>18. CASE Replay
  BY <1>18 DEF Replay, WakeDriver, NewActivity
<1>19. CASE MaintenanceEnds
  BY <1>19 DEF MaintenanceEnds, NewActivity
<1>21. CASE ClaimThrows \/ StepEndThrows \/ TurnEndThrows
  BY <1>21 DEF ClaimThrows, StepEndThrows, TurnEndThrows, EndsFailed, EndsWith
<1>20. UNCHANGED <<turnEnds, leaves, lastEnd, owes, pc>> => Endings'
  OBVIOUS
<1> QED
  BY <1>1, <1>2, <1>3, <1>4, <1>5, <1>6, <1>7, <1>8, <1>9, <1>10, <1>11, <1>12, <1>13,
     <1>14, <1>15, <1>16, <1>17, <1>18, <1>19, <1>20, <1>21
  DEF Next, Driver, Callers, ToolContext, ActivityResolves, whenIdle, followup, steer, inject, Send,
     cancel, DoCancel, RemoveMessage, runMaintenance, dispose

(* The same of the causes. *)
LEMMA CausesNext == IInv /\ Causes /\ [Next]_vars => Causes'
<1> SUFFICES ASSUME IInv, Causes, [Next]_vars PROVE Causes'
  OBVIOUS
<1>1. wakers' \subseteq 1..sent'
  <2>1. sent \in Nat
    BY DEF IInv, TypeOK, GhostType
  <2>2. \/ wakers' = wakers /\ sent' = sent
        \/ sent' = sent + 1 /\ wakers' \subseteq wakers \union {sent + 1}
    BY DEF Next, Driver, Callers, SendWakes, TurnAborted, TurnStart, TurnStartThrows,
       Claim, ClaimThrows, StepEndThrows, TurnEndThrows, ActivityResolves, PreStepThrows, PreStepRejects, PreStepEntersNothing, PreStepEnters,
       ModelThrows, ModelCallsTools, ModelFinishes, ToolContext, ToolsThrow,
       ToolsReturn, StepEnd, StepEnded, TurnStopping, TurnStoppingThrows, TurnEnd,
       NextTurn, DriverIdles, Replay, MaintenanceEnds, whenIdle, followup, steer,
       inject, Send, cancel, RemoveMessage, runMaintenance, dispose, ghostVars, vars
  <2>3. 1..sent \union {sent + 1} = 1..(sent + 1)
    BY <2>1
  <2> QED
    BY <2>2, <2>3 DEF Causes
<1>2. abort' = "disposed" => disposing' # "no"
  <2>1. CASE abort' = abort \/ abort' \in {"none", "user"}
    <3>1. disposing' = disposing \/ disposing' # "no"
      BY DEF NewActivity, WakeDriver, Next, Driver, Callers, SendWakes, TurnAborted, TurnStart, TurnStartThrows,
       Claim, ClaimThrows, StepEndThrows, TurnEndThrows, ActivityResolves, PreStepThrows, PreStepRejects, PreStepEntersNothing, PreStepEnters,
       ModelThrows, ModelCallsTools, ModelFinishes, ToolContext, ToolsThrow,
       ToolsReturn, StepEnd, StepEnded, TurnStopping, TurnStoppingThrows, TurnEnd,
       NextTurn, DriverIdles, Replay, MaintenanceEnds, whenIdle, followup, steer,
       inject, Send, cancel, RemoveMessage, runMaintenance, dispose, otherVars, vars
    <3> QED
      BY <2>1, <3>1 DEF Causes
  <2>2. CASE dispose
    <3>1. disposing' = "failed" \/ disposing' = "waiting"
      BY <2>2, Zenon DEF dispose
    <3> QED
      BY <3>1
  <2>3. abort' = abort \/ abort' \in {"none", "user"} \/ dispose
    BY DEF Next, Driver, Callers, SendWakes, WakeDriver, NewActivity, TurnAborted, TurnStart,
       TurnStartThrows, Claim, ClaimThrows, StepEndThrows, TurnEndThrows,
       ActivityResolves, PreStepThrows, PreStepRejects, PreStepEntersNothing,
       PreStepEnters, ModelThrows, ModelCallsTools, ModelFinishes, ToolContext,
       ToolsThrow, ToolsReturn, StepEnd, StepEnded, TurnStopping, TurnStoppingThrows,
       TurnEnd, NextTurn, DriverIdles, Replay, MaintenanceEnds, whenIdle, followup,
       steer, inject, Send, cancel, DoCancel, RemoveMessage, runMaintenance, phaseVars,
       vars
  <2> QED
    BY <2>1, <2>2, <2>3
<1> QED
  BY <1>1, <1>2 DEF Causes

(* What is pending is in the two lists. *)
LEMMA ParkedAre == PendingSet = Listed(nextTurn) \union Listed(nextStep)
  BY DEF PendingSet, Listed

(* A send: what waits was there before, or it is announced, or it is late. *)
LEMMA SendWatched ==
  ASSUME IInv, Watched, Causes, NEW to, NEW wakeup \in BOOLEAN, Send(to, wakeup)
  PROVE  Watched'
<1> DEFINE m == sent + 1
<1>1. m \in Messages /\ m \notin wakers
  <2>1. sent \in Nat /\ sent < MaxMessages /\ MaxMessages \in Nat
    BY BoundsAssumption DEF BoundsAssumption, IInv, TypeOK, GhostType, Send
  <2> QED
    BY <2>1 DEF Causes, Messages
<1>2. nextTurn \in Seq(Messages) /\ nextStep \in Seq(Messages)
  BY DEF IInv, TypeOK, InboxType
<1>3. \/ nextTurn' = Append(nextTurn, m) /\ nextStep' = nextStep
      \/ nextStep' = Append(nextStep, m) /\ nextTurn' = nextTurn
  BY DEF Send
<1>4. PendingSet' \subseteq PendingSet \union {m}
  <2>1. PendingSet' = Listed(nextTurn') \union Listed(nextStep')
    BY DEF PendingSet, Listed
  <2> QED
    BY <1>1, <1>2, <1>3, <2>1, ListedAppend, ParkedAre
<1>5. /\ UNCHANGED <<phase, abort, wakeRequested, pc, conv, lastEnd, disposing>>
      /\ sending = "none"
  BY DEF Send, phaseVars, otherVars
<1>6. CASE ~wakeup
  <2>1. wakers' = wakers /\ late' = late /\ sending' = "none"
    BY <1>6 DEF Send
  <2>2. Parked' \subseteq Parked
    BY <1>1, <1>4, <2>1 DEF Parked
  <2> QED
    BY <1>5, <2>1, <2>2 DEF Watched, Unexcused
<1>7. CASE wakeup
  <2>1. /\ wakers' = wakers \union {m} /\ sending' \in {"wake", "wakeAfterAbort"}
        /\ sending' = "wakeAfterAbort" <=> (phase # "idle" /\ Aborted)
        /\ late' = IF pc = "exit" /\ ~Aborted THEN late \union {m} ELSE late
    BY <1>7 DEF Send
  <2>2. Parked' \subseteq Parked \union {m}
    BY <1>4, <2>1 DEF Parked
  <2>3. pc = "exit" => phase # "idle"
    BY DEF IInv, Control
  <2> QED
    BY <1>5, <2>1, <2>2, <2>3 DEF Watched, Unexcused
<1> QED
  BY <1>6, <1>7

(* Without input nothing is parked. *)
LEMMA NothingParked ==
  /\ ~HasPending => Parked = {}
  /\ ~HasPending' => Parked' = {}
  BY ListedEmpty DEF HasPending, Parked, PendingSet, Listed

(* Every step keeps parked wakes watched. *)
LEMMA WatchedNext == IInv /\ Endings /\ Watched /\ Causes /\ [Next]_vars => Watched'
<1> SUFFICES ASSUME IInv, Endings, Watched, Causes, [Next]_vars PROVE Watched'
  OBVIOUS
<1>a. /\ phase \in {"idle", "maintenance", "running"}
      /\ phase = "running" <=> pc # "off"
      /\ FALSE \in BOOLEAN /\ wakeRequested \in BOOLEAN
      /\ sending \in {"none", "wake", "wakeAfterAbort"}
      /\ conv \in {"none", "quiet", "latched"}
  BY DEF IInv, TypeOK, PhaseType, ControlType, FlagType, Control
<1>b. inboxVars' = inboxVars /\ ghostVars' = ghostVars => Parked' = Parked /\ late' = late
  BY DEF Parked, PendingSet, inboxVars, ghostVars
<1>1. CASE SendWakes
  BY <1>1, <1>a, <1>b
  DEF SendWakes, WakeDriver, NewActivity, Watched, Unexcused, Causes
<1>2. CASE TurnAborted \/ TurnStartThrows \/ TurnEndThrows
  BY <1>2, <1>a DEF TurnAborted, TurnStartThrows, TurnEndThrows, Watched, Unexcused, At, phaseVars
<1>3. CASE NextTurn
  <2>1. phase' = "running"
    BY <1>3, <1>a DEF NextTurn, At
  <2>2. pc' = "exit" => leaves \/ Parked = {}
    BY <1>3, NothingParked DEF NextTurn
  <2>3. leaves => lastEnd \notin {"none", "completed", "max-tokens"}
    BY <1>3 DEF NextTurn, At, Endings
  <2>4. lastEnd' = lastEnd /\ Parked' = Parked
    BY <1>3, <1>b DEF NextTurn
  <2> QED
    BY <2>1, <2>2, <2>3, <2>4 DEF Watched, Unexcused
<1>4. CASE DriverIdles
  BY <1>4, <1>a, <1>b DEF DriverIdles, At, Watched, Unexcused, otherVars
<1>5. CASE Replay
  BY <1>5, <1>a, <1>b, NothingParked
  DEF Replay, WakeDriver, NewActivity, Watched, Unexcused, Causes, phaseVars
<1>6. CASE MaintenanceEnds
  BY <1>6, <1>a, <1>b, NothingParked
  DEF MaintenanceEnds, NewActivity, Watched, Unexcused
<1>7. CASE \E keepInbox \in BOOLEAN : cancel(keepInbox)
  <2>1. PICK keepInbox \in BOOLEAN : cancel(keepInbox)
    BY <1>7
  <2>2. CASE keepInbox
    BY <2>1, <2>2, <1>b DEF cancel, DoCancel, Watched, Unexcused, otherVars, inboxVars
  <2>3. CASE ~keepInbox
    <3>1. ~HasPending'
      BY <2>1, <2>3 DEF cancel, DoCancel, HasPending
    <3> QED
      BY <3>1, NothingParked DEF Watched
  <2> QED
    BY <2>2, <2>3
<1>8. CASE dispose
  BY <1>8 DEF dispose, Watched, Unexcused
<1>9. CASE RemoveMessage
  <2>1. nextTurn \in Seq(Messages) /\ nextStep \in Seq(Messages)
    BY DEF IInv, TypeOK, InboxType
  <2>2. PendingSet' = Listed(nextTurn') \union Listed(nextStep')
    BY DEF PendingSet, Listed
  <2>3. PendingSet' \subseteq PendingSet
    BY <1>9, <2>1, <2>2, ListedWithout, ParkedAre DEF RemoveMessage
  <2>4. Parked' \subseteq Parked /\ late' = late
    BY <1>9, <2>3 DEF Parked, RemoveMessage, ghostVars
  <2> QED
    BY <1>9, <2>4 DEF RemoveMessage, Watched, Unexcused, phaseVars, otherVars
<1>10. CASE runMaintenance
  BY <1>10, <1>a, <1>b DEF runMaintenance, NewActivity, Watched, Unexcused
<1>11. CASE whenIdle
  BY <1>11, <1>b DEF whenIdle, Watched, Unexcused, phaseVars
<1>16. CASE ActivityResolves
  BY <1>16, <1>b DEF ActivityResolves, Watched, Unexcused, phaseVars
<1>12. CASE followup \/ steer \/ inject
  BY <1>12, SendWatched DEF followup, steer, inject
<1>13. CASE UNCHANGED vars
  BY <1>13, <1>b DEF vars, Watched, Unexcused, phaseVars, otherVars
<1>14. CASE phase' = "running" /\ pc' # "exit"
  BY <1>14 DEF Watched
<1>15. CASE \/ TurnStart \/ Claim \/ ClaimThrows \/ StepEndThrows \/ PreStepThrows \/ PreStepRejects
            \/ PreStepEntersNothing \/ PreStepEnters \/ ModelThrows \/ ModelCallsTools
            \/ \E finish \in {"completed", "max-tokens"} : ModelFinishes(finish)
            \/ ToolContext \/ ToolsThrow
            \/ \E concluded \in BOOLEAN : ToolsReturn(concluded)
            \/ StepEnd \/ StepEnded \/ TurnStopping \/ TurnStoppingThrows \/ TurnEnd
  <2>1. phase' = "running" /\ pc' # "exit"
    BY <1>15, <1>a
    DEF At, TurnStart, Claim, ClaimThrows, StepEndThrows, PreStepThrows, PreStepRejects, PreStepEntersNothing,
        PreStepEnters, ModelThrows, ModelCallsTools, ModelFinishes, ToolContext,
        ToolsThrow, ToolsReturn, StepEnd, StepEnded, TurnStopping, TurnStoppingThrows,
        TurnEnd, EndsAborted, EndsFailed, EndsWith, Continue, StepReturns, StepThrows,
        phaseVars
  <2> QED
    BY <1>14, <2>1
<1> QED
  BY <1>1, <1>2, <1>3, <1>4, <1>5, <1>6, <1>7, <1>8, <1>9, <1>10, <1>11, <1>12, <1>13,
     <1>15, <1>16 DEF Next, Driver, Callers

(* The three hold in every reachable state. *)
LEMMA AlwaysWatched == Spec => [](IInv /\ OInv)
<1>1. Init => OInv
  <2>1. Init => Parked = {}
    BY ListedEmpty DEF Init, Parked
  <2> QED
    BY <2>1 DEF Init, OInv, Endings, Watched, Causes
<1>2. IInv /\ OInv /\ [Next]_vars => OInv'
  BY EndingsNext, WatchedNext, CausesNext DEF OInv
<1> QED
  BY <1>1, <1>2, Invariance, PTL DEF Spec

(* Whatever is sent, withdrawn, cancelled or replayed while a driver leaves,*)
(* an agent at rest whose driver ended normally holds back no wake but one  *)
(* that came after its last look at the inbox (kick, wakeDriver), and a     *)
(* completed turn has sent the results of its tools (StepReturns).          *)
THEOREM NothingEverOwed == Spec => []NothingOwed
<1>1. IInv /\ OInv => NothingOwed
  BY DEF IInv, TypeOK, PhaseType, OInv, Endings, Watched, NothingOwed, NoStrandedWake,
     CompletedOwesNothing, Settled, Unexcused
<1> QED
  BY <1>1, AlwaysWatched, PTL

-----------------------------------------------------------------------------
(* The lifecycle. *)

\* Awaits of a call whose write handle has no teardown yet.
Carrying == {"loading", "abandoned", "reading", "repairing", "marking", "closing"}

\* Teardowns that have not closed the handle.
Closing == {"quiesce", "close"}

\* A transaction has the claim while it carries the handle to its agent, while
\* the agent is prepared or live, and until its teardown has closed the handle.
ClaimExact ==
    \A o \in Op : writers = o <=>
        \/ at[o] \in Carrying
        \/ /\ mounted
           /\ \/ disp[o] \in Closing
              \/ disp[o] = "none" /\ at[o] \in Prepared \union Publishing \union {"live"}

\* The registries show the same transaction: one that publishes or is live, or
\* one that is being torn down.
EntryExact ==
    /\ store = agents
    /\ \A o \in Op : at[o] \in Publishing \union {"live"} => store = o
    /\ \A o \in Op : store = o =>
          \/ at[o] \in Publishing \union {"live"}
          \/ at[o] \in {"rollback", "ended"} /\ disp[o] \in Closing \union {"detach"}

\* How far the teardown can be at each await.
TeardownAt ==
    \A o \in Op :
        /\ at[o] \in Publishing => disp[o] \in {"none", "quiesce"}
        /\ at[o] = "live" => disp[o] # "done"
        /\ at[o] = "rollback" => disp[o] \in Closing \union {"detach"}
        /\ mounted /\ at[o] = "suffix" => disp[o] \in Closing \union {"none"}
        /\ disp[o] = "detach" => writers = NoOp

\* Without a backend there is neither a claim nor a log.
Backendless ==
    ~mounted =>
        /\ author = NoOp
        /\ \A o \in Op : /\ kind[o] \in {"create", "createAgent"}
                         /\ at[o] \notin Carrying \union {"creating", "waiting", "opening"}

LifecycleIInv == LifecycleTypeOK /\ ClaimExact /\ EntryExact /\ TeardownAt /\ Backendless

-----------------------------------------------------------------------------

(* What a start does, whichever call it is: it moves the transaction to one
   await, to one that needs the backend only when there is one, and touches
   nothing that others share (create, createAgent, resume,
   restoreOrCreateConfigured up to their first await). *)
LEMMA StartOutcomes ==
  ASSUME LifecycleIInv, NEW o \in Op, Start(o)
  PROVE  /\ at[o] = "idle"
         /\ \E l \in {"ended", "creating", "opening", "waiting", "suffix", "setup"} :
              /\ at' = [at EXCEPT ![o] = l]
              /\ l \in {"creating", "opening", "waiting"} => mounted
              /\ l \in {"suffix", "setup"} => ~mounted
         /\ found' \in [Op -> BOOLEAN]
         /\ UNCHANGED <<mounted, author, writers, store, agents, created, kind,
                        aborted, down, disp>>
<1> USE DEF LifecycleIInv, LifecycleTypeOK, Goto, Kind
<1>1. CASE kind[o] \in {"create", "createAgent"}
  <2>1. BeginCreate(o) /\ at[o] = "idle"
    BY <1>1 DEF Start
  <2>2. writers # o
    BY <2>1 DEF ClaimExact, Carrying, Closing, Prepared, Publishing
  <2>3. CASE store # NoOp \/ aborted[o]
    BY <2>1, <2>3 DEF BeginCreate, regVars
  <2>4. CASE ~(store # NoOp \/ aborted[o]) /\ mounted
    BY <2>1, <2>4 DEF BeginCreate, regVars
  <2>5. CASE ~(store # NoOp \/ aborted[o]) /\ ~mounted
    BY <2>1, <2>2, <2>5 DEF BeginCreate, PrepareAgent, regVars
  <2> QED
    BY <2>3, <2>4, <2>5
<1>2. CASE kind[o] = "configured"
  <2>1. BeginConfigured(o) /\ at[o] = "idle"
    BY <1>2 DEF Start
  <2> QED
    BY <1>2, <2>1 DEF BeginConfigured, Backendless, regVars, opVars, diskVars
<1>3. CASE kind[o] = "resume"
  BY <1>3 DEF Start, Backendless, regVars, opVars
<1> QED
  BY <1>1, <1>2, <1>3

(* A load that settles keeps the types on each of its three ways out. *)
LEMMA LoadType ==
  ASSUME LifecycleIInv, NEW o \in Op, LoadSettles(o)
  PROVE  LifecycleTypeOK'
<1> USE NoOpAssumption DEF NoOpAssumption, LifecycleIInv, LifecycleTypeOK, Kind, Goto, regVars
<1>1. CASE /\ author # NoOp /\ Goto(o, "reading") /\ UNCHANGED <<writers, found, kind>>
  BY <1>1 DEF LoadSettles, Prepared, Publishing, Concluded, ClaimExact, Carrying
<1>2. CASE /\ kind[o] = "configured" /\ Goto(o, "creating")
           /\ writers' = NoOp
           /\ found' = [found EXCEPT ![o] = FALSE]
           /\ kind' = [kind EXCEPT ![o] = "create"]
  BY <1>2 DEF LoadSettles, Prepared, Publishing, Concluded
<1>3. CASE writers' = NoOp /\ Goto(o, "ended") /\ UNCHANGED <<found, kind>>
  BY <1>3 DEF LoadSettles, Prepared, Publishing, Concluded
<1> QED
  BY <1>1, <1>2, <1>3 DEF LoadSettles

(* So does publish(), whether it enters the registries or rolls back. *)
LEMMA EnterType ==
  ASSUME LifecycleIInv, NEW o \in Op, Enter(o)
  PROVE  LifecycleTypeOK'
<1> USE NoOpAssumption DEF NoOpAssumption, LifecycleIInv, LifecycleTypeOK, Goto, diskVars, opVars,
      Prepared, Publishing, Concluded
<1>1. CASE RollBack(o) /\ UNCHANGED <<store, agents, created>>
  BY <1>1 DEF Enter, RollBack, BeginDispose
<1>2. CASE /\ store' = o /\ agents' = o /\ created' = TRUE
           /\ Goto(o, "announceSession") /\ UNCHANGED disp
  BY <1>2 DEF Enter
<1> QED
  BY <1>1, <1>2 DEF Enter

(* Every step keeps the types, and only a prepared agent gets a teardown. *)
LEMMA TypeOKNext == LifecycleIInv /\ [LifecycleNext]_lifecycleVars => LifecycleTypeOK'
<1> SUFFICES ASSUME LifecycleIInv, [LifecycleNext]_lifecycleVars PROVE LifecycleTypeOK'
  OBVIOUS
<1>1. ASSUME NEW o \in Op, Start(o) PROVE LifecycleTypeOK'
  <2>1. PICK l \in {"ended", "creating", "opening", "waiting", "suffix", "setup"} :
          /\ at[o] = "idle"
          /\ at' = [at EXCEPT ![o] = l]
          /\ l \in {"creating", "opening", "waiting"} => mounted
          /\ l \in {"suffix", "setup"} => ~mounted
          /\ found' \in [Op -> BOOLEAN]
          /\ UNCHANGED <<mounted, author, writers, store, agents, created, kind,
                         aborted, down, disp>>
    BY <1>1, StartOutcomes
  <2> QED
    BY <2>1, NoOpAssumption DEF NoOpAssumption, LifecycleIInv, Carrying, Closing,
        Prepared, Publishing, Concluded, LifecycleTypeOK, Kind, ClaimExact, EntryExact,
        TeardownAt
<1>5. ASSUME NEW o \in Op, LoadSettles(o) PROVE LifecycleTypeOK'
  BY <1>5, LoadType
<1>13. ASSUME NEW o \in Op, Enter(o) PROVE LifecycleTypeOK'
  BY <1>13, EnterType
<1> USE NoOpAssumption DEF NoOpAssumption, LifecycleIInv, Goto, Calm, Carrying, Closing,
        Prepared, Publishing, Concluded, regVars, diskVars, opVars, LifecycleTypeOK, Kind,
        ClaimExact, EntryExact, TeardownAt
<1>2. ASSUME NEW o \in Op, WaitEnds(o) PROVE LifecycleTypeOK'
  BY <1>2 DEF WaitEnds
<1>3. ASSUME NEW o \in Op, CreateSettles(o) PROVE LifecycleTypeOK'
  BY <1>3 DEF CreateSettles
<1>4. ASSUME NEW o \in Op, ClaimWrite(o) PROVE LifecycleTypeOK'
  BY <1>4 DEF ClaimWrite
<1>6. ASSUME NEW o \in Op, ReadSettles(o) PROVE LifecycleTypeOK'
  BY <1>6 DEF ReadSettles
<1>7. ASSUME NEW o \in Op, RepairSettles(o) PROVE LifecycleTypeOK'
  BY <1>7 DEF RepairSettles
<1>8. ASSUME NEW o \in Op, MarkSettles(o) PROVE LifecycleTypeOK'
  BY <1>8 DEF MarkSettles, PrepareAgent
<1>9. ASSUME NEW o \in Op, CloseSettles(o) PROVE LifecycleTypeOK'
  BY <1>9 DEF CloseSettles
<1>10. ASSUME NEW o \in Op, AbandonedSettles(o) PROVE LifecycleTypeOK'
  BY <1>10 DEF AbandonedSettles
<1>11. ASSUME NEW o \in Op, SetupSettles(o) PROVE LifecycleTypeOK'
  BY <1>11 DEF SetupSettles, RollBack, BeginDispose, Dead
<1>12. ASSUME NEW o \in Op, SuffixSettles(o) PROVE LifecycleTypeOK'
  BY <1>12 DEF SuffixSettles, RollBack, BeginDispose, Materialize
<1>14. ASSUME NEW o \in Op, Publish(o) PROVE LifecycleTypeOK'
  BY <1>14 DEF Publish, Announced, Vetoed, RollBack, BeginDispose, Dead
<1>15. ASSUME NEW o \in Op, Quiesced(o) PROVE LifecycleTypeOK'
  BY <1>15 DEF Quiesced
<1>16. ASSUME NEW o \in Op, HandleClosed(o) PROVE LifecycleTypeOK'
  BY <1>16 DEF HandleClosed
<1>17. ASSUME NEW o \in Op, Detach(o) PROVE LifecycleTypeOK'
  BY <1>17 DEF Detach
<1>18. ASSUME NEW o \in Op, Abort(o) PROVE LifecycleTypeOK'
  BY <1>18 DEF Abort, HasSignal
<1>19. ASSUME NEW o \in Op, Unload(o) PROVE LifecycleTypeOK'
  BY <1>19 DEF Unload, BeginDispose
<1>20. ASSUME NEW o \in Op, Dispose(o) PROVE LifecycleTypeOK'
  BY <1>20 DEF Dispose, BeginDispose
<1>21. ASSUME NEW o \in Op, FirstEvent(o) PROVE LifecycleTypeOK'
  BY <1>21 DEF FirstEvent, Materialize
<1>22. CASE UNCHANGED lifecycleVars
  BY <1>22 DEF lifecycleVars
<1> QED
  BY <1>1, <1>2, <1>3, <1>4, <1>5, <1>6, <1>7, <1>8, <1>9, <1>10, <1>11,
     <1>12, <1>13, <1>14, <1>15, <1>16, <1>17, <1>18, <1>19, <1>20, <1>21, <1>22
     DEF LifecycleNext, Progress, Teardown, Request

(* No step of a system without a backend reaches a claim or an artifact. *)
LEMMA BackendlessNext == LifecycleIInv /\ [LifecycleNext]_lifecycleVars => Backendless'
<1> SUFFICES ASSUME LifecycleIInv, [LifecycleNext]_lifecycleVars PROVE Backendless'
  OBVIOUS
<1>1. ASSUME NEW o \in Op, Start(o) PROVE Backendless'
  <2>1. PICK l \in {"ended", "creating", "opening", "waiting", "suffix", "setup"} :
          /\ at[o] = "idle"
          /\ at' = [at EXCEPT ![o] = l]
          /\ l \in {"creating", "opening", "waiting"} => mounted
          /\ l \in {"suffix", "setup"} => ~mounted
          /\ found' \in [Op -> BOOLEAN]
          /\ UNCHANGED <<mounted, author, writers, store, agents, created, kind,
                         aborted, down, disp>>
    BY <1>1, StartOutcomes
  <2> QED
    BY <2>1, NoOpAssumption DEF NoOpAssumption, LifecycleIInv, Carrying, Closing,
        Prepared, Publishing, Concluded, LifecycleTypeOK, ClaimExact, Backendless
<1> USE NoOpAssumption DEF NoOpAssumption, LifecycleIInv, Goto, Calm, Carrying, Closing,
        Prepared, Publishing, Concluded, regVars, diskVars, opVars, LifecycleTypeOK,
        ClaimExact, Backendless
<1>2. ASSUME NEW o \in Op, WaitEnds(o) PROVE Backendless'
  BY <1>2 DEF WaitEnds
<1>3. ASSUME NEW o \in Op, CreateSettles(o) PROVE Backendless'
  BY <1>3 DEF CreateSettles
<1>4. ASSUME NEW o \in Op, ClaimWrite(o) PROVE Backendless'
  BY <1>4 DEF ClaimWrite
<1>5. ASSUME NEW o \in Op, LoadSettles(o) PROVE Backendless'
  BY <1>5 DEF LoadSettles
<1>6. ASSUME NEW o \in Op, ReadSettles(o) PROVE Backendless'
  BY <1>6 DEF ReadSettles
<1>7. ASSUME NEW o \in Op, RepairSettles(o) PROVE Backendless'
  BY <1>7 DEF RepairSettles
<1>8. ASSUME NEW o \in Op, MarkSettles(o) PROVE Backendless'
  BY <1>8 DEF MarkSettles, PrepareAgent
<1>9. ASSUME NEW o \in Op, CloseSettles(o) PROVE Backendless'
  BY <1>9 DEF CloseSettles
<1>10. ASSUME NEW o \in Op, AbandonedSettles(o) PROVE Backendless'
  BY <1>10 DEF AbandonedSettles
<1>11. ASSUME NEW o \in Op, SetupSettles(o) PROVE Backendless'
  BY <1>11 DEF SetupSettles, RollBack, BeginDispose, Dead
<1>12. ASSUME NEW o \in Op, SuffixSettles(o) PROVE Backendless'
  BY <1>12 DEF SuffixSettles, RollBack, BeginDispose, Materialize
<1>13. ASSUME NEW o \in Op, Enter(o) PROVE Backendless'
  BY <1>13 DEF Enter, RollBack, BeginDispose, Dead
<1>14. ASSUME NEW o \in Op, Publish(o) PROVE Backendless'
  BY <1>14 DEF Publish, Announced, Vetoed, RollBack, BeginDispose, Dead
<1>15. ASSUME NEW o \in Op, Quiesced(o) PROVE Backendless'
  BY <1>15 DEF Quiesced
<1>16. ASSUME NEW o \in Op, HandleClosed(o) PROVE Backendless'
  BY <1>16 DEF HandleClosed
<1>17. ASSUME NEW o \in Op, Detach(o) PROVE Backendless'
  BY <1>17 DEF Detach
<1>18. ASSUME NEW o \in Op, Abort(o) PROVE Backendless'
  BY <1>18 DEF Abort, HasSignal
<1>19. ASSUME NEW o \in Op, Unload(o) PROVE Backendless'
  BY <1>19 DEF Unload, BeginDispose
<1>20. ASSUME NEW o \in Op, Dispose(o) PROVE Backendless'
  BY <1>20 DEF Dispose, BeginDispose
<1>21. ASSUME NEW o \in Op, FirstEvent(o) PROVE Backendless'
  BY <1>21 DEF FirstEvent, Materialize
<1>22. CASE UNCHANGED lifecycleVars
  BY <1>22 DEF lifecycleVars
<1> QED
  BY <1>1, <1>2, <1>3, <1>4, <1>5, <1>6, <1>7, <1>8, <1>9, <1>10, <1>11,
     <1>12, <1>13, <1>14, <1>15, <1>16, <1>17, <1>18, <1>19, <1>20, <1>21, <1>22
     DEF LifecycleNext, Progress, Teardown, Request

(* enter() and the two detaches keep both registries on one transaction, the
   one that publishes, is live or is being torn down. *)
LEMMA EntryExactNext == LifecycleIInv /\ [LifecycleNext]_lifecycleVars => EntryExact'
<1> SUFFICES ASSUME LifecycleIInv, [LifecycleNext]_lifecycleVars PROVE EntryExact'
  OBVIOUS
<1>1. ASSUME NEW o \in Op, Start(o) PROVE EntryExact'
  <2>1. PICK l \in {"ended", "creating", "opening", "waiting", "suffix", "setup"} :
          /\ at[o] = "idle"
          /\ at' = [at EXCEPT ![o] = l]
          /\ l \in {"creating", "opening", "waiting"} => mounted
          /\ l \in {"suffix", "setup"} => ~mounted
          /\ found' \in [Op -> BOOLEAN]
          /\ UNCHANGED <<mounted, author, writers, store, agents, created, kind,
                         aborted, down, disp>>
    BY <1>1, StartOutcomes
  <2> QED
    BY <2>1, NoOpAssumption DEF NoOpAssumption, LifecycleIInv, Carrying, Closing,
        Prepared, Publishing, Concluded, LifecycleTypeOK, EntryExact, TeardownAt
<1> USE NoOpAssumption DEF NoOpAssumption, LifecycleIInv, Goto, Calm, Carrying, Closing,
        Prepared, Publishing, Concluded, regVars, diskVars, opVars, LifecycleTypeOK,
        EntryExact, TeardownAt
<1>2. ASSUME NEW o \in Op, WaitEnds(o) PROVE EntryExact'
  BY <1>2 DEF WaitEnds
<1>3. ASSUME NEW o \in Op, CreateSettles(o) PROVE EntryExact'
  BY <1>3 DEF CreateSettles
<1>4. ASSUME NEW o \in Op, ClaimWrite(o) PROVE EntryExact'
  BY <1>4 DEF ClaimWrite
<1>5. ASSUME NEW o \in Op, LoadSettles(o) PROVE EntryExact'
  BY <1>5 DEF LoadSettles
<1>6. ASSUME NEW o \in Op, ReadSettles(o) PROVE EntryExact'
  BY <1>6 DEF ReadSettles
<1>7. ASSUME NEW o \in Op, RepairSettles(o) PROVE EntryExact'
  BY <1>7 DEF RepairSettles
<1>8. ASSUME NEW o \in Op, MarkSettles(o) PROVE EntryExact'
  BY <1>8 DEF MarkSettles, PrepareAgent
<1>9. ASSUME NEW o \in Op, CloseSettles(o) PROVE EntryExact'
  BY <1>9 DEF CloseSettles
<1>10. ASSUME NEW o \in Op, AbandonedSettles(o) PROVE EntryExact'
  BY <1>10 DEF AbandonedSettles
<1>11. ASSUME NEW o \in Op, SetupSettles(o) PROVE EntryExact'
  BY <1>11 DEF SetupSettles, RollBack, BeginDispose, Dead
<1>12. ASSUME NEW o \in Op, SuffixSettles(o) PROVE EntryExact'
  BY <1>12 DEF SuffixSettles, RollBack, BeginDispose, Materialize
<1>13. ASSUME NEW o \in Op, Enter(o) PROVE EntryExact'
  BY <1>13 DEF Enter, RollBack, BeginDispose, Dead
<1>14. ASSUME NEW o \in Op, Publish(o) PROVE EntryExact'
  BY <1>14 DEF Publish, Announced, Vetoed, RollBack, BeginDispose, Dead
<1>15. ASSUME NEW o \in Op, Quiesced(o) PROVE EntryExact'
  BY <1>15 DEF Quiesced
<1>16. ASSUME NEW o \in Op, HandleClosed(o) PROVE EntryExact'
  BY <1>16 DEF HandleClosed
<1>17. ASSUME NEW o \in Op, Detach(o) PROVE EntryExact'
  BY <1>17 DEF Detach
<1>18. ASSUME NEW o \in Op, Abort(o) PROVE EntryExact'
  BY <1>18 DEF Abort, HasSignal
<1>19. ASSUME NEW o \in Op, Unload(o) PROVE EntryExact'
  BY <1>19 DEF Unload, BeginDispose
<1>20. ASSUME NEW o \in Op, Dispose(o) PROVE EntryExact'
  BY <1>20 DEF Dispose, BeginDispose
<1>21. ASSUME NEW o \in Op, FirstEvent(o) PROVE EntryExact'
  BY <1>21 DEF FirstEvent, Materialize
<1>22. CASE UNCHANGED lifecycleVars
  BY <1>22 DEF lifecycleVars
<1> QED
  BY <1>1, <1>2, <1>3, <1>4, <1>5, <1>6, <1>7, <1>8, <1>9, <1>10, <1>11,
     <1>12, <1>13, <1>14, <1>15, <1>16, <1>17, <1>18, <1>19, <1>20, <1>21, <1>22
     DEF LifecycleNext, Progress, Teardown, Request

(* The memoized dispose() advances in step with the call it belongs to. *)
LEMMA TeardownAtNext == LifecycleIInv /\ [LifecycleNext]_lifecycleVars => TeardownAt'
<1> SUFFICES ASSUME LifecycleIInv, [LifecycleNext]_lifecycleVars PROVE TeardownAt'
  OBVIOUS
<1>1. ASSUME NEW o \in Op, Start(o) PROVE TeardownAt'
  <2>1. PICK l \in {"ended", "creating", "opening", "waiting", "suffix", "setup"} :
          /\ at[o] = "idle"
          /\ at' = [at EXCEPT ![o] = l]
          /\ l \in {"creating", "opening", "waiting"} => mounted
          /\ l \in {"suffix", "setup"} => ~mounted
          /\ found' \in [Op -> BOOLEAN]
          /\ UNCHANGED <<mounted, author, writers, store, agents, created, kind,
                         aborted, down, disp>>
    BY <1>1, StartOutcomes
  <2> QED
    BY <2>1, NoOpAssumption DEF NoOpAssumption, LifecycleIInv, Carrying, Closing,
        Prepared, Publishing, Concluded, LifecycleTypeOK, ClaimExact, TeardownAt, EntryExact,
        Backendless
<1> USE NoOpAssumption DEF NoOpAssumption, LifecycleIInv, Goto, Calm, Carrying, Closing,
        Prepared, Publishing, Concluded, regVars, diskVars, opVars, LifecycleTypeOK,
        ClaimExact, TeardownAt, EntryExact,
        Backendless
<1>2. ASSUME NEW o \in Op, WaitEnds(o) PROVE TeardownAt'
  BY <1>2 DEF WaitEnds
<1>3. ASSUME NEW o \in Op, CreateSettles(o) PROVE TeardownAt'
  BY <1>3 DEF CreateSettles
<1>4. ASSUME NEW o \in Op, ClaimWrite(o) PROVE TeardownAt'
  BY <1>4 DEF ClaimWrite
<1>5. ASSUME NEW o \in Op, LoadSettles(o) PROVE TeardownAt'
  BY <1>5 DEF LoadSettles
<1>6. ASSUME NEW o \in Op, ReadSettles(o) PROVE TeardownAt'
  BY <1>6 DEF ReadSettles
<1>7. ASSUME NEW o \in Op, RepairSettles(o) PROVE TeardownAt'
  BY <1>7 DEF RepairSettles
<1>8. ASSUME NEW o \in Op, MarkSettles(o) PROVE TeardownAt'
  BY <1>8 DEF MarkSettles, PrepareAgent
<1>9. ASSUME NEW o \in Op, CloseSettles(o) PROVE TeardownAt'
  BY <1>9 DEF CloseSettles
<1>10. ASSUME NEW o \in Op, AbandonedSettles(o) PROVE TeardownAt'
  BY <1>10 DEF AbandonedSettles
<1>11. ASSUME NEW o \in Op, SetupSettles(o) PROVE TeardownAt'
  BY <1>11 DEF SetupSettles, RollBack, BeginDispose, Dead
<1>12. ASSUME NEW o \in Op, SuffixSettles(o) PROVE TeardownAt'
  BY <1>12 DEF SuffixSettles, RollBack, BeginDispose, Materialize
<1>13. ASSUME NEW o \in Op, Enter(o) PROVE TeardownAt'
  BY <1>13 DEF Enter, RollBack, BeginDispose, Dead
<1>14. ASSUME NEW o \in Op, Publish(o) PROVE TeardownAt'
  BY <1>14 DEF Publish, Announced, Vetoed, RollBack, BeginDispose, Dead
<1>15. ASSUME NEW o \in Op, Quiesced(o) PROVE TeardownAt'
  BY <1>15 DEF Quiesced
<1>16. ASSUME NEW o \in Op, HandleClosed(o) PROVE TeardownAt'
  BY <1>16 DEF HandleClosed
<1>17. ASSUME NEW o \in Op, Detach(o) PROVE TeardownAt'
  BY <1>17 DEF Detach
<1>18. ASSUME NEW o \in Op, Abort(o) PROVE TeardownAt'
  BY <1>18 DEF Abort, HasSignal
<1>19. ASSUME NEW o \in Op, Unload(o) PROVE TeardownAt'
  BY <1>19 DEF Unload, BeginDispose
<1>20. ASSUME NEW o \in Op, Dispose(o) PROVE TeardownAt'
  BY <1>20 DEF Dispose, BeginDispose
<1>21. ASSUME NEW o \in Op, FirstEvent(o) PROVE TeardownAt'
  BY <1>21 DEF FirstEvent, Materialize
<1>22. CASE UNCHANGED lifecycleVars
  BY <1>22 DEF lifecycleVars
<1> QED
  BY <1>1, <1>2, <1>3, <1>4, <1>5, <1>6, <1>7, <1>8, <1>9, <1>10, <1>11,
     <1>12, <1>13, <1>14, <1>15, <1>16, <1>17, <1>18, <1>19, <1>20, <1>21, <1>22
     DEF LifecycleNext, Progress, Teardown, Request

(* Every take and every release of the claim happens exactly where a
   transaction starts or stops to carry the handle. *)
LEMMA ClaimExactNext == LifecycleIInv /\ [LifecycleNext]_lifecycleVars => ClaimExact'
<1> SUFFICES ASSUME LifecycleIInv, [LifecycleNext]_lifecycleVars PROVE ClaimExact'
  OBVIOUS
<1>1. ASSUME NEW o \in Op, Start(o) PROVE ClaimExact'
  <2>1. PICK l \in {"ended", "creating", "opening", "waiting", "suffix", "setup"} :
          /\ at[o] = "idle"
          /\ at' = [at EXCEPT ![o] = l]
          /\ l \in {"creating", "opening", "waiting"} => mounted
          /\ l \in {"suffix", "setup"} => ~mounted
          /\ found' \in [Op -> BOOLEAN]
          /\ UNCHANGED <<mounted, author, writers, store, agents, created, kind,
                         aborted, down, disp>>
    BY <1>1, StartOutcomes
  <2> QED
    BY <2>1, NoOpAssumption DEF NoOpAssumption, LifecycleIInv, Carrying, Closing,
        Prepared, Publishing, Concluded, LifecycleTypeOK, ClaimExact, TeardownAt, EntryExact,
        Backendless
<1> USE NoOpAssumption DEF NoOpAssumption, LifecycleIInv, Goto, Calm, Carrying, Closing,
        Prepared, Publishing, Concluded, regVars, diskVars, opVars, LifecycleTypeOK,
        ClaimExact, TeardownAt, EntryExact,
        Backendless
<1>2. ASSUME NEW o \in Op, WaitEnds(o) PROVE ClaimExact'
  BY <1>2 DEF WaitEnds
<1>3. ASSUME NEW o \in Op, CreateSettles(o) PROVE ClaimExact'
  BY <1>3 DEF CreateSettles
<1>4. ASSUME NEW o \in Op, ClaimWrite(o) PROVE ClaimExact'
  BY <1>4 DEF ClaimWrite
<1>5. ASSUME NEW o \in Op, LoadSettles(o) PROVE ClaimExact'
  BY <1>5 DEF LoadSettles
<1>6. ASSUME NEW o \in Op, ReadSettles(o) PROVE ClaimExact'
  BY <1>6 DEF ReadSettles
<1>7. ASSUME NEW o \in Op, RepairSettles(o) PROVE ClaimExact'
  BY <1>7 DEF RepairSettles
<1>8. ASSUME NEW o \in Op, MarkSettles(o) PROVE ClaimExact'
  BY <1>8 DEF MarkSettles, PrepareAgent
<1>9. ASSUME NEW o \in Op, CloseSettles(o) PROVE ClaimExact'
  BY <1>9 DEF CloseSettles
<1>10. ASSUME NEW o \in Op, AbandonedSettles(o) PROVE ClaimExact'
  BY <1>10 DEF AbandonedSettles
<1>11. ASSUME NEW o \in Op, SetupSettles(o) PROVE ClaimExact'
  BY <1>11 DEF SetupSettles, RollBack, BeginDispose, Dead
<1>12. ASSUME NEW o \in Op, SuffixSettles(o) PROVE ClaimExact'
  BY <1>12 DEF SuffixSettles, RollBack, BeginDispose, Materialize
<1>13. ASSUME NEW o \in Op, Enter(o) PROVE ClaimExact'
  BY <1>13 DEF Enter, RollBack, BeginDispose, Dead
<1>14. ASSUME NEW o \in Op, Publish(o) PROVE ClaimExact'
  BY <1>14 DEF Publish, Announced, Vetoed, RollBack, BeginDispose, Dead
<1>15. ASSUME NEW o \in Op, Quiesced(o) PROVE ClaimExact'
  BY <1>15 DEF Quiesced
<1>16. ASSUME NEW o \in Op, HandleClosed(o) PROVE ClaimExact'
  BY <1>16 DEF HandleClosed
<1>17. ASSUME NEW o \in Op, Detach(o) PROVE ClaimExact'
  BY <1>17 DEF Detach
<1>18. ASSUME NEW o \in Op, Abort(o) PROVE ClaimExact'
  BY <1>18 DEF Abort, HasSignal
<1>19. ASSUME NEW o \in Op, Unload(o) PROVE ClaimExact'
  BY <1>19 DEF Unload, BeginDispose
<1>20. ASSUME NEW o \in Op, Dispose(o) PROVE ClaimExact'
  BY <1>20 DEF Dispose, BeginDispose
<1>21. ASSUME NEW o \in Op, FirstEvent(o) PROVE ClaimExact'
  BY <1>21 DEF FirstEvent, Materialize
<1>22. CASE UNCHANGED lifecycleVars
  BY <1>22 DEF lifecycleVars
<1> QED
  BY <1>1, <1>2, <1>3, <1>4, <1>5, <1>6, <1>7, <1>8, <1>9, <1>10, <1>11,
     <1>12, <1>13, <1>14, <1>15, <1>16, <1>17, <1>18, <1>19, <1>20, <1>21, <1>22
     DEF LifecycleNext, Progress, Teardown, Request

\* The inductive invariant holds at the start.
LEMMA LifecycleInitIInv == LifecycleInit => LifecycleIInv
<1> SUFFICES ASSUME LifecycleInit PROVE LifecycleIInv
  OBVIOUS
<1> USE NoOpAssumption DEF NoOpAssumption, LifecycleInit
<1>1. LifecycleTypeOK
  BY DEF LifecycleTypeOK, Prepared, Publishing, Concluded
<1>2. ClaimExact
  BY DEF ClaimExact, Carrying, Closing, Prepared, Publishing
<1>3. EntryExact
  BY DEF EntryExact, Publishing
<1>4. TeardownAt
  BY DEF TeardownAt, Publishing, Closing
<1>5. Backendless
  BY DEF Backendless, Carrying
<1> QED
  BY <1>1, <1>2, <1>3, <1>4, <1>5 DEF LifecycleIInv

\* The inductive invariant holds in every state, whatever the transactions do.
LEMMA LifecycleInvariance == LifecycleSpec => []LifecycleIInv
<1>1. LifecycleIInv /\ [LifecycleNext]_lifecycleVars => LifecycleIInv'
  BY TypeOKNext, ClaimExactNext, EntryExactNext, TeardownAtNext, BackendlessNext
     DEF LifecycleIInv
<1> QED
  BY LifecycleInitIInv, <1>1, PTL DEF LifecycleSpec

\* Every variable keeps its type, and no call that was never prepared has a
\* teardown (create, resume and the start of configured agents).
THEOREM LifecycleTypeCorrect == LifecycleSpec => []LifecycleTypeOK
<1>1. LifecycleIInv => LifecycleTypeOK
  BY DEF LifecycleIInv
<1> QED
  BY LifecycleInvariance, <1>1, PTL

\* However many transactions compete for the id, the registries and the claim on
\* its log name one transaction, the one that was published, and a call that is
\* over keeps none of the three (publish, the memoized dispose and the catch
\* clauses of create, createAgent and resumeWith).
THEOREM RegistriesAlwaysExact == LifecycleSpec => []RegistriesExact
<1>1. ASSUME LifecycleIInv PROVE RegistriesExact
  <2> USE <1>1 DEF LifecycleIInv, LifecycleTypeOK
  <2>1. RoutedToOwner
    BY NoOpAssumption DEF NoOpAssumption, RoutedToOwner, ClaimExact, EntryExact,
       TeardownAt, Backendless, Carrying, Closing, Prepared, Publishing
  <2>2. PublishedIsRegistered
    BY NoOpAssumption DEF NoOpAssumption, PublishedIsRegistered, ClaimExact,
       EntryExact, TeardownAt, Carrying, Closing, Prepared, Publishing
  <2>3. NothingLeaks
    BY DEF NothingLeaks, ClaimExact, EntryExact, Carrying, Closing, Prepared,
       Publishing
  <2> QED
    BY <2>1, <2>2, <2>3 DEF RegistriesExact, RegistriesAgree
<1> QED
  BY LifecycleInvariance, <1>1, PTL

\* Every step of the transactions is a step of the id as SessionIdentity promises
\* it, or one that its users do not see.
LEMMA StepImplements ==
  LifecycleIInv /\ [LifecycleNext]_lifecycleVars => [Identity!Next]_(Identity!vars)
<1> DEFINE Seen == <<IF writers # NoOp THEN writers ELSE store, agents, author>>
<1> SUFFICES ASSUME LifecycleIInv, [LifecycleNext]_lifecycleVars
             PROVE  Identity!Next \/ UNCHANGED Seen
  BY DEF Identity!vars
<1>1. ASSUME NEW o \in Op, Start(o) PROVE UNCHANGED Seen
  BY <1>1, StartOutcomes
<1> USE NoOpAssumption DEF NoOpAssumption, LifecycleIInv, LifecycleTypeOK, Calm, Goto, Carrying,
        Closing,
        Prepared, Publishing, Concluded, regVars, diskVars, opVars, ClaimExact
<1>2. ASSUME NEW o \in Op, WaitEnds(o) PROVE UNCHANGED Seen
  BY <1>2 DEF WaitEnds
<1>3. ASSUME NEW o \in Op, CreateSettles(o) PROVE Identity!Take(o) \/ UNCHANGED Seen
  BY <1>3 DEF CreateSettles, EntryExact, TeardownAt, Backendless, Identity!Take
<1>4. ASSUME NEW o \in Op, ClaimWrite(o) PROVE Identity!Take(o) \/ UNCHANGED Seen
  BY <1>4 DEF ClaimWrite, EntryExact, TeardownAt, Backendless, Identity!Take
<1>5. ASSUME NEW o \in Op, LoadSettles(o) PROVE Identity!Leave(o) \/ UNCHANGED Seen
  BY <1>5 DEF LoadSettles, EntryExact, TeardownAt, Backendless, Identity!Leave
<1>6. ASSUME NEW o \in Op, ReadSettles(o) PROVE UNCHANGED Seen
  BY <1>6 DEF ReadSettles
<1>7. ASSUME NEW o \in Op, RepairSettles(o) PROVE UNCHANGED Seen
  BY <1>7 DEF RepairSettles
<1>8. ASSUME NEW o \in Op, MarkSettles(o) PROVE UNCHANGED Seen
  BY <1>8 DEF MarkSettles, PrepareAgent
<1>9. ASSUME NEW o \in Op, CloseSettles(o) PROVE Identity!Leave(o) \/ UNCHANGED Seen
  BY <1>9 DEF CloseSettles, EntryExact, TeardownAt, Backendless, Identity!Leave
<1>10. ASSUME NEW o \in Op, AbandonedSettles(o) PROVE Identity!Leave(o) \/ UNCHANGED Seen
  BY <1>10 DEF AbandonedSettles, EntryExact, TeardownAt, Backendless,
     Identity!Leave
<1>11. ASSUME NEW o \in Op, SetupSettles(o) PROVE UNCHANGED Seen
  BY <1>11 DEF SetupSettles, RollBack, BeginDispose
<1>12. ASSUME NEW o \in Op, SuffixSettles(o) PROVE Identity!Store(o) \/ UNCHANGED Seen
  BY <1>12 DEF SuffixSettles, RollBack, BeginDispose, Materialize, EntryExact,
     TeardownAt, Backendless, Identity!Store
<1>13. ASSUME NEW o \in Op, Enter(o) PROVE Identity!Show(o) \/ UNCHANGED Seen
  BY <1>13 DEF Enter, RollBack, BeginDispose, Dead, EntryExact, TeardownAt,
     Backendless, Identity!Show
<1>14. ASSUME NEW o \in Op, Publish(o) PROVE UNCHANGED Seen
  BY <1>14 DEF Publish, Announced, Vetoed, RollBack, BeginDispose
<1>15. ASSUME NEW o \in Op, Quiesced(o) PROVE UNCHANGED Seen
  BY <1>15 DEF Quiesced
<1>16. ASSUME NEW o \in Op, HandleClosed(o) PROVE Identity!Leave(o) \/ UNCHANGED Seen
  BY <1>16 DEF HandleClosed, EntryExact, TeardownAt, Backendless, Identity!Leave
<1>17. ASSUME NEW o \in Op, Detach(o) PROVE Identity!Leave(o) \/ UNCHANGED Seen
  BY <1>17 DEF Detach, EntryExact, TeardownAt, Backendless, Identity!Leave
<1>18. ASSUME NEW o \in Op, Abort(o) PROVE UNCHANGED Seen
  BY <1>18 DEF Abort, HasSignal
<1>19. ASSUME NEW o \in Op, Unload(o) PROVE UNCHANGED Seen
  BY <1>19 DEF Unload, BeginDispose
<1>20. ASSUME NEW o \in Op, Dispose(o) PROVE UNCHANGED Seen
  BY <1>20 DEF Dispose, BeginDispose
<1>21. ASSUME NEW o \in Op, FirstEvent(o) PROVE Identity!Store(o) \/ UNCHANGED Seen
  BY <1>21 DEF FirstEvent, Materialize, EntryExact, TeardownAt, Backendless,
     Identity!Store
<1>22. CASE UNCHANGED lifecycleVars
  BY <1>22 DEF lifecycleVars
<1> QED
  BY <1>1, <1>2, <1>3, <1>4, <1>5, <1>6, <1>7, <1>8, <1>9, <1>10, <1>11,
     <1>12, <1>13, <1>14, <1>15, <1>16, <1>17, <1>18, <1>19, <1>20, <1>21, <1>22
     DEF LifecycleNext, Progress, Teardown, Request, Identity!Next

\* To its users the id is that of SessionIdentity: at most one transaction holds
\* it, an agent is visible only while its transaction holds it, and the holder
\* alone creates the stored log, once (JsonlBackendTracker, publish, dispose).
THEOREM IdentityImplemented == LifecycleSpec => ImplementsIdentity
<1>1. LifecycleInit => Identity!Init
  BY DEF LifecycleInit, Identity!Init
<1> QED
  BY <1>1, LifecycleInvariance, StepImplements, PTL DEF LifecycleSpec, ImplementsIdentity,
     Identity!Spec
=============================================================================
