------------------------------ MODULE GoalFence ------------------------------
(***************************************************************************)
(* What the driver's second check of a round is worth in every             *)
(* composition (packages/goal/goal-round-driver/src/index.ts).             *)
(*                                                                         *)
(* The driver looks at its round after the listeners behind it, but a      *)
(* listener in front of it may still await (agent-instructions in the base *)
(* bundle does), so a stale round can enter.  A history variable over      *)
(* GoalRounds tells which rounds those are.                                *)
(***************************************************************************)
EXTENDS GoalRounds

VARIABLE overtaken  \* the round on its way to its step is older than a change

fenceVars == <<vars, overtaken>>

FenceInit == Init /\ overtaken = FALSE

\* What the driver found valid may be so no longer: its goal got another
\* revision, or a driver was mounted that never looked at it.
Overtakes ==
    overtaken' = /\ pc = "outer" /\ pc' = "outer" /\ Rounds(claimed) # {}
                 /\ \/ overtaken
                    \/ <<g'.id, g'.rev>> # <<g.id, g.rev>>
                    \/ mounted = "off" /\ mounted' = "on"

FenceNext == Next /\ Overtakes

FenceSpec == FenceInit /\ [][FenceNext]_fenceVars /\ Fairness

-----------------------------------------------------------------------------
\* In every composition, also one in which a listener outside the driver awaits
\* (the base bundle), the driver's last look is as good as it can be: when the
\* strict fold (goal/src/fold.ts) refuses a goal message, its goal was changed or
\* a driver was mounted while that listener held the step.  Prompts, cancels,
\* unloads, checkpoints and maintenance in the same window never spoil the log.
FoldFailsOnlyOvertaken ==
    [][g.failed = "no" /\ g'.failed = "fenced" => overtaken]_fenceVars
=============================================================================
