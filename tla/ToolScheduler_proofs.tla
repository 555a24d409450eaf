------------------------- MODULE ToolScheduler_proofs -------------------------
(***************************************************************************)
(* What TLAPS proves of the tool-call scheduler, for any number of calls,  *)
(* any pool size and any number of mode changes.  The argument follows     *)
(* the life of a started call: it is being prepared, in the map of         *)
(* dispatches, or settled in its slot, until its result is committed.      *)
(***************************************************************************)
EXTENDS ToolScheduler, SequenceTheorems, FiniteSetTheorems, TLAPS

Live == {"classify", "prepare", "commit", "fill", "race"}

(* The counters and the sets of calls are about started calls. *)
Extent ==
    /\ committed <= started
    /\ pc = "prepare" => started # 0
    /\ running \subseteq inFlight
    /\ inFlight \subseteq 1..started
    /\ slots \subseteq 1..started

(* No open call is lost: it is prepared, dispatched or settled; a settled   *)
(* dispatch has filled its slot or recorded a failure; and commitReady      *)
(* leaves the next slot empty unless it was filled behind its back.         *)
Accounted ==
    /\ pc \in Live => \A i \in Open : i \in inFlight \cup slots \/ (pc = "prepare" /\ i = started)
    /\ ~failure => inFlight \subseteq running \cup slots
    /\ pc = "fill" /\ committed + 1 \in slots => committed + 1 \in inFlight

(* An exclusive call is the last of its group as well as alone in it. *)
Barrier ==
    \A i \in Open : startedAs[i] = "exclusive" => last = i /\ Open = {i}

(* The pool keeps a place for the call that is being prepared. *)
Pool ==
    /\ Cardinality(inFlight) <= MaxParallel
    /\ pc = "prepare" => Cardinality(inFlight) < MaxParallel

Stopped == pc \in Exits => running = {}

(* While the batch is live the log holds the calls up to started and the    *)
(* results up to committed: all of them, and nothing beyond.                *)
Recorded ==
    pc \in Live =>
        /\ \A k \in DOMAIN log :
              log[k].call <= IF log[k].type = "tool/call" THEN started ELSE committed
        /\ \A i \in 1..started : \E k \in DOMAIN log :
              log[k].type = "tool/call" /\ log[k].call = i
        /\ \A i \in 1..committed : \E k \in DOMAIN log :
              log[k].type = "tool/result" /\ log[k].call = i

(* Synthetic results are written in the segment that ends the batch only. *)
Unskipped ==
    pc # "done" => \A k \in DOMAIN log :
                      log[k].type = "tool/result" => log[k].how # "skipped"

IInv ==
    /\ TypeOK /\ Extent /\ Accounted /\ GroupCommitsStarted /\ Barrier /\ Pool /\ Stopped
    /\ Recorded /\ Unskipped /\ ModelOrder /\ CompleteOnExit /\ ConcludedFaithful

-----------------------------------------------------------------------------
(* What the events are. *)
LEMMA EventProperties ==
  /\ \A i \in Calls : CallEvent(i) \in Events
  /\ \A i \in Calls, how \in {"plain", "concludes", "skipped"} : ResultEvent(i, how) \in Events
  /\ \A e \in Events : e.call \in Calls /\ e.type \in {"tool/call", "tool/result"}
<1> USE DEF Events, CallEvent, ResultEvent
<1>1. \A i \in Calls : CallEvent(i) \in Events
  OBVIOUS
<1>2. \A i \in Calls, how \in {"plain", "concludes", "skipped"} : ResultEvent(i, how) \in Events
  OBVIOUS
<1>3. ASSUME NEW e \in Events
      PROVE  e.call \in Calls /\ e.type \in {"tool/call", "tool/result"}
  <2>1. CASE e \in {CallEvent(i) : i \in Calls}
    BY <2>1
  <2>2. CASE e \in {ResultEvent(i, how) : i \in Calls, how \in {"plain", "concludes", "skipped"}}
    BY <2>2
  <2> QED
    BY <2>1, <2>2
<1> HIDE DEF Events, CallEvent, ResultEvent
<1> QED
  BY <1>1, <1>2, <1>3

(* One event more. *)
LEMMA AppendEvent ==
  ASSUME NEW s \in Seq(Events), NEW e \in Events
  PROVE  /\ Append(s, e) \in Seq(Events)
         /\ DOMAIN s = 1..Len(s)
         /\ DOMAIN Append(s, e) = 1..(Len(s) + 1)
         /\ \A k \in 1..Len(s) : Append(s, e)[k] = s[k]
         /\ Append(s, e)[Len(s) + 1] = e
  OBVIOUS

(* appendSkippedToolCall writes a call and a result for each call, in order. *)
LEMMA SkippedPairsProperties ==
  ASSUME NEW lo \in 1..(N + 1)
  PROVE  /\ SkippedPairs(lo, N) \in Seq(Events)
         /\ Len(SkippedPairs(lo, N)) = 2 * (N - lo + 1)
         /\ \A k \in 1..(2 * (N - lo + 1)) :
               SkippedPairs(lo, N)[k] =
                  IF k % 2 = 1 THEN CallEvent(lo + (k - 1) \div 2)
                  ELSE ResultEvent(lo + (k - 1) \div 2, "skipped")
<1> DEFINE len == 2 * (N - lo + 1)
           E(k) == IF k % 2 = 1 THEN CallEvent(lo + (k - 1) \div 2)
                   ELSE ResultEvent(lo + (k - 1) \div 2, "skipped")
<1>1. len \in Nat /\ (IF N < lo THEN 0 ELSE 2 * (N - lo + 1)) = len
  BY NAssumption DEF NAssumption
<1>2. SkippedPairs(lo, N) = [k \in 1..len |-> E(k)]
  BY <1>1 DEF SkippedPairs
<1>3. ASSUME NEW k \in 1..len PROVE E(k) \in Events
  <2>1. lo + (k - 1) \div 2 \in Calls
    BY <1>1, NAssumption DEF NAssumption, Calls
  <2> HIDE DEF len
  <2> QED
    BY <2>1, EventProperties
<1>4. [k \in 1..len |-> E(k)] \in Seq(Events)
  <2> HIDE DEF len, E
  <2> QED
    BY <1>1, <1>3
<1>5. Len([k \in 1..len |-> E(k)]) = len
  <2> HIDE DEF len, E
  <2> QED
    BY <1>1
<1> QED
  BY <1>2, <1>4, <1>5

(* The prepare stage puts the call into the map, into its slot, or nowhere. *)
LEMMA PreparedEffect ==
  ASSUME NEW outcome, Prepared(outcome)
  PROVE  /\ pc = "prepare" /\ pc' \in {"commit", "drain"}
         /\ UNCHANGED <<started, committed>>
         /\ \/ UNCHANGED <<inFlight, running, slots>>
            \/ /\ inFlight' = inFlight \cup {started}
               /\ running' = running \cup {started}
               /\ UNCHANGED slots
            \/ slots' = slots \cup {started} /\ UNCHANGED <<inFlight, running>>
  BY DEF Prepared

(* Started calls are finitely many. *)
LEMMA FinitePool ==
  ASSUME CounterType, Extent
  PROVE  /\ IsFiniteSet(inFlight) /\ Cardinality(inFlight) \in Nat
         /\ Cardinality(running) \in Nat /\ Cardinality(running) <= Cardinality(inFlight)
         /\ \A x : /\ Cardinality(inFlight \cup {x}) \in Nat
                   /\ Cardinality(inFlight \cup {x}) <= Cardinality(inFlight) + 1
                   /\ Cardinality(inFlight \ {x}) \in Nat
                   /\ Cardinality(inFlight \ {x}) <= Cardinality(inFlight)
<1>1. started \in Int
  BY NAssumption DEF CounterType, NAssumption
<1>2. IsFiniteSet(1..started)
  BY <1>1, FS_Interval
<1>3. inFlight \in SUBSET (1..started) /\ running \in SUBSET inFlight
  BY DEF Extent
<1>4. IsFiniteSet(inFlight)
  BY <1>2, <1>3, FS_Subset
<1>5. Cardinality(inFlight) \in Nat
  BY <1>4, FS_CardinalityType
<1>6. ASSUME NEW x
      PROVE  /\ Cardinality(inFlight \cup {x}) \in Nat
             /\ Cardinality(inFlight \cup {x}) <= Cardinality(inFlight) + 1
             /\ Cardinality(inFlight \ {x}) \in Nat
             /\ Cardinality(inFlight \ {x}) <= Cardinality(inFlight)
  <2>1. /\ IsFiniteSet(inFlight \cup {x})
        /\ Cardinality(inFlight \cup {x}) = IF x \in inFlight THEN Cardinality(inFlight)
                                           ELSE Cardinality(inFlight) + 1
    BY <1>4, FS_AddElement
  <2>2. inFlight \ {x} \in SUBSET inFlight
    OBVIOUS
  <2>3. IsFiniteSet(inFlight \ {x}) /\ Cardinality(inFlight \ {x}) <= Cardinality(inFlight)
    BY <1>4, <2>2, FS_Subset
  <2>4. Cardinality(inFlight \ {x}) \in Nat
    BY <2>3, FS_CardinalityType
  <2> QED
    BY <1>5, <2>1, <2>3, <2>4
<1>7. IsFiniteSet(running) /\ Cardinality(running) <= Cardinality(inFlight)
  BY <1>3, <1>4, FS_Subset
<1>8. Cardinality(running) \in Nat
  BY <1>7, FS_CardinalityType
<1> QED
  BY <1>4, <1>5, <1>6, <1>7, <1>8

(* The scheduler awaits only where the code does; modes are modes. *)
LEMMA ControlTypeInit == Init => ControlType
  BY NAssumption, MaxParallelAssumption, MaxFlipsAssumption DEF NAssumption,
     MaxParallelAssumption, MaxFlipsAssumption, Init, ControlType,
     CounterType, Exits, Modes, Calls

(* The same over every step. *)
LEMMA ControlTypeNext == IInv /\ [Next]_vars => ControlType'
<1> SUFFICES ASSUME IInv, [Next]_vars PROVE ControlType'
  OBVIOUS
<1> USE NAssumption, MaxParallelAssumption, MaxFlipsAssumption DEF
     NAssumption, MaxParallelAssumption, MaxFlipsAssumption, IInv, TypeOK,
     ControlType, CounterType, Exits, Modes, Calls, vars
<1>1. CASE Classify
  BY <1>1 DEF Classify, SkipRemaining, StartCall
<1>2. CASE AllConsumed
  BY <1>2 DEF AllConsumed
<1>3. CASE \E outcome \in {"dispatch", "post-result", "final-result", "reject"} : Prepared(outcome)
  BY <1>3 DEF Prepared
<1>4. CASE \E resultLogged \in BOOLEAN : CommitThrows(resultLogged)
  BY <1>4 DEF CommitThrows
<1>5. CASE CommitDone
  BY <1>5 DEF CommitDone
<1>6. CASE Fill
  BY <1>6 DEF Fill, CanStart, StartCall
<1>7. CASE AwaitRace
  BY <1>7 DEF AwaitRace
<1>8. CASE GroupEnds
  BY <1>8 DEF GroupEnds, SkipRemaining
<1>9. CASE \E i \in Calls : Race(i)
  BY <1>9 DEF Race
<1>10. CASE Drain
  BY <1>10 DEF Drain
<1>11. CASE \E i \in Calls : Reclassify(i)
  BY <1>11 DEF Reclassify
<1> QED
  BY <1>1, <1>2, <1>3, <1>4, <1>5, <1>6, <1>7, <1>8, <1>9, <1>10, <1>11 DEF
     Next, Scheduler, CommitNext, Bodies, Settle, Abort

(* The counters stay within the batch. *)
LEMMA CounterTypeInit == Init => CounterType
  BY NAssumption, MaxParallelAssumption, MaxFlipsAssumption DEF NAssumption,
     MaxParallelAssumption, MaxFlipsAssumption, Init, CounterType, SetType,
     Calls

(* The same over every step. *)
LEMMA CounterTypeNext == IInv /\ [Next]_vars => CounterType'
<1> SUFFICES ASSUME IInv, [Next]_vars PROVE CounterType'
  OBVIOUS
<1> USE NAssumption, MaxParallelAssumption, MaxFlipsAssumption DEF
     NAssumption, MaxParallelAssumption, MaxFlipsAssumption, IInv, TypeOK,
     CounterType, SetType, Calls, vars
<1>1. CASE Classify
  BY <1>1 DEF Classify, SkipRemaining, StartCall
<1>2. CASE \E concludes \in BOOLEAN : CommitNext(concludes)
  BY <1>2 DEF CommitNext
<1>3. CASE Fill
  BY <1>3 DEF Fill, CanStart, StartCall
<1>4. CASE GroupEnds
  BY <1>4 DEF GroupEnds, SkipRemaining
<1>5. CASE \E i \in Calls : Reclassify(i)
  BY <1>5 DEF Reclassify
<1> QED
  BY <1>1, <1>2, <1>3, <1>4, <1>5 DEF Next, Scheduler, AllConsumed,
     Prepared, CommitThrows, CommitDone, AwaitRace, Race, Drain, Bodies,
     Settle, Abort

(* The call sets hold calls. *)
LEMMA SetTypeInit == Init => SetType
  BY NAssumption, MaxParallelAssumption, MaxFlipsAssumption DEF NAssumption,
     MaxParallelAssumption, MaxFlipsAssumption, Init, SetType, Extent,
     CounterType, Calls

(* The same over every step. *)
LEMMA SetTypeNext == IInv /\ [Next]_vars => SetType'
<1> SUFFICES ASSUME IInv, [Next]_vars PROVE SetType'
  OBVIOUS
<1> USE NAssumption, MaxParallelAssumption, MaxFlipsAssumption DEF
     NAssumption, MaxParallelAssumption, MaxFlipsAssumption, IInv, TypeOK,
     SetType, Extent, CounterType, Calls, vars
<1>1. CASE Classify
  BY <1>1 DEF Classify, SkipRemaining, StartCall
<1>2. CASE \E outcome \in {"dispatch", "post-result", "final-result", "reject"} : Prepared(outcome)
  <2>1. started \in 1..started /\ started \in Calls
    BY <1>2, PreparedEffect
  <2> QED
    BY <1>2, <2>1, PreparedEffect
<1>3. CASE Fill
  BY <1>3 DEF Fill, CanStart, StartCall
<1>4. CASE GroupEnds
  BY <1>4 DEF GroupEnds, SkipRemaining
<1>5. CASE \E i \in Calls : Race(i)
  BY <1>5 DEF Race
<1>6. CASE Bodies
  BY <1>6 DEF Bodies, Settle
<1> QED
  BY <1>1, <1>2, <1>3, <1>4, <1>5, <1>6 DEF Next, Scheduler, AllConsumed,
     CommitNext, CommitThrows, CommitDone, AwaitRace, Drain, Abort,
     Reclassify

(* The flags stay Boolean. *)
LEMMA FlagTypeInit == Init => FlagType
  BY NAssumption, MaxParallelAssumption, MaxFlipsAssumption DEF NAssumption,
     MaxParallelAssumption, MaxFlipsAssumption, Init, FlagType

(* The same over every step. *)
LEMMA FlagTypeNext == IInv /\ [Next]_vars => FlagType'
<1> SUFFICES ASSUME IInv, [Next]_vars PROVE FlagType'
  OBVIOUS
<1> USE NAssumption, MaxParallelAssumption, MaxFlipsAssumption DEF
     NAssumption, MaxParallelAssumption, MaxFlipsAssumption, IInv, TypeOK,
     FlagType, vars
<1>1. CASE \E outcome \in {"dispatch", "post-result", "final-result", "reject"} : Prepared(outcome)
  BY <1>1 DEF Prepared
<1>2. CASE \E concludes \in BOOLEAN : CommitNext(concludes)
  BY <1>2 DEF CommitNext
<1>3. CASE \E resultLogged \in BOOLEAN : CommitThrows(resultLogged)
  BY <1>3 DEF CommitThrows
<1>4. CASE Bodies
  BY <1>4 DEF Bodies, Settle
<1>5. CASE Abort
  BY <1>5 DEF Abort
<1> QED
  BY <1>1, <1>2, <1>3, <1>4, <1>5 DEF Next, Scheduler, Classify,
     AllConsumed, CommitDone, Fill, AwaitRace, GroupEnds, Race, Drain,
     Reclassify

(* Nothing is in flight or settled that was not started. *)
LEMMA ExtentInit == Init => Extent
  BY NAssumption, MaxParallelAssumption, MaxFlipsAssumption DEF NAssumption,
     MaxParallelAssumption, MaxFlipsAssumption, Init, Extent, CounterType,
     SetType, Calls

(* The same over every step. *)
LEMMA ExtentNext == IInv /\ [Next]_vars => Extent'
<1> SUFFICES ASSUME IInv, [Next]_vars PROVE Extent'
  OBVIOUS
<1> USE NAssumption, MaxParallelAssumption, MaxFlipsAssumption DEF
     NAssumption, MaxParallelAssumption, MaxFlipsAssumption, IInv, TypeOK,
     Extent, CounterType, SetType, Calls, vars
<1>1. CASE Classify
  BY <1>1 DEF Classify, SkipRemaining, StartCall
<1>2. CASE AllConsumed
  BY <1>2 DEF AllConsumed
<1>3. CASE \E outcome \in {"dispatch", "post-result", "final-result", "reject"} : Prepared(outcome)
  <2>1. started \in 1..started /\ started \in Calls
    BY <1>3, PreparedEffect
  <2> QED
    BY <1>3, <2>1, PreparedEffect
<1>4. CASE \E concludes \in BOOLEAN : CommitNext(concludes)
  BY <1>4 DEF CommitNext
<1>5. CASE \E resultLogged \in BOOLEAN : CommitThrows(resultLogged)
  BY <1>5 DEF CommitThrows
<1>6. CASE CommitDone
  BY <1>6 DEF CommitDone
<1>7. CASE Fill
  BY <1>7 DEF Fill, CanStart, StartCall
<1>8. CASE AwaitRace
  BY <1>8 DEF AwaitRace
<1>9. CASE GroupEnds
  BY <1>9 DEF GroupEnds, SkipRemaining
<1>10. CASE \E i \in Calls : Race(i)
  BY <1>10 DEF Race
<1>11. CASE Drain
  BY <1>11 DEF Drain
<1>12. CASE Bodies
  BY <1>12 DEF Bodies, Settle
<1> QED
  BY <1>1, <1>2, <1>3, <1>4, <1>5, <1>6, <1>7, <1>8, <1>9, <1>10, <1>11,
     <1>12 DEF Next, Scheduler, Abort, Reclassify

(* Every open call is accounted for. *)
LEMMA AccountedInit == Init => Accounted
  BY NAssumption, MaxParallelAssumption, MaxFlipsAssumption DEF NAssumption,
     MaxParallelAssumption, MaxFlipsAssumption, Init, Accounted, Extent,
     CounterType, SetType, Calls, Open, Live, GroupCommitsStarted,
     ControlType, Exits

(* The same over every step. *)
LEMMA AccountedNext == IInv /\ [Next]_vars => Accounted'
<1> SUFFICES ASSUME IInv, [Next]_vars PROVE Accounted'
  OBVIOUS
<1> USE NAssumption, MaxParallelAssumption, MaxFlipsAssumption DEF
     NAssumption, MaxParallelAssumption, MaxFlipsAssumption, IInv, TypeOK,
     Accounted, Extent, CounterType, SetType, Calls, Open, Live,
     GroupCommitsStarted, ControlType, Exits, vars
<1>1. CASE Classify
  BY <1>1 DEF Classify, SkipRemaining, StartCall
<1>2. CASE AllConsumed
  BY <1>2 DEF AllConsumed
<1>3. CASE \E outcome \in {"dispatch", "post-result", "final-result", "reject"} : Prepared(outcome)
  BY <1>3 DEF Prepared
<1>4. CASE \E concludes \in BOOLEAN : CommitNext(concludes)
  BY <1>4 DEF CommitNext
<1>5. CASE \E resultLogged \in BOOLEAN : CommitThrows(resultLogged)
  BY <1>5 DEF CommitThrows
<1>6. CASE CommitDone
  BY <1>6 DEF CommitDone
<1>7. CASE Fill
  BY <1>7 DEF Fill, CanStart, StartCall
<1>8. CASE AwaitRace
  BY <1>8 DEF AwaitRace
<1>9. CASE GroupEnds
  BY <1>9 DEF GroupEnds, SkipRemaining
<1>10. CASE \E i \in Calls : Race(i)
  BY <1>10 DEF Race
<1>11. CASE Drain
  BY <1>11 DEF Drain
<1>12. CASE Bodies
  BY <1>12 DEF Bodies, Settle
<1> QED
  BY <1>1, <1>2, <1>3, <1>4, <1>5, <1>6, <1>7, <1>8, <1>9, <1>10, <1>11,
     <1>12 DEF Next, Scheduler, Abort, Reclassify

(* A group that returns has committed what it started. *)
LEMMA GroupCommitsStartedInit == Init => GroupCommitsStarted
  BY NAssumption, MaxParallelAssumption, MaxFlipsAssumption DEF NAssumption,
     MaxParallelAssumption, MaxFlipsAssumption, Init, GroupCommitsStarted,
     Accounted, Extent, CounterType, SetType, Open, Live, Calls

(* The same over every step. *)
LEMMA GroupCommitsStartedNext == IInv /\ [Next]_vars => GroupCommitsStarted'
<1> SUFFICES ASSUME IInv, [Next]_vars PROVE GroupCommitsStarted'
  OBVIOUS
<1> USE NAssumption, MaxParallelAssumption, MaxFlipsAssumption DEF
     NAssumption, MaxParallelAssumption, MaxFlipsAssumption, IInv, TypeOK,
     GroupCommitsStarted, Accounted, Extent, CounterType, SetType, Open,
     Live, Calls, vars
<1>1. CASE Classify
  BY <1>1 DEF Classify, SkipRemaining, StartCall
<1>2. CASE AllConsumed
  BY <1>2 DEF AllConsumed
<1>3. CASE \E outcome \in {"dispatch", "post-result", "final-result", "reject"} : Prepared(outcome)
  BY <1>3 DEF Prepared
<1>4. CASE \E concludes \in BOOLEAN : CommitNext(concludes)
  BY <1>4 DEF CommitNext
<1>5. CASE \E resultLogged \in BOOLEAN : CommitThrows(resultLogged)
  BY <1>5 DEF CommitThrows
<1>6. CASE CommitDone
  BY <1>6 DEF CommitDone
<1>7. CASE Fill
  BY <1>7 DEF Fill, CanStart, StartCall
<1>8. CASE AwaitRace
  BY <1>8 DEF AwaitRace
<1>9. CASE GroupEnds
  BY <1>9 DEF GroupEnds, SkipRemaining
<1>10. CASE \E i \in Calls : Race(i)
  BY <1>10 DEF Race
<1>11. CASE Drain
  BY <1>11 DEF Drain
<1> QED
  BY <1>1, <1>2, <1>3, <1>4, <1>5, <1>6, <1>7, <1>8, <1>9, <1>10, <1>11 DEF
     Next, Scheduler, Bodies, Settle, Abort, Reclassify

(* Exclusive calls stay alone. *)
LEMMA BarrierInit == Init => Barrier
  BY NAssumption, MaxParallelAssumption, MaxFlipsAssumption DEF NAssumption,
     MaxParallelAssumption, MaxFlipsAssumption, Init, Barrier, Extent,
     CounterType, ControlType, GroupCommitsStarted, Open, Modes, Calls

(* The same over every step. *)
LEMMA BarrierNext == IInv /\ [Next]_vars => Barrier'
<1> SUFFICES ASSUME IInv, [Next]_vars PROVE Barrier'
  OBVIOUS
<1> USE NAssumption, MaxParallelAssumption, MaxFlipsAssumption DEF
     NAssumption, MaxParallelAssumption, MaxFlipsAssumption, IInv, TypeOK,
     Barrier, Extent, CounterType, ControlType, GroupCommitsStarted, Open,
     Modes, Calls, vars
<1>1. CASE Classify
  BY <1>1 DEF Classify, SkipRemaining, StartCall
<1>2. CASE \E concludes \in BOOLEAN : CommitNext(concludes)
  BY <1>2 DEF CommitNext
<1>3. CASE Fill
  BY <1>3 DEF Fill, CanStart, StartCall
<1>4. CASE GroupEnds
  BY <1>4 DEF GroupEnds, SkipRemaining
<1> QED
  BY <1>1, <1>2, <1>3, <1>4 DEF Next, Scheduler, AllConsumed, Prepared,
     CommitThrows, CommitDone, AwaitRace, Race, Drain, Bodies, Settle,
     Abort, Reclassify

(* The pool keeps its bound. *)
LEMMA PoolInit == Init => Pool
  BY FS_EmptySet, MaxParallelAssumption DEF MaxParallelAssumption, Init, Pool

(* The same over every step. *)
LEMMA PoolNext == IInv /\ [Next]_vars => Pool'
<1> SUFFICES ASSUME IInv, [Next]_vars PROVE Pool'
  OBVIOUS
<1> USE NAssumption, MaxParallelAssumption, MaxFlipsAssumption DEF
     NAssumption, MaxParallelAssumption, MaxFlipsAssumption, IInv, TypeOK,
     Pool, Extent, CounterType, ControlType, Exits, GroupCommitsStarted,
     vars
<1>1. CASE Classify
  <2>1. inFlight' = {} /\ Cardinality(inFlight') = 0
    BY <1>1, FS_EmptySet DEF Classify
  <2> QED
    BY <2>1
<1>2. CASE AllConsumed
  BY <1>2 DEF AllConsumed
<1>3. CASE \E outcome \in {"dispatch", "post-result", "final-result", "reject"} : Prepared(outcome)
  <2>1. /\ Cardinality(inFlight) \in Nat
        /\ Cardinality(inFlight \cup {started}) \in Nat
        /\ Cardinality(inFlight \cup {started}) <= Cardinality(inFlight) + 1
    BY FinitePool
  <2>2. pc = "prepare" /\ pc' # "prepare"
    BY <1>3, PreparedEffect
  <2>3. CASE inFlight' = inFlight
    BY <2>2, <2>3
  <2>4. CASE inFlight' = inFlight \cup {started}
    <3> HIDE DEF Extent, CounterType
    <3> QED
      BY <2>1, <2>2, <2>4
  <2> QED
    BY <1>3, <2>3, <2>4, PreparedEffect
<1>4. CASE \E resultLogged \in BOOLEAN : CommitThrows(resultLogged)
  BY <1>4 DEF CommitThrows
<1>5. CASE CommitDone
  BY <1>5 DEF CommitDone
<1>6. CASE Fill
  BY <1>6 DEF Fill, CanStart, StartCall
<1>7. CASE AwaitRace
  BY <1>7 DEF AwaitRace
<1>8. CASE GroupEnds
  BY <1>8 DEF GroupEnds, SkipRemaining
<1>9. CASE \E i \in Calls : Race(i)
  <2>1. PICK i \in Calls : Race(i)
    BY <1>9
  <2>2. /\ Cardinality(inFlight) \in Nat
        /\ Cardinality(inFlight \ {i}) \in Nat
        /\ Cardinality(inFlight \ {i}) <= Cardinality(inFlight)
    BY FinitePool
  <2>3. inFlight' = inFlight \ {i} /\ pc' # "prepare"
    BY <2>1 DEF Race
  <2> HIDE DEF Extent, CounterType
  <2> QED
    BY <2>2, <2>3
<1>10. CASE Drain
  BY <1>10 DEF Drain
<1> QED
  BY <1>1, <1>2, <1>3, <1>4, <1>5, <1>6, <1>7, <1>8, <1>9, <1>10 DEF Next,
     Scheduler, CommitNext, Bodies, Settle, Abort, Reclassify

(* Nothing runs behind an exit. *)
LEMMA StoppedInit == Init => Stopped
  BY NAssumption, MaxParallelAssumption, MaxFlipsAssumption DEF NAssumption,
     MaxParallelAssumption, MaxFlipsAssumption, Init, Stopped, Extent,
     CounterType, SetType, GroupCommitsStarted, Exits

(* The same over every step. *)
LEMMA StoppedNext == IInv /\ [Next]_vars => Stopped'
<1> SUFFICES ASSUME IInv, [Next]_vars PROVE Stopped'
  OBVIOUS
<1> USE NAssumption, MaxParallelAssumption, MaxFlipsAssumption DEF
     NAssumption, MaxParallelAssumption, MaxFlipsAssumption, IInv, TypeOK,
     Stopped, Extent, CounterType, SetType, GroupCommitsStarted, Exits, vars
<1>1. CASE Classify
  BY <1>1 DEF Classify, SkipRemaining, StartCall
<1>2. CASE AllConsumed
  BY <1>2 DEF AllConsumed
<1>3. CASE \E outcome \in {"dispatch", "post-result", "final-result", "reject"} : Prepared(outcome)
  BY <1>3 DEF Prepared
<1>4. CASE \E resultLogged \in BOOLEAN : CommitThrows(resultLogged)
  BY <1>4 DEF CommitThrows
<1>5. CASE CommitDone
  BY <1>5 DEF CommitDone
<1>6. CASE Fill
  BY <1>6 DEF Fill, CanStart, StartCall
<1>7. CASE AwaitRace
  BY <1>7 DEF AwaitRace
<1>8. CASE GroupEnds
  BY <1>8 DEF GroupEnds, SkipRemaining
<1>9. CASE \E i \in Calls : Race(i)
  BY <1>9 DEF Race
<1>10. CASE Drain
  BY <1>10 DEF Drain
<1>11. CASE Bodies
  BY <1>11 DEF Bodies, Settle
<1> QED
  BY <1>1, <1>2, <1>3, <1>4, <1>5, <1>6, <1>7, <1>8, <1>9, <1>10, <1>11 DEF
     Next, Scheduler, CommitNext, Abort, Reclassify

-----------------------------------------------------------------------------
(* The four things a step can do to the log, and what it does to the        *)
(* counters with them.                                                      *)
KeepsLog ==
    /\ UNCHANGED <<log, started, committed, concluded>>
    /\ pc' \in Live => pc \in Live
    /\ pc' = "done" => pc = "done" \/ (started = N /\ committed = N /\ pc \in Live)
    /\ pc = "done" => pc' = "done"

StartsOne ==
    /\ pc \in Live /\ started < N
    /\ log' = Append(log, CallEvent(started + 1))
    /\ started' = started + 1
    /\ pc' \notin Exits
    /\ UNCHANGED <<committed, concluded>>

CommitsOne(how) ==
    /\ pc \in Live /\ committed < started
    /\ log' = Append(log, ResultEvent(committed + 1, how))
    /\ pc' \notin Exits
    /\ concluded' <=> concluded \/ how = "concludes"
    /\ UNCHANGED started
    /\ pc' \in Live => committed' = committed + 1

SkipsRest ==
    /\ pc \in Live /\ committed = started
    /\ log' = log \o SkippedPairs(started + 1, N)
    /\ pc' = "done"
    /\ UNCHANGED <<started, committed, concluded>>

(* Every step does one of them. *)
LEMMA LogSteps ==
  ASSUME IInv, [Next]_vars
  PROVE  KeepsLog \/ StartsOne \/ (\E how \in {"plain", "concludes"} : CommitsOne(how)) \/ SkipsRest
<1> USE DEF IInv, TypeOK, CounterType, SetType, Extent, Calls, Live, Exits
<1>1. CASE Classify
  BY <1>1 DEF Classify, SkipRemaining, StartCall, SkipsRest, StartsOne, GroupCommitsStarted
<1>2. CASE Fill
  <2>1. started < last /\ last <= N
    BY <1>2 DEF Fill, CanStart
  <2>2. started < N
    BY <2>1, NAssumption DEF NAssumption
  <2> QED
    BY <1>2, <2>2 DEF Fill, StartCall, StartsOne
<1>3. CASE GroupEnds
  <2>1. committed = started
    BY <1>3 DEF GroupEnds, Accounted, Open
  <2> QED
    BY <1>3, <2>1 DEF GroupEnds, SkipRemaining, SkipsRest, KeepsLog
<1>4. CASE \E concludes \in BOOLEAN : CommitNext(concludes)
  <2>1. committed < started
    BY <1>4 DEF CommitNext
  <2>2. CommitNext(TRUE) => CommitsOne("concludes")
    BY <2>1 DEF CommitNext, CommitsOne
  <2>3. CommitNext(FALSE) => CommitsOne("plain")
    BY <2>1 DEF CommitNext, CommitsOne
  <2> QED
    BY <1>4, <2>2, <2>3
<1>5. CASE \E resultLogged \in BOOLEAN : CommitThrows(resultLogged)
  <2>1. CASE CommitThrows(TRUE)
    <3>1. committed < started
      BY <2>1 DEF CommitThrows
    <3>2. CommitsOne("plain")
      BY <2>1, <3>1 DEF CommitThrows, CommitsOne
    <3> QED
      BY <3>2
  <2>2. CASE CommitThrows(FALSE)
    BY <2>2 DEF CommitThrows, KeepsLog
  <2> QED
    BY <1>5, <2>1, <2>2
<1>6. CASE AllConsumed
  BY <1>6 DEF AllConsumed, KeepsLog, GroupCommitsStarted
<1>7. CASE \E outcome \in {"dispatch", "post-result", "final-result", "reject"} : Prepared(outcome)
  BY <1>7 DEF Prepared, KeepsLog
<1> QED
  BY <1>1, <1>2, <1>3, <1>4, <1>5, <1>6, <1>7
  DEF Next, Scheduler, CommitDone, AwaitRace, Race, Drain, Bodies, Settle, Abort, Reclassify,
      vars, KeepsLog

(* The log is a sequence of events of the batch. *)
LEMMA LogTypeNext == IInv /\ [Next]_vars => LogType'
<1> SUFFICES ASSUME IInv, [Next]_vars PROVE LogType'
  OBVIOUS
<1> USE DEF IInv, TypeOK, LogType
<1>1. CASE StartsOne
  <2>1. started + 1 \in Calls
    BY <1>1, NAssumption DEF NAssumption, StartsOne, CounterType, Calls
  <2> QED
    BY <1>1, <2>1, EventProperties, AppendEvent DEF StartsOne
<1>2. CASE \E how \in {"plain", "concludes"} : CommitsOne(how)
  <2>1. committed + 1 \in Calls
    BY <1>2, NAssumption DEF NAssumption, CommitsOne, CounterType, Calls
  <2> QED
    BY <1>2, <2>1, EventProperties, AppendEvent DEF CommitsOne
<1>3. CASE SkipsRest
  <2>1. started + 1 \in 1..(N + 1)
    BY NAssumption DEF NAssumption, CounterType
  <2> QED
    BY <1>3, <2>1, SkippedPairsProperties, ConcatProperties DEF SkipsRest
<1> QED
  BY <1>1, <1>2, <1>3, LogSteps DEF KeepsLog

(* The last segment of an interrupted batch: what the log is afterwards. *)
LEMMA SkippedLog ==
  ASSUME IInv, SkipsRest
  PROVE  LET m == Len(log) IN
         /\ m \in Nat /\ DOMAIN log = 1..m
         /\ DOMAIN log' = 1..(m + 2 * (N - started))
         /\ \A k \in 1..m : log'[k] = log[k]
         /\ \A k \in 1..(2 * (N - started)) :
               log'[m + k] = IF k % 2 = 1 THEN CallEvent(started + 1 + (k - 1) \div 2)
                             ELSE ResultEvent(started + 1 + (k - 1) \div 2, "skipped")
<1> DEFINE pairs == SkippedPairs(started + 1, N)
           m == Len(log)
           n == 2 * (N - started)
<1>1. started \in Nat /\ started <= N /\ log \in Seq(Events) /\ N \in Nat
  BY NAssumption DEF NAssumption, IInv, TypeOK, CounterType, LogType
<1>2. started + 1 \in 1..(N + 1) /\ 2 * (N - (started + 1) + 1) = n /\ n \in Nat
  BY <1>1
<1>3. /\ pairs \in Seq(Events)
      /\ Len(pairs) = n
      /\ \A k \in 1..n :
            pairs[k] = IF k % 2 = 1 THEN CallEvent(started + 1 + (k - 1) \div 2)
                       ELSE ResultEvent(started + 1 + (k - 1) \div 2, "skipped")
  BY <1>2, SkippedPairsProperties
<1>4. log' = log \o pairs
  BY DEF SkipsRest
<1> HIDE DEF pairs, n
<1>5. m \in Nat /\ DOMAIN log = 1..m
  BY <1>1
<1>6. /\ log' \in Seq(Events)
      /\ Len(log') = m + n
      /\ \A i \in 1..(m + n) : log'[i] = IF i <= m THEN log[i] ELSE pairs[i - m]
  BY <1>1, <1>3, <1>4, ConcatProperties
<1>7. DOMAIN log' = 1..(m + n)
  BY <1>6
<1>8. \A k \in 1..m : log'[k] = log[k]
  BY <1>2, <1>5, <1>6
<1>9. ASSUME NEW k \in 1..n PROVE log'[m + k] = pairs[k]
  BY <1>2, <1>5, <1>6
<1> QED
  BY <1>3, <1>5, <1>7, <1>8, <1>9 DEF n

(* The appended call: its place in the log and what it says. *)
LEMMA StartedLog ==
  ASSUME IInv, StartsOne
  PROVE  LET m == Len(log) IN
         /\ m \in Nat /\ DOMAIN log = 1..m /\ DOMAIN log' = 1..(m + 1)
         /\ \A k \in 1..m : log'[k] = log[k] /\ log[k] \in Events
         /\ log'[m + 1].type = "tool/call" /\ log'[m + 1].call = started + 1
<1>1. started + 1 \in Calls /\ log \in Seq(Events)
  BY NAssumption DEF NAssumption, StartsOne, IInv, TypeOK, CounterType, LogType, Calls
<1>2. CallEvent(started + 1) \in Events
  BY <1>1, EventProperties
<1>3. log' = Append(log, CallEvent(started + 1))
  BY DEF StartsOne
<1> QED
  BY <1>1, <1>2, <1>3, AppendEvent, ElementOfSeq DEF CallEvent

(* The appended result. *)
LEMMA CommittedLog ==
  ASSUME IInv, NEW how \in {"plain", "concludes"}, CommitsOne(how)
  PROVE  LET m == Len(log) IN
         /\ m \in Nat /\ DOMAIN log = 1..m /\ DOMAIN log' = 1..(m + 1)
         /\ \A k \in 1..m : log'[k] = log[k] /\ log[k] \in Events
         /\ /\ log'[m + 1].type = "tool/result"
            /\ log'[m + 1].call = committed + 1
            /\ log'[m + 1].how = how
<1>1. committed + 1 \in Calls /\ log \in Seq(Events)
  BY NAssumption DEF NAssumption, CommitsOne, IInv, TypeOK, CounterType, LogType, Calls
<1>2. ResultEvent(committed + 1, how) \in Events
  BY <1>1, EventProperties
<1>3. log' = Append(log, ResultEvent(committed + 1, how))
  BY DEF CommitsOne
<1> QED
  BY <1>1, <1>2, <1>3, AppendEvent, ElementOfSeq DEF ResultEvent

(* A live batch has recorded exactly what it started and committed. *)
LEMMA RecordedNext == IInv /\ [Next]_vars => Recorded'
<1> SUFFICES ASSUME IInv, [Next]_vars, pc' \in Live PROVE Recorded'
  BY DEF Recorded
<1>0. /\ started \in Nat /\ committed \in Nat /\ committed <= started
      /\ \A e \in Events : e.call \in Nat
  BY EventProperties DEF IInv, TypeOK, CounterType, Extent, Calls
<1>1. CASE KeepsLog
  BY <1>1 DEF KeepsLog, IInv, Recorded
<1>2. CASE StartsOne
  <2>1. Recorded /\ pc \in Live /\ started' = started + 1 /\ committed' = committed
    BY <1>2 DEF StartsOne, IInv
  <2> DEFINE m == Len(log)
  <2>2. /\ m \in Nat /\ DOMAIN log = 1..m /\ DOMAIN log' = 1..(m + 1)
        /\ \A k \in 1..m : log'[k] = log[k] /\ log[k] \in Events
        /\ log'[m + 1].type = "tool/call" /\ log'[m + 1].call = started + 1
    BY <1>2, StartedLog
  <2> HIDE DEF m
  <2>3. ASSUME NEW k \in DOMAIN log'
        PROVE  log'[k].call <= IF log'[k].type = "tool/call" THEN started' ELSE committed'
    <3>1. CASE k = m + 1
      BY <1>0, <2>1, <2>2, <3>1
    <3>2. CASE k \in 1..m
      <4>1. /\ log[k].call <= IF log[k].type = "tool/call" THEN started ELSE committed
            /\ log'[k] = log[k] /\ log[k].call \in Nat
        BY <1>0, <2>1, <2>2, <3>2 DEF Recorded
      <4> QED
        BY <1>0, <2>1, <4>1
    <3> QED
      BY <2>2, <3>1, <3>2
  <2>4. ASSUME NEW i \in 1..started'
        PROVE  \E k \in DOMAIN log' : log'[k].type = "tool/call" /\ log'[k].call = i
    <3>1. CASE i = started + 1
      BY <2>2, <3>1
    <3>2. CASE i \in 1..started
      BY <2>1, <2>2, <3>2 DEF Recorded
    <3> QED
      BY <1>0, <2>1, <3>1, <3>2
  <2>5. \A i \in 1..committed' : \E k \in DOMAIN log' :
           log'[k].type = "tool/result" /\ log'[k].call = i
    BY <2>1, <2>2 DEF Recorded
  <2> QED
    BY <2>3, <2>4, <2>5 DEF Recorded
<1>3. CASE \E how \in {"plain", "concludes"} : CommitsOne(how)
  <2>1. Recorded /\ pc \in Live /\ started' = started /\ committed' = committed + 1
    BY <1>3 DEF CommitsOne, IInv
  <2> DEFINE m == Len(log)
  <2>2. /\ m \in Nat /\ DOMAIN log = 1..m /\ DOMAIN log' = 1..(m + 1)
        /\ \A k \in 1..m : log'[k] = log[k] /\ log[k] \in Events
        /\ log'[m + 1].type = "tool/result" /\ log'[m + 1].call = committed + 1
    BY <1>3, CommittedLog
  <2> HIDE DEF m
  <2>3. \A k \in DOMAIN log' :
           log'[k].call <= IF log'[k].type = "tool/call" THEN started' ELSE committed'
    BY <1>0, <2>1, <2>2 DEF Recorded
  <2>4. ASSUME NEW i \in 1..committed'
        PROVE  \E k \in DOMAIN log' : log'[k].type = "tool/result" /\ log'[k].call = i
    <3>1. CASE i = committed + 1
      BY <2>2, <3>1
    <3>2. CASE i \in 1..committed
      BY <2>1, <2>2, <3>2 DEF Recorded
    <3> QED
      BY <1>0, <2>1, <3>1, <3>2
  <2>5. \A i \in 1..started' : \E k \in DOMAIN log' :
           log'[k].type = "tool/call" /\ log'[k].call = i
    BY <2>1, <2>2 DEF Recorded
  <2> QED
    BY <2>3, <2>4, <2>5 DEF Recorded
<1>4. CASE SkipsRest
  BY <1>4 DEF SkipsRest, Live
<1> QED
  BY <1>1, <1>2, <1>3, <1>4, LogSteps

(* No synthetic result before the end. *)
LEMMA UnskippedNext == IInv /\ [Next]_vars => Unskipped'
<1> SUFFICES ASSUME IInv, [Next]_vars, pc' # "done" PROVE Unskipped'
  BY DEF Unskipped
<1>1. CASE KeepsLog
  BY <1>1 DEF KeepsLog, IInv, Unskipped
<1>2. CASE StartsOne
  BY <1>2, StartedLog DEF StartsOne, IInv, Unskipped, Live
<1>3. CASE \E how \in {"plain", "concludes"} : CommitsOne(how)
  BY <1>3, CommittedLog DEF CommitsOne, IInv, Unskipped, Live
<1> QED
  BY <1>1, <1>2, <1>3, LogSteps DEF SkipsRest

(* Appending keeps model order: the new call is beyond every recorded call, *)
(* the new result beyond every recorded result, the skipped pairs beyond    *)
(* both.                                                                    *)
LEMMA ModelOrderNext == IInv /\ [Next]_vars => ModelOrder'
<1> SUFFICES ASSUME IInv, [Next]_vars PROVE ModelOrder'
  OBVIOUS
<1>0. /\ started \in Nat /\ committed \in Nat /\ committed <= started
      /\ \A e \in Events : e.call \in Nat /\ e.type \in {"tool/call", "tool/result"}
      /\ ModelOrder /\ Recorded
  BY EventProperties DEF IInv, TypeOK, CounterType, Extent, Calls
<1>1. CASE KeepsLog
  BY <1>0, <1>1 DEF KeepsLog, ModelOrder
<1>2. CASE StartsOne
  <2>1. pc \in Live
    BY <1>2 DEF StartsOne
  <2> DEFINE m == Len(log)
  <2>2. /\ m \in Nat /\ DOMAIN log = 1..m /\ DOMAIN log' = 1..(m + 1)
        /\ \A k \in 1..m : log'[k] = log[k] /\ log[k] \in Events
        /\ log'[m + 1].type = "tool/call" /\ log'[m + 1].call = started + 1
    BY <1>2, StartedLog
  <2>3. \A k \in 1..m : log[k].call <= started /\ log[k].call \in Nat
    BY <1>0, <2>1, <2>2, SMTT(30) DEF Recorded
  <2> HIDE DEF m
  <2> QED
    BY <1>0, <2>2, <2>3, SMTT(30) DEF ModelOrder
<1>3. CASE \E how \in {"plain", "concludes"} : CommitsOne(how)
  <2>1. pc \in Live
    BY <1>3 DEF CommitsOne
  <2> DEFINE m == Len(log)
  <2>2. /\ m \in Nat /\ DOMAIN log = 1..m /\ DOMAIN log' = 1..(m + 1)
        /\ \A k \in 1..m : log'[k] = log[k] /\ log[k] \in Events
        /\ log'[m + 1].type = "tool/result" /\ log'[m + 1].call = committed + 1
    BY <1>3, CommittedLog
  <2>3. \A k \in 1..m : log[k].type = "tool/result" => log[k].call <= committed /\ log[k].call \in Nat
    BY <1>0, <2>1, <2>2, SMTT(30) DEF Recorded
  <2> HIDE DEF m
  <2> QED
    BY <1>0, <2>2, <2>3, SMTT(30) DEF ModelOrder
<1>4. CASE SkipsRest
  <2> DEFINE m == Len(log)
             n == 2 * (N - started)
             call(k) == started + 1 + (k - 1) \div 2
  <2>1. /\ m \in Nat /\ n \in Nat /\ DOMAIN log = 1..m /\ DOMAIN log' = 1..(m + n)
        /\ \A k \in 1..m : log'[k] = log[k]
    BY <1>0, <1>4, SkippedLog, NAssumption DEF NAssumption, IInv, TypeOK, CounterType
  <2>2. ASSUME NEW k \in 1..n
        PROVE  /\ log'[m + k].call = call(k)
               /\ log'[m + k].type = IF k % 2 = 1 THEN "tool/call" ELSE "tool/result"
    <3>1. log'[m + k] = IF k % 2 = 1 THEN CallEvent(call(k)) ELSE ResultEvent(call(k), "skipped")
      BY <1>4, SkippedLog
    <3> HIDE DEF call, m, n
    <3> QED
      BY <3>1 DEF CallEvent, ResultEvent
  <2>3. \A k \in 1..m : log[k].call \in Nat /\ log[k].call <= started
    <3>1. \A k \in 1..m : log[k] \in Events
      BY <2>1, ElementOfSeq DEF IInv, TypeOK, LogType
    <3> QED
      BY <1>0, <1>4, <2>1, <3>1 DEF Recorded, SkipsRest
  <2>4. \A j, k \in 1..n : j < k =>
           /\ (j % 2 = k % 2) => call(j) < call(k)
           /\ (j % 2 = 0 /\ k % 2 = 1) => call(j) # call(k)
    BY <1>0, <2>1
  <2>5. \A k \in 1..n : call(k) \in Nat /\ call(k) > started
    BY <1>0, <2>1
  <2> HIDE DEF m, n, call
  <2> SUFFICES ASSUME NEW j \in 1..(m + n), NEW k \in 1..(m + n), j < k
               PROVE  /\ log'[j].type = log'[k].type => log'[j].call < log'[k].call
                      /\ log'[j].type = "tool/result" /\ log'[k].type = "tool/call"
                            => log'[j].call # log'[k].call
    BY <2>1 DEF ModelOrder
  <2>6. CASE k <= m
    BY <1>0, <2>1, <2>6 DEF ModelOrder
  <2>7. CASE j <= m /\ ~(k <= m)
    <3>1. k - m \in 1..n /\ m + (k - m) = k /\ j \in 1..m
      BY <2>1, <2>7
    <3>2. log'[k].call = call(k - m)
      BY <2>2, <3>1
    <3> QED
      BY <1>0, <2>1, <2>3, <2>5, <3>1, <3>2
  <2>8. CASE ~(j <= m)
    <3>1. /\ k - m \in 1..n /\ m + (k - m) = k /\ j - m \in 1..n /\ m + (j - m) = j
          /\ j - m < k - m /\ (j - m) % 2 \in {0, 1} /\ (k - m) % 2 \in {0, 1}
      BY <2>1, <2>8
    <3>2. /\ log'[k].call = call(k - m)
          /\ log'[k].type = IF (k - m) % 2 = 1 THEN "tool/call" ELSE "tool/result"
      BY <2>2, <3>1
    <3>3. /\ log'[j].call = call(j - m)
          /\ log'[j].type = IF (j - m) % 2 = 1 THEN "tool/call" ELSE "tool/result"
      BY <2>2, <3>1
    <3> QED
      BY <2>4, <3>1, <3>2, <3>3
  <2> QED
    BY <2>6, <2>7, <2>8
<1> QED
  BY <1>1, <1>2, <1>3, <1>4, LogSteps

(* Both ways of ending normally leave a pair for every call. *)
LEMMA CompleteOnExitNext == IInv /\ [Next]_vars => CompleteOnExit'
<1> SUFFICES ASSUME IInv, [Next]_vars, pc' = "done" PROVE CompleteOnExit'
  BY DEF CompleteOnExit
<1>1. CASE KeepsLog
  <2>1. CASE pc = "done"
    BY <1>1, <2>1 DEF KeepsLog, IInv, CompleteOnExit
  <2>2. CASE started = N /\ committed = N /\ pc \in Live
    BY <1>1, <2>2 DEF KeepsLog, IInv, Recorded, CompleteOnExit, Calls
  <2> QED
    BY <1>1, <2>1, <2>2 DEF KeepsLog
<1>2. CASE SkipsRest
  <2> DEFINE m == Len(log)
             n == 2 * (N - started)
             call(k) == started + 1 + (k - 1) \div 2
  <2>1. /\ started \in Nat /\ N \in Nat /\ started <= N
        /\ Recorded /\ pc \in Live /\ committed = started
    BY <1>2, NAssumption DEF NAssumption, IInv, TypeOK, CounterType, SkipsRest
  <2>2. /\ m \in Nat /\ n \in Nat /\ DOMAIN log = 1..m /\ DOMAIN log' = 1..(m + n)
        /\ \A k \in 1..m : log'[k] = log[k]
    BY <1>2, <2>1, SkippedLog
  <2>3. ASSUME NEW k \in 1..n
        PROVE  /\ log'[m + k].call = call(k)
               /\ log'[m + k].type = IF k % 2 = 1 THEN "tool/call" ELSE "tool/result"
    <3>1. log'[m + k] = IF k % 2 = 1 THEN CallEvent(call(k)) ELSE ResultEvent(call(k), "skipped")
      BY <1>2, SkippedLog
    <3> HIDE DEF call, m, n
    <3> QED
      BY <3>1 DEF CallEvent, ResultEvent
  <2>4. ASSUME NEW i \in Calls, NEW type \in {"tool/call", "tool/result"}
        PROVE  \E k \in DOMAIN log' : log'[k].type = type /\ log'[k].call = i
    <3>1. CASE i <= started
      <4>1. i \in 1..started
        BY <2>1, <3>1 DEF Calls
      <4>2. /\ \A j \in 1..started : \E k \in 1..m : log[k].type = "tool/call" /\ log[k].call = j
            /\ \A j \in 1..started : \E k \in 1..m : log[k].type = "tool/result" /\ log[k].call = j
        BY <2>1, <2>2, Zenon DEF Recorded
      <4>3. PICK k \in 1..m : log[k].type = type /\ log[k].call = i
        BY <4>1, <4>2
      <4>4. k \in DOMAIN log' /\ log'[k] = log[k]
        BY <2>2, <4>3
      <4> QED
        BY <4>3, <4>4
    <3>2. CASE ~(i <= started)
      <4> DEFINE first == 2 * (i - started) - 1
      <4>1. /\ first \in 1..n /\ first % 2 = 1 /\ call(first) = i
            /\ first + 1 \in 1..n /\ (first + 1) % 2 # 1 /\ call(first + 1) = i
        BY <2>1, <3>2 DEF Calls
      <4> HIDE DEF first, call, m, n
      <4>2. m + first \in DOMAIN log' /\ m + (first + 1) \in DOMAIN log'
        BY <2>2, <4>1
      <4>3. log'[m + first].type = "tool/call" /\ log'[m + first].call = i
        BY <2>3, <4>1
      <4>4. log'[m + (first + 1)].type = "tool/result" /\ log'[m + (first + 1)].call = i
        BY <2>3, <4>1
      <4> QED
        BY <4>2, <4>3, <4>4
    <3> QED
      BY <3>1, <3>2
  <2> QED
    BY <2>4 DEF CompleteOnExit
<1> QED
  BY <1>1, <1>2, LogSteps DEF StartsOne, CommitsOne, Exits

(* A conclusion is remembered exactly when it is logged. *)
LEMMA ConcludedFaithfulNext == IInv /\ [Next]_vars => ConcludedFaithful'
<1> SUFFICES ASSUME IInv, [Next]_vars PROVE ConcludedFaithful'
  OBVIOUS
<1>0. ConcludedFaithful
  BY DEF IInv
<1>1. CASE KeepsLog
  BY <1>0, <1>1 DEF KeepsLog, ConcludedFaithful
<1>2. CASE StartsOne
  <2>1. concluded' = concluded
    BY <1>2 DEF StartsOne
  <2> QED
    BY <1>0, <1>2, <2>1, StartedLog DEF ConcludedFaithful
<1>3. CASE \E how \in {"plain", "concludes"} : CommitsOne(how)
  <2>1. PICK how \in {"plain", "concludes"} : CommitsOne(how)
    BY <1>3
  <2>2. concluded' <=> concluded \/ how = "concludes"
    BY <2>1 DEF CommitsOne
  <2> DEFINE m == Len(log)
  <2>3. /\ m \in Nat /\ DOMAIN log = 1..m /\ DOMAIN log' = 1..(m + 1)
        /\ \A k \in 1..m : log'[k] = log[k]
        /\ log'[m + 1].type = "tool/result" /\ log'[m + 1].how = how
    BY <2>1, CommittedLog
  <2> HIDE DEF m
  <2>4. /\ \A k \in 1..m : k \in 1..(m + 1)
        /\ m + 1 \in 1..(m + 1)
        /\ \A k \in 1..(m + 1) : k \in 1..m \/ k = m + 1
    BY <2>3
  <2> QED
    BY <1>0, <2>2, <2>3, <2>4, Zenon DEF ConcludedFaithful
<1>4. CASE SkipsRest
  <2> DEFINE m == Len(log)
             n == 2 * (N - started)
  <2>1. concluded' = concluded
    BY <1>4 DEF SkipsRest
  <2>2. /\ m \in Nat /\ n \in Nat /\ DOMAIN log = 1..m /\ DOMAIN log' = 1..(m + n)
        /\ \A k \in 1..m : log'[k] = log[k]
    BY <1>4, SkippedLog, NAssumption DEF NAssumption, IInv, TypeOK, CounterType
  <2>3. ASSUME NEW k \in 1..(m + n), k \notin 1..m
        PROVE  ~(log'[k].type = "tool/result" /\ log'[k].how = "concludes")
    <3>1. k - m \in 1..n /\ m + (k - m) = k
      BY <2>2, <2>3
    <3> DEFINE i == started + 1 + ((k - m) - 1) \div 2
    <3>2. \A p \in 1..n :
             log'[m + p] = IF p % 2 = 1 THEN CallEvent(started + 1 + (p - 1) \div 2)
                           ELSE ResultEvent(started + 1 + (p - 1) \div 2, "skipped")
      BY <1>4, SkippedLog
    <3>3. log'[k] = IF (k - m) % 2 = 1 THEN CallEvent(i) ELSE ResultEvent(i, "skipped")
      BY <3>1, <3>2
    <3> HIDE DEF i
    <3> QED
      BY <3>3 DEF CallEvent, ResultEvent
  <2>4. \A k \in 1..m : k \in 1..(m + n)
    BY <2>2
  <2> HIDE DEF m, n
  <2> QED
    BY <1>0, <2>1, <2>2, <2>3, <2>4, Zenon DEF ConcludedFaithful
<1> QED
  BY <1>1, <1>2, <1>3, <1>4, LogSteps

-----------------------------------------------------------------------------
(* The initial states satisfy the inductive invariant. *)
LEMMA InitIInv == Init => IInv
<1>1. Init => /\ LogType /\ Recorded /\ Unskipped /\ ModelOrder
              /\ CompleteOnExit /\ ConcludedFaithful
  BY DEF Init, LogType, Recorded, Unskipped, ModelOrder, CompleteOnExit, ConcludedFaithful
<1> QED
  BY <1>1, ControlTypeInit, CounterTypeInit, SetTypeInit, FlagTypeInit, ExtentInit,
     AccountedInit, GroupCommitsStartedInit, BarrierInit, PoolInit, StoppedInit
  DEF IInv, TypeOK

(* Every step keeps it. *)
LEMMA NextIInv == IInv /\ [Next]_vars => IInv'
  BY ControlTypeNext, CounterTypeNext, SetTypeNext, FlagTypeNext, LogTypeNext,
     ExtentNext, AccountedNext, GroupCommitsStartedNext, BarrierNext, PoolNext,
     StoppedNext, RecordedNext, UnskippedNext, ModelOrderNext,
     CompleteOnExitNext, ConcludedFaithfulNext
  DEF IInv, TypeOK

(* The inductive invariant holds in every reachable state. *)
THEOREM Invariance == Spec => []IInv
  BY InitIInv, NextIInv, PTL DEF Spec

(* Type correctness of the scheduler's state, the log included. *)
THEOREM TypeCorrect == Spec => []TypeOK
<1>1. IInv => TypeOK
  BY DEF IInv
<1> QED
  BY <1>1, Invariance, PTL

(* Never more dispatched bodies than maxParallelToolCalls, for any pool.    *)
THEOREM PoolAlwaysBounded == Spec => []PoolBound
<1>1. IInv => PoolBound
  BY FinitePool, MaxParallelAssumption
  DEF MaxParallelAssumption, IInv, TypeOK, Pool, PoolBound
<1> QED
  BY <1>1, Invariance, PTL

(* An exclusive call never overlaps another one, however tools are          *)
(* re-registered while the batch runs.                                      *)
THEOREM ExclusiveAlwaysAlone == Spec => []ExclusiveBarrier
<1>1. IInv => ExclusiveBarrier
  BY DEF IInv, Barrier, ExclusiveBarrier
<1> QED
  BY <1>1, Invariance, PTL

(* tool/call and tool/result events are durable in model order.             *)
THEOREM AlwaysModelOrder == Spec => []ModelOrder
<1>1. IInv => ModelOrder
  BY DEF IInv
<1> QED
  BY <1>1, Invariance, PTL

(* A batch that ends by completion or cancellation has paired every call.   *)
THEOREM AlwaysComplete == Spec => []CompleteOnExit
<1>1. IInv => CompleteOnExit
  BY DEF IInv
<1> QED
  BY <1>1, Invariance, PTL

(* A failed batch holds no invented result.                                 *)
THEOREM NeverFabricates == Spec => []FailureFabricatesNothing
<1>1. IInv => FailureFabricatesNothing
  BY DEF IInv, Unskipped, FailureFabricatesNothing
<1> QED
  BY <1>1, Invariance, PTL

(* No body outlives its batch.                                              *)
THEOREM AlwaysQuiescent == Spec => []QuiescentOnExit
<1>1. IInv => QuiescentOnExit
  BY DEF IInv, Stopped, QuiescentOnExit
<1> QED
  BY <1>1, Invariance, PTL

(* The guard that executeToolCalls marks unreachable is unreachable.        *)
THEOREM GroupsAlwaysCommit == Spec => []GroupCommitsStarted
<1>1. IInv => GroupCommitsStarted
  BY DEF IInv
<1> QED
  BY <1>1, Invariance, PTL

(* The turn is concluded by logged results and nothing else.                *)
THEOREM AlwaysConcludedFaithful == Spec => []ConcludedFaithful
<1>1. IInv => ConcludedFaithful
  BY DEF IInv
<1> QED
  BY <1>1, Invariance, PTL

(* The pool is never overfull and an exclusive call is always alone.        *)
THEOREM PoolAlwaysDisciplined == Spec => []PoolDiscipline
<1>1. PoolBound /\ ExclusiveBarrier => PoolDiscipline
  BY DEF PoolDiscipline
<1> QED
  BY <1>1, PoolAlwaysBounded, ExclusiveAlwaysAlone, PTL

(* Order, pairing and conclusion of the logged calls together.              *)
THEOREM CommitsAlwaysDisciplined == Spec => []CommitDiscipline
<1>1. ModelOrder /\ CompleteOnExit /\ GroupCommitsStarted /\ ConcludedFaithful
        => CommitDiscipline
  BY DEF CommitDiscipline
<1> QED
  BY <1>1, AlwaysModelOrder, AlwaysComplete, GroupsAlwaysCommit,
     AlwaysConcludedFaithful, PTL

(* A failed or cancelled batch abandons no body and invents no result.      *)
THEOREM FailureAlwaysContained == Spec => []FailureIsContained
<1>1. FailureFabricatesNothing /\ QuiescentOnExit => FailureIsContained
  BY DEF FailureIsContained
<1> QED
  BY <1>1, NeverFabricates, AlwaysQuiescent, PTL

(* Whichever way a batch ends, its log is in order, complete and true.      *)
THEOREM LogIsAlwaysTrue == Spec => []LogIsTrue
<1>1. CommitDiscipline /\ FailureIsContained => LogIsTrue
  BY DEF LogIsTrue
<1> QED
  BY <1>1, CommitsAlwaysDisciplined, FailureAlwaysContained, PTL

(* Under an aborted signal nothing is started or dispatched.                *)
THEOREM NeverStartsAborted == Spec => NoStartAfterAbort
<1>1. ASSUME [Next]_vars, signal
      PROVE  running' \subseteq running /\ started' = started
  <2>1. CASE \E outcome \in {"dispatch", "post-result", "final-result", "reject"} : Prepared(outcome)
    BY <1>1, <2>1 DEF Prepared
  <2>2. CASE Classify \/ GroupEnds
    BY <1>1, <2>2 DEF Classify, GroupEnds, SkipRemaining
  <2>3. ~Fill
    BY <1>1 DEF Fill, CanStart
  <2> QED
    BY <1>1, <2>1, <2>2, <2>3
    DEF Next, Scheduler, AllConsumed, CommitNext, CommitThrows, CommitDone, AwaitRace,
        Race, Drain, Bodies, Settle, Abort, Reclassify, vars
<1>2. [Next]_vars => [signal => running' \subseteq running /\ started' = started]_vars
  BY <1>1
<1> QED
  BY <1>2, PTL DEF Spec, NoStartAfterAbort

=============================================================================
