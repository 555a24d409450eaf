------------------------ MODULE SessionRepair_proofs ------------------------
(***************************************************************************)
(* What TLAPS proves of the session log and its repair, for any call ids   *)
(* and any bounds on turns, steps and crashes.                             *)
(*                                                                         *)
(* The two folds that read a log, the relational invariant's and the       *)
(* repair's, are functions defined over its positions; Induct carries a    *)
(* fact along them.  Fits says which events the loop and the repair append *)
(* to a log, in terms of the two folds.  A log is Legal when every event   *)
(* fits what comes before it, and so is every prefix of a legal log, which *)
(* is all that a crash can leave.  Sound is what then holds of the log: it *)
(* is proved once, event by event (LegalSound), and the properties of the  *)
(* run are read off it.  What is left for the state machine is that the    *)
(* driver knows where in the log it is (DriverAt), so that it appends      *)
(* events that fit, and that what was acted upon is durable (ExposedAt).   *)
(***************************************************************************)
EXTENDS SessionRepair, SequenceTheorems, FiniteSetTheorems, WellFoundedInduction, TLAPS

-----------------------------------------------------------------------------
(* Induction over a bounded range, and the folds over a log. *)

\* A set that has 0, and k with k - 1, has the whole range.
LEMMA Induct ==
  ASSUME NEW n \in Nat, NEW T, 0 \in T, \A k \in 1..n : k - 1 \in T => k \in T
  PROVE  \A k \in 0..n : k \in T
<1> DEFINE R == {p \in Nat \X Nat : p[1] < p[2]}
           B == {k \in 0..n : k \notin T}
<1>1. IsWellFoundedOn(OpToRel(<, Nat), Nat)
  BY NatLessThanWellFounded
<1>2. OpToRel(<, Nat) = R
  BY DEF OpToRel
<1>3. SUFFICES ASSUME B # {} PROVE FALSE
  OBVIOUS
<1>4. PICK x \in B : \A y \in B : ~ (<<y, x>> \in R)
  <2>1. B \subseteq Nat
    OBVIOUS
  <2> HIDE DEF B, R
  <2> QED
    BY <1>1, <1>2, <1>3, <2>1, WFMin
<1>5. x # 0 /\ x \in 1..n /\ x - 1 \in 0..n /\ x - 1 < x
  OBVIOUS
<1>6. x - 1 \in T
  <2>1. SUFFICES ASSUME x - 1 \in B PROVE FALSE
    BY <1>5
  <2>2. <<x - 1, x>> \in R
    BY <1>5
  <2> HIDE DEF R, B
  <2> QED
    BY <1>4, <2>1, <2>2
<1> QED
  BY <1>5, <1>6

\* What the relational invariant makes of one more event.
NextTrace(a, e) == [Applied(a, e) EXCEPT !.ok = a.ok /\ ValidEvent(a, e)]

\* Its states along the first m events.
TracesTo(f, events, m) ==
    f = [n \in 0..m |-> IF n = 0 THEN FreshTrace ELSE NextTrace(f[n - 1], events[n])]

\* seedSession ends with the last of them.
LEMMA SeedIs ==
  ASSUME NEW events, NEW f, TracesTo(f, events, Len(events))
  PROVE  \E g : TracesTo(g, events, Len(events)) /\ SeedSession(events) = g[Len(events)]
<1> DEFINE g == CHOOSE g : TracesTo(g, events, Len(events))
<1>1. TracesTo(g, events, Len(events))
  OBVIOUS
<1>2. SeedSession(events) = g[Len(events)]
  BY DEF SeedSession, TracesTo, NextTrace
<1> QED
  BY <1>1, <1>2

\* There are such states for every log.
LEMMA TracesExist ==
  ASSUME NEW events, NEW len \in Nat
  PROVE  \E f : TracesTo(f, events, len)
<1> DEFINE T == {m \in 0..len : \E f : TracesTo(f, events, m)}
<1>1. 0 \in T
  <2> DEFINE f == [n \in 0..0 |-> FreshTrace]
  <2>1. TracesTo(f, events, 0)
    BY DEF TracesTo
  <2> QED
    BY <2>1
<1>2. ASSUME NEW m \in 1..len, m - 1 \in T
      PROVE  m \in T
  <2>1. PICK f : TracesTo(f, events, m - 1)
    BY <1>2
  <2> DEFINE g == [n \in 0..m |-> IF n = m THEN NextTrace(f[m - 1], events[m]) ELSE f[n]]
  <2>2. m \in Nat /\ m # 0 /\ m - 1 \in 0..m
    OBVIOUS
  <2>3. \A n \in 0..(m - 1) : g[n] = f[n]
    OBVIOUS
  <2>4. g[m] = NextTrace(f[m - 1], events[m])
    OBVIOUS
  <2> HIDE DEF g
  <2>5. ASSUME NEW n \in 0..m
        PROVE  g[n] = IF n = 0 THEN FreshTrace ELSE NextTrace(g[n - 1], events[n])
    <3>1. CASE n = m
      BY <2>2, <2>3, <2>4, <3>1
    <3>2. CASE n \in 0..(m - 1)
      BY <2>1, <2>3, <3>2 DEF TracesTo
    <3> QED
      BY <3>1, <3>2
  <2>6. g = [n \in 0..m |-> IF n = 0 THEN FreshTrace ELSE NextTrace(g[n - 1], events[n])]
    <3>1. g = [n \in 0..m |-> g[n]]
      BY DEF g
    <3> QED
      BY <2>5, <3>1
  <2>7. TracesTo(g, events, m)
    BY <2>6 DEF TracesTo
  <2> QED
    BY <1>2, <2>7
<1>3. \A m \in 0..len : m \in T
  <2> HIDE DEF T
  <2> QED
    BY <1>1, <1>2, Induct
<1> QED
  BY <1>3

\* Two logs with the same events have the same states as far as they go.
LEMMA TracesAgree ==
  ASSUME NEW m \in Nat, NEW k \in 0..m, NEW c, NEW d, NEW f, NEW g,
         TracesTo(f, c, k), TracesTo(g, d, m), \A n \in 1..k : c[n] = d[n]
  PROVE  f[k] = g[k]
<1> DEFINE T == {n \in 0..k : f[n] = g[n]}
<1>1. 0 \in T
  BY DEF TracesTo
<1>2. ASSUME NEW n \in 1..k, n - 1 \in T
      PROVE  n \in T
  <2>1. n \in 0..k /\ n \in 0..m /\ n # 0
    OBVIOUS
  <2>2. f[n] = NextTrace(f[n - 1], c[n]) /\ g[n] = NextTrace(g[n - 1], d[n])
    BY <2>1 DEF TracesTo
  <2> QED
    BY <1>2, <2>1, <2>2
<1>3. \A n \in 0..k : n \in T
  <2> HIDE DEF T
  <2> QED
    BY <1>1, <1>2, Induct
<1> QED
  BY <1>3

\* The relational invariant of an empty log.
LEMMA SeedEmpty == SeedSession(<<>>) = FreshTrace
<1>1. PICK f : TracesTo(f, <<>>, Len(<<>>))
  BY TracesExist
<1>2. PICK g : TracesTo(g, <<>>, Len(<<>>)) /\ SeedSession(<<>>) = g[Len(<<>>)]
  BY <1>1, SeedIs
<1> QED
  BY <1>2 DEF TracesTo

\* Each event takes it one step further.
LEMMA SeedAppend ==
  ASSUME NEW S, NEW events \in Seq(S), NEW e \in S
  PROVE  SeedSession(Append(events, e)) = NextTrace(SeedSession(events), e)
<1> DEFINE more == Append(events, e)
           n == Len(events)
<1>1. /\ n \in Nat /\ Len(more) = n + 1 /\ more[n + 1] = e
      /\ \A k \in 1..n : events[k] = more[k]
  OBVIOUS
<1> HIDE DEF more, n
<1>2. PICK g : TracesTo(g, events, n) /\ SeedSession(events) = g[n]
  BY <1>1, TracesExist, SeedIs DEF n
<1>3. PICK h : TracesTo(h, more, n + 1) /\ SeedSession(more) = h[n + 1]
  <2>1. Len(more) \in Nat
    BY <1>1
  <2>2. PICK f : TracesTo(f, more, Len(more))
    BY <2>1, TracesExist
  <2>3. PICK h : TracesTo(h, more, Len(more)) /\ SeedSession(more) = h[Len(more)]
    BY <2>2, SeedIs
  <2> QED
    BY <1>1, <2>3
<1>4. h[n] = g[n]
  BY <1>1, <1>2, <1>3, TracesAgree
<1>5. n + 1 \in 0..(n + 1) /\ n + 1 # 0 /\ (n + 1) - 1 = n
  BY <1>1
<1>6. h[n + 1] = NextTrace(h[n], more[n + 1])
  BY <1>3, <1>5 DEF TracesTo
<1> QED
  BY <1>1, <1>2, <1>3, <1>4, <1>6 DEF more

\* The states of the repair's scan along the first m events.
ScansTo(f, events, m) ==
    f = [n \in 0..m |-> IF n = 0 THEN NoPending ELSE Scanned(f[n - 1], events[n], n)]

\* interruptedTurnClosers ends with the last of them.
LEMMA ScanIs ==
  ASSUME NEW events, NEW f, ScansTo(f, events, Len(events))
  PROVE  \E g : ScansTo(g, events, Len(events)) /\ Scan(events) = g[Len(events)]
<1> DEFINE g == CHOOSE g : ScansTo(g, events, Len(events))
<1>1. ScansTo(g, events, Len(events))
  OBVIOUS
<1>2. Scan(events) = g[Len(events)]
  BY DEF Scan, ScansTo
<1> QED
  BY <1>1, <1>2

\* There are such states for every log.
LEMMA ScansExist ==
  ASSUME NEW events, NEW len \in Nat
  PROVE  \E f : ScansTo(f, events, len)
<1> DEFINE T == {m \in 0..len : \E f : ScansTo(f, events, m)}
<1>1. 0 \in T
  <2> DEFINE f == [n \in 0..0 |-> NoPending]
  <2>1. ScansTo(f, events, 0)
    BY DEF ScansTo
  <2> QED
    BY <2>1
<1>2. ASSUME NEW m \in 1..len, m - 1 \in T
      PROVE  m \in T
  <2>1. PICK f : ScansTo(f, events, m - 1)
    BY <1>2
  <2> DEFINE g == [n \in 0..m |-> IF n = m THEN Scanned(f[m - 1], events[m], m) ELSE f[n]]
  <2>2. m \in Nat /\ m # 0 /\ m - 1 \in 0..m
    OBVIOUS
  <2>3. \A n \in 0..(m - 1) : g[n] = f[n]
    OBVIOUS
  <2>4. g[m] = Scanned(f[m - 1], events[m], m)
    OBVIOUS
  <2> HIDE DEF g
  <2>5. ASSUME NEW n \in 0..m
        PROVE  g[n] = IF n = 0 THEN NoPending ELSE Scanned(g[n - 1], events[n], n)
    <3>1. CASE n = m
      BY <2>2, <2>3, <2>4, <3>1
    <3>2. CASE n \in 0..(m - 1)
      BY <2>1, <2>3, <3>2 DEF ScansTo
    <3> QED
      BY <3>1, <3>2
  <2>6. g = [n \in 0..m |-> IF n = 0 THEN NoPending ELSE Scanned(g[n - 1], events[n], n)]
    <3>1. g = [n \in 0..m |-> g[n]]
      BY DEF g
    <3> QED
      BY <2>5, <3>1
  <2>7. ScansTo(g, events, m)
    BY <2>6 DEF ScansTo
  <2> QED
    BY <1>2, <2>7
<1>3. \A m \in 0..len : m \in T
  <2> HIDE DEF T
  <2> QED
    BY <1>1, <1>2, Induct
<1> QED
  BY <1>3

\* Two logs with the same events have the same states as far as they go.
LEMMA ScansAgree ==
  ASSUME NEW m \in Nat, NEW k \in 0..m, NEW c, NEW d, NEW f, NEW g,
         ScansTo(f, c, k), ScansTo(g, d, m), \A n \in 1..k : c[n] = d[n]
  PROVE  f[k] = g[k]
<1> DEFINE T == {n \in 0..k : f[n] = g[n]}
<1>1. 0 \in T
  BY DEF ScansTo
<1>2. ASSUME NEW n \in 1..k, n - 1 \in T
      PROVE  n \in T
  <2>1. n \in 0..k /\ n \in 0..m /\ n # 0
    OBVIOUS
  <2>2. f[n] = Scanned(f[n - 1], c[n], n) /\ g[n] = Scanned(g[n - 1], d[n], n)
    BY <2>1 DEF ScansTo
  <2> QED
    BY <1>2, <2>1, <2>2
<1>3. \A n \in 0..k : n \in T
  <2> HIDE DEF T
  <2> QED
    BY <1>1, <1>2, Induct
<1> QED
  BY <1>3

\* The scan of an empty log.
LEMMA ScanEmpty == Scan(<<>>) = NoPending
<1>1. PICK f : ScansTo(f, <<>>, Len(<<>>))
  BY ScansExist
<1>2. PICK g : ScansTo(g, <<>>, Len(<<>>)) /\ Scan(<<>>) = g[Len(<<>>)]
  BY <1>1, ScanIs
<1> QED
  BY <1>2 DEF ScansTo

\* Each event takes the scan one step further.
LEMMA ScanAppend ==
  ASSUME NEW S, NEW events \in Seq(S), NEW e \in S
  PROVE  Scan(Append(events, e)) = Scanned(Scan(events), e, Len(events) + 1)
<1> DEFINE more == Append(events, e)
           n == Len(events)
<1>1. /\ n \in Nat /\ Len(more) = n + 1 /\ more[n + 1] = e
      /\ \A k \in 1..n : events[k] = more[k]
  OBVIOUS
<1> HIDE DEF more, n
<1>2. PICK g : ScansTo(g, events, n) /\ Scan(events) = g[n]
  BY <1>1, ScansExist, ScanIs DEF n
<1>3. PICK h : ScansTo(h, more, n + 1) /\ Scan(more) = h[n + 1]
  <2>1. Len(more) \in Nat
    BY <1>1
  <2>2. PICK f : ScansTo(f, more, Len(more))
    BY <2>1, ScansExist
  <2>3. PICK h : ScansTo(h, more, Len(more)) /\ Scan(more) = h[Len(more)]
    BY <2>2, ScanIs
  <2> QED
    BY <1>1, <2>3
<1>4. h[n] = g[n]
  BY <1>1, <1>2, <1>3, ScansAgree
<1>5. n + 1 \in 0..(n + 1) /\ n + 1 # 0 /\ (n + 1) - 1 = n
  BY <1>1
<1>6. h[n + 1] = Scanned(h[n], more[n + 1], n + 1)
  BY <1>3, <1>5 DEF ScansTo
<1> QED
  BY <1>1, <1>2, <1>3, <1>4, <1>6 DEF more, n

-----------------------------------------------------------------------------
(* Events, and the states of the two folds. *)

Turns == 1..MaxTurns
Steps == 1..MaxSteps

\* What a log is made of.
Event ==
    [type : {"turn/start", "turn/end"}, turn : Turns]
    \cup [type : {"step/start", "assistant/chunk"}, turn : Turns, step : Steps]
    \cup [type : {"assistant/message"}, turn : Turns, step : Steps, calls : Messages]
    \cup [type : {"tool/call"}, turn : Turns, step : Steps, call : CallId]
    \cup [type : {"tool/result"}, turn : Turns, step : Steps, call : CallId,
          how : {"outcome", "skipped", "TOOL_NOT_STARTED", "TOOL_OUTCOME_UNKNOWN"},
          surfaceOp : {"append", "replace"}, cites : Nat]
    \cup [type : {"step/end"}, turn : Turns, step : Steps, failed : BOOLEAN]
    \cup [type : {"request/header", "session/end-seed"}]

\* The state of the relational invariant.
TraceState ==
    [openTurn : 0..MaxTurns, openStep : 0..MaxSteps, nextTurn : Nat \ {0},
     nextStep : Nat \ {0}, pendingCalls : SUBSET CallId, ok : BOOLEAN]

\* An open call of the repair, and its state.
Pending == [call : CallId, step : Steps, callSeq : Nat]
ScanState == [openTurn : 0..MaxTurns, openStep : 0..MaxSteps, pendingCalls : Seq(Pending)]

\* Every event has the fields of its type.
LEMMA EventIs ==
  ASSUME NEW e \in Event
  PROVE  /\ e.type \in {"turn/start", "turn/end", "step/start", "assistant/chunk",
                        "assistant/message", "tool/call", "tool/result", "step/end",
                        "request/header", "session/end-seed"}
         /\ e.type \notin {"request/header", "session/end-seed"} => e.turn \in Turns
         /\ e.type \notin {"turn/start", "turn/end", "request/header", "session/end-seed"}
                => e.step \in Steps
         /\ e.type = "assistant/message" => e.calls \in Messages
         /\ e.type \in {"tool/call", "tool/result"} => e.call \in CallId
         /\ e.type = "tool/result" =>
                /\ e.how \in {"outcome", "skipped", "TOOL_NOT_STARTED",
                              "TOOL_OUTCOME_UNKNOWN"}
                /\ e.surfaceOp \in {"append", "replace"} /\ e.cites \in Nat
         /\ e.type = "tool/call" => e = ToolCall(e.turn, e.step, e.call)
         /\ e.type = "step/end" =>
                e.failed \in BOOLEAN /\ e = StepEnd(e.turn, e.step, e.failed)
BY DEF Event, ToolCall, StepEnd

\* Without is the last of what is kept along the sequence.
LEMMA WithoutIs ==
  ASSUME NEW pending, NEW ids, NEW f,
         f = [n \in 0..Len(pending) |->
                IF n = 0 THEN <<>>
                ELSE IF pending[n].call \in ids THEN f[n - 1]
                ELSE Append(f[n - 1], pending[n])]
  PROVE  \E g : /\ g = [n \in 0..Len(pending) |->
                          IF n = 0 THEN <<>>
                          ELSE IF pending[n].call \in ids THEN g[n - 1]
                          ELSE Append(g[n - 1], pending[n])]
                /\ Without(pending, ids) = g[Len(pending)]
<1> DEFINE Is(g) == g = [n \in 0..Len(pending) |->
                          IF n = 0 THEN <<>>
                          ELSE IF pending[n].call \in ids THEN g[n - 1]
                          ELSE Append(g[n - 1], pending[n])]
           w == CHOOSE g : Is(g)
<1>1. Is(w)
  OBVIOUS
<1>2. Without(pending, ids) = w[Len(pending)]
  BY DEF Without
<1> QED
  BY <1>1, <1>2

\* Nothing is left of nothing.
LEMMA WithoutNothing ==
  ASSUME NEW ids
  PROVE  Without(<<>>, ids) = <<>>
<1> DEFINE f == [n \in 0..0 |-> <<>>]
<1>1. f = [n \in 0..Len(<<>>) |->
                IF n = 0 THEN <<>>
                ELSE IF <<>>[n].call \in ids THEN f[n - 1]
                ELSE Append(f[n - 1], <<>>[n])]
  OBVIOUS
<1> HIDE DEF f
<1>2. PICK g : /\ g = [n \in 0..Len(<<>>) |->
                          IF n = 0 THEN <<>>
                          ELSE IF <<>>[n].call \in ids THEN g[n - 1]
                          ELSE Append(g[n - 1], <<>>[n])]
                /\ Without(<<>>, ids) = g[Len(<<>>)]
  BY <1>1, WithoutIs
<1>3. g[0] = <<>>
  BY <1>2
<1> QED
  BY <1>2, <1>3

\* Without its first call, a sequence that has it once is its tail.
LEMMA WithoutFirst ==
  ASSUME NEW S, NEW s \in Seq(S), s # <<>>,
         \A i \in 2..Len(s) : s[i].call # s[1].call
  PROVE  Without(s, {s[1].call}) = Tail(s)
<1> DEFINE ids == {s[1].call}
           m == Len(s)
           f == [n \in 0..m |-> IF n = 0 THEN <<>> ELSE SubSeq(s, 2, n)]
<1>0. m \in Nat /\ m >= 1 /\ s[1].call \in ids /\ \A i \in 2..m : s[i].call \notin ids
  OBVIOUS
<1>1. ASSUME NEW n \in 0..m
      PROVE  f[n] = IF n = 0 THEN <<>>
                    ELSE IF s[n].call \in ids THEN f[n - 1]
                    ELSE Append(f[n - 1], s[n])
  <2>1. CASE n = 0
    BY <2>1
  <2>2. CASE n = 1
    BY <1>0, <2>2
  <2>3. CASE n \in 2..m
    <3>1. f[n] = SubSeq(s, 2, n) /\ f[n - 1] = SubSeq(s, 2, n - 1) /\ s[n].call \notin ids
      BY <1>0, <2>3
    <3>2. SubSeq(s, 2, n) = Append(SubSeq(s, 2, n - 1), s[n])
      BY <2>3
    <3> QED
      BY <2>3, <3>1, <3>2
  <2> QED
    BY <1>0, <2>1, <2>2, <2>3
<1>2. f = [n \in 0..m |-> f[n]]
  OBVIOUS
<1>3. f[m] = Tail(s)
  BY <1>0
<1> HIDE DEF f, ids, m
<1>4. f = [n \in 0..m |-> IF n = 0 THEN <<>>
                    ELSE IF s[n].call \in ids THEN f[n - 1]
                    ELSE Append(f[n - 1], s[n])]
  BY <1>1, <1>2
<1>5. PICK g : /\ g = [n \in 0..m |-> IF n = 0 THEN <<>>
                    ELSE IF s[n].call \in ids THEN g[n - 1]
                    ELSE Append(g[n - 1], s[n])]
               /\ Without(s, ids) = g[m]
  BY <1>4, WithoutIs DEF m
<1>6. \A n \in 0..m : f[n] = g[n]
  <2> DEFINE T == {n \in 0..m : f[n] = g[n]}
  <2>1. 0 \in T
    BY <1>0, <1>4, <1>5
  <2>2. ASSUME NEW n \in 1..m, n - 1 \in T
        PROVE  n \in T
    <3>1. n \in 0..m /\ n # 0 /\ f[n - 1] = g[n - 1]
      BY <2>2
    <3>2. f[n] = IF s[n].call \in ids THEN f[n - 1] ELSE Append(f[n - 1], s[n])
      BY <1>4, <3>1
    <3>3. g[n] = IF s[n].call \in ids THEN g[n - 1] ELSE Append(g[n - 1], s[n])
      BY <1>5, <3>1
    <3> QED
      BY <3>1, <3>2, <3>3
  <2>3. \A n \in 0..m : n \in T
    <3> HIDE DEF T
    <3> QED
      BY <1>0, <2>1, <2>2, Induct
  <2> QED
    BY <2>3
<1>7. m \in 0..m
  BY <1>0
<1>8. Without(s, ids) = Tail(s)
  BY <1>3, <1>5, <1>6, <1>7
<1> QED
  BY <1>8 DEF ids

\* Without calls that it does not have, a sequence is what it was.
LEMMA WithoutNone ==
  ASSUME NEW S, NEW s \in Seq(S), NEW ids, \A i \in 1..Len(s) : s[i].call \notin ids
  PROVE  Without(s, ids) = s
<1> DEFINE m == Len(s)
           f == [n \in 0..m |-> IF n = 0 THEN <<>> ELSE SubSeq(s, 1, n)]
<1>0. m \in Nat /\ \A i \in 1..m : s[i].call \notin ids
  OBVIOUS
<1>1. ASSUME NEW n \in 0..m
      PROVE  f[n] = IF n = 0 THEN <<>>
                    ELSE IF s[n].call \in ids THEN f[n - 1]
                    ELSE Append(f[n - 1], s[n])
  <2>1. CASE n = 0
    BY <2>1
  <2>2. CASE n = 1
    <3>1. f[n] = SubSeq(s, 1, 1) /\ f[n - 1] = <<>> /\ s[n].call \notin ids
      BY <1>0, <2>2
    <3>2. SubSeq(s, 1, 1) = Append(<<>>, s[1])
      <4>1. 1 \in 1..Len(s) /\ s[1] \in S
        BY <1>1, <2>2
      <4>2. PICK x, y : x = SubSeq(s, 1, 1) /\ y = Append(<<>>, s[1])
        OBVIOUS
      <4>3. x \in Seq(S) /\ Len(x) = 1 /\ x[1] = s[1]
        <5>1. \A i \in 1..1 : s[i] \in S
          BY <4>1
        <5>2. /\ SubSeq(s, 1, 1) \in Seq(S) /\ Len(SubSeq(s, 1, 1)) = 1
              /\ \A i \in 1..1 : SubSeq(s, 1, 1)[i] = s[1 + i - 1]
          BY <5>1, SubSeqProperties
        <5> QED
          BY <4>2, <5>2
      <4>4. y \in Seq(S) /\ Len(y) = 1 /\ y[1] = s[1]
        <5>1. <<>> \in Seq(S) /\ Len(<<>>) = 0
          BY EmptySeq
        <5>2. /\ Append(<<>>, s[1]) \in Seq(S) /\ Len(Append(<<>>, s[1])) = Len(<<>>) + 1
              /\ Append(<<>>, s[1])[Len(<<>>) + 1] = s[1]
          BY <4>1, <5>1, AppendProperties
        <5> QED
          BY <4>2, <5>1, <5>2
      <4>5. x = y
        BY <4>3, <4>4, SeqEqual
      <4> QED
        BY <4>2, <4>5
    <3> QED
      BY <2>2, <3>1, <3>2
  <2>3. CASE n \in 2..m
    <3>1. f[n] = SubSeq(s, 1, n) /\ f[n - 1] = SubSeq(s, 1, n - 1) /\ s[n].call \notin ids
      BY <1>0, <2>3
    <3>2. SubSeq(s, 1, n) = Append(SubSeq(s, 1, n - 1), s[n])
      BY <2>3
    <3> QED
      BY <2>3, <3>1, <3>2
  <2> QED
    BY <1>0, <2>1, <2>2, <2>3
<1>2. f = [n \in 0..m |-> f[n]]
  OBVIOUS
<1>3. f[m] = s
  BY <1>0
<1> HIDE DEF f, m
<1>4. f = [n \in 0..m |-> IF n = 0 THEN <<>>
                    ELSE IF s[n].call \in ids THEN f[n - 1]
                    ELSE Append(f[n - 1], s[n])]
  BY <1>1, <1>2
<1>5. PICK g : /\ g = [n \in 0..m |-> IF n = 0 THEN <<>>
                    ELSE IF s[n].call \in ids THEN g[n - 1]
                    ELSE Append(g[n - 1], s[n])]
               /\ Without(s, ids) = g[m]
  BY <1>4, WithoutIs DEF m
<1>6. \A n \in 0..m : f[n] = g[n]
  <2> DEFINE T == {n \in 0..m : f[n] = g[n]}
  <2>1. 0 \in T
    BY <1>0, <1>4, <1>5
  <2>2. ASSUME NEW n \in 1..m, n - 1 \in T
        PROVE  n \in T
    <3>1. n \in 0..m /\ n # 0 /\ f[n - 1] = g[n - 1]
      BY <2>2
    <3>2. f[n] = IF s[n].call \in ids THEN f[n - 1] ELSE Append(f[n - 1], s[n])
      BY <1>4, <3>1
    <3>3. g[n] = IF s[n].call \in ids THEN g[n - 1] ELSE Append(g[n - 1], s[n])
      BY <1>5, <3>1
    <3> QED
      BY <3>1, <3>2, <3>3
  <2>3. \A n \in 0..m : n \in T
    <3> HIDE DEF T
    <3> QED
      BY <1>0, <2>1, <2>2, Induct
  <2> QED
    BY <2>3
<1>7. m \in 0..m
  BY <1>0
<1> QED
  BY <1>3, <1>5, <1>6, <1>7

-----------------------------------------------------------------------------
(* One step of each fold. *)

\* The relational invariant, type by type.
LEMMA AppliedIs ==
  ASSUME NEW a, NEW e
  PROVE  /\ e.type = "turn/start" =>
                Applied(a, e) = [a EXCEPT !.openTurn = e.turn, !.nextStep = 1]
         /\ e.type = "turn/end" =>
                Applied(a, e) = [a EXCEPT !.openTurn = 0, !.nextTurn = a.nextTurn + 1]
         /\ e.type = "step/start" => Applied(a, e) = [a EXCEPT !.openStep = e.step]
         /\ e.type = "step/end" =>
                Applied(a, e) = [a EXCEPT !.openStep = 0, !.nextStep = a.nextStep + 1,
                                          !.pendingCalls = {}]
         /\ e.type = "tool/call" =>
                Applied(a, e) = [a EXCEPT !.pendingCalls = a.pendingCalls \cup {e.call}]
         /\ IsResult(e) =>
                Applied(a, e) = [a EXCEPT !.pendingCalls = a.pendingCalls \ {e.call}]
         /\ IsReplacement(e) \/ e.type \in {"assistant/chunk", "assistant/message",
                                            "request/header", "session/end-seed"} =>
                Applied(a, e) = a
<1>1. ASSUME e.type = "turn/start"
      PROVE  Applied(a, e) = [a EXCEPT !.openTurn = e.turn, !.nextStep = 1]
  BY <1>1 DEF Applied, IsResult
<1>2. ASSUME e.type = "turn/end"
      PROVE  Applied(a, e) = [a EXCEPT !.openTurn = 0, !.nextTurn = a.nextTurn + 1]
  BY <1>2 DEF Applied, IsResult
<1>3. ASSUME e.type = "step/start" PROVE Applied(a, e) = [a EXCEPT !.openStep = e.step]
  BY <1>3 DEF Applied, IsResult
<1>4. ASSUME e.type = "step/end"
      PROVE  Applied(a, e) = [a EXCEPT !.openStep = 0, !.nextStep = a.nextStep + 1,
                                       !.pendingCalls = {}]
  BY <1>4 DEF Applied, IsResult
<1>5. ASSUME e.type = "tool/call"
      PROVE  Applied(a, e) = [a EXCEPT !.pendingCalls = a.pendingCalls \cup {e.call}]
  BY <1>5 DEF Applied, IsResult
<1>6. ASSUME IsResult(e)
      PROVE  Applied(a, e) = [a EXCEPT !.pendingCalls = a.pendingCalls \ {e.call}]
  BY <1>6 DEF Applied, IsResult
<1>7. ASSUME IsReplacement(e) \/ e.type \in {"assistant/chunk", "assistant/message",
                                            "request/header", "session/end-seed"}
      PROVE  Applied(a, e) = a
  BY <1>7 DEF Applied, IsResult, IsReplacement
<1> QED
  BY <1>1, <1>2, <1>3, <1>4, <1>5, <1>6, <1>7

\* It has the fields of a state, whatever the event.
LEMMA NextTraceIs ==
  ASSUME NEW a \in TraceState, NEW e \in Event
  PROVE  /\ NextTrace(a, e).openTurn = Applied(a, e).openTurn
         /\ NextTrace(a, e).openStep = Applied(a, e).openStep
         /\ NextTrace(a, e).nextTurn = Applied(a, e).nextTurn
         /\ NextTrace(a, e).nextStep = Applied(a, e).nextStep
         /\ NextTrace(a, e).pendingCalls = Applied(a, e).pendingCalls
         /\ NextTrace(a, e).ok = (a.ok /\ ValidEvent(a, e))
         /\ NextTrace(a, e) \in [openTurn : {Applied(a, e).openTurn},
                openStep : {Applied(a, e).openStep}, nextTurn : {Applied(a, e).nextTurn},
                nextStep : {Applied(a, e).nextStep},
                pendingCalls : {Applied(a, e).pendingCalls},
                ok : {a.ok /\ ValidEvent(a, e)}]
<1> DEFINE b == Applied(a, e)
<1>1. b = [openTurn |-> b.openTurn, openStep |-> b.openStep, nextTurn |-> b.nextTurn,
           nextStep |-> b.nextStep, pendingCalls |-> b.pendingCalls, ok |-> b.ok]
  <2>1. a = [openTurn |-> a.openTurn, openStep |-> a.openStep, nextTurn |-> a.nextTurn,
             nextStep |-> a.nextStep, pendingCalls |-> a.pendingCalls, ok |-> a.ok]
    BY DEF TraceState
  <2>2. CASE e.type = "turn/start"
    <3>1. b = [a EXCEPT !.openTurn = e.turn, !.nextStep = 1]
      BY <2>2, AppliedIs
    <3> HIDE DEF b
    <3> QED
      BY <3>1 DEF TraceState
  <2>3. CASE e.type = "turn/end"
    <3>1. b = [a EXCEPT !.openTurn = 0, !.nextTurn = a.nextTurn + 1]
      BY <2>3, AppliedIs
    <3> HIDE DEF b
    <3> QED
      BY <3>1 DEF TraceState
  <2>4. CASE e.type = "step/start"
    <3>1. b = [a EXCEPT !.openStep = e.step]
      BY <2>4, AppliedIs
    <3> HIDE DEF b
    <3> QED
      BY <3>1 DEF TraceState
  <2>5. CASE e.type = "step/end"
    <3>1. b = [a EXCEPT !.openStep = 0, !.nextStep = a.nextStep + 1,
                                   !.pendingCalls = {}]
      BY <2>5, AppliedIs
    <3> HIDE DEF b
    <3> QED
      BY <3>1 DEF TraceState
  <2>6. CASE e.type = "tool/call"
    <3>1. b = [a EXCEPT !.pendingCalls = a.pendingCalls \cup {e.call}]
      BY <2>6, AppliedIs
    <3> HIDE DEF b
    <3> QED
      BY <3>1 DEF TraceState
  <2>7. CASE IsResult(e)
    <3>1. b = [a EXCEPT !.pendingCalls = a.pendingCalls \ {e.call}]
      BY <2>7, AppliedIs
    <3> HIDE DEF b
    <3> QED
      BY <3>1 DEF TraceState
  <2>8. CASE IsReplacement(e) \/ e.type \in {"assistant/chunk", "assistant/message",
                                            "request/header", "session/end-seed"}
    BY <2>1, <2>8, AppliedIs
  <2> QED
    BY <2>2, <2>3, <2>4, <2>5, <2>6, <2>7, <2>8, EventIs DEF IsResult, IsReplacement
<1>2. NextTrace(a, e) = [b EXCEPT !.ok = a.ok /\ ValidEvent(a, e)]
  BY DEF NextTrace
<1> HIDE DEF b
<1> QED
  BY <1>1, <1>2 DEF b

-----------------------------------------------------------------------------
(* The last events of a kind. *)

\* A nonempty set of positions has a last one.
LEMMA MaxIs ==
  ASSUME NEW n \in Nat, NEW I, I \subseteq 1..n, I # {}
  PROVE  Max(I) \in I /\ \A x \in I : x <= Max(I)
<1> DEFINE T == {k \in 0..n : I \cap 1..k = {}
                    \/ \E x \in I : x <= k /\ \A y \in I \cap 1..k : y <= x}
<1>1. 0 \in T
  OBVIOUS
<1>2. ASSUME NEW k \in 1..n, k - 1 \in T
      PROVE  k \in T
  <2>1. CASE k \in I
    <3>1. \A y \in I \cap 1..k : y <= k
      OBVIOUS
    <3> QED
      BY <2>1, <3>1
  <2>2. CASE k \notin I
    <3>1. I \cap 1..k = I \cap 1..(k - 1)
      BY <2>2
    <3> QED
      BY <1>2, <3>1
  <2> QED
    BY <2>1, <2>2
<1>3. \A k \in 0..n : k \in T
  <2> HIDE DEF T
  <2> QED
    BY <1>1, <1>2, Induct
<1>4. n \in T
  BY <1>3
<1>5. I \cap 1..n = I
  OBVIOUS
<1>6. \E x \in I : \A y \in I : x >= y
  <2>1. PICK x \in I : x <= n /\ \A y \in I \cap 1..n : y <= x
    BY <1>4, <1>5
  <2>2. \A y \in I : x >= y
    BY <1>5, <2>1
  <2> QED
    BY <2>2
<1>7. Max(I) \in I /\ \A y \in I : Max(I) >= y
  <2> HIDE DEF T
  <2> QED
    BY <1>6 DEF Max
<1> QED
  BY <1>7

\* The last of what is there.
LEMMA MaxUnique ==
  ASSUME NEW n \in Nat, NEW I, I \subseteq 1..n, NEW x \in I, \A y \in I : y <= x
  PROVE  Max(I) = x
<1>1. Max(I) \in I /\ \A y \in I : y <= Max(I)
  BY MaxIs
<1>2. PICK z : z = Max(I) /\ z \in I /\ \A y \in I : y <= z
  BY <1>1
<1>3. z <= x /\ x <= z
  BY <1>2
<1>4. z \in 1..n /\ x \in 1..n
  BY <1>2
<1> QED
  BY <1>2, <1>3, <1>4

TurnStarts(l) == {i \in 1..Len(l) : l[i].type = "turn/start"}
Boundaries(l) == {i \in 1..Len(l) : l[i].type \in {"turn/start", "turn/end"}}

\* LastTurn and ForkAccepts by the positions they look at.
LEMMA LastTurnIs ==
  ASSUME NEW l
  PROVE  LastTurn(l) = IF TurnStarts(l) = {} THEN 0
                       ELSE IF Max(TurnStarts(l)) = 0 THEN 0 ELSE l[Max(TurnStarts(l))].turn
BY DEF LastTurn, SelectLastInSeq, TurnStarts

\* The same of the last turn boundary.
LEMMA ForkIs ==
  ASSUME NEW l \in Seq(Event)
  PROVE  ForkAccepts(l, Len(l)) <=>
            \/ Boundaries(l) = {}
            \/ Max(Boundaries(l)) = 0
            \/ l[Max(Boundaries(l))].type = "turn/end"
<1>1. SubSeq(l, 1, Len(l)) = l
  OBVIOUS
<1> QED
  BY <1>1 DEF ForkAccepts, SelectLastInSeq, Boundaries

\* An event is the last turn, or leaves it.
LEMMA LastTurnAppend ==
  ASSUME NEW l \in Seq(Event), NEW e \in Event
  PROVE  LastTurn(Append(l, e)) = IF e.type = "turn/start" THEN e.turn ELSE LastTurn(l)
<1> DEFINE m == Append(l, e)
           n == Len(l)
<1>1. /\ n \in Nat /\ Len(m) = n + 1 /\ m[n + 1] = e
      /\ \A k \in 1..n : m[k] = l[k]
  OBVIOUS
<1> HIDE DEF m
<1>2. CASE e.type = "turn/start"
  <2>1. n + 1 \in TurnStarts(m) /\ TurnStarts(m) \subseteq 1..(n + 1)
    BY <1>1, <1>2 DEF TurnStarts
  <2>2. Max(TurnStarts(m)) = n + 1
    BY <1>1, <2>1, MaxUnique
  <2>3. LastTurn(m) = m[n + 1].turn
    <3>1. n + 1 # 0 /\ TurnStarts(m) # {}
      BY <1>1, <2>1
    <3> QED
      BY <2>2, <3>1, LastTurnIs
  <2> QED
    BY <1>1, <1>2, <2>3 DEF m
<1>3. CASE e.type # "turn/start"
  <2>1. TurnStarts(m) = TurnStarts(l) /\ TurnStarts(l) \subseteq 1..n
    BY <1>1, <1>3 DEF TurnStarts
  <2>2. CASE TurnStarts(l) = {}
    BY <1>3, <2>1, <2>2, LastTurnIs DEF m
  <2>3. CASE TurnStarts(l) # {}
    <3>1. Max(TurnStarts(l)) \in 1..n
      BY <1>1, <2>1, <2>3, MaxIs
    <3>2. m[Max(TurnStarts(l))] = l[Max(TurnStarts(l))]
      BY <1>1, <3>1
    <3> QED
      BY <1>3, <2>1, <3>2, LastTurnIs DEF m
  <2> QED
    BY <2>2, <2>3
<1> QED
  BY <1>2, <1>3

\* A boundary decides on the fork, anything else leaves it.
LEMMA ForkAppend ==
  ASSUME NEW l \in Seq(Event), NEW e \in Event
  PROVE  ForkAccepts(Append(l, e), Len(Append(l, e))) <=>
            IF e.type \in {"turn/start", "turn/end"} THEN e.type = "turn/end"
            ELSE ForkAccepts(l, Len(l))
<1> DEFINE m == Append(l, e)
           n == Len(l)
<1>1. /\ n \in Nat /\ Len(m) = n + 1 /\ m[n + 1] = e /\ m \in Seq(Event)
      /\ \A k \in 1..n : m[k] = l[k]
  OBVIOUS
<1> HIDE DEF m
<1>2. CASE e.type \in {"turn/start", "turn/end"}
  <2>1. n + 1 \in Boundaries(m) /\ Boundaries(m) \subseteq 1..(n + 1)
    BY <1>1, <1>2 DEF Boundaries
  <2>2. Max(Boundaries(m)) = n + 1
    BY <1>1, <2>1, MaxUnique
  <2>3. ForkAccepts(m, Len(m)) <=> e.type = "turn/end"
    BY <1>1, <2>1, <2>2, ForkIs
  <2> QED
    BY <1>2, <2>3 DEF m
<1>3. CASE e.type \notin {"turn/start", "turn/end"}
  <2>1. Boundaries(m) = Boundaries(l) /\ Boundaries(l) \subseteq 1..n
    BY <1>1, <1>3 DEF Boundaries
  <2>2. CASE Boundaries(l) = {}
    BY <1>1, <1>3, <2>1, <2>2, ForkIs DEF m
  <2>3. CASE Boundaries(l) # {}
    <3>1. Max(Boundaries(l)) \in 1..n
      BY <1>1, <2>1, <2>3, MaxIs
    <3>2. m[Max(Boundaries(l))] = l[Max(Boundaries(l))]
      BY <1>1, <3>1
    <3>3. ForkAccepts(m, Len(m)) <=> ForkAccepts(l, Len(l))
      BY <1>1, <2>1, <3>1, <3>2, ForkIs
    <3> QED
      BY <1>3, <3>3 DEF m
  <2> QED
    BY <2>2, <2>3
<1> QED
  BY <1>2, <1>3

\* What an awaited flush makes durable.
LEMMA FlushedIs ==
  ASSUME NEW a \in Nat, NEW b \in Nat
  PROVE  Max({a, b}) = IF a <= b THEN b ELSE a
<1>1. \E x \in {a, b} : \A y \in {a, b} : x >= y
  OBVIOUS
<1>2. Max({a, b}) \in {a, b} /\ \A y \in {a, b} : Max({a, b}) >= y
  BY <1>1 DEF Max
<1> QED
  BY <1>2

-----------------------------------------------------------------------------
(* Legal logs: every event fits what comes before it. *)

Answered(l, t, s, c) ==
    \E j \in DOMAIN l : /\ IsResult(l[j])
                        /\ l[j].turn = t /\ l[j].step = s /\ l[j].call = c
Recorded(l, t, s, c) == \E j \in DOMAIN l : l[j] = ToolCall(t, s, c)
HasMessage(l, t, s) ==
    \E k \in DOMAIN l : /\ l[k].type = "assistant/message"
                        /\ l[k].turn = t /\ l[k].step = s

\* Events that belong to one step.
OfStep(e) ==
    e.type \in {"step/end", "assistant/chunk", "assistant/message", "tool/call"} \/ IsResult(e)

\* What the loop and the repair append: turns and steps are numbered and closed
\* in order, a step has one message, its calls are recorded once and answered in
\* the order of the message, and closed when all are answered or given up.
Fits(l, e) ==
    LET p == Scan(l)
        t == SeedSession(l)
    IN  /\ e \in Event
        /\ e.type = "turn/start" => p.openTurn = 0 /\ e.turn = t.nextTurn
        /\ e.type \in {"turn/end", "step/start"} => p.openTurn = e.turn /\ p.openStep = 0
        /\ e.type = "step/start" => e.step = t.nextStep
        /\ OfStep(e) => p.openTurn = e.turn /\ p.openStep = e.step
        /\ e.type = "step/end" => e.failed \/ p.pendingCalls = <<>>
        /\ e.type = "assistant/message" =>
              p.pendingCalls = <<>> /\ ~HasMessage(l, e.turn, e.step)
        /\ e.type = "tool/call" =>
              \E i \in DOMAIN p.pendingCalls :
                  p.pendingCalls[i].call = e.call /\ p.pendingCalls[i].callSeq = 0
        /\ IsResult(e) =>
              /\ p.pendingCalls # <<>>
              /\ e.call = p.pendingCalls[1].call /\ e.cites = p.pendingCalls[1].callSeq
              /\ e.how = "TOOL_NOT_STARTED" <=> e.cites = 0
        /\ IsReplacement(e) => p.openTurn # 0 /\ p.pendingCalls = <<>>
        /\ e.type = "request/header" => p.openTurn # 0

Legal(l) == \A k \in 1..Len(l) : Fits(SubSeq(l, 1, k - 1), l[k])

-----------------------------------------------------------------------------
(* What is true of a legal log, of the scan p and the trace t it ends with. *)

\* The two folds agree on what is open, and the numbers go on from it.
FoldsAgree(p, t) ==
    /\ p \in ScanState /\ t \in TraceState /\ t.ok
    /\ t.openTurn = p.openTurn /\ t.openStep = p.openStep
    /\ p.openTurn = 0 => p.openStep = 0
    /\ p.openStep = 0 => p.pendingCalls = <<>>
    /\ p.openTurn # 0 => p.openTurn = t.nextTurn
    /\ p.openStep # 0 => p.openStep = t.nextStep

\* So they do on the calls: the relational invariant has those recorded.
CallsAgree(p, t) ==
    /\ \A i, j \in DOMAIN p.pendingCalls :
          p.pendingCalls[i].call = p.pendingCalls[j].call => i = j
    /\ \A i \in DOMAIN p.pendingCalls : p.pendingCalls[i].step = p.openStep
    /\ \A c \in CallId :
          c \in t.pendingCalls <=>
              \E i \in DOMAIN p.pendingCalls :
                  p.pendingCalls[i].call = c /\ p.pendingCalls[i].callSeq # 0

\* An open call knows its record, and has no result.
CallsTrue(l, p) ==
    /\ p.pendingCalls # <<>> => HasMessage(l, p.openTurn, p.openStep)
    /\ \A i \in DOMAIN p.pendingCalls :
          LET q == p.pendingCalls[i]
          IN  /\ ~Answered(l, p.openTurn, p.openStep, q.call)
              /\ q.callSeq = 0 => ~Recorded(l, p.openTurn, p.openStep, q.call)
              /\ q.callSeq # 0 => /\ q.callSeq \in 1..Len(l)
                                  /\ l[q.callSeq] = ToolCall(p.openTurn, p.openStep, q.call)

Past(e, t) == e.turn < t.nextTurn \/ (e.turn = t.openTurn /\ e.step < t.nextStep)
Current(e, p) == e.turn = p.openTurn /\ e.step = p.openStep

\* An event of a step is of an earlier step or of the one that is open.  Calls
\* and results come after the message of their step.
Placed(l, p, t) ==
    \A k \in DOMAIN l :
        /\ OfStep(l[k]) => Past(l[k], t) \/ (Current(l[k], p) /\ l[k].type # "step/end")
        /\ l[k].type = "tool/call" \/ IsResult(l[k]) => HasMessage(l, l[k].turn, l[k].step)

\* A call of the open step is answered or still open, one of a closed step is
\* answered unless the scheduler failed in it.
AllAnswered(l, p) ==
    \A k \in DOMAIN l : l[k].type = "assistant/message" =>
        \A i \in DOMAIN l[k].calls :
            Answered(l, l[k].turn, l[k].step, l[k].calls[i])
            \/ /\ Current(l[k], p)
               /\ \E j \in DOMAIN p.pendingCalls : p.pendingCalls[j].call = l[k].calls[i]
            \/ /\ ~Current(l[k], p)
               /\ \A j \in DOMAIN l : l[j] # StepEnd(l[k].turn, l[k].step, FALSE)

\* No call is answered twice.
OneResult(l) ==
    \A j, k \in DOMAIN l :
        /\ IsResult(l[j]) /\ IsResult(l[k])
        /\ l[j].turn = l[k].turn /\ l[j].step = l[k].step /\ l[j].call = l[k].call
        => j = k

\* A result cites the record of its call.
Cites(l) ==
    \A k \in DOMAIN l : IsResult(l[k]) =>
        LET start == ToolCall(l[k].turn, l[k].step, l[k].call)
        IN  IF l[k].how = "TOOL_NOT_STARTED"
            THEN l[k].cites = 0 /\ ~Recorded(l, l[k].turn, l[k].step, l[k].call)
            ELSE l[k].cites \in 1..(k - 1) /\ l[l[k].cites] = start

\* The last boundary tells what is open.
Bounded(l, p, t) ==
    /\ LastTurn(l) = IF p.openTurn = 0 THEN t.nextTurn - 1 ELSE p.openTurn
    /\ ForkAccepts(l, Len(l)) <=> p.openTurn = 0

Sound(l) ==
    LET p == Scan(l)
        t == SeedSession(l)
    IN  /\ FoldsAgree(p, t) /\ CallsAgree(p, t) /\ CallsTrue(l, p) /\ Placed(l, p, t)
        /\ AllAnswered(l, p) /\ OneResult(l) /\ Cites(l) /\ Bounded(l, p, t)

-----------------------------------------------------------------------------
(* The inductive invariant. *)

Requesting == {"request", "checkpoint", "stream", "streamed"}
InStep == Requesting \cup {"tools", "closing", "throwing", "failing"}

\* The calls whose result is not committed, as the repair would find them.
Uncommitted ==
    [i \in 1..(Len(calls) - committed) |->
        [call |-> calls[committed + i], step |-> step,
         callSeq |-> IF committed + i <= Len(callSeqs) THEN callSeqs[committed + i] ELSE 0]]

\* The driver is where the log says.
DriverAt ==
    LET p == Scan(log)
        t == SeedSession(log)
    IN  /\ pc \in {"idle", "repairing"} => p.openTurn = 0
        /\ pc \in {"down", "repairing"} => step = 0
        /\ pc = "idle" => turn = t.nextTurn - 1
        /\ pc \in {"turn", "ending"} => turn # 0 /\ p.openTurn = turn /\ p.openStep = 0
        /\ pc = "turn" => step + 1 = t.nextStep
        /\ pc \in InStep => turn # 0 /\ p.openTurn = turn /\ step # 0 /\ p.openStep = step
        /\ pc \in Requesting \cup {"closing", "throwing"} => p.pendingCalls = <<>>
        /\ pc \in Requesting => ~HasMessage(log, turn, step)
        /\ pc = "tools" => p.pendingCalls = Uncommitted

CallsAt ==
    /\ calls \in Messages /\ callSeqs \in Seq(1..Len(log)) /\ committed \in Nat
    /\ committed <= Len(callSeqs) /\ Len(callSeqs) <= Len(calls)
    /\ dispatched \subseteq DOMAIN callSeqs
    /\ pc \in Requesting => callSeqs = <<>> /\ committed = 0
    /\ pc \in {"down", "repairing"} => callSeqs = <<>>

StepStarts(l) == {k \in DOMAIN l : l[k].type = "step/start"}
StepsCounted == step <= Cardinality(StepStarts(log))

\* What the outside acted on is durable.
ExposedAt ==
    /\ disk \in 0..Len(log)
    /\ pc = "down" => disk = Len(log)
    /\ exposed \in Seq(Event) /\ Len(exposed) <= disk
    /\ \A k \in 1..Len(exposed) : exposed[k] = log[k]

Types ==
    /\ log \in Seq(Event)
    /\ pc \in {"idle", "turn", "ending", "down", "repairing"} \cup InStep
    /\ turn \in 0..MaxTurns /\ step \in 0..MaxSteps
    /\ crashes \in 0..MaxCrashes

IInv == Types /\ Legal(log) /\ DriverAt /\ CallsAt /\ StepsCounted /\ ExposedAt

-----------------------------------------------------------------------------
(* What one fitting event makes of the two folds. *)

\* The scan of a message's calls, or of any open ones, is a sequence of those.
LEMMA RegisteredIs ==
  ASSUME NEW s \in Steps, NEW cs \in Messages
  PROVE  /\ Register(<<>>, s, cs) =
                [i \in 1..Len(cs) |-> [call |-> cs[i], step |-> s, callSeq |-> 0]]
         /\ Register(<<>>, s, cs) \in Seq(Pending)
         /\ cs \in Seq(CallId)
         /\ \A i, j \in 1..Len(cs) : cs[i] = cs[j] => i = j
<1>1. cs \in Seq(CallId) /\ \A i, j \in 1..Len(cs) : cs[i] = cs[j] => i = j
  <2>1. PICK n \in 0..Cardinality(CallId) : cs \in [1..n -> CallId]
    BY DEF Messages, SeqOf
  <2>2. n \in Nat
    BY <2>1, CallIdAssumption, FS_CardinalityType
  <2>3. \A i, j \in DOMAIN cs : cs[i] = cs[j] => i = j
    BY DEF Messages, IsInjective
  <2> QED
    BY <2>1, <2>2, <2>3
<1> DEFINE q == [i \in 1..Len(cs) |-> [call |-> cs[i], step |-> s, callSeq |-> 0]]
<1>2. q \in Seq(Pending)
  BY <1>1 DEF Pending
<1>3. Register(<<>>, s, cs) = <<>> \o q
  <2>1. DOMAIN cs = 1..Len(cs) /\ DOMAIN <<>> = {}
    BY <1>1
  <2>2. Without(q, {}) = q
    <3> HIDE DEF q
    <3> QED
      BY <1>2, WithoutNone
  <2>3. {<<>>[i].call : i \in DOMAIN <<>>} = {}
    BY <2>1
  <2>4. [i \in DOMAIN <<>> |-> IF Contains(cs, <<>>[i].call)
                               THEN [call |-> <<>>[i].call, step |-> s, callSeq |-> 0]
                               ELSE <<>>[i]] = <<>>
    BY <2>1
  <2> QED
    BY <2>1, <2>2, <2>3, <2>4 DEF Register
<1> HIDE DEF q
<1>4. <<>> \o q = q
  BY <1>2
<1> QED
  BY <1>1, <1>2, <1>3, <1>4 DEF q

\* How a fitting event moves a state of the scan.
LEMMA ScannedStep ==
  ASSUME NEW p \in ScanState, NEW e \in Event, NEW seq \in Nat,
         e.type = "assistant/message" => p.pendingCalls = <<>>,
         IsReplacement(e) => p.pendingCalls = <<>>,
         IsResult(e) => p.pendingCalls # <<>> /\ e.call = p.pendingCalls[1].call,
         \A i, j \in DOMAIN p.pendingCalls :
             p.pendingCalls[i].call = p.pendingCalls[j].call => i = j,
         NEW r, r = Scanned(p, e, seq)
  PROVE  /\ r \in ScanState
         /\ e.type = "turn/start" =>
                r.openTurn = e.turn /\ r.openStep = 0 /\ r.pendingCalls = <<>>
         /\ e.type = "turn/end" =>
                r.openTurn = 0 /\ r.openStep = 0 /\ r.pendingCalls = <<>>
         /\ e.type \notin {"turn/start", "turn/end"} => r.openTurn = p.openTurn
         /\ e.type = "step/start" => r.openStep = e.step /\ r.pendingCalls = p.pendingCalls
         /\ e.type = "step/end" => r.openStep = 0 /\ r.pendingCalls = <<>>
         /\ e.type \notin {"turn/start", "turn/end", "step/start", "step/end"} =>
                r.openStep = p.openStep
         /\ e.type = "assistant/message" =>
                /\ Len(r.pendingCalls) = Len(e.calls)
                /\ \A i \in 1..Len(e.calls) :
                       r.pendingCalls[i] = [call |-> e.calls[i], step |-> e.step, callSeq |-> 0]
         /\ e.type = "tool/call" =>
                /\ Len(r.pendingCalls) = Len(p.pendingCalls)
                /\ \A i \in 1..Len(p.pendingCalls) :
                       /\ r.pendingCalls[i].call = p.pendingCalls[i].call
                       /\ r.pendingCalls[i].step = p.pendingCalls[i].step
                       /\ r.pendingCalls[i].callSeq =
                              IF p.pendingCalls[i].call = e.call THEN seq
                              ELSE p.pendingCalls[i].callSeq
         /\ IsResult(e) => r.pendingCalls = Tail(p.pendingCalls)
         /\ IsReplacement(e) \/ e.type \in {"assistant/chunk", "request/header",
                                            "session/end-seed"} => r = p
<1>2. /\ p.openTurn \in 0..MaxTurns /\ p.openStep \in 0..MaxSteps
      /\ p.pendingCalls \in Seq(Pending)
      /\ p = [openTurn |-> p.openTurn, openStep |-> p.openStep, pendingCalls |-> p.pendingCalls]
  BY DEF ScanState
<1>3. Turns \subseteq 0..MaxTurns /\ Steps \subseteq 0..MaxSteps /\ <<>> \in Seq(Pending)
  BY BoundsAssumption DEF Turns, Steps
<1>4. 0 \in 0..MaxTurns /\ 0 \in 0..MaxSteps
  BY BoundsAssumption
<1>5. CASE e.type = "turn/start"
  <2>1. r = [openTurn |-> e.turn, openStep |-> 0, pendingCalls |-> <<>>]
    BY <1>5 DEF Scanned
  <2>2. e.turn \in 0..MaxTurns
    BY <1>3, <1>5, EventIs
  <2>3. r \in ScanState
    BY <1>3, <1>4, <2>1, <2>2 DEF ScanState
  <2> QED
    BY <1>5, <2>1, <2>3 DEF IsResult, IsReplacement
<1>6. CASE e.type = "turn/end"
  <2>1. r = [openTurn |-> 0, openStep |-> 0, pendingCalls |-> <<>>]
    BY <1>6 DEF Scanned, NoPending
  <2> QED
    BY <1>3, <1>4, <1>6, <2>1 DEF ScanState, IsResult, IsReplacement
<1>7. CASE e.type = "step/start"
  <2>1. r = [p EXCEPT !.openStep = e.step]
    BY <1>7 DEF Scanned
  <2> QED
    BY <1>2, <1>3, <1>7, <2>1, EventIs DEF ScanState, IsResult, IsReplacement
<1>8. CASE e.type = "step/end"
  <2>1. r = [p EXCEPT !.openStep = 0, !.pendingCalls = <<>>]
    BY <1>8 DEF Scanned
  <2> QED
    BY <1>2, <1>3, <1>4, <1>8, <2>1 DEF ScanState, IsResult, IsReplacement
<1>9. CASE e.type = "assistant/message"
  <2>1. r = [p EXCEPT !.pendingCalls = Register(p.pendingCalls, e.step, e.calls)]
    BY <1>9 DEF Scanned
  <2>2. p.pendingCalls = <<>> /\ e.step \in Steps /\ e.calls \in Messages
    BY <1>9, EventIs 
  <2> DEFINE q == Register(p.pendingCalls, e.step, e.calls)
  <2>3. /\ q \in Seq(Pending)
        /\ q = [i \in 1..Len(e.calls) |->
                    [call |-> e.calls[i], step |-> e.step, callSeq |-> 0]]
        /\ Len(e.calls) \in Nat
    <3>1. PICK o, s : o = e.calls /\ s = e.step /\ o \in Messages /\ s \in Steps
      BY <2>2
    <3>2. /\ Register(<<>>, s, o) \in Seq(Pending) /\ o \in Seq(CallId)
          /\ Register(<<>>, s, o) =
                [i \in 1..Len(o) |-> [call |-> o[i], step |-> s, callSeq |-> 0]]
      BY <3>1, RegisteredIs
    <3> QED
      BY <2>2, <3>1, <3>2
  <2>4. r = [p EXCEPT !.pendingCalls = q]
    BY <2>1
  <2> HIDE DEF q
  <2>5. r.pendingCalls = q /\ r.openTurn = p.openTurn /\ r.openStep = p.openStep
        /\ r \in ScanState
    BY <1>2, <2>3, <2>4 DEF ScanState
  <2>6. Len(q) = Len(e.calls) /\ \A i \in 1..Len(e.calls) :
            q[i] = [call |-> e.calls[i], step |-> e.step, callSeq |-> 0]
    BY <2>3
  <2> QED
    BY <1>9, <2>5, <2>6 DEF IsResult, IsReplacement
<1>10. CASE e.type = "tool/call"
  <2> DEFINE q == [i \in DOMAIN p.pendingCalls |->
                    IF p.pendingCalls[i].call = e.call
                    THEN [p.pendingCalls[i] EXCEPT !.callSeq = seq]
                    ELSE p.pendingCalls[i]]
  <2>1. r = [p EXCEPT !.pendingCalls = q]
    BY <1>10 DEF Scanned
  <2>2. DOMAIN p.pendingCalls = 1..Len(p.pendingCalls) /\ Len(p.pendingCalls) \in Nat
    BY <1>2
  <2>3. ASSUME NEW i \in 1..Len(p.pendingCalls)
        PROVE  /\ q[i] \in Pending
               /\ q[i].call = p.pendingCalls[i].call /\ q[i].step = p.pendingCalls[i].step
               /\ q[i].callSeq = IF p.pendingCalls[i].call = e.call THEN seq
                                 ELSE p.pendingCalls[i].callSeq
    <3>1. p.pendingCalls[i] \in Pending
      BY <1>2
    <3>2. PICK o \in Pending : o = p.pendingCalls[i]
      BY <3>1
    <3>3. q[i] = IF o.call = e.call THEN [o EXCEPT !.callSeq = seq] ELSE o
      BY <2>2, <3>2
    <3> HIDE DEF q
    <3> QED
      BY <3>2, <3>3 DEF Pending
  <2>4. q \in Seq(Pending) /\ Len(q) = Len(p.pendingCalls)
    <3>1. PICK n \in Nat : n = Len(p.pendingCalls) /\ DOMAIN p.pendingCalls = 1..n
      BY <2>2
    <3>2. q \in [1..n -> Pending]
      <4>1. \A i \in 1..n : q[i] \in Pending
        BY <2>3, <3>1
      <4>2. DOMAIN q = 1..n /\ q = [i \in 1..n |-> q[i]]
        BY <3>1
      <4> HIDE DEF q
      <4> QED
        BY <4>1, <4>2
    <3> HIDE DEF q
    <3> QED
      BY <3>1, <3>2
  <2> HIDE DEF q
  <2>5. r.pendingCalls = q /\ r.openTurn = p.openTurn /\ r.openStep = p.openStep
        /\ r \in ScanState
    BY <1>2, <2>1, <2>4 DEF ScanState
  <2> QED
    BY <1>10, <2>3, <2>4, <2>5 DEF IsResult, IsReplacement
<1>11. CASE IsResult(e)
  <2>1. r = [p EXCEPT !.pendingCalls = Without(p.pendingCalls, {e.call})]
    BY <1>11 DEF Scanned, IsResult
  <2>2. p.pendingCalls # <<>> /\ e.call = p.pendingCalls[1].call
    BY <1>11 
  <2>3. DOMAIN p.pendingCalls = 1..Len(p.pendingCalls) /\ Len(p.pendingCalls) \in Nat
        /\ Len(p.pendingCalls) # 0
    BY <1>2, <2>2
  <2>4. \A i \in 2..Len(p.pendingCalls) : p.pendingCalls[i].call # p.pendingCalls[1].call
    BY <2>3 
  <2>5. Without(p.pendingCalls, {e.call}) = Tail(p.pendingCalls)
    BY <1>2, <2>2, <2>4, WithoutFirst
  <2>6. Tail(p.pendingCalls) \in Seq(Pending)
    BY <1>2, <2>2
  <2> QED
    BY <1>2, <1>11, <2>1, <2>5, <2>6 DEF ScanState, IsResult, IsReplacement
<1>12. CASE IsReplacement(e)
  <2>1. r = [p EXCEPT !.pendingCalls = Without(p.pendingCalls, {e.call})]
    BY <1>12 DEF Scanned, IsReplacement
  <2>2. p.pendingCalls = <<>>
    BY <1>12 
  <2>3. r = p
    BY <1>2, <2>1, <2>2, WithoutNothing
  <2> QED
    BY <1>12, <2>3 DEF IsResult, IsReplacement
<1>13. CASE e.type \in {"assistant/chunk", "request/header", "session/end-seed"}
  <2>1. r = p
    BY <1>13 DEF Scanned
  <2> QED
    BY <1>13, <2>1 DEF IsResult, IsReplacement
<1> QED
  BY <1>5, <1>6, <1>7, <1>8, <1>9, <1>10, <1>11, <1>12, <1>13, EventIs
     DEF IsResult, IsReplacement

\* How a fitting event moves the scan.
LEMMA ScanStep ==
  ASSUME NEW l \in Seq(Event), NEW e, Fits(l, e),
         FoldsAgree(Scan(l), SeedSession(l)), CallsAgree(Scan(l), SeedSession(l)),
         NEW p, p = Scan(l), NEW r, r = Scan(Append(l, e))
  PROVE  /\ r \in ScanState
         /\ e.type = "turn/start" =>
                r.openTurn = e.turn /\ r.openStep = 0 /\ r.pendingCalls = <<>>
         /\ e.type = "turn/end" =>
                r.openTurn = 0 /\ r.openStep = 0 /\ r.pendingCalls = <<>>
         /\ e.type \notin {"turn/start", "turn/end"} => r.openTurn = p.openTurn
         /\ e.type = "step/start" => r.openStep = e.step /\ r.pendingCalls = p.pendingCalls
         /\ e.type = "step/end" => r.openStep = 0 /\ r.pendingCalls = <<>>
         /\ e.type \notin {"turn/start", "turn/end", "step/start", "step/end"} =>
                r.openStep = p.openStep
         /\ e.type = "assistant/message" =>
                /\ Len(r.pendingCalls) = Len(e.calls)
                /\ \A i \in 1..Len(e.calls) :
                       r.pendingCalls[i] = [call |-> e.calls[i], step |-> e.step, callSeq |-> 0]
         /\ e.type = "tool/call" =>
                /\ Len(r.pendingCalls) = Len(p.pendingCalls)
                /\ \A i \in 1..Len(p.pendingCalls) :
                       /\ r.pendingCalls[i].call = p.pendingCalls[i].call
                       /\ r.pendingCalls[i].step = p.pendingCalls[i].step
                       /\ r.pendingCalls[i].callSeq =
                              IF p.pendingCalls[i].call = e.call THEN Len(l) + 1
                              ELSE p.pendingCalls[i].callSeq
         /\ IsResult(e) => r.pendingCalls = Tail(p.pendingCalls)
         /\ IsReplacement(e) \/ e.type \in {"assistant/chunk", "request/header",
                                            "session/end-seed"} => r = p
<1>1. e \in Event /\ p \in ScanState /\ Len(l) + 1 \in Nat
  BY DEF Fits, FoldsAgree
<1>2. r = Scanned(p, e, Len(l) + 1)
  BY <1>1, ScanAppend
<1>3. /\ e.type = "assistant/message" => p.pendingCalls = <<>>
      /\ IsReplacement(e) => p.pendingCalls = <<>>
      /\ IsResult(e) => p.pendingCalls # <<>> /\ e.call = p.pendingCalls[1].call
  BY DEF Fits
<1>4. \A i, j \in DOMAIN p.pendingCalls :
          p.pendingCalls[i].call = p.pendingCalls[j].call => i = j
  BY DEF CallsAgree
<1> HIDE DEF Scanned
<1> QED
  BY <1>1, <1>2, <1>3, <1>4, ScannedStep

\* How a fitting event moves the relational invariant, which accepts it.
LEMMA TraceStep ==
  ASSUME NEW l \in Seq(Event), NEW e, Fits(l, e),
         NEW p, p = Scan(l), NEW t, t = SeedSession(l),
         FoldsAgree(p, t), CallsAgree(p, t),
         NEW u, u = SeedSession(Append(l, e))
  PROVE  /\ u \in TraceState /\ u.ok
         /\ e.type = "turn/start" =>
                /\ u.openTurn = e.turn /\ u.openStep = t.openStep
                /\ u.nextTurn = t.nextTurn /\ u.nextStep = 1
         /\ e.type = "turn/end" =>
                /\ u.openTurn = 0 /\ u.openStep = t.openStep
                /\ u.nextTurn = t.nextTurn + 1 /\ u.nextStep = t.nextStep
         /\ e.type = "step/start" =>
                /\ u.openTurn = t.openTurn /\ u.openStep = e.step
                /\ u.nextTurn = t.nextTurn /\ u.nextStep = t.nextStep
         /\ e.type = "step/end" =>
                /\ u.openTurn = t.openTurn /\ u.openStep = 0 /\ u.pendingCalls = {}
                /\ u.nextTurn = t.nextTurn /\ u.nextStep = t.nextStep + 1
         /\ e.type \notin {"turn/start", "turn/end", "step/start", "step/end"} =>
                /\ u.openTurn = t.openTurn /\ u.openStep = t.openStep
                /\ u.nextTurn = t.nextTurn /\ u.nextStep = t.nextStep
         /\ e.type = "tool/call" => u.pendingCalls = t.pendingCalls \cup {e.call}
         /\ IsResult(e) => u.pendingCalls = t.pendingCalls \ {e.call}
         /\ e.type \notin {"step/end", "tool/call"} /\ ~IsResult(e) =>
                u.pendingCalls = t.pendingCalls
<1>1. e \in Event /\ t \in TraceState /\ p \in ScanState
  BY DEF Fits, FoldsAgree
<1>2. u = NextTrace(t, e)
  BY <1>1, SeedAppend
<1> DEFINE b == Applied(t, e)
<1>3. /\ u.openTurn = b.openTurn /\ u.openStep = b.openStep /\ u.nextTurn = b.nextTurn
      /\ u.nextStep = b.nextStep /\ u.pendingCalls = b.pendingCalls
      /\ u.ok = (t.ok /\ ValidEvent(t, e))
      /\ u \in [openTurn : {b.openTurn}, openStep : {b.openStep}, nextTurn : {b.nextTurn},
                nextStep : {b.nextStep}, pendingCalls : {b.pendingCalls},
                ok : {t.ok /\ ValidEvent(t, e)}]
  BY <1>1, <1>2, NextTraceIs
<1>4. ValidEvent(t, e)
  <2>1. /\ t.openTurn = p.openTurn /\ t.openStep = p.openStep
        /\ p.openTurn # 0 => p.openTurn = t.nextTurn
    BY DEF FoldsAgree
  <2>2. CASE e.type = "turn/start"
    <3>1. t.openTurn = 0 /\ e.turn = t.nextTurn
      BY <2>1, <2>2 DEF Fits
    <3> QED
      BY <2>2, <3>1 DEF ValidEvent
  <2>3. CASE e.type = "turn/end"
    <3>1. t.openTurn = e.turn /\ t.openStep = 0
      BY <2>1, <2>3 DEF Fits
    <3> QED
      BY <2>3, <3>1 DEF ValidEvent
  <2>4. CASE e.type = "step/start"
    <3>1. t.openTurn = e.turn /\ t.openStep = 0 /\ e.step = t.nextStep
      BY <2>1, <2>4 DEF Fits
    <3> QED
      BY <2>4, <3>1 DEF ValidEvent
  <2>5. CASE e.type \in {"step/end", "assistant/chunk", "assistant/message", "tool/call"}
    <3>1. InOpenStep(t, e)
      BY <2>1, <2>5 DEF Fits, OfStep, InOpenStep
    <3> QED
      BY <2>5, <3>1 DEF ValidEvent
  <2>6. CASE IsResult(e)
    <3>1. t.openTurn = e.turn /\ t.openStep = e.step
      BY <2>1, <2>6 DEF Fits, OfStep
    <3>2. /\ p.pendingCalls # <<>> /\ e.call = p.pendingCalls[1].call
          /\ e.how = "TOOL_NOT_STARTED" <=> p.pendingCalls[1].callSeq = 0
      BY <2>6 DEF Fits
    <3>3. 1 \in DOMAIN p.pendingCalls /\ p.pendingCalls[1].call \in CallId
      <4>1. p.pendingCalls \in Seq(Pending)
        BY <1>1 DEF ScanState
      <4>2. 1 \in DOMAIN p.pendingCalls /\ p.pendingCalls[1] \in Pending
        BY <3>2, <4>1
      <4> QED
        BY <4>2 DEF Pending
    <3>4. e.call \in t.pendingCalls \/ e.how = "TOOL_NOT_STARTED"
      BY <3>2, <3>3 DEF CallsAgree
    <3> QED
      BY <2>6, <3>1, <3>4 DEF ValidEvent, InOpenStep, IsResult
  <2>7. CASE IsReplacement(e)
    <3>1. t.openTurn # 0
      BY <2>1, <2>7 DEF Fits
    <3> QED
      BY <2>7, <3>1 DEF ValidEvent, IsReplacement
  <2>8. CASE e.type = "request/header"
    <3>1. t.openTurn # 0
      BY <2>1, <2>8 DEF Fits
    <3> QED
      BY <2>8, <3>1 DEF ValidEvent
  <2>9. CASE e.type = "session/end-seed"
    BY <2>9 DEF ValidEvent
  <2> QED
    BY <1>1, <2>2, <2>3, <2>4, <2>5, <2>6, <2>7, <2>8, <2>9, EventIs
       DEF IsResult, IsReplacement
<1>5. t.ok /\ u.ok
  BY <1>3, <1>4 DEF FoldsAgree
<1>6. /\ t.openTurn \in 0..MaxTurns /\ t.openStep \in 0..MaxSteps
      /\ t.nextTurn \in Nat \ {0} /\ t.nextStep \in Nat \ {0} /\ t.pendingCalls \subseteq CallId
  BY <1>1 DEF TraceState
<1>7. 0 \in 0..MaxTurns /\ 0 \in 0..MaxSteps
      /\ Turns \subseteq 0..MaxTurns /\ Steps \subseteq 0..MaxSteps
  BY BoundsAssumption DEF Turns, Steps
<1>8. u.ok \in BOOLEAN /\ (t.ok /\ ValidEvent(t, e)) \in BOOLEAN
  BY <1>4, <1>5
<1>9. ASSUME b.openTurn \in 0..MaxTurns, b.openStep \in 0..MaxSteps,
             b.nextTurn \in Nat \ {0}, b.nextStep \in Nat \ {0},
             b.pendingCalls \subseteq CallId
      PROVE  u \in TraceState
  <2> HIDE DEF b
  <2> QED
    BY <1>3, <1>8, <1>9 DEF TraceState
<1>10. CASE e.type = "turn/start"
  <2>1. b = [t EXCEPT !.openTurn = e.turn, !.nextStep = 1]
    BY <1>10, AppliedIs
  <2>2. e.turn \in 0..MaxTurns
    BY <1>1, <1>7, <1>10, EventIs
  <2> HIDE DEF b
  <2>3. /\ b.openTurn = e.turn /\ b.openStep = t.openStep /\ b.nextTurn = t.nextTurn
        /\ b.nextStep = 1 /\ b.pendingCalls = t.pendingCalls
    BY <1>1, <2>1 DEF TraceState
  <2> QED
    BY <1>3, <1>5, <1>6, <1>9, <1>10, <2>2, <2>3 DEF IsResult
<1>11. CASE e.type = "turn/end"
  <2>1. b = [t EXCEPT !.openTurn = 0, !.nextTurn = t.nextTurn + 1]
    BY <1>11, AppliedIs
  <2> HIDE DEF b
  <2>3. /\ b.openTurn = 0 /\ b.openStep = t.openStep /\ b.nextTurn = t.nextTurn + 1
        /\ b.nextStep = t.nextStep /\ b.pendingCalls = t.pendingCalls
    BY <1>1, <2>1 DEF TraceState
  <2> QED
    BY <1>3, <1>5, <1>6, <1>7, <1>9, <1>11, <2>3 DEF IsResult
<1>12. CASE e.type = "step/start"
  <2>1. b = [t EXCEPT !.openStep = e.step]
    BY <1>12, AppliedIs
  <2>2. e.step \in 0..MaxSteps
    BY <1>1, <1>7, <1>12, EventIs
  <2> HIDE DEF b
  <2>3. /\ b.openTurn = t.openTurn /\ b.openStep = e.step /\ b.nextTurn = t.nextTurn
        /\ b.nextStep = t.nextStep /\ b.pendingCalls = t.pendingCalls
    BY <1>1, <2>1 DEF TraceState
  <2> QED
    BY <1>3, <1>5, <1>6, <1>9, <1>12, <2>2, <2>3 DEF IsResult
<1>13. CASE e.type = "step/end"
  <2>1. b = [t EXCEPT !.openStep = 0, !.nextStep = t.nextStep + 1, !.pendingCalls = {}]
    BY <1>13, AppliedIs
  <2> HIDE DEF b
  <2>3. /\ b.openTurn = t.openTurn /\ b.openStep = 0 /\ b.nextTurn = t.nextTurn
        /\ b.nextStep = t.nextStep + 1 /\ b.pendingCalls = {}
    BY <1>1, <2>1 DEF TraceState
  <2> QED
    BY <1>3, <1>5, <1>6, <1>7, <1>9, <1>13, <2>3 DEF IsResult
<1>14. CASE e.type = "tool/call"
  <2>1. b = [t EXCEPT !.pendingCalls = t.pendingCalls \cup {e.call}]
    BY <1>14 DEF Applied, IsResult
  <2>2. e.call \in CallId
    BY <1>1, <1>14, EventIs
  <2> HIDE DEF b
  <2>3. /\ b.openTurn = t.openTurn /\ b.openStep = t.openStep /\ b.nextTurn = t.nextTurn
        /\ b.nextStep = t.nextStep /\ b.pendingCalls = t.pendingCalls \cup {e.call}
    BY <1>1, <2>1 DEF TraceState
  <2>4. b.pendingCalls \subseteq CallId
    BY <1>6, <2>2, <2>3
  <2> QED
    BY <1>3, <1>5, <1>6, <1>9, <1>14, <2>3, <2>4 DEF IsResult
<1>15. CASE IsResult(e)
  <2>1. b = [t EXCEPT !.pendingCalls = t.pendingCalls \ {e.call}]
    BY <1>15, AppliedIs
  <2> HIDE DEF b
  <2>3. /\ b.openTurn = t.openTurn /\ b.openStep = t.openStep /\ b.nextTurn = t.nextTurn
        /\ b.nextStep = t.nextStep /\ b.pendingCalls = t.pendingCalls \ {e.call}
    BY <1>1, <2>1 DEF TraceState
  <2>4. b.pendingCalls \subseteq CallId
    BY <1>6, <2>3
  <2> QED
    BY <1>3, <1>5, <1>6, <1>9, <1>15, <2>3, <2>4 DEF IsResult
<1>16. CASE IsReplacement(e) \/ e.type \in {"assistant/chunk", "assistant/message",
                                            "request/header", "session/end-seed"}
  <2>1. b = t
    BY <1>16, AppliedIs
  <2> HIDE DEF b
  <2> QED
    BY <1>3, <1>5, <1>6, <1>9, <1>16, <2>1 DEF IsResult, IsReplacement
<1> QED
  BY <1>1, <1>10, <1>11, <1>12, <1>13, <1>14, <1>15, <1>16, EventIs
     DEF IsResult, IsReplacement

-----------------------------------------------------------------------------
(* A fitting event keeps a log sound. *)

\* A log with one more event.
LEMMA Appended ==
  ASSUME NEW l \in Seq(Event), NEW e \in Event
  PROVE  /\ Append(l, e) \in Seq(Event) /\ Len(l) \in Nat
         /\ DOMAIN l = 1..Len(l) /\ DOMAIN Append(l, e) = 1..(Len(l) + 1)
         /\ Len(Append(l, e)) = Len(l) + 1
         /\ Append(l, e)[Len(l) + 1] = e
         /\ \A k \in 1..Len(l) : l[k] \in Event /\ Append(l, e)[k] = l[k]
OBVIOUS

\* What it has answered, recorded and been told.
LEMMA AnsweredAppend ==
  ASSUME NEW l \in Seq(Event), NEW e \in Event, NEW t, NEW s, NEW c
  PROVE  Answered(Append(l, e), t, s, c) <=>
            Answered(l, t, s, c) \/ (IsResult(e) /\ e.turn = t /\ e.step = s /\ e.call = c)
<1> DEFINE m == Append(l, e)
<1>1. /\ Len(l) \in Nat /\ DOMAIN l = 1..Len(l) /\ DOMAIN m = 1..(Len(l) + 1)
      /\ m[Len(l) + 1] = e /\ \A k \in 1..Len(l) : m[k] = l[k]
  BY Appended
<1> HIDE DEF m
<1>2. DOMAIN m = DOMAIN l \cup {Len(l) + 1}
  BY <1>1
<1>3. Answered(m, t, s, c) <=>
            Answered(l, t, s, c) \/ (IsResult(e) /\ e.turn = t /\ e.step = s /\ e.call = c)
  BY <1>1, <1>2 DEF Answered
<1> QED
  BY <1>3 DEF m

\* See AnsweredAppend.
LEMMA RecordedAppend ==
  ASSUME NEW l \in Seq(Event), NEW e \in Event, NEW t, NEW s, NEW c
  PROVE  Recorded(Append(l, e), t, s, c) <=> Recorded(l, t, s, c) \/ e = ToolCall(t, s, c)
<1> DEFINE m == Append(l, e)
<1>1. /\ Len(l) \in Nat /\ DOMAIN l = 1..Len(l) /\ DOMAIN m = 1..(Len(l) + 1)
      /\ m[Len(l) + 1] = e /\ \A k \in 1..Len(l) : m[k] = l[k]
  BY Appended
<1> HIDE DEF m
<1>2. DOMAIN m = DOMAIN l \cup {Len(l) + 1}
  BY <1>1
<1>3. Recorded(m, t, s, c) <=> Recorded(l, t, s, c) \/ e = ToolCall(t, s, c)
  BY <1>1, <1>2 DEF Recorded
<1> QED
  BY <1>3 DEF m

\* See AnsweredAppend.
LEMMA HasMessageAppend ==
  ASSUME NEW l \in Seq(Event), NEW e \in Event, NEW t, NEW s
  PROVE  HasMessage(Append(l, e), t, s) <=>
            HasMessage(l, t, s) \/ (e.type = "assistant/message" /\ e.turn = t /\ e.step = s)
<1> DEFINE m == Append(l, e)
<1>1. /\ Len(l) \in Nat /\ DOMAIN l = 1..Len(l) /\ DOMAIN m = 1..(Len(l) + 1)
      /\ m[Len(l) + 1] = e /\ \A k \in 1..Len(l) : m[k] = l[k]
  BY Appended
<1> HIDE DEF m
<1>2. DOMAIN m = DOMAIN l \cup {Len(l) + 1}
  BY <1>1
<1>3. HasMessage(m, t, s) <=>
         HasMessage(l, t, s) \/ (e.type = "assistant/message" /\ e.turn = t /\ e.step = s)
  BY <1>1, <1>2 DEF HasMessage
<1> QED
  BY <1>3 DEF m

\* The two folds go on to agree on what is open.
LEMMA FoldsStep ==
  ASSUME NEW l \in Seq(Event), NEW e, Fits(l, e),
         NEW p, p = Scan(l), NEW t, t = SeedSession(l),
         FoldsAgree(p, t), CallsAgree(p, t),
         NEW r, r = Scan(Append(l, e)), NEW u, u = SeedSession(Append(l, e))
  PROVE  FoldsAgree(r, u)
<1>1. e \in Event /\ p \in ScanState /\ t \in TraceState
  BY DEF Fits, FoldsAgree
<1>2. r \in ScanState /\ u \in TraceState /\ u.ok
  BY ScanStep, TraceStep
<1>3. /\ p.openTurn \in 0..MaxTurns /\ p.openStep \in 0..MaxSteps
      /\ t.nextTurn \in Nat \ {0} /\ t.nextStep \in Nat \ {0}
      /\ t.openTurn = p.openTurn /\ t.openStep = p.openStep
      /\ p.openTurn = 0 => p.openStep = 0
      /\ p.openStep = 0 => p.pendingCalls = <<>>
      /\ p.openTurn # 0 => p.openTurn = t.nextTurn
      /\ p.openStep # 0 => p.openStep = t.nextStep
  BY <1>1 DEF FoldsAgree, ScanState, TraceState
<1>4. Turns \subseteq Nat \ {0} /\ Steps \subseteq Nat \ {0}
  BY BoundsAssumption DEF Turns, Steps
<1>5. CASE e.type = "turn/start"
  <2>1. /\ r.openTurn = e.turn /\ r.openStep = 0 /\ r.pendingCalls = <<>>
        /\ u.openTurn = e.turn /\ u.openStep = t.openStep /\ u.nextTurn = t.nextTurn
    BY <1>5, ScanStep, TraceStep
  <2>2. p.openTurn = 0 /\ e.turn = t.nextTurn
    BY <1>5 DEF Fits
  <2> QED
    BY <1>2, <1>3, <2>1, <2>2 DEF FoldsAgree
<1>6. CASE e.type = "turn/end"
  <2>1. /\ r.openTurn = 0 /\ r.openStep = 0 /\ r.pendingCalls = <<>>
        /\ u.openTurn = 0 /\ u.openStep = t.openStep
    BY <1>6, ScanStep, TraceStep
  <2>2. p.openStep = 0
    BY <1>6 DEF Fits
  <2> QED
    BY <1>2, <1>3, <2>1, <2>2 DEF FoldsAgree
<1>7. CASE e.type = "step/start"
  <2>1. /\ r.openTurn = p.openTurn /\ r.openStep = e.step
        /\ r.pendingCalls = p.pendingCalls
        /\ u.openTurn = t.openTurn /\ u.openStep = e.step
        /\ u.nextTurn = t.nextTurn /\ u.nextStep = t.nextStep
    BY <1>7, ScanStep, TraceStep
  <2>2. p.openTurn = e.turn /\ p.openStep = 0 /\ e.step = t.nextStep
    BY <1>7 DEF Fits
  <2>3. e.turn \in Turns /\ e.step \in Steps
    BY <1>1, <1>7, EventIs
  <2> QED
    BY <1>2, <1>3, <1>4, <2>1, <2>2, <2>3 DEF FoldsAgree
<1>8. CASE e.type = "step/end"
  <2>1. /\ r.openTurn = p.openTurn /\ r.openStep = 0 /\ r.pendingCalls = <<>>
        /\ u.openTurn = t.openTurn /\ u.openStep = 0 /\ u.nextTurn = t.nextTurn
    BY <1>8, ScanStep, TraceStep
  <2> QED
    BY <1>2, <1>3, <2>1 DEF FoldsAgree
<1>9. CASE e.type \notin {"turn/start", "turn/end", "step/start", "step/end"}
  <2>1. /\ r.openTurn = p.openTurn /\ r.openStep = p.openStep
        /\ u.openTurn = t.openTurn /\ u.openStep = t.openStep
        /\ u.nextTurn = t.nextTurn /\ u.nextStep = t.nextStep
    BY <1>9, ScanStep, TraceStep
  <2>2. p.openStep = 0 => r.pendingCalls = <<>>
    <3>1. CASE e.type \in {"assistant/message", "tool/call"} \/ IsResult(e)
      <4>1. p.openStep = e.step
        BY <3>1 DEF Fits, OfStep
      <4>2. e.step \in Steps
        BY <1>1, <3>1, EventIs DEF IsResult
      <4> QED
        BY <1>4, <4>1, <4>2
    <3>2. CASE IsReplacement(e) \/ e.type \in {"assistant/chunk", "request/header",
                                               "session/end-seed"}
      <4>1. r = p
        BY <3>2, ScanStep
      <4> QED
        BY <1>3, <4>1
    <3> QED
      BY <1>1, <1>9, <3>1, <3>2, EventIs DEF IsResult, IsReplacement
  <2> QED
    BY <1>2, <1>3, <2>1, <2>2 DEF FoldsAgree
<1> QED
  BY <1>5, <1>6, <1>7, <1>8, <1>9

\* The open calls after each type of event.
LEMMA CallsStep ==
  ASSUME NEW l \in Seq(Event), NEW e, Fits(l, e),
         NEW p, p = Scan(l), NEW t, t = SeedSession(l),
         FoldsAgree(p, t), CallsAgree(p, t),
         NEW r, r = Scan(Append(l, e)), NEW u, u = SeedSession(Append(l, e))
  PROVE  CallsAgree(r, u)
<1>1. e \in Event /\ p \in ScanState /\ t \in TraceState /\ r \in ScanState
  BY ScanStep DEF Fits, FoldsAgree
<1>2. /\ p.pendingCalls \in Seq(Pending) /\ r.pendingCalls \in Seq(Pending)
      /\ t.pendingCalls \subseteq CallId
  BY <1>1 DEF ScanState, TraceState
<1>3. /\ Len(p.pendingCalls) \in Nat /\ DOMAIN p.pendingCalls = 1..Len(p.pendingCalls)
      /\ Len(r.pendingCalls) \in Nat /\ DOMAIN r.pendingCalls = 1..Len(r.pendingCalls)
  BY <1>2
<1>4. p.openStep = 0 => p.pendingCalls = <<>>
  BY DEF FoldsAgree
<1>5. p.pendingCalls = <<>> => t.pendingCalls = {}
  <2>1. ASSUME p.pendingCalls = <<>>, NEW c \in t.pendingCalls PROVE FALSE
    <3>1. DOMAIN p.pendingCalls = {}
      BY <2>1
    <3> QED
      BY <1>2, <2>1, <3>1 DEF CallsAgree
  <2> QED
    BY <2>1
<1>6. ASSUME r.pendingCalls = <<>>, u.pendingCalls = {}
      PROVE  CallsAgree(r, u)
  <2>1. DOMAIN r.pendingCalls = {}
    BY <1>6
  <2> QED
    BY <1>6, <2>1 DEF CallsAgree
<1>7. CASE e.type \in {"turn/start", "turn/end", "step/start"}
  <2>1. p.pendingCalls = <<>>
    <3>1. p.openStep = 0
      <4>1. e.type = "turn/start" => p.openTurn = 0
        BY DEF Fits
      <4>2. e.type \in {"turn/end", "step/start"} => p.openStep = 0
        BY DEF Fits
      <4> QED
        BY <1>7, <4>1, <4>2 DEF FoldsAgree
    <3> QED
      BY <1>4, <3>1
  <2>2. r.pendingCalls = <<>>
    BY <1>7, <2>1, ScanStep
  <2>3. u.pendingCalls = t.pendingCalls
    BY <1>7, TraceStep DEF IsResult
  <2> QED
    BY <1>5, <1>6, <2>1, <2>2, <2>3
<1>8. CASE e.type = "step/end"
  <2>1. r.pendingCalls = <<>> /\ u.pendingCalls = {}
    BY <1>8, ScanStep, TraceStep
  <2> QED
    BY <1>6, <2>1
<1>9. CASE e.type = "assistant/message"
  <2>1. /\ r.openStep = p.openStep /\ Len(r.pendingCalls) = Len(e.calls)
        /\ \A i \in 1..Len(e.calls) :
              r.pendingCalls[i] = [call |-> e.calls[i], step |-> e.step, callSeq |-> 0]
    BY <1>9, ScanStep
  <2>2. p.openStep = e.step /\ p.pendingCalls = <<>>
    BY <1>9 DEF Fits, OfStep
  <2>3. u.pendingCalls = {}
    BY <1>5, <1>9, <2>2, TraceStep DEF IsResult
  <2>4. \A i, j \in 1..Len(e.calls) : e.calls[i] = e.calls[j] => i = j
    BY <1>1, <1>9, EventIs, RegisteredIs
  <2>5. \A i \in DOMAIN r.pendingCalls :
            /\ r.pendingCalls[i].call = e.calls[i] /\ i \in 1..Len(e.calls)
            /\ r.pendingCalls[i].step = r.openStep /\ r.pendingCalls[i].callSeq = 0
    <3>1. ASSUME NEW i \in DOMAIN r.pendingCalls
          PROVE  /\ i \in 1..Len(e.calls)
                 /\ r.pendingCalls[i] =
                        [call |-> e.calls[i], step |-> e.step, callSeq |-> 0]
      BY <1>3, <2>1
    <3>2. r.openStep = e.step
      BY <2>1, <2>2
    <3>3. ASSUME NEW i \in DOMAIN r.pendingCalls, NEW c,
                 r.pendingCalls[i] = [call |-> c, step |-> e.step, callSeq |-> 0]
          PROVE  /\ r.pendingCalls[i].call = c /\ r.pendingCalls[i].step = e.step
                 /\ r.pendingCalls[i].callSeq = 0
      BY <3>3
    <3> QED
      BY <3>1, <3>2, <3>3
  <2> QED
    BY <2>3, <2>4, <2>5 DEF CallsAgree
<1>10. CASE e.type = "tool/call"
  <2>1. /\ r.openStep = p.openStep /\ DOMAIN r.pendingCalls = DOMAIN p.pendingCalls
        /\ \A i \in DOMAIN p.pendingCalls :
               /\ r.pendingCalls[i].call = p.pendingCalls[i].call
               /\ r.pendingCalls[i].step = p.pendingCalls[i].step
               /\ r.pendingCalls[i].callSeq =
                      IF p.pendingCalls[i].call = e.call THEN Len(l) + 1
                      ELSE p.pendingCalls[i].callSeq
    BY <1>3, <1>10, ScanStep
  <2>2. u.pendingCalls = t.pendingCalls \cup {e.call}
    BY <1>10, TraceStep
  <2>3. PICK k \in DOMAIN p.pendingCalls : p.pendingCalls[k].call = e.call
    BY <1>10 DEF Fits
  <2>4. Len(l) + 1 # 0
    OBVIOUS
  <2>5. \A c \in CallId :
          c \in t.pendingCalls <=>
              \E i \in DOMAIN p.pendingCalls :
                  p.pendingCalls[i].call = c /\ p.pendingCalls[i].callSeq # 0
    BY DEF CallsAgree
  <2>6. ASSUME NEW c \in CallId
        PROVE  c \in u.pendingCalls <=>
                  \E i \in DOMAIN r.pendingCalls :
                      r.pendingCalls[i].call = c /\ r.pendingCalls[i].callSeq # 0
    <3>1. CASE c = e.call
      <4>1. r.pendingCalls[k].call = c /\ r.pendingCalls[k].callSeq # 0
        BY <2>1, <2>3, <2>4, <3>1
      <4> QED
        BY <2>1, <2>2, <2>3, <3>1, <4>1
    <3>2. CASE c # e.call
      <4>1. \A i \in DOMAIN p.pendingCalls : p.pendingCalls[i].call = c =>
                r.pendingCalls[i].callSeq = p.pendingCalls[i].callSeq
        BY <2>1, <3>2
      <4> QED
        BY <2>1, <2>2, <2>5, <3>2, <4>1
    <3> QED
      BY <3>1, <3>2
  <2> QED
    BY <2>1, <2>6 DEF CallsAgree
<1>11. CASE IsResult(e)
  <2>1. r.pendingCalls = Tail(p.pendingCalls) /\ r.openStep = p.openStep
    BY <1>11, ScanStep DEF IsResult
  <2>2. u.pendingCalls = t.pendingCalls \ {e.call}
    BY <1>11, TraceStep
  <2>3. p.pendingCalls # <<>> /\ e.call = p.pendingCalls[1].call
    BY <1>11 DEF Fits
  <2>4. PICK n \in Nat : n = Len(r.pendingCalls) /\ Len(p.pendingCalls) = n + 1
    <3>1. Len(Tail(p.pendingCalls)) = Len(p.pendingCalls) - 1
      BY <1>2, <2>3
    <3>2. Len(p.pendingCalls) = Len(r.pendingCalls) + 1
      BY <1>3, <2>1, <3>1
    <3> QED
      BY <1>3, <3>2
  <2>5. \A i \in 1..n : r.pendingCalls[i] = p.pendingCalls[i + 1]
    BY <1>2, <2>1, <2>3, <2>4
  <2>6. /\ \A i, j \in 1..(n + 1) : p.pendingCalls[i].call = p.pendingCalls[j].call => i = j
        /\ \A i \in 1..(n + 1) : p.pendingCalls[i].step = p.openStep
        /\ \A c \in CallId :
             c \in t.pendingCalls <=>
                \E i \in 1..(n + 1) : p.pendingCalls[i].call = c /\ p.pendingCalls[i].callSeq # 0
    BY <1>3, <2>4 DEF CallsAgree
  <2>7. ASSUME NEW c \in CallId
        PROVE  c \in u.pendingCalls <=>
                  \E i \in 1..n : r.pendingCalls[i].call = c /\ r.pendingCalls[i].callSeq # 0
    <3>1. ASSUME c \in u.pendingCalls
          PROVE  \E i \in 1..n : r.pendingCalls[i].call = c /\ r.pendingCalls[i].callSeq # 0
      <4>1. PICK i \in 1..(n + 1) : p.pendingCalls[i].call = c /\ p.pendingCalls[i].callSeq # 0
        BY <2>2, <2>6, <3>1
      <4>2. i # 1
        BY <2>2, <2>3, <3>1, <4>1
      <4>3. i - 1 \in 1..n /\ (i - 1) + 1 = i
        BY <4>2
      <4>4. r.pendingCalls[i - 1] = p.pendingCalls[i]
        BY <2>5, <4>3
      <4> QED
        BY <4>1, <4>3, <4>4
    <3>2. ASSUME NEW i \in 1..n, r.pendingCalls[i].call = c, r.pendingCalls[i].callSeq # 0
          PROVE  c \in u.pendingCalls
      <4>1. i + 1 \in 1..(n + 1) /\ 1 \in 1..(n + 1) /\ i + 1 # 1
        OBVIOUS
      <4>2. p.pendingCalls[i + 1].call = c /\ p.pendingCalls[i + 1].callSeq # 0
        BY <2>5, <3>2
      <4>3. c # e.call
        BY <2>3, <2>6, <4>1, <4>2
      <4> QED
        BY <2>2, <2>6, <4>1, <4>2, <4>3
    <3> QED
      BY <3>1, <3>2
  <2>8. \A i, j \in 1..n : r.pendingCalls[i].call = r.pendingCalls[j].call => i = j
    <3>1. ASSUME NEW i \in 1..n, NEW j \in 1..n,
                 r.pendingCalls[i].call = r.pendingCalls[j].call
          PROVE  i = j
      <4>1. i + 1 \in 1..(n + 1) /\ j + 1 \in 1..(n + 1)
        OBVIOUS
      <4>2. p.pendingCalls[i + 1].call = p.pendingCalls[j + 1].call
        BY <2>5, <3>1
      <4>3. i + 1 = j + 1
        BY <2>6, <4>1, <4>2
      <4> QED
        BY <4>3
    <3> QED
      BY <3>1
  <2>9. \A i \in 1..n : r.pendingCalls[i].step = r.openStep
    <3>1. ASSUME NEW i \in 1..n PROVE r.pendingCalls[i].step = r.openStep
      <4>1. i + 1 \in 1..(n + 1)
        OBVIOUS
      <4>2. r.pendingCalls[i] = p.pendingCalls[i + 1]
        BY <2>5
      <4>3. p.pendingCalls[i + 1].step = p.openStep
        BY <2>6, <4>1
      <4> QED
        BY <2>1, <4>2, <4>3
    <3> QED
      BY <3>1
  <2>10. DOMAIN r.pendingCalls = 1..n
    BY <1>3, <2>4
  <2> QED
    BY <2>7, <2>8, <2>9, <2>10 DEF CallsAgree
<1>12. CASE IsReplacement(e) \/ e.type \in {"assistant/chunk", "request/header",
                                            "session/end-seed"}
  <2>1. r = p
    BY <1>12, ScanStep
  <2>2. u.pendingCalls = t.pendingCalls
    BY <1>12, TraceStep DEF IsResult, IsReplacement
  <2> QED
    BY <2>1, <2>2 DEF CallsAgree
<1> QED
  BY <1>1, <1>7, <1>8, <1>9, <1>10, <1>11, <1>12, EventIs DEF IsResult, IsReplacement

\* An open call still knows its record, and has no result.
LEMMA CallsTrueStep ==
  ASSUME NEW l \in Seq(Event), NEW e, Fits(l, e),
         NEW p, p = Scan(l), NEW t, t = SeedSession(l),
         FoldsAgree(p, t), CallsAgree(p, t), CallsTrue(l, p), Placed(l, p, t),
         NEW r, r = Scan(Append(l, e))
  PROVE  CallsTrue(Append(l, e), r)
<1> DEFINE m == Append(l, e)
<1>1. e \in Event /\ p \in ScanState /\ r \in ScanState
  BY ScanStep DEF Fits, FoldsAgree
<1>2. /\ p.pendingCalls \in Seq(Pending) /\ r.pendingCalls \in Seq(Pending)
      /\ Len(p.pendingCalls) \in Nat /\ DOMAIN p.pendingCalls = 1..Len(p.pendingCalls)
      /\ Len(r.pendingCalls) \in Nat /\ DOMAIN r.pendingCalls = 1..Len(r.pendingCalls)
  <2>1. p.pendingCalls \in Seq(Pending) /\ r.pendingCalls \in Seq(Pending)
    BY <1>1 DEF ScanState
  <2> QED
    BY <2>1
<1>3. /\ Len(l) \in Nat /\ DOMAIN l = 1..Len(l) /\ Len(m) = Len(l) + 1 /\ m[Len(l) + 1] = e
      /\ \A k \in 1..Len(l) : m[k] = l[k]
  BY <1>1, Appended
<1>4. \A a, b, c : Answered(m, a, b, c) <=>
            Answered(l, a, b, c) \/ (IsResult(e) /\ e.turn = a /\ e.step = b /\ e.call = c)
  BY <1>1, AnsweredAppend
<1>5. \A a, b, c : Recorded(m, a, b, c) <=> Recorded(l, a, b, c) \/ e = ToolCall(a, b, c)
  BY <1>1, RecordedAppend
<1>6. \A a, b : HasMessage(m, a, b) <=>
            HasMessage(l, a, b) \/ (e.type = "assistant/message" /\ e.turn = a /\ e.step = b)
  BY <1>1, HasMessageAppend
<1> HIDE DEF m
<1>7. p.pendingCalls # <<>> => HasMessage(l, p.openTurn, p.openStep)
  BY DEF CallsTrue
<1>8. \A i \in DOMAIN p.pendingCalls :
          /\ ~Answered(l, p.openTurn, p.openStep, p.pendingCalls[i].call)
          /\ p.pendingCalls[i].callSeq = 0 =>
                ~Recorded(l, p.openTurn, p.openStep, p.pendingCalls[i].call)
          /\ p.pendingCalls[i].callSeq # 0 =>
                /\ p.pendingCalls[i].callSeq \in 1..Len(l)
                /\ l[p.pendingCalls[i].callSeq] =
                      ToolCall(p.openTurn, p.openStep, p.pendingCalls[i].call)
  BY DEF CallsTrue
<1>9. ASSUME r.openTurn = p.openTurn, r.openStep = p.openStep,
             r.pendingCalls # <<>> => HasMessage(m, r.openTurn, r.openStep),
             \A i \in DOMAIN r.pendingCalls :
                 /\ ~Answered(m, p.openTurn, p.openStep, r.pendingCalls[i].call)
                 /\ r.pendingCalls[i].callSeq = 0 =>
                       ~Recorded(m, p.openTurn, p.openStep, r.pendingCalls[i].call)
                 /\ r.pendingCalls[i].callSeq # 0 =>
                       /\ r.pendingCalls[i].callSeq \in 1..Len(m)
                       /\ m[r.pendingCalls[i].callSeq] =
                             ToolCall(p.openTurn, p.openStep, r.pendingCalls[i].call)
      PROVE  CallsTrue(m, r)
  BY <1>9 DEF CallsTrue
<1>10. ASSUME r.pendingCalls = <<>> PROVE CallsTrue(m, r)
  <2>1. DOMAIN r.pendingCalls = {}
    BY <1>10
  <2> QED
    BY <1>10, <2>1 DEF CallsTrue
<1>11. CASE e.type \in {"turn/start", "turn/end", "step/start", "step/end"}
  <2>1. e.type = "step/start" => r.pendingCalls = p.pendingCalls /\ p.openStep = 0
    BY ScanStep DEF Fits
  <2>2. p.openStep = 0 => p.pendingCalls = <<>>
    BY DEF FoldsAgree
  <2>3. e.type # "step/start" => r.pendingCalls = <<>>
    BY <1>11, ScanStep
  <2> QED
    BY <1>10, <2>1, <2>2, <2>3 DEF m
<1>12. CASE e.type = "assistant/message"
  <2>1. /\ r.openTurn = p.openTurn /\ r.openStep = p.openStep
        /\ Len(r.pendingCalls) = Len(e.calls)
        /\ \A i \in 1..Len(e.calls) :
              r.pendingCalls[i] = [call |-> e.calls[i], step |-> e.step, callSeq |-> 0]
    BY <1>12, ScanStep
  <2>2. p.openTurn = e.turn /\ p.openStep = e.step /\ ~HasMessage(l, e.turn, e.step)
    BY <1>12 DEF Fits, OfStep
  <2>3. HasMessage(m, r.openTurn, r.openStep)
    BY <1>6, <1>12, <2>1, <2>2
  <2>4. ASSUME NEW c
        PROVE  ~Answered(m, p.openTurn, p.openStep, c) /\ ~Recorded(m, p.openTurn, p.openStep, c)
    <3>1. ~Answered(l, p.openTurn, p.openStep, c)
      BY <2>2 DEF Answered, Placed
    <3>2. ~Recorded(l, p.openTurn, p.openStep, c)
      <4>1. ASSUME NEW j \in DOMAIN l, l[j] = ToolCall(p.openTurn, p.openStep, c)
            PROVE  FALSE
        <5>1. l[j].type = "tool/call" /\ l[j].turn = p.openTurn /\ l[j].step = p.openStep
          BY <4>1 DEF ToolCall
        <5>2. HasMessage(l, l[j].turn, l[j].step)
          BY <5>1 DEF Placed
        <5> QED
          BY <2>2, <5>1, <5>2
      <4> QED
        BY <4>1 DEF Recorded
    <3>3. e # ToolCall(p.openTurn, p.openStep, c) /\ ~IsResult(e)
      BY <1>12 DEF ToolCall, IsResult
    <3> QED
      BY <1>4, <1>5, <3>1, <3>2, <3>3
  <2>5. \A i \in DOMAIN r.pendingCalls : r.pendingCalls[i].callSeq = 0
    <3>1. ASSUME NEW i \in DOMAIN r.pendingCalls
          PROVE  r.pendingCalls[i] = [call |-> e.calls[i], step |-> e.step, callSeq |-> 0]
      BY <1>2, <2>1
    <3>2. ASSUME NEW i \in DOMAIN r.pendingCalls, NEW c,
                 r.pendingCalls[i] = [call |-> c, step |-> e.step, callSeq |-> 0]
          PROVE  r.pendingCalls[i].callSeq = 0
      BY <3>2
    <3> QED
      BY <3>1, <3>2
  <2> QED
    BY <1>9, <2>1, <2>3, <2>4, <2>5 DEF m
<1>13. CASE e.type = "tool/call"
  <2>1. /\ r.openTurn = p.openTurn /\ r.openStep = p.openStep
        /\ DOMAIN r.pendingCalls = DOMAIN p.pendingCalls
        /\ \A i \in DOMAIN p.pendingCalls :
               /\ r.pendingCalls[i].call = p.pendingCalls[i].call
               /\ r.pendingCalls[i].callSeq =
                      IF p.pendingCalls[i].call = e.call THEN Len(l) + 1
                      ELSE p.pendingCalls[i].callSeq
    BY <1>2, <1>13, ScanStep
  <2>2. e = ToolCall(p.openTurn, p.openStep, e.call)
    <3>1. e = ToolCall(e.turn, e.step, e.call)
      BY <1>1, <1>13, EventIs
    <3>2. p.openTurn = e.turn /\ p.openStep = e.step
      BY <1>13 DEF Fits, OfStep
    <3> QED
      BY <3>1, <3>2
  <2>3. p.pendingCalls # <<>>
    <3>1. PICK k \in DOMAIN p.pendingCalls : p.pendingCalls[k].call = e.call
      BY <1>13 DEF Fits
    <3> QED
      BY <3>1
  <2>4. HasMessage(m, r.openTurn, r.openStep)
    BY <1>6, <1>7, <2>1, <2>3
  <2>5. ASSUME NEW i \in DOMAIN r.pendingCalls
        PROVE  /\ ~Answered(m, p.openTurn, p.openStep, r.pendingCalls[i].call)
               /\ r.pendingCalls[i].callSeq = 0 =>
                     ~Recorded(m, p.openTurn, p.openStep, r.pendingCalls[i].call)
               /\ r.pendingCalls[i].callSeq # 0 =>
                     /\ r.pendingCalls[i].callSeq \in 1..Len(m)
                     /\ m[r.pendingCalls[i].callSeq] =
                           ToolCall(p.openTurn, p.openStep, r.pendingCalls[i].call)
    <3>1. ~IsResult(e)
      BY <1>13 DEF IsResult
    <3>2. ~Answered(m, p.openTurn, p.openStep, r.pendingCalls[i].call)
      BY <1>4, <1>8, <2>1, <3>1
    <3>3. CASE p.pendingCalls[i].call = e.call
      <4>1. r.pendingCalls[i].callSeq = Len(l) + 1 /\ r.pendingCalls[i].call = e.call
        BY <2>1, <3>3
      <4> QED
        BY <1>3, <2>2, <3>2, <4>1
    <3>4. CASE p.pendingCalls[i].call # e.call
      <4>1. /\ r.pendingCalls[i].callSeq = p.pendingCalls[i].callSeq
            /\ r.pendingCalls[i].call = p.pendingCalls[i].call /\ i \in DOMAIN p.pendingCalls
        BY <2>1, <3>4
      <4>2. e # ToolCall(p.openTurn, p.openStep, p.pendingCalls[i].call)
        BY <3>4 DEF ToolCall
      <4>3. 1..Len(l) \subseteq 1..Len(m)
        BY <1>3
      <4> QED
        BY <1>3, <1>5, <1>8, <3>2, <4>1, <4>2, <4>3
    <3> QED
      BY <3>3, <3>4
  <2> QED
    BY <1>9, <2>1, <2>4, <2>5 DEF m
<1>14. CASE IsResult(e)
  <2>1. /\ r.openTurn = p.openTurn /\ r.openStep = p.openStep
        /\ r.pendingCalls = Tail(p.pendingCalls)
    BY <1>14, ScanStep DEF IsResult
  <2>2. p.pendingCalls # <<>> /\ e.call = p.pendingCalls[1].call
    BY <1>14 DEF Fits
  <2>3. PICK n \in Nat : /\ n = Len(r.pendingCalls) /\ Len(p.pendingCalls) = n + 1
                         /\ DOMAIN r.pendingCalls = 1..n
    <3>1. Len(Tail(p.pendingCalls)) = Len(p.pendingCalls) - 1
      BY <1>2, <2>2
    <3>2. Len(p.pendingCalls) = Len(r.pendingCalls) + 1
      BY <1>2, <2>1, <3>1
    <3> QED
      BY <1>2, <3>2
  <2>4. HasMessage(m, r.openTurn, r.openStep)
    BY <1>6, <1>7, <2>1, <2>2
  <2>5. ASSUME NEW i \in DOMAIN r.pendingCalls
        PROVE  /\ ~Answered(m, p.openTurn, p.openStep, r.pendingCalls[i].call)
               /\ r.pendingCalls[i].callSeq = 0 =>
                     ~Recorded(m, p.openTurn, p.openStep, r.pendingCalls[i].call)
               /\ r.pendingCalls[i].callSeq # 0 =>
                     /\ r.pendingCalls[i].callSeq \in 1..Len(m)
                     /\ m[r.pendingCalls[i].callSeq] =
                           ToolCall(p.openTurn, p.openStep, r.pendingCalls[i].call)
    <3>1. /\ i + 1 \in DOMAIN p.pendingCalls /\ 1 \in DOMAIN p.pendingCalls /\ i + 1 # 1
          /\ r.pendingCalls[i] = p.pendingCalls[i + 1]
      BY <1>2, <2>1, <2>2, <2>3
    <3>2. p.pendingCalls[i + 1].call # e.call
      BY <2>2, <3>1 DEF CallsAgree
    <3>3. \A c : e # ToolCall(p.openTurn, p.openStep, c)
      BY <1>14 DEF ToolCall, IsResult
    <3>4. 1..Len(l) \subseteq 1..Len(m)
      BY <1>3
    <3> QED
      BY <1>3, <1>4, <1>5, <1>8, <3>1, <3>2, <3>3, <3>4
  <2> QED
    BY <1>9, <2>1, <2>4, <2>5 DEF m
<1>15. CASE IsReplacement(e) \/ e.type \in {"assistant/chunk", "request/header",
                                            "session/end-seed"}
  <2>1. r = p
    BY <1>15, ScanStep
  <2>2. ~IsResult(e) /\ \A c : e # ToolCall(p.openTurn, p.openStep, c)
    BY <1>15 DEF ToolCall, IsResult, IsReplacement
  <2>3. 1..Len(l) \subseteq 1..Len(m)
    BY <1>3
  <2>4. r.pendingCalls # <<>> => HasMessage(m, r.openTurn, r.openStep)
    BY <1>6, <1>7, <2>1
  <2>5. \A i \in DOMAIN r.pendingCalls :
               /\ ~Answered(m, p.openTurn, p.openStep, r.pendingCalls[i].call)
               /\ r.pendingCalls[i].callSeq = 0 =>
                     ~Recorded(m, p.openTurn, p.openStep, r.pendingCalls[i].call)
               /\ r.pendingCalls[i].callSeq # 0 =>
                     /\ r.pendingCalls[i].callSeq \in 1..Len(m)
                     /\ m[r.pendingCalls[i].callSeq] =
                           ToolCall(p.openTurn, p.openStep, r.pendingCalls[i].call)
    BY <1>3, <1>4, <1>5, <1>8, <2>1, <2>2, <2>3
  <2> QED
    BY <1>9, <2>1, <2>4, <2>5 DEF m
<1> QED
  BY <1>1, <1>11, <1>12, <1>13, <1>14, <1>15, EventIs DEF m, IsResult, IsReplacement

\* The events of a step stay in the past, or in the step that is open.
LEMMA PlacedStep ==
  ASSUME NEW l \in Seq(Event), NEW e, Fits(l, e),
         NEW p, p = Scan(l), NEW t, t = SeedSession(l),
         FoldsAgree(p, t), CallsAgree(p, t), CallsTrue(l, p), Placed(l, p, t),
         NEW r, r = Scan(Append(l, e)), NEW u, u = SeedSession(Append(l, e))
  PROVE  Placed(Append(l, e), r, u)
<1> DEFINE m == Append(l, e)
<1>1. e \in Event /\ p \in ScanState /\ t \in TraceState
  BY DEF Fits, FoldsAgree
<1>2. /\ Len(l) \in Nat /\ DOMAIN l = 1..Len(l) /\ DOMAIN m = 1..(Len(l) + 1)
      /\ m[Len(l) + 1] = e
      /\ \A k \in 1..Len(l) : l[k] \in Event /\ m[k] = l[k]
  BY <1>1, Appended
<1>3. \A a, b : HasMessage(m, a, b) <=>
            HasMessage(l, a, b) \/ (e.type = "assistant/message" /\ e.turn = a /\ e.step = b)
  BY <1>1, HasMessageAppend
<1> HIDE DEF m
<1>4. /\ t.nextTurn \in Nat /\ t.nextStep \in Nat
      /\ t.openTurn = p.openTurn /\ t.openStep = p.openStep
      /\ p.openTurn # 0 => p.openTurn = t.nextTurn
      /\ p.openStep # 0 => p.openStep = t.nextStep
      /\ p.openTurn = 0 => p.openStep = 0
  BY <1>1 DEF FoldsAgree, TraceState
<1>5. Turns \subseteq Nat \ {0} /\ Steps \subseteq Nat \ {0}
  BY BoundsAssumption DEF Turns, Steps
<1>6. \A x \in Event : OfStep(x) =>
          /\ x.turn \in Nat \ {0} /\ x.step \in Nat \ {0}
          /\ x.type \notin {"turn/start", "turn/end", "step/start"}
  <2>1. ASSUME NEW x \in Event, OfStep(x)
        PROVE  x.turn \in Turns /\ x.step \in Steps
               /\ x.type \notin {"turn/start", "turn/end", "step/start"}
    <3>1. x.type \in {"step/end", "assistant/chunk", "assistant/message", "tool/call",
                      "tool/result"}
      BY <2>1 DEF OfStep, IsResult
    <3> QED
      BY <3>1, EventIs
  <2> QED
    BY <1>5, <2>1
<1>7. ASSUME NEW k \in 1..Len(l), OfStep(l[k])
      PROVE  Past(l[k], u) \/ (Current(l[k], r) /\ l[k].type # "step/end")
  <2> DEFINE x == l[k]
  <2>1. /\ x \in Event /\ x.turn \in Nat \ {0} /\ x.step \in Nat \ {0}
    BY <1>2, <1>6, <1>7
  <2>2. Past(x, t) \/ (Current(x, p) /\ x.type # "step/end")
    BY <1>2, <1>7 DEF Placed
  <2> HIDE DEF x
  <2>3. CASE e.type = "turn/start"
    <3>1. p.openTurn = 0 /\ u.nextTurn = t.nextTurn
      BY <2>3, TraceStep DEF Fits
    <3> QED
      BY <1>4, <2>1, <2>2, <3>1 DEF Past, Current, x
  <2>4. CASE e.type = "turn/end"
    <3>1. p.openTurn = e.turn /\ p.openStep = 0 /\ u.nextTurn = t.nextTurn + 1
      BY <2>4, TraceStep DEF Fits
    <3> QED
      BY <1>4, <2>1, <2>2, <3>1 DEF Past, Current, x
  <2>5. CASE e.type = "step/start"
    <3>1. p.openStep = 0 /\ u.nextTurn = t.nextTurn /\ u.nextStep = t.nextStep
          /\ u.openTurn = t.openTurn
      BY <2>5, TraceStep DEF Fits
    <3> QED
      BY <1>4, <2>1, <2>2, <3>1 DEF Past, Current, x
  <2>6. CASE e.type = "step/end"
    <3>1. p.openTurn = e.turn /\ p.openStep = e.step
          /\ u.nextTurn = t.nextTurn /\ u.nextStep = t.nextStep + 1
          /\ u.openTurn = t.openTurn
      BY <2>6, TraceStep DEF Fits, OfStep
    <3> QED
      BY <1>4, <2>1, <2>2, <3>1 DEF Past, Current, x
  <2>7. CASE e.type \notin {"turn/start", "turn/end", "step/start", "step/end"}
    <3>1. r.openTurn = p.openTurn /\ r.openStep = p.openStep
          /\ u.nextTurn = t.nextTurn /\ u.nextStep = t.nextStep
          /\ u.openTurn = t.openTurn
      BY <2>7, ScanStep, TraceStep
    <3> QED
      BY <2>2, <3>1 DEF Past, Current, x
  <2> QED
    BY <2>3, <2>4, <2>5, <2>6, <2>7
<1>8. OfStep(e) => Past(e, u) \/ (Current(e, r) /\ e.type # "step/end")
  <2>1. ASSUME OfStep(e), e.type = "step/end" PROVE Past(e, u)
    <3>1. p.openTurn = e.turn /\ p.openStep = e.step
          /\ u.nextTurn = t.nextTurn /\ u.nextStep = t.nextStep + 1
          /\ u.openTurn = t.openTurn
      BY <2>1, TraceStep DEF Fits
    <3>2. e.step \in Nat \ {0}
      BY <1>1, <1>6, <2>1
    <3> QED
      BY <1>4, <3>1, <3>2 DEF Past
  <2>2. ASSUME OfStep(e), e.type # "step/end" PROVE Current(e, r)
    <3>1. e.type \notin {"turn/start", "turn/end", "step/start", "step/end"}
      BY <1>1, <1>6, <2>2
    <3>2. p.openTurn = e.turn /\ p.openStep = e.step
      BY <2>2 DEF Fits
    <3>3. r.openTurn = p.openTurn /\ r.openStep = p.openStep
      BY <3>1, ScanStep
    <3> QED
      BY <3>2, <3>3 DEF Current
  <2> QED
    BY <2>1, <2>2
<1>9. ASSUME e.type = "tool/call" \/ IsResult(e) PROVE HasMessage(m, e.turn, e.step)
  <2>1. p.pendingCalls # <<>>
    <3>1. CASE e.type = "tool/call"
      <4>1. PICK i \in DOMAIN p.pendingCalls : p.pendingCalls[i].call = e.call
        BY <3>1 DEF Fits
      <4> QED
        BY <4>1
    <3>2. CASE IsResult(e)
      BY <3>2 DEF Fits
    <3> QED
      BY <1>9, <3>1, <3>2
  <2>2. p.openTurn = e.turn /\ p.openStep = e.step
    BY <1>9 DEF Fits, OfStep
  <2>3. HasMessage(l, p.openTurn, p.openStep)
    BY <2>1 DEF CallsTrue
  <2> QED
    BY <1>3, <2>2, <2>3
<1>10. \A k \in 1..Len(l) : l[k].type = "tool/call" \/ IsResult(l[k]) =>
            HasMessage(m, l[k].turn, l[k].step)
  BY <1>2, <1>3 DEF Placed
<1>11. ASSUME NEW k \in DOMAIN m
       PROVE  /\ OfStep(m[k]) => Past(m[k], u) \/ (Current(m[k], r) /\ m[k].type # "step/end")
              /\ m[k].type = "tool/call" \/ IsResult(m[k]) => HasMessage(m, m[k].turn, m[k].step)
  <2>1. k \in 1..Len(l) \/ k = Len(l) + 1
    BY <1>2
  <2>2. CASE k \in 1..Len(l)
    <3>1. m[k] = l[k]
      BY <1>2, <2>2
    <3> QED
      BY <1>7, <1>10, <2>2, <3>1
  <2>3. CASE k = Len(l) + 1
    <3>1. m[k] = e
      BY <1>2, <2>3
    <3> QED
      BY <1>8, <1>9, <3>1
  <2> QED
    BY <2>1, <2>2, <2>3
<1> QED
  BY <1>11 DEF Placed, m

\* Nobody's answer is lost.
LEMMA AllAnsweredStep ==
  ASSUME NEW l \in Seq(Event), NEW e, Fits(l, e),
         NEW p, p = Scan(l), NEW t, t = SeedSession(l),
         FoldsAgree(p, t), CallsAgree(p, t), Placed(l, p, t), AllAnswered(l, p),
         NEW r, r = Scan(Append(l, e))
  PROVE  AllAnswered(Append(l, e), r)
<1> DEFINE m == Append(l, e)
<1>1. e \in Event /\ p \in ScanState /\ t \in TraceState /\ r \in ScanState
  BY ScanStep DEF Fits, FoldsAgree
<1>2. /\ Len(l) \in Nat /\ DOMAIN l = 1..Len(l) /\ DOMAIN m = 1..(Len(l) + 1)
      /\ m[Len(l) + 1] = e
      /\ \A k \in 1..Len(l) : l[k] \in Event /\ m[k] = l[k]
  BY <1>1, Appended
<1>3. \A a, b, c : Answered(m, a, b, c) <=>
            Answered(l, a, b, c) \/ (IsResult(e) /\ e.turn = a /\ e.step = b /\ e.call = c)
  BY <1>1, AnsweredAppend
<1> HIDE DEF m
<1>4. /\ t.nextTurn \in Nat /\ t.nextStep \in Nat
      /\ t.openTurn = p.openTurn /\ t.openStep = p.openStep
      /\ p.openTurn # 0 => p.openTurn = t.nextTurn
      /\ p.openStep # 0 => p.openStep = t.nextStep
      /\ p.openTurn = 0 => p.openStep = 0
      /\ p.openStep = 0 => p.pendingCalls = <<>>
  BY <1>1 DEF FoldsAgree, TraceState
<1>5. /\ p.pendingCalls \in Seq(Pending) /\ r.pendingCalls \in Seq(Pending)
      /\ Len(p.pendingCalls) \in Nat /\ DOMAIN p.pendingCalls = 1..Len(p.pendingCalls)
      /\ Len(r.pendingCalls) \in Nat /\ DOMAIN r.pendingCalls = 1..Len(r.pendingCalls)
  <2>1. p.pendingCalls \in Seq(Pending) /\ r.pendingCalls \in Seq(Pending)
    BY <1>1 DEF ScanState
  <2> QED
    BY <2>1
<1>6. Turns \subseteq Nat \ {0} /\ Steps \subseteq Nat \ {0}
  BY BoundsAssumption DEF Turns, Steps
<1>8. ASSUME NEW k \in 1..Len(l), l[k].type = "assistant/message",
             NEW i \in DOMAIN l[k].calls
      PROVE  \/ Answered(m, l[k].turn, l[k].step, l[k].calls[i])
             \/ /\ Current(l[k], r)
                /\ \E j \in DOMAIN r.pendingCalls : r.pendingCalls[j].call = l[k].calls[i]
             \/ /\ ~Current(l[k], r)
                /\ \A j \in DOMAIN m : m[j] # StepEnd(l[k].turn, l[k].step, FALSE)
  <2> DEFINE x == l[k]
             c == l[k].calls[i]
  <2>1. x.turn \in Nat \ {0} /\ x.step \in Nat \ {0} /\ x \in Event
    <3>1. x.turn \in Turns /\ x.step \in Steps /\ x \in Event
      BY <1>2, <1>8, EventIs
    <3> QED
      BY <1>6, <3>1
  <2>2. \/ Answered(l, x.turn, x.step, c)
        \/ Current(x, p) /\ \E j \in DOMAIN p.pendingCalls : p.pendingCalls[j].call = c
        \/ ~Current(x, p) /\ \A j \in DOMAIN l : l[j] # StepEnd(x.turn, x.step, FALSE)
    BY <1>2, <1>8 DEF AllAnswered
  <2>3. Past(x, t) \/ Current(x, p)
    <3>1. OfStep(x)
      BY <1>8 DEF OfStep
    <3> QED
      BY <1>2, <3>1 DEF Placed
  <2> HIDE DEF x, c
  <2>7. PICK y : /\ y = StepEnd(x.turn, x.step, FALSE) /\ y.type = "step/end"
                 /\ y.turn = x.turn /\ y.step = x.step /\ y.failed = FALSE
    <3>1. PICK y : y = StepEnd(x.turn, x.step, FALSE)
      OBVIOUS
    <3>2. /\ y.type = "step/end" /\ y.turn = x.turn /\ y.step = x.step
          /\ y.failed = FALSE
      BY <3>1 DEF StepEnd
    <3> QED
      BY <3>1, <3>2
  <2>4. CASE Answered(l, x.turn, x.step, c)
    BY <1>3, <2>4 DEF x, c
  <2>5. CASE Current(x, p) /\ \E j \in DOMAIN p.pendingCalls : p.pendingCalls[j].call = c
    <3>1. PICK j \in DOMAIN p.pendingCalls : p.pendingCalls[j].call = c
      BY <2>5
    <3>2. p.pendingCalls # <<>> /\ p.openStep # 0 /\ p.openTurn # 0
      BY <1>4, <3>1
    <3>3. e.type \notin {"turn/start", "turn/end", "step/start", "assistant/message"}
      BY <3>2 DEF Fits
    <3>4. ~IsReplacement(e)
      BY <3>2 DEF Fits
    <3>5. CASE e.type = "step/end"
      <4>1. e.failed # FALSE
        BY <3>2, <3>5 DEF Fits
      <4>2. r.openStep = 0
        BY <3>5, ScanStep
      <4>3. ~Current(x, r)
        BY <2>1, <4>2 DEF Current
      <4>4. ASSUME NEW n \in DOMAIN m, m[n] = StepEnd(x.turn, x.step, FALSE)
            PROVE  FALSE
        <5>1. n \in 1..Len(l)
          <6>1. n # Len(l) + 1
            BY <1>2, <2>7, <4>1, <4>4
          <6> QED
            BY <1>2, <6>1
        <5>2. l[n].type = "step/end" /\ l[n].turn = x.turn /\ l[n].step = x.step
          BY <1>2, <2>7, <4>4, <5>1
        <5>3. OfStep(l[n])
          BY <5>2 DEF OfStep
        <5>4. Past(l[n], t)
          BY <1>2, <5>1, <5>2, <5>3 DEF Placed
        <5>5. x.turn = t.nextTurn /\ x.step = t.nextStep
          BY <1>4, <2>5, <3>2 DEF Current
        <5> QED
          BY <1>4, <5>2, <5>4, <5>5 DEF Past
      <4> QED
        BY <4>3, <4>4 DEF x
    <3>6. CASE e.type = "tool/call"
      <4>1. /\ r.openTurn = p.openTurn /\ r.openStep = p.openStep
            /\ DOMAIN r.pendingCalls = DOMAIN p.pendingCalls
            /\ r.pendingCalls[j].call = p.pendingCalls[j].call
        BY <1>5, <3>6, ScanStep
      <4> QED
        BY <2>5, <3>1, <4>1 DEF Current, x, c
    <3>7. CASE IsResult(e)
      <4>1. /\ r.openTurn = p.openTurn /\ r.openStep = p.openStep
            /\ r.pendingCalls = Tail(p.pendingCalls)
        BY <3>7, ScanStep DEF IsResult
      <4>2. /\ e.call = p.pendingCalls[1].call
            /\ p.openTurn = e.turn /\ p.openStep = e.step
        BY <3>7 DEF Fits, OfStep
      <4>3. CASE j = 1
        <5>1. e.turn = x.turn /\ e.step = x.step /\ e.call = c
          BY <2>5, <3>1, <4>2, <4>3 DEF Current
        <5> QED
          BY <1>3, <3>7, <5>1 DEF x, c
      <4>4. CASE j # 1
        <5>1. /\ Len(Tail(p.pendingCalls)) = Len(p.pendingCalls) - 1
              /\ \A n \in 1..(Len(p.pendingCalls) - 1) :
                    Tail(p.pendingCalls)[n] = p.pendingCalls[n + 1]
          BY <1>5, <3>2
        <5>2. j - 1 \in 1..(Len(p.pendingCalls) - 1) /\ (j - 1) + 1 = j
          BY <1>5, <4>4
        <5>3. r.pendingCalls[j - 1] = p.pendingCalls[j] /\ j - 1 \in DOMAIN r.pendingCalls
          BY <1>5, <4>1, <5>1, <5>2
        <5> QED
          BY <2>5, <3>1, <4>1, <5>3 DEF Current, x, c
      <4> QED
        BY <4>3, <4>4
    <3>8. CASE e.type \in {"assistant/chunk", "request/header", "session/end-seed"}
      <4>1. r = p
        BY <3>8, ScanStep
      <4> QED
        BY <2>5, <4>1 DEF x, c
    <3> QED
      BY <1>1, <3>3, <3>4, <3>5, <3>6, <3>7, <3>8, EventIs DEF IsResult, IsReplacement
  <2>6. CASE ~Current(x, p) /\ \A j \in DOMAIN l : l[j] # StepEnd(x.turn, x.step, FALSE)
    <3>1. ~Current(x, r)
      <4>1. CASE e.type \in {"turn/start", "turn/end", "step/end"}
        <5>1. r.openStep = 0
          BY <4>1, ScanStep
        <5> QED
          BY <2>1, <5>1 DEF Current
      <4>2. CASE e.type = "step/start"
        <5>1. /\ r.openTurn = p.openTurn /\ r.openStep = e.step
              /\ p.openTurn = e.turn /\ e.step = t.nextStep
          BY <4>2, ScanStep DEF Fits
        <5>2. Past(x, t)
          BY <2>3, <2>6
        <5>3. x.turn = p.openTurn => p.openTurn = t.nextTurn
          BY <1>4, <2>1
        <5> QED
          BY <1>4, <2>1, <5>1, <5>2, <5>3 DEF Past, Current
      <4>3. CASE e.type \notin {"turn/start", "turn/end", "step/start", "step/end"}
        <5>1. r.openTurn = p.openTurn /\ r.openStep = p.openStep
          BY <4>3, ScanStep
        <5> QED
          BY <2>6, <5>1 DEF Current
      <4> QED
        BY <4>1, <4>2, <4>3
    <3>2. e # StepEnd(x.turn, x.step, FALSE)
      <4>1. e.type = "step/end" => p.openTurn = e.turn /\ p.openStep = e.step
        BY DEF Fits, OfStep
      <4> QED
        BY <2>6, <2>7, <4>1 DEF Current
    <3>3. \A j \in DOMAIN m : m[j] # StepEnd(x.turn, x.step, FALSE)
      <4>1. \A j \in DOMAIN m : j \in 1..Len(l) \/ j = Len(l) + 1
        BY <1>2
      <4> QED
        BY <1>2, <2>6, <3>2, <4>1
    <3> QED
      BY <3>1, <3>3 DEF x
  <2> QED
    BY <2>2, <2>4, <2>5, <2>6 DEF x, c
<1>9. ASSUME e.type = "assistant/message", NEW i \in DOMAIN e.calls
      PROVE  /\ Current(e, r)
             /\ \E j \in DOMAIN r.pendingCalls : r.pendingCalls[j].call = e.calls[i]
  <2>1. /\ r.openTurn = p.openTurn /\ r.openStep = p.openStep
        /\ Len(r.pendingCalls) = Len(e.calls)
        /\ \A j \in 1..Len(e.calls) :
              r.pendingCalls[j] = [call |-> e.calls[j], step |-> e.step, callSeq |-> 0]
    BY <1>9, ScanStep
  <2>2. p.openTurn = e.turn /\ p.openStep = e.step
    BY <1>9 DEF Fits, OfStep
  <2>3. DOMAIN e.calls = 1..Len(e.calls)
    <3>1. e.step \in Steps /\ e.calls \in Messages
      BY <1>1, <1>9, EventIs
    <3>2. e.calls \in Seq(CallId)
      BY <3>1, RegisteredIs
    <3> QED
      BY <3>2
  <2>4. i \in DOMAIN r.pendingCalls
        /\ r.pendingCalls[i] = [call |-> e.calls[i], step |-> e.step, callSeq |-> 0]
    BY <1>5, <2>1, <2>3
  <2>5. r.pendingCalls[i].call = e.calls[i]
    BY <2>4
  <2> QED
    BY <2>1, <2>2, <2>4, <2>5 DEF Current
<1>10. ASSUME NEW k \in DOMAIN m, m[k].type = "assistant/message", NEW i \in DOMAIN m[k].calls
       PROVE  \/ Answered(m, m[k].turn, m[k].step, m[k].calls[i])
              \/ /\ Current(m[k], r)
                 /\ \E j \in DOMAIN r.pendingCalls : r.pendingCalls[j].call = m[k].calls[i]
              \/ /\ ~Current(m[k], r)
                 /\ \A j \in DOMAIN m : m[j] # StepEnd(m[k].turn, m[k].step, FALSE)
  <2>1. k \in 1..Len(l) \/ k = Len(l) + 1
    BY <1>2
  <2>2. CASE k \in 1..Len(l)
    <3>1. m[k] = l[k]
      BY <1>2, <2>2
    <3> QED
      BY <1>8, <1>10, <2>2, <3>1
  <2>3. CASE k = Len(l) + 1
    <3>1. m[k] = e
      BY <1>2, <2>3
    <3> QED
      BY <1>9, <1>10, <3>1
  <2> QED
    BY <2>1, <2>2, <2>3
<1> QED
  BY <1>10 DEF AllAnswered, m

\* No call is answered a second time.
LEMMA OneResultStep ==
  ASSUME NEW l \in Seq(Event), NEW e, Fits(l, e), NEW p, p = Scan(l),
         FoldsAgree(p, SeedSession(l)), CallsTrue(l, p), OneResult(l)
  PROVE  OneResult(Append(l, e))
<1> DEFINE m == Append(l, e)
<1>1. e \in Event /\ p \in ScanState
  BY DEF Fits, FoldsAgree
<1>2. /\ Len(l) \in Nat /\ DOMAIN l = 1..Len(l) /\ DOMAIN m = 1..(Len(l) + 1)
      /\ m[Len(l) + 1] = e /\ \A k \in 1..Len(l) : m[k] = l[k]
  BY <1>1, Appended
<1> HIDE DEF m
<1>3. ASSUME NEW j \in 1..Len(l), IsResult(l[j]), IsResult(e),
             l[j].turn = e.turn, l[j].step = e.step, l[j].call = e.call
      PROVE  FALSE
  <2>1. /\ p.openTurn = e.turn /\ p.openStep = e.step
        /\ p.pendingCalls # <<>> /\ e.call = p.pendingCalls[1].call
    BY <1>3 DEF Fits, OfStep
  <2>2. 1 \in DOMAIN p.pendingCalls
    <3>1. p.pendingCalls \in Seq(Pending)
      BY <1>1 DEF ScanState
    <3> QED
      BY <2>1, <3>1
  <2>3. ~Answered(l, p.openTurn, p.openStep, p.pendingCalls[1].call)
    BY <2>2 DEF CallsTrue
  <2> QED
    BY <1>2, <1>3, <2>1, <2>3 DEF Answered
<1>4. ASSUME NEW j \in DOMAIN m, NEW k \in DOMAIN m, IsResult(m[j]), IsResult(m[k]),
             m[j].turn = m[k].turn, m[j].step = m[k].step, m[j].call = m[k].call
      PROVE  j = k
  <2>1. /\ j \in 1..Len(l) \/ j = Len(l) + 1
        /\ k \in 1..Len(l) \/ k = Len(l) + 1
    BY <1>2
  <2>2. CASE j \in 1..Len(l) /\ k \in 1..Len(l)
    <3>1. m[j] = l[j] /\ m[k] = l[k]
      BY <1>2, <2>2
    <3> QED
      BY <1>2, <1>4, <2>2, <3>1 DEF OneResult
  <2>3. CASE j \in 1..Len(l) /\ k = Len(l) + 1
    <3>1. m[j] = l[j] /\ m[k] = e
      BY <1>2, <2>3
    <3> QED
      BY <1>3, <1>4, <2>3, <3>1
  <2>4. CASE j = Len(l) + 1 /\ k \in 1..Len(l)
    <3>1. m[j] = e /\ m[k] = l[k]
      BY <1>2, <2>4
    <3> QED
      BY <1>3, <1>4, <2>4, <3>1
  <2> QED
    BY <2>1, <2>2, <2>3, <2>4
<1> QED
  BY <1>4 DEF OneResult, m

\* Citations stay true.
LEMMA CitesStep ==
  ASSUME NEW l \in Seq(Event), NEW e, Fits(l, e), NEW p, p = Scan(l),
         FoldsAgree(p, SeedSession(l)), CallsTrue(l, p), Cites(l)
  PROVE  Cites(Append(l, e))
<1> DEFINE m == Append(l, e)
<1>1. e \in Event /\ p \in ScanState
  BY DEF Fits, FoldsAgree
<1>2. /\ Len(l) \in Nat /\ DOMAIN l = 1..Len(l) /\ DOMAIN m = 1..(Len(l) + 1)
      /\ m[Len(l) + 1] = e /\ \A k \in 1..Len(l) : m[k] = l[k]
  BY <1>1, Appended
<1>3. \A a, b, c : Recorded(m, a, b, c) <=> Recorded(l, a, b, c) \/ e = ToolCall(a, b, c)
  BY <1>1, RecordedAppend
<1> HIDE DEF m
<1>4. ASSUME NEW k \in 1..Len(l), IsResult(l[k])
      PROVE  IF l[k].how = "TOOL_NOT_STARTED"
             THEN l[k].cites = 0 /\ ~Recorded(m, l[k].turn, l[k].step, l[k].call)
             ELSE l[k].cites \in 1..(k - 1)
                  /\ m[l[k].cites] = ToolCall(l[k].turn, l[k].step, l[k].call)
  <2>1. IF l[k].how = "TOOL_NOT_STARTED"
        THEN l[k].cites = 0 /\ ~Recorded(l, l[k].turn, l[k].step, l[k].call)
        ELSE l[k].cites \in 1..(k - 1)
             /\ l[l[k].cites] = ToolCall(l[k].turn, l[k].step, l[k].call)
    BY <1>2, <1>4 DEF Cites
  <2>2. e # ToolCall(l[k].turn, l[k].step, l[k].call)
    <3>1. ASSUME e = ToolCall(l[k].turn, l[k].step, l[k].call) PROVE FALSE
      <4>1. /\ e.type = "tool/call" /\ e.turn = l[k].turn /\ e.step = l[k].step
            /\ e.call = l[k].call
        BY <3>1 DEF ToolCall
      <4>2. /\ p.openTurn = e.turn /\ p.openStep = e.step
            /\ \E i \in DOMAIN p.pendingCalls : p.pendingCalls[i].call = e.call
        BY <4>1 DEF Fits, OfStep
      <4>3. ~Answered(l, p.openTurn, p.openStep, e.call)
        BY <4>2 DEF CallsTrue
      <4> QED
        BY <1>2, <1>4, <4>1, <4>2, <4>3 DEF Answered
    <3> QED
      BY <3>1
  <2>3. 1..(k - 1) \subseteq 1..Len(l)
    BY <1>2
  <2> QED
    BY <1>2, <1>3, <2>1, <2>2, <2>3
<1>5. ASSUME IsResult(e)
      PROVE  IF e.how = "TOOL_NOT_STARTED"
             THEN e.cites = 0 /\ ~Recorded(m, e.turn, e.step, e.call)
             ELSE e.cites \in 1..Len(l) /\ m[e.cites] = ToolCall(e.turn, e.step, e.call)
  <2>1. /\ p.openTurn = e.turn /\ p.openStep = e.step
        /\ p.pendingCalls # <<>> /\ e.call = p.pendingCalls[1].call
        /\ e.cites = p.pendingCalls[1].callSeq
        /\ e.how = "TOOL_NOT_STARTED" <=> e.cites = 0
    BY <1>5 DEF Fits, OfStep
  <2>2. 1 \in DOMAIN p.pendingCalls
    <3>1. p.pendingCalls \in Seq(Pending)
      BY <1>1 DEF ScanState
    <3> QED
      BY <2>1, <3>1
  <2>3. /\ p.pendingCalls[1].callSeq = 0 =>
              ~Recorded(l, p.openTurn, p.openStep, p.pendingCalls[1].call)
        /\ p.pendingCalls[1].callSeq # 0 =>
              /\ p.pendingCalls[1].callSeq \in 1..Len(l)
              /\ l[p.pendingCalls[1].callSeq] =
                    ToolCall(p.openTurn, p.openStep, p.pendingCalls[1].call)
    BY <2>2 DEF CallsTrue
  <2>4. e # ToolCall(e.turn, e.step, e.call)
    <3>1. ToolCall(e.turn, e.step, e.call).type = "tool/call"
      BY DEF ToolCall
    <3> QED
      BY <1>5, <3>1 DEF IsResult
  <2> QED
    BY <1>2, <1>3, <2>1, <2>3, <2>4
<1>6. ASSUME NEW k \in DOMAIN m, IsResult(m[k])
      PROVE  IF m[k].how = "TOOL_NOT_STARTED"
             THEN m[k].cites = 0 /\ ~Recorded(m, m[k].turn, m[k].step, m[k].call)
             ELSE m[k].cites \in 1..(k - 1)
                  /\ m[m[k].cites] = ToolCall(m[k].turn, m[k].step, m[k].call)
  <2>1. k \in 1..Len(l) \/ k = Len(l) + 1
    BY <1>2
  <2>2. CASE k \in 1..Len(l)
    <3>1. m[k] = l[k]
      BY <1>2, <2>2
    <3> QED
      BY <1>4, <1>6, <2>2, <3>1
  <2>3. CASE k = Len(l) + 1
    <3>1. m[k] = e /\ k - 1 = Len(l)
      BY <1>2, <2>3
    <3> QED
      BY <1>5, <1>6, <3>1
  <2> QED
    BY <2>1, <2>2, <2>3
<1> QED
  BY <1>6 DEF Cites, m

\* The last boundary goes on telling what is open.
LEMMA BoundedStep ==
  ASSUME NEW l \in Seq(Event), NEW e, Fits(l, e),
         NEW p, p = Scan(l), NEW t, t = SeedSession(l),
         FoldsAgree(p, t), CallsAgree(p, t), Bounded(l, p, t),
         NEW r, r = Scan(Append(l, e)), NEW u, u = SeedSession(Append(l, e))
  PROVE  Bounded(Append(l, e), r, u)
<1> DEFINE m == Append(l, e)
<1>1. e \in Event /\ p \in ScanState /\ t \in TraceState
  BY DEF Fits, FoldsAgree
<1>2. LastTurn(m) = IF e.type = "turn/start" THEN e.turn ELSE LastTurn(l)
  BY <1>1, LastTurnAppend
<1>3. ForkAccepts(m, Len(m)) <=>
            IF e.type \in {"turn/start", "turn/end"} THEN e.type = "turn/end"
            ELSE ForkAccepts(l, Len(l))
  BY <1>1, ForkAppend
<1> HIDE DEF m
<1>4. /\ LastTurn(l) = IF p.openTurn = 0 THEN t.nextTurn - 1 ELSE p.openTurn
      /\ ForkAccepts(l, Len(l)) <=> p.openTurn = 0
  BY DEF Bounded
<1>5. /\ t.nextTurn \in Nat \ {0}
      /\ p.openTurn # 0 => p.openTurn = t.nextTurn
  BY <1>1 DEF FoldsAgree, TraceState
<1>6. e.type \in {"turn/start", "turn/end"} => e.turn # 0
  <2>1. e.type \in {"turn/start", "turn/end"} => e.turn \in Turns
    BY <1>1, EventIs
  <2> QED
    BY <2>1, BoundsAssumption DEF Turns
<1>7. CASE e.type = "turn/start"
  <2>1. r.openTurn = e.turn
    BY <1>7, ScanStep
  <2> QED
    BY <1>2, <1>3, <1>6, <1>7, <2>1 DEF Bounded, m
<1>8. CASE e.type = "turn/end"
  <2>1. r.openTurn = 0 /\ u.nextTurn = t.nextTurn + 1
    BY <1>8, ScanStep, TraceStep
  <2>2. p.openTurn = e.turn
    BY <1>8 DEF Fits
  <2>3. LastTurn(m) = t.nextTurn /\ u.nextTurn - 1 = t.nextTurn
    BY <1>2, <1>4, <1>5, <1>6, <1>8, <2>1, <2>2
  <2> QED
    BY <1>3, <1>8, <2>1, <2>3 DEF Bounded, m
<1>9. CASE e.type \notin {"turn/start", "turn/end"}
  <2>1. r.openTurn = p.openTurn
    BY <1>9, ScanStep
  <2>2. u.nextTurn = t.nextTurn
    <3>1. e.type \in {"step/start", "step/end"} => u.nextTurn = t.nextTurn
      BY TraceStep
    <3>2. e.type \notin {"step/start", "step/end"} => u.nextTurn = t.nextTurn
      BY <1>9, TraceStep
    <3> QED
      BY <3>1, <3>2
  <2> QED
    BY <1>2, <1>3, <1>4, <1>9, <2>1, <2>2 DEF Bounded, m
<1> QED
  BY <1>7, <1>8, <1>9

\* A fitting event keeps a sound log sound.
LEMMA SoundStep ==
  ASSUME NEW l \in Seq(Event), NEW e, Sound(l), Fits(l, e)
  PROVE  Sound(Append(l, e))
<1>1. PICK p, t, r, u : /\ p = Scan(l) /\ t = SeedSession(l)
                        /\ r = Scan(Append(l, e)) /\ u = SeedSession(Append(l, e))
  OBVIOUS
<1>2. /\ FoldsAgree(p, t) /\ CallsAgree(p, t) /\ CallsTrue(l, p) /\ Placed(l, p, t)
      /\ AllAnswered(l, p) /\ OneResult(l) /\ Cites(l) /\ Bounded(l, p, t)
  BY <1>1 DEF Sound
<1>3. FoldsAgree(r, u)
  BY <1>1, <1>2, FoldsStep
<1>4. CallsAgree(r, u)
  BY <1>1, <1>2, CallsStep
<1>5. CallsTrue(Append(l, e), r)
  BY <1>1, <1>2, CallsTrueStep
<1>6. Placed(Append(l, e), r, u)
  BY <1>1, <1>2, PlacedStep
<1>7. AllAnswered(Append(l, e), r)
  BY <1>1, <1>2, AllAnsweredStep
<1>8. OneResult(Append(l, e))
  BY <1>1, <1>2, OneResultStep
<1>9. Cites(Append(l, e))
  BY <1>1, <1>2, CitesStep
<1>10. Bounded(Append(l, e), r, u)
  BY <1>1, <1>2, BoundedStep
<1> QED
  BY <1>1, <1>3, <1>4, <1>5, <1>6, <1>7, <1>8, <1>9, <1>10 DEF Sound

\* Nothing has happened in an empty log.
LEMMA SoundEmpty == Sound(<<>>)
<1>1. PICK p, t : p = Scan(<<>>) /\ t = SeedSession(<<>>)
  OBVIOUS
<1>2. p = [openTurn |-> 0, openStep |-> 0, pendingCalls |-> <<>>]
  BY <1>1, ScanEmpty DEF NoPending
<1>3. t = [openTurn |-> 0, openStep |-> 0, nextTurn |-> 1, nextStep |-> 1,
           pendingCalls |-> {}, ok |-> TRUE]
  BY <1>1, SeedEmpty DEF FreshTrace
<1>4. 0 \in 0..MaxTurns /\ 0 \in 0..MaxSteps /\ <<>> \in Seq(Pending)
  BY BoundsAssumption
<1>5. p \in ScanState /\ t \in TraceState
  BY <1>2, <1>3, <1>4 DEF ScanState, TraceState
<1>6. /\ p.openTurn = 0 /\ p.openStep = 0 /\ p.pendingCalls = <<>>
      /\ t.openTurn = 0 /\ t.openStep = 0 /\ t.nextTurn = 1 /\ t.pendingCalls = {} /\ t.ok
  BY <1>2, <1>3
<1>7. DOMAIN <<>> = {}
  OBVIOUS
<1>8. FoldsAgree(p, t)
  BY <1>5, <1>6 DEF FoldsAgree
<1>9. CallsAgree(p, t) /\ CallsTrue(<<>>, p)
  BY <1>6, <1>7 DEF CallsAgree, CallsTrue
<1>10. Placed(<<>>, p, t) /\ AllAnswered(<<>>, p) /\ OneResult(<<>>) /\ Cites(<<>>)
  BY <1>7 DEF Placed, AllAnswered, OneResult, Cites
<1>11. Bounded(<<>>, p, t)
  <2>1. TurnStarts(<<>>) = {} /\ Boundaries(<<>>) = {}
    BY DEF TurnStarts, Boundaries
  <2>2. LastTurn(<<>>) = 0
    BY <2>1, LastTurnIs
  <2>3. ForkAccepts(<<>>, Len(<<>>))
    <3>1. <<>> \in Seq(Event)
      OBVIOUS
    <3> QED
      BY <2>1, <3>1, ForkIs
  <2> QED
    BY <1>6, <2>2, <2>3 DEF Bounded
<1> QED
  BY <1>1, <1>8, <1>9, <1>10, <1>11 DEF Sound

-----------------------------------------------------------------------------
(* Legal logs are sound. *)

\* A legal log stays legal with one more event that fits.
LEMMA LegalAppend ==
  ASSUME NEW l \in Seq(Event), NEW e, Legal(l), Fits(l, e)
  PROVE  Append(l, e) \in Seq(Event) /\ Legal(Append(l, e))
<1> DEFINE m == Append(l, e)
<1>1. e \in Event
  BY DEF Fits
<1>2. /\ Len(l) \in Nat /\ Len(m) = Len(l) + 1 /\ m[Len(l) + 1] = e
      /\ m \in Seq(Event) /\ \A k \in 1..Len(l) : m[k] = l[k]
  BY <1>1, Appended
<1>3. ASSUME NEW k \in 1..(Len(l) + 1)
      PROVE  SubSeq(m, 1, k - 1) = SubSeq(l, 1, k - 1)
  BY <1>1
<1>4. SubSeq(l, 1, Len(l)) = l
  OBVIOUS
<1> HIDE DEF m
<1>5. ASSUME NEW k \in 1..Len(m)
      PROVE  Fits(SubSeq(m, 1, k - 1), m[k])
  <2>1. k \in 1..Len(l) \/ k = Len(l) + 1
    BY <1>2
  <2>2. CASE k \in 1..Len(l)
    <3>1. m[k] = l[k] /\ SubSeq(m, 1, k - 1) = SubSeq(l, 1, k - 1)
      BY <1>2, <1>3, <2>2
    <3> QED
      BY <2>2, <3>1 DEF Legal
  <2>3. CASE k = Len(l) + 1
    <3>1. m[k] = e /\ k - 1 = Len(l) /\ SubSeq(m, 1, k - 1) = SubSeq(l, 1, k - 1)
      BY <1>2, <1>3, <2>3
    <3> QED
      BY <1>4, <3>1
  <2> QED
    BY <2>1, <2>2, <2>3
<1> QED
  BY <1>2, <1>5 DEF Legal, m

\* So does every prefix of it, which is what a crash may leave.
LEMMA LegalPrefix ==
  ASSUME NEW l \in Seq(Event), Legal(l), NEW n \in 0..Len(l)
  PROVE  SubSeq(l, 1, n) \in Seq(Event) /\ Legal(SubSeq(l, 1, n))
<1> DEFINE m == SubSeq(l, 1, n)
<1>1. m \in Seq(Event) /\ Len(m) = n
  OBVIOUS
<1>2. ASSUME NEW k \in 1..n
      PROVE  m[k] = l[k] /\ SubSeq(m, 1, k - 1) = SubSeq(l, 1, k - 1) /\ k \in 1..Len(l)
  OBVIOUS
<1> HIDE DEF m
<1>3. ASSUME NEW k \in 1..n PROVE Fits(SubSeq(m, 1, k - 1), m[k])
  BY <1>2 DEF Legal
<1> QED
  BY <1>1, <1>3 DEF Legal, m

\* The empty log is legal, and so is no other than a sound one.
LEMMA LegalEmpty == <<>> \in Seq(Event) /\ Legal(<<>>)
<1>1. 1..Len(<<>>) = {}
  OBVIOUS
<1> QED
  BY <1>1 DEF Legal

\* Every fact of a legal log follows event by event.
LEMMA LegalSound ==
  ASSUME NEW l \in Seq(Event), Legal(l)
  PROVE  Sound(l)
<1> DEFINE n == Len(l)
           T == {k \in 0..n : Sound(SubSeq(l, 1, k))}
<1>1. n \in Nat
  OBVIOUS
<1>2. SubSeq(l, 1, 0) = <<>>
  OBVIOUS
<1>3. 0 \in T
  <2>1. Sound(SubSeq(l, 1, 0))
    BY <1>2, SoundEmpty
  <2> QED
    BY <1>1, <2>1
<1>4. ASSUME NEW k \in 1..n, k - 1 \in T PROVE k \in T
  <2>1. SubSeq(l, 1, k) = Append(SubSeq(l, 1, k - 1), l[k])
    OBVIOUS
  <2>2. SubSeq(l, 1, k - 1) \in Seq(Event)
    OBVIOUS
  <2>3. Fits(SubSeq(l, 1, k - 1), l[k])
    BY DEF Legal
  <2>4. Sound(SubSeq(l, 1, k - 1))
    BY <1>4
  <2>5. Sound(SubSeq(l, 1, k))
    BY <2>1, <2>2, <2>3, <2>4, SoundStep
  <2> QED
    BY <2>5
<1>5. \A k \in 0..n : k \in T
  <2> HIDE DEF T, n
  <2> QED
    BY <1>1, <1>3, <1>4, Induct
<1>6. SubSeq(l, 1, n) = l
  OBVIOUS
<1>7. Sound(SubSeq(l, 1, n))
  <2>1. n \in T
    <3> HIDE DEF T, n
    <3> QED
      BY <1>1, <1>5
  <2> QED
    BY <2>1
<1> QED
  BY <1>6, <1>7

-----------------------------------------------------------------------------
(* The repair of a legal log. *)

\* The results that the repair adds, and what closes the step and the turn.
AnswersOf(p) == [i \in DOMAIN p.pendingCalls |-> Closer(p.openTurn, p.pendingCalls[i])]
EndsOf(p) ==
    IF p.openStep = 0 THEN <<TurnEvent("turn/end", p.openTurn)>>
    ELSE <<StepEnd(p.openTurn, p.openStep, FALSE), TurnEvent("turn/end", p.openTurn)>>

\* The events of the repair are events.
LEMMA ClosersTyped ==
  ASSUME NEW p \in ScanState, p.openTurn # 0,
         \A i \in DOMAIN p.pendingCalls : p.openStep # 0
  PROVE  /\ AnswersOf(p) \in Seq(Event) /\ Len(AnswersOf(p)) = Len(p.pendingCalls)
         /\ EndsOf(p) \in Seq(Event) /\ EndsOf(p) # <<>>
         /\ TurnEvent("turn/end", p.openTurn) \in Event
         /\ p.openStep # 0 => StepEnd(p.openTurn, p.openStep, FALSE) \in Event
<1>1. /\ p.openTurn \in Turns /\ p.pendingCalls \in Seq(Pending)
      /\ p.openStep # 0 => p.openStep \in Steps
  BY BoundsAssumption DEF ScanState, Turns, Steps
<1>2. TurnEvent("turn/end", p.openTurn) \in Event
  BY <1>1 DEF TurnEvent, Event
<1>3. p.openStep # 0 => StepEnd(p.openTurn, p.openStep, FALSE) \in Event
  BY <1>1 DEF StepEnd, Event
<1>4. EndsOf(p) \in Seq(Event) /\ EndsOf(p) # <<>>
  <2>1. PICK end, close : /\ end = TurnEvent("turn/end", p.openTurn)
                          /\ close = StepEnd(p.openTurn, p.openStep, FALSE)
    OBVIOUS
  <2>2. EndsOf(p) = IF p.openStep = 0 THEN <<end>> ELSE <<close, end>>
    BY <2>1 DEF EndsOf
  <2>3. end \in Event /\ (p.openStep # 0 => close \in Event)
    BY <1>2, <1>3, <2>1
  <2> QED
    BY <2>2, <2>3
<1>5. ASSUME NEW q \in Pending PROVE Closer(p.openTurn, q) \in Event
  <2>1. q.step \in Steps /\ q.call \in CallId /\ q.callSeq \in Nat
    BY <1>5 DEF Pending
  <2>2. PICK how : how = IF q.callSeq = 0 THEN "TOOL_NOT_STARTED" ELSE "TOOL_OUTCOME_UNKNOWN"
    OBVIOUS
  <2>3. how \in {"outcome", "skipped", "TOOL_NOT_STARTED", "TOOL_OUTCOME_UNKNOWN"}
    BY <2>2
  <2>4. Closer(p.openTurn, q) =
            [type |-> "tool/result", turn |-> p.openTurn, step |-> q.step, call |-> q.call,
             how |-> how, surfaceOp |-> "append", cites |-> q.callSeq]
    BY <2>2 DEF Closer, ToolResult
  <2> QED
    BY <1>1, <2>1, <2>3, <2>4 DEF Event
<1>6. /\ Len(p.pendingCalls) \in Nat /\ DOMAIN p.pendingCalls = 1..Len(p.pendingCalls)
      /\ \A i \in 1..Len(p.pendingCalls) : p.pendingCalls[i] \in Pending
  BY <1>1
<1>7. AnswersOf(p) = [i \in 1..Len(p.pendingCalls) |-> Closer(p.openTurn, p.pendingCalls[i])]
  BY <1>6 DEF AnswersOf
<1>8. AnswersOf(p) \in [1..Len(p.pendingCalls) -> Event]
  BY <1>5, <1>6, <1>7
<1>9. AnswersOf(p) \in Seq(Event) /\ Len(AnswersOf(p)) = Len(p.pendingCalls)
  BY <1>6, <1>8
<1> QED
  BY <1>2, <1>3, <1>4, <1>9

\* The repair of a log, in these words.
LEMMA ClosersAre ==
  ASSUME NEW l, NEW p, p = Scan(l), p \in ScanState,
         \A i \in DOMAIN p.pendingCalls : p.openStep # 0
  PROVE  InterruptedTurnClosers(l) =
            IF p.openTurn = 0 THEN <<>> ELSE AnswersOf(p) \o EndsOf(p)
<1>1. CASE p.openTurn = 0
  BY <1>1 DEF InterruptedTurnClosers
<1>2. CASE p.openTurn # 0
  <2> DEFINE end == TurnEvent("turn/end", p.openTurn)
             close == StepEnd(p.openTurn, p.openStep, FALSE)
             mid == IF p.openStep = 0 THEN <<>> ELSE <<close>>
  <2>1. InterruptedTurnClosers(l) = AnswersOf(p) \o mid \o <<end>>
    BY <1>2 DEF InterruptedTurnClosers, AnswersOf
  <2>2. /\ AnswersOf(p) \in Seq(Event) /\ end \in Event
        /\ p.openStep # 0 => close \in Event
    BY <1>2, ClosersTyped
  <2>3. EndsOf(p) = mid \o <<end>>
    <3>1. CASE p.openStep = 0
      BY <3>1 DEF EndsOf
    <3>2. CASE p.openStep # 0
      <4>1. EndsOf(p) = <<close, end>> /\ mid = <<close>>
        BY <3>2 DEF EndsOf
      <4> HIDE DEF close, end
      <4> QED
        BY <4>1
    <3> QED
      BY <3>1, <3>2
  <2>4. mid \in Seq(Event) /\ <<end>> \in Seq(Event)
    <3> HIDE DEF close, end
    <3> QED
      BY <2>2
  <2> HIDE DEF mid, end
  <2>5. AnswersOf(p) \o mid \o <<end>> = AnswersOf(p) \o (mid \o <<end>>)
    BY <2>2, <2>4, ConcatAssociative
  <2> QED
    BY <1>2, <2>1, <2>3, <2>5
<1> QED
  BY <1>1, <1>2

\* The first event of the repair fits, and the repair of the log with it is the rest.
LEMMA CloserStep ==
  ASSUME NEW l \in Seq(Event), Sound(l),
         NEW closers, closers = InterruptedTurnClosers(l), closers # <<>>
  PROVE  /\ closers \in Seq(Event) /\ Fits(l, closers[1])
         /\ InterruptedTurnClosers(Append(l, closers[1])) = Tail(closers)
<1>1. PICK p, t : p = Scan(l) /\ t = SeedSession(l)
  OBVIOUS
<1>2. FoldsAgree(p, t) /\ CallsAgree(p, t) /\ CallsTrue(l, p)
  BY <1>1 DEF Sound
<1>3. p \in ScanState /\ (p.openStep = 0 => p.pendingCalls = <<>>)
      /\ (p.openTurn = 0 => p.openStep = 0)
  BY <1>2 DEF FoldsAgree
<1>4. \A i \in DOMAIN p.pendingCalls : p.openStep # 0
  BY <1>3
<1>5. p.openTurn # 0 /\ closers = AnswersOf(p) \o EndsOf(p)
  BY <1>1, <1>3, <1>4, ClosersAre
<1>6. /\ AnswersOf(p) \in Seq(Event) /\ Len(AnswersOf(p)) = Len(p.pendingCalls)
      /\ EndsOf(p) \in Seq(Event) /\ EndsOf(p) # <<>>
      /\ TurnEvent("turn/end", p.openTurn) \in Event
      /\ p.openStep # 0 => StepEnd(p.openTurn, p.openStep, FALSE) \in Event
  BY <1>3, <1>4, <1>5, ClosersTyped
<1>7. closers \in Seq(Event)
  BY <1>5, <1>6
<1>8. closers[1] \in Event
  BY <1>7
<1>9. /\ p.pendingCalls \in Seq(Pending) /\ Len(p.pendingCalls) \in Nat
      /\ DOMAIN p.pendingCalls = 1..Len(p.pendingCalls)
  <2>1. p.pendingCalls \in Seq(Pending)
    BY <1>3 DEF ScanState
  <2> QED
    BY <2>1
<1>10. CASE p.pendingCalls # <<>>
  <2> DEFINE q == p.pendingCalls[1]
             e == Closer(p.openTurn, q)
  <2>1. 1 \in DOMAIN p.pendingCalls /\ q \in Pending
    BY <1>9, <1>10
  <2>2. AnswersOf(p) # <<>> /\ AnswersOf(p)[1] = e
    BY <1>6, <1>9, <1>10, <2>1 DEF AnswersOf
  <2>3. closers[1] = e /\ Tail(closers) = Tail(AnswersOf(p)) \o EndsOf(p)
    <3> HIDE DEF e
    <3> QED
      BY <1>5, <1>6, <2>2
  <2>4. q.step = p.openStep /\ q.callSeq \in Nat /\ q.call \in CallId
    BY <1>2, <2>1 DEF CallsAgree, Pending
  <2>5. /\ e.type = "tool/result" /\ e.turn = p.openTurn /\ e.step = q.step
        /\ e.call = q.call /\ e.cites = q.callSeq /\ e.surfaceOp = "append"
        /\ e.how = IF q.callSeq = 0 THEN "TOOL_NOT_STARTED" ELSE "TOOL_OUTCOME_UNKNOWN"
    BY DEF Closer, ToolResult
  <2> HIDE DEF e
  <2>6. IsResult(e) /\ ~IsReplacement(e) /\ OfStep(e)
    BY <2>5 DEF IsResult, IsReplacement, OfStep
  <2>7. e.how = "TOOL_NOT_STARTED" <=> e.cites = 0
    BY <2>5
  <2>8. e \in Event
    BY <1>8, <2>3
  <2> HIDE DEF q
  <2>9. Fits(l, e)
    BY <1>1, <1>10, <2>4, <2>5, <2>6, <2>7, <2>8 DEF Fits, q
  <2>10. PICK r : r = Scan(Append(l, e))
    OBVIOUS
  <2>11. /\ r \in ScanState /\ r.openTurn = p.openTurn /\ r.openStep = p.openStep
         /\ r.pendingCalls = Tail(p.pendingCalls)
    BY <1>1, <1>2, <2>5, <2>6, <2>9, <2>10, ScanStep
  <2>12. \A i \in DOMAIN r.pendingCalls : r.openStep # 0
    BY <1>3, <1>10, <2>11
  <2>13. InterruptedTurnClosers(Append(l, e)) = AnswersOf(r) \o EndsOf(r)
    BY <1>5, <2>10, <2>11, <2>12, ClosersAre
  <2>14. EndsOf(r) = EndsOf(p)
    BY <2>11 DEF EndsOf
  <2>15. AnswersOf(r) = Tail(AnswersOf(p))
    <3>1. PICK n \in Nat : n + 1 = Len(p.pendingCalls)
      <4>1. Len(p.pendingCalls) # 0
        BY <1>9, <1>10
      <4>2. Len(p.pendingCalls) - 1 \in Nat /\ (Len(p.pendingCalls) - 1) + 1 = Len(p.pendingCalls)
        BY <1>9, <4>1
      <4> QED
        BY <4>2
    <3>2. /\ DOMAIN Tail(p.pendingCalls) = 1..n
          /\ \A i \in 1..n : Tail(p.pendingCalls)[i] = p.pendingCalls[i + 1]
      BY <1>9, <1>10, <3>1
    <3>3. /\ DOMAIN Tail(AnswersOf(p)) = 1..n /\ Tail(AnswersOf(p)) \in Seq(Event)
          /\ \A i \in 1..n : Tail(AnswersOf(p))[i] = AnswersOf(p)[i + 1]
      BY <1>6, <2>2, <3>1
    <3>4. AnswersOf(r) \in Seq(Event) /\ Len(AnswersOf(r)) = n
      <4>1. Len(Tail(p.pendingCalls)) = n
        BY <1>9, <1>10, <3>1
      <4> QED
        BY <1>5, <2>11, <2>12, <4>1, ClosersTyped
    <3>5. \A i \in 1..n : AnswersOf(r)[i] = Closer(p.openTurn, p.pendingCalls[i + 1])
      BY <2>11, <3>2 DEF AnswersOf
    <3>6. \A i \in 1..n : AnswersOf(p)[i + 1] = Closer(p.openTurn, p.pendingCalls[i + 1])
      BY <1>9, <3>1 DEF AnswersOf
    <3>7. Len(Tail(AnswersOf(p))) = n
      BY <1>6, <2>2, <3>1
    <3> QED
      BY <3>3, <3>4, <3>5, <3>6, <3>7, SeqEqual
  <2> QED
    BY <1>7, <2>3, <2>9, <2>13, <2>14, <2>15
<1>11. CASE p.pendingCalls = <<>>
  <2>1. AnswersOf(p) = <<>>
    <3>1. DOMAIN p.pendingCalls = {}
      BY <1>11
    <3> QED
      BY <3>1 DEF AnswersOf
  <2>2. closers = EndsOf(p)
    BY <1>5, <1>6, <2>1
  <2> DEFINE end == TurnEvent("turn/end", p.openTurn)
             close == StepEnd(p.openTurn, p.openStep, FALSE)
  <2>3. end.type = "turn/end" /\ end.turn = p.openTurn
    BY DEF TurnEvent
  <2>4. /\ close.type = "step/end" /\ close.turn = p.openTurn /\ close.step = p.openStep
        /\ close.failed = FALSE
    BY DEF StepEnd
  <2>5. EndsOf(p) = IF p.openStep = 0 THEN <<end>> ELSE <<close, end>>
    BY DEF EndsOf
  <2>6. end \in Event /\ (p.openStep # 0 => close \in Event)
    BY <1>6
  <2> HIDE DEF end, close
  <2>7. CASE p.openStep = 0
    <3>1. closers = <<end>> /\ closers[1] = end /\ Tail(closers) = <<>>
      BY <2>2, <2>5, <2>7
    <3>2. Fits(l, end)
      BY <1>1, <2>3, <2>6, <2>7 DEF Fits, OfStep, IsResult, IsReplacement
    <3>3. PICK r : r = Scan(Append(l, end))
      OBVIOUS
    <3>4. r.openTurn = 0
      BY <1>1, <1>2, <2>3, <3>2, <3>3, ScanStep
    <3>5. InterruptedTurnClosers(Append(l, end)) = <<>>
      BY <3>3, <3>4 DEF InterruptedTurnClosers
    <3> QED
      BY <1>7, <3>1, <3>2, <3>5
  <2>8. CASE p.openStep # 0
    <3>1. closers = <<close, end>> /\ closers[1] = close /\ Tail(closers) = <<end>>
      BY <2>2, <2>5, <2>8
    <3>2. Fits(l, close)
      BY <1>1, <1>11, <2>4, <2>6, <2>8 DEF Fits, OfStep, IsResult, IsReplacement
    <3>3. PICK r : r = Scan(Append(l, close))
      OBVIOUS
    <3>4. /\ r \in ScanState /\ r.openTurn = p.openTurn /\ r.openStep = 0
          /\ r.pendingCalls = <<>>
      BY <1>1, <1>2, <2>4, <3>2, <3>3, ScanStep
    <3>5. DOMAIN r.pendingCalls = {}
      BY <3>4
    <3>6. InterruptedTurnClosers(Append(l, close)) = AnswersOf(r) \o EndsOf(r)
      BY <1>5, <3>3, <3>4, <3>5, ClosersAre
    <3>7. AnswersOf(r) = <<>> /\ EndsOf(r) = <<end>>
      BY <3>4, <3>5 DEF AnswersOf, EndsOf, end
    <3>8. <<>> \o <<end>> = <<end>>
      BY <2>6
    <3> QED
      BY <1>7, <3>1, <3>2, <3>6, <3>7, <3>8
  <2> QED
    BY <2>7, <2>8
<1> QED
  BY <1>10, <1>11

\* Closers are a sequence of events, and none are needed exactly when nothing is open.
LEMMA ClosersSeq ==
  ASSUME NEW l \in Seq(Event), Sound(l)
  PROVE  /\ InterruptedTurnClosers(l) \in Seq(Event)
         /\ InterruptedTurnClosers(l) = <<>> <=> Scan(l).openTurn = 0
<1>1. PICK p, t : p = Scan(l) /\ t = SeedSession(l)
  OBVIOUS
<1>2. FoldsAgree(p, t)
  BY <1>1 DEF Sound
<1>3. p \in ScanState /\ (p.openStep = 0 => p.pendingCalls = <<>>)
  BY <1>2 DEF FoldsAgree
<1>4. \A i \in DOMAIN p.pendingCalls : p.openStep # 0
  BY <1>3
<1>5. CASE p.openTurn = 0
  BY <1>1, <1>5 DEF InterruptedTurnClosers
<1>6. CASE p.openTurn # 0
  <2>1. InterruptedTurnClosers(l) = AnswersOf(p) \o EndsOf(p)
    BY <1>1, <1>3, <1>4, <1>6, ClosersAre
  <2>2. AnswersOf(p) \in Seq(Event) /\ EndsOf(p) \in Seq(Event) /\ EndsOf(p) # <<>>
    BY <1>3, <1>4, <1>6, ClosersTyped
  <2>3. AnswersOf(p) \o EndsOf(p) \in Seq(Event) /\ AnswersOf(p) \o EndsOf(p) # <<>>
    BY <2>2
  <2> QED
    BY <1>1, <1>6, <2>1, <2>3
<1> QED
  BY <1>5, <1>6

\* Whatever part of the closers is stored, the log stays legal and the next
\* repair adds the rest.
LEMMA ClosersResume ==
  ASSUME NEW l \in Seq(Event), Legal(l), NEW closers, closers = InterruptedTurnClosers(l)
  PROVE  /\ closers \in Seq(Event)
         /\ \A k \in 0..Len(closers) :
                LET part == l \o SubSeq(closers, 1, k)
                IN  /\ part \in Seq(Event) /\ Legal(part)
                    /\ InterruptedTurnClosers(part) = SubSeq(closers, k + 1, Len(closers))
<1>1. closers \in Seq(Event) /\ Len(closers) \in Nat
  BY LegalSound, ClosersSeq
<1> DEFINE n == Len(closers)
           Part(k) == l \o SubSeq(closers, 1, k)
           Good(k) == /\ Part(k) \in Seq(Event) /\ Legal(Part(k))
                      /\ InterruptedTurnClosers(Part(k)) = SubSeq(closers, k + 1, n)
           T == {k \in 0..n : Good(k)}
<1>2. 0 \in T
  <2>1. Part(0) = l /\ SubSeq(closers, 1, n) = closers
    BY <1>1
  <2>2. Good(0)
    <3>1. 0 + 1 = 1
      OBVIOUS
    <3> HIDE DEF Part
    <3> QED
      BY <2>1, <3>1
  <2> HIDE DEF Good
  <2> QED
    BY <1>1, <2>2
<1>3. ASSUME NEW k \in 1..n, k - 1 \in T PROVE k \in T
  <2> DEFINE rest == SubSeq(closers, k, n)
  <2>1. Part(k - 1) \in Seq(Event) /\ Legal(Part(k - 1))
        /\ InterruptedTurnClosers(Part(k - 1)) = rest
    BY <1>3
  <2>2. /\ rest # <<>> /\ rest[1] = closers[k] /\ Tail(rest) = SubSeq(closers, k + 1, n)
        /\ closers[k] \in Event
    <3>1. k \in Int /\ n \in Int /\ k <= n /\ k \in 1..Len(closers)
      BY <1>1
    <3>2. Head(rest) = closers[k] /\ Tail(rest) = SubSeq(closers, k + 1, n)
      BY <1>1, <3>1, HeadTailOfSubSeq
    <3>3. \A i \in k..n : closers[i] \in Event
      BY <1>1, <3>1
    <3>4. rest \in Seq(Event) /\ Len(rest) = n - k + 1
      BY <3>1, <3>3, SubSeqProperties
    <3>5. Len(rest) # 0 /\ closers[k] \in Event
      BY <1>1, <3>1, <3>4
    <3> HIDE DEF rest
    <3>6. rest # <<>> /\ Head(rest) = rest[1]
      BY <3>4, <3>5
    <3> QED
      BY <3>2, <3>5, <3>6 DEF rest
  <2>3. Part(k) = Append(Part(k - 1), closers[k])
    BY <1>1
  <2> HIDE DEF rest, Part
  <2>4. Sound(Part(k - 1))
    BY <2>1, LegalSound
  <2>5. Fits(Part(k - 1), rest[1])
        /\ InterruptedTurnClosers(Append(Part(k - 1), rest[1])) = Tail(rest)
    BY <2>1, <2>2, <2>4, CloserStep
  <2>6. Good(k)
    BY <2>1, <2>2, <2>3, <2>5, LegalAppend
  <2> HIDE DEF Good
  <2> QED
    BY <2>6
<1>4. \A k \in 0..n : k \in T
  <2> HIDE DEF T, n
  <2> QED
    BY <1>1, <1>2, <1>3, Induct DEF n
<1>5. \A k \in 0..n : Good(k)
  <2> HIDE DEF Good, n
  <2> QED
    BY <1>4
<1> QED
  BY <1>1, <1>5

\* A repaired log is legal, and has nothing open.
LEMMA Repaired ==
  ASSUME NEW l \in Seq(Event), Legal(l)
  PROVE  LET m == l \o InterruptedTurnClosers(l)
         IN  m \in Seq(Event) /\ Legal(m) /\ Scan(m).openTurn = 0
<1>1. PICK closers : closers = InterruptedTurnClosers(l)
  OBVIOUS
<1>2. /\ closers \in Seq(Event)
      /\ \A k \in 0..Len(closers) :
            /\ l \o SubSeq(closers, 1, k) \in Seq(Event) /\ Legal(l \o SubSeq(closers, 1, k))
            /\ InterruptedTurnClosers(l \o SubSeq(closers, 1, k))
                  = SubSeq(closers, k + 1, Len(closers))
  BY <1>1, ClosersResume
<1>3. /\ Len(closers) \in 0..Len(closers) /\ SubSeq(closers, 1, Len(closers)) = closers
      /\ SubSeq(closers, Len(closers) + 1, Len(closers)) = <<>>
  BY <1>2
<1>4. /\ l \o closers \in Seq(Event) /\ Legal(l \o closers)
      /\ InterruptedTurnClosers(l \o closers) = <<>>
  BY <1>2, <1>3
<1>5. Scan(l \o closers).openTurn = 0
  BY <1>4, LegalSound, ClosersSeq
<1> QED
  BY <1>1, <1>4, <1>5

-----------------------------------------------------------------------------
(* Calls and results. *)

\* The i-th open call, now with its record.
Started(p, r, i, seq) ==
    /\ Len(r.pendingCalls) = Len(p.pendingCalls)
    /\ \A j \in 1..Len(p.pendingCalls) :
          r.pendingCalls[j] =
              IF j = i THEN [call |-> p.pendingCalls[i].call, step |-> p.openStep,
                             callSeq |-> seq]
              ELSE p.pendingCalls[j]

\* The record of an open call fits.
LEMMA CallStep ==
  ASSUME NEW l \in Seq(Event), Legal(l), NEW p, p = Scan(l),
         NEW i \in DOMAIN p.pendingCalls, p.pendingCalls[i].callSeq = 0,
         NEW e, e = ToolCall(p.openTurn, p.openStep, p.pendingCalls[i].call),
         NEW r, r = Scan(Append(l, e))
  PROVE  /\ e \in Event /\ Fits(l, e)
         /\ r \in ScanState /\ r.openTurn = p.openTurn /\ r.openStep = p.openStep
         /\ Started(p, r, i, Len(l) + 1)
<1>1. PICK t : t = SeedSession(l)
  OBVIOUS
<1>2. FoldsAgree(p, t) /\ CallsAgree(p, t)
  BY <1>1, LegalSound DEF Sound
<1>3. p \in ScanState /\ (p.openStep = 0 => p.pendingCalls = <<>>)
      /\ (p.openTurn = 0 => p.openStep = 0)
  BY <1>2 DEF FoldsAgree
<1>4. p.openStep # 0 /\ p.openTurn # 0
  BY <1>3
<1>5. p.openTurn \in Turns /\ p.openStep \in Steps /\ p.pendingCalls \in Seq(Pending)
  BY <1>3, <1>4, BoundsAssumption DEF ScanState, Turns, Steps
<1>6. p.pendingCalls[i] \in Pending /\ DOMAIN p.pendingCalls = 1..Len(p.pendingCalls)
      /\ Len(p.pendingCalls) \in Nat
  BY <1>5
<1>7. p.pendingCalls[i].call \in CallId
  BY <1>6 DEF Pending
<1>8. /\ e.type = "tool/call" /\ e.turn = p.openTurn /\ e.step = p.openStep
      /\ e.call = p.pendingCalls[i].call
  BY DEF ToolCall
<1>9. e \in Event
  BY <1>5, <1>7 DEF Event, ToolCall
<1>10. Fits(l, e)
  BY <1>8, <1>9 DEF Fits, OfStep, IsResult, IsReplacement
<1>11. /\ r \in ScanState /\ r.openTurn = p.openTurn /\ r.openStep = p.openStep
       /\ Len(r.pendingCalls) = Len(p.pendingCalls)
       /\ \A j \in 1..Len(p.pendingCalls) :
              /\ r.pendingCalls[j].call = p.pendingCalls[j].call
              /\ r.pendingCalls[j].step = p.pendingCalls[j].step
              /\ r.pendingCalls[j].callSeq =
                     IF p.pendingCalls[j].call = e.call THEN Len(l) + 1
                     ELSE p.pendingCalls[j].callSeq
  BY <1>1, <1>2, <1>8, <1>10, ScanStep
<1>12. ASSUME NEW j \in 1..Len(p.pendingCalls)
       PROVE  r.pendingCalls[j] =
                  IF j = i THEN [call |-> p.pendingCalls[i].call, step |-> p.openStep,
                                 callSeq |-> Len(l) + 1]
                  ELSE p.pendingCalls[j]
  <2>1. r.pendingCalls \in Seq(Pending)
    BY <1>11 DEF ScanState
  <2>2. PICK a, b : /\ a = p.pendingCalls[j] /\ b = r.pendingCalls[j]
                    /\ a \in Pending /\ b \in Pending
    BY <1>5, <1>11, <2>1
  <2>3. b.call = a.call /\ b.step = a.step
        /\ b.callSeq = IF a.call = e.call THEN Len(l) + 1 ELSE a.callSeq
    BY <1>11, <2>2
  <2>4. a.call = e.call <=> j = i
    BY <1>2, <1>6, <1>8, <2>2 DEF CallsAgree
  <2>5. a.step = p.openStep
    BY <1>2, <1>6, <2>2 DEF CallsAgree
  <2>6. CASE j = i
    <3>1. b = [call |-> e.call, step |-> p.openStep, callSeq |-> Len(l) + 1]
      BY <2>2, <2>3, <2>4, <2>5, <2>6 DEF Pending
    <3> QED
      BY <1>8, <2>2, <2>6, <3>1
  <2>7. CASE j # i
    <3>1. b = a
      BY <2>2, <2>3, <2>4, <2>7 DEF Pending
    <3> QED
      BY <2>2, <2>7, <3>1
  <2> QED
    BY <2>6, <2>7
<1> QED
  BY <1>9, <1>10, <1>11, <1>12 DEF Started

\* So does the result of the first open call.
LEMMA ResultStep ==
  ASSUME NEW l \in Seq(Event), Legal(l), NEW p, p = Scan(l), p.pendingCalls # <<>>,
         NEW how \in {"outcome", "skipped"}, p.pendingCalls[1].callSeq # 0,
         NEW e, e = ToolResult(p.openTurn, p.openStep, p.pendingCalls[1].call, how,
                               p.pendingCalls[1].callSeq),
         NEW r, r = Scan(Append(l, e))
  PROVE  /\ e \in Event /\ Fits(l, e)
         /\ r \in ScanState /\ r.openTurn = p.openTurn /\ r.openStep = p.openStep
         /\ r.pendingCalls = Tail(p.pendingCalls)
<1>1. PICK t : t = SeedSession(l)
  OBVIOUS
<1>2. FoldsAgree(p, t) /\ CallsAgree(p, t)
  BY <1>1, LegalSound DEF Sound
<1>3. p \in ScanState /\ (p.openStep = 0 => p.pendingCalls = <<>>)
      /\ (p.openTurn = 0 => p.openStep = 0)
  BY <1>2 DEF FoldsAgree
<1>4. p.openStep # 0 /\ p.openTurn # 0
  BY <1>3
<1>5. p.openTurn \in Turns /\ p.openStep \in Steps /\ p.pendingCalls \in Seq(Pending)
  BY <1>3, <1>4, BoundsAssumption DEF ScanState, Turns, Steps
<1>6. p.pendingCalls[1] \in Pending
  BY <1>5
<1>7. p.pendingCalls[1].call \in CallId /\ p.pendingCalls[1].callSeq \in Nat
  BY <1>6 DEF Pending
<1>8. /\ e.type = "tool/result" /\ e.turn = p.openTurn /\ e.step = p.openStep
      /\ e.call = p.pendingCalls[1].call /\ e.cites = p.pendingCalls[1].callSeq
      /\ e.how = how /\ e.surfaceOp = "append"
  BY DEF ToolResult
<1>9. e \in Event
  <2>1. how \in {"outcome", "skipped", "TOOL_NOT_STARTED", "TOOL_OUTCOME_UNKNOWN"}
    OBVIOUS
  <2> QED
    BY <1>5, <1>7, <2>1 DEF Event, ToolResult
<1>10. IsResult(e) /\ ~IsReplacement(e) /\ OfStep(e)
  BY <1>8 DEF IsResult, IsReplacement, OfStep
<1>11. e.how # "TOOL_NOT_STARTED" /\ e.cites # 0
  BY <1>8
<1>12. Fits(l, e)
  BY <1>8, <1>9, <1>10, <1>11 DEF Fits
<1> QED
  BY <1>1, <1>2, <1>8, <1>9, <1>10, <1>12, ScanStep

\* The partial concatenations of a sequence of sequences.
FlattensTo(f, seqs, m) ==
    f = [i \in 1..m |-> IF i = 1 THEN seqs[i] ELSE f[i - 1] \o seqs[i]]

\* FlattenSeq ends with the last of them.
LEMMA FlattenIs ==
  ASSUME NEW seqs, Len(seqs) # 0, NEW f, FlattensTo(f, seqs, Len(seqs))
  PROVE  \E g : FlattensTo(g, seqs, Len(seqs)) /\ FlattenSeq(seqs) = g[Len(seqs)]
<1> DEFINE g == CHOOSE g : FlattensTo(g, seqs, Len(seqs))
<1>1. FlattensTo(g, seqs, Len(seqs))
  OBVIOUS
<1>2. FlattenSeq(seqs) = g[Len(seqs)]
  BY DEF FlattenSeq, FlattensTo
<1> QED
  BY <1>1, <1>2

\* There are such concatenations.
LEMMA FlattensExist ==
  ASSUME NEW seqs, NEW len \in Nat \ {0}
  PROVE  \E f : FlattensTo(f, seqs, len)
<1> DEFINE T == {m \in 0..len : m = 0 \/ \E f : FlattensTo(f, seqs, m)}
<1>1. 0 \in T
  OBVIOUS
<1>2. ASSUME NEW m \in 1..len, m - 1 \in T
      PROVE  m \in T
  <2>1. CASE m = 1
    <3> DEFINE f == [i \in 1..1 |-> seqs[i]]
    <3>1. FlattensTo(f, seqs, 1)
      BY DEF FlattensTo
    <3> QED
      BY <2>1, <3>1
  <2>2. CASE m # 1
    <3>1. PICK f : FlattensTo(f, seqs, m - 1)
      BY <1>2, <2>2
    <3> DEFINE v == f[m - 1] \o seqs[m]
               g == [n \in 1..m |-> IF n = m THEN v ELSE f[n]]
    <3> HIDE DEF v
    <3>2. m \in Nat /\ m - 1 \in 1..m
      BY <2>2
    <3>3. \A n \in 1..(m - 1) : g[n] = f[n]
      OBVIOUS
    <3>4. g[m] = v
      BY <3>2
    <3>5. g = [n \in 1..m |-> g[n]]
      OBVIOUS
    <3> HIDE DEF g
    <3>6. ASSUME NEW n \in 1..m
          PROVE  g[n] = IF n = 1 THEN seqs[n] ELSE g[n - 1] \o seqs[n]
      <4>1. CASE n = m
        <5>1. g[m - 1] = f[m - 1]
          BY <2>2, <3>2, <3>3
        <5>2. g[m] = g[m - 1] \o seqs[m]
          BY <3>4, <5>1 DEF v
        <5> QED
          BY <2>2, <4>1, <5>2
      <4>2. CASE n \in 1..(m - 1)
        <5>1. f[n] = IF n = 1 THEN seqs[n] ELSE f[n - 1] \o seqs[n]
          BY <3>1, <4>2 DEF FlattensTo
        <5>2. n # 1 => n - 1 \in 1..(m - 1)
          BY <4>2
        <5> QED
          BY <3>3, <4>2, <5>1, <5>2
      <4> QED
        BY <4>1, <4>2
    <3>7. g = [n \in 1..m |-> IF n = 1 THEN seqs[n] ELSE g[n - 1] \o seqs[n]]
      BY <3>5, <3>6
    <3>8. FlattensTo(g, seqs, m)
      BY <3>7 DEF FlattensTo
    <3> QED
      BY <1>2, <3>8
  <2> QED
    BY <2>1, <2>2
<1>3. \A m \in 0..len : m \in T
  <2> HIDE DEF T
  <2> QED
    BY <1>1, <1>2, Induct
<1>4. len \in T
  BY <1>3
<1> QED
  BY <1>4

\* Appending to the end of a concatenation.
LEMMA ConcatAppend ==
  ASSUME NEW l \in Seq(Event), NEW d \in Seq(Event), NEW x \in Event
  PROVE  Append(l \o d, x) = l \o Append(d, x)
OBVIOUS

\* The records and results of calls that are skipped, after so many events.
SkippedPairs(p, len) ==
    [j \in 1..Len(p.pendingCalls) |->
        <<ToolCall(p.openTurn, p.openStep, p.pendingCalls[j].call),
          ToolResult(p.openTurn, p.openStep, p.pendingCalls[j].call, "skipped",
                     len + 2 * j - 1)>>]

\* The pairs that a cancelled step adds for the calls it never started answer
\* all of them.
LEMMA Skips ==
  ASSUME NEW l \in Seq(Event), Legal(l), NEW p, p = Scan(l), p.pendingCalls # <<>>,
         \A i \in DOMAIN p.pendingCalls : p.pendingCalls[i].callSeq = 0,
         NEW pairs, pairs = SkippedPairs(p, Len(l))
  PROVE  LET m == l \o FlattenSeq(pairs)
             r == Scan(m)
         IN  /\ m \in Seq(Event) /\ Legal(m) /\ FlattenSeq(pairs) \in Seq(Event)
             /\ r.openTurn = p.openTurn /\ r.openStep = p.openStep /\ r.pendingCalls = <<>>
<1>1. p \in ScanState
  BY LegalSound DEF Sound, FoldsAgree
<1>2. p.pendingCalls \in Seq(Pending)
  BY <1>1 DEF ScanState
<1>3. PICK n \in Nat \ {0} : n = Len(p.pendingCalls) /\ DOMAIN p.pendingCalls = 1..n
  <2>1. Len(p.pendingCalls) \in Nat /\ Len(p.pendingCalls) # 0
        /\ DOMAIN p.pendingCalls = 1..Len(p.pendingCalls)
    BY <1>2
  <2> QED
    BY <2>1
<1> DEFINE Call(j) == ToolCall(p.openTurn, p.openStep, p.pendingCalls[j].call)
           Res(j) == ToolResult(p.openTurn, p.openStep, p.pendingCalls[j].call, "skipped",
                                Len(l) + 2 * j - 1)
<1>4. Len(pairs) = n /\ \A j \in 1..n : pairs[j] = <<Call(j), Res(j)>>
  <2> HIDE DEF Call, Res
  <2>1. pairs = [j \in 1..n |-> <<Call(j), Res(j)>>]
    BY <1>3 DEF Call, Res, SkippedPairs
  <2> QED
    BY <2>1
<1>5. PICK f : FlattensTo(f, pairs, n) /\ FlattenSeq(pairs) = f[n]
  <2>1. Len(pairs) # 0
    BY <1>4
  <2>2. PICK f : FlattensTo(f, pairs, n)
    BY FlattensExist
  <2> QED
    BY <1>4, <2>1, <2>2, FlattenIs
<1>6. \A k \in 1..n : f[k] = IF k = 1 THEN pairs[k] ELSE f[k - 1] \o pairs[k]
  BY <1>5 DEF FlattensTo
<1> DEFINE Done(k) == IF k = 0 THEN <<>> ELSE f[k]
           Good(k) == /\ Done(k) \in Seq(Event) /\ Len(Done(k)) = 2 * k
                      /\ Legal(l \o Done(k))
                      /\ Scan(l \o Done(k)).openTurn = p.openTurn
                      /\ Scan(l \o Done(k)).openStep = p.openStep
                      /\ Scan(l \o Done(k)).pendingCalls = SubSeq(p.pendingCalls, k + 1, n)
           T == {k \in 0..n : Good(k)}
<1>7. 0 \in T
  <2>1. l \o <<>> = l /\ SubSeq(p.pendingCalls, 1, n) = p.pendingCalls /\ 0 + 1 = 1
    BY <1>2, <1>3
  <2>2. Done(0) = <<>>
    OBVIOUS
  <2> HIDE DEF Done
  <2>3. Good(0)
    <3>1. <<>> \in Seq(Event) /\ Len(<<>>) = 2 * 0
      OBVIOUS
    <3> QED
      BY <2>1, <2>2, <3>1
  <2> HIDE DEF Good
  <2> QED
    BY <2>3
<1>8. ASSUME NEW k \in 1..n, k - 1 \in T PROVE k \in T
  <2>1. Good(k - 1)
    BY <1>8
  <2>2. Done(k) = Done(k - 1) \o <<Call(k), Res(k)>>
    <3>1. pairs[k] = <<Call(k), Res(k)>>
      BY <1>4
    <3>2. <<>> \o <<Call(k), Res(k)>> = <<Call(k), Res(k)>>
      <4> HIDE DEF Call, Res
      <4> QED
        OBVIOUS
    <3>3. Done(k) = f[k] /\ (k # 1 => Done(k - 1) = f[k - 1]) /\ (k = 1 => Done(k - 1) = <<>>)
      OBVIOUS
    <3> HIDE DEF Done, Call, Res
    <3>4. CASE k = 1
      <4>1. f[k] = pairs[k]
        BY <1>6, <3>4
      <4> QED
        BY <3>1, <3>2, <3>3, <3>4, <4>1
    <3>5. CASE k # 1
      <4>1. f[k] = f[k - 1] \o pairs[k]
        BY <1>6, <3>5
      <4> QED
        BY <3>1, <3>3, <3>5, <4>1
    <3> QED
      BY <3>4, <3>5
  <2> DEFINE a == l \o Done(k - 1)
  <2>3. PICK q : q = Scan(a)
    OBVIOUS
  <2>4. /\ a \in Seq(Event) /\ Legal(a) /\ Len(a) = Len(l) + 2 * (k - 1)
        /\ q.openTurn = p.openTurn /\ q.openStep = p.openStep
        /\ q.pendingCalls = SubSeq(p.pendingCalls, k, n)
    <3>1. (k - 1) + 1 = k
      OBVIOUS
    <3> HIDE DEF Done
    <3>2. Done(k - 1) \in Seq(Event) /\ Len(Done(k - 1)) = 2 * (k - 1)
      BY <2>1
    <3>3. a \in Seq(Event) /\ Len(a) = Len(l) + 2 * (k - 1)
      <4>1. \A d \in Seq(Event) : l \o d \in Seq(Event) /\ Len(l \o d) = Len(l) + Len(d)
        OBVIOUS
      <4> QED
        BY <3>2, <4>1
    <3> QED
      BY <2>1, <2>3, <3>1, <3>3
  <2>5. /\ Len(q.pendingCalls) = n - k + 1
        /\ \A i \in 1..(n - k + 1) : q.pendingCalls[i] = p.pendingCalls[k + i - 1]
    <3>1. \A i \in k..n : p.pendingCalls[i] \in Pending
      BY <1>2, <1>3
    <3> QED
      BY <2>4, <3>1, SubSeqProperties
  <2> HIDE DEF a
  <2>6. q \in ScanState
    BY <2>3, <2>4, LegalSound DEF Sound, FoldsAgree
  <2>7. q.pendingCalls \in Seq(Pending)
    BY <2>6 DEF ScanState
  <2>8. 1 \in DOMAIN q.pendingCalls /\ q.pendingCalls[1] = p.pendingCalls[k]
        /\ q.pendingCalls[1].callSeq = 0
    <3>1. 1 \in 1..(n - k + 1) /\ k + 1 - 1 = k
      OBVIOUS
    <3>2. q.pendingCalls[1] = p.pendingCalls[k]
      BY <2>5, <3>1
    <3>3. 1 \in DOMAIN q.pendingCalls
      BY <2>5, <2>7, <3>1
    <3>4. p.pendingCalls[k].callSeq = 0
      BY <1>3
    <3> QED
      BY <3>2, <3>3, <3>4
  <2>9. Call(k) = ToolCall(q.openTurn, q.openStep, q.pendingCalls[1].call)
    BY <2>4, <2>8
  <2>10. PICK b, r : b = Append(a, Call(k)) /\ r = Scan(b)
    OBVIOUS
  <2>11. /\ Call(k) \in Event /\ Fits(a, Call(k))
         /\ r \in ScanState /\ r.openTurn = q.openTurn /\ r.openStep = q.openStep
         /\ Len(r.pendingCalls) = Len(q.pendingCalls)
         /\ \A j \in 1..Len(q.pendingCalls) :
                r.pendingCalls[j] =
                    IF j = 1 THEN [call |-> q.pendingCalls[1].call, step |-> q.openStep,
                                   callSeq |-> Len(a) + 1]
                    ELSE q.pendingCalls[j]
    <3> HIDE DEF Call
    <3>1. PICK x : x = Call(k)
      OBVIOUS
    <3>2. x = ToolCall(q.openTurn, q.openStep, q.pendingCalls[1].call)
      BY <2>9, <3>1
    <3>3. r = Scan(Append(a, x))
      BY <2>10, <3>1
    <3>4. a \in Seq(Event) /\ Legal(a)
      BY <2>4
    <3>5. 1 \in DOMAIN q.pendingCalls /\ q.pendingCalls[1].callSeq = 0
      BY <2>8
    <3>6. /\ x \in Event /\ Fits(a, x)
          /\ r \in ScanState /\ r.openTurn = q.openTurn /\ r.openStep = q.openStep
          /\ Started(q, r, 1, Len(a) + 1)
      BY <2>3, <3>2, <3>3, <3>4, <3>5, CallStep
    <3> QED
      BY <3>1, <3>6 DEF Started
  <2>12. b \in Seq(Event) /\ Legal(b)
    <3> HIDE DEF Call
    <3> QED
      BY <2>4, <2>10, <2>11, LegalAppend
  <2>13. r.pendingCalls # <<>> /\ r.pendingCalls[1].call = p.pendingCalls[k].call
         /\ r.pendingCalls[1].callSeq = Len(l) + 2 * k - 1
    <3>1. 1 \in 1..Len(q.pendingCalls)
      BY <2>7, <2>8
    <3>2. r.pendingCalls[1] = [call |-> q.pendingCalls[1].call, step |-> q.openStep,
                               callSeq |-> Len(a) + 1]
      BY <2>11, <3>1
    <3>3. r.pendingCalls[1].call = q.pendingCalls[1].call
          /\ r.pendingCalls[1].callSeq = Len(a) + 1
      BY <3>2
    <3>4. Len(a) + 1 = Len(l) + 2 * k - 1
      BY <2>4
    <3>5. r.pendingCalls # <<>>
      BY <2>7, <2>8, <2>11
    <3> QED
      BY <2>8, <3>3, <3>4, <3>5
  <2>14. Res(k) = ToolResult(r.openTurn, r.openStep, r.pendingCalls[1].call, "skipped",
                             r.pendingCalls[1].callSeq)
    BY <2>4, <2>11, <2>13
  <2>15. r.pendingCalls[1].callSeq # 0
    BY <2>13
  <2>16. PICK c, s : c = Append(b, Res(k)) /\ s = Scan(c)
    OBVIOUS
  <2>17. /\ Res(k) \in Event /\ Fits(b, Res(k))
         /\ s.openTurn = r.openTurn /\ s.openStep = r.openStep
         /\ s.pendingCalls = Tail(r.pendingCalls)
    <3>1. "skipped" \in {"outcome", "skipped"}
      OBVIOUS
    <3> HIDE DEF Res
    <3>2. PICK x : x = Res(k)
      OBVIOUS
    <3>3. x = ToolResult(r.openTurn, r.openStep, r.pendingCalls[1].call, "skipped",
                         r.pendingCalls[1].callSeq)
      BY <2>14, <3>2
    <3>4. s = Scan(Append(b, x)) /\ r = Scan(b)
      BY <2>10, <2>16, <3>2
    <3>5. r.pendingCalls # <<>>
      BY <2>13
    <3>6. /\ x \in Event /\ Fits(b, x)
          /\ s.openTurn = r.openTurn /\ s.openStep = r.openStep
          /\ s.pendingCalls = Tail(r.pendingCalls)
      BY <2>12, <2>15, <3>1, <3>3, <3>4, <3>5, ResultStep
    <3> QED
      BY <3>2, <3>6
  <2>18. c \in Seq(Event) /\ Legal(c)
    <3> HIDE DEF Res
    <3> QED
      BY <2>12, <2>16, <2>17, LegalAppend
  <2>19. s.pendingCalls = SubSeq(p.pendingCalls, k + 1, n)
    <3>1. r.pendingCalls \in Seq(Pending)
      BY <2>11 DEF ScanState
    <3>2. Len(r.pendingCalls) = n - k + 1
      BY <2>5, <2>11
    <3>3. Tail(r.pendingCalls) \in Seq(Pending) /\ Len(Tail(r.pendingCalls)) = n - k
          /\ \A i \in 1..(n - k) : Tail(r.pendingCalls)[i] = r.pendingCalls[i + 1]
      BY <2>13, <3>1, <3>2, HeadTailProperties
    <3>4. SubSeq(p.pendingCalls, k + 1, n) \in Seq(Pending)
          /\ Len(SubSeq(p.pendingCalls, k + 1, n)) = n - k
          /\ \A i \in 1..(n - k) : SubSeq(p.pendingCalls, k + 1, n)[i] = p.pendingCalls[k + i]
      <4>1. \A i \in (k + 1)..n : p.pendingCalls[i] \in Pending
        BY <1>2, <1>3
      <4>2. /\ SubSeq(p.pendingCalls, k + 1, n) \in Seq(Pending)
            /\ Len(SubSeq(p.pendingCalls, k + 1, n)) =
                  IF k + 1 <= n THEN n - (k + 1) + 1 ELSE 0
            /\ \A i \in 1..(n - (k + 1) + 1) :
                  SubSeq(p.pendingCalls, k + 1, n)[i] = p.pendingCalls[(k + 1) + i - 1]
        BY <4>1, SubSeqProperties
      <4>3. n - (k + 1) + 1 = n - k /\ (k + 1 <= n \/ n - k = 0)
            /\ \A i \in 1..(n - k) : (k + 1) + i - 1 = k + i
        OBVIOUS
      <4> QED
        BY <4>2, <4>3
    <3>5. ASSUME NEW i \in 1..(n - k)
          PROVE  r.pendingCalls[i + 1] = p.pendingCalls[k + i]
      <4>1. i + 1 \in 1..Len(q.pendingCalls) /\ i + 1 # 1 /\ k + (i + 1) - 1 = k + i
            /\ i + 1 \in 1..(n - k + 1)
        BY <2>5
      <4>2. r.pendingCalls[i + 1] = q.pendingCalls[i + 1]
        BY <2>11, <4>1
      <4>3. q.pendingCalls[i + 1] = p.pendingCalls[k + (i + 1) - 1]
        BY <2>5, <4>1
      <4> QED
        BY <4>1, <4>2, <4>3
    <3>6. PICK x, y : x = Tail(r.pendingCalls) /\ y = SubSeq(p.pendingCalls, k + 1, n)
      OBVIOUS
    <3>7. /\ x \in Seq(Pending) /\ y \in Seq(Pending) /\ Len(x) = n - k /\ Len(y) = n - k
          /\ \A i \in 1..(n - k) : x[i] = y[i]
      BY <3>3, <3>4, <3>5, <3>6
    <3>8. x = y
      BY <3>7, SeqEqual
    <3> QED
      BY <2>17, <3>6, <3>8
  <2>20. /\ c = l \o Done(k) /\ Done(k) \in Seq(Event) /\ Len(Done(k)) = 2 * k
    <3>1. PICK x, y, d : x = Call(k) /\ y = Res(k) /\ d = Done(k - 1)
      OBVIOUS
    <3>2. x \in Event /\ y \in Event /\ d \in Seq(Event) /\ Len(d) = 2 * (k - 1)
      BY <2>1, <2>11, <2>17, <3>1
    <3>3. c = Append(Append(l \o d, x), y) /\ Done(k) = d \o <<x, y>>
      BY <2>2, <2>10, <2>16, <3>1 DEF a
    <3> HIDE DEF Done
    <3>4. Append(Append(l \o d, x), y) = l \o (d \o <<x, y>>)
      <4>1. Append(l \o d, x) = l \o Append(d, x) /\ Append(d, x) \in Seq(Event)
        <5>1. Append(d, x) \in Seq(Event)
          BY <3>2
        <5> QED
          BY <3>2, <5>1, ConcatAppend
      <4>2. Append(l \o Append(d, x), y) = l \o Append(Append(d, x), y)
        BY <3>2, <4>1, ConcatAppend
      <4>3. d \o <<x, y>> = Append(Append(d, x), y)
        BY <3>2
      <4> QED
        BY <4>1, <4>2, <4>3
    <3>5. d \o <<x, y>> \in Seq(Event) /\ Len(d \o <<x, y>>) = 2 * k
      <4>1. d \o <<x, y>> \in Seq(Event) /\ Len(d \o <<x, y>>) = Len(d) + 2
        BY <3>2
      <4> QED
        BY <3>2, <4>1
    <3> QED
      BY <3>3, <3>4, <3>5
  <2> HIDE DEF Done
  <2>21. Good(k)
    BY <2>4, <2>11, <2>16, <2>17, <2>18, <2>19, <2>20
  <2> HIDE DEF Good
  <2> QED
    BY <2>21
<1>9. \A k \in 0..n : k \in T
  <2> HIDE DEF T
  <2> QED
    BY <1>7, <1>8, Induct
<1>10. Good(n) /\ Done(n) = FlattenSeq(pairs)
  BY <1>5, <1>9
<1>11. SubSeq(p.pendingCalls, n + 1, n) = <<>>
  BY <1>2
<1> HIDE DEF Done
<1>12. l \o FlattenSeq(pairs) \in Seq(Event)
  BY <1>10
<1> QED
  BY <1>10, <1>11, <1>12

-----------------------------------------------------------------------------
(* What each step of the loop keeps. *)

\* The log has grown, or stayed.
Grown ==
    /\ log' \in Seq(Event) /\ Len(log) <= Len(log')
    /\ \A k \in 1..Len(log) : log'[k] = log[k]

\* By one event.
LEMMA AppendGrows ==
  ASSUME log \in Seq(Event), NEW e \in Event, log' = Append(log, e)
  PROVE  Grown /\ Len(log') = Len(log) + 1 /\ log'[Len(log) + 1] = e
<1>1. /\ Append(log, e) \in Seq(Event) /\ Len(log) \in Nat
      /\ Len(Append(log, e)) = Len(log) + 1 /\ Append(log, e)[Len(log) + 1] = e
      /\ \A k \in 1..Len(log) : Append(log, e)[k] = log[k]
  BY Appended
<1> QED
  BY <1>1 DEF Grown

\* By several.
LEMMA ConcatGrows ==
  ASSUME log \in Seq(Event), NEW d \in Seq(Event), log' = log \o d
  PROVE  Grown
<1>1. /\ log \o d \in Seq(Event) /\ Len(log \o d) = Len(log) + Len(d)
      /\ Len(log) \in Nat /\ Len(d) \in Nat
      /\ \A k \in 1..Len(log) : (log \o d)[k] = log[k]
  OBVIOUS
<1> QED
  BY <1>1 DEF Grown

\* By none.
LEMMA SameGrows ==
  ASSUME log \in Seq(Event), log' = log
  PROVE  Grown
BY DEF Grown

\* Steps are counted by their start events.
LEMMA CountIs ==
  ASSUME NEW l \in Seq(Event)
  PROVE  IsFiniteSet(StepStarts(l)) /\ Cardinality(StepStarts(l)) \in Nat
<1>1. IsFiniteSet(1..Len(l))
  BY FS_Interval
<1>2. StepStarts(l) \in SUBSET (1..Len(l))
  BY DEF StepStarts
<1>3. IsFiniteSet(StepStarts(l))
  BY <1>1, <1>2, FS_Subset
<1> QED
  BY <1>3, FS_CardinalityType

\* A log that grows has no fewer of them.
LEMMA CountKept ==
  ASSUME log \in Seq(Event), Grown, step \in Nat, StepsCounted
  PROVE  step <= Cardinality(StepStarts(log'))
<1>1. /\ IsFiniteSet(StepStarts(log)) /\ Cardinality(StepStarts(log)) \in Nat
      /\ IsFiniteSet(StepStarts(log')) /\ Cardinality(StepStarts(log')) \in Nat
  BY CountIs DEF Grown
<1>2. StepStarts(log) \in SUBSET StepStarts(log')
  <2>1. /\ DOMAIN log = 1..Len(log) /\ DOMAIN log' = 1..Len(log')
        /\ Len(log) \in Nat /\ Len(log') \in Nat
    BY DEF Grown
  <2> QED
    BY <2>1 DEF StepStarts, Grown
<1>3. Cardinality(StepStarts(log)) <= Cardinality(StepStarts(log'))
  BY <1>1, <1>2, FS_Subset
<1> QED
  BY <1>1, <1>3 DEF StepsCounted

\* A step that is started is one more.
LEMMA CountStarts ==
  ASSUME log \in Seq(Event), NEW e \in Event, e.type = "step/start", log' = Append(log, e),
         step \in Nat, StepsCounted
  PROVE  step + 1 <= Cardinality(StepStarts(log'))
<1>1. Grown /\ Len(log') = Len(log) + 1 /\ log'[Len(log) + 1] = e
  BY AppendGrows
<1>2. IsFiniteSet(StepStarts(log)) /\ Cardinality(StepStarts(log)) \in Nat
  BY CountIs
<1>3. /\ DOMAIN log = 1..Len(log) /\ DOMAIN log' = 1..(Len(log) + 1)
      /\ Len(log) \in Nat
  BY <1>1 DEF Grown
<1>4. StepStarts(log') = StepStarts(log) \cup {Len(log) + 1}
  BY <1>1, <1>3 DEF StepStarts, Grown
<1>5. Len(log) + 1 \notin StepStarts(log)
  BY <1>3 DEF StepStarts
<1>6. Cardinality(StepStarts(log')) = Cardinality(StepStarts(log)) + 1
  BY <1>2, <1>4, <1>5, FS_AddElement
<1> QED
  BY <1>2, <1>6 DEF StepsCounted

\* The recorded positions stay positions of the log.
LEMMA SeqsKept ==
  ASSUME log \in Seq(Event), Grown, callSeqs \in Seq(1..Len(log))
  PROVE  callSeqs \in Seq(1..Len(log'))
<1>1. 1..Len(log) \subseteq 1..Len(log')
  BY DEF Grown
<1> QED
  BY <1>1, SeqMonotonic

\* What was acted upon stays durable while nothing happens to it.
LEMMA ExposedSame ==
  ASSUME log \in Seq(Event), Grown, ExposedAt, disk' = disk, exposed' = exposed,
         pc' # "down"
  PROVE  ExposedAt'
<1>1. Len(log) \in Nat /\ Len(log') \in Nat /\ disk \in 0..Len(log) /\ Len(exposed) \in Nat
  BY DEF Grown, ExposedAt
<1>2. disk' \in 0..Len(log')
  BY <1>1 DEF Grown
<1>3. \A k \in 1..Len(exposed) : exposed[k] = log'[k]
  <2>1. ASSUME NEW k \in 1..Len(exposed) PROVE exposed[k] = log'[k]
    <3>1. k \in 1..Len(log)
      BY <1>1 DEF ExposedAt
    <3> QED
      BY <3>1 DEF ExposedAt, Grown
  <2> QED
    BY <2>1
<1> QED
  BY <1>2, <1>3 DEF ExposedAt

\* A flush makes the prefix durable that it was called for, and that prefix may
\* be what somebody acts upon now.
LEMMA ExposedFlushed ==
  ASSUME log \in Seq(Event), Grown, ExposedAt, NEW n \in 0..Len(log), Flushed(n),
         exposed' = exposed \/ exposed' = Longer(exposed, SubSeq(log, 1, n)),
         pc' # "down"
  PROVE  ExposedAt'
<1>1. Len(log) \in Nat /\ Len(log') \in Nat /\ disk \in 0..Len(log) /\ Len(exposed) \in Nat
      /\ Len(log) <= Len(log') /\ exposed \in Seq(Event) /\ Len(exposed) <= disk
  BY DEF Grown, ExposedAt
<1>2. disk' = IF disk <= n THEN n ELSE disk
  <2>1. disk \in Nat /\ n \in Nat
    BY <1>1
  <2> QED
    BY <2>1, FlushedIs DEF Flushed
<1>3. disk' \in 0..Len(log') /\ disk <= disk' /\ n <= disk'
  BY <1>1, <1>2
<1>4. \A k \in 1..Len(exposed) : exposed[k] = log'[k]
  <2>1. ASSUME NEW k \in 1..Len(exposed) PROVE exposed[k] = log'[k]
    <3>1. k \in 1..Len(log)
      BY <1>1
    <3> QED
      BY <3>1 DEF ExposedAt, Grown
  <2> QED
    BY <2>1
<1>5. /\ SubSeq(log, 1, n) \in Seq(Event) /\ Len(SubSeq(log, 1, n)) = n
      /\ \A k \in 1..n : SubSeq(log, 1, n)[k] = log[k]
  OBVIOUS
<1>6. \A k \in 1..n : log[k] = log'[k]
  BY <1>1 DEF Grown
<1>7. /\ exposed' \in Seq(Event) /\ Len(exposed') <= disk'
      /\ \A k \in 1..Len(exposed') : exposed'[k] = log'[k]
  <2>1. CASE exposed' = exposed
    BY <1>1, <1>3, <1>4, <2>1
  <2>2. CASE exposed' = SubSeq(log, 1, n)
    BY <1>3, <1>5, <1>6, <2>2
  <2>3. exposed' = exposed \/ exposed' = SubSeq(log, 1, n)
    BY DEF Longer
  <2> QED
    BY <2>1, <2>2, <2>3
<1> QED
  BY <1>3, <1>7 DEF ExposedAt

\* A legal log, and the two folds at its end.
LEMMA LogFacts ==
  ASSUME log \in Seq(Event), Legal(log), NEW p, p = Scan(log), NEW t, t = SeedSession(log)
  PROVE  /\ FoldsAgree(p, t) /\ CallsAgree(p, t) /\ CallsTrue(log, p) /\ Placed(log, p, t)
         /\ Bounded(log, p, t)
         /\ p \in ScanState /\ t \in TraceState /\ p.pendingCalls \in Seq(Pending)
         /\ p.openStep = 0 => p.pendingCalls = <<>>
         /\ p.openTurn = 0 => p.openStep = 0
         /\ p.openTurn # 0 => t.nextTurn = p.openTurn
         /\ p.openStep # 0 => t.nextStep = p.openStep
         /\ t.nextTurn \in Nat /\ t.nextStep \in Nat
<1>1. /\ FoldsAgree(p, t) /\ CallsAgree(p, t) /\ CallsTrue(log, p) /\ Placed(log, p, t)
      /\ Bounded(log, p, t)
  BY LegalSound DEF Sound
<1>2. /\ p \in ScanState /\ t \in TraceState
      /\ p.openStep = 0 => p.pendingCalls = <<>>
      /\ p.openTurn = 0 => p.openStep = 0
      /\ p.openTurn # 0 => t.nextTurn = p.openTurn
      /\ p.openStep # 0 => t.nextStep = p.openStep
  BY <1>1 DEF FoldsAgree
<1>3. p.pendingCalls \in Seq(Pending) /\ t.nextTurn \in Nat /\ t.nextStep \in Nat
  BY <1>2 DEF ScanState, TraceState
<1> QED
  BY <1>1, <1>2, <1>3

\* What an event that fits makes of the log and its folds.
LEMMA AppendFacts ==
  ASSUME log \in Seq(Event), Legal(log), NEW e, Fits(log, e), log' = Append(log, e)
  PROVE  /\ e \in Event /\ Grown /\ log' \in Seq(Event) /\ Legal(log')
<1>1. e \in Event
  BY DEF Fits
<1> QED
  BY <1>1, AppendGrows, LegalAppend DEF Grown

\* A message may carry no call.
LEMMA NoCalls == <<>> \in Messages
<1>1. Cardinality(CallId) \in Nat
  BY CallIdAssumption, FS_CardinalityType
<1>2. <<>> \in [1..0 -> CallId]
  OBVIOUS
<1>3. <<>> \in SeqOf(CallId, Cardinality(CallId))
  BY <1>1, <1>2 DEF SeqOf
<1>4. IsInjective(<<>>)
  BY DEF IsInjective
<1> QED
  BY <1>3, <1>4 DEF Messages

\* Initially, the log is empty and nothing has happened.
LEMMA InitIInv == Init => IInv
<1> SUFFICES ASSUME Init PROVE IInv
  OBVIOUS
<1>1. /\ log = <<>> /\ disk = 0 /\ pc = "idle" /\ turn = 0 /\ step = 0 /\ calls = <<>>
      /\ callSeqs = <<>> /\ committed = 0 /\ dispatched = {} /\ crashes = 0
      /\ exposed = <<>>
  BY DEF Init
<1>2. Types
  BY <1>1, LegalEmpty, BoundsAssumption DEF Types
<1>3. Legal(log)
  BY <1>1, LegalEmpty
<1>4. DriverAt
  <2>1. PICK p, t : p = Scan(log) /\ t = SeedSession(log)
    OBVIOUS
  <2>2. p.openTurn = 0 /\ t.nextTurn = 1
    BY <1>1, <2>1, ScanEmpty, SeedEmpty DEF NoPending, FreshTrace
  <2> QED
    BY <1>1, <2>1, <2>2 DEF DriverAt, InStep, Requesting
<1>5. <<>> \in Messages
  BY NoCalls
<1>6. CallsAt
  BY <1>1, <1>5 DEF CallsAt, Requesting
<1>7. StepsCounted
  <2>1. StepStarts(log) = {}
    BY <1>1 DEF StepStarts
  <2> QED
    BY <1>1, <2>1, FS_EmptySet DEF StepsCounted
<1>8. ExposedAt
  BY <1>1 DEF ExposedAt
<1> QED
  BY <1>2, <1>3, <1>4, <1>6, <1>7, <1>8 DEF IInv

-----------------------------------------------------------------------------
(* The actions of the loop. *)

\* The parts of the invariant that a step with the same calls keeps.
LEMMA CallsSame ==
  ASSUME IInv, Grown, UNCHANGED <<calls, callSeqs, committed, dispatched>>,
         pc' \notin Requesting \/ pc \in Requesting,
         pc' \notin {"down", "repairing"} \/ pc \in {"down", "repairing"}
  PROVE  CallsAt'
<1>1. callSeqs \in Seq(1..Len(log'))
  BY SeqsKept DEF IInv, Types, CallsAt
<1> QED
  BY <1>1 DEF IInv, CallsAt, Requesting

\* The same for a step that leaves the log.
LEMMA LogSame ==
  ASSUME IInv, UNCHANGED <<log, disk, exposed, turn, step, calls, callSeqs, committed,
                           dispatched, crashes>>,
         pc' \in InStep, pc \in InStep,
         pc' \in Requesting => pc \in Requesting
  PROVE  Types' /\ Legal(log') /\ CallsAt' /\ StepsCounted' /\ ExposedAt'
<1>1. pc' # "down" /\ pc' \notin {"down", "repairing"}
  BY DEF InStep, Requesting
<1>2. log \in Seq(Event) /\ Grown
  BY SameGrows DEF IInv, Types
<1>3. ExposedAt'
  BY <1>1, <1>2, ExposedSame DEF IInv
<1>4. CallsAt'
  BY <1>1, <1>2, CallsSame
<1> QED
  BY <1>3, <1>4 DEF IInv, Types, StepsCounted

\* A turn is opened with the next number.
LEMMA TurnStartStep ==
  ASSUME IInv, TurnStart
  PROVE  IInv'
<1> DEFINE e == TurnEvent("turn/start", turn + 1)
<1>1. /\ pc = "idle" /\ turn < MaxTurns /\ log' = Append(log, e) /\ turn' = turn + 1
      /\ step' = 0 /\ pc' = "turn"
      /\ UNCHANGED <<disk, calls, callSeqs, committed, dispatched, crashes, exposed>>
  BY DEF TurnStart
<1>2. /\ log \in Seq(Event) /\ Legal(log) /\ turn \in 0..MaxTurns /\ DriverAt /\ ExposedAt
      /\ step \in 0..MaxSteps /\ crashes \in 0..MaxCrashes
  BY DEF IInv, Types
<1>3. PICK p, t, r, u : /\ p = Scan(log) /\ t = SeedSession(log)
                        /\ r = Scan(log') /\ u = SeedSession(log')
  OBVIOUS
<1>4. FoldsAgree(p, t) /\ CallsAgree(p, t) /\ t.nextTurn \in Nat
  BY <1>2, <1>3, LogFacts
<1>5. p.openTurn = 0 /\ turn = t.nextTurn - 1
  BY <1>1, <1>2, <1>3 DEF DriverAt
<1>6. e.type = "turn/start" /\ e.turn = turn + 1
  BY DEF TurnEvent
<1>7. turn + 1 \in Turns /\ turn + 1 = t.nextTurn
  BY <1>1, <1>2, <1>4, <1>5, BoundsAssumption DEF Turns
<1>8. e \in Event
  BY <1>7 DEF Event, TurnEvent
<1> HIDE DEF e
<1>9. Fits(log, e)
  BY <1>3, <1>5, <1>6, <1>7, <1>8 DEF Fits, OfStep, IsResult, IsReplacement
<1>10. Grown /\ log' \in Seq(Event) /\ Legal(log')
  BY <1>1, <1>2, <1>9, AppendFacts
<1>11. r.openTurn = turn + 1 /\ r.openStep = 0
  BY <1>1, <1>2, <1>3, <1>4, <1>6, <1>9, ScanStep
<1>12. u.nextStep = 1
  BY <1>1, <1>2, <1>3, <1>4, <1>6, <1>9, TraceStep
<1>13. DriverAt'
  BY <1>1, <1>2, <1>3, <1>11, <1>12 DEF DriverAt, InStep, Requesting
<1>14. CallsAt'
  BY <1>1, <1>10, CallsSame DEF Requesting
<1>15. StepsCounted'
  <2>1. Cardinality(StepStarts(log')) \in Nat
    BY <1>10, CountIs
  <2>2. 0 <= Cardinality(StepStarts(log'))
    BY <2>1
  <2> QED
    BY <1>1, <2>2 DEF StepsCounted
<1>16. ExposedAt'
  BY <1>1, <1>2, <1>10, ExposedSame
<1>17. Types'
  BY <1>1, <1>2, <1>10, BoundsAssumption DEF Types
<1> QED
  BY <1>10, <1>13, <1>14, <1>15, <1>16, <1>17 DEF IInv

\* A step is opened with the next number, after a checkpoint.
LEMMA StepStartStep ==
  ASSUME IInv, StepStart
  PROVE  IInv'
<1> DEFINE e == StepEvent("step/start", turn, step + 1)
<1>1. /\ pc = "turn" /\ log' = Append(log, e) /\ step' = step + 1 /\ pc' = "request"
      /\ Cardinality(StepStarts(log)) < MaxSteps /\ Flushed(Len(log))
      /\ calls' = <<>> /\ callSeqs' = <<>> /\ committed' = 0 /\ dispatched' = {}
      /\ UNCHANGED <<turn, crashes, exposed>>
  BY DEF StepStart, NoStep, StepStarts
<1>2. /\ log \in Seq(Event) /\ Legal(log) /\ turn \in 0..MaxTurns /\ DriverAt /\ ExposedAt
      /\ step \in 0..MaxSteps /\ crashes \in 0..MaxCrashes /\ StepsCounted /\ CallsAt
  BY DEF IInv, Types
<1>3. PICK p, t, r, u : /\ p = Scan(log) /\ t = SeedSession(log)
                        /\ r = Scan(log') /\ u = SeedSession(log')
  OBVIOUS
<1>4. /\ FoldsAgree(p, t) /\ CallsAgree(p, t) /\ Placed(log, p, t)
      /\ t.nextTurn \in Nat /\ t.nextStep \in Nat
      /\ p.openStep = 0 => p.pendingCalls = <<>>
      /\ p.openTurn # 0 => t.nextTurn = p.openTurn
  BY <1>2, <1>3, LogFacts
<1>5. turn # 0 /\ p.openTurn = turn /\ p.openStep = 0 /\ step + 1 = t.nextStep
  BY <1>1, <1>2, <1>3 DEF DriverAt
<1>6. e.type = "step/start" /\ e.turn = turn /\ e.step = step + 1
  BY DEF StepEvent
<1>7. turn \in Turns /\ step + 1 \in Steps
  <2>1. Cardinality(StepStarts(log)) \in Nat /\ step <= Cardinality(StepStarts(log))
    BY <1>2, CountIs DEF StepsCounted
  <2> QED
    BY <1>1, <1>2, <1>5, <2>1, BoundsAssumption DEF Turns, Steps
<1>8. e \in Event
  BY <1>7 DEF Event, StepEvent
<1> HIDE DEF e
<1>9. Fits(log, e)
  BY <1>3, <1>5, <1>6, <1>8 DEF Fits, OfStep, IsResult, IsReplacement
<1>10. Grown /\ log' \in Seq(Event) /\ Legal(log')
  BY <1>1, <1>2, <1>9, AppendFacts
<1>11. r.openTurn = turn /\ r.openStep = step + 1 /\ r.pendingCalls = <<>>
  BY <1>1, <1>2, <1>3, <1>4, <1>5, <1>6, <1>9, ScanStep
<1>12. ~HasMessage(log', turn, step + 1)
  <2>1. ~HasMessage(log, turn, step + 1)
    <3>1. ASSUME NEW k \in DOMAIN log, log[k].type = "assistant/message",
                 log[k].turn = turn, log[k].step = step + 1
          PROVE  FALSE
      <4>1. Past(log[k], t) \/ Current(log[k], p)
        BY <1>4, <3>1 DEF Placed, OfStep
      <4>2. step \in Nat
        BY <1>2
      <4> QED
        BY <1>2, <1>4, <1>5, <3>1, <4>1, <4>2 DEF Past, Current
    <3> QED
      BY <3>1 DEF HasMessage
  <2> QED
    BY <1>1, <1>2, <1>6, <1>8, <2>1, HasMessageAppend
<1>13. DriverAt'
  <2>1. step + 1 # 0
    BY <1>2
  <2> QED
    BY <1>1, <1>2, <1>3, <1>5, <1>11, <1>12, <2>1 DEF DriverAt, InStep, Requesting
<1>14. CallsAt'
  <2>1. <<>> \in Messages
    BY NoCalls
  <2> QED
    BY <1>1, <2>1 DEF CallsAt, Requesting
<1>15. StepsCounted'
  <2>1. step + 1 <= Cardinality(StepStarts(log'))
    BY <1>1, <1>2, <1>6, <1>8, CountStarts
  <2> QED
    BY <1>1, <2>1 DEF StepsCounted
<1>16. ExposedAt'
  <2>1. Len(log) \in 0..Len(log)
    BY <1>2
  <2> QED
    BY <1>1, <1>2, <1>10, <2>1, ExposedFlushed
<1>17. Types'
  BY <1>1, <1>2, <1>7, <1>10, BoundsAssumption DEF Types, InStep, Requesting, Steps
<1> QED
  BY <1>10, <1>13, <1>14, <1>15, <1>16, <1>17 DEF IInv

\* The parts of the invariant that are left when the log grows under the driver.
LEMMA GrowsKeeps ==
  ASSUME IInv, Grown, Legal(log'), UNCHANGED <<turn, step, crashes>>,
         pc' \in {"idle", "turn", "ending"} \cup InStep, DriverAt', CallsAt', ExposedAt'
  PROVE  IInv'
<1>1. log \in Seq(Event) /\ step \in Nat /\ StepsCounted
  BY DEF IInv, Types
<1>2. StepsCounted'
  BY <1>1, CountKept DEF StepsCounted
<1>3. Types'
  BY DEF IInv, Types, Grown, InStep, Requesting
<1> QED
  BY <1>2, <1>3 DEF IInv

\* Events that open and close nothing.
Inert(e) ==
    IsReplacement(e) \/ e.type \in {"assistant/chunk", "request/header", "session/end-seed"}

\* One of them between the calls of a step: the driver is still where the log says.
LEMMA InertStep ==
  ASSUME IInv, NEW e, Fits(log, e), Inert(e), log' = Append(log, e),
         UNCHANGED <<turn, step, calls, callSeqs, committed, dispatched>>,
         (pc = "turn" /\ pc' = "turn") \/ (pc \in Requesting /\ pc' \in Requesting)
  PROVE  Grown /\ Legal(log') /\ DriverAt' /\ CallsAt'
<1>1. log \in Seq(Event) /\ Legal(log) /\ DriverAt /\ turn \in Nat /\ step \in Nat
  BY DEF IInv, Types
<1>2. e \in Event /\ Grown /\ log' \in Seq(Event) /\ Legal(log')
  BY <1>1, AppendFacts
<1>3. PICK p, t, r, u : /\ p = Scan(log) /\ t = SeedSession(log)
                        /\ r = Scan(log') /\ u = SeedSession(log')
  OBVIOUS
<1>4. FoldsAgree(p, t) /\ CallsAgree(p, t)
  BY <1>1, <1>3, LogFacts
<1>5. r = p
  BY <1>1, <1>3, <1>4, ScanStep DEF Inert
<1>6. e.type \notin {"turn/start", "turn/end", "step/start", "step/end", "assistant/message"}
  BY DEF Inert, IsReplacement
<1>7. u.nextTurn = t.nextTurn /\ u.nextStep = t.nextStep
  BY <1>1, <1>3, <1>4, <1>6, TraceStep
<1>8. HasMessage(log', turn, step) <=> HasMessage(log, turn, step)
  BY <1>1, <1>2, <1>6, HasMessageAppend
<1>9. DriverAt'
  <2>1. CASE pc = "turn" /\ pc' = "turn"
    BY <1>1, <1>3, <1>5, <1>7, <2>1 DEF DriverAt, InStep, Requesting
  <2>2. CASE pc \in Requesting /\ pc' \in Requesting
    BY <1>1, <1>3, <1>5, <1>8, <2>2 DEF DriverAt, InStep, Requesting
  <2> QED
    BY <2>1, <2>2
<1>10. CallsAt'
  BY <1>2, CallsSame DEF Requesting
<1> QED
  BY <1>2, <1>9, <1>10

\* An earlier result is replaced while nothing is being called.
LEMMA PruneResultStep ==
  ASSUME IInv, NEW k \in DOMAIN log, PruneResult(k)
  PROVE  IInv'
<1> DEFINE e == [log[k] EXCEPT !.surfaceOp = "replace", !.cites = k]
<1>1. /\ pc \in {"turn", "request"} /\ IsResult(log[k]) /\ log' = Append(log, e)
      /\ pc' = pc
      /\ UNCHANGED <<disk, turn, step, calls, callSeqs, committed, dispatched, crashes,
                     exposed>>
  BY DEF PruneResult, driver
<1>2. log \in Seq(Event) /\ Legal(log) /\ DriverAt /\ ExposedAt
  BY DEF IInv, Types
<1>3. log[k] \in Event /\ k \in Nat
  BY <1>2
<1>4. e \in Event /\ IsReplacement(e)
  BY <1>1, <1>3 DEF Event, IsResult, IsReplacement
<1>5. e.type = "tool/result" /\ ~IsResult(e)
  BY <1>4 DEF IsReplacement, IsResult
<1> HIDE DEF e
<1>6. PICK p, t : p = Scan(log) /\ t = SeedSession(log)
  OBVIOUS
<1>7. p.openTurn # 0 /\ p.pendingCalls = <<>>
  <2>1. p.openStep = 0 => p.pendingCalls = <<>>
    BY <1>2, <1>6, LogFacts
  <2> QED
    BY <1>1, <1>2, <1>6, <2>1 DEF DriverAt, InStep, Requesting
<1>8. Fits(log, e)
  BY <1>4, <1>5, <1>6, <1>7 DEF Fits, OfStep
<1>9. Grown /\ Legal(log') /\ DriverAt' /\ CallsAt'
  <2>1. Inert(e)
    BY <1>4 DEF Inert
  <2>2. (pc = "turn" /\ pc' = "turn") \/ (pc \in Requesting /\ pc' \in Requesting)
    BY <1>1 DEF Requesting
  <2>3. log' = Append(log, e)
    BY <1>1
  <2>4. UNCHANGED <<turn, step, calls, callSeqs, committed, dispatched>>
    BY <1>1
  <2> QED
    BY <1>8, <2>1, <2>2, <2>3, <2>4, InertStep
<1>10. ExposedAt'
  BY <1>1, <1>2, <1>9, ExposedSame
<1> QED
  BY <1>1, <1>9, <1>10, GrowsKeeps DEF InStep, Requesting

\* The request is built, with a header in the log or without.
LEMMA BuildRequestStep ==
  ASSUME IInv, BuildRequest
  PROVE  IInv'
<1> DEFINE e == Other("request/header")
<1>1. /\ pc = "request" /\ pc' = "checkpoint"
      /\ UNCHANGED <<disk, turn, step, calls, callSeqs, committed, dispatched, crashes,
                     exposed>>
      /\ log' = Append(log, e) \/ log' = log
  BY DEF BuildRequest, driver
<1>2. log \in Seq(Event) /\ Legal(log) /\ DriverAt /\ ExposedAt
  BY DEF IInv, Types
<1>3. Grown /\ Legal(log') /\ DriverAt' /\ CallsAt'
  <2>1. CASE log' = Append(log, e)
    <3>1. e \in Event /\ e.type = "request/header"
      BY DEF Event, Other
    <3> HIDE DEF e
    <3>2. Scan(log).openTurn # 0
      BY <1>1, <1>2 DEF DriverAt, InStep, Requesting
    <3>3. Fits(log, e)
      BY <3>1, <3>2 DEF Fits, OfStep, IsResult, IsReplacement
    <3> QED
      BY <1>1, <2>1, <3>1, <3>3, InertStep DEF Inert, Requesting
  <2>2. CASE log' = log
    <3>1. Legal(log') /\ CallsAt'
      BY <1>1, <2>2, LogSame DEF InStep, Requesting
    <3>2. PICK p, t : p = Scan(log) /\ t = SeedSession(log)
      OBVIOUS
    <3>3. DriverAt'
      BY <1>1, <1>2, <2>2, <3>2 DEF DriverAt, InStep, Requesting
    <3> QED
      BY <1>2, <2>2, <3>1, <3>3, SameGrows
  <2> QED
    BY <1>1, <2>1, <2>2
<1>4. ExposedAt'
  BY <1>1, <1>2, <1>3, ExposedSame
<1> QED
  BY <1>1, <1>3, <1>4, GrowsKeeps DEF InStep, Requesting

\* The request leaves, after a checkpoint.
LEMMA RequestStep ==
  ASSUME IInv, Request
  PROVE  IInv'
<1>1. /\ pc = "checkpoint" /\ Flushed(Len(log)) /\ exposed' = Longer(exposed, log)
      /\ pc' = "stream"
      /\ UNCHANGED <<log, turn, step, calls, callSeqs, committed, dispatched, crashes>>
  BY DEF Request, driver
<1>2. log \in Seq(Event) /\ Legal(log) /\ DriverAt /\ ExposedAt
  BY DEF IInv, Types
<1>3. Grown /\ Legal(log')
  BY <1>1, <1>2, SameGrows
<1>4. CallsAt'
  BY <1>1, <1>3, CallsSame DEF Requesting
<1>5. DriverAt'
  <2>1. PICK p, t : p = Scan(log) /\ t = SeedSession(log)
    OBVIOUS
  <2> QED
    BY <1>1, <1>2, <2>1 DEF DriverAt, InStep, Requesting
<1>6. ExposedAt'
  <2>1. Len(log) \in 0..Len(log) /\ SubSeq(log, 1, Len(log)) = log
    BY <1>2
  <2> QED
    BY <1>1, <1>2, <1>3, <2>1, ExposedFlushed
<1> QED
  BY <1>1, <1>3, <1>4, <1>5, <1>6, GrowsKeeps DEF InStep, Requesting

\* The answer is streamed.
LEMMA ChunkStep ==
  ASSUME IInv, Chunk
  PROVE  IInv'
<1> DEFINE e == StepEvent("assistant/chunk", turn, step)
<1>1. /\ pc = "stream" /\ pc' = "streamed" /\ log' = Append(log, e)
      /\ UNCHANGED <<disk, turn, step, calls, callSeqs, committed, dispatched, crashes,
                     exposed>>
  BY DEF Chunk, driver
<1>2. /\ log \in Seq(Event) /\ Legal(log) /\ DriverAt /\ ExposedAt
      /\ turn \in 0..MaxTurns /\ step \in 0..MaxSteps
  BY DEF IInv, Types
<1>3. /\ turn # 0 /\ step # 0
      /\ Scan(log).openTurn = turn /\ Scan(log).openStep = step
  BY <1>1, <1>2 DEF DriverAt, InStep, Requesting
<1>4. turn \in Turns /\ step \in Steps
  BY <1>2, <1>3, BoundsAssumption DEF Turns, Steps
<1>5. e \in Event /\ e.type = "assistant/chunk" /\ e.turn = turn /\ e.step = step
  BY <1>4 DEF Event, StepEvent
<1> HIDE DEF e
<1>6. Fits(log, e)
  BY <1>3, <1>5 DEF Fits, OfStep, IsResult, IsReplacement
<1>7. Grown /\ Legal(log') /\ DriverAt' /\ CallsAt'
  BY <1>1, <1>5, <1>6, InertStep DEF Inert, Requesting
<1>8. ExposedAt'
  BY <1>1, <1>2, <1>7, ExposedSame
<1> QED
  BY <1>1, <1>7, <1>8, GrowsKeeps DEF InStep, Requesting

\* A step that only moves the driver on keeps the calls and the log.
LEMMA MoveStep ==
  ASSUME IInv, UNCHANGED <<log, disk, exposed, turn, step, calls, callSeqs, committed,
                           dispatched, crashes>>,
         pc' \in InStep \ {"tools"}, pc \in InStep,
         pc' \in Requesting => pc \in Requesting,
         pc' \in {"closing", "throwing"} => Scan(log).pendingCalls = <<>>
  PROVE  IInv'
<1>1. Types' /\ Legal(log') /\ CallsAt' /\ StepsCounted' /\ ExposedAt'
  BY LogSame
<1>2. PICK p, t : p = Scan(log) /\ t = SeedSession(log)
  OBVIOUS
<1>3. DriverAt
  BY DEF IInv
<1>4. DriverAt'
  BY <1>2, <1>3 DEF DriverAt, InStep, Requesting
<1> QED
  BY <1>1, <1>4 DEF IInv

\* The request is retried.
LEMMA RetryRequestStep ==
  ASSUME IInv, RetryRequest
  PROVE  IInv'
<1>1. /\ pc = "streamed" /\ pc' = "request"
      /\ UNCHANGED <<log, disk, exposed, turn, step, calls, callSeqs, committed,
                     dispatched, crashes>>
  BY DEF RetryRequest, driver
<1> QED
  BY <1>1, MoveStep DEF InStep, Requesting

\* The request fails for good.
LEMMA RequestFailsStep ==
  ASSUME IInv, RequestFails
  PROVE  IInv'
<1>1. /\ pc \in {"request", "checkpoint", "stream", "streamed"} /\ pc' = "throwing"
      /\ UNCHANGED <<log, disk, exposed, turn, step, calls, callSeqs, committed,
                     dispatched, crashes>>
  BY DEF RequestFails, driver
<1>2. Scan(log).pendingCalls = <<>>
  BY <1>1 DEF IInv, DriverAt, Requesting
<1> QED
  BY <1>1, <1>2, MoveStep DEF InStep, Requesting

\* The scheduler fails.
LEMMA SchedulerFailsStep ==
  ASSUME IInv, SchedulerFails
  PROVE  IInv'
<1>1. /\ pc = "tools" /\ pc' = "failing"
      /\ UNCHANGED <<log, disk, exposed, turn, step, calls, callSeqs, committed,
                     dispatched, crashes>>
  BY DEF SchedulerFails, driver
<1> QED
  BY <1>1, MoveStep DEF InStep, Requesting

\* All results are in: nothing is left open.
LEMMA ToolsDoneStep ==
  ASSUME IInv, ToolsDone
  PROVE  IInv'
<1>1. /\ pc = "tools" /\ pc' = "closing" /\ committed = Len(calls)
      /\ UNCHANGED <<log, disk, exposed, turn, step, calls, callSeqs, committed,
                     dispatched, crashes>>
  BY DEF ToolsDone, driver
<1>2. Scan(log).pendingCalls = Uncommitted
  BY <1>1 DEF IInv, DriverAt
<1>3. Uncommitted = <<>>
  <2>1. Len(calls) - committed = 0
    BY <1>1 DEF IInv, CallsAt
  <2>2. DOMAIN Uncommitted = {}
    BY <2>1 DEF Uncommitted
  <2> QED
    BY <2>1 DEF Uncommitted
<1> QED
  BY <1>1, <1>2, <1>3, MoveStep DEF InStep, Requesting

\* The message is logged: its calls are open, none of them started.
LEMMA AssistantMessageStep ==
  ASSUME IInv, NEW cs \in Messages, AssistantMessage(cs)
  PROVE  IInv'
<1> DEFINE e == Message(turn, step, cs)
<1>1. /\ pc = "streamed" /\ log' = Append(log, e) /\ calls' = cs
      /\ pc' = IF cs = <<>> THEN "closing" ELSE "tools"
      /\ UNCHANGED <<disk, turn, step, callSeqs, committed, dispatched, crashes, exposed>>
  BY DEF AssistantMessage
<1>2. /\ log \in Seq(Event) /\ Legal(log) /\ DriverAt /\ ExposedAt /\ CallsAt
      /\ turn \in 0..MaxTurns /\ step \in 0..MaxSteps
  BY DEF IInv, Types
<1>3. PICK p, t, r : p = Scan(log) /\ t = SeedSession(log) /\ r = Scan(log')
  OBVIOUS
<1>4. /\ turn # 0 /\ step # 0 /\ p.openTurn = turn /\ p.openStep = step
      /\ p.pendingCalls = <<>> /\ ~HasMessage(log, turn, step)
      /\ callSeqs = <<>> /\ committed = 0
  BY <1>1, <1>2, <1>3 DEF DriverAt, InStep, Requesting, CallsAt
<1>5. turn \in Turns /\ step \in Steps
  BY <1>2, <1>4, BoundsAssumption DEF Turns, Steps
<1>6. /\ e \in Event /\ e.type = "assistant/message" /\ e.turn = turn /\ e.step = step
      /\ e.calls = cs
  BY <1>5 DEF Event, Message
<1> HIDE DEF e
<1>7. Fits(log, e)
  BY <1>3, <1>4, <1>6 DEF Fits, OfStep, IsResult, IsReplacement
<1>8. Grown /\ log' \in Seq(Event) /\ Legal(log')
  BY <1>1, <1>2, <1>7, AppendFacts
<1>9. FoldsAgree(p, t) /\ CallsAgree(p, t)
  BY <1>2, <1>3, LogFacts
<1>10. /\ r \in ScanState /\ r.openTurn = turn /\ r.openStep = step
       /\ Len(r.pendingCalls) = Len(cs)
       /\ \A i \in 1..Len(cs) :
             r.pendingCalls[i] = [call |-> cs[i], step |-> step, callSeq |-> 0]
  BY <1>1, <1>2, <1>3, <1>4, <1>6, <1>7, <1>9, ScanStep
<1>11. cs \in Seq(CallId)
  BY <1>5, RegisteredIs
<1>12. Len(cs) \in Nat /\ r.pendingCalls \in Seq(Pending)
  BY <1>10, <1>11 DEF ScanState
<1>13. CallsAt'
  <2>1. callSeqs' \in Seq(1..Len(log'))
    BY <1>1, <1>2, <1>8, SeqsKept DEF CallsAt
  <2>2. Len(callSeqs') = 0 /\ committed' = 0
    BY <1>1, <1>4
  <2> QED
    BY <1>1, <1>2, <1>4, <1>12, <2>1, <2>2 DEF CallsAt, Requesting
<1>14. r.pendingCalls = Uncommitted'
  <2> DEFINE open == [i \in 1..(Len(cs) - 0) |->
                        [call |-> cs[0 + i], step |-> step, callSeq |-> 0]]
  <2>1. Uncommitted' = [i \in 1..(Len(calls') - committed') |->
                          [call |-> calls'[committed' + i], step |-> step',
                           callSeq |-> IF committed' + i <= Len(callSeqs')
                                       THEN callSeqs'[committed' + i] ELSE 0]]
    BY DEF Uncommitted
  <2>2. \A i \in 1..(Len(cs) - 0) : ~(0 + i <= 0) /\ 0 + i = i
    BY <1>12
  <2>3. Len(callSeqs') = 0 /\ committed' = 0 /\ calls' = cs /\ step' = step
    BY <1>1, <1>4
  <2>4. Uncommitted' = [i \in 1..Len(cs) |-> [call |-> cs[i], step |-> step, callSeq |-> 0]]
    BY <1>12, <2>1, <2>2, <2>3
  <2>5. r.pendingCalls = [i \in 1..Len(cs) |-> r.pendingCalls[i]]
    BY <1>10, <1>12
  <2> QED
    BY <1>10, <2>4, <2>5
<1>15. cs = <<>> => r.pendingCalls = <<>>
  <2>1. cs = <<>> => Len(r.pendingCalls) = 0
    BY <1>10
  <2> QED
    BY <1>12, <2>1
<1>16. DriverAt'
  BY <1>1, <1>3, <1>4, <1>10, <1>14, <1>15 DEF DriverAt, InStep, Requesting
<1>17. ExposedAt'
  BY <1>1, <1>2, <1>8, ExposedSame
<1>18. UNCHANGED <<turn, step, crashes>> /\ pc' \in {"idle", "turn", "ending"} \cup InStep
  BY <1>1 DEF InStep
<1> QED
  BY <1>8, <1>13, <1>16, <1>17, <1>18, GrowsKeeps

\* A cut-off message has no calls.
LEMMA InterruptedMessageStep ==
  ASSUME IInv, InterruptedMessage
  PROVE  IInv'
<1> DEFINE e == Message(turn, step, <<>>)
<1>1. /\ pc = "streamed" /\ log' = Append(log, e) /\ pc' = "throwing"
      /\ UNCHANGED <<disk, turn, step, calls, callSeqs, committed, dispatched, crashes,
                     exposed>>
  BY DEF InterruptedMessage, driver
<1>2. /\ log \in Seq(Event) /\ Legal(log) /\ DriverAt /\ ExposedAt /\ CallsAt
      /\ turn \in 0..MaxTurns /\ step \in 0..MaxSteps
  BY DEF IInv, Types
<1>3. PICK p, t, r : p = Scan(log) /\ t = SeedSession(log) /\ r = Scan(log')
  OBVIOUS
<1>4. /\ turn # 0 /\ step # 0 /\ p.openTurn = turn /\ p.openStep = step
      /\ p.pendingCalls = <<>> /\ ~HasMessage(log, turn, step)
  BY <1>1, <1>2, <1>3 DEF DriverAt, InStep, Requesting
<1>5. turn \in Turns /\ step \in Steps
  BY <1>2, <1>4, BoundsAssumption DEF Turns, Steps
<1>6. /\ e \in Event /\ e.type = "assistant/message" /\ e.turn = turn /\ e.step = step
      /\ e.calls = <<>>
  BY <1>5, NoCalls DEF Event, Message
<1> HIDE DEF e
<1>7. Fits(log, e)
  BY <1>3, <1>4, <1>6 DEF Fits, OfStep, IsResult, IsReplacement
<1>8. Grown /\ log' \in Seq(Event) /\ Legal(log')
  BY <1>1, <1>2, <1>7, AppendFacts
<1>9. FoldsAgree(p, t) /\ CallsAgree(p, t)
  BY <1>2, <1>3, LogFacts
<1>10. /\ r \in ScanState /\ r.openTurn = turn /\ r.openStep = step
       /\ Len(r.pendingCalls) = Len(e.calls)
  BY <1>1, <1>2, <1>3, <1>4, <1>6, <1>7, <1>9, ScanStep
<1>11. r.pendingCalls = <<>>
  <2>1. Len(r.pendingCalls) = 0 /\ r.pendingCalls \in Seq(Pending)
    BY <1>6, <1>10 DEF ScanState
  <2> QED
    BY <2>1
<1>12. CallsAt'
  BY <1>1, <1>8, CallsSame DEF Requesting
<1>13. DriverAt'
  BY <1>1, <1>3, <1>4, <1>10, <1>11 DEF DriverAt, InStep, Requesting
<1>14. ExposedAt'
  BY <1>1, <1>2, <1>8, ExposedSame
<1>15. UNCHANGED <<turn, step, crashes>> /\ pc' \in {"idle", "turn", "ending"} \cup InStep
  BY <1>1 DEF InStep
<1> QED
  BY <1>8, <1>12, <1>13, <1>14, <1>15, GrowsKeeps

\* The uncommitted calls, one by one.
LEMMA UncommittedIs ==
  ASSUME IInv, pc = "tools", NEW p, p = Scan(log)
  PROVE  /\ p \in ScanState /\ p.pendingCalls \in Seq(Pending)
         /\ p.openTurn = turn /\ p.openStep = step /\ turn # 0 /\ step # 0
         /\ Len(calls) \in Nat /\ Len(callSeqs) \in Nat /\ committed \in Nat
         /\ committed <= Len(callSeqs) /\ Len(callSeqs) <= Len(calls)
         /\ Len(p.pendingCalls) = Len(calls) - committed
         /\ \A i \in 1..(Len(calls) - committed) :
               /\ p.pendingCalls[i].call = calls[committed + i]
               /\ p.pendingCalls[i].step = step
               /\ p.pendingCalls[i].callSeq =
                     IF committed + i <= Len(callSeqs) THEN callSeqs[committed + i] ELSE 0
               /\ p.pendingCalls[i] = [call |-> calls[committed + i], step |-> step,
                                       callSeq |-> p.pendingCalls[i].callSeq]
         /\ \A i \in 1..Len(callSeqs) : callSeqs[i] \in 1..Len(log)
<1>1. /\ log \in Seq(Event) /\ Legal(log) /\ DriverAt /\ CallsAt
      /\ turn \in 0..MaxTurns /\ step \in 0..MaxSteps
  BY DEF IInv, Types
<1>2. /\ p \in ScanState /\ p.pendingCalls \in Seq(Pending)
  BY <1>1, LogFacts
<1>3. /\ p.openTurn = turn /\ p.openStep = step /\ turn # 0 /\ step # 0
      /\ p.pendingCalls = Uncommitted
  BY <1>1 DEF DriverAt, InStep, Requesting
<1>4. calls \in Seq(CallId)
  <2>1. step \in Steps
    BY <1>1, <1>3, BoundsAssumption DEF Steps
  <2> QED
    BY <1>1, <2>1, RegisteredIs DEF CallsAt
<1>5. /\ Len(calls) \in Nat /\ Len(callSeqs) \in Nat /\ committed \in Nat
      /\ committed <= Len(callSeqs) /\ Len(callSeqs) <= Len(calls)
      /\ \A i \in 1..Len(callSeqs) : callSeqs[i] \in 1..Len(log)
  BY <1>1, <1>4 DEF CallsAt
<1>6. p.pendingCalls =
        [i \in 1..(Len(calls) - committed) |->
            [call |-> calls[committed + i], step |-> step,
             callSeq |-> IF committed + i <= Len(callSeqs)
                         THEN callSeqs[committed + i] ELSE 0]]
  BY <1>3 DEF Uncommitted
<1>7. Len(calls) - committed \in Nat
  BY <1>5
<1>8. Len(p.pendingCalls) = Len(calls) - committed
  BY <1>2, <1>6, <1>7
<1>9. ASSUME NEW i \in 1..(Len(calls) - committed)
      PROVE  p.pendingCalls[i] = [call |-> calls[committed + i], step |-> step,
                callSeq |-> IF committed + i <= Len(callSeqs)
                            THEN callSeqs[committed + i] ELSE 0]
  BY <1>6, <1>9
<1>10. ASSUME NEW i \in 1..(Len(calls) - committed)
      PROVE  /\ p.pendingCalls[i].call = calls[committed + i]
             /\ p.pendingCalls[i].step = step
             /\ p.pendingCalls[i].callSeq =
                   IF committed + i <= Len(callSeqs) THEN callSeqs[committed + i] ELSE 0
             /\ p.pendingCalls[i] = [call |-> calls[committed + i], step |-> step,
                                     callSeq |-> p.pendingCalls[i].callSeq]
  <2> DEFINE n == IF committed + i <= Len(callSeqs) THEN callSeqs[committed + i] ELSE 0
  <2>1. p.pendingCalls[i] = [call |-> calls[committed + i], step |-> step, callSeq |-> n]
    BY <1>9, <1>10
  <2> HIDE DEF n
  <2>2. /\ p.pendingCalls[i].call = calls[committed + i] /\ p.pendingCalls[i].step = step
        /\ p.pendingCalls[i].callSeq = n
    BY <2>1
  <2> QED
    BY <2>1, <2>2 DEF n
<1> QED
  BY <1>2, <1>3, <1>5, <1>8, <1>10


\* The next call is started: its record is in the log before its body runs.
LEMMA StartCallStep ==
  ASSUME IInv, StartCall
  PROVE  IInv'
<1>1. /\ pc = "tools" /\ Len(callSeqs) < Len(calls)
      /\ log' = Append(log, ToolCall(turn, step, calls[Len(callSeqs) + 1]))
      /\ callSeqs' = Append(callSeqs, Len(log) + 1) /\ pc' = pc
      /\ UNCHANGED <<disk, turn, step, calls, committed, dispatched, crashes, exposed>>
  BY DEF StartCall
<1>2. /\ log \in Seq(Event) /\ Legal(log) /\ DriverAt /\ ExposedAt /\ CallsAt
      /\ Len(log) \in Nat
  BY DEF IInv, Types
<1>3. PICK p, r : p = Scan(log) /\ r = Scan(log')
  OBVIOUS
<1> DEFINE i == Len(callSeqs) + 1 - committed
<1>4. /\ p \in ScanState /\ p.pendingCalls \in Seq(Pending)
      /\ p.openTurn = turn /\ p.openStep = step /\ turn # 0 /\ step # 0
      /\ Len(calls) \in Nat /\ Len(callSeqs) \in Nat /\ committed \in Nat
      /\ committed <= Len(callSeqs) /\ Len(callSeqs) <= Len(calls)
      /\ Len(p.pendingCalls) = Len(calls) - committed
      /\ \A j \in 1..(Len(calls) - committed) :
            /\ p.pendingCalls[j].call = calls[committed + j]
            /\ p.pendingCalls[j].step = step
            /\ p.pendingCalls[j].callSeq =
                  IF committed + j <= Len(callSeqs) THEN callSeqs[committed + j] ELSE 0
            /\ p.pendingCalls[j] = [call |-> calls[committed + j], step |-> step,
                                    callSeq |-> p.pendingCalls[j].callSeq]
      /\ \A j \in 1..Len(callSeqs) : callSeqs[j] \in 1..Len(log)
  BY <1>1, <1>3, UncommittedIs
<1>5. /\ i \in 1..(Len(calls) - committed) /\ committed + i = Len(callSeqs) + 1
      /\ ~(committed + i <= Len(callSeqs)) /\ DOMAIN p.pendingCalls = 1..(Len(calls) - committed)
  BY <1>1, <1>4
<1> HIDE DEF i
<1>6. p.pendingCalls[i].callSeq = 0 /\ p.pendingCalls[i].call = calls[Len(callSeqs) + 1]
  BY <1>4, <1>5
<1>7. PICK e : e = ToolCall(p.openTurn, p.openStep, p.pendingCalls[i].call)
  OBVIOUS
<1>8. log' = Append(log, e)
  BY <1>1, <1>4, <1>6, <1>7
<1>9. i \in DOMAIN p.pendingCalls /\ r = Scan(Append(log, e))
  BY <1>3, <1>5, <1>8
<1>10. /\ e \in Event /\ Fits(log, e)
       /\ r \in ScanState /\ r.openTurn = p.openTurn /\ r.openStep = p.openStep
       /\ Started(p, r, i, Len(log) + 1)
  BY <1>2, <1>3, <1>6, <1>7, <1>9, CallStep
<1>11. Grown /\ log' \in Seq(Event) /\ Legal(log') /\ Len(log') = Len(log) + 1
  BY <1>2, <1>8, <1>10, AppendFacts, AppendGrows
<1>12. /\ callSeqs' \in Seq(1..Len(log')) /\ Len(callSeqs') = Len(callSeqs) + 1
       /\ \A j \in 1..Len(callSeqs) : callSeqs'[j] = callSeqs[j]
       /\ callSeqs'[Len(callSeqs) + 1] = Len(log) + 1
       /\ DOMAIN callSeqs' = 1..(Len(callSeqs) + 1) /\ DOMAIN callSeqs = 1..Len(callSeqs)
  <2>1. callSeqs \in Seq(1..Len(log'))
    BY <1>2, <1>11, SeqsKept DEF CallsAt
  <2>2. Len(log) + 1 \in 1..Len(log')
    BY <1>2, <1>11
  <2> QED
    BY <1>1, <2>1, <2>2
<1>13. CallsAt'
  <2>1. dispatched' \subseteq DOMAIN callSeqs'
    BY <1>1, <1>2, <1>4, <1>12 DEF CallsAt
  <2> QED
    BY <1>1, <1>2, <1>4, <1>12, <2>1 DEF CallsAt, Requesting
<1>14. r.pendingCalls = Uncommitted'
  <2>1. r.pendingCalls \in Seq(Pending)
    BY <1>10 DEF ScanState
  <2>2. Len(r.pendingCalls) = Len(calls) - committed
    BY <1>4, <1>10 DEF Started
  <2>3. ASSUME NEW j \in 1..(Len(calls) - committed)
        PROVE  r.pendingCalls[j] =
                  [call |-> calls[committed + j], step |-> step,
                   callSeq |-> IF committed + j <= Len(callSeqs')
                               THEN callSeqs'[committed + j] ELSE 0]
    <3>1. CASE j = i
      <4>1. r.pendingCalls[j] = [call |-> p.pendingCalls[i].call, step |-> p.openStep,
                                 callSeq |-> Len(log) + 1]
        BY <1>4, <1>10, <2>3, <3>1 DEF Started
      <4>2. committed + j = Len(callSeqs) + 1
        BY <1>5, <3>1
      <4>3. /\ committed + j <= Len(callSeqs') /\ callSeqs'[committed + j] = Len(log) + 1
            /\ calls[committed + j] = p.pendingCalls[i].call
        BY <1>4, <1>6, <1>12, <4>2
      <4> QED
        BY <1>4, <4>1, <4>3
    <3>2. CASE j # i
      <4>1. r.pendingCalls[j] = p.pendingCalls[j]
        BY <1>4, <1>10, <2>3, <3>2 DEF Started
      <4>2. committed + j # Len(callSeqs) + 1 /\ committed + j \in Nat
            /\ committed + j >= 1
        BY <1>4, <1>5, <2>3, <3>2
      <4>3. CASE committed + j <= Len(callSeqs)
        <5>1. /\ committed + j <= Len(callSeqs') /\ committed + j \in 1..Len(callSeqs)
          BY <1>4, <1>12, <4>2, <4>3
        <5>2. callSeqs'[committed + j] = callSeqs[committed + j]
          BY <1>12, <5>1
        <5>3. p.pendingCalls[j].callSeq = callSeqs[committed + j]
          BY <1>4, <2>3, <4>3
        <5> QED
          BY <1>4, <2>3, <4>1, <5>1, <5>2, <5>3
      <4>4. CASE ~(committed + j <= Len(callSeqs))
        <5>1. ~(committed + j <= Len(callSeqs'))
          BY <1>4, <1>12, <4>2, <4>4
        <5>2. p.pendingCalls[j].callSeq = 0
          BY <1>4, <2>3, <4>4
        <5> QED
          BY <1>4, <2>3, <4>1, <5>1, <5>2
      <4> QED
        BY <4>3, <4>4
    <3> QED
      BY <3>1, <3>2
  <2>4. Len(calls) - committed \in Nat
    BY <1>4
  <2>5. calls' = calls /\ committed' = committed /\ step' = step
    BY <1>1
  <2>6. r.pendingCalls = [j \in 1..(Len(calls) - committed) |-> r.pendingCalls[j]]
    BY <2>1, <2>2, <2>4
  <2>7. r.pendingCalls = [j \in 1..(Len(calls) - committed) |->
                            [call |-> calls[committed + j], step |-> step,
                             callSeq |-> IF committed + j <= Len(callSeqs')
                                         THEN callSeqs'[committed + j] ELSE 0]]
    BY <2>3, <2>6
  <2> QED
    BY <2>5, <2>7 DEF Uncommitted
<1>15. DriverAt'
  BY <1>1, <1>3, <1>4, <1>10, <1>14 DEF DriverAt, InStep, Requesting
<1>16. ExposedAt'
  BY <1>1, <1>2, <1>11, ExposedSame
<1> QED
  BY <1>1, <1>11, <1>13, <1>15, <1>16, GrowsKeeps DEF InStep

\* A body begins once its record is durable.
LEMMA DispatchStep ==
  ASSUME IInv, NEW i \in DOMAIN callSeqs, Dispatch(i)
  PROVE  IInv'
<1>1. /\ pc = "tools" /\ Flushed(callSeqs[i]) /\ dispatched' = dispatched \cup {i}
      /\ exposed' = Longer(exposed, SubSeq(log, 1, callSeqs[i])) /\ pc' = pc
      /\ UNCHANGED <<log, turn, step, calls, callSeqs, committed, crashes>>
  BY DEF Dispatch
<1>2. log \in Seq(Event) /\ Legal(log) /\ DriverAt /\ ExposedAt /\ CallsAt
  BY DEF IInv, Types
<1>3. Grown /\ Legal(log')
  BY <1>1, <1>2, SameGrows
<1>4. CallsAt'
  BY <1>1, <1>2 DEF CallsAt
<1>5. DriverAt'
  <2>1. PICK p, t : p = Scan(log) /\ t = SeedSession(log)
    OBVIOUS
  <2>2. Uncommitted' = Uncommitted
    BY <1>1 DEF Uncommitted
  <2> QED
    BY <1>1, <1>2, <2>1, <2>2 DEF DriverAt, InStep, Requesting
<1>6. ExposedAt'
  <2>1. callSeqs[i] \in 1..Len(log)
    BY <1>2 DEF CallsAt
  <2>2. callSeqs[i] \in 0..Len(log) /\ pc' # "down"
    BY <1>1, <1>2, <2>1
  <2> QED
    BY <1>1, <1>2, <1>3, <2>2, ExposedFlushed
<1> QED
  BY <1>1, <1>3, <1>4, <1>5, <1>6, GrowsKeeps DEF InStep

\* The result of the first open call is committed.
LEMMA CommitResultStep ==
  ASSUME IInv, CommitResult
  PROVE  IInv'
<1>1. /\ pc = "tools" /\ committed < Len(callSeqs)
      /\ log' = Append(log, ToolResult(turn, step, calls[committed + 1], "outcome",
                                       callSeqs[committed + 1]))
      /\ committed' = committed + 1 /\ pc' = pc
      /\ UNCHANGED <<disk, turn, step, calls, callSeqs, dispatched, crashes, exposed>>
  BY DEF CommitResult
<1>2. log \in Seq(Event) /\ Legal(log) /\ DriverAt /\ ExposedAt /\ CallsAt
  BY DEF IInv, Types
<1>3. PICK p, r : p = Scan(log) /\ r = Scan(log')
  OBVIOUS
<1>4. /\ p \in ScanState /\ p.pendingCalls \in Seq(Pending)
      /\ p.openTurn = turn /\ p.openStep = step /\ turn # 0 /\ step # 0
      /\ Len(calls) \in Nat /\ Len(callSeqs) \in Nat /\ committed \in Nat
      /\ committed <= Len(callSeqs) /\ Len(callSeqs) <= Len(calls)
      /\ Len(p.pendingCalls) = Len(calls) - committed
      /\ \A j \in 1..(Len(calls) - committed) :
            /\ p.pendingCalls[j].call = calls[committed + j]
            /\ p.pendingCalls[j].step = step
            /\ p.pendingCalls[j].callSeq =
                  IF committed + j <= Len(callSeqs) THEN callSeqs[committed + j] ELSE 0
            /\ p.pendingCalls[j] = [call |-> calls[committed + j], step |-> step,
                                    callSeq |-> p.pendingCalls[j].callSeq]
      /\ \A j \in 1..Len(callSeqs) : callSeqs[j] \in 1..Len(log)
  BY <1>1, <1>3, UncommittedIs
<1>5. 1 \in 1..(Len(calls) - committed) /\ committed + 1 <= Len(callSeqs)
      /\ committed + 1 \in 1..Len(callSeqs)
  BY <1>1, <1>4
<1>6. /\ p.pendingCalls # <<>> /\ p.pendingCalls[1].call = calls[committed + 1]
      /\ p.pendingCalls[1].callSeq = callSeqs[committed + 1]
      /\ p.pendingCalls[1].callSeq # 0
  <2>1. Len(p.pendingCalls) # 0
    BY <1>4, <1>5
  <2>2. /\ p.pendingCalls[1].call = calls[committed + 1]
        /\ p.pendingCalls[1].callSeq = callSeqs[committed + 1]
    BY <1>4, <1>5
  <2>3. callSeqs[committed + 1] \in 1..Len(log)
    BY <1>4, <1>5
  <2>4. callSeqs[committed + 1] # 0
    BY <1>2, <2>3
  <2> QED
    BY <1>4, <2>1, <2>2, <2>4
<1>7. PICK e : e = ToolResult(p.openTurn, p.openStep, p.pendingCalls[1].call, "outcome",
                              p.pendingCalls[1].callSeq)
  OBVIOUS
<1>8. log' = Append(log, e)
  BY <1>1, <1>4, <1>6, <1>7
<1>9. r = Scan(Append(log, e))
  BY <1>3, <1>8
<1>10. /\ e \in Event /\ Fits(log, e)
       /\ r \in ScanState /\ r.openTurn = p.openTurn /\ r.openStep = p.openStep
       /\ r.pendingCalls = Tail(p.pendingCalls)
  <2>1. "outcome" \in {"outcome", "skipped"}
    OBVIOUS
  <2> QED
    BY <1>2, <1>3, <1>6, <1>7, <1>9, <2>1, ResultStep
<1>11. Grown /\ log' \in Seq(Event) /\ Legal(log')
  BY <1>2, <1>8, <1>10, AppendFacts
<1>12. CallsAt'
  <2>1. callSeqs \in Seq(1..Len(log'))
    BY <1>2, <1>11, SeqsKept DEF CallsAt
  <2> QED
    BY <1>1, <1>2, <1>4, <2>1 DEF CallsAt, Requesting
<1>13. r.pendingCalls = Uncommitted'
  <2> DEFINE q == p.pendingCalls
  <2>1. /\ q \in Seq(Pending) /\ q # <<>> /\ Len(q) = Len(calls) - committed
    BY <1>4, <1>6
  <2> HIDE DEF q
  <2>2. /\ Tail(q) \in Seq(Pending) /\ Len(Tail(q)) = Len(q) - 1
        /\ \A j \in 1..Len(Tail(q)) : Tail(q)[j] = q[j + 1]
    BY <2>1, HeadTailProperties
  <2>3. Tail(q) = [j \in 1..(Len(q) - 1) |-> q[j + 1]]
    <3>1. PICK x \in Seq(Pending) : x = Tail(q)
      BY <2>2
    <3>2. x = [j \in 1..Len(x) |-> x[j]]
      OBVIOUS
    <3>3. Len(x) = Len(q) - 1 /\ \A j \in 1..Len(x) : x[j] = q[j + 1]
      BY <2>2, <3>1
    <3>4. x = [j \in 1..Len(x) |-> q[j + 1]]
      BY <3>2, <3>3
    <3> QED
      BY <3>1, <3>3, <3>4
  <2>4. Len(q) - 1 = Len(calls) - (committed + 1)
    BY <1>4, <2>1
  <2>5. ASSUME NEW j \in 1..(Len(calls) - (committed + 1))
        PROVE  q[j + 1] = [call |-> calls[(committed + 1) + j], step |-> step,
                           callSeq |-> IF (committed + 1) + j <= Len(callSeqs)
                                       THEN callSeqs[(committed + 1) + j] ELSE 0]
    <3>1. /\ j + 1 \in 1..(Len(calls) - committed)
          /\ committed + (j + 1) = (committed + 1) + j
      BY <1>4
    <3> QED
      BY <1>4, <3>1 DEF q
  <2>6. Tail(q) = [j \in 1..(Len(calls) - (committed + 1)) |->
                    [call |-> calls[(committed + 1) + j], step |-> step,
                     callSeq |-> IF (committed + 1) + j <= Len(callSeqs)
                                 THEN callSeqs[(committed + 1) + j] ELSE 0]]
    BY <2>3, <2>4, <2>5
  <2>7. calls' = calls /\ committed' = committed + 1 /\ step' = step /\ callSeqs' = callSeqs
    BY <1>1
  <2>8. Tail(q) = Uncommitted'
    BY <2>6, <2>7 DEF Uncommitted
  <2> QED
    BY <1>10, <2>8 DEF q
<1>14. DriverAt'
  BY <1>1, <1>3, <1>4, <1>10, <1>13 DEF DriverAt, InStep, Requesting
<1>15. ExposedAt'
  BY <1>1, <1>2, <1>11, ExposedSame
<1> QED
  BY <1>1, <1>11, <1>12, <1>14, <1>15, GrowsKeeps DEF InStep

\* A cancelled step answers the calls that it never started.
LEMMA SkipRemainingStep ==
  ASSUME IInv, SkipRemaining
  PROVE  IInv'
<1>1. /\ pc = "tools" /\ committed = Len(callSeqs) /\ committed < Len(calls)
      /\ log' = log \o FlattenSeq([j \in 1..(Len(calls) - committed) |->
                                      SkippedPair(committed + j, Len(log) + 2 * j - 1)])
      /\ pc' = "throwing"
      /\ UNCHANGED <<disk, turn, step, calls, callSeqs, committed, dispatched, crashes,
                     exposed>>
  BY DEF SkipRemaining, driver
<1>2. log \in Seq(Event) /\ Legal(log) /\ DriverAt /\ ExposedAt
  BY DEF IInv, Types
<1>3. PICK p : p = Scan(log)
  OBVIOUS
<1>4. /\ p \in ScanState /\ p.pendingCalls \in Seq(Pending)
      /\ p.openTurn = turn /\ p.openStep = step /\ turn # 0 /\ step # 0
      /\ Len(calls) \in Nat /\ Len(callSeqs) \in Nat /\ committed \in Nat
      /\ Len(p.pendingCalls) = Len(calls) - committed
      /\ \A j \in 1..(Len(calls) - committed) :
            /\ p.pendingCalls[j].call = calls[committed + j]
            /\ p.pendingCalls[j].callSeq =
                  IF committed + j <= Len(callSeqs) THEN callSeqs[committed + j] ELSE 0
  BY <1>1, <1>3, UncommittedIs
<1>5. \A i \in DOMAIN p.pendingCalls : p.pendingCalls[i].callSeq = 0
  <2>1. ASSUME NEW i \in 1..(Len(calls) - committed) PROVE p.pendingCalls[i].callSeq = 0
    <3>1. ~(committed + i <= Len(callSeqs))
      BY <1>1, <1>4
    <3> QED
      BY <1>4, <3>1
  <2>2. DOMAIN p.pendingCalls = 1..(Len(calls) - committed)
    BY <1>4
  <2> QED
    BY <2>1, <2>2
<1>6. p.pendingCalls # <<>>
  <2>1. Len(p.pendingCalls) # 0
    BY <1>1, <1>4
  <2> QED
    BY <2>1
<1>7. PICK pairs : pairs = SkippedPairs(p, Len(log))
  OBVIOUS
<1>8. pairs = [j \in 1..(Len(calls) - committed) |->
                  SkippedPair(committed + j, Len(log) + 2 * j - 1)]
  <2>1. pairs = [j \in 1..(Len(calls) - committed) |->
            <<ToolCall(turn, step, p.pendingCalls[j].call),
              ToolResult(turn, step, p.pendingCalls[j].call, "skipped",
                         Len(log) + 2 * j - 1)>>]
    BY <1>4, <1>7 DEF SkippedPairs
  <2>2. \A j \in 1..(Len(calls) - committed) : p.pendingCalls[j].call = calls[committed + j]
    BY <1>4
  <2> QED
    BY <2>1, <2>2 DEF SkippedPair
<1>9. log' = log \o FlattenSeq(pairs)
  BY <1>1, <1>8
<1>10. LET m == log \o FlattenSeq(pairs)
           r == Scan(m)
       IN  /\ m \in Seq(Event) /\ Legal(m) /\ FlattenSeq(pairs) \in Seq(Event)
           /\ r.openTurn = p.openTurn /\ r.openStep = p.openStep /\ r.pendingCalls = <<>>
  BY <1>2, <1>3, <1>5, <1>6, <1>7, Skips
<1>11. PICK d : d = FlattenSeq(pairs)
  OBVIOUS
<1>12. /\ log' = log \o d /\ d \in Seq(Event) /\ Legal(log')
       /\ Scan(log').openTurn = turn /\ Scan(log').openStep = step
       /\ Scan(log').pendingCalls = <<>>
  BY <1>4, <1>9, <1>10, <1>11
<1>13. Grown
  BY <1>2, <1>12, ConcatGrows
<1>14. DriverAt'
  <2>1. PICK r : r = Scan(log')
    OBVIOUS
  <2> QED
    BY <1>1, <1>4, <1>12, <2>1 DEF DriverAt, InStep, Requesting
<1>15. CallsAt'
  BY <1>1, <1>13, CallsSame DEF Requesting
<1>16. ExposedAt'
  BY <1>1, <1>2, <1>13, ExposedSame
<1> QED
  BY <1>1, <1>12, <1>13, <1>14, <1>15, <1>16, GrowsKeeps DEF InStep

\* A step is closed.
LEMMA EndStepStep ==
  ASSUME IInv, EndStep
  PROVE  IInv'
<1> DEFINE e == StepEnd(turn, step, pc = "failing")
<1>1. /\ pc \in {"closing", "throwing", "failing"} /\ log' = Append(log, e)
      /\ pc' = IF pc = "closing" THEN "turn" ELSE "ending"
      /\ calls' = <<>> /\ callSeqs' = <<>> /\ committed' = 0 /\ dispatched' = {}
      /\ UNCHANGED <<disk, turn, step, crashes, exposed>>
  BY DEF EndStep, NoStep
<1>2. /\ log \in Seq(Event) /\ Legal(log) /\ DriverAt /\ ExposedAt /\ CallsAt
      /\ turn \in 0..MaxTurns /\ step \in 0..MaxSteps
  BY DEF IInv, Types
<1>3. PICK p, t, r, u : /\ p = Scan(log) /\ t = SeedSession(log)
                        /\ r = Scan(log') /\ u = SeedSession(log')
  OBVIOUS
<1>4. /\ turn # 0 /\ step # 0 /\ p.openTurn = turn /\ p.openStep = step
      /\ pc = "failing" \/ p.pendingCalls = <<>>
  BY <1>1, <1>2, <1>3 DEF DriverAt, InStep, Requesting
<1>5. turn \in Turns /\ step \in Steps
  BY <1>2, <1>4, BoundsAssumption DEF Turns, Steps
<1>6. /\ e \in Event /\ e.type = "step/end" /\ e.turn = turn /\ e.step = step
      /\ e.failed = (pc = "failing")
  <2>1. (pc = "failing") \in BOOLEAN
    OBVIOUS
  <2>2. PICK b \in BOOLEAN : b = (pc = "failing")
    BY <2>1
  <2>3. e = StepEnd(turn, step, b)
    BY <2>2
  <2>4. StepEnd(turn, step, b) \in Event
    BY <1>5, <2>2 DEF Event, StepEnd
  <2>5. e.failed = b /\ e.type = "step/end" /\ e.turn = turn /\ e.step = step
    BY <2>3 DEF StepEnd
  <2> QED
    BY <2>2, <2>3, <2>4, <2>5
<1> HIDE DEF e
<1>7. Fits(log, e)
  <2>1. e.failed \/ p.pendingCalls = <<>>
    BY <1>4, <1>6
  <2> QED
    BY <1>3, <1>4, <1>6, <2>1 DEF Fits, OfStep, IsResult, IsReplacement
<1>8. Grown /\ log' \in Seq(Event) /\ Legal(log')
  BY <1>1, <1>2, <1>7, AppendFacts
<1>9. /\ FoldsAgree(p, t) /\ CallsAgree(p, t) /\ t.nextStep \in Nat
      /\ p.openStep # 0 => t.nextStep = p.openStep
  BY <1>2, <1>3, LogFacts
<1>10. r.openTurn = turn /\ r.openStep = 0
  BY <1>1, <1>2, <1>3, <1>4, <1>6, <1>7, <1>9, ScanStep
<1>11. u.nextStep = step + 1
  <2>1. u.nextStep = t.nextStep + 1
    BY <1>1, <1>2, <1>3, <1>6, <1>7, <1>9, TraceStep
  <2> QED
    BY <1>4, <1>9, <2>1
<1>12. DriverAt'
  BY <1>1, <1>3, <1>4, <1>10, <1>11 DEF DriverAt, InStep, Requesting
<1>13. CallsAt'
  BY <1>1, NoCalls DEF CallsAt, Requesting
<1>14. ExposedAt'
  BY <1>1, <1>2, <1>8, ExposedSame
<1> QED
  BY <1>1, <1>8, <1>12, <1>13, <1>14, GrowsKeeps

\* A turn is closed.
LEMMA EndTurnStep ==
  ASSUME IInv, EndTurn
  PROVE  IInv'
<1> DEFINE e == TurnEvent("turn/end", turn)
<1>1. /\ pc \in {"turn", "ending"} /\ log' = Append(log, e) /\ pc' = "idle"
      /\ UNCHANGED <<disk, turn, step, calls, callSeqs, committed, dispatched, crashes,
                     exposed>>
  BY DEF EndTurn, driver
<1>2. /\ log \in Seq(Event) /\ Legal(log) /\ DriverAt /\ ExposedAt
      /\ turn \in 0..MaxTurns
  BY DEF IInv, Types
<1>3. PICK p, t, r, u : /\ p = Scan(log) /\ t = SeedSession(log)
                        /\ r = Scan(log') /\ u = SeedSession(log')
  OBVIOUS
<1>4. turn # 0 /\ p.openTurn = turn /\ p.openStep = 0
  BY <1>1, <1>2, <1>3 DEF DriverAt, InStep, Requesting
<1>5. turn \in Turns
  BY <1>2, <1>4, BoundsAssumption DEF Turns
<1>6. e \in Event /\ e.type = "turn/end" /\ e.turn = turn
  BY <1>5 DEF Event, TurnEvent
<1> HIDE DEF e
<1>7. Fits(log, e)
  BY <1>3, <1>4, <1>6 DEF Fits, OfStep, IsResult, IsReplacement
<1>8. Grown /\ log' \in Seq(Event) /\ Legal(log')
  BY <1>1, <1>2, <1>7, AppendFacts
<1>9. /\ FoldsAgree(p, t) /\ CallsAgree(p, t) /\ t.nextTurn \in Nat
      /\ p.openTurn # 0 => t.nextTurn = p.openTurn
  BY <1>2, <1>3, LogFacts
<1>10. r.openTurn = 0
  BY <1>1, <1>2, <1>3, <1>6, <1>7, <1>9, ScanStep
<1>11. turn = u.nextTurn - 1
  <2>1. u.nextTurn = t.nextTurn + 1
    BY <1>1, <1>2, <1>3, <1>6, <1>7, <1>9, TraceStep
  <2> QED
    BY <1>4, <1>9, <2>1
<1>12. DriverAt'
  BY <1>1, <1>3, <1>10, <1>11 DEF DriverAt, InStep, Requesting
<1>13. CallsAt'
  BY <1>1, <1>8, CallsSame DEF Requesting
<1>14. ExposedAt'
  BY <1>1, <1>2, <1>8, ExposedSame
<1> QED
  BY <1>1, <1>8, <1>12, <1>13, <1>14, GrowsKeeps

-----------------------------------------------------------------------------
(* Crash and repair. *)

\* The parts of the invariant that are left when nobody drives the log.
LEMMA DownKeeps ==
  ASSUME Types, pc' \in {"down", "repairing"}, log' \in Seq(Event), Legal(log'),
         turn' \in 0..MaxTurns, step' = 0, crashes' \in 0..MaxCrashes,
         pc' = "repairing" => Scan(log').openTurn = 0, CallsAt', ExposedAt'
  PROVE  IInv'
<1>1. DriverAt'
  <2>1. PICK r, u : r = Scan(log') /\ u = SeedSession(log')
    OBVIOUS
  <2> QED
    BY <2>1 DEF DriverAt, InStep, Requesting
<1>2. StepsCounted'
  <2>1. Cardinality(StepStarts(log')) \in Nat
    BY CountIs
  <2>2. 0 <= Cardinality(StepStarts(log'))
    BY <2>1
  <2> QED
    BY <2>2 DEF StepsCounted
<1>3. Types'
  BY BoundsAssumption DEF Types
<1> QED
  BY <1>1, <1>2, <1>3 DEF IInv

\* The process dies, at any time.
LEMMA CrashStep ==
  ASSUME IInv, NEW kept \in 0..Len(log), Crash(kept)
  PROVE  IInv'
<1>1. /\ crashes < MaxCrashes /\ kept \in disk..Len(log)
      /\ log' = SubSeq(log, 1, kept) /\ disk' = kept /\ pc' = "down"
      /\ crashes' = crashes + 1
      /\ calls' = <<>> /\ callSeqs' = <<>> /\ committed' = 0 /\ dispatched' = {}
      /\ turn' = 0 /\ step' = 0 /\ exposed' = exposed
  BY DEF Crash, NoStep
<1>2. /\ log \in Seq(Event) /\ Legal(log) /\ ExposedAt /\ Types
      /\ crashes \in 0..MaxCrashes /\ Len(log) \in Nat
  BY DEF IInv, Types
<1>3. log' \in Seq(Event) /\ Legal(log')
  BY <1>1, <1>2, LegalPrefix
<1>4. Len(log') = kept /\ \A k \in 1..kept : log'[k] = log[k]
  BY <1>1, <1>2
<1>5. /\ disk \in 0..Len(log) /\ exposed \in Seq(Event) /\ Len(exposed) <= disk
      /\ \A k \in 1..Len(exposed) : exposed[k] = log[k]
      /\ Len(exposed) \in Nat
  BY <1>2 DEF ExposedAt
<1>6. ExposedAt'
  <2>1. disk' \in 0..Len(log') /\ disk' = Len(log') /\ Len(exposed) <= disk'
    BY <1>1, <1>2, <1>4, <1>5
  <2>2. \A k \in 1..Len(exposed) : k \in 1..kept
    BY <1>1, <1>2, <1>5
  <2>3. \A k \in 1..Len(exposed) : exposed[k] = log'[k]
    BY <1>4, <1>5, <2>2
  <2> QED
    BY <1>1, <1>5, <2>1, <2>3 DEF ExposedAt
<1>7. CallsAt'
  BY <1>1, NoCalls DEF CallsAt, Requesting
<1>8. turn' \in 0..MaxTurns /\ crashes' \in 0..MaxCrashes
  BY <1>1, <1>2, BoundsAssumption
<1> QED
  BY <1>1, <1>2, <1>3, <1>6, <1>7, <1>8, DownKeeps

\* The log is repaired.
LEMMA ResumeStep ==
  ASSUME IInv, Resume
  PROVE  IInv'
<1>1. /\ pc = "down" /\ log' = log \o InterruptedTurnClosers(log) /\ pc' = "repairing"
      /\ UNCHANGED <<disk, turn, step, calls, callSeqs, committed, dispatched, crashes,
                     exposed>>
  BY DEF Resume, driver
<1>2. /\ log \in Seq(Event) /\ Legal(log) /\ ExposedAt /\ Types /\ DriverAt
      /\ turn \in 0..MaxTurns /\ crashes \in 0..MaxCrashes
  BY DEF IInv, Types
<1>3. log' \in Seq(Event) /\ Legal(log') /\ Scan(log').openTurn = 0
  BY <1>1, <1>2, Repaired
<1>4. PICK d : d = InterruptedTurnClosers(log)
  OBVIOUS
<1>5. d \in Seq(Event) /\ log' = log \o d
  BY <1>1, <1>2, <1>4, ClosersResume
<1>6. Grown
  BY <1>2, <1>5, ConcatGrows
<1>7. CallsAt'
  BY <1>1, <1>6, CallsSame DEF Requesting
<1>8. ExposedAt'
  BY <1>1, <1>2, <1>6, ExposedSame
<1>9. step' = 0
  BY <1>1, <1>2 DEF DriverAt
<1> QED
  BY <1>1, <1>2, <1>3, <1>7, <1>8, <1>9, DownKeeps

\* Or it is not, and rolled back.
LEMMA ResumeFailsStep ==
  ASSUME IInv, ResumeFails
  PROVE  IInv'
<1>1. /\ pc = "repairing" /\ log' = SubSeq(log, 1, disk) /\ pc' = "down"
      /\ UNCHANGED <<disk, turn, step, calls, callSeqs, committed, dispatched, crashes,
                     exposed>>
  BY DEF ResumeFails, driver
<1>2. /\ log \in Seq(Event) /\ Legal(log) /\ ExposedAt /\ Types /\ DriverAt /\ CallsAt
      /\ turn \in 0..MaxTurns /\ crashes \in 0..MaxCrashes /\ Len(log) \in Nat
  BY DEF IInv, Types
<1>3. /\ disk \in 0..Len(log) /\ exposed \in Seq(Event) /\ Len(exposed) <= disk
      /\ \A k \in 1..Len(exposed) : exposed[k] = log[k]
      /\ Len(exposed) \in Nat
  BY <1>2 DEF ExposedAt
<1>4. log' \in Seq(Event) /\ Legal(log')
  BY <1>1, <1>2, <1>3, LegalPrefix
<1>5. Len(log') = disk /\ \A k \in 1..disk : log'[k] = log[k]
  BY <1>1, <1>2, <1>3
<1>6. ExposedAt'
  <2>1. disk \in 0..Len(log')
    BY <1>3, <1>5
  <2>2. \A k \in 1..Len(exposed) : k \in 1..disk
    BY <1>3
  <2>3. \A k \in 1..Len(exposed) : exposed[k] = log'[k]
    BY <1>3, <1>5, <2>2
  <2> QED
    BY <1>1, <1>3, <1>5, <2>1, <2>3 DEF ExposedAt
<1>7. step' = 0 /\ callSeqs = <<>>
  BY <1>1, <1>2 DEF DriverAt, CallsAt
<1>8. CallsAt'
  <2>1. callSeqs \in Seq(1..Len(log'))
    BY <1>7
  <2> QED
    BY <1>1, <1>2, <2>1 DEF CallsAt, Requesting
<1> QED
  BY <1>1, <1>2, <1>4, <1>6, <1>7, <1>8, DownKeeps

\* The last turn of a log is a turn.
LEMMA LastTurnTyped ==
  ASSUME NEW l \in Seq(Event)
  PROVE  LastTurn(l) \in 0..MaxTurns
<1>1. CASE TurnStarts(l) = {}
  BY <1>1, LastTurnIs, BoundsAssumption
<1>2. CASE TurnStarts(l) # {}
  <2>1. TurnStarts(l) \subseteq 1..Len(l) /\ Len(l) \in Nat
    BY DEF TurnStarts
  <2>2. Max(TurnStarts(l)) \in TurnStarts(l)
    BY <1>2, <2>1, MaxIs
  <2>3. PICK k : k = Max(TurnStarts(l))
    OBVIOUS
  <2>4. k \in 1..Len(l) /\ l[k].type = "turn/start" /\ l[k] \in Event
    BY <2>1, <2>2, <2>3 DEF TurnStarts
  <2>5. l[k].turn \in Turns
    BY <2>4, EventIs
  <2>6. k # 0
    BY <2>1, <2>4
  <2>7. LastTurn(l) = l[k].turn
    BY <1>2, <2>3, <2>6, LastTurnIs
  <2> QED
    BY <2>5, <2>7, BoundsAssumption DEF Turns
<1> QED
  BY <1>1, <1>2

\* The repaired log is marked, and its driver goes on from its last turn.
LEMMA ResumedStep ==
  ASSUME IInv, Resumed
  PROVE  IInv'
<1> DEFINE e == Other("session/end-seed")
<1>1. /\ pc = "repairing"
      /\ log' = Append(log, e) \/ log' = log
      /\ turn' = LastTurn(log) /\ step' = 0 /\ pc' = "idle"
      /\ UNCHANGED <<disk, calls, callSeqs, committed, dispatched, crashes, exposed>>
  <2>1. log' = Append(log, e) \/ log' = log
    BY DEF Resumed
  <2> QED
    BY <2>1 DEF Resumed
<1>2. /\ log \in Seq(Event) /\ Legal(log) /\ ExposedAt /\ Types /\ DriverAt
      /\ crashes \in 0..MaxCrashes
  BY DEF IInv, Types
<1>3. PICK p, t, r, u : /\ p = Scan(log) /\ t = SeedSession(log)
                        /\ r = Scan(log') /\ u = SeedSession(log')
  OBVIOUS
<1>4. FoldsAgree(p, t) /\ CallsAgree(p, t) /\ Bounded(log, p, t)
  BY <1>2, <1>3, LogFacts
<1>5. p.openTurn = 0
  BY <1>1, <1>2, <1>3 DEF DriverAt
<1>6. LastTurn(log) = t.nextTurn - 1
  BY <1>4, <1>5 DEF Bounded
<1>7. Grown /\ log' \in Seq(Event) /\ Legal(log') /\ u.nextTurn = t.nextTurn
  <2>1. CASE log' = Append(log, e)
    <3>1. e \in Event /\ e.type = "session/end-seed"
      BY DEF Event, Other
    <3> HIDE DEF e
    <3>2. Fits(log, e)
      BY <3>1 DEF Fits, OfStep, IsResult, IsReplacement
    <3>3. Grown /\ log' \in Seq(Event) /\ Legal(log')
      BY <1>2, <2>1, <3>2, AppendFacts
    <3>4. u.nextTurn = t.nextTurn
      BY <1>2, <1>3, <1>4, <2>1, <3>1, <3>2, TraceStep
    <3> QED
      BY <3>3, <3>4
  <2>2. CASE log' = log
    BY <1>2, <1>3, <2>2, SameGrows
  <2> QED
    BY <1>1, <2>1, <2>2
<1>8. r.openTurn = 0
  <2>1. CASE log' = Append(log, e)
    <3>1. e \in Event /\ e.type = "session/end-seed"
      BY DEF Event, Other
    <3> HIDE DEF e
    <3>2. Fits(log, e)
      BY <3>1 DEF Fits, OfStep, IsResult, IsReplacement
    <3>3. r.openTurn = p.openTurn
      BY <1>2, <1>3, <1>4, <2>1, <3>1, <3>2, ScanStep
    <3> QED
      BY <1>5, <3>3
  <2>2. CASE log' = log
    BY <1>3, <1>5, <2>2
  <2> QED
    BY <1>1, <2>1, <2>2
<1>9. DriverAt'
  BY <1>1, <1>3, <1>6, <1>7, <1>8 DEF DriverAt, InStep, Requesting
<1>10. CallsAt'
  BY <1>1, <1>7, CallsSame DEF Requesting
<1>11. ExposedAt'
  BY <1>1, <1>2, <1>7, ExposedSame
<1>12. StepsCounted'
  <2>1. Cardinality(StepStarts(log')) \in Nat
    BY <1>7, CountIs
  <2>2. 0 <= Cardinality(StepStarts(log'))
    BY <2>1
  <2> QED
    BY <1>1, <2>2 DEF StepsCounted
<1>13. Types'
  <2>1. turn' \in 0..MaxTurns
    BY <1>1, <1>2, LastTurnTyped
  <2> QED
    BY <1>1, <1>2, <1>7, <2>1, BoundsAssumption DEF Types
<1> QED
  BY <1>7, <1>9, <1>10, <1>11, <1>12, <1>13 DEF IInv

\* Every step keeps the invariant.
LEMMA NextIInv == IInv /\ [Next]_vars => IInv'
<1> SUFFICES ASSUME IInv, [Next]_vars PROVE IInv'
  OBVIOUS
<1>1. CASE TurnStart
  BY <1>1, TurnStartStep
<1>2. CASE StepStart
  BY <1>2, StepStartStep
<1>3. CASE \E k \in DOMAIN log : PruneResult(k)
  BY <1>3, PruneResultStep
<1>4. CASE BuildRequest
  BY <1>4, BuildRequestStep
<1>5. CASE Request
  BY <1>5, RequestStep
<1>6. CASE Chunk
  BY <1>6, ChunkStep
<1>7. CASE RetryRequest
  BY <1>7, RetryRequestStep
<1>8. CASE \E cs \in Messages : AssistantMessage(cs)
  BY <1>8, AssistantMessageStep
<1>9. CASE InterruptedMessage
  BY <1>9, InterruptedMessageStep
<1>10. CASE RequestFails
  BY <1>10, RequestFailsStep
<1>11. CASE StartCall
  BY <1>11, StartCallStep
<1>12. CASE \E i \in DOMAIN callSeqs : Dispatch(i)
  BY <1>12, DispatchStep
<1>13. CASE CommitResult
  BY <1>13, CommitResultStep
<1>14. CASE ToolsDone
  BY <1>14, ToolsDoneStep
<1>15. CASE SkipRemaining
  BY <1>15, SkipRemainingStep
<1>16. CASE SchedulerFails
  BY <1>16, SchedulerFailsStep
<1>17. CASE EndStep
  BY <1>17, EndStepStep
<1>18. CASE EndTurn
  BY <1>18, EndTurnStep
<1>19. CASE \E kept \in 0..Len(log) : Crash(kept)
  BY <1>19, CrashStep
<1>20. CASE Resume
  BY <1>20, ResumeStep
<1>21. CASE ResumeFails
  BY <1>21, ResumeFailsStep
<1>22. CASE Resumed
  BY <1>22, ResumedStep
<1>23. CASE UNCHANGED vars
  <2>1. UNCHANGED <<log, disk, pc, turn, step, calls, callSeqs, committed, dispatched,
                    crashes, exposed>>
    BY <1>23 DEF vars, driver
  <2>2. DriverAt'
    <3>1. PICK p, t : p = Scan(log) /\ t = SeedSession(log)
      OBVIOUS
    <3>2. Uncommitted' = Uncommitted
      BY <2>1 DEF Uncommitted
    <3> QED
      BY <2>1, <3>1, <3>2 DEF IInv, DriverAt, InStep, Requesting
  <2> QED
    BY <2>1, <2>2 DEF IInv, Types, CallsAt, StepsCounted, ExposedAt, Requesting
<1> QED
  BY <1>1, <1>2, <1>3, <1>4, <1>5, <1>6, <1>7, <1>8, <1>9, <1>10, <1>11, <1>12, <1>13,
     <1>14, <1>15, <1>16, <1>17, <1>18, <1>19, <1>20, <1>21, <1>22, <1>23 DEF Next

\* In every behaviour.
LEMMA SpecIInv == Spec => []IInv
BY InitIInv, NextIInv, PTL DEF Spec

-----------------------------------------------------------------------------
(* What follows from it. *)

\* The parts of TypeOK.
LEMMA IInvTypes == IInv => TypeOK
<1> SUFFICES ASSUME IInv PROVE TypeOK
  OBVIOUS
<1>1. /\ disk \in 0..Len(log) /\ calls \in Messages
      /\ committed <= Len(callSeqs) /\ Len(callSeqs) <= Len(calls)
      /\ dispatched \subseteq DOMAIN callSeqs
  BY DEF IInv, ExposedAt, CallsAt
<1>2. /\ pc \in {"idle", "turn", "request", "checkpoint", "stream", "streamed", "tools",
                 "closing", "throwing", "failing", "ending", "down", "repairing"}
      /\ turn \in 0..MaxTurns /\ step \in 0..MaxSteps /\ crashes \in 0..MaxCrashes
  BY DEF IInv, Types, InStep, Requesting
<1> QED
  BY <1>1, <1>2 DEF TypeOK

\* A set that any two members of are equal has one at most, and one if it has any.
LEMMA OneAtMost ==
  ASSUME NEW S, \A x, y \in S : x = y
  PROVE  Cardinality(S) <= 1 /\ (S # {} => Cardinality(S) = 1)
<1>1. CASE S = {}
  BY <1>1, FS_EmptySet
<1>2. CASE S # {}
  <2>1. PICK x : x \in S
    BY <1>2
  <2>2. S = {x}
    BY <2>1
  <2>3. Cardinality(S) = 1
    BY <2>2, FS_Singleton
  <2> QED
    BY <2>3
<1> QED
  BY <1>1, <1>2

\* A legal log answers every call of a closed step, and none twice.
LEMMA LegalAnswered ==
  ASSUME log \in Seq(Event), Legal(log)
  PROVE  AnsweredOnce
<1>1. PICK p, t : p = Scan(log) /\ t = SeedSession(log)
  OBVIOUS
<1>2. Placed(log, p, t) /\ AllAnswered(log, p) /\ OneResult(log)
  BY <1>1, LegalSound DEF Sound
<1>3. ASSUME NEW k \in DOMAIN log, log[k].type = "assistant/message",
             NEW i \in DOMAIN log[k].calls
      PROVE  LET n == Cardinality(ResultsFor(log[k], log[k].calls[i]))
             IN  /\ n <= 1
                 /\ (\E j \in DOMAIN log : log[j] = StepEnd(log[k].turn, log[k].step, FALSE))
                        => n = 1
  <2> DEFINE R == ResultsFor(log[k], log[k].calls[i])
  <2>1. \A x, y \in R : x = y
    BY <1>2 DEF ResultsFor, OneResult
  <2>2. ASSUME NEW j \in DOMAIN log, log[j] = StepEnd(log[k].turn, log[k].step, FALSE)
        PROVE  R # {}
    <3>1. log[j].type = "step/end" /\ log[j].turn = log[k].turn /\ log[j].step = log[k].step
      BY <2>2 DEF StepEnd
    <3>2. Past(log[j], t)
      BY <1>2, <3>1 DEF Placed, OfStep
    <3>3. FoldsAgree(p, t)
      BY <1>1, LegalSound DEF Sound
    <3>4. ~Current(log[k], p)
      <4>1. SUFFICES ASSUME Current(log[k], p) PROVE FALSE
        OBVIOUS
      <4>2. log[j].turn = p.openTurn /\ log[j].step = p.openStep
        BY <3>1, <4>1 DEF Current
      <4>3. log[j] \in Event
        OBVIOUS
      <4>4. log[j].turn \in Turns /\ log[j].step \in Steps
        BY <3>1, <4>3, EventIs
      <4>5. p.openTurn # 0 /\ p.openStep # 0
        BY <4>2, <4>4, BoundsAssumption DEF Turns, Steps
      <4>6. t.nextTurn = p.openTurn /\ t.nextStep = p.openStep
        BY <3>3, <4>5 DEF FoldsAgree
      <4> QED
        BY <3>2, <4>2, <4>4, <4>6, BoundsAssumption DEF Past, Turns, Steps
    <3>5. Answered(log, log[k].turn, log[k].step, log[k].calls[i])
      BY <1>2, <1>3, <2>2, <3>4 DEF AllAnswered
    <3> QED
      BY <3>5 DEF Answered, ResultsFor
  <2> HIDE DEF R
  <2>3. Cardinality(R) <= 1 /\ (R # {} => Cardinality(R) = 1)
    BY <2>1, OneAtMost
  <2> QED
    BY <2>2, <2>3 DEF R
<1> QED
  BY <1>3 DEF AnsweredOnce

\* Its results cite their calls.
LEMMA LegalCites ==
  ASSUME log \in Seq(Event), Legal(log)
  PROVE  CitesItsCall
<1>1. Cites(log)
  BY LegalSound DEF Sound
<1>2. ASSUME NEW k \in DOMAIN log, IsResult(log[k])
      PROVE  LET start == ToolCall(log[k].turn, log[k].step, log[k].call)
             IN  IF log[k].how = "TOOL_NOT_STARTED"
                 THEN log[k].cites = 0 /\ ~Contains(log, start)
                 ELSE log[k].cites \in 1..(k - 1) /\ log[log[k].cites] = start
  <2> DEFINE start == ToolCall(log[k].turn, log[k].step, log[k].call)
  <2>1. Recorded(log, log[k].turn, log[k].step, log[k].call) <=> Contains(log, start)
    <3>1. Recorded(log, log[k].turn, log[k].step, log[k].call) <=>
              \E j \in DOMAIN log : log[j] = start
      BY DEF Recorded
    <3>2. Contains(log, start) <=> \E j \in 1..Len(log) : log[j] = start
      BY DEF Contains
    <3>3. DOMAIN log = 1..Len(log)
      OBVIOUS
    <3> QED
      BY <3>1, <3>2, <3>3
  <2>2. IF log[k].how = "TOOL_NOT_STARTED"
        THEN log[k].cites = 0 /\ ~Recorded(log, log[k].turn, log[k].step, log[k].call)
        ELSE log[k].cites \in 1..(k - 1) /\ log[log[k].cites] = start
    BY <1>1, <1>2 DEF Cites
  <2> HIDE DEF start
  <2>3. IF log[k].how = "TOOL_NOT_STARTED"
        THEN log[k].cites = 0 /\ ~Contains(log, start)
        ELSE log[k].cites \in 1..(k - 1) /\ log[log[k].cites] = start
    BY <2>1, <2>2
  <2> QED
    BY <2>3 DEF start
<1> QED
  BY <1>2 DEF CitesItsCall

\* What the outside acted on is a prefix of the log.
LEMMA IInvExposed == IInv => ExposedIsKept
<1> SUFFICES ASSUME IInv PROVE ExposedIsKept
  OBVIOUS
<1>1. /\ log \in Seq(Event) /\ disk \in 0..Len(log) /\ exposed \in Seq(Event)
      /\ Len(exposed) <= disk /\ \A k \in 1..Len(exposed) : exposed[k] = log[k]
  BY DEF IInv, Types, ExposedAt
<1>2. PICK n : n = Len(exposed)
  OBVIOUS
<1>3. n \in Nat /\ Len(log) \in Nat /\ n <= Len(log)
  BY <1>1, <1>2
<1>4. PICK s : s = SubSeq(log, 1, n)
  OBVIOUS
<1>5. s \in Seq(Event) /\ Len(s) = n /\ \A k \in 1..n : s[k] = log[k]
  BY <1>1, <1>3, <1>4
<1>6. exposed = s
  BY <1>1, <1>2, <1>5, SeqEqual
<1> QED
  BY <1>2, <1>3, <1>4, <1>6 DEF ExposedIsKept, IsPrefix

\* Every log is accepted, and its repair can be cut short.
LEMMA IInvLegal == IInv => LogsAreLegal
<1> SUFFICES ASSUME IInv PROVE LogsAreLegal
  OBVIOUS
<1>1. log \in Seq(Event) /\ Legal(log)
  BY DEF IInv, Types
<1>2. PICK p, t : p = Scan(log) /\ t = SeedSession(log)
  OBVIOUS
<1>3. FoldsAgree(p, t) /\ CallsAgree(p, t) /\ Bounded(log, p, t)
  BY <1>1, <1>2, LogFacts
<1>4. SeedAccepted
  BY <1>2, <1>3 DEF SeedAccepted, FoldsAgree
<1>5. RepairResumes
  <2>1. PICK closers : closers = InterruptedTurnClosers(log)
    OBVIOUS
  <2>2. \A k \in 0..Len(closers) :
            InterruptedTurnClosers(log \o SubSeq(closers, 1, k))
                = SubSeq(closers, k + 1, Len(closers))
    BY <1>1, <2>1, ClosersResume
  <2> QED
    BY <2>1, <2>2 DEF RepairResumes
<1>6. ForkAccepts(log, Len(log)) <=> p.openTurn = 0
  BY <1>3 DEF Bounded
<1>7. p.openTurn = 0 <=> t.openTurn = 0 /\ t.openStep = 0 /\ t.pendingCalls = {}
  <2>1. /\ t.openTurn = p.openTurn /\ t.openStep = p.openStep
        /\ p.openTurn = 0 => p.openStep = 0
        /\ p.openStep = 0 => p.pendingCalls = <<>>
        /\ t \in TraceState
    BY <1>3 DEF FoldsAgree
  <2>2. t.pendingCalls \subseteq CallId
    BY <2>1 DEF TraceState
  <2>3. p.pendingCalls = <<>> => t.pendingCalls = {}
    <3>1. SUFFICES ASSUME p.pendingCalls = <<>>, NEW c \in t.pendingCalls PROVE FALSE
      OBVIOUS
    <3>2. \E i \in DOMAIN p.pendingCalls : p.pendingCalls[i].call = c
      BY <1>3, <2>2 DEF CallsAgree
    <3> QED
      BY <3>1, <3>2
  <2> QED
    BY <2>1, <2>3
<1>8. ForkIsClosed
  BY <1>2, <1>6, <1>7 DEF ForkIsClosed
<1> QED
  BY <1>4, <1>5, <1>8 DEF LogsAreLegal, RepairIsSound

-----------------------------------------------------------------------------
\* The driver's turn, step and calls stay in range and what is durable is part of
\* the log, through every crash and repair (runTurn, resumeWith).
THEOREM TypeCorrect == Spec => []TypeOK
BY SpecIInv, IInvTypes, PTL

\* Whenever the process dies and whatever the repair could store, the log tells the
\* truth about what ran: each call of a closed step has one result, which cites the
\* record of that call, and what a model or a tool body was given is in the log
\* (interruptedTurnClosers, the checkpoints of the policy).
THEOREM TruthKept == Spec => []TranscriptIsTrue
<1>1. IInv => TranscriptIsTrue
  <2>1. IInv => log \in Seq(Event) /\ Legal(log)
    BY DEF IInv, Types
  <2> QED
    BY <2>1, LegalAnswered, LegalCites, IInvExposed DEF TranscriptIsTrue, ResultsFaithful
<1> QED
  BY <1>1, SpecIInv, PTL

\* The relational invariant accepts every log from its first event on, a repair cut
\* short is completed by the next, and a fork is accepted exactly where nothing is
\* open (seedSession, validateEvent, interruptedTurnClosers, _forkSeed).
THEOREM LegalityKept == Spec => []LogsAreLegal
BY SpecIInv, IInvLegal, PTL
=============================================================================
