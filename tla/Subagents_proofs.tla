-------------------------- MODULE Subagents_proofs --------------------------
(***************************************************************************)
(* What TLAPS proves of continuable children, for every tree of children,  *)
(* any calls and any bound on a parent's inbox: the types, that parents    *)
(* own exactly what works below them, and that a drain that has returned   *)
(* is final.  Steps are reasoned about by what they do to the activations: *)
(* nothing but drivers and watchers (QuietKeeps), an edge more or less     *)
(* (BeginKeeps, SubmitKeeps, FailKeeps), a new activation (CreateKeeps),   *)
(* disposals that open (SweepKeeps), a release (ReleaseKeeps).             *)
(***************************************************************************)
EXTENDS Subagents, TLAPS

-----------------------------------------------------------------------------
(* The inductive invariant. *)

Inside == {"wait", "lookup", "create", "undo", "submit", "image"}

\* A call inside the critical section of its child, and only that one, has the
\* child's lock.  It creates what is not there.
CallsAt ==
    /\ \A k \in Call :
        /\ call[k].pc \in {"idle", "over"} => call[k] = NotRunning(call[k].pc)
        /\ InFlight(k) => call[k].child \in Child
        /\ call[k].pc \in Inside => lock[call[k].child] = k
        /\ call[k].pc \in {"lookup", "create"} => act[call[k].child].st = "none"
        /\ call[k].fresh => call[k].pc \in {"submit", "undo"}
        /\ call[k].pc = "submit" => call[k].fresh
    /\ \A c \in Child : lock[c] # NoCall =>
        call[lock[c]].pc \in Inside /\ call[lock[c]].child = c

Holds(k, c) ==
    InFlight(k) /\ call[k].child = c /\ call[k].hold /\ ~call[k].stale

\* An edge is from a parent to its child, which is there or held.
EdgesAt ==
    \A p, c \in Child : c \in act[p].owned =>
        /\ Parent[c] = p
        /\ act[c].st # "none" \/ \E k \in Call : Holds(k, c)

\* A resident child is owned, or its first message is not yet submitted by
\* the call that created it; it lost its parent only if the call did.
ResidentsAt ==
    \A c \in Child : Resident(c) =>
        IF act[c].announced
        THEN Parent[c] \in Child =>
                Resident(Parent[c]) /\ c \in act[Parent[c]].owned /\ ~act[c].orphan
        ELSE /\ lock[c] # NoCall /\ call[lock[c]].pc = "submit"
             /\ act[c].orphan => call[lock[c]].stale

Undoing(k, c) == call[k].pc = "undo" /\ ~call[k].fresh /\ call[k].child = c

\* Below a disposal every owned child is disposed too, and is waited for, by
\* the disposal or by the call that rolls it back.
ClosingsAt ==
    \A p, c \in Child : act[p].st = "closing" /\ c \in act[p].owned /\ act[c].st # "none" =>
        /\ act[c].st = "closing"
        /\ c \in act[p].waits \/ \E k \in Call : Undoing(k, c)

WaitedFor(c) ==
    Parent[c] \in Child /\ act[Parent[c]].st = "closing" /\ c \in act[Parent[c]].waits

\* Past its materializations the manager's drain waits for every activation,
\* by itself or through the disposal of the parent.
ManagerAt ==
    /\ mgr.st \in {"dispose", "done"} => \A k \in Call : ~Tracked(k)
    /\ mgr.st = "dispose" => \A c \in Child : act[c].st # "none" =>
          act[c].st = "closing" /\ (c \in mgr.children \/ WaitedFor(c))
    /\ mgr.st = "done" => \A c \in Child : act[c].st = "none"

\* The calls that a drain of a has to wait for.
Under(k, a) ==
    /\ Tracked(k)
    /\ a \in Lineage[Parent[call[k].child]]
    /\ a = Parent[call[k].child] => ~call[k].stale

\* The same below a drained agent, whose scope stays closed.
DrainAt(a) ==
    /\ drain[a].st # "none" => /\ a \in scopes
                               /\ \A k \in Call : Under(k, a) => k \in drain[a].calls
    /\ drain[a].st = "waiting" =>
          \A c \in Child : Descends(c, a) /\ act[c].st # "none" =>
             /\ act[c].st = "closing"
             /\ \/ c \in drain[a].children
                \/ WaitedFor(c) /\ Descends(Parent[c], a)
                \/ \E k \in drain[a].calls : Undoing(k, c)
    /\ drain[a].st = "done" =>
          /\ drain[a].calls = {}
          /\ \A c \in Child : Descends(c, a) => act[c].st = "none"

DrainsAt == \A a \in Agent : DrainAt(a)

IInv ==
    TypeOK /\ CallsAt /\ EdgesAt /\ ResidentsAt /\ ClosingsAt /\ ManagerAt /\ DrainsAt
-----------------------------------------------------------------------------
(* Types. *)

Activations ==
    [st: {"none", "live", "closing"}, owned: SUBSET Child, announced: BOOLEAN,
     orphan: BOOLEAN, waits: SUBSET Child, status: {"idle", "running", "aborted"},
     latch: BOOLEAN, pend: Nat, watch: {"off", "look", "idle", "parked"}]

\* Without an activation there is nothing of it.
Acts(A) ==
    /\ A \in [Child -> Activations]
    /\ \A c \in Child : A[c].st = "none" => A[c] = Absent

Pcs == {"idle", "prepare", "lock", "wait", "lookup", "create", "undo", "submit",
        "image", "over"}
Calls == [pc: Pcs, kind: {"none", "start", "deliver"}, child: Agent,
          hold: BOOLEAN, fresh: BOOLEAN, stale: BOOLEAN]

-----------------------------------------------------------------------------
(* What the operations on activations do. *)

\* The two functions differ in the agents' drivers and watchers only.
Core(A, B) ==
    \A c \in Child :
        /\ B[c].st = A[c].st /\ B[c].owned = A[c].owned /\ B[c].waits = A[c].waits
        /\ B[c].announced = A[c].announced /\ B[c].orphan = A[c].orphan

\* They differ in the owned sets too.
Outline(A, B) ==
    \A c \in Child :
        /\ B[c].st = A[c].st /\ B[c].waits = A[c].waits
        /\ B[c].announced = A[c].announced /\ B[c].orphan = A[c].orphan

\* Nothing is not resident.
LEMMA AbsentIs == Absent \in Activations /\ Absent.st = "none"
BY DEF Absent, Activations

\* An activation is the sum of its fields.
LEMMA SameActivation ==
    ASSUME NEW x \in Activations, NEW y \in Activations,
           x.st = y.st, x.owned = y.owned, x.announced = y.announced,
           x.orphan = y.orphan, x.waits = y.waits, x.status = y.status,
           x.latch = y.latch, x.pend = y.pend, x.watch = y.watch
    PROVE  x = y
BY DEF Activations

\* A watcher that is poked looks again.
LEMMA WakeIs ==
    ASSUME NEW A, Acts(A), NEW a
    PROVE  /\ Acts(Wake(A, a)) /\ Core(A, Wake(A, a))
<1>1. CASE a \in Child /\ A[a].watch # "off"
  <2> DEFINE B == [A EXCEPT ![a].watch = "look"]
  <2>1. Wake(A, a) = B
      BY <1>1 DEF Wake
  <2>2. B \in [Child -> Activations] /\ Core(A, B) /\ A[a].st # "none"
      BY <1>1 DEF Acts, Activations, Core, Absent
  <2>3. \A c \in Child : c # a => B[c] = A[c]
      BY <1>1 DEF Acts
  <2> HIDE DEF B
  <2> QED BY <1>1, <2>1, <2>2, <2>3 DEF Acts, Core
<1>2. CASE ~(a \in Child /\ A[a].watch # "off")
    BY <1>2 DEF Wake, Core
<1> QED BY <1>1, <1>2

\* A message that wakes.
LEMMA SendWakingIs ==
    ASSUME NEW A, Acts(A), NEW a, a \in Child => A[a].st # "none"
    PROVE  Acts(SendWaking(A, a)) /\ Core(A, SendWaking(A, a))
<1>1. CASE a \in Child
  <2> DEFINE l == A[a].latch \/ A[a].status = "aborted"
             s == IF A[a].status = "idle" THEN "running" ELSE A[a].status
             n == A[a].pend + 1
             B == [A EXCEPT ![a].pend = n, ![a].latch = l, ![a].status = s]
  <2>1. SendWaking(A, a) = Wake(B, a)
      BY <1>1 DEF SendWaking
  <2>2. B \in [Child -> Activations] /\ Core(A, B)
    <3>1. A[a] \in Activations
        BY <1>1 DEF Acts
    <3>2. n \in Nat /\ l \in BOOLEAN /\ s \in {"idle", "running", "aborted"}
        BY <3>1 DEF Activations
    <3> HIDE DEF l, s, n
    <3>3. ASSUME NEW x \in Activations
          PROVE  LET y == [[[x EXCEPT !.pend = n] EXCEPT !.latch = l] EXCEPT !.status = s] IN
                 /\ y \in Activations
                 /\ y.st = x.st /\ y.owned = x.owned /\ y.waits = x.waits
                 /\ y.announced = x.announced /\ y.orphan = x.orphan
        BY <3>2 DEF Activations
    <3>4. /\ B[a] = [[[A[a] EXCEPT !.pend = n] EXCEPT !.latch = l] EXCEPT !.status = s]
          /\ \A d \in Child : d # a => B[d] = A[d]
          /\ B = [d \in Child |-> B[d]]
        BY <1>1 DEF Acts
    <3> HIDE DEF B
    <3>5. /\ B[a] \in Activations
          /\ B[a].st = A[a].st /\ B[a].owned = A[a].owned /\ B[a].waits = A[a].waits
          /\ B[a].announced = A[a].announced /\ B[a].orphan = A[a].orphan
        BY <3>1, <3>3, <3>4
    <3>6. \A d \in Child : B[d] \in Activations
        BY <3>4, <3>5 DEF Acts
    <3>7. B \in [Child -> Activations]
        BY <3>4, <3>6
    <3> QED BY <3>4, <3>5, <3>7 DEF Core
  <2>3. \A c \in Child : c # a => B[c] = A[c]
      BY <1>1 DEF Acts
  <2> HIDE DEF B
  <2>4. Acts(B)
      BY <1>1, <2>2, <2>3 DEF Acts, Core
  <2> QED BY <2>1, <2>2, <2>4, WakeIs DEF Core
<1>2. CASE a \notin Child
    BY <1>2 DEF SendWaking, Core
<1> QED BY <1>1, <1>2

\* An edge is added to a parent that is there.
LEMMA AcquireIs ==
    ASSUME NEW A, Acts(A), NEW a, NEW c \in Child
    PROVE  LET B == AcquireOwnership(A, a, c) IN
           /\ Acts(B) /\ Outline(A, B)
           /\ \A d \in Child :
                B[d].owned = IF d = a /\ A[a].st # "none" THEN A[d].owned \union {c}
                             ELSE A[d].owned
<1>1. CASE a \in Child /\ A[a].st # "none"
  <2> DEFINE B == [A EXCEPT ![a].owned = @ \union {c}]
  <2>1. AcquireOwnership(A, a, c) = B
      BY <1>1 DEF AcquireOwnership
  <2>2. /\ B \in [Child -> Activations] /\ Outline(A, B)
        /\ B[a].owned = A[a].owned \union {c}
      BY <1>1 DEF Acts, Activations, Outline
  <2>3. \A d \in Child : d # a => B[d] = A[d]
      BY <1>1 DEF Acts
  <2> HIDE DEF B
  <2>4. /\ Acts(B) /\ Outline(A, B)
        /\ \A d \in Child :
             B[d].owned = IF d = a /\ A[a].st # "none" THEN A[d].owned \union {c}
                          ELSE A[d].owned
    <3>1. Acts(B)
        BY <1>1, <2>2, <2>3 DEF Acts, Outline
    <3> QED BY <1>1, <2>2, <2>3, <3>1
  <2> QED BY <2>1, <2>4
<1>2. CASE ~(a \in Child /\ A[a].st # "none")
    BY <1>2 DEF AcquireOwnership, Outline
<1> QED BY <1>1, <1>2

\* The hold that a failing call takes back.
Returned(A, k) ==
    LET c == call[k].child
        p == Parent[c] IN
    /\ call[k].hold /\ ~call[k].stale
    /\ p \in Child /\ A[p].st # "none" /\ c \in A[p].owned
    /\ A[c].st # "live"

LEMMA ReleaseHoldIs ==
    ASSUME NEW A, Acts(A), NEW k
    PROVE  LET B == ReleaseHold(A, k) IN
           /\ Acts(B) /\ Outline(A, B)
           /\ \A d \in Child :
                B[d].owned = IF d = Parent[call[k].child] /\ Returned(A, k)
                             THEN A[d].owned \ {call[k].child} ELSE A[d].owned
<1> DEFINE c == call[k].child
           p == Parent[c]
<1>1. CASE Returned(A, k)
  <2> DEFINE B == [A EXCEPT ![p].owned = @ \ {c}]
  <2>1. ReleaseHold(A, k) = Wake(B, p)
      BY <1>1 DEF ReleaseHold, Returned
  <2>2. /\ B \in [Child -> Activations] /\ Outline(A, B) /\ A[p].st # "none"
        /\ B[p].owned = A[p].owned \ {c}
    <3>1. p \in Child /\ A[p].st # "none" /\ A \in [Child -> Activations]
        BY <1>1 DEF Returned, Acts
    <3>2. B \in [Child -> Activations]
        BY <3>1 DEF Activations
    <3>3. Outline(A, B)
        BY <3>1 DEF Activations, Outline
    <3>4. B[p].owned = A[p].owned \ {c}
        BY <3>1 DEF Activations
    <3> QED BY <3>1, <3>2, <3>3, <3>4
  <2>3. \A d \in Child : d # p => B[d] = A[d]
      BY <1>1 DEF Acts
  <2> HIDE DEF B
  <2>4. Acts(B)
      BY <2>2, <2>3 DEF Acts, Outline
  <2>5. \A d \in Child : B[d].owned = IF d = p THEN A[d].owned \ {c} ELSE A[d].owned
      BY <2>2, <2>3
  <2>6. Acts(Wake(B, p)) /\ Core(B, Wake(B, p))
      BY <2>4, WakeIs
  <2>7. /\ Acts(Wake(B, p)) /\ Outline(A, Wake(B, p))
        /\ \A d \in Child :
             Wake(B, p)[d].owned = IF d = p THEN A[d].owned \ {c} ELSE A[d].owned
    <3>1. ASSUME NEW d \in Child
          PROVE  Wake(B, p)[d].owned = IF d = p THEN A[d].owned \ {c} ELSE A[d].owned
        BY <2>5, <2>6 DEF Core
    <3>2. Outline(A, Wake(B, p))
        BY <2>2, <2>6 DEF Core, Outline
    <3> QED BY <2>6, <3>1, <3>2
  <2> QED BY <1>1, <2>1, <2>7
<1>2. CASE ~Returned(A, k)
    BY <1>2 DEF ReleaseHold, Returned, Outline
<1> QED BY <1>1, <1>2

\* A child leaves every owned set.
LEMMA ReleaseOwnershipIs ==
    ASSUME NEW A, Acts(A), NEW c \in Child
    PROVE  LET B == ReleaseOwnership(A, c) IN
           /\ Acts(B) /\ Outline(A, B)
           /\ \A d \in Child : B[d].owned = A[d].owned \ {c}
<1> DEFINE B == ReleaseOwnership(A, c)
<1>1. ASSUME NEW d \in Child
      PROVE  /\ B[d] \in Activations /\ (A[d].st = "none" => B[d] = A[d])
             /\ B[d].st = A[d].st /\ B[d].waits = A[d].waits
             /\ B[d].announced = A[d].announced /\ B[d].orphan = A[d].orphan
             /\ B[d].owned = A[d].owned \ {c}
  <2>1. CASE c \in A[d].owned
    <3>1. B[d] = [Wake(A, d)[d] EXCEPT !.owned = @ \ {c}]
        BY <2>1 DEF ReleaseOwnership
    <3>2. Wake(A, d)[d] \in Activations /\ Core(A, Wake(A, d))
        BY WakeIs DEF Acts
    <3>3. A[d].st # "none"
        BY <2>1 DEF Acts, Absent
    <3>4. ASSUME NEW x \in Activations
          PROVE  LET y == [x EXCEPT !.owned = @ \ {c}] IN
                 /\ y \in Activations /\ y.st = x.st /\ y.waits = x.waits
                 /\ y.announced = x.announced /\ y.orphan = x.orphan
                 /\ y.owned = x.owned \ {c}
        BY DEF Activations
    <3> QED BY <3>1, <3>2, <3>3, <3>4 DEF Core
  <2>2. CASE c \notin A[d].owned
    <3>1. B[d] = A[d]
        BY <2>2 DEF ReleaseOwnership
    <3> QED BY <2>2, <3>1 DEF Acts
  <2> QED BY <2>1, <2>2
<1>2. B = [d \in Child |-> B[d]]
    BY DEF ReleaseOwnership
<1> HIDE DEF B
<1>3. B \in [Child -> Activations]
    BY <1>1, <1>2
<1> QED BY <1>1, <1>3 DEF Acts, Outline, B

-----------------------------------------------------------------------------
(* Disposal and release. *)

\* The disposals that open are those of S and of what they own, all resident.
LEMMA BelowIs ==
    ASSUME Acts(act), NEW S \in SUBSET Child, \A c \in S : Resident(c)
    PROVE  /\ S \subseteq Below(S)
           /\ \A c \in Below(S) : c \in Child /\ Resident(c)
           /\ \A p \in Below(S) : \A c \in act[p].owned : Resident(c) => c \in Below(S)
<1>1. S \subseteq Below(S)
    BY DEF Below
<1>2. ASSUME NEW c \in Below(S) PROVE c \in Child /\ Resident(c)
  <2> DEFINE R == {d \in Child : Resident(d)}
  <2>1. R \in SUBSET Child /\ S \subseteq R
      OBVIOUS
  <2>2. Downward(R)
      BY DEF Downward, Acts, Activations
  <2> HIDE DEF R
  <2>3. c \in R
      BY <2>1, <2>2 DEF Below
  <2> QED BY <2>3 DEF R
<1>3. ASSUME NEW p \in Below(S), NEW c \in act[p].owned, Resident(c)
      PROVE  c \in Below(S)
  <2>1. p \in Child /\ c \in Child
      BY <1>2 DEF Acts, Activations
  <2>2. ASSUME NEW D \in SUBSET Child, S \subseteq D, Downward(D) PROVE c \in D
    <3>1. p \in D
        BY <2>2 DEF Below
    <3> QED BY <1>3, <2>2, <3>1 DEF Downward
  <2> QED BY <2>1, <2>2 DEF Below
<1> QED BY <1>1, <1>2, <1>3

\* Some residents begin their disposal, with those they own, and wait for the
\* children they have.
Sweep(A) ==
    /\ Acts(A)
    /\ \A c \in Child :
        /\ A[c].owned = act[c].owned
        /\ A[c].announced = act[c].announced /\ A[c].orphan = act[c].orphan
        /\ \/ A[c].st = act[c].st /\ A[c].waits = act[c].waits
           \/ /\ act[c].st = "live" /\ A[c].st = "closing"
              /\ A[c].waits = {d \in act[c].owned : act[d].st # "none"}
              /\ \A d \in act[c].owned : A[d].st # "live"

LEMMA DisposeIs ==
    ASSUME Acts(act), NEW S \in SUBSET Child
    PROVE  /\ Sweep(Dispose(act, S))
           /\ \A c \in S : Dispose(act, S)[c].st # "live"
<1> DEFINE T == {c \in S : Resident(c)}
           D == Below(T)
           A == Dispose(act, S)
<1>1. /\ T \subseteq D
      /\ \A c \in D : c \in Child /\ Resident(c)
      /\ \A p \in D : \A c \in act[p].owned : Resident(c) => c \in D
    BY BelowIs
<1>2. A = [c \in Child |->
             IF c \notin D THEN act[c]
             ELSE [act[c] EXCEPT !.st = "closing", !.watch = "off",
                     !.waits = {d \in act[c].owned : act[d].st # "none"},
                     !.pend = 0, !.latch = FALSE,
                     !.status = IF @ = "running" THEN "aborted" ELSE @]]
    BY DEF Dispose
<1> HIDE DEF D, A
<1>3. ASSUME NEW c \in Child, c \in D
      PROVE  /\ A[c] \in Activations /\ A[c].st = "closing" /\ A[c].owned = act[c].owned
             /\ A[c].announced = act[c].announced /\ A[c].orphan = act[c].orphan
             /\ A[c].waits = {d \in act[c].owned : act[d].st # "none"}
  <2> DEFINE w == {d \in act[c].owned : act[d].st # "none"}
             s == IF act[c].status = "running" THEN "aborted" ELSE act[c].status
  <2>1. A[c] = [act[c] EXCEPT !.st = "closing", !.watch = "off", !.waits = w,
                              !.pend = 0, !.latch = FALSE, !.status = s]
      BY <1>2, <1>3
  <2>2. act[c] \in Activations /\ w \in SUBSET Child /\ s \in {"idle", "running", "aborted"}
      BY DEF Acts, Activations
  <2> HIDE DEF w, s
  <2> DEFINE x == act[c]
             y == [x EXCEPT !.st = "closing", !.watch = "off", !.waits = w,
                                 !.pend = 0, !.latch = FALSE, !.status = s]
  <2>3. /\ y \in Activations /\ y.st = "closing" /\ y.waits = w
        /\ y.owned = x.owned /\ y.announced = x.announced /\ y.orphan = x.orphan
    <3>1. x \in Activations
        BY <2>2
    <3> HIDE DEF x
    <3>2. /\ y.st = "closing" /\ y.waits = w
          /\ y.owned = x.owned /\ y.announced = x.announced /\ y.orphan = x.orphan
        BY <2>2, <3>1 DEF Activations
    <3>3. y \in Activations
        BY <2>2, <3>1 DEF Activations
    <3> QED BY <3>2, <3>3
  <2> HIDE DEF y
  <2>4. A[c] = y
      BY <2>1 DEF y
  <2> QED BY <2>3, <2>4 DEF w
<1>4. ASSUME NEW c \in Child, c \notin D PROVE A[c] = act[c]
    BY <1>2, <1>4
<1>5. A = [c \in Child |-> A[c]]
    BY <1>2
<1>6. Acts(A)
    BY <1>3, <1>4, <1>5 DEF Acts
<1>7. ASSUME NEW c \in D, NEW d \in act[c].owned PROVE A[d].st # "live"
    BY <1>1, <1>3, <1>4 DEF Acts, Activations, Resident
<1>8. Sweep(A)
    BY <1>1, <1>3, <1>4, <1>6, <1>7 DEF Sweep, Resident
<1>9. \A c \in S : A[c].st # "live"
    BY <1>1, <1>3, <1>4 DEF Resident
<1> QED BY <1>8, <1>9 DEF A

\* The parent of a child is another agent.
LEMMA ParentIs ==
    ASSUME NEW c \in Child
    PROVE  Parent[c] \in Agent /\ Parent[c] # c
<1>1. Parent[c] \in Agent
    BY TreeAssumption DEF TreeAssumption, Agent
<1>2. {c} \in SUBSET Child /\ {c} # {}
    OBVIOUS
<1>3. \E d \in {c} : Parent[d] \notin {c}
    BY <1>2, TreeAssumption DEF TreeAssumption
<1> QED BY <1>1, <1>3

\* A release: the activation is gone, nobody owns or awaits it any more, and
\* its children have lost their parent.
LEMMA ReleaseIs ==
    ASSUME Acts(act), NEW c \in Child, Release(c)
    PROVE  /\ act[c].st = "closing" /\ act[c].waits = {}
           /\ Acts(act') /\ act'[c] = Absent
           /\ \A d \in Child : d # c =>
                /\ act'[d].st = act[d].st /\ act'[d].announced = act[d].announced
                /\ act'[d].owned = act[d].owned \ {c}
                /\ act'[d].waits = act[d].waits \ {c}
                /\ act'[d].orphan = (act[d].orphan \/ (Parent[d] = c /\ act[d].st # "none"))
<1> DEFINE F(d) == [act[d] EXCEPT !.waits = @ \ {c},
                                  !.orphan = @ \/ (Parent[d] = c /\ act[d].st # "none")]
           A == [d \in Child |-> IF d = c THEN Absent ELSE F(d)]
           B == NotifySettlement(A, c)
<1>1. act[c].st = "closing" /\ act[c].waits = {} /\ act' = ReleaseOwnership(B, c)
    BY DEF Release
<1>2. ASSUME NEW d \in Child
      PROVE  /\ F(d) \in Activations /\ F(d).st = act[d].st /\ F(d).owned = act[d].owned
             /\ F(d).announced = act[d].announced /\ F(d).waits = act[d].waits \ {c}
             /\ F(d).orphan = (act[d].orphan \/ (Parent[d] = c /\ act[d].st # "none"))
             /\ act[d].st = "none" => F(d) = Absent
  <2> DEFINE o == act[d].orphan \/ (Parent[d] = c /\ act[d].st # "none")
             w == act[d].waits \ {c}
  <2>1. F(d) = [act[d] EXCEPT !.waits = w, !.orphan = o]
      OBVIOUS
  <2>2. act[d] \in Activations /\ o \in BOOLEAN /\ w \in SUBSET Child
      BY DEF Acts, Activations
  <2>3. act[d].st = "none" => act[d] = Absent /\ o = FALSE /\ w = {}
      BY DEF Acts, Absent
  <2> HIDE DEF o, w, F
  <2>4. /\ F(d) \in Activations /\ F(d).st = act[d].st /\ F(d).owned = act[d].owned
        /\ F(d).announced = act[d].announced /\ F(d).waits = w /\ F(d).orphan = o
      BY <2>1, <2>2 DEF Activations
  <2>5. ASSUME act[d].st = "none" PROVE F(d) = Absent
    <3>1. /\ F(d).st = Absent.st /\ F(d).owned = Absent.owned
          /\ F(d).announced = Absent.announced /\ F(d).orphan = Absent.orphan
          /\ F(d).waits = Absent.waits
        BY <2>3, <2>4, <2>5 DEF Absent
    <3>2. /\ F(d).status = Absent.status /\ F(d).latch = Absent.latch
          /\ F(d).pend = Absent.pend /\ F(d).watch = Absent.watch
        BY <2>1, <2>2, <2>3, <2>5 DEF Activations
    <3> QED BY <2>4, <3>1, <3>2, AbsentIs, SameActivation
  <2> QED BY <2>4, <2>5 DEF o, w
<1> HIDE DEF F
<1>3. A[c] = Absent /\ \A d \in Child : d # c => A[d] = F(d)
    OBVIOUS
<1>4. Acts(A)
    BY <1>2, AbsentIs DEF Acts
<1> HIDE DEF A
<1>5. Acts(B) /\ Core(A, B) /\ B[c] = Absent
  <2>1. CASE B = SendWaking(A, Parent[c]) /\ Managed(Parent[c])
    <3>1. Parent[c] \in Child /\ A[Parent[c]].st # "none"
        BY <1>2, <1>3, <2>1, ParentIs DEF Managed
    <3>2. Acts(B) /\ Core(A, B)
        BY <1>4, <2>1, <3>1, SendWakingIs
    <3>3. B[c].st = "none"
        BY <1>3, <3>2, AbsentIs DEF Core
    <3> QED BY <3>2, <3>3 DEF Acts
  <2>2. CASE B = A
      BY <1>3, <1>4, <2>2 DEF Core
  <2> QED BY <2>1, <2>2 DEF NotifySettlement
<1> HIDE DEF B
<1>6. /\ Acts(act') /\ Outline(B, act')
      /\ \A d \in Child : act'[d].owned = B[d].owned \ {c}
    BY <1>1, <1>5, ReleaseOwnershipIs
<1>7. act'[c] = Absent
    BY <1>5, <1>6, AbsentIs DEF Acts, Outline
<1>8. ASSUME NEW d \in Child, d # c
      PROVE  /\ act'[d].st = act[d].st /\ act'[d].announced = act[d].announced
             /\ act'[d].owned = act[d].owned \ {c}
             /\ act'[d].waits = act[d].waits \ {c}
             /\ act'[d].orphan = (act[d].orphan \/ (Parent[d] = c /\ act[d].st # "none"))
  <2>1. /\ B[d].st = act[d].st /\ B[d].announced = act[d].announced
        /\ B[d].owned = act[d].owned /\ B[d].waits = act[d].waits \ {c}
        /\ B[d].orphan = (act[d].orphan \/ (Parent[d] = c /\ act[d].st # "none"))
      BY <1>2, <1>3, <1>5, <1>8 DEF Core
  <2> QED BY <1>6, <2>1 DEF Outline
<1> QED BY <1>1, <1>6, <1>7, <1>8

-----------------------------------------------------------------------------
(* What the steps of calls do. *)

Rest ==
    /\ stored \subseteq Child
    /\ lock \in [Child -> Call \union {NoCall}]
    /\ call \in [Call -> Calls]
    /\ present \in BOOLEAN
    /\ scopes \subseteq Agent
    /\ drain \in [Agent -> [st: {"none", "waiting", "done"},
                            calls: SUBSET Call, children: SUBSET Child]]
    /\ mgr \in [st: {"open", "mats", "dispose", "done"}, children: SUBSET Child]

\* The type invariant in two parts, of the activations and of the rest.
LEMMA TypesAre ==
    /\ TypeOK <=> Acts(act) /\ Rest
    /\ TypeOK' <=> Acts(act') /\ Rest'
<1>1. TypeOK <=> Acts(act) /\ Rest
    BY DEF TypeOK, Acts, Activations, Rest, Calls, Pcs
<1>2. TypeOK' <=> Acts(act') /\ Rest'
    BY DEF TypeOK, Acts, Activations, Rest, Calls, Pcs
<1> QED BY <1>1, <1>2

\* Without an activation a child owns nothing and awaits nothing.
LEMMA Shapes ==
    ASSUME NEW A, Acts(A), NEW c \in Child
    PROVE  /\ A[c].st \in {"none", "live", "closing"}
           /\ A[c].owned \subseteq Child /\ A[c].waits \subseteq Child
           /\ A[c].announced \in BOOLEAN /\ A[c].orphan \in BOOLEAN
           /\ A[c].st = "none" => /\ A[c].owned = {} /\ A[c].waits = {}
                                  /\ ~A[c].announced /\ ~A[c].orphan
BY DEF Acts, Activations, Absent

\* The other calls stay where they are.
Others(k) == \A j \in Call : j # k => call'[j] = call[j]

\* A call that ends or is not begun.
LEMMA NotRunningIs ==
    ASSUME NEW l \in {"idle", "over"}
    PROVE  /\ NotRunning(l) \in Calls /\ NotRunning(l).pc = l
           /\ NotRunning(l).child = Root /\ ~NotRunning(l).hold
           /\ ~NotRunning(l).fresh /\ ~NotRunning(l).stale
BY DEF NotRunning, Calls, Pcs, Agent

\* A call goes on to its next await.
LEMMA PcIs ==
    ASSUME call \in [Call -> Calls], NEW k \in Call, NEW l \in Pcs, Pc(k, l)
    PROVE  /\ call' \in [Call -> Calls] /\ Others(k)
           /\ call'[k].pc = l /\ call'[k].kind = call[k].kind
           /\ call'[k].child = call[k].child /\ call'[k].hold = call[k].hold
           /\ call'[k].fresh = call[k].fresh /\ call'[k].stale = call[k].stale
BY DEF Pc, Calls, Others

\* A call leaves the critical sections.
LEMMA UnlockIs ==
    ASSUME lock \in [Child -> Call \union {NoCall}], NEW k \in Call, Unlock(k)
    PROVE  /\ lock' \in [Child -> Call \union {NoCall}]
           /\ \A c \in Child : lock'[c] = IF lock[c] = k THEN NoCall ELSE lock[c]
BY DEF Unlock

\* A failed call is over and has returned its hold.
LEMMA FailIs ==
    ASSUME Acts(act), Rest, NEW k \in Call, Fail(act, k)
    PROVE  /\ Acts(act') /\ Outline(act, act')
           /\ \A d \in Child :
                act'[d].owned = IF d = Parent[call[k].child] /\ Returned(act, k)
                                THEN act[d].owned \ {call[k].child} ELSE act[d].owned
           /\ lock' \in [Child -> Call \union {NoCall}]
           /\ \A c \in Child : lock'[c] = IF lock[c] = k THEN NoCall ELSE lock[c]
           /\ call' \in [Call -> Calls] /\ Others(k) /\ call'[k] = NotRunning("over")
<1>1. /\ Acts(act') /\ Outline(act, act')
      /\ \A d \in Child :
           act'[d].owned = IF d = Parent[call[k].child] /\ Returned(act, k)
                           THEN act[d].owned \ {call[k].child} ELSE act[d].owned
    BY ReleaseHoldIs DEF Fail
<1>2. /\ lock' \in [Child -> Call \union {NoCall}]
      /\ \A c \in Child : lock'[c] = IF lock[c] = k THEN NoCall ELSE lock[c]
    BY UnlockIs DEF Fail, Rest
<1>3. call' \in [Call -> Calls] /\ Others(k) /\ call'[k] = NotRunning("over")
    BY NotRunningIs DEF Fail, Rest, Others
<1> QED BY <1>1, <1>2, <1>3

\* Another edge, and the driver of the child.
LEMMA SubmitIs ==
    ASSUME Acts(act), Rest, NEW k \in Call, Submit(k), call[k].child \in Child
    PROVE  LET c == call[k].child
               p == Parent[c] IN
           /\ Admitted(k) /\ Authorized(k) /\ Resident(c)
           /\ Acts(act')
           /\ \A d \in Child :
                /\ act'[d].st = act[d].st /\ act'[d].waits = act[d].waits
                /\ act'[d].orphan = act[d].orphan
                /\ IF d = c THEN act'[d].announced
                   ELSE act'[d].announced = act[d].announced
                /\ act'[d].owned = IF d = p /\ act[p].st # "none"
                                   THEN act[d].owned \union {c} ELSE act[d].owned
           /\ lock' \in [Child -> Call \union {NoCall}]
           /\ \A d \in Child : lock'[d] = IF lock[d] = k THEN NoCall ELSE lock[d]
           /\ call' \in [Call -> Calls] /\ Others(k) /\ call'[k] = NotRunning("over")
<1> DEFINE c == call[k].child
           p == Parent[c]
           A == AcquireOwnership(act, p, c)
           B == SendWaking(A, c)
<1>1. /\ Admitted(k) /\ Authorized(k) /\ Resident(c)
      /\ act' = [B EXCEPT ![c].announced = TRUE]
    BY DEF Submit
<1>2. /\ Acts(A) /\ Outline(act, A)
      /\ \A d \in Child :
           A[d].owned = IF d = p /\ act[d].st # "none" THEN act[d].owned \union {c}
                        ELSE act[d].owned
    BY AcquireIs
<1> HIDE DEF A
<1>3. Acts(B) /\ Core(A, B)
  <2>1. A[c].st # "none"
      BY <1>1, <1>2 DEF Outline, Resident
  <2> QED BY <1>2, <2>1, SendWakingIs
<1> HIDE DEF B
<1>4. ASSUME NEW d \in Child
      PROVE  /\ act'[d] \in Activations
             /\ act'[d].st = B[d].st /\ act'[d].waits = B[d].waits
             /\ act'[d].orphan = B[d].orphan /\ act'[d].owned = B[d].owned
             /\ IF d = c THEN act'[d].announced
                ELSE act'[d].announced = B[d].announced
             /\ d # c => act'[d] = B[d]
  <2>1. B[d] \in Activations /\ B = [e \in Child |-> B[e]]
      BY <1>3 DEF Acts
  <2>2. CASE d = c
    <3>1. act'[d] = [B[d] EXCEPT !.announced = TRUE]
        BY <1>1, <2>1, <2>2
    <3>2. B[d].announced \in BOOLEAN
        BY <2>1 DEF Activations
    <3> QED BY <2>1, <2>2, <3>1, <3>2 DEF Activations
  <2>3. CASE d # c
    <3>1. act'[d] = B[d]
        BY <1>1, <2>1, <2>3
    <3>2. B[d].announced \in BOOLEAN
        BY <2>1 DEF Activations
    <3> QED BY <2>1, <2>3, <3>1, <3>2
  <2> QED BY <2>2, <2>3
<1>5. Acts(act')
  <2>1. act' = [d \in Child |-> act'[d]]
      BY <1>1, <1>3 DEF Acts
  <2>2. act' \in [Child -> Activations]
      BY <1>4, <2>1
  <2>3. act'[c].st # "none"
      BY <1>1, <1>2, <1>3, <1>4 DEF Core, Outline, Resident
  <2> QED BY <1>3, <1>4, <2>2, <2>3 DEF Acts
<1>6. ASSUME NEW d \in Child
      PROVE  /\ act'[d].st = act[d].st /\ act'[d].waits = act[d].waits
             /\ act'[d].orphan = act[d].orphan
             /\ IF d = c THEN act'[d].announced
                ELSE act'[d].announced = act[d].announced
             /\ act'[d].owned = IF d = p /\ act[p].st # "none"
                                THEN act[d].owned \union {c} ELSE act[d].owned
  <2>1. /\ B[d].st = act[d].st /\ B[d].waits = act[d].waits
        /\ B[d].orphan = act[d].orphan /\ B[d].announced = act[d].announced
        /\ B[d].owned = IF d = p /\ act[d].st # "none" THEN act[d].owned \union {c}
                        ELSE act[d].owned
      BY <1>2, <1>3 DEF Core, Outline
  <2>2. /\ act'[d].st = act[d].st /\ act'[d].waits = act[d].waits
        /\ act'[d].orphan = act[d].orphan
      BY <1>4, <2>1
  <2>3. IF d = c THEN act'[d].announced ELSE act'[d].announced = act[d].announced
      BY <1>4, <2>1
  <2>4. act'[d].owned = IF d = p /\ act[p].st # "none"
                        THEN act[d].owned \union {c} ELSE act[d].owned
      BY <1>4, <2>1
  <2> QED BY <2>2, <2>3, <2>4
<1>7. /\ lock' \in [Child -> Call \union {NoCall}]
      /\ \A d \in Child : lock'[d] = IF lock[d] = k THEN NoCall ELSE lock[d]
    BY UnlockIs DEF Submit, Rest
<1>8. call' \in [Call -> Calls] /\ Others(k) /\ call'[k] = NotRunning("over")
    BY NotRunningIs DEF Submit, Rest, Others
<1> QED BY <1>1, <1>5, <1>6, <1>7, <1>8

-----------------------------------------------------------------------------
(* Every step keeps the inductive invariant: steps of an agent. *)

\* Where no call and no drain moves and nobody's edges, disposals or
\* announcements do, the invariant is untouched.
LEMMA QuietKeeps ==
    ASSUME IInv, Acts(act'), Core(act, act'),
           UNCHANGED <<stored, lock, call, present, scopes, drain, mgr>>
    PROVE  IInv'
<1>1. Rest /\ Rest' /\ TypeOK'
    BY TypesAre DEF IInv, Rest
<1>2. \A c \in Child :
        /\ act'[c].st = act[c].st /\ act'[c].owned = act[c].owned
        /\ act'[c].waits = act[c].waits /\ act'[c].announced = act[c].announced
        /\ act'[c].orphan = act[c].orphan
    BY DEF Core
<1>3. CallsAt'
    BY <1>2 DEF IInv, CallsAt, InFlight
<1>4. EdgesAt'
    BY <1>2 DEF IInv, EdgesAt, Holds, InFlight
<1>5. ResidentsAt'
    BY <1>2 DEF IInv, ResidentsAt, Resident
<1>6. ClosingsAt'
    BY <1>2 DEF IInv, ClosingsAt, Undoing
<1>7. ManagerAt'
    BY <1>2 DEF IInv, ManagerAt, WaitedFor, Tracked
<1>8. DrainsAt'
  <2>1. \A c \in Child, a \in Agent : Descends(c, a)' <=> Descends(c, a)
      BY <1>2 DEF Descends
  <2>2. \A c \in Child : WaitedFor(c)' <=> WaitedFor(c)
      BY <1>2 DEF WaitedFor
  <2>3. \A k \in Call, a \in Agent : Under(k, a)' <=> Under(k, a)
      BY DEF Under, Tracked
  <2> QED BY <1>1, <1>2, <2>1, <2>2, <2>3 DEF IInv, DrainsAt, DrainAt, Undoing, WaitedFor, Rest
<1> QED BY <1>1, <1>3, <1>4, <1>5, <1>6, <1>7, <1>8 DEF IInv

\* The steps of an agent and of its watcher, a disposal apart.
LEMMA AgentKeeps ==
    ASSUME IInv, NEW c \in Child,
           \/ Claim(c) \/ TurnEnds(c) \/ TurnFails(c) \/ DriverStops(c)
           \/ Interrupt(c) \/ SendToParent(c)
           \/ Watch(c) /\ ~SettledState(c)
    PROVE  IInv'
<1>1. Acts(act)
    BY TypesAre DEF IInv
<1>2. UNCHANGED <<stored, lock, call, present, scopes, drain, mgr>>
    BY DEF Claim, TurnEnds, TurnFails, DriverStops, Interrupt, SendToParent, Watch
<1>3. ASSUME NEW A, A \in [Child -> Activations], Core(act, A), act[c].st # "none",
             \A d \in Child : d # c => A[d] = act[d]
      PROVE  Acts(A)
    BY <1>1, <1>3 DEF Acts, Core
<1>4. ASSUME act[c].status # "idle" \/ act[c].watch # "off" PROVE act[c].st # "none"
    BY <1>1, <1>4 DEF Acts, Absent
<1>5. ASSUME NEW s \in {"idle", "running", "aborted"}, act[c].status # "idle",
             act' = [act EXCEPT ![c].status = s]
      PROVE  Acts(act') /\ Core(act, act')
  <2>1. act' \in [Child -> Activations] /\ Core(act, act')
      BY <1>1, <1>5 DEF Acts, Activations, Core
  <2>2. \A d \in Child : d # c => act'[d] = act[d]
      BY <1>1, <1>5 DEF Acts
  <2> QED BY <1>3, <1>4, <1>5, <2>1, <2>2
<1>6. CASE Claim(c)
  <2>1. PICK n \in 0 .. act[c].pend - 1 : act' = Wake([act EXCEPT ![c].pend = n], c)
      BY <1>6 DEF Claim
  <2> DEFINE A == [act EXCEPT ![c].pend = n]
  <2>2. n \in Nat
    <3>1. act[c].pend \in Nat
        BY <1>1 DEF Acts, Activations
    <3> QED BY <2>1, <3>1
  <2>3. A \in [Child -> Activations] /\ Core(act, A)
      BY <1>1, <2>2 DEF Acts, Activations, Core
  <2>4. \A d \in Child : d # c => A[d] = act[d]
      BY <1>1 DEF Acts
  <2>5. act[c].st # "none"
      BY <1>4, <1>6 DEF Claim
  <2>6. act' = Wake(A, c)
      BY <2>1
  <2> HIDE DEF A
  <2>7. Acts(A)
      BY <1>3, <2>3, <2>4, <2>5
  <2>8. Acts(act') /\ Core(A, act')
      BY <2>6, <2>7, WakeIs
  <2>9. Core(act, act')
      BY <2>3, <2>8 DEF Core
  <2> QED BY <1>2, <2>8, <2>9, QuietKeeps
<1>7. CASE TurnEnds(c) \/ TurnFails(c) \/ Interrupt(c)
  <2>1. \E s \in {"idle", "running", "aborted"} : act' = [act EXCEPT ![c].status = s]
      BY <1>7 DEF TurnEnds, TurnFails, Interrupt
  <2>2. act[c].status # "idle"
      BY <1>7 DEF TurnEnds, TurnFails, Interrupt
  <2> QED BY <1>2, <1>5, <2>1, <2>2, QuietKeeps
<1>8. CASE DriverStops(c)
  <2> DEFINE s == IF act[c].latch /\ act[c].pend > 0 THEN "running" ELSE "idle"
  <2>1. act' = [act EXCEPT ![c].latch = FALSE, ![c].status = s]
      BY <1>8 DEF DriverStops
  <2>2. s \in {"idle", "running", "aborted"} /\ FALSE \in BOOLEAN
      OBVIOUS
  <2> HIDE DEF s
  <2>6. ASSUME NEW x \in Activations
        PROVE  LET y == [[x EXCEPT !.latch = FALSE] EXCEPT !.status = s] IN
               /\ y \in Activations
               /\ y.st = x.st /\ y.owned = x.owned /\ y.waits = x.waits
               /\ y.announced = x.announced /\ y.orphan = x.orphan
      BY <2>2 DEF Activations
  <2>7. act[c] \in Activations /\ act = [d \in Child |-> act[d]]
      BY <1>1 DEF Acts
  <2>4. /\ act'[c] = [[act[c] EXCEPT !.latch = FALSE] EXCEPT !.status = s]
        /\ \A d \in Child : d # c => act'[d] = act[d]
        /\ act' = [d \in Child |-> act'[d]]
      BY <2>1, <2>7
  <2>8. /\ act'[c] \in Activations
        /\ act'[c].st = act[c].st /\ act'[c].owned = act[c].owned
        /\ act'[c].waits = act[c].waits /\ act'[c].announced = act[c].announced
        /\ act'[c].orphan = act[c].orphan
      BY <2>4, <2>6, <2>7
  <2>9. \A d \in Child : act'[d] \in Activations
      BY <1>1, <2>4, <2>8 DEF Acts
  <2>3. act' \in [Child -> Activations] /\ Core(act, act')
    <3>1. act' \in [Child -> Activations]
        BY <2>4, <2>9
    <3>2. Core(act, act')
        BY <2>4, <2>8 DEF Core
    <3> QED BY <3>1, <3>2
  <2>5. act[c].st # "none"
      BY <1>4, <1>8 DEF DriverStops
  <2> QED BY <1>2, <1>3, <2>3, <2>4, <2>5, QuietKeeps
<1>9. CASE SendToParent(c)
  <2>1. act' = SendWaking(act, Parent[c]) /\ Parent[c] \in Child /\ Registered(Parent[c])
      BY <1>9 DEF SendToParent
  <2>2. act[Parent[c]].st # "none"
      BY <2>1, TreeAssumption DEF Registered, TreeAssumption
  <2>3. Acts(act') /\ Core(act, act')
      BY <1>1, <2>1, <2>2, SendWakingIs
  <2> QED BY <1>2, <2>3, QuietKeeps
<1>10. CASE Watch(c) /\ ~SettledState(c)
  <2> DEFINE w == IF act[c].status = "idle" THEN "parked" ELSE "idle"
  <2>1. act' = [act EXCEPT ![c].watch = w]
      BY <1>10 DEF Watch
  <2>2. w \in {"off", "look", "idle", "parked"}
      OBVIOUS
  <2> HIDE DEF w
  <2>3. act' \in [Child -> Activations] /\ Core(act, act')
      BY <1>1, <2>1, <2>2 DEF Acts, Activations, Core
  <2>4. \A d \in Child : d # c => act'[d] = act[d]
      BY <1>1, <2>1 DEF Acts
  <2>5. act[c].st # "none"
      BY <1>4, <1>10 DEF Watch
  <2> QED BY <1>2, <1>3, <2>3, <2>4, <2>5, QuietKeeps
<1> QED BY <1>6, <1>7, <1>8, <1>9, <1>10

-----------------------------------------------------------------------------
(* Steps of calls. *)

\* A call that is over leaves the other calls as they were.
LEMMA OverKeeps ==
    ASSUME IInv, NEW k \in Call, Rest',
           \A c \in Child : lock'[c] = IF lock[c] = k THEN NoCall ELSE lock[c],
           Others(k), call'[k] = NotRunning("over"),
           \A c \in Child : act'[c].st = act[c].st
    PROVE  CallsAt'
<1>1. /\ call'[k] = NotRunning("over") /\ call'[k].pc = "over" /\ ~call'[k].fresh
    BY NotRunningIs
<1>2. ASSUME NEW j \in Call
      PROVE  /\ call'[j].pc \in {"idle", "over"} => call'[j] = NotRunning(call'[j].pc)
             /\ InFlight(j)' => call'[j].child \in Child
             /\ call'[j].pc \in Inside => lock'[call'[j].child] = j
             /\ call'[j].pc \in {"lookup", "create"} => act'[call'[j].child].st = "none"
             /\ call'[j].fresh => call'[j].pc \in {"submit", "undo"}
             /\ call'[j].pc = "submit" => call'[j].fresh
  <2>1. CASE j = k
      BY <1>1, <2>1 DEF InFlight, Inside
  <2>2. CASE j # k
    <3>1. call'[j] = call[j]
        BY <2>2 DEF Others
    <3>2. call[j].pc \in Inside => call[j].child \in Child
        BY DEF IInv, CallsAt, InFlight, Inside
    <3> QED BY <2>2, <3>1, <3>2 DEF IInv, CallsAt, InFlight, Inside
  <2> QED BY <2>1, <2>2
<1>3. ASSUME NEW c \in Child, lock'[c] # NoCall
      PROVE  call'[lock'[c]].pc \in Inside /\ call'[lock'[c]].child = c
  <2>1. lock'[c] = lock[c] /\ lock[c] # k /\ lock[c] # NoCall
      BY <1>3
  <2>2. lock[c] \in Call
      BY <2>1, TypesAre DEF IInv, Rest
  <2>3. call'[lock[c]] = call[lock[c]]
      BY <2>1, <2>2 DEF Others
  <2> QED BY <2>1, <2>3 DEF IInv, CallsAt
<1> QED BY <1>2, <1>3 DEF CallsAt

\* A call that fails loses no edge of a resident child, and leaves none behind
\* that nothing holds.
LEMMA FailKeeps ==
    ASSUME IInv, NEW k \in Call, InFlight(k), call[k].pc # "submit",
           call[k].pc = "undo" => act[call[k].child].st = "none",
           Fail(act, k), stored' \subseteq Child,
           UNCHANGED <<present, scopes, drain, mgr>>
    PROVE  IInv'
<1> DEFINE c == call[k].child
<1>1. Acts(act) /\ Rest
    BY TypesAre DEF IInv
<1>2. /\ Acts(act') /\ Outline(act, act')
      /\ \A d \in Child :
           act'[d].owned = IF d = Parent[c] /\ Returned(act, k)
                           THEN act[d].owned \ {c} ELSE act[d].owned
      /\ lock' \in [Child -> Call \union {NoCall}]
      /\ \A d \in Child : lock'[d] = IF lock[d] = k THEN NoCall ELSE lock[d]
      /\ call' \in [Call -> Calls] /\ Others(k) /\ call'[k] = NotRunning("over")
    BY <1>1, FailIs
<1>3. \A d \in Child :
        /\ act'[d].st = act[d].st /\ act'[d].waits = act[d].waits
        /\ act'[d].announced = act[d].announced /\ act'[d].orphan = act[d].orphan
        /\ act'[d].owned \subseteq act[d].owned
    BY <1>2 DEF Outline
<1>4. Rest' /\ TypeOK'
    BY <1>1, <1>2, TypesAre DEF Rest
<1>5. c \in Child
    BY DEF IInv, CallsAt
<1>6. CallsAt'
    BY <1>2, <1>3, <1>4, OverKeeps
<1>7. call'[k].pc = "over" /\ \A j \in Call : j # k => call'[j] = call[j]
    BY <1>2, NotRunningIs DEF Others
<1>8. EdgesAt'
  <2> SUFFICES ASSUME NEW p \in Child, NEW d \in Child, d \in act'[p].owned
               PROVE  /\ Parent[d] = p
                      /\ act'[d].st # "none" \/ \E j \in Call : Holds(j, d)'
      BY DEF EdgesAt
  <2>1. d \in act[p].owned /\ Parent[d] = p
      BY <1>3 DEF IInv, EdgesAt
  <2>2. CASE act[d].st # "none"
      BY <1>3, <2>1, <2>2
  <2>3. CASE \E j \in Call : j # k /\ Holds(j, d)
      BY <1>7, <2>1, <2>3 DEF Holds, InFlight
  <2>4. CASE Holds(k, d) /\ act[d].st = "none"
    <3>1. act[p].st # "none"
        BY <1>1, <2>1, Shapes
    <3>2. Returned(act, k) /\ c = d
        BY <2>1, <2>4, <3>1 DEF Returned, Holds
    <3> QED BY <1>2, <2>1, <3>2
  <2> QED BY <2>1, <2>2, <2>3, <2>4 DEF IInv, EdgesAt
<1>9. ResidentsAt'
  <2> SUFFICES ASSUME NEW d \in Child, Resident(d)'
               PROVE  IF act'[d].announced
                      THEN Parent[d] \in Child =>
                              /\ Resident(Parent[d])' /\ d \in act'[Parent[d]].owned
                              /\ ~act'[d].orphan
                      ELSE /\ lock'[d] # NoCall /\ call'[lock'[d]].pc = "submit"
                           /\ act'[d].orphan => call'[lock'[d]].stale
      BY DEF ResidentsAt
  <2>1. Resident(d)
      BY <1>3 DEF Resident
  <2>2. CASE act[d].announced /\ Parent[d] \in Child
    <3>1. Resident(Parent[d]) /\ d \in act[Parent[d]].owned /\ ~act[d].orphan
        BY <2>1, <2>2 DEF IInv, ResidentsAt
    <3>2. Returned(act, k) => d # c
        BY <2>1 DEF Returned, Resident
    <3>3. d \in act'[Parent[d]].owned
        BY <1>2, <2>2, <3>1, <3>2
    <3> QED BY <1>3, <2>2, <3>1, <3>3 DEF Resident
  <2>3. CASE ~act[d].announced
    <3>1. /\ lock[d] # NoCall /\ call[lock[d]].pc = "submit"
          /\ act[d].orphan => call[lock[d]].stale
        BY <2>1, <2>3 DEF IInv, ResidentsAt
    <3>2. lock[d] \in Call /\ lock[d] # k
        BY <1>1, <3>1 DEF Rest
    <3> QED BY <1>2, <1>3, <1>7, <2>3, <3>1, <3>2
  <2> QED BY <1>3, <2>2, <2>3
<1>10. ClosingsAt'
  <2> SUFFICES ASSUME NEW p \in Child, NEW d \in Child, act'[p].st = "closing",
                      d \in act'[p].owned, act'[d].st # "none"
               PROVE  /\ act'[d].st = "closing"
                      /\ d \in act'[p].waits \/ \E j \in Call : Undoing(j, d)'
      BY DEF ClosingsAt
  <2>1. /\ act[d].st = "closing"
        /\ d \in act[p].waits \/ \E j \in Call : Undoing(j, d)
      BY <1>3 DEF IInv, ClosingsAt
  <2>2. ~Undoing(k, d)
      BY <2>1 DEF Undoing
  <2> QED BY <1>3, <1>7, <2>1, <2>2 DEF Undoing
<1>11. \A j \in Call : Tracked(j)' => Tracked(j) /\ call'[j] = call[j]
    BY <1>7 DEF Tracked
<1>12. \A d \in Child : WaitedFor(d)' <=> WaitedFor(d)
    BY <1>3 DEF WaitedFor
<1>13. ManagerAt'
    BY <1>3, <1>11, <1>12 DEF IInv, ManagerAt
<1>14. DrainsAt'
  <2>1. \A d \in Child, a \in Agent : Descends(d, a)' <=> Descends(d, a)
      BY <1>3 DEF Descends
  <2>2. \A j \in Call, a \in Agent : Under(j, a)' => Under(j, a)
      BY <1>11 DEF Under
  <2>3. \A j \in Call, d \in Child :
          act[d].st # "none" /\ Undoing(j, d) => Undoing(j, d)'
      BY <1>7 DEF Undoing
  <2>4. \A d \in Child : WaitedFor(d) => Parent[d] \in Child
      BY DEF WaitedFor
  <2> QED BY <1>1, <1>3, <1>12, <2>1, <2>2, <2>3, <2>4 DEF IInv, DrainsAt, DrainAt, Rest
<1> QED BY <1>4, <1>6, <1>8, <1>9, <1>10, <1>13, <1>14 DEF IInv

\* A submission is accepted for a resident child that its parent owns.
LEMMA SubmitKeeps ==
    ASSUME IInv, NEW k \in Call, InFlight(k), call[k].pc # "undo", call[k].pc # "create",
           \/ lock[call[k].child] = NoCall
           \/ lock[call[k].child] = k,
           Submit(k), UNCHANGED <<stored, present, scopes, drain, mgr>>
    PROVE  IInv'
<1> DEFINE c == call[k].child
           p == Parent[c]
<1>1. Acts(act) /\ Rest /\ c \in Child
    BY TypesAre DEF IInv, CallsAt
<1>2. /\ Authorized(k) /\ Resident(c)
      /\ Acts(act')
      /\ \A d \in Child :
           /\ act'[d].st = act[d].st /\ act'[d].waits = act[d].waits
           /\ act'[d].orphan = act[d].orphan
           /\ IF d = c THEN act'[d].announced
              ELSE act'[d].announced = act[d].announced
           /\ act'[d].owned = IF d = p /\ act[p].st # "none"
                              THEN act[d].owned \union {c} ELSE act[d].owned
      /\ lock' \in [Child -> Call \union {NoCall}]
      /\ \A d \in Child : lock'[d] = IF lock[d] = k THEN NoCall ELSE lock[d]
      /\ call' \in [Call -> Calls] /\ Others(k) /\ call'[k] = NotRunning("over")
    BY <1>1, SubmitIs
<1>16. \A d \in Child :
         /\ act'[d].st = act[d].st /\ act'[d].waits = act[d].waits
         /\ act'[d].orphan = act[d].orphan
    BY <1>2
<1>17. \A d \in Child :
         act'[d].owned = IF d = p /\ act[p].st # "none"
                         THEN act[d].owned \union {c} ELSE act[d].owned
    BY <1>2
<1>18. act'[c].announced /\ \A d \in Child : d # c => act'[d].announced = act[d].announced
    BY <1>1, <1>2
<1>19. (\A d \in Child : lock'[d] = IF lock[d] = k THEN NoCall ELSE lock[d]) /\ Resident(c)
    BY <1>2
<1>3. Rest' /\ TypeOK'
    BY <1>1, <1>2, TypesAre DEF Rest
<1>4. CallsAt'
    BY <1>2, <1>3, OverKeeps
<1>5. call'[k].pc = "over" /\ \A j \in Call : j # k => call'[j] = call[j]
    BY <1>2, NotRunningIs DEF Others
<1>6. p \in Child => act[p].st = "live"
    BY <1>2 DEF Authorized
<1>7. EdgesAt'
  <2> SUFFICES ASSUME NEW q \in Child, NEW d \in Child, d \in act'[q].owned
               PROVE  /\ Parent[d] = q
                      /\ act'[d].st # "none" \/ \E j \in Call : Holds(j, d)'
      BY DEF EdgesAt
  <2>1. CASE d = c
    <3>1. act'[d].st # "none"
        BY <1>16, <1>17, <1>18, <1>19, <2>1 DEF Resident
    <3>2. Parent[d] = q
        BY <1>16, <1>17, <1>18, <1>19, <2>1 DEF IInv, EdgesAt
    <3> QED BY <3>1, <3>2
  <2>2. CASE d # c
    <3>1. d \in act[q].owned
        BY <1>16, <1>17, <1>18, <1>19, <2>2
    <3>2. ~Holds(k, d)
        BY <2>2 DEF Holds
    <3>3. \A j \in Call : Holds(j, d) => Holds(j, d)'
        BY <1>5, <3>2 DEF Holds, InFlight
    <3> QED BY <1>16, <1>17, <1>18, <1>19, <3>1, <3>3 DEF IInv, EdgesAt
  <2> QED BY <2>1, <2>2
<1>8. act[c].announced \/ ~act[c].orphan
  <2>1. CASE ~act[c].announced
    <3>1. /\ lock[c] # NoCall /\ call[lock[c]].pc = "submit"
          /\ act[c].orphan => call[lock[c]].stale
        BY <1>1, <1>2, <2>1 DEF IInv, ResidentsAt
    <3> QED BY <1>2, <3>1 DEF Authorized
  <2> QED BY <2>1
<1>9. ResidentsAt'
  <2> SUFFICES ASSUME NEW d \in Child, Resident(d)'
               PROVE  IF act'[d].announced
                      THEN Parent[d] \in Child =>
                              /\ Resident(Parent[d])' /\ d \in act'[Parent[d]].owned
                              /\ ~act'[d].orphan
                      ELSE /\ lock'[d] # NoCall /\ call'[lock'[d]].pc = "submit"
                           /\ act'[d].orphan => call'[lock'[d]].stale
      BY DEF ResidentsAt
  <2>1. Resident(d)
      BY <1>16, <1>17, <1>18, <1>19 DEF Resident
  <2>2. CASE d = c
    <3>1. act'[d].announced
        BY <1>16, <1>17, <1>18, <1>19, <2>2
    <3>2. ASSUME p \in Child
          PROVE  act'[p].st = "live" /\ c \in act'[p].owned /\ ~act'[c].orphan
      <4>1. act'[p].st = "live" /\ c \in act'[p].owned
          BY <1>6, <1>16, <1>17, <3>2
      <4>2. ~act[c].orphan
          BY <1>1, <1>16, <1>17, <1>18, <1>19, <1>8, <3>2 DEF IInv, ResidentsAt
      <4>3. ~act'[c].orphan
          BY <1>1, <1>16, <4>2
      <4> QED BY <4>1, <4>3
    <3> QED BY <2>2, <3>1, <3>2 DEF Resident
  <2>3. CASE d # c /\ act[d].announced
    <3>1. act'[d].announced
        BY <1>16, <1>17, <1>18, <1>19, <2>3
    <3>2. ASSUME Parent[d] \in Child
          PROVE  Resident(Parent[d])' /\ d \in act'[Parent[d]].owned /\ ~act'[d].orphan
      <4>1. Resident(Parent[d]) /\ d \in act[Parent[d]].owned /\ ~act[d].orphan
          BY <2>1, <2>3, <3>2 DEF IInv, ResidentsAt
      <4> QED BY <1>16, <1>17, <1>18, <1>19, <3>2, <4>1 DEF Resident
    <3> QED BY <3>1, <3>2
  <2>4. CASE d # c /\ ~act[d].announced
    <3>1. /\ lock[d] # NoCall /\ call[lock[d]].pc = "submit"
          /\ act[d].orphan => call[lock[d]].stale
        BY <2>1, <2>4 DEF IInv, ResidentsAt
    <3>2. call[lock[d]].child = d /\ lock[d] \in Call
        BY <1>1, <3>1 DEF IInv, CallsAt, Rest
    <3>3. lock[d] # k
        BY <2>4, <3>2
    <3>4. ~act'[d].announced
        BY <1>1, <1>16, <1>17, <1>18, <1>19, <2>4, Shapes
    <3>5. lock'[d] = lock[d] /\ call'[lock[d]] = call[lock[d]]
        BY <1>16, <1>17, <1>18, <1>19, <1>5, <3>2, <3>3
    <3> QED BY <1>16, <1>17, <1>18, <1>19, <3>1, <3>4, <3>5
  <2> QED BY <2>2, <2>3, <2>4
<1>10. \A j \in Call, d \in Child : Undoing(j, d) => Undoing(j, d)'
    BY <1>5 DEF Undoing
<1>11. ClosingsAt'
  <2> SUFFICES ASSUME NEW q \in Child, NEW d \in Child, act'[q].st = "closing",
                      d \in act'[q].owned, act'[d].st # "none"
               PROVE  /\ act'[d].st = "closing"
                      /\ d \in act'[q].waits \/ \E j \in Call : Undoing(j, d)'
      BY DEF ClosingsAt
  <2>1. act[q].st = "closing" /\ d \in act[q].owned /\ act[d].st # "none"
      BY <1>6, <1>16, <1>17
  <2>2. /\ act[d].st = "closing"
        /\ d \in act[q].waits \/ \E j \in Call : Undoing(j, d)
      BY <2>1 DEF IInv, ClosingsAt
  <2> QED BY <1>16, <1>17, <1>18, <1>19, <1>10, <2>2
<1>12. \A j \in Call : Tracked(j)' => Tracked(j) /\ call'[j] = call[j]
    BY <1>5 DEF Tracked
<1>13. \A d \in Child : WaitedFor(d)' <=> WaitedFor(d)
    BY <1>16, <1>17, <1>18, <1>19 DEF WaitedFor
<1>14. ManagerAt'
    BY <1>16, <1>17, <1>18, <1>19, <1>12, <1>13 DEF IInv, ManagerAt
<1>15. DrainsAt'
  <2>1. \A d \in Child, a \in Agent : Descends(d, a)' <=> Descends(d, a)
      BY <1>16, <1>17, <1>18, <1>19 DEF Descends
  <2>2. \A j \in Call, a \in Agent : Under(j, a)' => Under(j, a)
      BY <1>12 DEF Under
  <2>3. \A d \in Child : WaitedFor(d) => Parent[d] \in Child
      BY DEF WaitedFor
  <2> QED BY <1>1, <1>16, <1>17, <1>18, <1>19, <1>10, <1>13, <2>1, <2>2, <2>3 DEF IInv, DrainsAt, DrainAt, Rest
<1> QED BY <1>3, <1>4, <1>7, <1>9, <1>11, <1>14, <1>15 DEF IInv

\* A call that begins holds its parent, or finds the edge there.
LEMMA BeginKeeps ==
    ASSUME IInv, NEW k \in Call, NEW kind \in {"start", "deliver"}, NEW c \in Child,
           Begin(k, kind, c)
    PROVE  IInv'
<1> DEFINE p == Parent[c]
           h == Managed(p) /\ c \notin act[p].owned
           l == IF kind = "start" THEN "prepare" ELSE "lock"
<1>1. Acts(act) /\ Rest
    BY TypesAre DEF IInv
<1>2. /\ call[k].pc = "idle"
      /\ Managed(p) => Resident(p)
      /\ call' = [call EXCEPT ![k] = [@ EXCEPT !.pc = l, !.kind = kind, !.child = c,
                                               !.hold = h]]
      /\ act' = AcquireOwnership(act, p, c)
      /\ UNCHANGED <<stored, lock, present, scopes, drain, mgr>>
    BY DEF Begin
<1>3. /\ Acts(act') /\ Outline(act, act')
      /\ \A d \in Child :
           act'[d].owned = IF d = p /\ act[p].st # "none" THEN act[d].owned \union {c}
                           ELSE act[d].owned
    BY <1>1, <1>2, AcquireIs
<1>4. \A d \in Child :
        /\ act'[d].st = act[d].st /\ act'[d].waits = act[d].waits
        /\ act'[d].announced = act[d].announced /\ act'[d].orphan = act[d].orphan
    BY <1>3 DEF Outline
<1>5. call[k] \in Calls /\ ~call[k].fresh /\ ~call[k].stale
  <2>1. call[k] = NotRunning("idle")
      BY <1>2 DEF IInv, CallsAt
  <2> QED BY <2>1, NotRunningIs
<1>6. /\ call' \in [Call -> Calls] /\ Others(k)
      /\ call'[k].pc = l /\ call'[k].child = c /\ call'[k].hold = h
      /\ ~call'[k].fresh /\ ~call'[k].stale
  <2>1. h \in BOOLEAN /\ l \in Pcs /\ c \in Agent
      BY DEF Pcs, Agent
  <2>2. call'[k] = [call[k] EXCEPT !.pc = l, !.kind = kind, !.child = c, !.hold = h]
      BY <1>1, <1>2 DEF Rest
  <2> HIDE DEF h, l
  <2>3. /\ call'[k] \in Calls
        /\ call'[k].pc = l /\ call'[k].child = c /\ call'[k].hold = h
        /\ ~call'[k].fresh /\ ~call'[k].stale
      BY <1>5, <2>1, <2>2 DEF Calls
  <2>4. Others(k)
      BY <1>1, <1>2 DEF Rest, Others
  <2>5. call' = [j \in Call |-> call'[j]]
      BY <1>1, <1>2 DEF Rest
  <2>6. call' \in [Call -> Calls]
      BY <1>1, <2>3, <2>4, <2>5 DEF Rest, Others
  <2> QED BY <2>3, <2>4, <2>6
<1>7. \A j \in Call : j # k => call'[j] = call[j]
    BY <1>6 DEF Others
<1>8. Rest' /\ TypeOK'
    BY <1>1, <1>2, <1>3, <1>6, TypesAre DEF Rest
<1>9. l \in {"prepare", "lock"}
    OBVIOUS
<1> HIDE DEF l
<1>10. CallsAt'
  <2>1. \A d \in Child : lock[d] # NoCall => lock[d] \in Call /\ lock[d] # k
      BY <1>1, <1>2 DEF IInv, CallsAt, Inside, Rest
  <2> QED BY <1>2, <1>4, <1>6, <1>7, <1>9, <2>1 DEF IInv, CallsAt, Inside, InFlight
<1>11. EdgesAt'
  <2> SUFFICES ASSUME NEW q \in Child, NEW d \in Child, d \in act'[q].owned
               PROVE  /\ Parent[d] = q
                      /\ act'[d].st # "none" \/ \E j \in Call : Holds(j, d)'
      BY DEF EdgesAt
  <2>1. CASE d \in act[q].owned
    <3>1. ~Holds(k, d)
        BY <1>2 DEF Holds, InFlight
    <3>2. \A j \in Call : Holds(j, d) => Holds(j, d)'
        BY <1>7, <3>1 DEF Holds, InFlight
    <3> QED BY <1>4, <2>1, <3>2 DEF IInv, EdgesAt
  <2>2. CASE d \notin act[q].owned
    <3>1. d = c /\ q = p /\ act[p].st # "none"
        BY <1>3, <2>2
    <3>2. Holds(k, c)'
        BY <1>6, <1>9, <2>2, <3>1 DEF Holds, InFlight, Managed
    <3> QED BY <3>1, <3>2
  <2> QED BY <2>1, <2>2
<1>12. ResidentsAt'
  <2>1. \A d \in Child : act[d].owned \subseteq act'[d].owned
      BY <1>3
  <2>2. \A d \in Child : lock[d] # NoCall =>
           lock[d] \in Call /\ (call[lock[d]].pc = "submit" => lock[d] # k)
      BY <1>1, <1>2 DEF Rest
  <2> QED BY <1>2, <1>4, <1>7, <2>1, <2>2 DEF IInv, ResidentsAt, Resident
<1>13. \A j \in Call, d \in Child : Undoing(j, d) => Undoing(j, d)'
    BY <1>2, <1>7 DEF Undoing
<1>14. ClosingsAt'
  <2> SUFFICES ASSUME NEW q \in Child, NEW d \in Child, act'[q].st = "closing",
                      d \in act'[q].owned, act'[d].st # "none"
               PROVE  /\ act'[d].st = "closing"
                      /\ d \in act'[q].waits \/ \E j \in Call : Undoing(j, d)'
      BY DEF ClosingsAt
  <2>1. act[q].st = "closing" /\ d \in act[q].owned /\ act[d].st # "none"
      BY <1>2, <1>3, <1>4 DEF Managed, Resident
  <2>2. /\ act[d].st = "closing"
        /\ d \in act[q].waits \/ \E j \in Call : Undoing(j, d)
      BY <2>1 DEF IInv, ClosingsAt
  <2> QED BY <1>4, <1>13, <2>2
<1>15. \A j \in Call : Tracked(j)' => Tracked(j) /\ call'[j] = call[j]
    BY <1>6, <1>7, <1>9 DEF Tracked
<1>16. \A d \in Child : WaitedFor(d)' <=> WaitedFor(d)
    BY <1>4 DEF WaitedFor
<1>17. ManagerAt'
    BY <1>2, <1>4, <1>15, <1>16 DEF IInv, ManagerAt
<1>18. DrainsAt'
  <2>1. \A d \in Child, a \in Agent : Descends(d, a)' <=> Descends(d, a)
      BY <1>4 DEF Descends
  <2>2. \A j \in Call, a \in Agent : Under(j, a)' => Under(j, a)
      BY <1>15 DEF Under
  <2>3. \A d \in Child : WaitedFor(d) => Parent[d] \in Child
      BY DEF WaitedFor
  <2> QED BY <1>1, <1>2, <1>4, <1>13, <1>16, <2>1, <2>2, <2>3 DEF IInv, DrainsAt, DrainAt, Rest
<1> QED BY <1>8, <1>10, <1>11, <1>12, <1>14, <1>17, <1>18 DEF IInv

\* An ancestor of a child that is not the child is one of its parent.
LEMMA LineageIs ==
    ASSUME NEW c \in Child, NEW a \in Lineage[c], a # c
    PROVE  a \in Agent /\ a \in Lineage[Parent[c]]
<1>1. Parent[c] \in Agent /\ c \in Agent
    BY ParentIs DEF Agent
<1>2. a \in Agent /\ \A L \in SUBSET Agent : c \in L /\ Upward(L) => a \in L
    BY <1>1 DEF Lineage
<1>3. ASSUME NEW L \in SUBSET Agent, Parent[c] \in L, Upward(L) PROVE a \in L
  <2>1. L \union {c} \in SUBSET Agent /\ c \in L \union {c}
      BY <1>1
  <2>2. Upward(L \union {c})
      BY <1>3 DEF Upward
  <2>3. a \in L \union {c}
      BY <1>2, <2>1, <2>2
  <2> QED BY <2>3
<1> QED BY <1>1, <1>2, <1>3 DEF Lineage

\* Admission refuses a call below a closing scope.
LEMMA AdmittedIs ==
    ASSUME NEW k \in Call, Admitted(k), NEW a \in scopes,
           a \in Lineage[Parent[call[k].child]],
           a = Parent[call[k].child] => ~call[k].stale
    PROVE  FALSE
BY DEF Admitted

\* A call that goes on to an await other than a submission or a rollback.
LEMMA MoveKeeps ==
    ASSUME IInv, NEW k \in Call,
           call[k].pc \in {"prepare", "lock", "wait", "lookup", "image"},
           NEW l \in {"lock", "wait", "lookup", "image", "create"}, Pc(k, l),
           l \in {"lookup", "create"} => act[call[k].child].st = "none",
           l = "create" => Admitted(k),
           l \in Inside => lock[call[k].child] \in {NoCall, k},
           lock' \in [Child -> Call \union {NoCall}],
           \A d \in Child :
             lock'[d] = IF l \in Inside /\ d = call[k].child THEN k
                        ELSE IF lock[d] = k THEN NoCall ELSE lock[d],
           UNCHANGED <<act, stored, present, scopes, drain, mgr>>
    PROVE  IInv'
<1> DEFINE c == call[k].child
<1>1. Acts(act) /\ Rest /\ c \in Child /\ k # NoCall
    BY TypesAre, TreeAssumption DEF IInv, CallsAt, InFlight, TreeAssumption
<1>2. /\ call' \in [Call -> Calls]
      /\ call'[k].pc = l /\ call'[k].child = c /\ call'[k].hold = call[k].hold
      /\ call'[k].fresh = call[k].fresh /\ call'[k].stale = call[k].stale
      /\ \A j \in Call : j # k => call'[j] = call[j]
  <2>1. l \in Pcs
      BY DEF Pcs
  <2> QED BY <1>1, <2>1, PcIs DEF Rest, Others
<1>3. Rest' /\ TypeOK'
    BY <1>1, <1>2, TypesAre DEF Rest
<1>4. ~call[k].fresh
    BY DEF IInv, CallsAt
<1>5. CallsAt'
  <2>1. ASSUME NEW j \in Call
        PROVE  /\ call'[j].pc \in {"idle", "over"} => call'[j] = NotRunning(call'[j].pc)
               /\ InFlight(j)' => call'[j].child \in Child
               /\ call'[j].pc \in Inside => lock'[call'[j].child] = j
               /\ call'[j].pc \in {"lookup", "create"} => act'[call'[j].child].st = "none"
               /\ call'[j].fresh => call'[j].pc \in {"submit", "undo"}
               /\ call'[j].pc = "submit" => call'[j].fresh
    <3>1. CASE j = k
        BY <1>1, <1>2, <1>4, <3>1 DEF InFlight
    <3>2. CASE j # k
      <4>1. call'[j] = call[j]
          BY <1>2, <3>2
      <4>2. call[j].pc \in Inside =>
               call[j].child \in Child /\ lock[call[j].child] = j /\ j # NoCall
          BY TreeAssumption DEF IInv, CallsAt, InFlight, Inside, TreeAssumption
      <4>3. call[j].pc \in Inside => lock'[call[j].child] = j
          BY <3>2, <4>2
      <4> QED BY <4>1, <4>3 DEF IInv, CallsAt, InFlight
    <3> QED BY <3>1, <3>2
  <2>2. ASSUME NEW d \in Child, lock'[d] # NoCall
        PROVE  call'[lock'[d]].pc \in Inside /\ call'[lock'[d]].child = d
    <3>1. CASE l \in Inside /\ d = c
        BY <1>2, <3>1
    <3>2. CASE ~(l \in Inside /\ d = c)
      <4>1. lock'[d] = lock[d] /\ lock[d] # k /\ lock[d] \in Call
          BY <1>1, <2>2, <3>2 DEF Rest
      <4> QED BY <1>2, <2>2, <4>1 DEF IInv, CallsAt
    <3> QED BY <3>1, <3>2
  <2> QED BY <2>1, <2>2 DEF CallsAt
<1>6. EdgesAt'
  <2>1. \A j \in Call, d \in Child : Holds(j, d) => Holds(j, d)'
      BY <1>2 DEF Holds, InFlight
  <2> QED BY <2>1 DEF IInv, EdgesAt
<1>7. ResidentsAt'
  <2>1. ASSUME NEW d \in Child, lock[d] # NoCall, call[lock[d]].pc = "submit"
        PROVE  lock'[d] = lock[d] /\ call'[lock[d]] = call[lock[d]]
    <3>1. lock[d] \in Call /\ lock[d] # k
        BY <1>1, <2>1 DEF Rest
    <3> QED BY <1>2, <2>1, <3>1
  <2> QED BY <2>1 DEF IInv, ResidentsAt, Resident
<1>8. \A j \in Call, d \in Child : Undoing(j, d) => Undoing(j, d)'
    BY <1>2 DEF Undoing
<1>9. ClosingsAt'
    BY <1>8 DEF IInv, ClosingsAt
<1>10. \A j \in Call : j # k => (Tracked(j)' <=> Tracked(j))
    BY <1>2 DEF Tracked
<1>11. Tracked(k)' => Admitted(k)
    BY <1>2 DEF Tracked
<1>12. ManagerAt'
  <2>1. mgr.st \in {"dispose", "done"} => \A j \in Call : ~Tracked(j)'
      BY <1>10, <1>11 DEF IInv, ManagerAt, Admitted
  <2>2. \A d \in Child : WaitedFor(d)' <=> WaitedFor(d)
      BY DEF WaitedFor
  <2> QED BY <2>1, <2>2 DEF IInv, ManagerAt
<1>13. DrainsAt'
  <2>1. \A d \in Child, a \in Agent : Descends(d, a)' <=> Descends(d, a)
      BY DEF Descends
  <2>2. ASSUME NEW j \in Call, NEW a \in Agent, Under(j, a)', drain[a].st # "none"
        PROVE  Under(j, a)
    <3>1. CASE j = k
      <4>1. /\ Admitted(k) /\ a \in Lineage[Parent[call[k].child]]
            /\ a = Parent[call[k].child] => ~call[k].stale
          BY <1>2, <1>11, <2>2, <3>1 DEF Under
      <4>2. a \in scopes
          BY <2>2 DEF IInv, DrainsAt, DrainAt
      <4> QED BY <4>1, <4>2, AdmittedIs
    <3>2. CASE j # k
        BY <1>2, <1>10, <2>2, <3>2 DEF Under
    <3> QED BY <3>1, <3>2
  <2>3. \A d \in Child : WaitedFor(d)' <=> WaitedFor(d)
      BY DEF WaitedFor
  <2>4. \A d \in Child : WaitedFor(d) => Parent[d] \in Child
      BY DEF WaitedFor
  <2> QED BY <1>1, <1>8, <2>1, <2>2, <2>3, <2>4 DEF IInv, DrainsAt, DrainAt, Rest
<1> QED BY <1>3, <1>5, <1>6, <1>7, <1>9, <1>12, <1>13 DEF IInv

\* A fresh activation, resident or already rolled back.
LEMMA FreshIs ==
    ASSUME NEW b \in BOOLEAN, NEW s \in {"live", "closing"}, NEW w \in {"off", "look"}
    PROVE  LET x == [Absent EXCEPT !.st = s, !.watch = w, !.orphan = b] IN
           /\ x \in Activations
           /\ x.st = s /\ x.owned = {} /\ x.waits = {} /\ x.orphan = b /\ ~x.announced
BY DEF Absent, Activations

\* An installed activation: awaited by the drains that wait for its call, or
\* not below any.
LEMMA CreateKeeps ==
    ASSUME IInv, NEW k \in Call, call[k].pc = "create",
           NEW w \in {"undo", "submit"}, Rest', Others(k),
           /\ call'[k].pc = w /\ call'[k].child = call[k].child
           /\ call'[k].hold = call[k].hold /\ call'[k].stale = call[k].stale
           /\ call'[k].fresh <=> w = "submit",
           Acts(act'),
           /\ act'[call[k].child].st = IF w = "undo" THEN "closing" ELSE "live"
           /\ act'[call[k].child].owned = {} /\ ~act'[call[k].child].announced
           /\ act'[call[k].child].orphan = call[k].stale,
           \A d \in Child : d # call[k].child =>
             /\ act'[d].st = act[d].st /\ act'[d].waits = act[d].waits
             /\ act'[d].announced = act[d].announced /\ act'[d].orphan = act[d].orphan
             /\ act'[d].owned =
                  IF w = "submit" /\ d = Parent[call[k].child] /\ act[d].st # "none"
                  THEN act[d].owned \union {call[k].child} ELSE act[d].owned,
           w = "submit" =>
             /\ Admitted(k)
             /\ Managed(Parent[call[k].child]) => Resident(Parent[call[k].child]),
           UNCHANGED <<lock, present, scopes, drain, mgr>>
    PROVE  IInv'
<1> DEFINE c == call[k].child
           p == Parent[c]
<1>1. Acts(act) /\ Rest /\ c \in Child /\ act[c].st = "none" /\ lock[c] = k /\ k # NoCall
    BY TypesAre, TreeAssumption DEF IInv, CallsAt, InFlight, Inside, TreeAssumption
<1>2. TypeOK'
    BY TypesAre
<1>3. \A j \in Call : j # k => call'[j] = call[j]
    BY DEF Others
<1>16. \A d \in Child : d # c =>
          /\ act'[d].st = act[d].st /\ act'[d].waits = act[d].waits
          /\ act'[d].announced = act[d].announced /\ act'[d].orphan = act[d].orphan
    OBVIOUS
<1>17. \A d \in Child : d # c =>
          /\ act[d].owned \subseteq act'[d].owned
          /\ act'[d].owned \subseteq act[d].owned \union {c}
          /\ w = "undo" \/ d # p \/ act[d].st = "none" => act'[d].owned = act[d].owned
    OBVIOUS
<1>4. CallsAt'
  <2>1. ASSUME NEW j \in Call
        PROVE  /\ call'[j].pc \in {"idle", "over"} => call'[j] = NotRunning(call'[j].pc)
               /\ InFlight(j)' => call'[j].child \in Child
               /\ call'[j].pc \in Inside => lock'[call'[j].child] = j
               /\ call'[j].pc \in {"lookup", "create"} => act'[call'[j].child].st = "none"
               /\ call'[j].fresh => call'[j].pc \in {"submit", "undo"}
               /\ call'[j].pc = "submit" => call'[j].fresh
    <3>1. CASE j = k
        BY <1>1, <3>1
    <3>2. CASE j # k
      <4>1. call'[j] = call[j]
          BY <1>3, <3>2
      <4>2. call[j].pc \in Inside =>
               call[j].child \in Child /\ lock[call[j].child] = j /\ call[j].child # c
          BY <1>1, <3>2 DEF IInv, CallsAt, InFlight, Inside
      <4>3. call[j].pc \in {"lookup", "create"} => act'[call[j].child].st = "none"
          BY <1>16, <4>2 DEF IInv, CallsAt, Inside
      <4> QED BY <4>1, <4>3 DEF IInv, CallsAt, InFlight
    <3> QED BY <3>1, <3>2
  <2>2. ASSUME NEW d \in Child, lock'[d] # NoCall
        PROVE  call'[lock'[d]].pc \in Inside /\ call'[lock'[d]].child = d
    <3>1. CASE lock[d] = k
        BY <3>1, <2>2 DEF IInv, CallsAt, Inside
    <3>2. CASE lock[d] # k
      <4>1. lock[d] \in Call
          BY <1>1, <2>2 DEF Rest
      <4> QED BY <1>3, <2>2, <3>2, <4>1 DEF IInv, CallsAt
    <3> QED BY <3>1, <3>2
  <2> QED BY <2>1, <2>2 DEF CallsAt
<1>5. EdgesAt'
  <2> SUFFICES ASSUME NEW q \in Child, NEW d \in Child, d \in act'[q].owned
               PROVE  /\ Parent[d] = q
                      /\ act'[d].st # "none" \/ \E j \in Call : Holds(j, d)'
      BY DEF EdgesAt
  <2>1. q # c
      OBVIOUS
  <2>2. CASE d = c
      BY <2>1, <2>2 DEF IInv, EdgesAt
  <2>3. CASE d # c
    <3>1. d \in act[q].owned
        BY <1>17, <2>1, <2>3
    <3>2. \A j \in Call : Holds(j, d) => Holds(j, d)'
        BY <1>3 DEF Holds, InFlight
    <3> QED BY <1>16, <2>3, <3>1, <3>2 DEF IInv, EdgesAt
  <2> QED BY <2>2, <2>3
<1>6. ResidentsAt'
  <2> SUFFICES ASSUME NEW d \in Child, Resident(d)'
               PROVE  IF act'[d].announced
                      THEN Parent[d] \in Child =>
                              /\ Resident(Parent[d])' /\ d \in act'[Parent[d]].owned
                              /\ ~act'[d].orphan
                      ELSE /\ lock'[d] # NoCall /\ call'[lock'[d]].pc = "submit"
                           /\ act'[d].orphan => call'[lock'[d]].stale
      BY DEF ResidentsAt
  <2>1. CASE d = c
    <3>1. w = "submit"
        BY <2>1 DEF Resident
    <3> QED BY <1>1, <2>1, <3>1
  <2>2. CASE d # c /\ act[d].announced
    <3>1. Parent[d] \in Child =>
             Resident(Parent[d]) /\ d \in act[Parent[d]].owned /\ ~act[d].orphan
        BY <1>16, <2>2 DEF IInv, ResidentsAt, Resident
    <3>2. Parent[d] # c \/ Parent[d] \notin Child
        BY <1>1, <3>1 DEF Resident
    <3> QED BY <2>2, <3>1, <3>2 DEF Resident
  <2>3. CASE d # c /\ ~act[d].announced
    <3>1. /\ lock[d] # NoCall /\ call[lock[d]].pc = "submit"
          /\ act[d].orphan => call[lock[d]].stale
        BY <2>3 DEF IInv, ResidentsAt, Resident
    <3>2. lock[d] \in Call /\ lock[d] # k
        BY <1>1, <3>1 DEF Rest
    <3> QED BY <1>3, <2>3, <3>1, <3>2
  <2> QED BY <2>1, <2>2, <2>3
<1>7. \A j \in Call, d \in Child : Undoing(j, d) => Undoing(j, d)'
    BY <1>3 DEF Undoing
<1>8. ClosingsAt'
  <2> SUFFICES ASSUME NEW q \in Child, NEW d \in Child, act'[q].st = "closing",
                      d \in act'[q].owned, act'[d].st # "none"
               PROVE  /\ act'[d].st = "closing"
                      /\ d \in act'[q].waits \/ \E j \in Call : Undoing(j, d)'
      BY DEF ClosingsAt
  <2>1. q # c /\ act[q].st = "closing"
      OBVIOUS
  <2>2. d \in act[q].owned
      BY <2>1 DEF Managed, Resident
  <2>3. CASE d = c
    <3>1. q = p
        BY <2>2, <2>3 DEF IInv, EdgesAt
    <3>2. w = "undo"
        BY <2>1, <3>1 DEF Managed, Resident
    <3>3. Undoing(k, c)'
        BY <3>2 DEF Undoing
    <3> QED BY <2>3, <3>2, <3>3
  <2>4. CASE d # c
    <3>1. /\ act[d].st = "closing"
          /\ d \in act[q].waits \/ \E j \in Call : Undoing(j, d)
      <4>1. act[q].st = "closing" /\ act[d].st # "none"
          BY <1>16, <2>1, <2>4
      <4> QED BY <2>2, <4>1 DEF IInv, ClosingsAt
    <3> QED BY <1>7, <2>1, <2>4, <3>1
  <2> QED BY <2>3, <2>4
<1>9. ManagerAt'
  <2>1. mgr.st \notin {"dispose", "done"}
      BY DEF IInv, ManagerAt, Tracked
  <2> QED BY <2>1 DEF ManagerAt
<1>10. \A j \in Call, a \in Agent : Under(j, a)' => Under(j, a)
    BY <1>3 DEF Under, Tracked
<1>11. ASSUME NEW a \in Agent, Descends(c, a)'
       PROVE  Under(k, a)
  <2>1. a \in Lineage[c] /\ a # c /\ (a = p => ~call[k].stale)
      BY <1>11 DEF Descends
  <2>2. a \in Lineage[p]
      BY <1>1, <2>1, LineageIs
  <2> QED BY <2>1, <2>2 DEF Under, Tracked
<1>12. \A d \in Child, a \in Agent : d # c => (Descends(d, a)' <=> Descends(d, a))
    BY DEF Descends
<1>13. ASSUME NEW d \in Child, WaitedFor(d)
       PROVE  WaitedFor(d)' /\ Parent[d] \in Child /\ Parent[d] # c
    BY <1>1, <1>13 DEF WaitedFor
<1>14. ASSUME NEW a \in Agent, drain[a].st # "none", Under(k, a)
       PROVE  w = "undo" /\ k \in drain[a].calls
  <2>1. a \in scopes /\ k \in drain[a].calls
      BY <1>14 DEF IInv, DrainsAt, DrainAt
  <2>2. w # "submit"
      BY <1>14, <2>1, AdmittedIs DEF Under
  <2> QED BY <2>1, <2>2
<1>15. DrainsAt'
  <2> SUFFICES ASSUME NEW a \in Agent, drain[a].st # "none"
               PROVE  /\ a \in scopes /\ \A j \in Call : Under(j, a)' => j \in drain[a].calls
                      /\ drain[a].st = "waiting" =>
                           \A d \in Child : Descends(d, a)' /\ act'[d].st # "none" =>
                             /\ act'[d].st = "closing"
                             /\ \/ d \in drain[a].children
                                \/ WaitedFor(d)' /\ Descends(Parent[d], a)'
                                \/ \E j \in drain[a].calls : Undoing(j, d)'
                      /\ drain[a].st = "done" =>
                           /\ drain[a].calls = {}
                           /\ \A d \in Child : Descends(d, a)' => act'[d].st = "none"
      BY <1>1 DEF DrainsAt, DrainAt, Rest
  <2>1. a \in scopes /\ \A j \in Call : Under(j, a)' => j \in drain[a].calls
      BY <1>10 DEF IInv, DrainsAt, DrainAt
  <2>2. ASSUME drain[a].st = "waiting", NEW d \in Child, Descends(d, a)',
               act'[d].st # "none"
        PROVE  /\ act'[d].st = "closing"
               /\ \/ d \in drain[a].children
                  \/ WaitedFor(d)' /\ Descends(Parent[d], a)'
                  \/ \E j \in drain[a].calls : Undoing(j, d)'
    <3>1. CASE d = c
      <4>1. w = "undo" /\ k \in drain[a].calls
          BY <1>11, <1>14, <2>2, <3>1
      <4>2. Undoing(k, c)'
          BY <4>1 DEF Undoing
      <4> QED BY <3>1, <4>1, <4>2
    <3>2. CASE d # c
      <4>1. /\ act[d].st = "closing"
            /\ \/ d \in drain[a].children
               \/ WaitedFor(d) /\ Descends(Parent[d], a)
               \/ \E j \in drain[a].calls : Undoing(j, d)
          BY <1>12, <2>2, <3>2 DEF IInv, DrainsAt, DrainAt
      <4>2. drain[a].calls \subseteq Call
          BY <1>1 DEF Rest
      <4> QED BY <1>7, <1>12, <1>13, <3>2, <4>1, <4>2
    <3> QED BY <3>1, <3>2
  <2>3. ASSUME drain[a].st = "done"
        PROVE  drain[a].calls = {} /\ \A d \in Child : Descends(d, a)' => act'[d].st = "none"
    <3>1. drain[a].calls = {} /\ \A d \in Child : Descends(d, a) => act[d].st = "none"
        BY <2>3 DEF IInv, DrainsAt, DrainAt
    <3>2. ~Descends(c, a)'
        BY <1>11, <1>14, <2>3, <3>1
    <3> QED BY <1>12, <3>1, <3>2
  <2> QED BY <2>1, <2>2, <2>3
<1> QED BY <1>2, <1>4, <1>5, <1>6, <1>8, <1>9, <1>15 DEF IInv

-----------------------------------------------------------------------------
(* Disposals that open. *)

\* A call keeps its place, or is a submission that failed: it waits for the
\* disposal of the activation it installed.
Undone(j) ==
    /\ call[j].pc = "submit" /\ call'[j].pc = "undo" /\ call'[j].fresh
    /\ call'[j].child = call[j].child /\ call'[j].hold = call[j].hold
    /\ call'[j].stale = call[j].stale
    /\ act'[call[j].child].st # "live"

\* What opens is resident, and takes what it owns along: nothing that is owned
\* below a disposal stays resident, and no awaited disposal is opened again.
LEMMA SweepKeeps ==
    ASSUME IInv, Sweep(act'), Rest', lock' = lock,
           \A j \in Call : call'[j] = call[j] \/ Undone(j)
    PROVE  /\ TypeOK' /\ CallsAt' /\ EdgesAt' /\ ResidentsAt' /\ ClosingsAt'
           /\ mgr' = mgr => ManagerAt'
           /\ \A a \in Agent : drain'[a] = drain[a] /\ a \in scopes' => DrainAt(a)'
<1>1. Acts(act) /\ Rest /\ Acts(act') /\ TypeOK'
    BY TypesAre DEF IInv, Sweep
<1>2. \A c \in Child :
        /\ act'[c].owned = act[c].owned
        /\ act'[c].announced = act[c].announced /\ act'[c].orphan = act[c].orphan
        /\ act'[c].st = "none" <=> act[c].st = "none"
        /\ act'[c].st = "live" => act[c].st = "live"
        /\ act[c].st = "closing" => act'[c].st = "closing" /\ act'[c].waits = act[c].waits
    BY DEF Sweep
<1>3. \A c \in Child : act[c].st # "closing" /\ act'[c].st = "closing" =>
        /\ act'[c].waits = {d \in act[c].owned : act[d].st # "none"}
        /\ \A d \in act[c].owned : act'[d].st # "live"
    BY DEF Sweep
<1>4. CallsAt'
  <2>1. ASSUME NEW j \in Call
        PROVE  /\ call'[j].pc \in {"idle", "over"} => call'[j] = NotRunning(call'[j].pc)
               /\ InFlight(j)' => call'[j].child \in Child
               /\ call'[j].pc \in Inside => lock'[call'[j].child] = j
               /\ call'[j].pc \in {"lookup", "create"} => act'[call'[j].child].st = "none"
               /\ call'[j].fresh => call'[j].pc \in {"submit", "undo"}
               /\ call'[j].pc = "submit" => call'[j].fresh
    <3>1. CASE Undone(j)
        BY <3>1 DEF Undone, IInv, CallsAt, InFlight, Inside
    <3>2. CASE call'[j] = call[j]
      <4>1. call[j].pc \in {"lookup", "create"} => call[j].child \in Child
          BY DEF IInv, CallsAt, InFlight
      <4> QED BY <1>2, <3>2, <4>1 DEF IInv, CallsAt, InFlight
    <3> QED BY <3>1, <3>2
  <2>2. ASSUME NEW d \in Child, lock'[d] # NoCall
        PROVE  call'[lock'[d]].pc \in Inside /\ call'[lock'[d]].child = d
    <3>1. lock[d] \in Call
        BY <1>1, <2>2 DEF Rest
    <3> QED BY <2>2, <3>1 DEF IInv, CallsAt, Undone, Inside
  <2> QED BY <2>1, <2>2 DEF CallsAt
<1>5. EdgesAt'
  <2>1. \A j \in Call, d \in Child : Holds(j, d) => Holds(j, d)'
      BY DEF Holds, InFlight, Undone
  <2> QED BY <1>2, <2>1 DEF IInv, EdgesAt
<1>6. ResidentsAt'
  <2> SUFFICES ASSUME NEW d \in Child, Resident(d)'
               PROVE  IF act'[d].announced
                      THEN Parent[d] \in Child =>
                              /\ Resident(Parent[d])' /\ d \in act'[Parent[d]].owned
                              /\ ~act'[d].orphan
                      ELSE /\ lock'[d] # NoCall /\ call'[lock'[d]].pc = "submit"
                           /\ act'[d].orphan => call'[lock'[d]].stale
      BY DEF ResidentsAt
  <2>1. Resident(d) /\ act'[d].st = "live"
      BY <1>2 DEF Resident
  <2>2. CASE act[d].announced /\ Parent[d] \in Child
    <3>1. Resident(Parent[d]) /\ d \in act[Parent[d]].owned /\ ~act[d].orphan
        BY <2>1, <2>2 DEF IInv, ResidentsAt
    <3>2. act'[Parent[d]].st = "live"
      <4>1. act'[Parent[d]].st \in {"none", "live", "closing"}
          BY <1>1, <2>2, Shapes
      <4> QED BY <1>2, <1>3, <2>1, <2>2, <3>1, <4>1 DEF Resident
    <3> QED BY <1>2, <2>2, <3>1, <3>2 DEF Resident
  <2>3. CASE ~act[d].announced
    <3>1. /\ lock[d] # NoCall /\ call[lock[d]].pc = "submit"
          /\ act[d].orphan => call[lock[d]].stale
        BY <2>1, <2>3 DEF IInv, ResidentsAt
    <3>2. lock[d] \in Call /\ call[lock[d]].child = d
        BY <1>1, <3>1 DEF Rest, IInv, CallsAt
    <3>3. call'[lock[d]] = call[lock[d]]
        BY <2>1, <3>2 DEF Undone
    <3> QED BY <1>2, <2>3, <3>1, <3>3
  <2> QED BY <1>2, <2>2, <2>3
<1>7. \A j \in Call, d \in Child : Undoing(j, d)' <=> Undoing(j, d)
    BY DEF Undoing, Undone
<1>8. ClosingsAt'
  <2> SUFFICES ASSUME NEW q \in Child, NEW d \in Child, act'[q].st = "closing",
                      d \in act'[q].owned, act'[d].st # "none"
               PROVE  /\ act'[d].st = "closing"
                      /\ d \in act'[q].waits \/ \E j \in Call : Undoing(j, d)'
      BY DEF ClosingsAt
  <2>1. d \in act[q].owned /\ act[d].st # "none"
      BY <1>2
  <2>2. CASE act[q].st = "closing"
    <3>1. /\ act[d].st = "closing"
          /\ d \in act[q].waits \/ \E j \in Call : Undoing(j, d)
        BY <2>1, <2>2 DEF IInv, ClosingsAt
    <3> QED BY <1>2, <1>7, <2>2, <3>1
  <2>3. CASE act[q].st # "closing"
    <3>1. d \in act'[q].waits /\ act'[d].st # "live"
        BY <1>3, <2>1, <2>3
    <3>2. act'[d].st \in {"none", "live", "closing"}
        BY <1>1, Shapes
    <3> QED BY <3>1, <3>2
  <2> QED BY <2>2, <2>3
<1>9. \A j \in Call : Tracked(j)' <=> Tracked(j)
    BY DEF Tracked, Undone
<1>10. \A d \in Child : WaitedFor(d) => WaitedFor(d)' /\ Parent[d] \in Child
    BY <1>2 DEF WaitedFor
<1>11. mgr' = mgr => ManagerAt'
    BY <1>2, <1>9, <1>10 DEF IInv, ManagerAt
<1>12. ASSUME NEW a \in Agent, drain'[a] = drain[a], a \in scopes'
       PROVE  DrainAt(a)'
  <2>1. \A d \in Child : Descends(d, a)' <=> Descends(d, a)
      BY <1>2 DEF Descends
  <2>2. \A j \in Call : Under(j, a)' <=> Under(j, a)
      BY <1>9 DEF Under, Undone
  <2>3. drain[a].calls \subseteq Call
      BY <1>1 DEF Rest
  <2> QED BY <1>2, <1>7, <1>10, <1>12, <2>1, <2>2, <2>3 DEF IInv, DrainsAt, DrainAt
<1> QED BY <1>1, <1>4, <1>5, <1>6, <1>8, <1>11, <1>12

\* The same of the disposal of some children.
LEMMA DisposeKeeps ==
    ASSUME IInv, NEW S \in SUBSET Child, act' = Dispose(act, S), Rest', lock' = lock,
           \A j \in Call : call'[j] = call[j] \/ Undone(j)
    PROVE  /\ TypeOK' /\ CallsAt' /\ EdgesAt' /\ ResidentsAt' /\ ClosingsAt'
           /\ mgr' = mgr => ManagerAt'
           /\ \A a \in Agent : drain'[a] = drain[a] /\ a \in scopes' => DrainAt(a)'
<1>1. Sweep(act')
    BY DisposeIs, TypesAre DEF IInv
<1> QED BY <1>1, SweepKeeps

\* A settled child, or some children of one parent.
LEMMA SettledKeeps ==
    ASSUME IInv, NEW S \in SUBSET Child, act' = Dispose(act, S),
           UNCHANGED <<stored, lock, call, present, scopes, drain, mgr>>
    PROVE  IInv'
<1>1. Rest'
    BY TypesAre DEF IInv, Rest
<1>2. /\ TypeOK' /\ CallsAt' /\ EdgesAt' /\ ResidentsAt' /\ ClosingsAt' /\ ManagerAt'
      /\ \A a \in Agent : a \in scopes => DrainAt(a)'
    BY <1>1, DisposeKeeps
<1>3. ASSUME NEW a \in Agent, a \notin scopes PROVE DrainAt(a)'
    BY <1>1, <1>3 DEF IInv, DrainsAt, DrainAt, Rest
<1> QED BY <1>2, <1>3 DEF IInv, DrainsAt

\* A submission of a created child fails.
LEMMA UndoneKeeps ==
    ASSUME IInv, NEW k \in Call, call[k].pc = "submit", Pc(k, "undo"),
           act' = Dispose(act, {call[k].child}),
           UNCHANGED <<stored, lock, present, scopes, drain, mgr>>
    PROVE  IInv'
<1> DEFINE c == call[k].child
<1>1. Acts(act) /\ Rest /\ c \in Child /\ call[k].fresh
    BY TypesAre DEF IInv, CallsAt, InFlight
<1>2. /\ call' \in [Call -> Calls] /\ Others(k)
      /\ call'[k].pc = "undo" /\ call'[k].child = c /\ call'[k].hold = call[k].hold
      /\ call'[k].fresh = call[k].fresh /\ call'[k].stale = call[k].stale
    BY <1>1, PcIs DEF Rest, Pcs
<1>3. Rest'
    BY <1>1, <1>2 DEF Rest
<1>4. act'[c].st # "live"
    BY <1>1, DisposeIs
<1>5. \A j \in Call : call'[j] = call[j] \/ Undone(j)
    BY <1>1, <1>2, <1>4 DEF Others, Undone
<1>6. /\ TypeOK' /\ CallsAt' /\ EdgesAt' /\ ResidentsAt' /\ ClosingsAt' /\ ManagerAt'
      /\ \A a \in Agent : a \in scopes => DrainAt(a)'
    BY <1>1, <1>3, <1>5, DisposeKeeps
<1>7. ASSUME NEW a \in Agent, a \notin scopes PROVE DrainAt(a)'
    BY <1>3, <1>7 DEF IInv, DrainsAt, DrainAt, Rest
<1> QED BY <1>6, <1>7 DEF IInv, DrainsAt

\* A drain below a: what is below it closes, and is awaited by the drain, by
\* the parent's disposal, or through the call that rolls it back.
LEMMA DrainDescendantsKeeps ==
    ASSUME IInv, NEW a \in Agent, DrainDescendants(a)
    PROVE  IInv'
<1> DEFINE targets == {c \in Child : Descends(c, a) /\ act[c].st # "none"}
           ownedOnes == UNION {act[c].owned : c \in targets}
           calls == {k \in Call : Under(k, a)}
<1>1. Acts(act) /\ Rest
    BY TypesAre DEF IInv
<1>2. /\ drain[a].st = "none"
      /\ scopes' = scopes \union {a}
      /\ act' = Dispose(act, targets)
      /\ drain' = [drain EXCEPT ![a] = [st |-> "waiting", calls |-> calls,
                                        children |-> targets \ ownedOnes]]
      /\ UNCHANGED <<stored, lock, call, present, mgr>>
    BY DEF DrainDescendants, Under
<1>3. /\ drain'[a].st = "waiting" /\ drain'[a].calls = calls
      /\ drain'[a].children = targets \ ownedOnes
      /\ \A b \in Agent : b # a => drain'[b] = drain[b]
    BY <1>1, <1>2 DEF Rest
<1>4. Rest'
    BY <1>1, <1>2 DEF Rest
<1>5. Sweep(act') /\ \A c \in targets : act'[c].st # "live"
    BY <1>1, <1>2, DisposeIs
<1>6. /\ TypeOK' /\ CallsAt' /\ EdgesAt' /\ ResidentsAt' /\ ClosingsAt' /\ ManagerAt'
      /\ \A b \in Agent : b # a /\ b \in scopes' => DrainAt(b)'
    BY <1>2, <1>3, <1>4, <1>5, SweepKeeps
<1>7. ASSUME NEW b \in Agent, b # a, b \notin scopes' PROVE DrainAt(b)'
    BY <1>1, <1>2, <1>3, <1>7 DEF IInv, DrainsAt, DrainAt, Rest
<1>8. \A c \in Child :
        /\ act'[c].owned = act[c].owned /\ act'[c].orphan = act[c].orphan
        /\ act'[c].st = "none" <=> act[c].st = "none"
    BY <1>5 DEF Sweep
<1>9. \A c \in Child, b \in Agent : Descends(c, b)' <=> Descends(c, b)
    BY <1>8 DEF Descends
<1>10. \A k \in Call : Under(k, a)' <=> Under(k, a)
    BY <1>2 DEF Under, Tracked
<1>11. \A c \in targets : act'[c].st = "closing"
  <2>1. \A c \in targets : act'[c].st \in {"none", "live", "closing"}
      BY <1>5, Shapes DEF Sweep
  <2> QED BY <1>5, <1>8, <2>1
<1>12. ASSUME NEW c \in Child, Descends(c, a), act[c].st # "none", c \in ownedOnes
       PROVE  \/ WaitedFor(c)' /\ Descends(Parent[c], a)'
              \/ \E k \in calls : Undoing(k, c)'
  <2>1. PICK p \in targets : c \in act[p].owned
      BY <1>12
  <2>2. Parent[c] = p
      BY <2>1 DEF IInv, EdgesAt
  <2>3. c \in act'[p].waits \/ \E k \in Call : Undoing(k, c)'
      BY <1>6, <1>8, <1>11, <1>12, <2>1 DEF ClosingsAt
  <2>4. CASE c \in act'[p].waits
      BY <1>9, <1>11, <2>1, <2>2, <2>4 DEF WaitedFor
  <2>5. CASE \E k \in Call : Undoing(k, c)'
    <3>1. PICK k \in Call : Undoing(k, c)'
        BY <2>5
    <3>2. Tracked(k) /\ call[k].child = c
        BY <1>2, <3>1 DEF Undoing, Tracked
    <3>3. a \in Lineage[p] /\ a # p
        BY <2>1 DEF Descends
    <3>4. Under(k, a)
        BY <2>2, <3>2, <3>3 DEF Under
    <3> QED BY <3>1, <3>4
  <2> QED BY <2>3, <2>4, <2>5
<1>13. DrainAt(a)'
  <2>1. ASSUME NEW c \in Child, Descends(c, a)', act'[c].st # "none"
        PROVE  /\ act'[c].st = "closing"
               /\ \/ c \in drain'[a].children
                  \/ WaitedFor(c)' /\ Descends(Parent[c], a)'
                  \/ \E k \in drain'[a].calls : Undoing(k, c)'
    <3>1. Descends(c, a) /\ act[c].st # "none" /\ c \in targets
        BY <1>8, <1>9, <2>1
    <3>2. CASE c \in ownedOnes
        BY <1>3, <1>11, <1>12, <3>1, <3>2
    <3>3. CASE c \notin ownedOnes
        BY <1>3, <1>11, <3>1, <3>3
    <3> QED BY <3>2, <3>3
  <2>2. a \in scopes' /\ \A k \in Call : Under(k, a)' => k \in drain'[a].calls
      BY <1>2, <1>3, <1>10
  <2> QED BY <1>3, <2>1, <2>2 DEF DrainAt
<1> QED BY <1>6, <1>7, <1>13 DEF IInv, DrainsAt

\* The manager's drain: the roots of the forest take everything along, because
\* a resident child without a resident parent is a root.
LEMMA DrainForestKeeps ==
    ASSUME IInv, DrainForest
    PROVE  IInv'
<1> DEFINE ownedOnes == UNION {act[c].owned : c \in Child}
           roots == {c \in Child \ ownedOnes : act[c].st # "none"}
<1>1. Acts(act) /\ Rest
    BY TypesAre DEF IInv
<1>2. /\ mgr.st = "mats" /\ \A k \in Call : ~Tracked(k)
      /\ mgr' = [st |-> "dispose", children |-> roots]
      /\ act' = Dispose(act, roots)
      /\ UNCHANGED <<stored, lock, call, present, scopes, drain>>
    BY DEF DrainForest
<1>3. Rest' /\ mgr'.st = "dispose" /\ mgr'.children = roots
    BY <1>1, <1>2 DEF Rest
<1>4. Sweep(act') /\ \A c \in roots : act'[c].st # "live"
    BY <1>1, <1>2, DisposeIs
<1>5. /\ TypeOK' /\ CallsAt' /\ EdgesAt' /\ ResidentsAt' /\ ClosingsAt'
      /\ \A a \in Agent : a \in scopes => DrainAt(a)'
    BY <1>2, <1>3, <1>4, SweepKeeps
<1>6. ASSUME NEW a \in Agent, a \notin scopes PROVE DrainAt(a)'
    BY <1>1, <1>2, <1>6 DEF IInv, DrainsAt, DrainAt, Rest
<1>7. \A c \in Child :
        /\ act'[c].owned = act[c].owned
        /\ act'[c].st = "none" <=> act[c].st = "none"
        /\ act'[c].st \in {"none", "live", "closing"}
        /\ act[c].st = "none" => act[c].owned = {}
    BY <1>1, <1>4, Shapes DEF Sweep
<1>8. ASSUME NEW c \in Child, act[c].st # "none", c \notin roots
      PROVE  /\ Parent[c] \in Child /\ act'[Parent[c]].st # "none"
             /\ c \in act'[Parent[c]].owned
  <2>1. PICK p \in Child : c \in act[p].owned
      BY <1>8
  <2>2. Parent[c] = p
      BY <2>1 DEF IInv, EdgesAt
  <2> QED BY <1>7, <2>1, <2>2
<1>9. \A c \in Child : act'[c].st # "live"
  <2> DEFINE L == {c \in Child : act'[c].st = "live"}
  <2> SUFFICES ASSUME L # {} PROVE FALSE
      OBVIOUS
  <2>1. PICK c \in L : Parent[c] \notin L
      BY TreeAssumption DEF TreeAssumption
  <2>2. act[c].st # "none" /\ c \notin roots
      BY <1>4, <1>7
  <2>3. act'[Parent[c]].st = "closing" /\ c \in act'[Parent[c]].owned /\ Parent[c] \in Child
      BY <1>7, <1>8, <2>1, <2>2
  <2>4. act'[c].st = "closing"
      BY <1>5, <2>3 DEF ClosingsAt
  <2> QED BY <2>4
<1>10. ASSUME NEW c \in Child, act'[c].st # "none"
       PROVE  act'[c].st = "closing" /\ (c \in mgr'.children \/ WaitedFor(c)')
  <2>1. act'[c].st = "closing"
      BY <1>7, <1>9, <1>10
  <2>2. ASSUME c \notin roots PROVE WaitedFor(c)'
    <3>1. Parent[c] \in Child /\ act'[Parent[c]].st = "closing" /\ c \in act'[Parent[c]].owned
        BY <1>7, <1>8, <1>9, <1>10, <2>2
    <3>2. c \in act'[Parent[c]].waits \/ \E k \in Call : Undoing(k, c)'
        BY <1>5, <1>10, <3>1 DEF ClosingsAt
    <3>3. \A k \in Call : ~Undoing(k, c)'
        BY <1>2 DEF Undoing, Tracked
    <3> QED BY <3>1, <3>2, <3>3 DEF WaitedFor
  <2> QED BY <1>3, <2>1, <2>2
<1>11. \A k \in Call : ~Tracked(k)'
    BY <1>2 DEF Tracked
<1>12. ManagerAt'
    BY <1>3, <1>10, <1>11 DEF ManagerAt
<1> QED BY <1>5, <1>6, <1>12 DEF IInv, DrainsAt

-----------------------------------------------------------------------------
(* Releases, and drains that return. *)

\* A call learns that its parent is gone.
Stales(a) ==
    call' = [k \in Call |->
               IF call[k].child \in Child /\ Parent[call[k].child] = a
               THEN [call[k] EXCEPT !.stale = TRUE] ELSE call[k]]

LEMMA StalesIs ==
    ASSUME Rest, NEW a \in Agent, Stales(a)
    PROVE  /\ call' \in [Call -> Calls]
           /\ \A k \in Call :
                /\ call'[k].pc = call[k].pc /\ call'[k].child = call[k].child
                /\ call'[k].hold = call[k].hold /\ call'[k].fresh = call[k].fresh
                /\ call[k].stale => call'[k].stale
                /\ IF call[k].child \in Child /\ Parent[call[k].child] = a
                   THEN call'[k].stale ELSE call'[k] = call[k]
<1>1. ASSUME NEW k \in Call
      PROVE  /\ call'[k] \in Calls
             /\ call'[k].pc = call[k].pc /\ call'[k].child = call[k].child
             /\ call'[k].hold = call[k].hold /\ call'[k].fresh = call[k].fresh
             /\ call[k].stale => call'[k].stale
             /\ IF call[k].child \in Child /\ Parent[call[k].child] = a
                THEN call'[k].stale ELSE call'[k] = call[k]
  <2>1. call[k] \in Calls
      BY DEF Rest
  <2>2. CASE call[k].child \in Child /\ Parent[call[k].child] = a
    <3>1. call'[k] = [call[k] EXCEPT !.stale = TRUE]
        BY <2>2 DEF Stales
    <3> QED BY <2>1, <2>2, <3>1 DEF Calls
  <2>3. CASE ~(call[k].child \in Child /\ Parent[call[k].child] = a)
    <3>1. call'[k] = call[k]
        BY <2>3 DEF Stales
    <3> QED BY <2>1, <2>3, <3>1
  <2> QED BY <2>2, <2>3
<1>2. call' = [k \in Call |-> call'[k]]
    BY DEF Stales
<1>3. call' \in [Call -> Calls]
    BY <1>1, <1>2
<1> QED BY <1>1, <1>3

\* An edge of a parent that stays is held as before.
LEMMA StalesKeeps ==
    ASSUME IInv, NEW a \in Agent, Stales(a), Rest', lock' = lock,
           \A c \in Child : act[c].st = "none" => act'[c].st = "none"
    PROVE  /\ CallsAt'
           /\ \A k \in Call, c \in Child : Holds(k, c) /\ Parent[c] # a => Holds(k, c)'
           /\ \A k \in Call, c \in Child : Undoing(k, c)' <=> Undoing(k, c)
           /\ \A k \in Call : Tracked(k)' <=> Tracked(k)
           /\ \A k \in Call, b \in Agent : Under(k, b)' => Under(k, b)
<1>1. Rest
    BY TypesAre DEF IInv
<1>2. \A k \in Call :
        /\ call'[k].pc = call[k].pc /\ call'[k].child = call[k].child
        /\ call'[k].hold = call[k].hold /\ call'[k].fresh = call[k].fresh
        /\ call[k].stale => call'[k].stale
        /\ ~(call[k].child \in Child /\ Parent[call[k].child] = a) => call'[k] = call[k]
    BY <1>1, StalesIs
<1>3. CallsAt'
  <2>1. ASSUME NEW j \in Call
        PROVE  /\ call'[j].pc \in {"idle", "over"} => call'[j] = NotRunning(call'[j].pc)
               /\ InFlight(j)' => call'[j].child \in Child
               /\ call'[j].pc \in Inside => lock'[call'[j].child] = j
               /\ call'[j].pc \in {"lookup", "create"} => act'[call'[j].child].st = "none"
               /\ call'[j].fresh => call'[j].pc \in {"submit", "undo"}
               /\ call'[j].pc = "submit" => call'[j].fresh
    <3>1. call[j].pc \in {"idle", "over"} => call'[j] = call[j]
      <4>1. call[j].pc \in {"idle", "over"} => call[j].child = Root
          BY NotRunningIs DEF IInv, CallsAt
      <4> QED BY <1>2, <4>1, TreeAssumption DEF TreeAssumption
    <3>2. call[j].pc \in {"lookup", "create"} => act'[call[j].child].st = "none"
        BY DEF IInv, CallsAt, InFlight
    <3> QED BY <1>2, <3>1, <3>2 DEF IInv, CallsAt, InFlight
  <2>2. ASSUME NEW d \in Child, lock'[d] # NoCall
        PROVE  call'[lock'[d]].pc \in Inside /\ call'[lock'[d]].child = d
    <3>1. lock[d] \in Call
        BY <1>1, <2>2 DEF Rest
    <3> QED BY <1>2, <2>2, <3>1 DEF IInv, CallsAt
  <2> QED BY <2>1, <2>2 DEF CallsAt
<1>4. \A k \in Call, c \in Child : Holds(k, c) /\ Parent[c] # a => Holds(k, c)'
    BY <1>2 DEF Holds, InFlight
<1>5. \A k \in Call, c \in Child : Undoing(k, c)' <=> Undoing(k, c)
    BY <1>2 DEF Undoing
<1>6. \A k \in Call : Tracked(k)' <=> Tracked(k)
    BY <1>2 DEF Tracked
<1>7. \A k \in Call, b \in Agent : Under(k, b)' => Under(k, b)
    BY <1>2, <1>6 DEF Under
<1> QED BY <1>3, <1>4, <1>5, <1>6, <1>7

\* A released agent owned no child that is left: the residents below it lost it
\* as a parent before, and what closes below it was waited for.
LEMMA ReleaseKeeps ==
    ASSUME IInv, NEW c \in Child, Release(c)
    PROVE  IInv'
<1>1. Acts(act) /\ Rest
    BY TypesAre DEF IInv
<1>2. /\ act[c].st = "closing" /\ act[c].waits = {}
      /\ Acts(act') /\ act'[c] = Absent
      /\ \A d \in Child : d # c =>
           /\ act'[d].st = act[d].st /\ act'[d].announced = act[d].announced
           /\ act'[d].owned = act[d].owned \ {c}
           /\ act'[d].waits = act[d].waits \ {c}
           /\ act'[d].orphan = (act[d].orphan \/ (Parent[d] = c /\ act[d].st # "none"))
    BY <1>1, ReleaseIs
<1>3. act'[c].st = "none" /\ act'[c].owned = {}
    BY <1>2 DEF Absent
<1>4. \A d \in Child : d # c =>
        /\ act'[d].st = act[d].st /\ act'[d].announced = act[d].announced
        /\ act'[d].owned = act[d].owned \ {c}
        /\ act'[d].waits = act[d].waits \ {c}
    BY <1>2
<1>5. \A d \in Child : d # c /\ Parent[d] # c => act'[d].orphan = act[d].orphan
    BY <1>1, <1>2, Shapes
<1>6. /\ Stales(c) /\ scopes' = scopes \ {c} /\ drain' = [drain EXCEPT ![c].st = "none"]
      /\ UNCHANGED <<stored, lock, present, mgr>>
    BY DEF Release, Stales
<1>7. c \in Agent /\ drain'[c].st = "none"
      /\ \A a \in Agent : a # c => drain'[a] = drain[a]
    BY <1>1, <1>6 DEF Rest, Agent
<1>8. Rest' /\ TypeOK'
  <2>1. call' \in [Call -> Calls]
      BY <1>1, <1>6, <1>7, StalesIs
  <2>2. drain' \in [Agent -> [st: {"none", "waiting", "done"},
                              calls: SUBSET Call, children: SUBSET Child]]
      BY <1>1, <1>6 DEF Rest
  <2>3. Rest'
      BY <1>1, <1>6, <2>1, <2>2 DEF Rest
  <2> QED BY <1>2, <2>3, TypesAre
<1>9. /\ CallsAt'
      /\ \A k \in Call, d \in Child : Holds(k, d) /\ Parent[d] # c => Holds(k, d)'
      /\ \A k \in Call, d \in Child : Undoing(k, d)' <=> Undoing(k, d)
      /\ \A k \in Call : Tracked(k)' <=> Tracked(k)
      /\ \A k \in Call, b \in Agent : Under(k, b)' => Under(k, b)
  <2>1. \A d \in Child : act[d].st = "none" => act'[d].st = "none"
      BY <1>3, <1>4
  <2> QED BY <1>6, <1>7, <1>8, <2>1, StalesKeeps
<1>10. EdgesAt'
  <2> SUFFICES ASSUME NEW p \in Child, NEW d \in Child, d \in act'[p].owned
               PROVE  /\ Parent[d] = p
                      /\ act'[d].st # "none" \/ \E j \in Call : Holds(j, d)'
      BY DEF EdgesAt
  <2>1. p # c /\ d # c /\ d \in act[p].owned
      BY <1>3, <1>4
  <2>2. Parent[d] = p /\ (act[d].st # "none" \/ \E j \in Call : Holds(j, d))
      BY <2>1 DEF IInv, EdgesAt
  <2> QED BY <1>4, <1>9, <2>1, <2>2
<1>11. ResidentsAt'
  <2> SUFFICES ASSUME NEW d \in Child, Resident(d)'
               PROVE  IF act'[d].announced
                      THEN Parent[d] \in Child =>
                              /\ Resident(Parent[d])' /\ d \in act'[Parent[d]].owned
                              /\ ~act'[d].orphan
                      ELSE /\ lock'[d] # NoCall /\ call'[lock'[d]].pc = "submit"
                           /\ act'[d].orphan => call'[lock'[d]].stale
      BY DEF ResidentsAt
  <2>1. d # c /\ Resident(d)
      BY <1>3, <1>4 DEF Resident
  <2>2. CASE act[d].announced
    <3>1. act'[d].announced
        BY <1>4, <2>1, <2>2
    <3>2. ASSUME Parent[d] \in Child
          PROVE  Resident(Parent[d])' /\ d \in act'[Parent[d]].owned /\ ~act'[d].orphan
      <4>1. Resident(Parent[d]) /\ d \in act[Parent[d]].owned /\ ~act[d].orphan
          BY <2>1, <2>2, <3>2 DEF IInv, ResidentsAt
      <4>2. Parent[d] # c
          BY <1>2, <4>1 DEF Resident
      <4>3. act'[d].orphan = act[d].orphan
          BY <1>5, <2>1, <4>2
      <4> QED BY <1>4, <2>1, <3>2, <4>1, <4>2, <4>3 DEF Resident
    <3> QED BY <3>1, <3>2
  <2>3. CASE ~act[d].announced
    <3>1. /\ lock[d] # NoCall /\ call[lock[d]].pc = "submit"
          /\ act[d].orphan => call[lock[d]].stale
        BY <2>1, <2>3 DEF IInv, ResidentsAt
    <3>2. lock[d] \in Call /\ call[lock[d]].child = d
        BY <1>1, <3>1 DEF Rest, IInv, CallsAt
    <3>3. /\ call'[lock[d]].pc = "submit"
          /\ call[lock[d]].stale => call'[lock[d]].stale
          /\ Parent[d] = c => call'[lock[d]].stale
        BY <1>1, <1>6, <1>7, <3>1, <3>2, StalesIs
    <3>4. act'[d].orphan => act[d].orphan \/ Parent[d] = c
        BY <1>5, <2>1
    <3>5. ~act'[d].announced
        BY <1>4, <2>1, <2>3
    <3> QED BY <1>6, <3>1, <3>3, <3>4, <3>5
  <2> QED BY <2>2, <2>3
<1>12. ClosingsAt'
  <2> SUFFICES ASSUME NEW p \in Child, NEW d \in Child, act'[p].st = "closing",
                      d \in act'[p].owned, act'[d].st # "none"
               PROVE  /\ act'[d].st = "closing"
                      /\ d \in act'[p].waits \/ \E j \in Call : Undoing(j, d)'
      BY DEF ClosingsAt
  <2>1. p # c /\ d # c /\ act[p].st = "closing" /\ d \in act[p].owned /\ act[d].st # "none"
      BY <1>3, <1>4
  <2>2. /\ act[d].st = "closing"
        /\ d \in act[p].waits \/ \E j \in Call : Undoing(j, d)
      BY <2>1 DEF IInv, ClosingsAt
  <2> QED BY <1>4, <1>9, <2>1, <2>2
<1>13. ASSUME NEW d \in Child, d # c, WaitedFor(d)
       PROVE  WaitedFor(d)' /\ Parent[d] \in Child /\ Parent[d] # c
    BY <1>2, <1>4, <1>13 DEF WaitedFor
<1>14. ManagerAt'
    BY <1>3, <1>4, <1>6, <1>9, <1>13 DEF IInv, ManagerAt
<1>15. ASSUME NEW d \in Child, d # c, NEW a \in Agent, a # c
       PROVE  Descends(d, a)' <=> Descends(d, a)
    BY <1>5, <1>15 DEF Descends
<1>16. ASSUME NEW a \in Agent PROVE DrainAt(a)'
  <2>1. CASE a = c
      BY <1>7, <2>1 DEF DrainAt
  <2>2. CASE a # c
    <3>1. drain'[a] = drain[a] /\ (a \in scopes' <=> a \in scopes)
        BY <1>6, <1>7, <2>2
    <3>2. DrainAt(a) /\ drain[a].calls \subseteq Call
        BY <1>1 DEF IInv, DrainsAt, Rest
    <3>3. \A k \in Call : Under(k, a)' => Under(k, a)
        BY <1>9
    <3>4. ASSUME NEW d \in Child, Descends(d, a)', act'[d].st # "none"
          PROVE  d # c /\ Descends(d, a) /\ act[d].st # "none" /\ act'[d].st = act[d].st
        BY <1>3, <1>4, <1>15, <2>2, <3>4
    <3>5. ASSUME NEW d \in Child, d # c, WaitedFor(d), Descends(Parent[d], a)
          PROVE  WaitedFor(d)' /\ Descends(Parent[d], a)'
        BY <1>13, <1>15, <2>2, <3>5
    <3> QED BY <1>9, <3>1, <3>2, <3>3, <3>4, <3>5 DEF DrainAt
  <2> QED BY <2>1, <2>2
<1> QED BY <1>8, <1>9, <1>10, <1>11, <1>12, <1>14, <1>16 DEF IInv, DrainsAt

\* A drain that returns leaves nothing below: a highest activation there would
\* be awaited by the drain, by a disposal above it, or by a tracked call.
LEMMA DrainReturnsKeeps ==
    ASSUME IInv, NEW a \in Agent, DrainReturns(a)
    PROVE  IInv'
<1>1. Acts(act) /\ Rest
    BY TypesAre DEF IInv
<1>2. /\ drain[a].st = "waiting"
      /\ \A k \in drain[a].calls : ~Tracked(k)
      /\ \A c \in drain[a].children : act[c].st = "none"
      /\ drain' = [drain EXCEPT ![a] = [st |-> "done", calls |-> {}, children |-> {}]]
      /\ UNCHANGED <<act, stored, lock, call, present, scopes, mgr>>
    BY DEF DrainReturns
<1>3. /\ drain'[a] = [st |-> "done", calls |-> {}, children |-> {}]
      /\ \A b \in Agent : b # a => drain'[b] = drain[b]
    BY <1>1, <1>2 DEF Rest
<1>4. Rest' /\ TypeOK'
  <2>1. Rest'
      BY <1>1, <1>2 DEF Rest
  <2> QED BY <1>1, <1>2, <2>1, TypesAre
<1>5. CallsAt' /\ EdgesAt' /\ ResidentsAt' /\ ClosingsAt' /\ ManagerAt'
  <2>1. CallsAt' /\ ResidentsAt'
      BY <1>2 DEF IInv, CallsAt, InFlight, ResidentsAt, Resident
  <2>2. EdgesAt' /\ ClosingsAt'
      BY <1>2 DEF IInv, EdgesAt, Holds, InFlight, ClosingsAt, Undoing
  <2>3. ManagerAt'
      BY <1>2 DEF IInv, ManagerAt, WaitedFor, Tracked
  <2> QED BY <2>1, <2>2, <2>3
<1>6. /\ \A d \in Child, b \in Agent : Descends(d, b)' <=> Descends(d, b)
      /\ \A d \in Child : WaitedFor(d)' <=> WaitedFor(d)
      /\ \A k \in Call, b \in Agent : Under(k, b)' <=> Under(k, b)
    BY <1>2 DEF Descends, WaitedFor, Under, Tracked
<1>7. a \in scopes /\ \A k \in Call : ~Under(k, a)
    BY <1>2 DEF IInv, DrainsAt, DrainAt, Under
<1>8. \A c \in Child : Descends(c, a) => act[c].st = "none"
  <2> DEFINE S == {c \in Child : Descends(c, a) /\ act[c].st # "none"}
  <2> SUFFICES ASSUME S # {} PROVE FALSE
      OBVIOUS
  <2>1. PICK c \in S : Parent[c] \notin S
      BY TreeAssumption DEF TreeAssumption
  <2>2. \/ c \in drain[a].children
        \/ WaitedFor(c) /\ Descends(Parent[c], a)
        \/ \E k \in drain[a].calls : Undoing(k, c)
      BY <1>2 DEF IInv, DrainsAt, DrainAt
  <2>3. ~(WaitedFor(c) /\ Descends(Parent[c], a))
      BY <2>1 DEF WaitedFor
  <2> QED BY <1>2, <2>2, <2>3 DEF Undoing, Tracked
<1>9. ASSUME NEW b \in Agent PROVE DrainAt(b)'
  <2>1. CASE b = a
      BY <1>2, <1>3, <1>6, <1>7, <1>8, <2>1 DEF DrainAt
  <2>2. CASE b # a
    <3>1. DrainAt(b) /\ drain'[b] = drain[b]
        BY <1>3, <2>2 DEF IInv, DrainsAt
    <3>2. \A d \in Child : WaitedFor(d) => Parent[d] \in Child
        BY DEF WaitedFor
    <3>3. \A k \in Call, d \in Child : Undoing(k, d)' <=> Undoing(k, d)
        BY <1>2 DEF Undoing
    <3>4. drain[b].calls \subseteq Call
        BY <1>1 DEF Rest
    <3> QED BY <1>2, <1>6, <3>1, <3>2, <3>3, <3>4 DEF DrainAt
  <2> QED BY <2>1, <2>2
<1> QED BY <1>4, <1>5, <1>9 DEF IInv, DrainsAt

\* The manager's drain before its materializations, and at its end.
LEMMA ManagerKeeps ==
    ASSUME IInv, DrainManager \/ ManagerDrained
    PROVE  IInv'
<1>1. Acts(act) /\ Rest
    BY TypesAre DEF IInv
<1>2. UNCHANGED <<act, stored, lock, call, present, scopes, drain>>
    BY DEF DrainManager, ManagerDrained
<1>3. Rest' /\ TypeOK'
  <2>1. mgr' \in [st: {"open", "mats", "dispose", "done"}, children: SUBSET Child]
      BY <1>1 DEF DrainManager, ManagerDrained, Rest
  <2>2. Rest'
      BY <1>1, <1>2, <2>1 DEF Rest
  <2> QED BY <1>1, <1>2, <2>2, TypesAre
<1>4. CallsAt' /\ EdgesAt' /\ ResidentsAt' /\ ClosingsAt'
  <2>1. CallsAt' /\ ResidentsAt'
      BY <1>2 DEF IInv, CallsAt, InFlight, ResidentsAt, Resident
  <2>2. EdgesAt' /\ ClosingsAt'
      BY <1>2 DEF IInv, EdgesAt, Holds, InFlight, ClosingsAt, Undoing
  <2> QED BY <2>1, <2>2
<1>5. DrainsAt'
  <2>1. /\ \A d \in Child, b \in Agent : Descends(d, b)' <=> Descends(d, b)
        /\ \A d \in Child : WaitedFor(d)' <=> WaitedFor(d)
        /\ \A k \in Call, b \in Agent : Under(k, b)' <=> Under(k, b)
      BY <1>2 DEF Descends, WaitedFor, Under, Tracked
  <2>2. \A d \in Child : WaitedFor(d) => Parent[d] \in Child
      BY DEF WaitedFor
  <2>3. \A k \in Call, d \in Child : Undoing(k, d)' <=> Undoing(k, d)
      BY <1>2 DEF Undoing
  <2> QED BY <1>1, <1>2, <2>1, <2>2, <2>3 DEF IInv, DrainsAt, DrainAt, Rest
<1>6. CASE DrainManager
  <2>1. mgr'.st = "mats"
      BY <1>1, <1>6 DEF DrainManager, Rest
  <2> QED BY <1>3, <1>4, <1>5, <2>1 DEF IInv, ManagerAt
<1>7. CASE ManagerDrained
  <2>1. /\ mgr.st = "dispose" /\ mgr'.st = "done"
        /\ \A c \in mgr.children : act[c].st = "none"
      BY <1>7 DEF ManagerDrained
  <2>2. \A c \in Child : act[c].st = "none"
    <3> DEFINE S == {c \in Child : act[c].st # "none"}
    <3> SUFFICES ASSUME S # {} PROVE FALSE
        OBVIOUS
    <3>1. PICK c \in S : Parent[c] \notin S
        BY TreeAssumption DEF TreeAssumption
    <3>2. c \in mgr.children \/ WaitedFor(c)
        BY <2>1 DEF IInv, ManagerAt
    <3> QED BY <2>1, <3>1, <3>2 DEF WaitedFor
  <2>3. \A k \in Call : ~Tracked(k)'
      BY <1>2, <2>1 DEF IInv, ManagerAt, Tracked
  <2>4. ManagerAt'
      BY <1>2, <2>1, <2>2, <2>3 DEF ManagerAt
  <2> QED BY <1>3, <1>4, <1>5, <2>4 DEF IInv
<1> QED BY <1>6, <1>7

\* The root leaves with its scope; it is nobody's edge.
LEMMA RootLeavesKeeps ==
    ASSUME IInv, RootLeaves
    PROVE  IInv'
<1>1. Acts(act) /\ Rest /\ Root \in Agent /\ Root \notin Child
    BY TypesAre, TreeAssumption DEF IInv, Agent, TreeAssumption
<1>2. /\ Stales(Root) /\ scopes' = scopes \ {Root} /\ present' = FALSE
      /\ drain' = [drain EXCEPT ![Root].st = "none"]
      /\ UNCHANGED <<act, stored, lock, mgr>>
    BY DEF RootLeaves, Stales
<1>3. drain'[Root].st = "none" /\ \A a \in Agent : a # Root => drain'[a] = drain[a]
    BY <1>1, <1>2 DEF Rest
<1>4. Rest' /\ TypeOK'
  <2>1. call' \in [Call -> Calls]
      BY <1>1, <1>2, StalesIs
  <2>2. drain' \in [Agent -> [st: {"none", "waiting", "done"},
                              calls: SUBSET Call, children: SUBSET Child]]
      BY <1>1, <1>2 DEF Rest
  <2>3. Rest'
      BY <1>1, <1>2, <2>1, <2>2 DEF Rest
  <2> QED BY <1>1, <1>2, <2>3, TypesAre
<1>5. /\ CallsAt'
      /\ \A k \in Call, d \in Child : Holds(k, d) /\ Parent[d] # Root => Holds(k, d)'
      /\ \A k \in Call, d \in Child : Undoing(k, d)' <=> Undoing(k, d)
      /\ \A k \in Call : Tracked(k)' <=> Tracked(k)
      /\ \A k \in Call, b \in Agent : Under(k, b)' => Under(k, b)
    BY <1>1, <1>2, <1>4, StalesKeeps
<1>6. EdgesAt'
    BY <1>1, <1>2, <1>5 DEF IInv, EdgesAt
<1>7. ResidentsAt'
  <2>1. \A d \in Child : lock[d] # NoCall => lock[d] \in Call
      BY <1>1 DEF Rest
  <2>2. \A k \in Call : call'[k].pc = call[k].pc /\ (call[k].stale => call'[k].stale)
      BY <1>1, <1>2, StalesIs
  <2> QED BY <1>2, <2>1, <2>2 DEF IInv, ResidentsAt, Resident
<1>8. ClosingsAt'
    BY <1>2, <1>5 DEF IInv, ClosingsAt
<1>9. \A d \in Child : WaitedFor(d)' <=> WaitedFor(d)
    BY <1>2 DEF WaitedFor
<1>10. ManagerAt'
    BY <1>2, <1>5, <1>9 DEF IInv, ManagerAt
<1>11. ASSUME NEW a \in Agent PROVE DrainAt(a)'
  <2>1. CASE a = Root
      BY <1>3, <2>1 DEF DrainAt
  <2>2. CASE a # Root
    <3>1. drain'[a] = drain[a] /\ (a \in scopes' <=> a \in scopes)
        BY <1>2, <1>3, <2>2
    <3>2. DrainAt(a) /\ drain[a].calls \subseteq Call
        BY <1>1 DEF IInv, DrainsAt, Rest
    <3>3. \A d \in Child : Descends(d, a)' <=> Descends(d, a)
        BY <1>2 DEF Descends
    <3>4. \A d \in Child : WaitedFor(d) => Parent[d] \in Child
        BY DEF WaitedFor
    <3>5. \A k \in Call : Under(k, a)' => Under(k, a)
        BY <1>5
    <3>6. \A d \in Child : Descends(Parent[d], a)' <=> Descends(Parent[d], a)
        BY <1>2 DEF Descends
    <3> QED BY <1>2, <1>5, <1>9, <3>1, <3>2, <3>3, <3>4, <3>5, <3>6 DEF DrainAt
  <2> QED BY <2>1, <2>2
<1> QED BY <1>4, <1>5, <1>6, <1>7, <1>8, <1>10, <1>11 DEF IInv, DrainsAt

-----------------------------------------------------------------------------
(* Every step, and the theorems. *)

\* The locks a call has are that of its child, inside the critical section.
LEMMA LockedIs ==
    ASSUME IInv, NEW k \in Call, NEW d \in Child, lock[d] = k
    PROVE  call[k].pc \in Inside /\ call[k].child = d
BY TreeAssumption DEF IInv, CallsAt, TreeAssumption

LEMMA CallKeeps ==
    ASSUME IInv, NEW k \in Call, CallStep(k)
    PROVE  IInv'
<1> DEFINE c == call[k].child
<1>1. Acts(act) /\ Rest
    BY TypesAre DEF IInv
<1>2. stored \subseteq Child
    BY <1>1 DEF Rest
<1>3. \A d \in Child : lock[d] = k => call[k].pc \in Inside /\ d = c
    BY LockedIs
<1>4. call[k].pc \in Inside => c \in Child /\ lock[c] = k
    BY DEF IInv, CallsAt, InFlight, Inside
<1>5. lock = [d \in Child |-> lock[d]] /\ lock \in [Child -> Call \union {NoCall}]
    BY <1>1 DEF Rest
<1>6. CASE PrepareSettles(k)
  <2>1. /\ call[k].pc = "prepare"
        /\ UNCHANGED <<stored, present, scopes, drain, mgr>>
        /\ Fail(act, k) \/ (Pc(k, "lock") /\ UNCHANGED <<act, lock>>)
      BY <1>6 DEF PrepareSettles
  <2>2. CASE Fail(act, k)
      BY <1>2, <2>1, <2>2, FailKeeps DEF InFlight
  <2>3. CASE Pc(k, "lock") /\ UNCHANGED <<act, lock>>
    <3>1. \A d \in Child : lock[d] # k
        BY <1>3, <2>1 DEF Inside
    <3> QED BY <1>5, <2>1, <2>3, <3>1, MoveKeeps DEF Inside
  <2> QED BY <2>1, <2>2, <2>3
<1>7. CASE Enter(k)
  <2>1. /\ call[k].pc = "lock" /\ lock[c] = NoCall
        /\ UNCHANGED <<stored, present, scopes, drain, mgr>>
      BY <1>7 DEF Enter
  <2>2. CASE Fail(act, k)
      BY <1>2, <2>1, <2>2, FailKeeps DEF InFlight
  <2>3. CASE Submit(k)
      BY <2>1, <2>3, SubmitKeeps DEF InFlight
  <2>4. CASE /\ lock' = [lock EXCEPT ![c] = k] /\ UNCHANGED act
             /\ IF act[c].st = "none" THEN Pc(k, "lookup")
                ELSE Pc(k, IF Resident(c) THEN "image" ELSE "wait")
    <3>1. \A d \in Child : lock[d] # k
        BY <1>3, <2>1 DEF Inside
    <3>2. /\ lock' \in [Child -> Call \union {NoCall}]
          /\ \A d \in Child : lock'[d] = IF d = c THEN k ELSE lock[d]
        BY <1>5, <2>4
    <3>3. ASSUME NEW l \in {"lookup", "image", "wait"}, Pc(k, l),
                 l = "lookup" => act[c].st = "none"
          PROVE  IInv'
        BY <2>1, <2>4, <3>1, <3>2, <3>3, MoveKeeps DEF Inside
    <3> QED BY <2>4, <3>3
  <2> QED BY <1>7, <2>2, <2>3, <2>4 DEF Enter
<1>8. CASE Retry(k)
  <2>1. /\ call[k].pc = "wait" /\ UNCHANGED <<stored, present, scopes, drain, mgr>>
        /\ Fail(act, k) \/ (Unlock(k) /\ Pc(k, "lock") /\ UNCHANGED act)
      BY <1>8 DEF Retry
  <2>2. CASE Fail(act, k)
      BY <1>2, <2>1, <2>2, FailKeeps DEF InFlight
  <2>3. CASE Unlock(k) /\ Pc(k, "lock") /\ UNCHANGED act
    <3>1. /\ lock' \in [Child -> Call \union {NoCall}]
          /\ \A d \in Child : lock'[d] = IF lock[d] = k THEN NoCall ELSE lock[d]
        BY <1>5, <2>3, UnlockIs
    <3> QED BY <2>1, <2>3, <3>1, MoveKeeps DEF Inside
  <2> QED BY <2>1, <2>2, <2>3
<1>9. CASE LookupSettles(k)
  <2>1. /\ call[k].pc = "lookup" /\ UNCHANGED <<stored, present, scopes, drain, mgr>>
        /\ Fail(act, k) \/ (Admitted(k) /\ Pc(k, "create") /\ UNCHANGED <<act, lock>>)
      BY <1>9 DEF LookupSettles
  <2>2. CASE Fail(act, k)
      BY <1>2, <2>1, <2>2, FailKeeps DEF InFlight
  <2>3. CASE Admitted(k) /\ Pc(k, "create") /\ UNCHANGED <<act, lock>>
    <3>1. lock[c] = k /\ act[c].st = "none" /\ \A d \in Child : d # c => lock[d] # k
        BY <1>3, <1>4, <2>1 DEF Inside, IInv, CallsAt
    <3> QED BY <1>5, <2>1, <2>3, <3>1, MoveKeeps DEF Inside
  <2> QED BY <2>1, <2>2, <2>3
<1>10. CASE CreateSettles(k)
  <2>1. call[k].pc = "create" /\ UNCHANGED <<present, scopes, drain, mgr>>
      BY <1>10 DEF CreateSettles
  <2>2. CASE Fail(act, k) /\ UNCHANGED stored
      BY <1>2, <2>1, <2>2, FailKeeps DEF InFlight
  <2>3. CASE ~(Fail(act, k) /\ UNCHANGED stored)
    <3> DEFINE p == Parent[c]
               b == call[k].stale
               live == [Absent EXCEPT !.st = "live", !.watch = "look", !.orphan = b]
               dead == [Absent EXCEPT !.st = "closing", !.watch = "off", !.orphan = b]
    <3>1. c \in Child /\ b \in BOOLEAN /\ ~call[k].fresh
        BY <1>1, <2>1 DEF IInv, CallsAt, InFlight, Rest, Calls
    <3>2. stored' = stored \union {c} /\ UNCHANGED lock
        BY <1>10, <2>3 DEF CreateSettles
    <3>3. [[Absent EXCEPT !.st = "live", !.watch = "look", !.orphan = b]
             EXCEPT !.st = "closing", !.watch = "off"] = dead
        BY DEF Absent
    <3>4. \/ act' = [act EXCEPT ![c] = dead] /\ Pc(k, "undo")
          \/ /\ Admitted(k) /\ (Managed(p) => Resident(p))
             /\ act' = AcquireOwnership([act EXCEPT ![c] = live], p, c)
             /\ call' = [call EXCEPT ![k].pc = "submit", ![k].fresh = TRUE]
        BY <1>10, <2>3, <3>3 DEF CreateSettles
    <3>5. /\ dead \in Activations /\ dead.st = "closing" /\ dead.owned = {}
          /\ dead.orphan = b /\ ~dead.announced
          /\ live \in Activations /\ live.st = "live" /\ live.owned = {}
          /\ live.orphan = b /\ ~live.announced
        BY <3>1, FreshIs
    <3> HIDE DEF live, dead
    <3>6. ASSUME NEW x \in Activations, x.st # "none"
          PROVE  /\ Acts([act EXCEPT ![c] = x]) /\ [act EXCEPT ![c] = x][c] = x
                 /\ \A d \in Child : d # c => [act EXCEPT ![c] = x][d] = act[d]
        BY <1>1, <3>1, <3>6 DEF Acts
    <3>7. CASE act' = [act EXCEPT ![c] = dead] /\ Pc(k, "undo")
      <4>1. /\ call' \in [Call -> Calls] /\ Others(k)
            /\ call'[k].pc = "undo" /\ call'[k].child = c
            /\ call'[k].hold = call[k].hold /\ call'[k].stale = b /\ ~call'[k].fresh
          BY <1>1, <3>1, <3>7, PcIs DEF Rest, Pcs
      <4>2. Rest'
          BY <1>1, <2>1, <3>1, <3>2, <4>1 DEF Rest
      <4>3. /\ Acts(act') /\ act'[c] = dead
            /\ \A d \in Child : d # c => act'[d] = act[d]
          BY <3>5, <3>6, <3>7
      <4> QED BY <2>1, <3>2, <3>5, <4>1, <4>2, <4>3, CreateKeeps
    <3>8. CASE /\ Admitted(k) /\ (Managed(p) => Resident(p))
               /\ act' = AcquireOwnership([act EXCEPT ![c] = live], p, c)
               /\ call' = [call EXCEPT ![k].pc = "submit", ![k].fresh = TRUE]
      <4> DEFINE A == [act EXCEPT ![c] = live]
      <4>1. Acts(A) /\ A[c] = live /\ \A d \in Child : d # c => A[d] = act[d]
          BY <3>5, <3>6
      <4>2. act' = AcquireOwnership(A, p, c)
          BY <3>8
      <4> HIDE DEF A
      <4>3. /\ Acts(act') /\ Outline(A, act')
            /\ \A d \in Child :
                 act'[d].owned = IF d = p /\ A[p].st # "none" THEN A[d].owned \union {c}
                                 ELSE A[d].owned
          BY <3>1, <4>1, <4>2, AcquireIs
      <4>4. p # c
          BY <3>1, ParentIs
      <4>5. \A d \in Child :
              /\ act'[d].st = A[d].st /\ act'[d].waits = A[d].waits
              /\ act'[d].announced = A[d].announced /\ act'[d].orphan = A[d].orphan
          BY <4>3 DEF Outline
      <4>6. /\ act'[c].st = "live" /\ act'[c].owned = {} /\ ~act'[c].announced
            /\ act'[c].orphan = b
          BY <3>1, <3>5, <4>1, <4>3, <4>4, <4>5
      <4>7. ASSUME NEW d \in Child, d # c
            PROVE  /\ act'[d].st = act[d].st /\ act'[d].waits = act[d].waits
                   /\ act'[d].announced = act[d].announced
                   /\ act'[d].orphan = act[d].orphan
                   /\ act'[d].owned = IF d = p /\ act[d].st # "none"
                                      THEN act[d].owned \union {c} ELSE act[d].owned
        <5>1. A[d] = act[d]
            BY <4>1, <4>7
        <5> QED BY <4>3, <4>5, <5>1
      <4>8. /\ call' \in [Call -> Calls] /\ Others(k)
            /\ call'[k].pc = "submit" /\ call'[k].child = c
            /\ call'[k].hold = call[k].hold /\ call'[k].stale = b /\ call'[k].fresh
        <5>1. call[k] \in Calls /\ call = [j \in Call |-> call[j]] /\ TRUE \in BOOLEAN
            BY <1>1 DEF Rest
        <5>2. ASSUME NEW x \in Calls
              PROVE  LET y == [[x EXCEPT !.pc = "submit"] EXCEPT !.fresh = TRUE] IN
                     /\ y \in Calls /\ y.pc = "submit" /\ y.child = x.child
                     /\ y.hold = x.hold /\ y.stale = x.stale /\ y.fresh
            BY DEF Calls, Pcs
        <5>3. /\ call'[k] = [[call[k] EXCEPT !.pc = "submit"] EXCEPT !.fresh = TRUE]
              /\ Others(k) /\ call' = [j \in Call |-> call'[j]]
            BY <3>8, <5>1 DEF Others
        <5>4. /\ call'[k] \in Calls /\ call'[k].pc = "submit" /\ call'[k].child = c
              /\ call'[k].hold = call[k].hold /\ call'[k].stale = b /\ call'[k].fresh
            BY <5>1, <5>2, <5>3
        <5>5. call' \in [Call -> Calls]
            BY <1>1, <5>3, <5>4 DEF Rest, Others
        <5> QED BY <5>3, <5>4, <5>5
      <4>9. Rest'
          BY <1>1, <2>1, <3>1, <3>2, <4>8 DEF Rest
      <4> QED BY <2>1, <3>2, <3>8, <4>3, <4>6, <4>7, <4>8, <4>9, CreateKeeps
    <3> QED BY <3>4, <3>7, <3>8
  <2> QED BY <2>2, <2>3
<1>11. CASE UndoSettles(k)
    BY <1>2, <1>11, FailKeeps DEF UndoSettles, InFlight
<1>12. CASE SubmitMaterialized(k)
  <2>1. call[k].pc = "submit" /\ UNCHANGED <<stored, present, scopes, drain, mgr>>
      BY <1>12 DEF SubmitMaterialized
  <2>2. CASE Submit(k)
      BY <1>4, <2>1, <2>2, SubmitKeeps DEF Inside, InFlight
  <2>3. CASE ~Submit(k)
      BY <1>12, <2>1, <2>3, UndoneKeeps DEF SubmitMaterialized
  <2> QED BY <2>2, <2>3
<1>13. CASE ImageSettles(k)
  <2>1. /\ call[k].pc = "image" /\ UNCHANGED <<stored, present, scopes, drain, mgr>>
        /\ Fail(act, k) \/ Submit(k) \/ (Pc(k, "wait") /\ UNCHANGED <<act, lock>>)
      BY <1>13 DEF ImageSettles
  <2>2. lock[c] = k
      BY <1>4, <2>1 DEF Inside
  <2>3. CASE Fail(act, k)
      BY <1>2, <2>1, <2>3, FailKeeps DEF InFlight
  <2>4. CASE Submit(k)
      BY <2>1, <2>2, <2>4, SubmitKeeps DEF InFlight
  <2>5. CASE Pc(k, "wait") /\ UNCHANGED <<act, lock>>
    <3>1. \A d \in Child : d # c => lock[d] # k
        BY <1>3
    <3> QED BY <1>5, <2>1, <2>2, <2>5, <3>1, MoveKeeps DEF Inside
  <2> QED BY <2>1, <2>3, <2>4, <2>5
<1> QED BY <1>6, <1>7, <1>8, <1>9, <1>10, <1>11, <1>12, <1>13 DEF CallStep

LEMMA InitHolds == Init => IInv
<1> SUFFICES ASSUME Init PROVE IInv
    OBVIOUS
<1>1. PICK R \in SUBSET stored :
        /\ \A c \in R : Parent[c] \in R \union {Root}
        /\ act = [c \in Child |->
                   IF c \notin R THEN Absent
                   ELSE [Absent EXCEPT !.st = "live", !.announced = TRUE,
                           !.owned = {d \in R : Parent[d] = c},
                           !.status = "running", !.watch = "idle"]]
    BY DEF Init
<1>2. /\ stored \subseteq Child
      /\ lock = [c \in Child |-> NoCall]
      /\ call = [k \in Call |-> NotRunning("idle")]
      /\ present = TRUE /\ scopes = {}
      /\ drain = [a \in Agent |-> [st |-> "none", calls |-> {}, children |-> {}]]
      /\ mgr = [st |-> "open", children |-> {}]
    BY DEF Init
<1>3. ASSUME NEW c \in Child
      PROVE  /\ act[c] \in Activations
             /\ c \notin R => act[c] = Absent
             /\ c \in R => /\ act[c].st = "live" /\ act[c].announced /\ ~act[c].orphan
                           /\ act[c].owned = {d \in R : Parent[d] = c}
  <2> DEFINE o == {d \in R : Parent[d] = c}
             x == [Absent EXCEPT !.st = "live", !.announced = TRUE, !.owned = o,
                                 !.status = "running", !.watch = "idle"]
  <2>1. act[c] = IF c \notin R THEN Absent ELSE x
      BY <1>1
  <2>2. o \in SUBSET Child
      BY <1>2
  <2> HIDE DEF o
  <2>3. x \in Activations /\ x.st = "live" /\ x.announced /\ ~x.orphan /\ x.owned = o
      BY <2>2 DEF Absent, Activations
  <2> HIDE DEF x
  <2>4. /\ act[c] \in Activations
        /\ c \notin R => act[c] = Absent
        /\ c \in R => /\ act[c].st = "live" /\ act[c].announced /\ ~act[c].orphan
                      /\ act[c].owned = o
      BY <2>1, <2>3, AbsentIs
  <2> QED BY <2>4 DEF o
<1>4. \A c \in Child : c \notin R => act[c].st = "none" /\ act[c].owned = {}
    BY <1>3 DEF Absent
<1>5. Acts(act)
  <2>1. act = [c \in Child |-> act[c]]
      BY <1>1
  <2>2. act \in [Child -> Activations]
      BY <1>3, <2>1
  <2>3. \A c \in Child : act[c].st = "none" => act[c] = Absent
      BY <1>3
  <2> QED BY <2>2, <2>3 DEF Acts
<1>6. Rest
  <2>1. call \in [Call -> Calls]
      BY <1>2, NotRunningIs
  <2>2. /\ drain \in [Agent -> [st: {"none", "waiting", "done"},
                                calls: SUBSET Call, children: SUBSET Child]]
        /\ mgr \in [st: {"open", "mats", "dispose", "done"}, children: SUBSET Child]
      BY <1>2
  <2> QED BY <1>2, <2>1, <2>2 DEF Rest
<1>7. \A k \in Call : call[k] = NotRunning("idle") /\ call[k].pc = "idle" /\ ~call[k].fresh
    BY <1>2, NotRunningIs
<1>8. CallsAt
    BY <1>2, <1>7 DEF CallsAt, InFlight, Inside
<1>9. EdgesAt
    BY <1>2, <1>3, <1>4 DEF EdgesAt
<1>10. ResidentsAt
  <2> SUFFICES ASSUME NEW c \in Child, Resident(c)
               PROVE  /\ act[c].announced
                      /\ Parent[c] \in Child =>
                           /\ Resident(Parent[c]) /\ c \in act[Parent[c]].owned
                           /\ ~act[c].orphan
      BY DEF ResidentsAt
  <2>1. c \in R
      BY <1>4 DEF Resident
  <2>2. Parent[c] \in Child => Parent[c] \in R
      BY <1>1, <2>1, TreeAssumption DEF TreeAssumption
  <2> QED BY <1>3, <2>1, <2>2 DEF Resident
<1>11. ClosingsAt
  <2>1. \A c \in Child : act[c].st # "closing"
      BY <1>3, <1>4
  <2> QED BY <2>1 DEF ClosingsAt
<1>12. ManagerAt
    BY <1>2 DEF ManagerAt
<1>13. DrainsAt
    BY <1>2 DEF DrainsAt, DrainAt
<1> QED BY <1>5, <1>6, <1>8, <1>9, <1>10, <1>11, <1>12, <1>13, TypesAre DEF IInv

LEMMA NextKeeps == IInv /\ [Next]_vars => IInv'
<1> SUFFICES ASSUME IInv, [Next]_vars PROVE IInv'
    OBVIOUS
<1>1. ASSUME NEW k \in Call, CallStep(k) PROVE IInv'
    BY <1>1, CallKeeps
<1>2. ASSUME NEW c \in Child, ChildStep(c) PROVE IInv'
  <2>1. CASE Release(c)
      BY <2>1, ReleaseKeeps
  <2>2. CASE Watch(c) /\ SettledState(c)
      BY <2>2, SettledKeeps DEF Watch
  <2> QED BY <1>2, <2>1, <2>2, AgentKeeps DEF ChildStep
<1>3. CASE Teardown
    BY <1>3, DrainReturnsKeeps, DrainForestKeeps, ManagerKeeps DEF Teardown
<1>4. CASE Request
  <2>1. ASSUME NEW k \in Call, NEW kind \in {"start", "deliver"}, NEW c \in Child,
               Begin(k, kind, c)
        PROVE  IInv'
      BY <2>1, BeginKeeps
  <2>2. ASSUME NEW c \in Child, TurnFails(c) \/ Interrupt(c) \/ SendToParent(c)
        PROVE  IInv'
      BY <2>2, AgentKeeps
  <2>3. ASSUME NEW p \in Agent, DrainChildren(p, {c \in Child : Parent[c] = p})
        PROVE  IInv'
      BY <2>3, SettledKeeps DEF DrainChildren
  <2>4. ASSUME NEW a \in Agent, DrainDescendants(a) PROVE IInv'
      BY <2>4, DrainDescendantsKeeps
  <2>5. CASE DrainManager \/ RootLeaves
      BY <2>5, ManagerKeeps, RootLeavesKeeps
  <2> QED BY <1>4, <2>1, <2>2, <2>3, <2>4, <2>5 DEF Request
<1>5. CASE UNCHANGED vars
  <2>1. Core(act, act') /\ act' = act
      BY <1>5 DEF vars, Core
  <2>2. Acts(act')
      BY <2>1, TypesAre DEF IInv
  <2> QED BY <1>5, <2>1, <2>2, QuietKeeps DEF vars
<1> QED BY <1>1, <1>2, <1>3, <1>4, <1>5 DEF Next

\* The inductive invariant holds in every run, for every tree of children, every
\* set of calls and every bound on a parent's inbox.
THEOREM AlwaysIInv == Spec => []IInv
BY InitHolds, NextKeeps, PTL DEF Spec

\* Every variable has its type, and without an activation there is no driver and
\* no owned child.
THEOREM TypeCorrect == Spec => []TypeOK
<1>1. IInv => TypeOK
    BY DEF IInv
<1> QED BY <1>1, AlwaysIInv, PTL

\* An announced resident child is owned by its resident parent, and an owned set
\* never keeps what neither has an activation nor is being established: whatever
\* calls fail, drains open and settlements race (acquireOwnership,
\* holdOwnership's releaser, releaseOwnership).
THEOREM OwnershipAlwaysExact == Spec => []OwnershipIsExact
<1>1. ASSUME IInv PROVE OwnershipIsExact
  <2>1. AcceptedIsOwned
      BY <1>1 DEF IInv, ResidentsAt, AcceptedIsOwned
  <2>2. HeldByWork
      BY <1>1 DEF IInv, EdgesAt, Holds, HeldByWork
  <2> QED BY <2>1, <2>2 DEF OwnershipIsExact
<1> QED BY <1>1, AlwaysIInv, PTL

\* When drain() or drainDescendants() has returned no activation is left below,
\* and none comes: the tracked materializations are waited for, and the closed
\* scope refuses the others.
THEOREM DrainAlwaysFinal == Spec => []DrainIsFinal
<1>1. ASSUME IInv PROVE DrainIsFinal
    BY <1>1 DEF IInv, ManagerAt, DrainsAt, DrainAt, DrainIsFinal
<1> QED BY <1>1, AlwaysIInv, PTL
=============================================================================
