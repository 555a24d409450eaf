----------------------------- MODULE Subagents -----------------------------
(***************************************************************************)
(* Continuable children (packages/subagent/subagent/src/continuation.ts):  *)
(* who keeps a child resident, when it is released, and who is told.       *)
(*                                                                         *)
(* act[c] is the Activation of the durable child c with the agent it owns: *)
(* its driver (status, latch), the accepted messages it has not claimed    *)
(* (pend, the manager's `accepted` set) and the settlement watcher.  A     *)
(* call is one startContinuable or one delivery of its parent; pc is the   *)
(* await it is at.  The caller's signal may end a call wherever the code   *)
(* looks at it, so an abort is a choice of those steps.  The root is an    *)
(* agent outside the manager.                                              *)
(***************************************************************************)
EXTENDS Naturals

CONSTANTS Child,     \* durable children
          Root,      \* the agent at the top
          Parent,    \* the durable direct parent of a child
          Call,      \* operations of parents; each runs once
          NoCall,    \* nobody holds the child lock
          MaxInbox   \* children stop writing to a parent with so many messages

ASSUME TreeAssumption ==
    /\ Root \notin Child /\ NoCall \notin Call
    /\ Parent \in [Child -> Child \union {Root}]
    \* the parents of every child end at the root
    /\ \A S \in SUBSET Child : S # {} => \E c \in S : Parent[c] \notin S
    /\ MaxInbox \in Nat

VARIABLES
    act,       \* activations and their agents
    stored,    \* children whose session is persisted
    lock,      \* ChildLock: the call inside the critical section of a child
    call,      \* the calls
    present,   \* the root is in the agent registry
    scopes,    \* closingScopes: roots whose descendants drain
    drain,     \* drainDescendants of each agent: state and what it awaits
    mgr        \* drain() of the manager: state and the roots it awaits

vars == <<act, stored, lock, call, present, scopes, drain, mgr>>

Agent == Child \union {Root}

-----------------------------------------------------------------------------
Absent == [st |-> "none", owned |-> {}, announced |-> FALSE,
           orphan |-> FALSE, waits |-> {}, status |-> "idle", latch |-> FALSE,
           pend |-> 0, watch |-> "off"]

\* A call that is not begun, or over.
NotRunning(l) == [pc |-> l, kind |-> "none", child |-> Root,
                  hold |-> FALSE, fresh |-> FALSE, stale |-> FALSE]

\* Some stored children are in a turn that earlier calls started; their
\* parents are resident and own them.
Init ==
    /\ stored \in {S \in SUBSET Child : \A c \in S : Parent[c] \in S \union {Root}}
    /\ \E R \in {S \in SUBSET stored : \A c \in S : Parent[c] \in S \union {Root}} :
         act = [c \in Child |->
                  IF c \notin R THEN Absent
                  ELSE [Absent EXCEPT !.st = "live", !.announced = TRUE,
                          !.owned = {d \in R : Parent[d] = c},
                          !.status = "running", !.watch = "idle"]]
    /\ lock = [c \in Child |-> NoCall]
    /\ call = [k \in Call |-> NotRunning("idle")]
    /\ present = TRUE
    /\ scopes = {}
    /\ drain = [a \in Agent |-> [st |-> "none", calls |-> {}, children |-> {}]]
    /\ mgr = [st |-> "open", children |-> {}]

Resident(c) == act[c].st = "live"

Registered(a) == IF a = Root THEN present ELSE act[a].st # "none"

Managed(a) == a \in Child /\ act[a].st # "none"

\* liveLineage: an agent and its ancestors, the least set with the agent and
\* the parent of each child in it.
Upward(L) == \A c \in L \intersect Child : Parent[c] \in L

Lineage ==
    [a \in Agent |->
        {b \in Agent : \A L \in SUBSET Agent : a \in L /\ Upward(L) => b \in L}]

\* ancestry holds the exact agents of the time of materialization: a parent
\* that left and came back is not among them.
Descends(c, a) ==
    a \in Lineage[c] \ {c} /\ (a = Parent[c] => ~act[c].orphan)

\* closingTeardownFor: a drain of the manager or of an agent above.
Closing(a) == mgr.st # "open" \/ scopes \intersect Lineage[a] # {}

\* assertAdmitting(parent) of a call.  A parent that left the registry is not
\* the agent a later scope of the same id closes.
Admitted(k) ==
    LET p == Parent[call[k].child]
    IN /\ mgr.st = "open"
       /\ scopes \intersect (IF call[k].stale THEN Lineage[p] \ {p} ELSE Lineage[p]) = {}

\* stateOf: settled, the agent is quiet and every owned child is disposed.
SettledState(c) ==
    /\ act[c].status = "idle" /\ act[c].pend = 0
    /\ act[c].owned = {}

-----------------------------------------------------------------------------
(* Changes of activations; each takes and returns the function act.        *)

\* wake(): the settlement watcher looks again.
Wake(A, a) ==
    IF a \in Child /\ A[a].watch # "off"
    THEN [A EXCEPT ![a].watch = "look"] ELSE A

\* A waking send (steer, followup) accounted by admitWaking.  An idle agent
\* starts a driver; an aborted one latches the wake.
SendWaking(A, a) ==
    IF a \notin Child THEN A
    ELSE Wake([A EXCEPT ![a].pend = @ + 1,
                        ![a].latch = @ \/ A[a].status = "aborted",
                        ![a].status = IF @ = "idle" THEN "running" ELSE @], a)

AcquireOwnership(A, a, c) ==
    IF a \in Child /\ A[a].st # "none"
    THEN [A EXCEPT ![a].owned = @ \union {c}] ELSE A

(* Mutant: the owner is not told. *)
ReleaseSilently(A, c) == [a \in Child |-> [A[a] EXCEPT !.owned = @ \ {c}]]

\* releaseOwnership: out of every owner's set, and the owner looks again.
ReleaseOwnership(A, c) ==
    [a \in Child |->
        IF c \in A[a].owned
        THEN [Wake(A, a)[a] EXCEPT !.owned = @ \ {c}] ELSE A[a]]

\* Children whose disposals open with those of S: the least set with the
\* resident children that each one in it owns.
Downward(D) == \A c \in D : {d \in act[c].owned : Resident(d)} \subseteq D

Below(S) ==
    {c \in Child : \A D \in SUBSET Child : S \subseteq D /\ Downward(D) => c \in D}

\* dispose(): every transaction opens in one synchronous span, top down.  The
\* agents are cancelled and their inboxes cleared; each waits for the children
\* that have an activation now.
Dispose(A, S) ==
    LET D == Below({c \in S : Resident(c)})
    IN [c \in Child |->
          IF c \notin D THEN A[c]
          ELSE [A[c] EXCEPT !.st = "closing", !.watch = "off",
                    !.waits = {d \in A[c].owned : A[d].st # "none"},
                    !.pend = 0, !.latch = FALSE,
                    !.status = IF @ = "running" THEN "aborted" ELSE @]]

-----------------------------------------------------------------------------
(* Calls.                                                                  *)

Pc(k, l) == call' = [call EXCEPT ![k].pc = l]

(* Mutant: the hold goes even if the child has become resident. *)
HoldDropped(A, k) ==
    LET c == call[k].child
        p == Parent[c]
    IN IF call[k].hold /\ ~call[k].stale /\ p \in Child /\ A[p].st # "none"
       THEN Wake([A EXCEPT ![p].owned = @ \ {c}], p)
       ELSE A

\* A call fails: it leaves the lock and takes back the hold it added, unless
\* the child is resident.  The hold of a parent that is gone went with it.
ReleaseHold(A, k) ==
    LET c == call[k].child
        p == Parent[c]
    IN IF /\ call[k].hold /\ ~call[k].stale
          /\ p \in Child /\ A[p].st # "none" /\ c \in A[p].owned
          /\ A[c].st # "live"
       THEN Wake([A EXCEPT ![p].owned = @ \ {c}], p)
       ELSE A

Unlock(k) == lock' = [c \in Child |-> IF lock[c] = k THEN NoCall ELSE lock[c]]

Fail(A, k) ==
    /\ act' = ReleaseHold(A, k)
    /\ Unlock(k)
    /\ call' = [call EXCEPT ![k] = NotRunning("over")]

\* startContinuable and deliverToChild up to their first await: the parent's
\* tree is admitted and the parent's own activation is held open.  A start
\* addresses an id nobody has.
Begin(k, kind, c) ==
    LET p == Parent[c]
    IN /\ call[k].pc = "idle"
       /\ Registered(p) /\ ~Closing(p)
       /\ Managed(p) => Resident(p)
       /\ kind = "start" => act[c].st = "none"
       /\ call' = [call EXCEPT ![k] =
                     [@ EXCEPT !.pc = IF kind = "start" THEN "prepare" ELSE "lock",
                               !.kind = kind, !.child = c,
                               !.hold = Managed(p) /\ c \notin act[p].owned]]
       /\ act' = AcquireOwnership(act, p, c)
       /\ UNCHANGED <<stored, lock, present, scopes, drain, mgr>>

\* prepareContinuable settles; signal and admission are looked at again.
PrepareSettles(k) ==
    /\ call[k].pc = "prepare"
    /\ \/ Fail(act, k)
       \/ Admitted(k) /\ Pc(k, "lock") /\ UNCHANGED <<act, lock>>
    /\ UNCHANGED <<stored, present, scopes, drain, mgr>>

\* authorizeLineage and acquireOwnership, both of which may refuse.
Authorized(k) ==
    LET p == Parent[call[k].child]
    IN /\ ~call[k].stale
       /\ p \in Child => act[p].st = "live"

\* submitAdmitted: the message is accepted and the call is over.
Submit(k) ==
    LET c == call[k].child
        A == AcquireOwnership(act, Parent[c], c)
    IN /\ Admitted(k) /\ Authorized(k) /\ Resident(c)
       /\ act' = [SendWaking(A, c) EXCEPT ![c].announced = TRUE]
       /\ Unlock(k)
       /\ call' = [call EXCEPT ![k] = NotRunning("over")]

\* The critical section.  A start meets a taken id; a delivery submits to a
\* resident child (with an image it first reads the model's capabilities),
\* waits for a disposal, or looks for the stored session.
Enter(k) ==
    LET c == call[k].child
    IN /\ call[k].pc = "lock" /\ lock[c] = NoCall
       /\ \/ \* taken id, abort, admission or authority refused
             /\ call[k].kind = "deliver" => Resident(c)
             /\ Fail(act, k)
          \/ call[k].kind = "deliver" /\ Submit(k)
          \/ /\ lock' = [lock EXCEPT ![c] = k]
             /\ IF act[c].st = "none"
                THEN (call[k].kind = "start" => Admitted(k)) /\ Pc(k, "lookup")
                ELSE /\ call[k].kind = "deliver"
                     /\ Pc(k, IF Resident(c) THEN "image" ELSE "wait")
             /\ UNCHANGED act
       /\ UNCHANGED <<stored, present, scopes, drain, mgr>>

\* The disposal the delivery waited for is over: it starts again.
Retry(k) ==
    /\ call[k].pc = "wait" /\ act[call[k].child].st = "none"
    /\ \/ Fail(act, k)
       \/ Admitted(k) /\ Unlock(k) /\ Pc(k, "lock") /\ UNCHANGED act
    /\ UNCHANGED <<stored, present, scopes, drain, mgr>>

\* stat of a start, observeSession of a delivery; then materialize() admits
\* and tracks the materialization.
LookupSettles(k) ==
    LET c == call[k].child
    IN /\ call[k].pc = "lookup"
       /\ \/ Fail(act, k)
          \/ /\ Admitted(k)
             /\ IF call[k].kind = "start" THEN c \notin stored
                ELSE c \in stored /\ ~call[k].stale
             /\ Pc(k, "create")
             /\ UNCHANGED <<act, lock>>
       /\ UNCHANGED <<stored, present, scopes, drain, mgr>>

\* agents.create or agents.resume settles.  The activation is installed, and
\* rolled back at once if the signal, the admission or the parent refuses.
CreateSettles(k) ==
    LET c == call[k].child
        p == Parent[c]
        new == [Absent EXCEPT !.st = "live", !.watch = "look",
                              !.orphan = call[k].stale]
    IN /\ call[k].pc = "create"
       /\ \/ Fail(act, k) /\ UNCHANGED stored
          \/ /\ stored' = stored \union {c}
             /\ UNCHANGED lock
             /\ \/ /\ act' = [act EXCEPT ![c] =
                                [new EXCEPT !.st = "closing", !.watch = "off"]]
                   /\ Pc(k, "undo")
                \/ /\ Admitted(k)
                   /\ Managed(p) => Resident(p)
                   /\ act' = AcquireOwnership([act EXCEPT ![c] = new], p, c)
                   /\ call' = [call EXCEPT ![k].pc = "submit", ![k].fresh = TRUE]
       /\ UNCHANGED <<present, scopes, drain, mgr>>

\* rollbackUnpublished and the disposal of an unsubmitted activation are
\* waited for before the call fails.
UndoSettles(k) ==
    /\ call[k].pc = "undo" /\ act[call[k].child].st = "none"
    /\ Fail(act, k)
    /\ UNCHANGED <<stored, present, scopes, drain, mgr>>

\* submitMaterialized: accepted, or the activation is disposed.
SubmitMaterialized(k) ==
    LET c == call[k].child
    IN /\ call[k].pc = "submit"
       /\ \/ Submit(k)
          \/ /\ act' = Dispose(act, {c})
             /\ Pc(k, "undo")
             /\ UNCHANGED lock
       /\ UNCHANGED <<stored, present, scopes, drain, mgr>>

\* assertImageCapable of a resident child settles; a disposal that began
\* meanwhile is waited for.
ImageSettles(k) ==
    /\ call[k].pc = "image"
    /\ \/ Fail(act, k)
       \/ Submit(k)
       \/ /\ ~Resident(call[k].child)
          /\ Pc(k, "wait")
          /\ UNCHANGED <<act, lock>>
    /\ UNCHANGED <<stored, present, scopes, drain, mgr>>

-----------------------------------------------------------------------------
(* The agent of a child.                                                   *)

\* The driver claims messages: one of the next turn, or all of the next step.
Claim(c) ==
    /\ act[c].status = "running" /\ act[c].pend > 0
    /\ \E n \in 0 .. act[c].pend - 1 :
         act' = Wake([act EXCEPT ![c].pend = n], c)
    /\ UNCHANGED <<stored, lock, call, present, scopes, drain, mgr>>

\* The last turn is over and nothing is pending.
TurnEnds(c) ==
    /\ act[c].status = "running" /\ act[c].pend = 0
    /\ act' = [act EXCEPT ![c].status = "idle"]
    /\ UNCHANGED <<stored, lock, call, present, scopes, drain, mgr>>

\* A failed or blocked turn ends the driver; what is queued stays queued.
TurnFails(c) ==
    /\ act[c].status = "running" /\ act[c].pend > 0
    /\ act' = [act EXCEPT ![c].status = "idle"]
    /\ UNCHANGED <<stored, lock, call, present, scopes, drain, mgr>>

\* An aborted driver stops, and replays a wake that came meanwhile.
DriverStops(c) ==
    /\ act[c].status = "aborted"
    /\ act' = [act EXCEPT ![c].latch = FALSE,
                 ![c].status = IF act[c].latch /\ act[c].pend > 0
                               THEN "running" ELSE "idle"]
    /\ UNCHANGED <<stored, lock, call, present, scopes, drain, mgr>>

\* interrupt(): cancel with keepInbox.
Interrupt(c) ==
    /\ Resident(c) /\ act[c].status = "running"
    /\ act' = [act EXCEPT ![c].status = "aborted"]
    /\ UNCHANGED <<stored, lock, call, present, scopes, drain, mgr>>

\* sendToParent: a running child writes to its parent.
SendToParent(c) ==
    LET p == Parent[c]
    IN /\ Resident(c) /\ act[c].status = "running"
       /\ ~Closing(c) /\ p \in Child /\ Registered(p)
       /\ act[p].pend < MaxInbox
       /\ act' = SendWaking(act, p)
       /\ UNCHANGED <<stored, lock, call, present, scopes, drain, mgr>>

-----------------------------------------------------------------------------
(* Settlement and release.                                                 *)

\* watchSettlement: inside the child lock, a settled activation is disposed;
\* otherwise the watcher waits, for the driver to be idle or for a poke.
Watch(c) ==
    /\ lock[c] = NoCall
    /\ \/ act[c].watch = "look"
       \/ act[c].watch = "idle" /\ act[c].status = "idle"
    /\ act' = IF SettledState(c) THEN Dispose(act, {c})
              ELSE [act EXCEPT ![c].watch =
                      IF act[c].status = "idle" THEN "parked" ELSE "idle"]
    /\ UNCHANGED <<stored, lock, call, present, scopes, drain, mgr>>

(* Mutant: the parent is not looked up in the registry. *)
NotifyUnchecked(A, c) ==
    IF act[c].announced /\ ~Closing(Parent[c]) THEN SendWaking(A, Parent[c]) ELSE A

\* notifySettlement: the parent is told; it is woken unless its tree closes.
NotifySettlement(A, c) ==
    IF act[c].announced /\ Managed(Parent[c]) /\ ~Closing(Parent[c])
    THEN SendWaking(A, Parent[c])
    ELSE A

\* finishDisposal after its awaits: the children it waits for are released, the
\* agent is quiet, the handle is disposed.  Whoever held the agent as parent
\* now holds a stale identity, and a scope rooted at it is forgotten.
Release(c) ==
    /\ act[c].st = "closing"
    /\ act[c].waits = {} /\ act[c].status = "idle"
    /\ LET A == [d \in Child |-> IF d = c THEN Absent
                                 ELSE [act[d] EXCEPT !.waits = @ \ {c},
                                        !.orphan = @ \/ (Parent[d] = c /\ act[d].st # "none")]]
       IN act' = ReleaseOwnership(NotifySettlement(A, c), c)
    /\ call' = [k \in Call |->
         IF call[k].child \in Child /\ Parent[call[k].child] = c
         THEN [call[k] EXCEPT !.stale = TRUE] ELSE call[k]]
    /\ scopes' = scopes \ {c}
    /\ drain' = [drain EXCEPT ![c].st = "none"]
    /\ UNCHANGED <<stored, lock, present, mgr>>

-----------------------------------------------------------------------------
(* Teardown.                                                               *)

(* Mutant: a rollback is not waited for. *)
TrackedUntilCreated(k) == call[k].pc = "create"

\* Calls whose materialization is tracked: until the activation is returned
\* or rolled back.
Tracked(k) ==
    \/ call[k].pc = "create"
    \/ call[k].pc = "undo" /\ ~call[k].fresh

\* drainChildren(parent, childIds).
DrainChildren(p, S) ==
    /\ Registered(p)
    /\ \E c \in S : Resident(c)
    /\ act' = Dispose(act, S)
    /\ UNCHANGED <<stored, lock, call, present, scopes, drain, mgr>>

\* drainDescendants([a]): closes the scope, opens every disposal below a, then
\* waits for the materializations and for the activations nobody owns.
DrainDescendants(a) ==
    LET targets == {c \in Child : Descends(c, a) /\ act[c].st # "none"}
        ownedOnes == UNION {act[c].owned : c \in targets}
    IN /\ Registered(a) /\ drain[a].st = "none"
       /\ \E c \in Child : Parent[c] = a
       /\ scopes' = scopes \union {a}
       /\ act' = Dispose(act, targets)
       /\ drain' = [drain EXCEPT ![a] =
            [st |-> "waiting",
             calls |-> {k \in Call : /\ Tracked(k)
                                     /\ a \in Lineage[Parent[call[k].child]]
                                     /\ a = Parent[call[k].child] => ~call[k].stale},
             children |-> targets \ ownedOnes]]
       /\ UNCHANGED <<stored, lock, call, present, mgr>>

DrainReturns(a) ==
    /\ drain[a].st = "waiting"
    /\ \A k \in drain[a].calls : ~Tracked(k)
    /\ \A c \in drain[a].children : act[c].st = "none"
    /\ drain' = [drain EXCEPT ![a] = [st |-> "done", calls |-> {}, children |-> {}]]
    /\ UNCHANGED <<act, stored, lock, call, present, scopes, mgr>>

\* drain(): closes admission, waits for the materializations, then disposes
\* the roots of the forest, which takes the rest along.
DrainManager ==
    /\ mgr.st = "open"
    /\ mgr' = [mgr EXCEPT !.st = "mats"]
    /\ UNCHANGED <<act, stored, lock, call, present, scopes, drain>>

DrainForest ==
    LET ownedOnes == UNION {act[c].owned : c \in Child}
        roots == {c \in Child \ ownedOnes : act[c].st # "none"}
    IN /\ mgr.st = "mats"
       /\ \A k \in Call : ~Tracked(k)
       /\ mgr' = [st |-> "dispose", children |-> roots]
       /\ act' = Dispose(act, roots)
       /\ UNCHANGED <<stored, lock, call, present, scopes, drain>>

ManagerDrained ==
    /\ mgr.st = "dispose"
    /\ \A c \in mgr.children : act[c].st = "none"
    /\ mgr' = [st |-> "done", children |-> {}]
    /\ UNCHANGED <<act, stored, lock, call, present, scopes, drain>>

\* The host disposes the root once its descendants are drained; agent/disposed
\* forgets the scope.
RootLeaves ==
    /\ present /\ drain[Root].st = "done"
    /\ present' = FALSE
    /\ scopes' = scopes \ {Root}
    /\ drain' = [drain EXCEPT ![Root].st = "none"]
    /\ call' = [k \in Call |->
         IF call[k].child \in Child /\ Parent[call[k].child] = Root
         THEN [call[k] EXCEPT !.stale = TRUE] ELSE call[k]]
    /\ UNCHANGED <<act, stored, lock, mgr>>

-----------------------------------------------------------------------------
\* What the event loop, storage and the model bring to an end by themselves.
CallStep(k) ==
    \/ PrepareSettles(k) \/ Enter(k) \/ Retry(k) \/ LookupSettles(k)
    \/ CreateSettles(k) \/ UndoSettles(k) \/ SubmitMaterialized(k)
    \/ ImageSettles(k)

ChildStep(c) ==
    \/ Claim(c) \/ TurnEnds(c) \/ DriverStops(c)
    \/ Watch(c) \/ Release(c)

Teardown ==
    \/ \E a \in Agent : DrainReturns(a)
    \/ DrainForest \/ ManagerDrained

\* What parents, children, users and hosts may ask for.
Request ==
    \/ \E k \in Call, kind \in {"start", "deliver"}, c \in Child : Begin(k, kind, c)
    \/ \E c \in Child : TurnFails(c) \/ Interrupt(c) \/ SendToParent(c)
    \/ \E p \in Agent : DrainChildren(p, {c \in Child : Parent[c] = p})
    \/ \E a \in Agent : DrainDescendants(a)
    \/ DrainManager \/ RootLeaves

Next ==
    \/ \E k \in Call : CallStep(k)
    \/ \E c \in Child : ChildStep(c)
    \/ Teardown
    \/ Request

Fairness ==
    /\ \A k \in Call : WF_vars(CallStep(k))
    /\ \A c \in Child : WF_vars(ChildStep(c))
    /\ WF_vars(Teardown)

Spec == Init /\ [][Next]_vars /\ Fairness

-----------------------------------------------------------------------------
(* Properties.                                                             *)

InFlight(k) == call[k].pc \notin {"idle", "over"}

\* Every variable has its type; a driver and an owned set need an activation.
TypeOK ==
    /\ act \in [Child ->
         [st: {"none", "live", "closing"},
          owned: SUBSET Child, announced: BOOLEAN, orphan: BOOLEAN,
          waits: SUBSET Child,
          status: {"idle", "running", "aborted"}, latch: BOOLEAN,
          pend: Nat,
          watch: {"off", "look", "idle", "parked"}]]
    /\ \A c \in Child : act[c].st = "none" => act[c] = Absent
    /\ stored \subseteq Child
    /\ lock \in [Child -> Call \union {NoCall}]
    /\ call \in [Call ->
         [pc: {"idle", "prepare", "lock", "wait", "lookup", "create", "undo",
               "submit", "image", "over"},
          kind: {"none", "start", "deliver"}, child: Agent,
          hold: BOOLEAN, fresh: BOOLEAN, stale: BOOLEAN]]
    /\ present \in BOOLEAN
    /\ scopes \subseteq Agent
    /\ drain \in [Agent -> [st: {"none", "waiting", "done"},
                            calls: SUBSET Call, children: SUBSET Child]]
    /\ mgr \in [st: {"open", "mats", "dispose", "done"}, children: SUBSET Child]

\* A resident child whose caller has an id for it is owned by its parent's
\* activation, which is resident too: no failing call, drain or settlement on
\* another path takes the edge away, so the parent cannot be released under a
\* working child (acquireOwnership, holdOwnership's releaser).
AcceptedIsOwned ==
    \A c \in Child : Resident(c) /\ act[c].announced /\ Parent[c] \in Child
        => Resident(Parent[c]) /\ c \in act[Parent[c]].owned /\ ~act[c].orphan

\* What keeps a parent waiting is a child with an activation or a call that is
\* still establishing one.  An edge left behind by a failed start, a rollback
\* or a disposal would pin the whole ancestry for good (releaseOwnership).
HeldByWork ==
    \A p, c \in Child : c \in act[p].owned =>
        \/ act[c].st # "none"
        \/ \E k \in Call : InFlight(k) /\ call[k].child = c /\ ~call[k].stale

\* A parent is kept by its working children, and by nothing else.
OwnershipIsExact == AcceptedIsOwned /\ HeldByWork

\* When drain() or drainDescendants() has returned, no activation is left below
\* the drained agent and none appears before that agent leaves, whatever calls
\* were between their awaits at the time ("once every retained descendant
\* Activation released its handle").
DrainIsFinal ==
    /\ mgr.st = "done" => \A c \in Child : act[c].st = "none"
    /\ \A a \in Agent : drain[a].st = "done" =>
         \A c \in Child : Descends(c, a) => act[c].st = "none"

\* A driver that stopped with messages in the inbox: a failed turn or an
\* interrupt leaves them for the next waking send.
Parked(c) == act[c].status = "idle" /\ act[c].pend > 0

\* Every activation comes to its release by itself, settled or torn down,
\* unless it or a child below it is parked: no poke of the watcher is lost, no
\* disposal waits in a circle, and no call keeps a child lock for ever.
Settles ==
    \A c \in Child : act[c].st # "none" ~>
        \/ act[c].st = "none"
        \/ \E d \in Child : c \in Lineage[d] /\ Parked(d)

\* What the comments of the code claim, and the code does not do.

\* "Release remains child-first": an announced child is never left without its
\* parent's activation (finishDisposal).
ChildFirst ==
    \A c \in Child : act[c].announced /\ Parent[c] \in Child => Managed(Parent[c])

\* holdOwnership: "so the parent cannot settle while a caller is still
\* establishing or resuming that child".
HoldLasts ==
    \A k \in Call : InFlight(k) /\ ~call[k].stale =>
        LET p == Parent[call[k].child]
        IN p \in Child /\ Resident(p) => call[k].child \in act[p].owned

\* notifySettlement: "A parent whose own teardown already began must not be
\* woken".
ClosingIsNotWoken ==
    [][\A c \in Child : act[c].st = "closing" /\ act[c].status = "idle"
         => act'[c].status # "running"]_vars
=============================================================================
