--------------------------- MODULE AgentLifecycle ---------------------------
(***************************************************************************)
(* Creating, resuming and disposing agents under ONE session id by several *)
(* transactions at once (packages/core/agent-loop/src/index.ts), with the  *)
(* registries they publish in (core/session, core/agent) and the write     *)
(* ownership of the JSONL backend they compete for.                        *)
(*                                                                         *)
(* A transaction is a call of create, createAgent or resume, or a          *)
(* configured start (resume, and create when nothing is stored).  at is    *)
(* the await it is at.  Publication is one synchronous segment in which    *)
(* listeners run: at in Publishing lets only them act.  Between the        *)
(* release of a write handle and the detach that follows it there are only *)
(* microtasks, so Detach goes before every other action (Calm).            *)
(***************************************************************************)
EXTENDS Naturals, FiniteSets

CONSTANTS Op,   \* transactions; each runs once
          NoOp  \* no transaction

ASSUME NoOpAssumption == NoOp \notin Op /\ "disk" \notin Op /\ NoOp # "disk"

Kind == {"create", "createAgent", "resume", "configured"}

VARIABLES
    mounted,   \* ctx.get("sessionPersistence") answers
    author,    \* who materialized the artifact: NoOp (none), "disk" or an op
    writers,   \* JsonlBackendTracker.writers: the claim on the id
    store,     \* SessionStore.store: the entered session
    agents,    \* AgentRegistry.store: the entered agent
    created,   \* session/created was delivered for the entry of store
    kind,      \* which call the op is
    at,        \* where it awaits
    found,     \* what a creation's findLog met when it started
    aborted,   \* the caller's signal
    down,      \* the owner fiber or the factory unloads
    disp       \* the memoized teardown: none, quiesce, close, detach, done

regVars  == <<store, agents, created>>
diskVars == <<author, writers>>
opVars   == <<kind, found, aborted, down>>
lifecycleVars == <<mounted, author, writers, store, agents, created, kind, at,
                   found, aborted, down, disp>>

-----------------------------------------------------------------------------
Publishing == {"announceSession", "announceAgent", "sessionStart"}

\* Pre-publication awaits of a prepared agent: its teardown is registered.
Prepared == {"setup", "suffix", "publish"}

\* The caller was answered.
Concluded == {"live", "ended", "abandoned"}

\* No publication is under way and no teardown is between release and detach.
Calm == \A o \in Op : at[o] \notin Publishing /\ disp[o] # "detach"

\* abort.signal of a prepared agent: caller, owner, factory or teardown.
Dead(o) == aborted[o] \/ down[o] \/ disp[o] # "none"

\* A caller's signal exists only for createAgent and resume.
HasSignal(o) == kind[o] \in {"createAgent", "resume"}

LifecycleInit ==
    /\ mounted \in BOOLEAN
    /\ author \in IF mounted THEN {NoOp, "disk"} ELSE {NoOp}
    /\ writers = NoOp
    /\ store = NoOp /\ agents = NoOp
    /\ created = FALSE
    /\ kind \in [Op -> Kind]
    /\ \A o \in Op : ~mounted => kind[o] \in {"create", "createAgent"}
    /\ at = [o \in Op |-> "idle"]
    /\ found = [o \in Op |-> FALSE]
    /\ aborted = [o \in Op |-> FALSE]
    /\ down = [o \in Op |-> FALSE]
    /\ disp = [o \in Op |-> "none"]

Goto(o, l) == at' = [at EXCEPT ![o] = l]

-----------------------------------------------------------------------------
(* Reaching prepare.                                                       *)

\* prepare(): checks the owner, the factory and the caller's signal, builds the
\* machine and registers the memoized teardown.  A refusal closes the handle.
PrepareAgent(o) ==
    IF down[o] \/ aborted[o]
    THEN Goto(o, IF writers = o THEN "closing" ELSE "ended")
    ELSE Goto(o, IF kind[o] \in {"create", "configured"} THEN "suffix" ELSE "setup")

\* create / createAgent up to the first await: sessions.prepare refuses a live
\* id; persistence.create looks whether the id is pending or stored.
BeginCreate(o) ==
    /\ IF store # NoOp \/ aborted[o]
       THEN Goto(o, "ended") /\ UNCHANGED found
       ELSE IF mounted
       THEN Goto(o, "creating") /\ found' = [found EXCEPT ![o] = author # NoOp]
       ELSE PrepareAgent(o) /\ UNCHANGED found
    /\ UNCHANGED <<mounted, author, writers, regVars, kind, aborted, down, disp>>

\* restoreOrCreateConfigured waits while either registry shows the id.
BeginConfigured(o) ==
    /\ Goto(o, IF store = NoOp /\ agents = NoOp THEN "opening" ELSE "waiting")
    /\ UNCHANGED <<mounted, diskVars, regVars, opVars, disp>>

Start(o) ==
    /\ at[o] = "idle" /\ ~down[o]
    /\ \A p \in Op : disp[p] # "detach"
    /\ CASE kind[o] \in {"create", "createAgent"} -> BeginCreate(o)
         [] kind[o] = "configured" -> BeginConfigured(o)
         [] kind[o] = "resume" ->
              /\ Goto(o, IF aborted[o] THEN "ended" ELSE "opening")
              /\ UNCHANGED <<mounted, author, writers, regVars, opVars, disp>>

\* waitWhileActive ends with the factory; the start then ends silently.
WaitEnds(o) ==
    /\ Calm /\ at[o] = "waiting" /\ down[o]
    /\ Goto(o, "ended")
    /\ UNCHANGED <<mounted, diskVars, regVars, opVars, disp>>

\* persistence.create goes on after findLog, whose scan of the directories saw
\* the artifact as it was at some moment of the call, and registers the claim.
CreateSettles(o) ==
    /\ Calm /\ at[o] = "creating"
    /\ \E seen \in {found[o], author # NoOp} :
         \/ \* I/O error, or the id is stored, or another claim holds it
            /\ Goto(o, "ended")
            /\ UNCHANGED writers
         \/ /\ ~seen /\ writers = NoOp
            /\ writers' = o
            /\ Goto(o, IF down[o] THEN "closing"
                       ELSE IF kind[o] = "createAgent" THEN "setup" ELSE "suffix")
    /\ UNCHANGED <<mounted, author, regVars, kind, found, aborted, down, disp>>

-----------------------------------------------------------------------------
(* Resuming.                                                               *)

\* open(id, "write"): the claim is taken before the log is read.
ClaimWrite(o) ==
    /\ Calm /\ at[o] = "opening"
    /\ IF down[o] \/ writers # NoOp
       THEN Goto(o, "ended") /\ UNCHANGED writers
       ELSE Goto(o, "loading") /\ writers' = o
    /\ UNCHANGED <<mounted, author, regVars, opVars, disp>>

\* requireStoredLog settles.  Not found or failed: the claim is released, and a
\* configured start falls back to creation only when nothing is stored.
LoadSettles(o) ==
    /\ Calm /\ at[o] = "loading"
    /\ \/ /\ author # NoOp
          /\ Goto(o, "reading")
          /\ UNCHANGED <<writers, found, kind>>
       \/ /\ author = NoOp /\ kind[o] = "configured" /\ ~down[o] /\ store = NoOp
          /\ writers' = NoOp
          /\ Goto(o, "creating")
          /\ found' = [found EXCEPT ![o] = FALSE]
          /\ kind' = [kind EXCEPT ![o] = "create"]
       \/ /\ writers' = NoOp
          /\ Goto(o, "ended")
          /\ UNCHANGED <<found, kind>>
    /\ UNCHANGED <<mounted, author, regVars, aborted, down, disp>>

\* The log was read; the closers of an interrupted turn are appended if it
\* needs any, and the seeded session is prepared, unless the id is live.
ReadSettles(o) ==
    /\ Calm /\ at[o] = "reading"
    /\ \/ /\ ~aborted[o] /\ ~down[o]
          /\ Goto(o, "repairing")
       \/ Goto(o, "closing")
    /\ UNCHANGED <<mounted, diskVars, regVars, opVars, disp>>

RepairSettles(o) ==
    /\ Calm /\ at[o] = "repairing"
    /\ \/ /\ store = NoOp
          /\ Goto(o, "marking")
       \/ Goto(o, "closing")
    /\ UNCHANGED <<mounted, diskVars, regVars, opVars, disp>>

\* The seed marker is stored; owner, factory and signal are checked again.
MarkSettles(o) ==
    /\ Calm /\ at[o] = "marking"
    /\ \/ PrepareAgent(o)
       \/ Goto(o, "closing")
    /\ UNCHANGED <<mounted, diskVars, regVars, opVars, disp>>

\* A handle that never reached a teardown is closed by the call itself.
CloseSettles(o) ==
    /\ Calm /\ at[o] = "closing"
    /\ writers' = NoOp
    /\ Goto(o, "ended")
    /\ UNCHANGED <<mounted, author, regVars, opVars, disp>>

(* Mutant: the late handle is dropped unclosed. *)
AbandonedDropped(o) ==
    /\ Calm /\ at[o] = "abandoned"
    /\ Goto(o, "ended")
    /\ UNCHANGED <<mounted, diskVars, regVars, opVars, disp>>

\* raceAbortCall gave up; the handle that arrives late is closed.
AbandonedSettles(o) ==
    /\ Calm /\ at[o] = "abandoned"
    /\ writers' = NoOp
    /\ Goto(o, "ended")
    /\ UNCHANGED <<mounted, author, regVars, opVars, disp>>

-----------------------------------------------------------------------------
(* Setup, publication and rollback.                                        *)

\* dispose() begins, unless it has; only its first call does anything.
BeginDispose(o) ==
    disp' = IF disp[o] = "none" THEN [disp EXCEPT ![o] = "quiesce"] ELSE disp

\* The catch clauses: create does not wait for the teardown, the others do.
RollBack(o) ==
    /\ Goto(o, IF kind[o] = "create" \/ disp[o] = "done" THEN "ended" ELSE "rollback")
    /\ BeginDispose(o)

\* setup settles or fails, or the signal ends the wait; a commit follows.
SetupSettles(o) ==
    /\ Calm /\ at[o] = "setup"
    /\ \/ ~Dead(o) /\ Goto(o, "suffix") /\ UNCHANGED disp
       \/ RollBack(o)
    /\ UNCHANGED <<mounted, diskVars, regVars, opVars>>

(* Mutant: rename() replaces an existing log. *)
MaterializeOver(o) == author' = o

\* materialize(): link() publishes the first batch and refuses an existing log.
Materialize(o) ==
    /\ author = NoOp
    /\ author' = o

\* appendUnstoredSuffix settles: it stored the first batch, had nothing new for
\* a log that exists or is not needed yet, or failed.
SuffixSettles(o) ==
    /\ Calm /\ at[o] = "suffix"
    /\ \/ mounted /\ Materialize(o) /\ Goto(o, "publish") /\ UNCHANGED disp
       \/ Goto(o, "publish") /\ UNCHANGED <<author, disp>>
       \/ RollBack(o) /\ UNCHANGED author
    /\ UNCHANGED <<mounted, writers, regVars, opVars>>

\* publish(): enter both registries and announce the session; a dead signal or
\* an entry of the same id refuses.
Enter(o) ==
    /\ Calm /\ at[o] = "publish"
    /\ IF Dead(o) \/ store # NoOp \/ agents # NoOp
       THEN RollBack(o) /\ UNCHANGED <<store, agents, created>>
       ELSE /\ store' = o /\ agents' = o
            /\ created' = TRUE
            /\ Goto(o, "announceSession")
            /\ UNCHANGED disp
    /\ UNCHANGED <<mounted, diskVars, opVars>>

\* The listeners of one announcement returned; assertLive before the next.
Announced(o, here, next) ==
    /\ at[o] = here
    /\ IF Dead(o)
       THEN RollBack(o)
       ELSE Goto(o, next) /\ UNCHANGED disp
    /\ UNCHANGED <<mounted, diskVars, regVars, opVars>>

\* A listener of session/created or agent/created throws: publication is vetoed.
Vetoed(o) ==
    /\ at[o] \in {"announceSession", "announceAgent"}
    /\ RollBack(o)
    /\ UNCHANGED <<mounted, diskVars, regVars, opVars>>

Publish(o) ==
    \/ Announced(o, "announceSession", "announceAgent")
    \/ Announced(o, "announceAgent", "sessionStart")
    \/ Announced(o, "sessionStart", "live")
    \/ Vetoed(o)

\* A live agent writes its first event through a handle with no artifact yet.
FirstEvent(o) ==
    /\ Calm /\ at[o] = "live" /\ disp[o] = "none" /\ writers = o
    /\ Materialize(o)
    /\ UNCHANGED <<mounted, writers, regVars, opVars, at, disp>>

-----------------------------------------------------------------------------
(* Teardown and its causes.                                                *)

\* The holder of an AgentHandle disposes it, from anywhere, listeners included.
Dispose(o) ==
    /\ at[o] = "live" /\ disp[o] = "none"
    /\ \A p \in Op : disp[p] # "detach"
    /\ BeginDispose(o)
    /\ UNCHANGED <<mounted, diskVars, regVars, opVars, at>>

\* The caller's signal aborts a call in progress: raceAbort answers it at once.
\* A claim whose handle is still being built is left to AbandonedSettles.
Abort(o) ==
    /\ HasSignal(o) /\ ~aborted[o] /\ at[o] \notin Concluded
    /\ \A p \in Op : disp[p] # "detach"
    /\ aborted' = [aborted EXCEPT ![o] = TRUE]
    /\ CASE at[o] \in {"creating", "opening"} -> Goto(o, "ended")
         [] at[o] = "loading" -> Goto(o, "abandoned")
         [] OTHER -> UNCHANGED at
    /\ UNCHANGED <<mounted, diskVars, regVars, kind, found, down, disp>>

(* Mutant: the unload only raises the flag for a published agent. *)
UnloadFlags(o) ==
    /\ ~down[o] /\ at[o] # "idle"
    /\ \A p \in Op : disp[p] # "detach"
    /\ down' = [down EXCEPT ![o] = TRUE]
    /\ IF at[o] \in Prepared THEN BeginDispose(o) ELSE UNCHANGED disp
    /\ CASE at[o] = "opening" -> Goto(o, "ended")
         [] at[o] = "loading" -> Goto(o, "abandoned")
         [] OTHER -> UNCHANGED at
    /\ UNCHANGED <<mounted, diskVars, regVars, kind, found, aborted>>

(* Mutant: the unload disposes what is not prepared yet. *)
UnloadDisposes(o) ==
    /\ ~down[o] /\ at[o] # "idle"
    /\ \A p \in Op : disp[p] # "detach"
    /\ down' = [down EXCEPT ![o] = TRUE]
    /\ BeginDispose(o)
    /\ UNCHANGED <<mounted, diskVars, regVars, kind, found, aborted, at>>

\* The owner fiber or the factory unloads: it tears a prepared or live agent
\* down, ends a resume's load, and leaves the rest to the checks of prepare.
Unload(o) ==
    /\ ~down[o] /\ at[o] # "idle"
    /\ \A p \in Op : disp[p] # "detach"
    /\ down' = [down EXCEPT ![o] = TRUE]
    /\ IF at[o] \in Prepared \union Publishing \union {"live"}
       THEN BeginDispose(o) ELSE UNCHANGED disp
    /\ CASE at[o] = "opening" -> Goto(o, "ended")
         [] at[o] = "loading" -> Goto(o, "abandoned")
         [] OTHER -> UNCHANGED at
    /\ UNCHANGED <<mounted, diskVars, regVars, kind, found, aborted>>

\* The machine was cancelled and is idle, its scope is unwound (or failed to).
Quiesced(o) ==
    /\ Calm /\ disp[o] = "quiesce"
    /\ disp' = [disp EXCEPT ![o] = IF writers = o THEN "close" ELSE "detach"]
    /\ UNCHANGED <<mounted, diskVars, regVars, opVars, at>>

\* handle.close() releases the claim whether or not its drain failed.  It waits
\* for an append in flight.
HandleClosed(o) ==
    /\ Calm /\ disp[o] = "close" /\ at[o] # "suffix"
    /\ writers' = NoOp
    /\ disp' = [disp EXCEPT ![o] = "detach"]
    /\ UNCHANGED <<mounted, author, regVars, opVars, at>>

\* detachAgent, then detachSession: each removes exactly this op's entry and
\* pairs its announcement; configured starts that wait for the id go on.
Detach(o) ==
    /\ disp[o] = "detach" /\ \A p \in Op : at[p] \notin Publishing
    /\ disp' = [disp EXCEPT ![o] = "done"]
    /\ agents' = IF agents = o THEN NoOp ELSE agents
    /\ store' = IF store = o THEN NoOp ELSE store
    /\ created' = (created /\ store # o)
    /\ at' = [p \in Op |->
                IF at[p] = "waiting" /\ store' = NoOp /\ agents' = NoOp /\ created
                THEN "opening"
                ELSE IF p = o /\ at[p] \in {"rollback", "live"} THEN "ended"
                ELSE at[p]]
    /\ UNCHANGED <<mounted, diskVars, opVars>>

-----------------------------------------------------------------------------
\* What the event loop, storage and plugins bring to an end by themselves.
Progress(o) ==
    \/ WaitEnds(o) \/ CreateSettles(o) \/ ClaimWrite(o) \/ LoadSettles(o)
    \/ ReadSettles(o) \/ RepairSettles(o) \/ MarkSettles(o) \/ CloseSettles(o)
    \/ AbandonedSettles(o) \/ SetupSettles(o) \/ SuffixSettles(o)
    \/ Enter(o) \/ Publish(o)

Teardown(o) == Quiesced(o) \/ HandleClosed(o) \/ Detach(o)

Request(o) == Start(o) \/ Abort(o) \/ Unload(o) \/ Dispose(o) \/ FirstEvent(o)

LifecycleNext == \E o \in Op : Progress(o) \/ Teardown(o) \/ Request(o)

Fairness == \A o \in Op : SF_lifecycleVars(Progress(o)) /\ SF_lifecycleVars(Teardown(o))

LifecycleSpec == LifecycleInit /\ [][LifecycleNext]_lifecycleVars /\ Fairness

-----------------------------------------------------------------------------
(* Properties.                                                             *)

\* Every variable has its type, and only a prepared agent has a teardown.
LifecycleTypeOK ==
    /\ mounted \in BOOLEAN
    /\ author \in Op \union {NoOp, "disk"}
    /\ {writers, store, agents} \subseteq Op \union {NoOp}
    /\ created \in BOOLEAN
    /\ kind \in [Op -> Kind]
    /\ at \in [Op -> {"idle", "waiting", "creating", "opening", "loading",
                      "reading", "repairing", "marking", "closing", "rollback"}
                     \union Prepared \union Publishing \union Concluded]
    /\ {found, aborted, down} \subseteq [Op -> BOOLEAN]
    /\ disp \in [Op -> {"none", "quiesce", "close", "detach", "done"}]
    /\ \A o \in Op : disp[o] # "none" =>
          at[o] \in Prepared \union Publishing \union {"live", "rollback", "ended"}

\* The backend routes a published session's events, its flushes and its
\* disposal to the write handle registered under its id, whoever owns it
\* (storage.ts, install).  So while a session is in the store, a claim on its
\* id must belong to the same transaction, or a stranger's log is written and
\* a stranger's handle closed.
RoutedToOwner == writers # NoOp /\ store # NoOp => writers = store

\* An agent whose creation is announced or complete is the registries' entry
\* until its own teardown removes it, no matter who else prepared the same id
\* meanwhile (enter, the "authoritative collision boundary"); and with a
\* backend it can be written until its teardown closes the handle.
PublishedIsRegistered ==
    \A o \in Op : at[o] \in Publishing \union {"live"} =>
        /\ store = o /\ agents = o
        /\ mounted /\ disp[o] # "detach" => writers = o

\* The registries and the claim on the log name the same transaction.
RegistriesAgree == RoutedToOwner /\ PublishedIsRegistered

\* A call that is over and whose teardown, if it had one, is over has left
\* nothing behind: no claim, no pending creation, no entry, on any of the
\* failure paths of create, createAgent, resumeWith and setupAndPublish.
NothingLeaks ==
    \A o \in Op : at[o] = "ended" /\ disp[o] \in {"none", "done"} =>
        o \notin {writers, store, agents}

\* The registries hold what their owners use, all of it and no more.
RegistriesExact == RegistriesAgree /\ NothingLeaks

\* The id as its users see it is that of SessionIdentity.
Identity == INSTANCE SessionIdentity WITH
    holder <- IF writers # NoOp THEN writers ELSE store,
    visible <- agents

ImplementsIdentity == Identity!Spec

\* Every call is answered: none hangs in a load, a setup, an append or a
\* rollback.  (A configured start may wait as long as the id is in use.)
CallsSettle ==
    \A o \in Op : at[o] \notin {"idle", "waiting"} ~> at[o] \in Concluded

\* An unload of the owner or the factory ends with everything given back, at
\* whatever await it met the transaction, abandoned handles included.
UnloadReleases ==
    \A o \in Op : down[o] ~> o \notin {writers, store, agents}

\* Calls are answered and unloads complete.
CallsConclude == CallsSettle /\ UnloadReleases
=============================================================================
