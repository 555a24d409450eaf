----------------------------- MODULE JsonlHandle -----------------------------
(***************************************************************************)
(* The JSONL write path of one stored session: the write handle with its   *)
(* promise chain, routed live buffer, batching timer and single-flight     *)
(* drain (packages/session/session-persistence-jsonl/src/storage.ts), the  *)
(* artifact it writes (src/index.ts of the same package), and how the      *)
(* agent loop acquires it and publishes the session                        *)
(* (packages/core/agent-loop/src/index.ts).                                *)
(*                                                                         *)
(* An event is its seq.  The artifact is the number of committed events,   *)
(* whether torn bytes follow them, how many complete records can be        *)
(* decoded from those bytes, and whether a write ever left the committed   *)
(* bytes unreadable: records out of sequence, or bytes after a torn tail.  *)
(* Write handles are numbered in the order they are acquired; a released   *)
(* handle is kept, because its timer may still be armed.  An action is the *)
(* code between two awaits; a storage call takes effect when it settles,   *)
(* and a crash cuts it short anywhere.                                     *)
(***************************************************************************)
EXTENDS Naturals, Sequences

CONSTANTS
    Compressed,   \* zstd frames (a torn frame is partly decoded) or raw lines
    MaxEvents,    \* bound: events of the session
    MaxHandles,   \* bound: write handles acquired
    MaxFaults,    \* bound: storage calls that fail
    MaxCrashes    \* bound: crashes of the process

ASSUME CompressedAssumption == Compressed \in BOOLEAN
ASSUME BoundsAssumption ==
    MaxEvents \in Nat /\ MaxHandles \in Nat /\ MaxFaults \in Nat /\ MaxCrashes \in Nat

VARIABLES
    disk,      \* the artifact
    handle,    \* every write handle
    owner,     \* tracker.writers: the handle that owns the session id, 0 if none
    session,   \* the live session: seq, its stored cursor and its publication
    flusher,   \* one caller of session/flush
    promised,  \* events a resolved session/flush promised to be durable
    faults,    \* storage calls failed so far
    crashes,   \* crashes so far
    taint      \* what took the log out of the code's hands: see Taints

vars == <<disk, handle, owner, session, flusher, promised, faults, crashes, taint>>

Handles == 1..MaxHandles
Taints == {"gap", "rollback", "stray"}
NoOp == [kind |-> "none", stage |-> "none", batch |-> <<>>]
NoSession == [state |-> "none", seq |-> 0, stored |-> 0, opened |-> 0]
NoFlush == [pc |-> "none", handle |-> 0, need |-> 0, late |-> FALSE]

Fresh ==
    [state |-> "none", cursor |-> 0, materialized |-> FALSE, torn |-> FALSE,
     recovered |-> 0, buffered |-> <<>>, timer |-> FALSE, paused |-> FALSE,
     drain |-> "none", drainFailed |-> FALSE, chain |-> <<>>, op |-> NoOp,
     close |-> "no", ahead |-> 0, closeFailed |-> FALSE, closeNeed |-> 0]

Init ==
    /\ disk = [exists |-> FALSE, n |-> 0, torn |-> FALSE, partial |-> 0, bad |-> FALSE]
    /\ handle = [i \in Handles |-> Fresh]
    /\ owner = 0
    /\ session = NoSession
    /\ flusher = NoFlush
    /\ promised = 0 /\ faults = 0 /\ crashes = 0
    /\ taint = {}

Interval(lo, hi) == [k \in 1..(hi - lo) |-> lo + k - 1]
Contiguous(batch, cursor) == \A k \in DOMAIN batch : batch[k] = cursor + k - 1
Outstanding(r) == Len(r.chain) + (IF r.op = NoOp THEN 0 ELSE 1)

(* A continuation that is ready to run.  Timers and storage completions are *)
(* macrotasks: they wait until no continuation is left, while the code that *)
(* appends to the session may run between two continuations.                *)
CloseReady(r) == r.close \in {"chain", "last"} /\ r.ahead = 0
Ready(r) ==
    \/ r.drain \in {"check", "settled"}
    \/ r.chain # <<>> /\ r.op = NoOp
    \/ CloseReady(r)
Macrotask == session.state # "stored" /\ \A i \in Handles : ~Ready(handle[i])

-----------------------------------------------------------------------------
(* Operations of one handle, as functions of its record. *)
EnqueueChain(r, kind, batch) ==
    [r EXCEPT !.chain = Append(@, [kind |-> kind, batch |-> batch])]

(* drainLive up to its first await; callers join a drain that is under way. *)
DrainLive(r) ==
    IF r.drain # "none" THEN r
    ELSE LET q == [r EXCEPT !.timer = FALSE, !.paused = FALSE, !.drainFailed = FALSE]
         IN  IF q.buffered = <<>>
             THEN [q EXCEPT !.drain = "settled"]
             ELSE [EnqueueChain(q, "drain", <<>>) EXCEPT !.drain = "op"]

EnqueueLive(r, e) ==
    [r EXCEPT !.buffered = Append(@, e), !.timer = @ \/ ~r.paused]

(* A failed drain puts its batch back in front of what arrived meanwhile. *)
Retained(r) == r.op.batch \o r.buffered

(* The chained operation settles: close's wait counts it, the drain loop    *)
(* goes on or fails.                                                        *)
Settled(r, ok) ==
    LET q == [r EXCEPT !.op = NoOp, !.ahead = IF @ > 0 THEN @ - 1 ELSE 0]
    IN  CASE r.op.kind # "drain" -> q
          [] r.op.kind = "drain" /\ ok -> [q EXCEPT !.drain = "check"]
          [] OTHER -> [q EXCEPT !.buffered = Retained(r), !.paused = TRUE,
                                !.drain = "settled", !.drainFailed = TRUE]

(* What the awaiting caller of the operation sees. *)
CallerResumes(i, kind, ok) ==
    /\ session' =
         IF kind = "append" /\ session.state = "storing" /\ owner = i
         THEN IF ok
              THEN [session EXCEPT !.state = "stored", !.stored = handle[i].cursor + Len(handle[i].op.batch)]
              ELSE [session EXCEPT !.state = "failed"]
         ELSE session
    /\ LET resolved == kind = "flush" /\ ok /\ flusher.pc = "flush" /\ flusher.handle = i
       IN  /\ flusher' = IF kind = "flush" /\ flusher.handle = i THEN NoFlush ELSE flusher
           /\ promised' = IF resolved /\ ~flusher.late /\ flusher.need > promised
                          THEN flusher.need ELSE promised

Finish(i, r, ok) ==
    /\ handle' = [handle EXCEPT ![i] = Settled(r, ok)]
    /\ CallerResumes(i, r.op.kind, ok)

-----------------------------------------------------------------------------
(* The artifact. *)
Extended(s, k) ==
    [disk EXCEPT !.n = @ + k, !.bad = @ \/ disk.torn \/ s # disk.n]

Published(k) == [disk EXCEPT !.exists = TRUE, !.n = k]

(* A frame that stops short, of which p records can still be decoded. *)
TornFrame(s, p) == [Extended(s, 0) EXCEPT !.torn = TRUE, !.partial = p]

(* Every content a write of k events from seq s may leave when it is cut    *)
(* short by a crash, or when it fails and cannot be rolled back.            *)
CutShort(s, k) ==
    {Extended(s, k)} \cup
    IF Compressed
    THEN {TornFrame(s, p) : p \in 0..k}
    ELSE {[Extended(s, p) EXCEPT !.torn = t] : p \in 0..(IF k = 0 THEN 0 ELSE k - 1), t \in BOOLEAN}

-----------------------------------------------------------------------------
(* Acquisition, by createAgent or resume. *)
Unused(i) == handle[i].state = "none" /\ \A j \in Handles : j < i => handle[j].state # "none"

(* SessionPersistence.create; the seed of a new session is not stored yet. *)
Create(i, seed) ==
    /\ Unused(i) /\ owner = 0 /\ session = NoSession /\ ~disk.exists
    /\ seed <= MaxEvents
    /\ owner' = i
    /\ handle' = [handle EXCEPT ![i].state = "open"]
    /\ session' = [state |-> "setup", seq |-> seed, stored |-> 0, opened |-> 0]
    /\ UNCHANGED <<disk, flusher, promised, faults, crashes, taint>>

(* SessionPersistence.open for write: the claim, then the read. *)
claimWrite(i) ==
    /\ Unused(i) /\ owner = 0 /\ session = NoSession /\ disk.exists
    /\ owner' = i
    /\ handle' = [handle EXCEPT ![i].state = "claimed"]
    /\ UNCHANGED <<disk, session, flusher, promised, faults, crashes, taint>>

(* Mutant: the recovered records are counted twice. *)
OpenCountsTwice(i, closers) ==
    LET recovered == IF Compressed THEN disk.partial ELSE 0
        stored == disk.n + 2 * recovered
    IN  /\ handle[i].state = "claimed" /\ ~disk.bad
        /\ handle' = [handle EXCEPT ![i] = [Fresh EXCEPT
               !.state = "open", !.cursor = stored, !.materialized = TRUE,
               !.torn = disk.torn, !.recovered = recovered]]
        /\ session' = [state |-> "setup", seq |-> stored + closers,
                       stored |-> stored, opened |-> stored]
        /\ UNCHANGED <<disk, owner, flusher, promised, faults, crashes, taint>>

(* The stored prefix, with the records a torn frame still yields; resume    *)
(* appends `closers` synthetic events to it.                                *)
OpenAdopts(i, closers) ==
    LET recovered == IF Compressed THEN disk.partial ELSE 0
        stored == disk.n + recovered
    IN  /\ handle[i].state = "claimed" /\ ~disk.bad
        /\ stored + closers <= MaxEvents
        /\ handle' = [handle EXCEPT ![i] = [Fresh EXCEPT
               !.state = "open", !.cursor = stored, !.materialized = TRUE,
               !.torn = disk.torn, !.recovered = recovered]]
        /\ session' = [state |-> "setup", seq |-> stored + closers,
                       stored |-> stored, opened |-> stored]
        /\ UNCHANGED <<disk, owner, flusher, promised, faults, crashes, taint>>

OpenFails(i) ==
    /\ handle[i].state = "claimed"
    /\ disk.bad
    /\ owner' = 0
    /\ handle' = [handle EXCEPT ![i] = [Fresh EXCEPT !.state = "released"]]
    /\ UNCHANGED <<disk, session, flusher, promised, faults, crashes, taint>>

(* appendUnstoredSuffix hands the handle everything not stored so far. *)
appendUnstoredSuffix ==
    /\ session.state = "setup" /\ session.stored < session.seq
    /\ handle[owner].close = "no"
    /\ handle' = [handle EXCEPT ![owner] =
           EnqueueChain(@, "append", Interval(session.stored, session.seq))]
    /\ session' = [session EXCEPT !.state = "storing"]
    /\ UNCHANGED <<disk, owner, flusher, promised, faults, crashes, taint>>

(* The append resolved: more setup, or publication in the same segment. *)
MoreSetup ==
    /\ session.state = "stored"
    /\ session' = [session EXCEPT !.state = "setup"]
    /\ UNCHANGED <<disk, handle, owner, flusher, promised, faults, crashes, taint>>

Publish ==
    /\ session.state \in {"setup", "stored"}
    /\ session.state = "setup" => session.stored = session.seq
    /\ handle[owner].close = "no"
    /\ session' = [session EXCEPT !.state = "published"]
    /\ taint' = IF session.stored < session.seq THEN taint \cup {"gap"} ELSE taint
    /\ UNCHANGED <<disk, handle, owner, flusher, promised, faults, crashes>>

(* Session.append; only a published session's events are routed, to the     *)
(* handle that owns the id.                                                 *)
SessionAppend ==
    /\ session.state \in {"setup", "storing", "published"}
    /\ session.seq < MaxEvents
    /\ session' = [session EXCEPT !.seq = @ + 1]
    /\ handle' = IF session.state = "published" /\ owner # 0
                 THEN [handle EXCEPT ![owner] = EnqueueLive(@, session.seq)]
                 ELSE handle
    /\ UNCHANGED <<disk, owner, flusher, promised, faults, crashes, taint>>

-----------------------------------------------------------------------------
(* A write comes after a pending torn-tail repair. *)
NextStage(r) == CASE r.torn -> "truncate"
                  [] ~r.torn /\ r.recovered > 0 -> "rewrite"
                  [] OTHER -> "write"

(* The next operation of the chain starts; one that is refused, or has      *)
(* nothing to do, settles at once.                                          *)
OpStarts(i) ==
    LET r == handle[i]
        head == Head(r.chain)
        batch == IF head.kind = "drain" THEN r.buffered ELSE head.batch
        begun == [r EXCEPT !.chain = Tail(@),
                           !.buffered = IF head.kind = "drain" THEN <<>> ELSE @,
                           !.op = [kind |-> head.kind, batch |-> batch,
                                   stage |-> IF head.kind = "flush" THEN "write" ELSE NextStage(r)]]
    IN  /\ r.chain # <<>> /\ r.op = NoOp
        /\ ~CloseReady(r)   \* close awaited the chain before this operation did
        /\ CASE head.kind # "drain" /\ r.close # "no" -> Finish(i, begun, FALSE)
             [] head.kind = "flush" /\ r.close = "no" /\ r.materialized -> Finish(i, begun, TRUE)
             [] head.kind # "flush" /\ (head.kind = "append" => r.close = "no")
                /\ ~Contiguous(batch, r.cursor) -> Finish(i, begun, FALSE)
             [] OTHER -> /\ handle' = [handle EXCEPT ![i] = begun]
                         /\ UNCHANGED <<session, flusher, promised>>
        /\ taint' = IF r.state = "released" /\ handle'[i].op # NoOp THEN taint \cup {"stray"} ELSE taint
        /\ UNCHANGED <<disk, owner, faults, crashes>>

(* truncateTornTail. *)
Truncated(i) ==
    /\ handle[i].op.stage = "truncate"
    /\ disk' = [disk EXCEPT !.torn = FALSE, !.partial = 0]
    /\ handle' = [handle EXCEPT ![i].torn = FALSE,
                                ![i].op.stage = NextStage([handle[i] EXCEPT !.torn = FALSE])]
    /\ UNCHANGED <<owner, session, flusher, promised, faults, crashes, taint>>

(* persistBatch of the recovered records, already counted in the cursor. *)
Rewritten(i) ==
    LET r == handle[i]
    IN  /\ r.op.stage = "rewrite"
        /\ disk' = Extended(r.cursor - r.recovered, r.recovered)
        /\ handle' = [handle EXCEPT ![i].recovered = 0,
                                    ![i].op.stage = NextStage([r EXCEPT !.recovered = 0])]
        /\ UNCHANGED <<owner, session, flusher, promised, faults, crashes, taint>>

(* persistBatch of the operation's own batch (or persistHeader): append and *)
(* sync, or publish the new artifact without overwriting another one.       *)
Written(i) ==
    LET r == handle[i]
        k == Len(r.op.batch)
    IN  /\ r.op.stage = "write"
        /\ r.materialized \/ ~disk.exists
        /\ disk' = IF r.materialized THEN Extended(r.cursor, k) ELSE Published(k)
        /\ Finish(i, [r EXCEPT !.materialized = TRUE, !.cursor = @ + k], TRUE)
        /\ UNCHANGED <<owner, faults, crashes, taint>>

MaterializeRefused(i) ==
    /\ handle[i].op.stage = "write"
    /\ ~handle[i].materialized /\ disk.exists
    /\ Finish(i, handle[i], FALSE)
    /\ UNCHANGED <<disk, owner, faults, crashes, taint>>

(* A storage call fails: without effect (an append is rolled back), after   *)
(* a truncation or a publication whose sync failed, or with an append that  *)
(* could not be rolled back.                                                *)
StorageFails(i, left) ==
    LET r == handle[i]
        k == IF r.op.stage = "rewrite" THEN r.recovered ELSE Len(r.op.batch)
        s == IF r.op.stage = "rewrite" THEN r.cursor - r.recovered ELSE r.cursor
    IN  /\ r.op.stage # "none" /\ faults < MaxFaults
        /\ faults' = faults + 1
        /\ CASE left = "nothing" -> UNCHANGED <<disk, taint>>
             [] left = "unsynced" /\ r.op.stage = "truncate"
                  -> /\ disk' = [disk EXCEPT !.torn = FALSE, !.partial = 0]
                     /\ UNCHANGED taint
             [] left = "unsynced" /\ r.op.stage = "write" /\ ~r.materialized
                  -> /\ ~disk.exists
                     /\ disk' = Published(k)
                     /\ UNCHANGED taint
             [] left = "bytes" /\ r.op.stage # "truncate" /\ r.materialized
                  -> /\ disk' \in CutShort(s, k)
                     /\ taint' = taint \cup {"rollback"}
             [] OTHER -> FALSE
        /\ Finish(i, r, FALSE)
        /\ UNCHANGED <<owner, crashes>>

-----------------------------------------------------------------------------
(* The batching timer, the drain loop and its joined callers. *)
(* Mutant: the deadline passes and nothing drains. *)
TimerFiresIdly(i) ==
    /\ Macrotask /\ handle[i].timer
    /\ handle' = [handle EXCEPT ![i].timer = FALSE]
    /\ UNCHANGED <<disk, owner, session, flusher, promised, faults, crashes, taint>>

TimerFires(i) ==
    /\ Macrotask /\ handle[i].timer
    /\ handle' = [handle EXCEPT ![i] = DrainLive([@ EXCEPT !.timer = FALSE])]
    /\ UNCHANGED <<disk, owner, session, flusher, promised, faults, crashes, taint>>

(* Mutant: the drain writes one batch and returns. *)
DrainChecksOnce(i) ==
    /\ handle[i].drain = "check"
    /\ handle' = [handle EXCEPT ![i].drain = "settled"]
    /\ UNCHANGED <<disk, owner, session, flusher, promised, faults, crashes, taint>>

(* The while of drainBuffered, after a batch was written. *)
DrainChecks(i) ==
    /\ handle[i].drain = "check"
    /\ handle' = [handle EXCEPT ![i] =
           IF @.buffered = <<>> THEN [@ EXCEPT !.drain = "settled"]
           ELSE [EnqueueChain(@, "drain", <<>>) EXCEPT !.drain = "op"]]
    /\ UNCHANGED <<disk, owner, session, flusher, promised, faults, crashes, taint>>

(* The finally of drainLive, a microtask after the loop returned; then its  *)
(* callers resume.                                                          *)
DrainClears(i) ==
    LET r == handle[i]
        joined == flusher.pc = "drain" /\ flusher.handle = i
    IN  /\ r.drain = "settled"
        /\ handle' = [handle EXCEPT ![i] =
               [(IF joined /\ ~r.drainFailed /\ r.close = "no" THEN EnqueueChain(r, "flush", <<>>) ELSE r)
                EXCEPT !.drain = "none",
                       !.close = IF @ # "drain" THEN @ ELSE IF r.drainFailed THEN "last" ELSE "chain",
                       !.closeFailed = @ \/ (r.close = "drain" /\ r.drainFailed),
                       !.ahead = IF r.close = "drain" THEN Outstanding(r) ELSE @]]
        /\ flusher' = CASE ~joined -> flusher
                        [] joined /\ (r.drainFailed \/ r.close # "no") -> NoFlush
                        [] OTHER -> [flusher EXCEPT !.pc = "flush"]
        /\ UNCHANGED <<disk, owner, session, promised, faults, crashes, taint>>

(* What a durability barrier is asked for: the log up to the last event     *)
(* routed to the handle, nothing if the stored prefix was only reopened.    *)
Emitted == IF session.state = "published" /\ session.seq > session.opened
           THEN session.seq ELSE 0

(* session/flush: drain, then handle.flush.  `late` marks a call that joins *)
(* a drain whose loop has already returned.                                 *)
SessionFlush ==
    /\ flusher = NoFlush /\ owner # 0 /\ session.state = "published"
    /\ flusher' = [pc |-> "drain", handle |-> owner,
                   need |-> Emitted,
                   late |-> handle[owner].drain = "settled" /\ handle[owner].buffered # <<>>]
    /\ handle' = [handle EXCEPT ![owner] = DrainLive(@)]
    /\ UNCHANGED <<disk, owner, session, promised, faults, crashes, taint>>

-----------------------------------------------------------------------------
(* close: drain until a full pass leaves the buffer empty, then release. *)
Close ==
    /\ owner # 0
    /\ handle[owner].state = "open" /\ handle[owner].close = "no"
    /\ handle' = [handle EXCEPT ![owner] =
           [DrainLive(@) EXCEPT !.close = "drain",
                                !.closeNeed = Emitted]]
    /\ UNCHANGED <<disk, owner, session, flusher, promised, faults, crashes, taint>>

CloseChecks(i) ==
    /\ handle[i].close = "chain" /\ CloseReady(handle[i])
    /\ handle' = [handle EXCEPT ![i] =
           IF @.buffered = <<>>
           THEN [@ EXCEPT !.close = "last", !.ahead = Outstanding(handle[i])]
           ELSE [DrainLive(@) EXCEPT !.close = "drain"]]
    /\ UNCHANGED <<disk, owner, session, flusher, promised, faults, crashes, taint>>

(* releaseHandle; the session leaves its registries. *)
Release(i) ==
    /\ handle[i].close = "last" /\ CloseReady(handle[i])
    /\ handle' = [handle EXCEPT ![i].close = "closed", ![i].state = "released"]
    /\ owner' = 0
    /\ session' = NoSession
    /\ UNCHANGED <<disk, flusher, promised, faults, crashes, taint>>

(* The process dies: only the artifact is left, with whatever a write in    *)
(* progress had reached.                                                    *)
Crash ==
    /\ crashes < MaxCrashes
    /\ crashes' = crashes + 1
    /\ \/ UNCHANGED disk
       \/ \E i \in Handles : LET r == handle[i] IN
            \/ r.op.stage = "write" /\ r.materialized /\ disk' \in CutShort(r.cursor, Len(r.op.batch))
            \/ r.op.stage = "write" /\ ~r.materialized /\ ~disk.exists /\ disk' = Published(Len(r.op.batch))
            \/ r.op.stage = "rewrite" /\ disk' \in CutShort(r.cursor - r.recovered, r.recovered)
            \/ r.op.stage = "truncate" /\ disk' = [disk EXCEPT !.torn = FALSE, !.partial = 0]
    /\ handle' = [i \in Handles |-> IF handle[i].state = "none" THEN Fresh
                                    ELSE [Fresh EXCEPT !.state = "dead"]]
    /\ owner' = 0
    /\ session' = NoSession
    /\ flusher' = NoFlush
    /\ UNCHANGED <<promised, faults, taint>>

StorageCall(i) ==
    /\ Macrotask
    /\ \/ Truncated(i) \/ Rewritten(i) \/ Written(i) \/ MaterializeRefused(i)
       \/ \E left \in {"nothing", "unsynced", "bytes"} : StorageFails(i, left)

Next ==
    \/ \E i \in Handles :
         \/ \E seed \in 0..1 : Create(i, seed)
         \/ claimWrite(i) \/ OpenFails(i)
         \/ \E closers \in 0..1 : OpenAdopts(i, closers)
         \/ OpStarts(i) \/ StorageCall(i)
         \/ TimerFires(i) \/ DrainChecks(i) \/ DrainClears(i)
         \/ CloseChecks(i) \/ Release(i)
    \/ appendUnstoredSuffix \/ MoreSetup \/ Publish \/ SessionAppend
    \/ SessionFlush \/ Close \/ Crash

(* Timers fire, storage calls settle and continuations run; nobody has to   *)
(* append, flush, close or crash.  Fairness is strong for the macrotasks:   *)
(* a flush with nothing to write only queues continuations, and the event   *)
(* loop takes its next timer or completion whenever those have run out.     *)
Spec ==
    /\ Init /\ [][Next]_vars
    /\ WF_vars(\E i \in Handles : OpStarts(i))
    /\ WF_vars(\E i \in Handles : DrainChecks(i) \/ DrainClears(i))
    /\ WF_vars(MoreSetup \/ Publish \/ \E i \in Handles : CloseChecks(i) \/ Release(i))
    /\ SF_vars(\E i \in Handles : StorageCall(i) \/ TimerFires(i))

-----------------------------------------------------------------------------
Seqs == 0..MaxEvents

TypeOK ==
    /\ disk \in [exists : BOOLEAN, n : Nat, torn : BOOLEAN, partial : Nat, bad : BOOLEAN]
    /\ owner \in 0..MaxHandles
    /\ session.state \in {"none", "setup", "storing", "stored", "failed", "published"}
    /\ session.seq \in Seqs /\ session.stored \in Seqs /\ session.opened \in Seqs
    /\ flusher.pc \in {"none", "drain", "flush"} /\ flusher.handle \in 0..MaxHandles
    /\ flusher.need \in Seqs /\ flusher.late \in BOOLEAN
    /\ promised \in Seqs
    /\ faults \in 0..MaxFaults /\ crashes \in 0..MaxCrashes
    /\ taint \subseteq Taints
    /\ \A i \in Handles : LET r == handle[i] IN
         /\ r.state \in {"none", "claimed", "open", "released", "dead"}
         /\ r.cursor \in Seqs /\ r.recovered \in Seqs /\ r.closeNeed \in Seqs
         /\ {r.materialized, r.torn, r.timer, r.paused, r.drainFailed, r.closeFailed} \subseteq BOOLEAN
         /\ r.buffered \in Seq(Seqs) /\ r.op.batch \in Seq(Seqs)
         /\ r.drain \in {"none", "op", "check", "settled"}
         /\ r.op.kind \in {"none", "append", "flush", "drain"}
         /\ r.op.stage \in {"none", "truncate", "rewrite", "write"}
         /\ r.close \in {"no", "drain", "chain", "last", "closed"}
         /\ r.ahead \in Nat

Sound == taint \cap {"rollback", "stray"} = {}

(* However crashes, failed calls, torn tails and retries interleave, no      *)
(* record is written twice, out of sequence or behind torn bytes, and the    *)
(* owner's cursor is exactly what a reader of the artifact would count -     *)
(* unless an append could not even be rolled back, or a released handle      *)
(* wrote (SingleWriter).                                                     *)
StoredContiguous ==
    Sound => /\ ~disk.bad
             /\ \A i \in Handles : handle[i].state = "open" /\ handle[i].materialized
                  => handle[i].cursor = disk.n + handle[i].recovered

(* What a published session emitted is durable, in the batch being written   *)
(* or retained in order behind it; no failure reorders or drops an event.    *)
RetainedInOrder ==
    session.state = "published" /\ "gap" \notin taint /\ owner # 0 =>
        LET r == handle[owner]
            kept == (IF r.op.kind = "drain" THEN r.op.batch ELSE <<>>) \o r.buffered
        IN  Contiguous(kept, r.cursor) /\ r.cursor + Len(kept) = session.seq

(* From the producer to the artifact no crash, failure or retry changes the  *)
(* order of the events (NextStage, Retained).                                *)
OrderIsKept == StoredContiguous /\ RetainedInOrder

(* An open handle never sits on events nobody is going to write: a timer is  *)
(* armed, a drain is under way, or a failure has paused it loudly.           *)
NothingForgotten ==
    \A i \in Handles : handle[i].state = "open" /\ handle[i].buffered # <<>>
        => handle[i].timer \/ handle[i].drain \in {"op", "check"} \/ handle[i].paused

(* What is buffered reaches the artifact, in its order.                      *)
BufferDiscipline == OrderIsKept /\ NothingForgotten

(* A resolved session/flush is kept: what was emitted before the call stays  *)
(* in the committed prefix, over every later crash and repair - unless the   *)
(* call joined a drain that had already returned (FlushIsBarrier).           *)
PromisedSurvives == taint = {} => promised <= disk.n

(* A close that does not reject has made everything durable that was emitted *)
(* before it was called.                                                     *)
CloseIsLossless ==
    \A i \in Handles :
        taint = {} /\ handle[i].close = "closed" /\ ~handle[i].closeFailed
            => handle[i].closeNeed <= disk.n

(* An answer about durability is kept, whether it came from flush or close.  *)
DurableAsPromised == PromisedSurvives /\ CloseIsLossless

(* No event is lost on its way: it is buffered in order, written in order,   *)
(* and there once a flush or a close has said so.                            *)
LosesNothing == BufferDiscipline /\ DurableAsPromised

\* A close is under way, or an unpaused handle holds events.
Working == \E i \in Handles :
    \/ handle[i].close \in {"drain", "chain", "last"}
    \/ handle[i].state = "open" /\ handle[i].buffered # <<>> /\ ~handle[i].paused

(* The handles come to rest: a close ends whatever fails meanwhile, and      *)
(* buffered events are written or the failure shows.                         *)
HandleProgresses == Working ~> ~Working

(* "enforces one active writer per session id": only the owner writes.       *)
SingleWriter == "stray" \notin taint

FlushResolves ==
    /\ flusher.pc = "flush" /\ flusher'.pc = "none" /\ crashes' = crashes
    /\ handle[flusher.handle].close = "no" /\ handle'[flusher.handle].materialized

(* "session/flush is the immediate durability ... barrier": whenever it      *)
(* resolves, everything emitted before the call is durable.                  *)
FlushIsBarrier == [][FlushResolves /\ taint = {} => flusher.need <= disk'.n]_vars

(* "an event appended during the await must stay unstored for the next       *)
(* flush": publication leaves no event behind that no flush will store.      *)
PublishedIsStored == "gap" \notin taint

=============================================================================
