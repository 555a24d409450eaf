------------------------- MODULE JsonlHandle_proofs -------------------------
(***************************************************************************)
(* What TLAPS proves of the JSONL write handle, for compressed and plain   *)
(* artifacts, any number of events, handles, failing storage calls and     *)
(* crashes: its types, and that no event is lost, doubled or reordered on  *)
(* its way to the artifact.  Three facts carry the proof: SessionRouted,   *)
(* that what the owner holds continues its cursor up to the session's last *)
(* event; DiskTrue, that the cursor is what is committed and what is left  *)
(* to repair; and FlushTrue, what the drain a flush waits for has written. *)
(* Steps are reasoned about by what they leave alone (StoreKept,           *)
(* CloseKept, FlushKept, RoutedKept) and by how an operation ends          *)
(* (FinishKept, FailsKept).                                                *)
(***************************************************************************)
EXTENDS JsonlHandle, SequenceTheorems, TLAPS

-----------------------------------------------------------------------------
(* The inductive invariant. *)

\* An event is its seq.
Event == {e \in Nat : e < MaxEvents}

\* A queued operation, a started one, a handle, the session and the flusher.
Entry == [kind : {"append", "flush", "drain"}, batch : Seq(Event)]
Operation ==
    [kind : {"none", "append", "flush", "drain"},
     stage : {"none", "truncate", "rewrite", "write"}, batch : Seq(Event)]
Handle ==
    [state : {"none", "claimed", "open", "released", "dead"},
     cursor : Seqs, materialized : BOOLEAN, torn : BOOLEAN, recovered : Seqs,
     buffered : Seq(Event), timer : BOOLEAN, paused : BOOLEAN,
     drain : {"none", "op", "check", "settled"}, drainFailed : BOOLEAN,
     chain : Seq(Entry), op : Operation,
     close : {"no", "drain", "chain", "last", "closed"}, ahead : Nat,
     closeFailed : BOOLEAN, closeNeed : Seqs]
Artifact == [exists : BOOLEAN, n : Nat, torn : BOOLEAN, partial : Nat, bad : BOOLEAN]
LiveSession ==
    [state : {"none", "setup", "storing", "stored", "failed", "published"},
     seq : Seqs, stored : Seqs, opened : Seqs]
Caller == [pc : {"none", "drain", "flush"}, handle : 0..MaxHandles, need : Seqs, late : BOOLEAN]

Bounds ==
    /\ Compressed \in BOOLEAN
    /\ MaxEvents \in Nat /\ MaxHandles \in Nat /\ MaxFaults \in Nat /\ MaxCrashes \in Nat
Types ==
    /\ Bounds
    /\ disk \in Artifact /\ handle \in [Handles -> Handle]
    /\ owner \in 0..MaxHandles /\ session \in LiveSession /\ flusher \in Caller
    /\ promised \in Seqs /\ faults \in 0..MaxFaults /\ crashes \in 0..MaxCrashes
    /\ taint \subseteq Taints

\* The operation a handle has started: its repairs come first, and the batch
\* it writes goes on where the cursor is.
OperationFits(r) ==
    /\ r.op.kind = "none" <=> r.op = NoOp
    /\ r.op.stage = "none" => r.op = NoOp
    /\ r.op.stage = "truncate" => r.torn
    /\ r.op.stage = "rewrite" => ~r.torn /\ r.recovered > 0
    /\ r.op.stage = "write" => ~r.torn /\ r.recovered = 0
    /\ Contiguous(r.op.batch, r.cursor)
    /\ r.op.kind = "flush" => r.op.batch = <<>>

\* One drain is under way at a time, and only while the loop awaits it.
SingleDrain(r) ==
    /\ r.op.kind = "drain" => r.drain = "op"
    /\ \A k \in DOMAIN r.chain : r.chain[k].kind = "drain" =>
          /\ r.drain = "op" /\ r.op.kind # "drain"
          /\ \A l \in DOMAIN r.chain : r.chain[l].kind = "drain" => l = k
    /\ \A k \in DOMAIN r.chain : r.chain[k].kind = "flush" => r.chain[k].batch = <<>>

\* What a handle's record says of itself, whatever operation it has started.
Idle(r) == r.state \in {"none", "claimed", "dead"}
Steady(r) ==
    /\ ~r.materialized => r.cursor = 0 /\ r.recovered = 0 /\ ~r.torn
    /\ SingleDrain(r)
    /\ r.close \in {"drain", "chain", "last"} => r.state = "open"
    /\ Idle(r) => r.chain = <<>> /\ r.close = "no" /\ r.drain = "none" /\ ~r.timer

\* Somebody is going to write what an open handle holds.
Remembered(r) ==
    r.state = "open" /\ r.buffered # <<>>
        => r.timer \/ r.drain \in {"op", "check"} \/ r.paused

Coherent(r) ==
    /\ Steady(r) /\ Remembered(r) /\ OperationFits(r)
    /\ r.close \in {"chain", "last"} /\ r.ahead = 0 => r.op = NoOp
    /\ Idle(r) => r.op = NoOp
    /\ r.state = "none" => r = Fresh

HandlesCoherent == \A i \in Handles : Coherent(handle[i])

\* The claim on the log: one handle has it, and with it the session.
OneOwner ==
    /\ \A i \in Handles : handle[i].state \in {"claimed", "open"} <=> owner = i
    /\ session.state # "none" => owner # 0 /\ handle[owner].state = "open"

Kept(r) == (IF r.op.kind = "drain" THEN r.op.batch ELSE <<>>) \o r.buffered

\* The one append of a session that stores its suffix.
Storing(r, s) ==
    \/ /\ r.op = NoOp /\ Len(r.chain) = 1 /\ r.chain[1].kind = "append"
       /\ s.stored + Len(r.chain[1].batch) <= s.seq
    \/ /\ r.chain = <<>> /\ r.op.kind = "append"
       /\ s.stored + Len(r.op.batch) <= s.seq

\* What the owner holds for the session, at each stage of its publication.
Routed(r, s, gap) ==
    /\ s.state \in {"setup", "stored", "storing"} =>
          r.cursor = s.stored /\ s.stored <= s.seq /\ r.buffered = <<>>
    /\ s.state \in {"setup", "stored"} => r.chain = <<>> /\ r.op = NoOp
    /\ s.state = "storing" => Storing(r, s)
    /\ s.state = "published" =>
          /\ r.op.kind # "append"
          /\ \A k \in DOMAIN r.chain : r.chain[k].kind # "append"
          /\ ~gap => Contiguous(Kept(r), r.cursor) /\ r.cursor + Len(Kept(r)) = s.seq
    /\ r.recovered > 0 => r.cursor = s.opened

SessionRouted ==
    session.state # "none" => Routed(handle[owner], session, "gap" \in taint)

\* The artifact and the handles that write it.
DiskTrue ==
    /\ ~disk.exists => disk.n = 0 /\ ~disk.torn
    /\ \A i \in Handles : handle[i].materialized \/ handle[i].state = "claimed" => disk.exists
    /\ Sound =>
          /\ ~disk.bad
          /\ \A i \in Handles : handle[i].op # NoOp => handle[i].state = "open"
          /\ \A i \in Handles : handle[i].state = "open" /\ handle[i].materialized
                => /\ handle[i].cursor = disk.n + handle[i].recovered
                   /\ disk.torn => handle[i].torn

\* A flush that waits for a drain, or for its own operation.
FlushTrue ==
    /\ flusher.pc # "none" => flusher.handle \in Handles
    /\ flusher.pc = "drain" /\ handle[flusher.handle].close = "no" =>
          /\ flusher.handle = owner /\ session.state = "published"
          /\ flusher.need <= session.seq
          /\ flusher.need > 0 => session.opened < flusher.need
          /\ handle[owner].drain # "none"
          /\ handle[owner].drain = "settled" /\ ~handle[owner].drainFailed
                /\ ~flusher.late /\ taint = {} => flusher.need <= handle[owner].cursor
    /\ flusher.pc = "flush" /\ ~flusher.late /\ taint = {} => flusher.need <= disk.n
    /\ taint = {} => promised <= disk.n

\* A close that waits for a drain or the chain, and one that is past both.
CloseTrue ==
    \A i \in Handles :
        /\ handle[i].close \in {"drain", "chain"} /\ handle[i].closeNeed > 0 =>
              /\ session.state = "published"
              /\ session.opened < handle[i].closeNeed
              /\ handle[i].closeNeed <= session.seq
        /\ taint = {} /\ handle[i].close \in {"last", "closed"} /\ ~handle[i].closeFailed
              => handle[i].closeNeed <= disk.n

IInv ==
    /\ Types /\ HandlesCoherent /\ OneOwner /\ SessionRouted
    /\ DiskTrue /\ FlushTrue /\ CloseTrue

-----------------------------------------------------------------------------
(* Batches and chains. *)

\* A contiguous batch of events ends within the bound.
LEMMA BatchEnds ==
    ASSUME MaxEvents \in Nat, NEW b \in Seq(Event), NEW c \in Seqs, Contiguous(b, c)
    PROVE  c + Len(b) \in Seqs
<1>1. Len(b) \in Nat /\ DOMAIN b = 1..Len(b) /\ c \in Nat /\ c <= MaxEvents
    BY LenProperties DEF Seqs
<1>2. CASE Len(b) = 0
    BY <1>1, <1>2 DEF Seqs
<1>3. CASE Len(b) > 0
  <2>1. Len(b) \in 1..Len(b)
      BY <1>1, <1>3
  <2>2. b[Len(b)] \in Event
      BY <2>1, ElementOfSeq
  <2>3. b[Len(b)] = c + Len(b) - 1
      BY <1>1, <2>1 DEF Contiguous
  <2> QED BY <1>1, <1>3, <2>2, <2>3 DEF Event, Seqs
<1> QED BY <1>1, <1>2, <1>3

\* What is left behind a written batch goes on where the cursor then is.
LEMMA ContiguousRest ==
    ASSUME NEW b \in Seq(Event), NEW d \in Seq(Event), NEW c \in Nat, Contiguous(b \o d, c)
    PROVE  Contiguous(d, c + Len(b))
<1>1. /\ Len(b) \in Nat /\ Len(d) \in Nat /\ DOMAIN d = 1..Len(d)
      /\ b \o d \in Seq(Event) /\ Len(b \o d) = Len(b) + Len(d)
      /\ DOMAIN (b \o d) = 1..Len(b \o d)
    BY LenProperties, ConcatProperties
<1>2. ASSUME NEW k \in DOMAIN d PROVE d[k] = c + Len(b) + k - 1
  <2>1. Len(b) + k \in 1..(Len(b) + Len(d)) /\ ~(Len(b) + k <= Len(b))
        /\ (Len(b) + k) - Len(b) = k
      BY <1>1
  <2>2. (b \o d)[Len(b) + k] = d[k]
      BY <2>1, ConcatProperties
  <2>3. (b \o d)[Len(b) + k] = c + (Len(b) + k) - 1
      BY <1>1, <2>1 DEF Contiguous
  <2> QED BY <1>1, <2>2, <2>3
<1> QED BY <1>2 DEF Contiguous

\* The next event routed to the handle extends the batch it will be part of.
LEMMA ContiguousAppend ==
    ASSUME NEW b \in Seq(Event), NEW c \in Nat, NEW e \in Event,
           Contiguous(b, c), e = c + Len(b)
    PROVE  Contiguous(Append(b, e), c)
<1>1. /\ Len(b) \in Nat /\ DOMAIN b = 1..Len(b)
      /\ Append(b, e) \in Seq(Event) /\ Len(Append(b, e)) = Len(b) + 1
      /\ DOMAIN Append(b, e) = 1..(Len(b) + 1)
    BY LenProperties, AppendProperties
<1>2. ASSUME NEW k \in 1..(Len(b) + 1) PROVE Append(b, e)[k] = c + k - 1
  <2>1. CASE k = Len(b) + 1
      BY <1>1, <2>1, AppendProperties
  <2>2. CASE k # Len(b) + 1
    <3>1. k \in 1..Len(b)
        BY <1>1, <2>2
    <3> QED BY <1>1, <3>1, AppendProperties DEF Contiguous
  <2> QED BY <2>1, <2>2
<1> QED BY <1>1, <1>2 DEF Contiguous

\* The empty batch.
LEMMA Nothing == /\ <<>> \in Seq(Event) /\ Len(<<>>) = 0 /\ <<>> \in Seq(Entry)
                 /\ \A c \in Nat : Contiguous(<<>>, c)
<1>1. <<>> \in Seq(Event) /\ Len(<<>>) = 0 /\ <<>> \in Seq(Entry)
    BY EmptySeq
<1>2. DOMAIN <<>> = {}
    BY <1>1, LenProperties
<1> QED BY <1>1, <1>2 DEF Contiguous

\* One more operation on the chain.
LEMMA ChainGrows ==
    ASSUME NEW s \in Seq(Entry), NEW e \in Entry
    PROVE  /\ Append(s, e) \in Seq(Entry) /\ Append(s, e) # <<>>
           /\ Len(s) \in Nat /\ DOMAIN s = 1..Len(s) /\ Len(Append(s, e)) = Len(s) + 1
           /\ DOMAIN Append(s, e) = 1..(Len(s) + 1)
           /\ \A k \in DOMAIN s : Append(s, e)[k] = s[k]
           /\ Append(s, e)[Len(s) + 1] = e
           /\ \A k \in DOMAIN Append(s, e) : k \in DOMAIN s \/ k = Len(s) + 1
<1>1. /\ Len(s) \in Nat /\ DOMAIN s = 1..Len(s)
      /\ Append(s, e) \in Seq(Entry) /\ Len(Append(s, e)) = Len(s) + 1 /\ Append(s, e) # <<>>
    BY LenProperties, AppendProperties
<1>2. DOMAIN Append(s, e) = 1..(Len(s) + 1)
    BY <1>1, LenProperties
<1> QED BY <1>1, <1>2, AppendProperties

\* The first operation leaves the chain.
LEMMA ChainShrinks ==
    ASSUME NEW s \in Seq(Entry), s # <<>>
    PROVE  /\ Tail(s) \in Seq(Entry) /\ Head(s) \in Entry
           /\ Len(s) \in Nat /\ Len(s) > 0 /\ DOMAIN s = 1..Len(s)
           /\ DOMAIN Tail(s) = 1..(Len(s) - 1)
           /\ Head(s) = s[1] /\ 1 \in DOMAIN s
           /\ \A k \in DOMAIN Tail(s) : Tail(s)[k] = s[k + 1] /\ k + 1 \in DOMAIN s /\ k + 1 # 1
           /\ Len(s) = 1 => Tail(s) = <<>>
<1>1. /\ Tail(s) \in Seq(Entry) /\ Head(s) \in Entry /\ Len(s) \in Nat /\ Len(s) > 0
      /\ DOMAIN s = 1..Len(s) /\ Len(Tail(s)) = Len(s) - 1
      /\ \A i \in 1..Len(Tail(s)) : Tail(s)[i] = s[i + 1]
    BY LenProperties, HeadTailProperties, EmptySeq
<1>2. DOMAIN Tail(s) = 1..(Len(s) - 1)
    BY <1>1, LenProperties
<1>3. Head(s) = s[1]
    OBVIOUS
<1>4. ASSUME NEW k \in DOMAIN Tail(s)
      PROVE  Tail(s)[k] = s[k + 1] /\ k + 1 \in DOMAIN s /\ k + 1 # 1
  <2>1. k \in 1..(Len(s) - 1) /\ Len(s) - 1 \in Nat
      BY <1>1, <1>2
  <2> QED BY <1>1, <2>1
<1>5. ASSUME Len(s) = 1 PROVE Tail(s) = <<>>
  <2>1. Len(Tail(s)) = 0
      BY <1>1, <1>5
  <2>2. Tail(s) # <<>> => Len(Tail(s)) \in Nat \ {0}
      BY <1>1, EmptySeq
  <2> QED BY <2>1, <2>2
<1> QED BY <1>1, <1>2, <1>3, <1>4, <1>5

\* An event that is routed while a batch is being written comes after both.
LEMMA AppendLast ==
    ASSUME NEW b \in Seq(Event), NEW d \in Seq(Event), NEW e \in Event
    PROVE  b \o Append(d, e) = Append(b \o d, e)
<1>1. <<e>> \in Seq(Event) /\ b \o d \in Seq(Event)
    BY ConcatProperties
<1>2. (b \o d) \o <<e>> = b \o (d \o <<e>>)
    BY <1>1, ConcatAssociative
<1>3. Append(d, e) = d \o <<e>> /\ Append(b \o d, e) = (b \o d) \o <<e>>
    BY <1>1, AppendIsConcat
<1> QED BY <1>2, <1>3

-----------------------------------------------------------------------------
(* What each operation of a handle changes of its record. *)

\* What a handle knows of the artifact, and how far its close has come.
SameStore(q, r) ==
    /\ q.state = r.state /\ q.cursor = r.cursor /\ q.materialized = r.materialized
    /\ q.torn = r.torn /\ q.recovered = r.recovered
SameClose(q, r) ==
    q.close = r.close /\ q.closeFailed = r.closeFailed /\ q.closeNeed = r.closeNeed

\* An operation joins the chain (enqueueChain).
LEMMA EnqueueChainIs ==
    ASSUME NEW r \in Handle, NEW kind \in {"append", "flush", "drain"},
           NEW batch \in Seq(Event)
    PROVE  LET q == EnqueueChain(r, kind, batch) IN
           /\ q \in Handle /\ SameStore(q, r) /\ SameClose(q, r)
           /\ q.chain = Append(r.chain, [kind |-> kind, batch |-> batch])
           /\ q.op = r.op /\ q.buffered = r.buffered /\ q.ahead = r.ahead
           /\ q.timer = r.timer /\ q.paused = r.paused
           /\ q.drain = r.drain /\ q.drainFailed = r.drainFailed
<1> DEFINE c == Append(r.chain, [kind |-> kind, batch |-> batch])
           q == [r EXCEPT !.chain = c]
<1>1. EnqueueChain(r, kind, batch) = q
    BY DEF EnqueueChain
<1>2. c \in Seq(Entry)
  <2>1. [kind |-> kind, batch |-> batch] \in Entry /\ r.chain \in Seq(Entry)
      BY DEF Entry, Handle
  <2> QED BY <2>1, ChainGrows
<1> HIDE DEF c
<1>3. q \in Handle
    BY <1>2 DEF Handle
<1>4. /\ SameStore(q, r) /\ SameClose(q, r) /\ q.chain = c
      /\ q.op = r.op /\ q.buffered = r.buffered /\ q.ahead = r.ahead
      /\ q.timer = r.timer /\ q.paused = r.paused
      /\ q.drain = r.drain /\ q.drainFailed = r.drainFailed
    BY DEF Handle, SameStore, SameClose
<1> QED BY <1>1, <1>3, <1>4 DEF c

\* A drain starts, or is joined (drainLive).
LEMMA DrainLiveIs ==
    ASSUME NEW r \in Handle
    PROVE  LET q == DrainLive(r) IN
           /\ q \in Handle /\ SameStore(q, r) /\ SameClose(q, r)
           /\ q.op = r.op /\ q.buffered = r.buffered /\ q.ahead = r.ahead
           /\ r.drain # "none" => q = r
           /\ r.drain = "none" /\ r.buffered = <<>> => q.drain = "settled" /\ q.chain = r.chain
           /\ r.drain = "none" /\ r.buffered # <<>> =>
                /\ q.drain = "op"
                /\ q.chain = Append(r.chain, [kind |-> "drain", batch |-> <<>>])
<1> DEFINE p == [r EXCEPT !.timer = FALSE, !.paused = FALSE, !.drainFailed = FALSE]
<1>1. /\ p \in Handle /\ SameStore(p, r) /\ SameClose(p, r)
      /\ p.op = r.op /\ p.buffered = r.buffered /\ p.ahead = r.ahead
      /\ p.drain = r.drain /\ p.chain = r.chain
    BY DEF Handle, SameStore, SameClose
<1>2. CASE r.drain # "none"
    BY <1>2 DEF DrainLive, SameStore, SameClose
<1>3. CASE r.drain = "none" /\ r.buffered = <<>>
  <2>1. DrainLive(r) = [p EXCEPT !.drain = "settled"]
      BY <1>1, <1>3 DEF DrainLive
  <2> HIDE DEF p
  <2>2. LET q == [p EXCEPT !.drain = "settled"] IN
        /\ q \in Handle /\ SameStore(q, p) /\ SameClose(q, p)
        /\ q.op = p.op /\ q.buffered = p.buffered /\ q.ahead = p.ahead
        /\ q.drain = "settled" /\ q.chain = p.chain
      BY <1>1 DEF Handle, SameStore, SameClose
  <2> QED BY <1>1, <1>3, <2>1, <2>2 DEF SameStore, SameClose
<1>4. CASE r.drain = "none" /\ r.buffered # <<>>
  <2> DEFINE g == EnqueueChain(p, "drain", <<>>)
  <2>1. DrainLive(r) = [g EXCEPT !.drain = "op"]
      BY <1>1, <1>4 DEF DrainLive
  <2> HIDE DEF p
  <2>2. /\ g \in Handle /\ SameStore(g, p) /\ SameClose(g, p)
        /\ g.chain = Append(p.chain, [kind |-> "drain", batch |-> <<>>])
        /\ g.op = p.op /\ g.buffered = p.buffered /\ g.ahead = p.ahead
      BY <1>1, EnqueueChainIs, Nothing
  <2> HIDE DEF g
  <2>3. LET q == [g EXCEPT !.drain = "op"] IN
        /\ q \in Handle /\ SameStore(q, g) /\ SameClose(q, g)
        /\ q.op = g.op /\ q.buffered = g.buffered /\ q.ahead = g.ahead
        /\ q.drain = "op" /\ q.chain = g.chain
      BY <2>2 DEF Handle, SameStore, SameClose
  <2> QED BY <1>1, <1>4, <2>1, <2>2, <2>3 DEF SameStore, SameClose
<1> QED BY <1>2, <1>3, <1>4

\* An event is routed to the handle (enqueueLive).
LEMMA EnqueueLiveIs ==
    ASSUME NEW r \in Handle, NEW e \in Event
    PROVE  LET q == EnqueueLive(r, e) IN
           /\ q \in Handle /\ SameStore(q, r) /\ SameClose(q, r)
           /\ q.op = r.op /\ q.chain = r.chain /\ q.ahead = r.ahead
           /\ q.drain = r.drain /\ q.drainFailed = r.drainFailed
           /\ q.buffered = Append(r.buffered, e)
           /\ q.timer \/ q.paused
<1> DEFINE b == Append(r.buffered, e)
           t == r.timer \/ ~r.paused
           q == [r EXCEPT !.buffered = b, !.timer = t]
<1>1. EnqueueLive(r, e) = q
    BY DEF EnqueueLive
<1>2. b \in Seq(Event)
  <2>1. r.buffered \in Seq(Event)
      BY DEF Handle
  <2> QED BY <2>1, AppendProperties
<1>3. t \in BOOLEAN /\ (t \/ r.paused)
    BY DEF Handle
<1> HIDE DEF b, t
<1>4. q \in Handle
    BY <1>2, <1>3 DEF Handle
<1>5. /\ SameStore(q, r) /\ SameClose(q, r)
      /\ q.op = r.op /\ q.chain = r.chain /\ q.ahead = r.ahead
      /\ q.drain = r.drain /\ q.drainFailed = r.drainFailed
      /\ q.buffered = b /\ q.timer = t /\ q.paused = r.paused
    BY DEF Handle, SameStore, SameClose
<1>6. q.timer \/ q.paused
    BY <1>3, <1>5
<1> QED BY <1>1, <1>4, <1>5, <1>6 DEF b

\* The operation settles (the chain's finally, drainBuffered).
LEMMA SettledIs ==
    ASSUME NEW r \in Handle, NEW ok \in BOOLEAN
    PROVE  LET q == Settled(r, ok) IN
           /\ q \in Handle /\ SameStore(q, r) /\ SameClose(q, r)
           /\ q.op = NoOp /\ q.chain = r.chain /\ q.timer = r.timer
           /\ r.op.kind # "drain" =>
                /\ q.buffered = r.buffered /\ q.paused = r.paused
                /\ q.drain = r.drain /\ q.drainFailed = r.drainFailed
           /\ r.op.kind = "drain" /\ ok =>
                q.buffered = r.buffered /\ q.paused = r.paused /\ q.drain = "check"
           /\ r.op.kind = "drain" /\ ~ok =>
                q.buffered = Retained(r) /\ q.paused /\ q.drain = "settled" /\ q.drainFailed
<1> DEFINE a == IF r.ahead > 0 THEN r.ahead - 1 ELSE 0
           p == [r EXCEPT !.op = NoOp, !.ahead = a]
<1>1. a \in Nat
    BY DEF Handle
<1>2. NoOp \in Operation
    BY Nothing DEF NoOp, Operation
<1>3. p = [r EXCEPT !.op = NoOp, !.ahead = IF @ > 0 THEN @ - 1 ELSE 0]
    BY DEF Handle
<1>4. Settled(r, ok) =
        CASE r.op.kind # "drain" -> p
          [] r.op.kind = "drain" /\ ok -> [p EXCEPT !.drain = "check"]
          [] OTHER -> [p EXCEPT !.buffered = Retained(r), !.paused = TRUE,
                                !.drain = "settled", !.drainFailed = TRUE]
    BY <1>3 DEF Settled
<1> HIDE DEF a
<1>5. /\ p \in Handle /\ SameStore(p, r) /\ SameClose(p, r)
      /\ p.op = NoOp /\ p.chain = r.chain /\ p.timer = r.timer
      /\ p.buffered = r.buffered /\ p.paused = r.paused
      /\ p.drain = r.drain /\ p.drainFailed = r.drainFailed
  <2>1. p \in Handle
      BY <1>1, <1>2 DEF Handle
  <2> QED BY <2>1 DEF Handle, SameStore, SameClose
<1> HIDE DEF p
<1>6. CASE r.op.kind # "drain"
    BY <1>4, <1>5, <1>6
<1>7. CASE r.op.kind = "drain" /\ ok
  <2>1. Settled(r, ok) = [p EXCEPT !.drain = "check"]
      BY <1>4, <1>7
  <2>2. LET q == [p EXCEPT !.drain = "check"] IN
        /\ q \in Handle /\ SameStore(q, p) /\ SameClose(q, p)
        /\ q.op = p.op /\ q.chain = p.chain /\ q.timer = p.timer
        /\ q.buffered = p.buffered /\ q.paused = p.paused /\ q.drain = "check"
      BY <1>5 DEF Handle, SameStore, SameClose
  <2> QED BY <1>5, <1>7, <2>1, <2>2 DEF SameStore, SameClose
<1>8. CASE r.op.kind = "drain" /\ ~ok
  <2> DEFINE b == Retained(r)
  <2>1. b \in Seq(Event)
    <3>1. r.op.batch \in Seq(Event) /\ r.buffered \in Seq(Event)
        BY DEF Handle, Operation
    <3> QED BY <3>1, ConcatProperties DEF Retained
  <2> HIDE DEF b
  <2>2. Settled(r, ok) = [p EXCEPT !.buffered = b, !.paused = TRUE,
                                   !.drain = "settled", !.drainFailed = TRUE]
      BY <1>4, <1>8 DEF b
  <2>3. LET q == [p EXCEPT !.buffered = b, !.paused = TRUE,
                           !.drain = "settled", !.drainFailed = TRUE] IN
        /\ q \in Handle /\ SameStore(q, p) /\ SameClose(q, p)
        /\ q.op = p.op /\ q.chain = p.chain /\ q.timer = p.timer
        /\ q.buffered = b /\ q.paused /\ q.drain = "settled" /\ q.drainFailed
      BY <1>5, <2>1 DEF Handle, SameStore, SameClose
  <2> QED BY <1>5, <1>8, <2>2, <2>3 DEF SameStore, SameClose, b
<1> QED BY <1>6, <1>7, <1>8

\* The operation at the head of the chain, started.
Begun(r) ==
    LET head == Head(r.chain) IN
    [r EXCEPT !.chain = Tail(@),
              !.buffered = IF head.kind = "drain" THEN <<>> ELSE @,
              !.op = [kind |-> head.kind,
                      batch |-> IF head.kind = "drain" THEN r.buffered ELSE head.batch,
                      stage |-> IF head.kind = "flush" THEN "write" ELSE NextStage(r)]]

\* An operation starts (enqueueChain's body).
LEMMA BegunIs ==
    ASSUME NEW r \in Handle, r.chain # <<>>
    PROVE  LET q == Begun(r)
               head == Head(r.chain) IN
           /\ q \in Handle /\ SameStore(q, r) /\ SameClose(q, r) /\ q.ahead = r.ahead
           /\ q.timer = r.timer /\ q.paused = r.paused
           /\ q.drain = r.drain /\ q.drainFailed = r.drainFailed
           /\ q.chain = Tail(r.chain)
           /\ q.buffered = IF head.kind = "drain" THEN <<>> ELSE r.buffered
           /\ q.op.kind = head.kind
           /\ q.op.batch = IF head.kind = "drain" THEN r.buffered ELSE head.batch
           /\ q.op.stage = IF head.kind = "flush" THEN "write" ELSE NextStage(r)
           /\ head \in Entry /\ q.op \in Operation /\ q.op # NoOp
<1> DEFINE head == Head(r.chain)
           c == Tail(r.chain)
           b == IF head.kind = "drain" THEN <<>> ELSE r.buffered
           o == [kind |-> head.kind,
                 batch |-> IF head.kind = "drain" THEN r.buffered ELSE head.batch,
                 stage |-> IF head.kind = "flush" THEN "write" ELSE NextStage(r)]
           q == [r EXCEPT !.chain = c, !.buffered = b, !.op = o]
<1>1. Begun(r) = q
    BY DEF Begun, Handle
<1>2. r.chain \in Seq(Entry) /\ r.buffered \in Seq(Event)
    BY DEF Handle
<1>3. c \in Seq(Entry) /\ head \in Entry
    BY <1>2, ChainShrinks
<1>4. b \in Seq(Event)
    BY <1>2, Nothing
<1>5. /\ o \in Operation /\ o # NoOp
      /\ o.kind = head.kind
      /\ o.batch = IF head.kind = "drain" THEN r.buffered ELSE head.batch
      /\ o.stage = IF head.kind = "flush" THEN "write" ELSE NextStage(r)
  <2>1. head.kind \in {"append", "flush", "drain"} /\ head.batch \in Seq(Event)
      BY <1>3 DEF Entry
  <2>2. NextStage(r) \in {"truncate", "rewrite", "write"}
      BY DEF NextStage
  <2> HIDE DEF head
  <2> QED BY <1>2, <2>1, <2>2 DEF Operation, NoOp
<1> HIDE DEF head, c, b, o
<1>6. q \in Handle
    BY <1>3, <1>4, <1>5 DEF Handle
<1>7. /\ SameStore(q, r) /\ SameClose(q, r) /\ q.ahead = r.ahead
      /\ q.timer = r.timer /\ q.paused = r.paused
      /\ q.drain = r.drain /\ q.drainFailed = r.drainFailed
      /\ q.chain = c /\ q.buffered = b /\ q.op = o
    BY DEF Handle, SameStore, SameClose
<1> HIDE DEF q
<1>8. /\ q.buffered = IF head.kind = "drain" THEN <<>> ELSE r.buffered
      /\ q.chain = Tail(r.chain)
    BY <1>7 DEF b, c
<1> QED BY <1>1, <1>3, <1>5, <1>6, <1>7, <1>8 DEF head

-----------------------------------------------------------------------------
(* The record stays coherent. *)

\* A started operation settles, whatever it was.
LEMMA SettledCoherent ==
    ASSUME NEW r \in Handle, NEW ok \in BOOLEAN, Steady(r), Remembered(r), ~Idle(r)
    PROVE  Coherent(Settled(r, ok))
<1> DEFINE q == Settled(r, ok)
<1>1. /\ q \in Handle /\ SameStore(q, r) /\ SameClose(q, r)
      /\ q.op = NoOp /\ q.chain = r.chain /\ q.timer = r.timer
      /\ r.op.kind # "drain" =>
           /\ q.buffered = r.buffered /\ q.paused = r.paused
           /\ q.drain = r.drain /\ q.drainFailed = r.drainFailed
      /\ r.op.kind = "drain" /\ ok =>
           q.buffered = r.buffered /\ q.paused = r.paused /\ q.drain = "check"
      /\ r.op.kind = "drain" /\ ~ok =>
           q.buffered = Retained(r) /\ q.paused /\ q.drain = "settled" /\ q.drainFailed
    BY SettledIs
<1> HIDE DEF q
<1>2. q.op.kind = "none" /\ q.op.stage = "none" /\ q.op.batch = <<>>
    BY <1>1 DEF NoOp
<1>3. SingleDrain(q)
  <2>1. ~(q.op.kind = "drain")
      BY <1>2
  <2>2. \A k \in DOMAIN q.chain : q.chain[k].kind = "drain" =>
          /\ q.drain = "op"
          /\ \A l \in DOMAIN q.chain : q.chain[l].kind = "drain" => l = k
      BY <1>1 DEF Steady, SingleDrain
  <2>3. \A k \in DOMAIN q.chain : q.chain[k].kind = "flush" => q.chain[k].batch = <<>>
      BY <1>1 DEF Steady, SingleDrain
  <2> QED BY <2>1, <2>2, <2>3 DEF SingleDrain
<1>4. Steady(q)
  <2>1. Idle(r) => r.op.kind # "drain"
      BY DEF Steady, SingleDrain
  <2> QED BY <1>1, <1>3, <2>1 DEF Steady, SameStore, SameClose, Idle
<1>5. Remembered(q)
    BY <1>1 DEF Remembered, SameStore
<1>6. OperationFits(q)
  <2>1. q.cursor \in Nat
      BY <1>1 DEF Handle, Seqs
  <2>2. Contiguous(q.op.batch, q.cursor)
      BY <1>2, <2>1, Nothing
  <2> QED BY <1>1, <1>2, <2>2 DEF OperationFits
<1>7. Coherent(q)
    BY <1>1, <1>4, <1>5, <1>6 DEF Coherent, Idle, SameStore
<1> QED BY <1>7 DEF q

\* A started operation leaves the rest of the record as it was.
LEMMA BegunSteady ==
    ASSUME NEW r \in Handle, Coherent(r), r.chain # <<>>, r.op = NoOp
    PROVE  /\ Steady(Begun(r)) /\ Remembered(Begun(r)) /\ ~Idle(r)
           /\ Begun(r).op.kind = "flush" => Begun(r).op.batch = <<>>
<1> DEFINE q == Begun(r)
           head == Head(r.chain)
<1>1. /\ q \in Handle /\ SameStore(q, r) /\ SameClose(q, r)
      /\ q.timer = r.timer /\ q.paused = r.paused
      /\ q.drain = r.drain /\ q.drainFailed = r.drainFailed
      /\ q.chain = Tail(r.chain)
      /\ q.buffered = IF head.kind = "drain" THEN <<>> ELSE r.buffered
      /\ q.op.kind = head.kind
      /\ q.op.batch = IF head.kind = "drain" THEN r.buffered ELSE head.batch
    BY BegunIs
<1>2. r.chain \in Seq(Entry)
    BY DEF Handle
<1>3. /\ head = r.chain[1] /\ 1 \in DOMAIN r.chain
      /\ \A k \in DOMAIN Tail(r.chain) :
            Tail(r.chain)[k] = r.chain[k + 1] /\ k + 1 \in DOMAIN r.chain /\ k + 1 # 1
      /\ \A k \in DOMAIN Tail(r.chain) : k \in Nat
    BY <1>2, ChainShrinks
<1> HIDE DEF q, head
<1>4. SingleDrain(q)
  <2>1. q.op.kind = "drain" => q.drain = "op"
      BY <1>1, <1>3 DEF Coherent, Steady, SingleDrain
  <2>2. ASSUME NEW k \in DOMAIN q.chain, q.chain[k].kind = "drain"
        PROVE  q.drain = "op" /\ q.op.kind # "drain"
    <3>1. q.chain[k] = r.chain[k + 1] /\ k + 1 \in DOMAIN r.chain /\ k + 1 # 1
        BY <1>1, <1>3
    <3> QED BY <1>1, <1>3, <2>2, <3>1 DEF Coherent, Steady, SingleDrain
  <2>3. ASSUME NEW k \in DOMAIN q.chain, NEW l \in DOMAIN q.chain,
               q.chain[k].kind = "drain", q.chain[l].kind = "drain"
        PROVE  l = k
    <3>1. /\ q.chain[k] = r.chain[k + 1] /\ k + 1 \in DOMAIN r.chain
          /\ q.chain[l] = r.chain[l + 1] /\ l + 1 \in DOMAIN r.chain
          /\ k \in Nat /\ l \in Nat
        BY <1>1, <1>3
    <3>2. k + 1 = l + 1
        BY <2>3, <3>1 DEF Coherent, Steady, SingleDrain
    <3> QED BY <3>1, <3>2
  <2>4. ASSUME NEW k \in DOMAIN q.chain, q.chain[k].kind = "flush"
        PROVE  q.chain[k].batch = <<>>
    <3>1. q.chain[k] = r.chain[k + 1] /\ k + 1 \in DOMAIN r.chain
        BY <1>1, <1>3
    <3> QED BY <2>4, <3>1 DEF Coherent, Steady, SingleDrain
  <2> QED BY <2>1, <2>2, <2>3, <2>4 DEF SingleDrain
<1>5. ~Idle(r)
    BY DEF Coherent, Steady
<1>6. Steady(q)
    BY <1>1, <1>4, <1>5 DEF Coherent, Steady, SameStore, SameClose, Idle
<1>7. Remembered(q)
    BY <1>1 DEF Coherent, Remembered, SameStore
<1>8. q.op.kind = "flush" => q.op.batch = <<>>
    BY <1>1, <1>3 DEF Coherent, Steady, SingleDrain
<1> QED BY <1>5, <1>6, <1>7, <1>8 DEF q

\* An operation that is not refused is coherent.
LEMMA BegunCoherent ==
    ASSUME NEW r \in Handle, Coherent(r), r.chain # <<>>, r.op = NoOp, ~CloseReady(r),
           Contiguous(Begun(r).op.batch, r.cursor),
           Begun(r).op.kind = "flush" => ~r.materialized
    PROVE  Coherent(Begun(r))
<1> DEFINE q == Begun(r)
<1>1. /\ q \in Handle /\ SameStore(q, r) /\ SameClose(q, r) /\ q.ahead = r.ahead
      /\ q.op.stage = IF q.op.kind = "flush" THEN "write" ELSE NextStage(r)
      /\ q.op \in Operation /\ q.op # NoOp
      /\ q.op.kind \in {"append", "flush", "drain"}
    BY BegunIs DEF Entry
<1>2. /\ Steady(q) /\ Remembered(q) /\ ~Idle(r)
      /\ q.op.kind = "flush" => q.op.batch = <<>>
    BY BegunSteady
<1>3. Contiguous(q.op.batch, q.cursor) /\ (q.op.kind = "flush" => ~q.materialized)
    BY <1>1 DEF SameStore
<1> HIDE DEF q
<1>4. OperationFits(q)
  <2>1. CASE q.op.kind = "flush"
    <3>1. q.op.stage = "write" /\ ~q.torn /\ q.recovered = 0
        BY <1>1, <1>2, <1>3, <2>1 DEF Steady
    <3> QED BY <1>1, <1>2, <1>3, <2>1, <3>1 DEF OperationFits
  <2>2. CASE q.op.kind # "flush"
    <3>1. q.op.stage = NextStage(r) /\ r.torn = q.torn /\ r.recovered = q.recovered
          /\ r.torn \in BOOLEAN /\ r.recovered \in Nat
        BY <1>1, <2>2 DEF SameStore, Handle, Seqs
    <3>2. /\ q.op.stage \in {"truncate", "rewrite", "write"}
          /\ q.op.stage = "truncate" => q.torn
          /\ q.op.stage = "rewrite" => ~q.torn /\ q.recovered > 0
          /\ q.op.stage = "write" => ~q.torn /\ q.recovered = 0
        BY <3>1 DEF NextStage
    <3> QED BY <1>1, <1>3, <2>2, <3>2 DEF OperationFits
  <2> QED BY <2>1, <2>2
<1>5. q.close \in {"chain", "last"} => q.ahead # 0
    BY <1>1 DEF CloseReady, SameClose
<1>6. Coherent(q)
    BY <1>1, <1>2, <1>4, <1>5 DEF Coherent, Idle, SameStore
<1> QED BY <1>6 DEF q

\* A chain without a drain gets one more operation.
LEMMA ChainStaysSingle ==
    ASSUME NEW r \in Handle, NEW q \in Handle, NEW e \in Entry, SingleDrain(r),
           r.op.kind # "drain", \A k \in DOMAIN r.chain : r.chain[k].kind # "drain",
           q.op = r.op, q.chain = Append(r.chain, e),
           e.kind = "drain" => q.drain = "op", e.kind = "flush" => e.batch = <<>>
    PROVE  SingleDrain(q)
<1>1. r.chain \in Seq(Entry)
    BY DEF Handle
<1>2. /\ \A k \in DOMAIN r.chain : q.chain[k] = r.chain[k]
      /\ q.chain[Len(r.chain) + 1] = e
      /\ \A k \in DOMAIN q.chain : k \in DOMAIN r.chain \/ k = Len(r.chain) + 1
    BY <1>1, ChainGrows
<1>3. ASSUME NEW k \in DOMAIN q.chain, q.chain[k].kind = "drain"
      PROVE  k = Len(r.chain) + 1 /\ e.kind = "drain"
    BY <1>2, <1>3
<1>4. ASSUME NEW k \in DOMAIN q.chain, q.chain[k].kind = "flush"
      PROVE  q.chain[k].batch = <<>>
    BY <1>2, <1>4 DEF SingleDrain
<1> QED BY <1>3, <1>4 DEF SingleDrain

\* A drain of a handle that is in use.
LEMMA DrainLiveCoherent ==
    ASSUME NEW r \in Handle, Steady(r), OperationFits(r), ~Idle(r),
           r.close \in {"chain", "last"} /\ r.ahead = 0 => r.op = NoOp,
           r.drain = "none" \/ Remembered(r)
    PROVE  Coherent(DrainLive(r))
<1> DEFINE q == DrainLive(r)
<1>1. /\ q \in Handle /\ SameStore(q, r) /\ SameClose(q, r)
      /\ q.op = r.op /\ q.buffered = r.buffered /\ q.ahead = r.ahead
      /\ r.drain # "none" => q = r
      /\ r.drain = "none" /\ r.buffered = <<>> => q.drain = "settled" /\ q.chain = r.chain
      /\ r.drain = "none" /\ r.buffered # <<>> =>
           /\ q.drain = "op"
           /\ q.chain = Append(r.chain, [kind |-> "drain", batch |-> <<>>])
    BY DrainLiveIs
<1> HIDE DEF q
<1>2. OperationFits(q)
    BY <1>1 DEF OperationFits, SameStore
<1>3. SingleDrain(q)
  <2>1. CASE r.drain # "none"
      BY <1>1, <2>1 DEF Steady
  <2>2. CASE r.drain = "none"
    <3>1. r.op.kind # "drain" /\ \A k \in DOMAIN r.chain : r.chain[k].kind # "drain"
        BY <2>2 DEF Steady, SingleDrain
    <3>2. CASE r.buffered = <<>>
        BY <1>1, <2>2, <3>1, <3>2 DEF Steady, SingleDrain
    <3>3. CASE r.buffered # <<>>
      <4>1. [kind |-> "drain", batch |-> <<>>] \in Entry
          BY Nothing DEF Entry
      <4> QED BY <1>1, <2>2, <3>1, <3>3, <4>1, ChainStaysSingle DEF Steady
    <3> QED BY <3>2, <3>3
  <2> QED BY <2>1, <2>2
<1>4. Steady(q)
    BY <1>1, <1>3 DEF Steady, SameStore, SameClose, Idle
<1>5. Remembered(q)
    BY <1>1 DEF Remembered, SameStore
<1>6. Coherent(q)
    BY <1>1, <1>2, <1>4, <1>5 DEF Coherent, SameStore, SameClose, Idle
<1> QED BY <1>6 DEF q

\* What a handle keeps for the artifact.
LEMMA KeptIs ==
    ASSUME NEW r \in Handle
    PROVE  /\ Kept(r) \in Seq(Event) /\ r.buffered \in Seq(Event) /\ r.op.batch \in Seq(Event)
           /\ Len(Kept(r)) \in Nat /\ Len(r.op.batch) \in Nat
           /\ r.op.kind # "drain" => Kept(r) = r.buffered
           /\ r.op.kind = "drain" => Kept(r) = r.op.batch \o r.buffered
           /\ Len(r.buffered) = 0 <=> r.buffered = <<>>
<1>1. r.buffered \in Seq(Event) /\ r.op.batch \in Seq(Event)
    BY DEF Handle, Operation
<1>2. <<>> \in Seq(Event)
    BY Nothing
<1>3. Kept(r) \in Seq(Event)
    BY <1>1, <1>2, ConcatProperties DEF Kept
<1>4. r.op.kind # "drain" => Kept(r) = r.buffered
    BY <1>1, ConcatEmptySeq DEF Kept
<1>5. r.op.kind = "drain" => Kept(r) = r.op.batch \o r.buffered
    BY DEF Kept
<1>6. Len(r.buffered) = 0 <=> r.buffered = <<>>
    BY <1>1, EmptySeq
<1> QED BY <1>1, <1>3, <1>4, <1>5, <1>6, LenProperties

\* An operation that ends: a started one, or one that is refused when it starts.
Ends(r, h) ==
    \/ r = h /\ h.op # NoOp
    \/ r = Begun(h) /\ h.op = NoOp /\ h.chain # <<>>

\* An operation ends as it was started.
LEMMA EndsIs ==
    ASSUME NEW h \in Handle, Coherent(h), NEW r, Ends(r, h)
    PROVE  /\ r \in Handle /\ SameStore(r, h) /\ SameClose(r, h)
           /\ r.drain = h.drain /\ r.drainFailed = h.drainFailed
           /\ Steady(r) /\ Remembered(r) /\ ~Idle(h)
           /\ r.op.kind \in {"append", "flush", "drain"}
           /\ Kept(r) = Kept(h)
           /\ h.op.kind # "append" /\ (\A k \in DOMAIN h.chain : h.chain[k].kind # "append")
                => /\ r.op.kind # "append"
                   /\ \A k \in DOMAIN r.chain : r.chain[k].kind # "append"
           /\ \A s : Storing(h, s) => r.op.kind = "append" /\ r.chain = <<>> /\ r.buffered = h.buffered
           /\ r.op.kind = "flush" => r.op.batch = <<>>
<1>1. CASE r = h /\ h.op # NoOp
  <2>1. r.op.kind \in {"append", "flush", "drain"}
      BY <1>1 DEF Handle, Operation, Coherent, OperationFits
  <2>2. ~Idle(h) /\ Steady(r) /\ Remembered(r)
      BY <1>1 DEF Coherent
  <2>3. \A s : Storing(h, s) => r.op.kind = "append" /\ r.chain = <<>>
      BY <1>1 DEF Storing
  <2>4. r.op.kind = "flush" => r.op.batch = <<>>
      BY <1>1 DEF Coherent, OperationFits
  <2> QED BY <1>1, <2>1, <2>2, <2>3, <2>4 DEF SameStore, SameClose
<1>2. CASE r = Begun(h) /\ h.op = NoOp /\ h.chain # <<>>
  <2> DEFINE head == Head(h.chain)
  <2>1. /\ r \in Handle /\ SameStore(r, h) /\ SameClose(r, h)
        /\ r.drain = h.drain /\ r.drainFailed = h.drainFailed
        /\ r.chain = Tail(h.chain)
        /\ r.buffered = IF head.kind = "drain" THEN <<>> ELSE h.buffered
        /\ r.op.kind = head.kind
        /\ r.op.batch = IF head.kind = "drain" THEN h.buffered ELSE head.batch
        /\ head \in Entry
      BY <1>2, BegunIs
  <2>2. h.chain \in Seq(Entry)
      BY DEF Handle
  <2>3. /\ head = h.chain[1] /\ 1 \in DOMAIN h.chain
        /\ \A k \in DOMAIN Tail(h.chain) :
              Tail(h.chain)[k] = h.chain[k + 1] /\ k + 1 \in DOMAIN h.chain
        /\ Len(h.chain) = 1 => Tail(h.chain) = <<>>
      BY <1>2, <2>2, ChainShrinks
  <2> HIDE DEF head
  <2>4. r.op.kind \in {"append", "flush", "drain"}
      BY <2>1 DEF Entry
  <2>5. /\ Steady(r) /\ Remembered(r) /\ ~Idle(h)
        /\ r.op.kind = "flush" => r.op.batch = <<>>
      BY <1>2, BegunSteady
  <2>6. Kept(r) = Kept(h)
    <3>1. Kept(h) = h.buffered /\ h.buffered \in Seq(Event)
      <4>1. h.op.kind # "drain"
          BY <1>2 DEF NoOp
      <4> QED BY <4>1, KeptIs
    <3>2. CASE head.kind = "drain"
      <4>1. Kept(r) = h.buffered \o <<>>
          BY <2>1, <3>2 DEF Kept
      <4> QED BY <3>1, <4>1, ConcatEmptySeq
    <3>3. CASE head.kind # "drain"
        BY <2>1, <3>1, <3>3, KeptIs
    <3> QED BY <3>2, <3>3
  <2>7. ASSUME h.op.kind # "append", \A k \in DOMAIN h.chain : h.chain[k].kind # "append"
        PROVE  r.op.kind # "append" /\ \A k \in DOMAIN r.chain : r.chain[k].kind # "append"
    <3>1. r.op.kind # "append"
        BY <2>1, <2>3, <2>7
    <3> QED BY <2>1, <2>3, <2>7, <3>1
  <2>8. ASSUME NEW s, Storing(h, s)
        PROVE  r.op.kind = "append" /\ r.chain = <<>> /\ r.buffered = h.buffered
    <3>1. h.op.kind # "append"
        BY <1>2 DEF NoOp
    <3>2. Len(h.chain) = 1 /\ h.chain[1].kind = "append"
        BY <2>8, <3>1 DEF Storing
    <3> QED BY <2>1, <2>3, <3>2
  <2> QED BY <2>1, <2>4, <2>5, <2>6, <2>7, <2>8
<1> QED BY <1>1, <1>2 DEF Ends

\* A failed operation leaves what the handle keeps; its drain is over.
LEMMA FailureKeeps ==
    ASSUME NEW h \in Handle, Coherent(h), NEW r, Ends(r, h), NEW ok \in BOOLEAN,
           r.op.kind = "drain" => ~ok
    PROVE  LET q == Settled(r, ok) IN
           /\ q \in Handle /\ Coherent(q) /\ SameStore(q, h) /\ SameClose(q, h)
           /\ q.op = NoOp /\ q.chain = r.chain /\ Kept(q) = Kept(h)
           /\ q.drain # "none" <=> h.drain # "none"
           /\ q.drain = "settled" /\ ~q.drainFailed => h.drain = "settled" /\ ~h.drainFailed
<1> DEFINE q == Settled(r, ok)
<1>1. /\ r \in Handle /\ SameStore(r, h) /\ SameClose(r, h)
      /\ r.drain = h.drain /\ r.drainFailed = h.drainFailed
      /\ Steady(r) /\ Remembered(r) /\ Kept(r) = Kept(h)
      /\ r.op.kind \in {"append", "flush", "drain"} /\ ~Idle(r)
    BY EndsIs DEF SameStore, Idle
<1>2. /\ q \in Handle /\ SameStore(q, r) /\ SameClose(q, r)
      /\ q.op = NoOp /\ q.chain = r.chain
      /\ r.op.kind # "drain" =>
           /\ q.buffered = r.buffered /\ q.drain = r.drain /\ q.drainFailed = r.drainFailed
      /\ r.op.kind = "drain" =>
           q.buffered = Retained(r) /\ q.drain = "settled" /\ q.drainFailed
    BY <1>1, SettledIs
<1>3. Coherent(q)
    BY <1>1, SettledCoherent
<1> HIDE DEF q
<1>4. Kept(q) = q.buffered
  <2>1. q.op.kind # "drain"
      BY <1>2 DEF NoOp
  <2> QED BY <1>2, <2>1, KeptIs
<1>5. Kept(r) = IF r.op.kind = "drain" THEN Retained(r) ELSE r.buffered
    BY <1>1, KeptIs DEF Retained
<1>6. Kept(q) = Kept(h)
    BY <1>1, <1>2, <1>4, <1>5
<1>7. r.op.kind = "drain" => h.drain = "op"
    BY <1>1 DEF Steady, SingleDrain
<1>8. SameStore(q, h) /\ SameClose(q, h)
    BY <1>1, <1>2 DEF SameStore, SameClose
<1>9. /\ q.drain # "none" <=> h.drain # "none"
      /\ q.drain = "settled" /\ ~q.drainFailed => h.drain = "settled" /\ ~h.drainFailed
    BY <1>1, <1>2, <1>7
<1>10. /\ q \in Handle /\ Coherent(q) /\ SameStore(q, h) /\ SameClose(q, h)
       /\ q.op = NoOp /\ q.chain = r.chain /\ Kept(q) = Kept(h)
       /\ q.drain # "none" <=> h.drain # "none"
       /\ q.drain = "settled" /\ ~q.drainFailed => h.drain = "settled" /\ ~h.drainFailed
    BY <1>2, <1>3, <1>6, <1>8, <1>9
<1> QED BY <1>10 DEF q

-----------------------------------------------------------------------------
(* What a step that leaves a part alone keeps. *)

\* A step of one handle.
Aside(i) ==
    /\ handle' \in [Handles -> Handle]
    /\ \A j \in Handles : j # i => handle'[j] = handle[j]

\* The live session goes on.
SessionGoesOn ==
    session.state = "published" =>
        session'.state = "published" /\ session'.opened = session.opened /\ session.seq <= session'.seq

\* What has gone wrong stays so.
LEMMA TaintGrows ==
    /\ taint \subseteq taint' =>
         /\ Sound' => Sound
         /\ taint' = {} => taint = {}
         /\ "gap" \notin taint' => "gap" \notin taint
    /\ taint = {} => Sound /\ "gap" \notin taint
BY DEF Sound

\* The owner is open while there is a session; nobody else is.
LEMMA OwnerIs ==
    ASSUME IInv
    PROVE  /\ owner # 0 => owner \in Handles
           /\ session.state # "none" => owner \in Handles /\ handle[owner].state = "open"
           /\ \A i \in Handles : handle[i].state = "open" => owner = i
           /\ \A i \in Handles : handle[i] \in Handle /\ Coherent(handle[i])
<1>1. MaxHandles \in Nat /\ owner \in 0..MaxHandles
    BY DEF IInv, Types, Bounds
<1>2. owner # 0 => owner \in Handles
    BY <1>1 DEF Handles
<1> QED BY <1>2 DEF IInv, Types, OneOwner, HandlesCoherent

\* The artifact is left alone, and what the handle knows of it.
LEMMA StoreKept ==
    ASSUME IInv, NEW i \in Handles, Aside(i),
           SameStore(handle'[i], handle[i]), Coherent(handle'[i]),
           disk' = disk, owner' = owner, taint \subseteq taint',
           Sound' /\ handle'[i].op # NoOp => handle[i].state = "open",
           session'.state # "none" => session.state # "none"
    PROVE  HandlesCoherent' /\ OneOwner' /\ DiskTrue'
<1>1. HandlesCoherent'
    BY DEF IInv, HandlesCoherent, Aside
<1>2. \A j \in Handles : SameStore(handle'[j], handle[j])
    BY DEF Aside, SameStore
<1>3. OneOwner'
  <2>1. \A j \in Handles : handle'[j].state = handle[j].state
      BY <1>2 DEF SameStore
  <2> QED BY <2>1, OwnerIs DEF IInv, OneOwner
<1>4. DiskTrue'
  <2>1. Sound' => Sound
      BY TaintGrows
  <2>2. Sound' => \A j \in Handles : handle'[j].op # NoOp => handle'[j].state = "open"
      BY <1>2, <2>1 DEF IInv, DiskTrue, Aside, SameStore
  <2>3. (~disk.exists => disk.n = 0 /\ ~disk.torn)'
      BY DEF IInv, DiskTrue
  <2>4. \A j \in Handles : handle'[j].materialized \/ handle'[j].state = "claimed" => disk'.exists
      BY <1>2 DEF IInv, DiskTrue, SameStore
  <2>5. Sound' => ~disk'.bad
      BY <2>1 DEF IInv, DiskTrue
  <2>6. Sound' => \A j \in Handles : handle'[j].state = "open" /\ handle'[j].materialized
                => /\ handle'[j].cursor = disk'.n + handle'[j].recovered
                   /\ disk'.torn => handle'[j].torn
      BY <1>2, <2>1 DEF IInv, DiskTrue, SameStore
  <2> QED BY <2>2, <2>3, <2>4, <2>5, <2>6 DEF DiskTrue
<1> QED BY <1>1, <1>3, <1>4

\* No close begins or ends.
LEMMA CloseKept ==
    ASSUME IInv, \A j \in Handles : SameClose(handle'[j], handle[j]), handle' \in [Handles -> Handle],
           disk' \in Artifact, disk.n <= disk'.n, session' \in LiveSession,
           SessionGoesOn, taint \subseteq taint'
    PROVE  CloseTrue'
<1>1. taint' = {} => taint = {}
    BY TaintGrows
<1>2. ASSUME NEW j \in Handles
      PROVE  /\ handle'[j].close \in {"drain", "chain"} /\ handle'[j].closeNeed > 0 =>
                  /\ session'.state = "published"
                  /\ session'.opened < handle'[j].closeNeed
                  /\ handle'[j].closeNeed <= session'.seq
             /\ taint' = {} /\ handle'[j].close \in {"last", "closed"} /\ ~handle'[j].closeFailed
                  => handle'[j].closeNeed <= disk'.n
  <2>1. /\ handle'[j].close = handle[j].close /\ handle'[j].closeNeed = handle[j].closeNeed
        /\ handle'[j].closeFailed = handle[j].closeFailed
      BY DEF SameClose
  <2>2. /\ handle[j].closeNeed \in Nat /\ session.seq \in Nat /\ session'.seq \in Nat
        /\ disk.n \in Nat /\ disk'.n \in Nat
      BY DEF IInv, Types, Handle, LiveSession, Artifact, Seqs
  <2>3. /\ handle[j].close \in {"drain", "chain"} /\ handle[j].closeNeed > 0 =>
              /\ session.state = "published"
              /\ session.opened < handle[j].closeNeed
              /\ handle[j].closeNeed <= session.seq
        /\ taint = {} /\ handle[j].close \in {"last", "closed"} /\ ~handle[j].closeFailed
              => handle[j].closeNeed <= disk.n
      BY DEF IInv, CloseTrue
  <2> QED BY <1>1, <2>1, <2>2, <2>3 DEF SessionGoesOn
<1> QED BY <1>2 DEF CloseTrue

\* No flush begins or ends; the drain one waits for goes on, or it has ended
\* with everything written that was emitted.
LEMMA FlushKept ==
    ASSUME IInv, \A j \in Handles : SameClose(handle'[j], handle[j]), handle' \in [Handles -> Handle],
           disk' \in Artifact, disk.n <= disk'.n, owner' = owner, session' \in LiveSession,
           flusher' = flusher, promised' = promised, SessionGoesOn, taint \subseteq taint',
           owner \in Handles /\ handle[owner].drain # "none" => handle'[owner].drain # "none",
           /\ owner \in Handles /\ session.state = "published" /\ taint' = {}
           /\ handle'[owner].drain = "settled" /\ ~handle'[owner].drainFailed
           => \/ /\ handle[owner].drain = "settled" /\ ~handle[owner].drainFailed
                 /\ handle[owner].cursor <= handle'[owner].cursor
              \/ session.seq <= handle'[owner].cursor
    PROVE  FlushTrue'
<1>1. taint' = {} => taint = {}
    BY TaintGrows
<1>2. /\ flusher.need \in Nat /\ promised \in Nat /\ disk.n \in Nat /\ disk'.n \in Nat
      /\ session.seq \in Nat /\ session'.seq \in Nat
    BY DEF IInv, Types, Caller, LiveSession, Artifact, Seqs
<1>3. (flusher.pc # "none" => flusher.handle \in Handles)'
    BY DEF IInv, FlushTrue, Handles
<1>4. (flusher.pc = "flush" /\ ~flusher.late /\ taint = {} => flusher.need <= disk.n)'
    BY <1>1, <1>2 DEF IInv, FlushTrue
<1>5. (taint = {} => promised <= disk.n)'
    BY <1>1, <1>2 DEF IInv, FlushTrue
<1>6. ASSUME flusher.pc = "drain", handle'[flusher.handle].close = "no"
      PROVE  /\ flusher.handle = owner /\ session'.state = "published"
             /\ flusher.need <= session'.seq
             /\ flusher.need > 0 => session'.opened < flusher.need
             /\ handle'[owner].drain # "none"
             /\ handle'[owner].drain = "settled" /\ ~handle'[owner].drainFailed
                   /\ ~flusher.late /\ taint' = {} => flusher.need <= handle'[owner].cursor
  <2>1. flusher.handle \in Handles /\ handle[flusher.handle].close = "no"
      BY <1>6 DEF IInv, FlushTrue, SameClose
  <2>2. /\ flusher.handle = owner /\ session.state = "published"
        /\ flusher.need <= session.seq
        /\ flusher.need > 0 => session.opened < flusher.need
        /\ handle[owner].drain # "none"
        /\ handle[owner].drain = "settled" /\ ~handle[owner].drainFailed
              /\ ~flusher.late /\ taint = {} => flusher.need <= handle[owner].cursor
      BY <1>6, <2>1 DEF IInv, FlushTrue
  <2>3. handle[owner].cursor \in Nat /\ handle'[owner].cursor \in Nat
      BY <2>1, <2>2 DEF IInv, Types, Handle, Seqs
  <2>4. /\ session'.state = "published" /\ session'.opened = session.opened
        /\ flusher.need <= session'.seq
      BY <1>2, <2>2 DEF SessionGoesOn
  <2>5. ASSUME handle'[owner].drain = "settled", ~handle'[owner].drainFailed,
               ~flusher.late, taint' = {}
        PROVE  flusher.need <= handle'[owner].cursor
      BY <1>1, <1>2, <2>1, <2>2, <2>3, <2>5
  <2> QED BY <2>1, <2>2, <2>4, <2>5
<1> QED BY <1>3, <1>4, <1>5, <1>6 DEF FlushTrue

\* The owner keeps what it holds for the session.
LEMMA RoutedKept ==
    ASSUME IInv, owner' = owner, session' = session, taint \subseteq taint',
           session.state # "none" =>
               /\ handle'[owner].cursor = handle[owner].cursor
               /\ handle'[owner].recovered \in {0, handle[owner].recovered}
               /\ \/ /\ handle'[owner].op.kind = handle[owner].op.kind
                     /\ handle'[owner].op.batch = handle[owner].op.batch
                     /\ handle'[owner].op = NoOp <=> handle[owner].op = NoOp
                     /\ handle'[owner].chain = handle[owner].chain
                     /\ handle'[owner].buffered = handle[owner].buffered
                  \/ /\ session.state \notin {"setup", "stored", "storing"}
                     /\ session.state = "published" =>
                           /\ handle'[owner].op.kind # "append"
                           /\ \A k \in DOMAIN handle'[owner].chain :
                                 handle'[owner].chain[k].kind # "append"
                           /\ Kept(handle'[owner]) = Kept(handle[owner])
    PROVE  SessionRouted'
<1> SUFFICES ASSUME session.state # "none"
             PROVE  Routed(handle'[owner], session, "gap" \in taint')
    BY DEF SessionRouted
<1> DEFINE q == handle'[owner]
           r == handle[owner]
<1>1. Routed(r, session, "gap" \in taint)
    BY DEF IInv, SessionRouted
<1>2. "gap" \notin taint' => "gap" \notin taint
    BY TaintGrows
<1>3. q.cursor = r.cursor /\ q.recovered \in {0, r.recovered}
    OBVIOUS
<1>4. CASE /\ q.op.kind = r.op.kind /\ q.op.batch = r.op.batch
           /\ q.op = NoOp <=> r.op = NoOp
           /\ q.chain = r.chain /\ q.buffered = r.buffered
  <2>1. Kept(q) = Kept(r) /\ \A s : Storing(q, s) <=> Storing(r, s)
      BY <1>4 DEF Kept, Storing
  <2> HIDE DEF q, r
  <2>2. Routed(q, session, "gap" \in taint')
      BY <1>1, <1>2, <1>3, <1>4, <2>1 DEF Routed
  <2> QED BY <2>2 DEF q, r
<1>5. CASE /\ session.state \notin {"setup", "stored", "storing"}
           /\ session.state = "published" =>
                 /\ q.op.kind # "append"
                 /\ \A k \in DOMAIN q.chain : q.chain[k].kind # "append"
                 /\ Kept(q) = Kept(r)
  <2> HIDE DEF q, r
  <2>1. Routed(q, session, "gap" \in taint')
      BY <1>1, <1>2, <1>3, <1>5 DEF Routed
  <2> QED BY <2>1 DEF q, r
<1> QED BY <1>4, <1>5

\* A flush ends, or none does.
LEMMA FlushEnds ==
    ASSUME IInv, \A j \in Handles : SameClose(handle'[j], handle[j]), handle' \in [Handles -> Handle],
           disk' \in Artifact, disk.n <= disk'.n, owner' = owner, session' \in LiveSession,
           SessionGoesOn, taint \subseteq taint',
           owner \in Handles /\ handle[owner].drain # "none" => handle'[owner].drain # "none",
           /\ owner \in Handles /\ session.state = "published" /\ taint' = {}
           /\ handle'[owner].drain = "settled" /\ ~handle'[owner].drainFailed
           => \/ /\ handle[owner].drain = "settled" /\ ~handle[owner].drainFailed
                 /\ handle[owner].cursor <= handle'[owner].cursor
              \/ session.seq <= handle'[owner].cursor,
           \/ flusher' = flusher /\ promised' = promised
           \/ flusher' = NoFlush /\ promised' \in Seqs /\ (taint = {} => promised' <= disk.n)
    PROVE  FlushTrue'
<1>1. CASE flusher' = flusher /\ promised' = promised
    BY <1>1, FlushKept
<1>2. CASE flusher' = NoFlush /\ promised' \in Seqs /\ (taint = {} => promised' <= disk.n)
  <2>1. taint' = {} => promised' <= disk'.n
    <3>1. promised' \in Nat /\ disk.n \in Nat /\ disk'.n \in Nat
        BY <1>2 DEF Seqs, IInv, Types, Artifact
    <3> QED BY <1>2, <3>1, TaintGrows
  <2> QED BY <1>2, <2>1 DEF FlushTrue, NoFlush
<1> QED BY <1>1, <1>2

-----------------------------------------------------------------------------
(* Drains start: the timer, session/flush, close. *)

\* With nothing buffered and no drain writing, the owner has written it all.
LEMMA CaughtUp ==
    ASSUME IInv, session.state = "published", "gap" \notin taint,
           handle[owner].buffered = <<>>, handle[owner].op.kind # "drain"
    PROVE  handle[owner].cursor = session.seq
<1>1. handle[owner] \in Handle
    BY OwnerIs
<1>2. Kept(handle[owner]) = <<>>
    BY <1>1, KeptIs
<1>3. handle[owner].cursor + Len(Kept(handle[owner])) = session.seq
    BY DEF IInv, SessionRouted, Routed
<1> QED BY <1>1, <1>2, <1>3, Nothing DEF Handle, Seqs

\* What a drain that starts, or that is joined, changes.
Drained(q, r) ==
    /\ SameStore(q, r) /\ q.op = r.op /\ q.buffered = r.buffered
    /\ r.drain # "none" => q.drain # "none"
    /\ r.buffered = <<>> => q.chain = r.chain
    /\ (\A k \in DOMAIN r.chain : r.chain[k].kind # "append")
          => \A k \in DOMAIN q.chain : q.chain[k].kind # "append"
    /\ q.drain = "settled" /\ ~q.drainFailed
          => \/ r.drain = "settled" /\ ~r.drainFailed
             \/ r.buffered = <<>> /\ r.op.kind # "drain"

\* A drain that starts or is joined keeps the buffer for its waiters.
LEMMA DrainLiveDrained ==
    ASSUME NEW r \in Handle, SingleDrain(r)
    PROVE  Drained(DrainLive(r), r)
<1> DEFINE q == DrainLive(r)
           e == [kind |-> "drain", batch |-> <<>>]
<1>1. /\ q \in Handle /\ SameStore(q, r) /\ q.op = r.op /\ q.buffered = r.buffered
      /\ r.drain # "none" => q = r
      /\ r.drain = "none" /\ r.buffered = <<>> => q.drain = "settled" /\ q.chain = r.chain
      /\ r.drain = "none" /\ r.buffered # <<>> => q.drain = "op" /\ q.chain = Append(r.chain, e)
    BY DrainLiveIs
<1> HIDE DEF q
<1>2. r.chain \in Seq(Entry) /\ e \in Entry /\ e.kind # "append"
    BY Nothing DEF Handle, Entry
<1> HIDE DEF e
<1>3. ASSUME \A k \in DOMAIN r.chain : r.chain[k].kind # "append"
      PROVE  \A k \in DOMAIN q.chain : q.chain[k].kind # "append"
  <2>1. CASE q.chain = r.chain
      BY <1>3, <2>1
  <2>2. CASE q.chain = Append(r.chain, e)
      BY <1>2, <1>3, <2>2, ChainGrows
  <2> QED BY <1>1, <2>1, <2>2
<1>4. r.drain = "none" => r.op.kind # "drain"
    BY DEF SingleDrain
<1>5. Drained(q, r)
    BY <1>1, <1>3, <1>4 DEF Drained
<1> QED BY <1>5 DEF q

\* The session does not notice a drain, nor does a flush that waits for one.
LEMMA DrainUnseen ==
    ASSUME IInv, NEW i \in Handles, Aside(i), Drained(handle'[i], handle[i]),
           owner' = owner, session' = session, taint' = taint
    PROVE  /\ SessionRouted'
           /\ owner \in Handles /\ handle[owner].drain # "none" => handle'[owner].drain # "none"
           /\ owner \in Handles /\ session.state = "published" /\ taint' = {}
              /\ handle'[owner].drain = "settled" /\ ~handle'[owner].drainFailed
              => \/ /\ handle[owner].drain = "settled" /\ ~handle[owner].drainFailed
                    /\ handle[owner].cursor <= handle'[owner].cursor
                 \/ session.seq <= handle'[owner].cursor
<1>1. CASE owner # i
  <2>1. owner \in Handles => handle'[owner] = handle[owner]
      BY <1>1 DEF Aside
  <2>2. SessionRouted'
      BY <2>1, OwnerIs, RoutedKept
  <2>3. owner \in Handles => handle[owner].cursor \in Nat
      BY OwnerIs DEF Handle, Seqs
  <2> QED BY <2>1, <2>2, <2>3
<1>2. CASE owner = i
  <2> DEFINE q == handle'[i]
             r == handle[i]
  <2>1. r \in Handle /\ Coherent(r) /\ Drained(q, r)
      BY OwnerIs
  <2>2. Routed(r, session, "gap" \in taint) \/ session.state = "none"
      BY <1>2 DEF IInv, SessionRouted
  <2>3. Kept(q) = Kept(r)
      BY <2>1 DEF Drained, Kept
  <2>4. SessionRouted'
    <3>1. /\ q.cursor = r.cursor /\ q.recovered = r.recovered /\ q.op = r.op
          /\ q.buffered = r.buffered /\ (r.buffered = <<>> => q.chain = r.chain)
        BY <2>1 DEF Drained, SameStore
    <3>2. session.state \in {"setup", "stored", "storing"} => q.chain = r.chain
        BY <2>1, <2>2 DEF Routed, Drained
    <3>3. session.state = "published" =>
              q.op.kind # "append" /\ \A k \in DOMAIN q.chain : q.chain[k].kind # "append"
        BY <2>1, <2>2 DEF Routed, Drained
    <3> HIDE DEF q, r
    <3>4. session.state # "none" =>
            /\ q.cursor = r.cursor /\ q.recovered = r.recovered
            /\ \/ q.op = r.op /\ q.chain = r.chain /\ q.buffered = r.buffered
               \/ /\ session.state \notin {"setup", "stored", "storing"}
                  /\ session.state = "published" =>
                        /\ q.op.kind # "append"
                        /\ \A k \in DOMAIN q.chain : q.chain[k].kind # "append"
                        /\ Kept(q) = Kept(r)
        BY <2>3, <3>1, <3>2, <3>3
    <3> QED BY <1>2, <3>4, RoutedKept DEF q, r
  <2>5. ASSUME session.state = "published", taint' = {}, q.drain = "settled", ~q.drainFailed
        PROVE  \/ r.drain = "settled" /\ ~r.drainFailed /\ r.cursor <= q.cursor
               \/ session.seq <= q.cursor
    <3>1. r.cursor \in Nat /\ q.cursor = r.cursor
        BY <2>1 DEF Handle, Seqs, Drained, SameStore
    <3>2. CASE r.drain = "settled" /\ ~r.drainFailed
        BY <3>1, <3>2
    <3>3. CASE r.buffered = <<>> /\ r.op.kind # "drain"
      <4>1. r.cursor = session.seq
          BY <1>2, <2>5, <3>3, CaughtUp
      <4> QED BY <3>1, <4>1
    <3> QED BY <2>1, <2>5, <3>2, <3>3 DEF Drained
  <2> QED BY <1>2, <2>1, <2>4, <2>5 DEF Drained
<1> QED BY <1>1, <1>2

\* A step that only drains: everything but the waiting flush and close.
LEMMA QuietStep ==
    ASSUME IInv, NEW i \in Handles, NEW q \in Handle, handle' = [handle EXCEPT ![i] = q],
           Drained(q, handle[i]), Coherent(q),
           UNCHANGED <<disk, owner, session, promised, faults, crashes, taint>>
    PROVE  /\ handle'[i] = q /\ Aside(i)
           /\ flusher' \in Caller => Types'
           /\ HandlesCoherent' /\ OneOwner' /\ DiskTrue' /\ SessionRouted'
           /\ SameClose(q, handle[i]) => CloseTrue'
           /\ flusher' = flusher /\ SameClose(q, handle[i]) => FlushTrue'
<1>1. handle'[i] = q /\ Aside(i)
    BY DEF Aside, IInv, Types
<1>2. flusher' \in Caller => Types'
    BY <1>1 DEF IInv, Types, Aside
<1>3. HandlesCoherent' /\ OneOwner' /\ DiskTrue'
  <2>1. Sound /\ q.op # NoOp => handle[i].state = "open"
      BY DEF IInv, DiskTrue, Drained
  <2>2. Sound' = Sound
      BY DEF Sound
  <2>3. SameStore(q, handle[i])
      BY DEF Drained
  <2> QED BY <1>1, <2>1, <2>2, <2>3, StoreKept
<1>4. /\ SessionRouted'
      /\ owner \in Handles /\ handle[owner].drain # "none" => handle'[owner].drain # "none"
      /\ owner \in Handles /\ session.state = "published" /\ taint' = {}
         /\ handle'[owner].drain = "settled" /\ ~handle'[owner].drainFailed
         => \/ /\ handle[owner].drain = "settled" /\ ~handle[owner].drainFailed
               /\ handle[owner].cursor <= handle'[owner].cursor
            \/ session.seq <= handle'[owner].cursor
    BY <1>1, DrainUnseen
<1>5. SameClose(q, handle[i]) => \A j \in Handles : SameClose(handle'[j], handle[j])
    BY <1>1 DEF Aside, SameClose
<1>6. /\ disk' \in Artifact /\ disk.n <= disk'.n /\ session' \in LiveSession /\ SessionGoesOn
      /\ handle' \in [Handles -> Handle] /\ taint \subseteq taint'
    BY <1>1 DEF IInv, Types, Artifact, LiveSession, SessionGoesOn, Seqs, Aside
<1>7. SameClose(q, handle[i]) => CloseTrue'
    BY <1>5, <1>6, CloseKept
<1>8. flusher' = flusher /\ SameClose(q, handle[i]) => FlushTrue'
    BY <1>4, <1>5, <1>6, FlushKept
<1> QED BY <1>1, <1>2, <1>3, <1>4, <1>7, <1>8

\* The batching timer fires.
LEMMA TimerStep == ASSUME IInv, NEW i \in Handles, TimerFires(i) PROVE IInv'
<1> DEFINE r == handle[i]
           p == [r EXCEPT !.timer = FALSE]
           q == DrainLive(p)
<1>1. r \in Handle /\ Coherent(r) /\ r.timer /\ r.drain \notin {"check", "settled"}
    BY OwnerIs DEF TimerFires, Macrotask, Ready
<1>2. /\ p \in Handle /\ SameStore(p, r) /\ SameClose(p, r)
      /\ p.op = r.op /\ p.buffered = r.buffered /\ p.ahead = r.ahead /\ p.chain = r.chain
      /\ p.drain = r.drain /\ p.drainFailed = r.drainFailed
    BY <1>1 DEF Handle, SameStore, SameClose
<1>3. handle' = [handle EXCEPT ![i] = q]
    BY DEF TimerFires
<1> HIDE DEF p
<1>4. SingleDrain(p)
    BY <1>1, <1>2 DEF Coherent, Steady, SingleDrain
<1>5. q \in Handle /\ SameStore(q, p) /\ SameClose(q, p) /\ Drained(q, p)
    BY <1>2, <1>4, DrainLiveIs, DrainLiveDrained
<1>6. Drained(q, r) /\ SameStore(q, r) /\ SameClose(q, r)
    BY <1>2, <1>5 DEF Drained, SameStore, SameClose
<1>7. Coherent(q)
  <2>1. Steady(p)
    <3>1. ~Idle(r)
        BY <1>1 DEF Coherent, Steady
    <3> QED BY <1>1, <1>2, <1>4, <3>1 DEF Coherent, Steady, SameStore, SameClose, Idle
  <2>2. OperationFits(p)
      BY <1>1, <1>2 DEF Coherent, OperationFits, SameStore
  <2>3. p.drain = "none" \/ Remembered(p)
    <3>1. p.drain \in {"none", "op"}
        BY <1>1, <1>2 DEF Handle
    <3> QED BY <3>1 DEF Remembered
  <2>4. ~Idle(p) /\ (p.close \in {"chain", "last"} /\ p.ahead = 0 => p.op = NoOp)
      BY <1>1, <1>2 DEF Coherent, Steady, Idle, SameStore, SameClose
  <2> QED BY <1>2, <2>1, <2>2, <2>3, <2>4, DrainLiveCoherent
<1>8. UNCHANGED <<disk, owner, session, flusher, promised, faults, crashes, taint>>
    BY DEF TimerFires
<1> HIDE DEF q, r
<1>9. flusher' \in Caller
    BY <1>8 DEF IInv, Types
<1> QED BY <1>3, <1>5, <1>6, <1>7, <1>8, <1>9, QuietStep DEF IInv, r

\* The loop of a drain looks at the buffer again.
LEMMA DrainChecksStep == ASSUME IInv, NEW i \in Handles, DrainChecks(i) PROVE IInv'
<1> DEFINE r == handle[i]
           g == EnqueueChain(r, "drain", <<>>)
           q == IF r.buffered = <<>> THEN [r EXCEPT !.drain = "settled"]
                ELSE [g EXCEPT !.drain = "op"]
           e == [kind |-> "drain", batch |-> <<>>]
<1>1. r \in Handle /\ Coherent(r) /\ r.drain = "check"
    BY OwnerIs DEF DrainChecks
<1>2. handle' = [handle EXCEPT ![i] = q]
    BY DEF DrainChecks
<1>3. /\ g \in Handle /\ SameStore(g, r) /\ SameClose(g, r) /\ g.op = r.op
      /\ g.buffered = r.buffered /\ g.chain = Append(r.chain, e) /\ g.ahead = r.ahead
    BY <1>1, Nothing, EnqueueChainIs
<1> HIDE DEF g, e
<1>4. /\ q \in Handle /\ SameStore(q, r) /\ SameClose(q, r) /\ q.op = r.op
      /\ q.buffered = r.buffered /\ q.ahead = r.ahead
      /\ r.buffered = <<>> => q.drain = "settled" /\ q.chain = r.chain
      /\ r.buffered # <<>> => q.drain = "op" /\ q.chain = Append(r.chain, e)
  <2>1. CASE r.buffered = <<>>
    <3> DEFINE y == [r EXCEPT !.drain = "settled"]
    <3>1. /\ y \in Handle /\ SameStore(y, r) /\ SameClose(y, r) /\ y.op = r.op
          /\ y.buffered = r.buffered /\ y.ahead = r.ahead /\ y.drain = "settled" /\ y.chain = r.chain
        BY <1>1 DEF Handle, SameStore, SameClose
    <3>2. q = y
        BY <2>1
    <3> QED BY <2>1, <3>1, <3>2
  <2>2. CASE r.buffered # <<>>
    <3> DEFINE y == [g EXCEPT !.drain = "op"]
    <3>1. /\ y \in Handle /\ SameStore(y, g) /\ SameClose(y, g) /\ y.op = g.op
          /\ y.buffered = g.buffered /\ y.ahead = g.ahead /\ y.drain = "op" /\ y.chain = g.chain
        BY <1>3 DEF Handle, SameStore, SameClose
    <3>2. q = y
        BY <2>2
    <3> QED BY <1>3, <2>2, <3>1, <3>2 DEF SameStore, SameClose
  <2> QED BY <2>1, <2>2
<1> HIDE DEF q, r
<1>5. r.op.kind # "drain" /\ \A k \in DOMAIN r.chain : r.chain[k].kind # "drain"
    BY <1>1 DEF Coherent, Steady, SingleDrain
<1>6. e \in Entry /\ e.kind = "drain" /\ r.chain \in Seq(Entry)
    BY <1>1, Nothing DEF Entry, e, Handle
<1>7. SingleDrain(q)
  <2>1. CASE r.buffered = <<>>
      BY <1>1, <1>4, <1>5, <2>1 DEF Coherent, Steady, SingleDrain
  <2>2. CASE r.buffered # <<>>
      BY <1>1, <1>4, <1>5, <1>6, <2>2, ChainStaysSingle DEF Coherent, Steady
  <2> QED BY <2>1, <2>2
<1>8. ~Idle(r)
    BY <1>1 DEF Coherent, Steady
<1>9. Coherent(q)
  <2>1. Steady(q)
      BY <1>1, <1>4, <1>7, <1>8 DEF Coherent, Steady, SameStore, SameClose, Idle
  <2>2. OperationFits(q)
      BY <1>1, <1>4 DEF Coherent, OperationFits, SameStore
  <2>3. Remembered(q)
      BY <1>4 DEF Remembered
  <2> QED BY <1>1, <1>4, <1>8, <2>1, <2>2, <2>3 DEF Coherent, SameStore, SameClose, Idle
<1>10. Drained(q, r)
  <2>1. ASSUME \A k \in DOMAIN r.chain : r.chain[k].kind # "append"
        PROVE  \A k \in DOMAIN q.chain : q.chain[k].kind # "append"
    <3>1. CASE r.buffered = <<>>
        BY <1>4, <2>1, <3>1
    <3>2. CASE r.buffered # <<>>
      <4>1. /\ \A k \in DOMAIN r.chain : q.chain[k] = r.chain[k]
            /\ q.chain[Len(r.chain) + 1] = e
            /\ \A k \in DOMAIN q.chain : k \in DOMAIN r.chain \/ k = Len(r.chain) + 1
          BY <1>4, <1>6, <3>2, ChainGrows
      <4> QED BY <1>6, <2>1, <4>1
    <3> QED BY <3>1, <3>2
  <2> QED BY <1>4, <1>5, <2>1 DEF Drained
<1>11. UNCHANGED <<disk, owner, session, flusher, promised, faults, crashes, taint>>
    BY DEF DrainChecks
<1>12. flusher' \in Caller
    BY <1>11 DEF IInv, Types
<1> QED BY <1>2, <1>4, <1>9, <1>10, <1>11, <1>12, QuietStep DEF IInv, r

\* What close waits for on the chain.
LEMMA OutstandingIs ==
    ASSUME NEW r \in Handle
    PROVE  Outstanding(r) \in Nat /\ (Outstanding(r) = 0 => r.op = NoOp)
<1>1. r.chain \in Seq(Entry)
    BY DEF Handle
<1>2. Len(r.chain) \in Nat
    BY <1>1, LenProperties
<1>3. CASE r.op = NoOp
  <2>1. Outstanding(r) = Len(r.chain) + 0
      BY <1>3 DEF Outstanding
  <2> QED BY <1>2, <1>3, <2>1
<1>4. CASE r.op # NoOp
  <2>1. Outstanding(r) = Len(r.chain) + 1
      BY <1>4 DEF Outstanding
  <2> QED BY <1>2, <2>1
<1> QED BY <1>3, <1>4

\* session/flush drains, and waits.
LEMMA SessionFlushStep == ASSUME IInv, SessionFlush PROVE IInv'
<1> DEFINE i == owner
           r == handle[i]
           q == DrainLive(r)
           late == r.drain = "settled" /\ r.buffered # <<>>
<1>1. i \in Handles /\ r \in Handle /\ Coherent(r) /\ r.state = "open" /\ session.state = "published"
    BY OwnerIs DEF SessionFlush
<1>2. /\ handle' = [handle EXCEPT ![i] = q]
      /\ flusher' = [pc |-> "drain", handle |-> i, need |-> Emitted, late |-> late]
      /\ UNCHANGED <<disk, owner, session, promised, faults, crashes, taint>>
    BY DEF SessionFlush
<1>3. SingleDrain(r) /\ Steady(r) /\ OperationFits(r) /\ Remembered(r) /\ ~Idle(r)
    BY <1>1 DEF Coherent, Steady, Idle
<1>4. /\ q \in Handle /\ SameStore(q, r) /\ SameClose(q, r) /\ Drained(q, r) /\ q.drain # "none"
  <2>1. q \in Handle /\ SameStore(q, r) /\ SameClose(q, r) /\ q.drain # "none"
      BY <1>1, DrainLiveIs
  <2> QED BY <1>1, <1>3, <2>1, DrainLiveDrained
<1>5. Coherent(q)
    BY <1>1, <1>3, DrainLiveCoherent DEF Coherent
<1>6. /\ Emitted \in Seqs /\ Emitted <= session.seq
      /\ Emitted > 0 => session.opened < Emitted
    BY DEF Emitted, IInv, Types, Bounds, LiveSession, Seqs
<1> HIDE DEF q
<1>7. flusher' \in Caller
  <2>1. late \in BOOLEAN /\ i \in 0..MaxHandles
      BY DEF IInv, Types
  <2> HIDE DEF late, i
  <2> QED BY <1>2, <1>6, <2>1 DEF Caller
<1>8. /\ Types' /\ HandlesCoherent' /\ OneOwner' /\ DiskTrue' /\ SessionRouted' /\ CloseTrue'
      /\ handle'[i] = q
    BY <1>1, <1>2, <1>4, <1>5, <1>7, QuietStep
<1>9. FlushTrue'
  <2>1. /\ flusher'.pc = "drain" /\ flusher'.handle = i /\ flusher'.need = Emitted
        /\ flusher'.late = late
      BY <1>2
  <2>2. ASSUME q.drain = "settled", ~q.drainFailed, ~late, taint = {}
        PROVE  Emitted <= q.cursor
    <3>1. r.buffered = <<>> /\ r.op.kind # "drain"
        BY <1>3, <1>4, <2>2 DEF Drained, SingleDrain
    <3>2. r.cursor = session.seq
        BY <1>1, <2>2, <3>1, CaughtUp, TaintGrows
    <3> QED BY <1>4, <1>6, <3>2 DEF SameStore
  <2>3. (taint = {} => promised <= disk.n)'
      BY <1>2 DEF IInv, FlushTrue
  <2> HIDE DEF late, r
  <2> QED BY <1>1, <1>2, <1>4, <1>6, <1>8, <2>1, <2>2, <2>3 DEF FlushTrue
<1> QED BY <1>8, <1>9 DEF IInv

\* close begins.
LEMMA CloseStep == ASSUME IInv, Close PROVE IInv'
<1> DEFINE i == owner
           r == handle[i]
           d == DrainLive(r)
           need == Emitted
           q == [d EXCEPT !.close = "drain", !.closeNeed = need]
<1>1. i \in Handles /\ r \in Handle /\ Coherent(r) /\ r.state = "open" /\ r.close = "no"
    BY OwnerIs DEF Close
<1>2. /\ handle' = [handle EXCEPT ![i] = q]
      /\ UNCHANGED <<disk, owner, session, flusher, promised, faults, crashes, taint>>
    BY DEF Close
<1>3. SingleDrain(r) /\ Steady(r) /\ OperationFits(r) /\ Remembered(r) /\ ~Idle(r)
    BY <1>1 DEF Coherent, Steady, Idle
<1>4. d \in Handle /\ SameStore(d, r) /\ SameClose(d, r) /\ Drained(d, r)
    BY <1>1, <1>3, DrainLiveIs, DrainLiveDrained
<1>5. Coherent(d)
    BY <1>1, <1>3, DrainLiveCoherent DEF Coherent
<1>6. /\ need \in Seqs /\ need <= session.seq
      /\ need > 0 => session.state = "published" /\ session.opened < need
    BY DEF Emitted, IInv, Types, Bounds, LiveSession, Seqs
<1> HIDE DEF d, need
<1>7. q \in Handle
    BY <1>4, <1>6 DEF Handle
<1>8. /\ SameStore(q, d) /\ q.op = d.op /\ q.buffered = d.buffered /\ q.chain = d.chain
      /\ q.drain = d.drain /\ q.drainFailed = d.drainFailed /\ q.timer = d.timer
      /\ q.paused = d.paused /\ q.close = "drain" /\ q.closeNeed = need
    BY <1>4 DEF Handle, SameStore
<1> HIDE DEF q, r
<1>9. Drained(q, r)
    BY <1>4, <1>8 DEF Drained, SameStore
<1>10. Coherent(q)
  <2>1. q.state = "open" /\ SingleDrain(q)
      BY <1>1, <1>4, <1>5, <1>8 DEF SameStore, Coherent, Steady, SingleDrain, r
  <2>2. Steady(q)
      BY <1>5, <1>8, <2>1 DEF Coherent, Steady, SameStore, Idle
  <2>3. OperationFits(q)
      BY <1>5, <1>8 DEF Coherent, OperationFits, SameStore
  <2>4. Remembered(q)
      BY <1>5, <1>8 DEF Coherent, Remembered, SameStore
  <2> QED BY <1>8, <2>1, <2>2, <2>3, <2>4 DEF Coherent, Idle
<1>11. flusher' \in Caller
    BY <1>2 DEF IInv, Types
<1>12. /\ Types' /\ HandlesCoherent' /\ OneOwner' /\ DiskTrue' /\ SessionRouted'
       /\ handle'[i] = q /\ Aside(i)
    BY <1>1, <1>2, <1>7, <1>9, <1>10, <1>11, QuietStep DEF r
<1>13. FlushTrue'
  <2>1. flusher.pc = "drain" => handle'[flusher.handle].close # "no"
    <3>1. ASSUME flusher.pc = "drain", flusher.handle # i
          PROVE  handle[flusher.handle].close # "no" /\ handle'[flusher.handle] = handle[flusher.handle]
        BY <1>12, <3>1 DEF IInv, FlushTrue, Aside
    <3> QED BY <1>8, <1>12, <3>1
  <2> QED BY <1>2, <2>1 DEF IInv, FlushTrue
<1>14. CloseTrue'
  <2>1. ASSUME NEW j \in Handles, j # i
        PROVE handle'[j] = handle[j]
      BY <1>12, <2>1 DEF Aside
  <2> QED BY <1>2, <1>6, <1>8, <1>12, <2>1 DEF IInv, CloseTrue
<1> QED BY <1>12, <1>13, <1>14 DEF IInv

\* close waited for what was on the chain: it drains again, or waits once more
\* before it releases.
LEMMA CloseChecksStep == ASSUME IInv, NEW i \in Handles, CloseChecks(i) PROVE IInv'
<1> DEFINE r == handle[i]
           d == DrainLive(r)
           ahead == Outstanding(r)
           q == IF r.buffered = <<>> THEN [r EXCEPT !.close = "last", !.ahead = ahead]
                ELSE [d EXCEPT !.close = "drain"]
<1>1. /\ r \in Handle /\ Coherent(r) /\ r.close = "chain" /\ r.ahead = 0 /\ r.op = NoOp
      /\ r.state = "open"
    BY OwnerIs DEF CloseChecks, CloseReady, Coherent, Steady
<1>2. /\ handle' = [handle EXCEPT ![i] = q]
      /\ UNCHANGED <<disk, owner, session, flusher, promised, faults, crashes, taint>>
    BY DEF CloseChecks
<1>3. SingleDrain(r) /\ Steady(r) /\ OperationFits(r) /\ Remembered(r) /\ ~Idle(r)
    BY <1>1 DEF Coherent, Steady, Idle
<1>4. /\ d \in Handle /\ SameStore(d, r) /\ SameClose(d, r) /\ Drained(d, r)
      /\ d.op = r.op /\ d.ahead = r.ahead /\ Coherent(d)
  <2>1. Coherent(d)
      BY <1>1, <1>3, DrainLiveCoherent
  <2> QED BY <1>1, <1>3, <2>1, DrainLiveIs, DrainLiveDrained
<1>5. ahead \in Nat
    BY <1>1, OutstandingIs
<1> HIDE DEF d, ahead
<1>6. /\ q \in Handle /\ SameStore(q, r) /\ q.op = r.op /\ Drained(q, r)
      /\ q.closeFailed = r.closeFailed /\ q.closeNeed = r.closeNeed
      /\ q.close = IF r.buffered = <<>> THEN "last" ELSE "drain"
      /\ Coherent(q)
  <2>1. CASE r.buffered = <<>>
    <3> DEFINE y == [r EXCEPT !.close = "last", !.ahead = ahead]
    <3>1. y \in Handle
        BY <1>1, <1>5 DEF Handle
    <3>2. /\ SameStore(y, r) /\ y.op = r.op /\ y.buffered = r.buffered /\ y.chain = r.chain
          /\ y.drain = r.drain /\ y.drainFailed = r.drainFailed /\ y.close = "last"
          /\ y.closeFailed = r.closeFailed /\ y.closeNeed = r.closeNeed
        BY <1>1 DEF Handle, SameStore
    <3>3. q = y
        BY <2>1
    <3> HIDE DEF y, r
    <3>4. Drained(y, r)
        BY <3>2 DEF Drained
    <3>5. SingleDrain(y) /\ OperationFits(y) /\ y.state = "open" /\ y.buffered = <<>>
        BY <1>1, <1>3, <2>1, <3>2 DEF SingleDrain, OperationFits, SameStore
    <3>6. Steady(y) /\ Remembered(y)
        BY <1>3, <3>2, <3>5 DEF Steady, SameStore, Remembered, Idle
    <3>7. Coherent(y)
        BY <1>1, <3>2, <3>5, <3>6 DEF Coherent, Idle
    <3> QED BY <2>1, <3>1, <3>2, <3>3, <3>4, <3>7
  <2>2. CASE r.buffered # <<>>
    <3> DEFINE y == [d EXCEPT !.close = "drain"]
    <3>1. y \in Handle
        BY <1>4 DEF Handle
    <3>2. /\ SameStore(y, d) /\ y.op = d.op /\ y.buffered = d.buffered /\ y.chain = d.chain
          /\ y.drain = d.drain /\ y.drainFailed = d.drainFailed /\ y.close = "drain"
          /\ y.closeFailed = d.closeFailed /\ y.closeNeed = d.closeNeed
          /\ y.timer = d.timer /\ y.paused = d.paused
        BY <1>4 DEF Handle, SameStore
    <3>3. q = y
        BY <2>2
    <3> HIDE DEF y, r
    <3>4. Drained(y, r) /\ SameStore(y, r) /\ y.op = r.op
        BY <1>4, <3>2 DEF Drained, SameStore
    <3>5. SingleDrain(y) /\ OperationFits(y) /\ y.state = "open"
        BY <1>1, <1>4, <3>2, <3>4 DEF SingleDrain, OperationFits, SameStore, Coherent, Steady
    <3>6. Steady(y) /\ Remembered(y)
        BY <1>4, <3>2, <3>5 DEF Coherent, Steady, SameStore, Remembered, Idle
    <3>7. Coherent(y)
        BY <3>2, <3>5, <3>6 DEF Coherent, Idle
    <3> QED BY <1>4, <2>2, <3>1, <3>2, <3>3, <3>4, <3>7 DEF SameClose
  <2> QED BY <2>1, <2>2
<1> HIDE DEF q
<1>7. flusher' \in Caller
    BY <1>2 DEF IInv, Types
<1>8. /\ Types' /\ HandlesCoherent' /\ OneOwner' /\ DiskTrue' /\ SessionRouted'
      /\ handle'[i] = q /\ Aside(i)
    BY <1>2, <1>6, <1>7, QuietStep
<1>9. FlushTrue'
  <2>1. ASSUME flusher.pc = "drain", handle'[flusher.handle].close = "no"
        PROVE  /\ flusher.handle # i /\ flusher.handle \in Handles
               /\ handle'[flusher.handle] = handle[flusher.handle]
    <3>1. flusher.handle # i
        BY <1>6, <1>8, <2>1
    <3>2. flusher.handle \in Handles
        BY <2>1 DEF IInv, FlushTrue
    <3> QED BY <1>8, <3>1, <3>2 DEF Aside
  <2> QED BY <1>2, <2>1 DEF IInv, FlushTrue
<1>10. ASSUME taint = {}, r.buffered = <<>>
       PROVE  r.closeNeed <= disk.n
  <2>1. r.closeNeed \in Nat /\ disk.n \in Nat /\ r.cursor \in Nat /\ r.recovered \in Nat
      BY <1>1 DEF Handle, Seqs, IInv, Types, Artifact
  <2>2. CASE r.closeNeed = 0
      BY <2>1, <2>2
  <2>3. CASE r.closeNeed > 0
    <3>1. session.state = "published" /\ session.opened < r.closeNeed /\ r.closeNeed <= session.seq
        BY <1>1, <2>3 DEF IInv, CloseTrue
    <3>2. owner = i
        BY <1>1, OwnerIs
    <3>3. r.cursor = session.seq
      <4>1. r.op.kind # "drain"
          BY <1>1 DEF NoOp
      <4> QED BY <1>10, <3>1, <3>2, <4>1, CaughtUp, TaintGrows
    <3>4. session.opened \in Nat /\ session.seq \in Nat
        BY DEF IInv, Types, LiveSession, Seqs
    <3>5. r.recovered = 0
      <4>1. r.recovered > 0 => r.cursor = session.opened
          BY <3>1, <3>2 DEF IInv, SessionRouted, Routed
      <4> QED BY <2>1, <3>1, <3>3, <3>4, <4>1
    <3>6. r.materialized
        BY <1>3, <2>1, <3>1, <3>3, <3>4 DEF Steady
    <3>7. r.cursor = disk.n + r.recovered
        BY <1>1, <1>10, <3>6, TaintGrows DEF IInv, DiskTrue
    <3> QED BY <2>1, <3>1, <3>3, <3>4, <3>5, <3>7
  <2> QED BY <2>1, <2>2, <2>3
<1>11. CloseTrue'
  <2>1. ASSUME NEW j \in Handles, j # i
        PROVE  handle'[j] = handle[j]
      BY <1>8, <2>1 DEF Aside
  <2>2. /\ r.closeNeed > 0 =>
              /\ session.state = "published"
              /\ session.opened < r.closeNeed
              /\ r.closeNeed <= session.seq
      BY <1>1 DEF IInv, CloseTrue
  <2> HIDE DEF r
  <2> QED BY <1>2, <1>6, <1>8, <1>10, <2>1, <2>2 DEF IInv, CloseTrue
<1> QED BY <1>8, <1>9, <1>11 DEF IInv

\* The end of a drain: its callers go on, a flush with its own operation and a
\* close with the chain.
LEMMA DrainClearsStep == ASSUME IInv, NEW i \in Handles, DrainClears(i) PROVE IInv'
<1> DEFINE r == handle[i]
           joined == flusher.pc = "drain" /\ flusher.handle = i
           flushes == joined /\ ~r.drainFailed /\ r.close = "no"
           e == [kind |-> "flush", batch |-> <<>>]
           g == EnqueueChain(r, "flush", <<>>)
           p == IF flushes THEN g ELSE r
           close == IF r.close # "drain" THEN r.close
                    ELSE IF r.drainFailed THEN "last" ELSE "chain"
           failed == r.closeFailed \/ (r.close = "drain" /\ r.drainFailed)
           ahead == IF r.close = "drain" THEN Outstanding(r) ELSE r.ahead
           q == [p EXCEPT !.drain = "none", !.close = close, !.closeFailed = failed,
                          !.ahead = ahead]
<1>1. r \in Handle /\ Coherent(r) /\ r.drain = "settled"
    BY OwnerIs DEF DrainClears
<1>2. /\ SingleDrain(r) /\ Steady(r) /\ OperationFits(r) /\ Remembered(r) /\ ~Idle(r)
      /\ r.op.kind # "drain" /\ \A k \in DOMAIN r.chain : r.chain[k].kind # "drain"
    BY <1>1 DEF Coherent, Steady, SingleDrain
<1>3. /\ g \in Handle /\ SameStore(g, r) /\ SameClose(g, r) /\ g.chain = Append(r.chain, e)
      /\ g.op = r.op /\ g.buffered = r.buffered /\ g.ahead = r.ahead
      /\ g.timer = r.timer /\ g.paused = r.paused
    BY <1>1, EnqueueChainIs, Nothing
<1> HIDE DEF g
<1>4. /\ p \in Handle /\ SameStore(p, r) /\ SameClose(p, r)
      /\ p.op = r.op /\ p.buffered = r.buffered /\ p.ahead = r.ahead
      /\ p.timer = r.timer /\ p.paused = r.paused
      /\ flushes => p.chain = Append(r.chain, e)
      /\ ~flushes => p.chain = r.chain
  <2>1. CASE flushes
      BY <1>3, <2>1
  <2>2. CASE ~flushes
      BY <1>1, <2>2 DEF SameStore, SameClose
  <2> QED BY <2>1, <2>2
<1>5. /\ handle' = [handle EXCEPT ![i] = q]
      /\ flusher' = CASE ~joined -> flusher
                      [] joined /\ (r.drainFailed \/ r.close # "no") -> NoFlush
                      [] OTHER -> [flusher EXCEPT !.pc = "flush"]
      /\ UNCHANGED <<disk, owner, session, promised, faults, crashes, taint>>
  <2>1. q = [p EXCEPT !.drain = "none",
                      !.close = IF @ # "drain" THEN @ ELSE IF r.drainFailed THEN "last" ELSE "chain",
                      !.closeFailed = @ \/ (r.close = "drain" /\ r.drainFailed),
                      !.ahead = IF r.close = "drain" THEN Outstanding(r) ELSE @]
    <3>1. p.close = r.close /\ p.closeFailed = r.closeFailed /\ p.ahead = r.ahead
        BY <1>4 DEF SameClose
    <3> HIDE DEF p
    <3> QED BY <1>4, <3>1 DEF Handle
  <2> QED BY <2>1 DEF DrainClears, g
<1>6. /\ close \in {"no", "drain", "chain", "last", "closed"} /\ failed \in BOOLEAN
      /\ ahead \in Nat /\ (r.close = "drain" /\ ahead = 0 => r.op = NoOp)
      /\ (r.close # "drain" => ahead = r.ahead /\ close = r.close)
      /\ (r.close = "drain" /\ r.drainFailed => close = "last" /\ failed)
      /\ (r.close = "drain" /\ ~r.drainFailed => close = "chain")
      /\ (r.closeFailed => failed)
  <2>1. Outstanding(r) \in Nat /\ (Outstanding(r) = 0 => r.op = NoOp) /\ r.ahead \in Nat
      BY <1>1, OutstandingIs DEF Handle
  <2>2. r.close \in {"no", "drain", "chain", "last", "closed"}
      BY <1>1 DEF Handle
  <2>3. failed \in BOOLEAN
      BY <1>1 DEF Handle
  <2> QED BY <2>1, <2>2, <2>3
<1> HIDE DEF p, close, failed, ahead
<1>7. /\ q \in Handle /\ SameStore(q, r) /\ q.op = r.op /\ q.buffered = r.buffered
      /\ q.chain = p.chain /\ q.timer = r.timer /\ q.paused = r.paused
      /\ q.drain = "none" /\ q.close = close /\ q.closeFailed = failed /\ q.ahead = ahead
      /\ q.closeNeed = r.closeNeed
  <2>1. q \in Handle
      BY <1>4, <1>6 DEF Handle
  <2>2. /\ SameStore(q, p) /\ q.op = p.op /\ q.buffered = p.buffered
        /\ q.chain = p.chain /\ q.timer = p.timer /\ q.paused = p.paused
        /\ q.drain = "none" /\ q.close = close /\ q.closeFailed = failed /\ q.ahead = ahead
        /\ q.closeNeed = p.closeNeed
      BY <1>4 DEF Handle, SameStore
  <2> QED BY <1>4, <2>1, <2>2 DEF SameStore, SameClose
<1> HIDE DEF q
<1>8. /\ e \in Entry /\ e.kind = "flush" /\ e.batch = <<>> /\ r.chain \in Seq(Entry)
    BY <1>1, Nothing DEF Entry, Handle
<1> HIDE DEF e
<1>9. SingleDrain(q)
  <2>1. CASE flushes
    <3>1. q.chain = Append(r.chain, e) /\ e.kind # "drain"
        BY <1>4, <1>7, <1>8, <2>1
    <3> QED BY <1>1, <1>2, <1>7, <1>8, <3>1, ChainStaysSingle
  <2>2. CASE ~flushes
    <3>1. q.chain = r.chain
        BY <1>4, <1>7, <2>2
    <3> QED BY <1>2, <1>7, <3>1 DEF SingleDrain
  <2> QED BY <2>1, <2>2
<1>10. Coherent(q)
  <2>1. r.close \in {"no", "drain", "chain", "last", "closed"}
      BY <1>1 DEF Handle
  <2>2. Steady(q)
    <3>1. ~Idle(q)
        BY <1>2, <1>7 DEF Idle, SameStore
    <3>2. q.close \in {"drain", "chain", "last"} => q.state = "open"
        BY <1>2, <1>6, <1>7, <2>1 DEF Steady, SameStore
    <3> QED BY <1>2, <1>7, <1>9, <3>1, <3>2 DEF Steady, SameStore
  <2>3. OperationFits(q)
      BY <1>2, <1>7 DEF OperationFits, SameStore
  <2>4. Remembered(q)
      BY <1>1, <1>2, <1>7 DEF Remembered, SameStore
  <2>5. q.close \in {"chain", "last"} /\ q.ahead = 0 => q.op = NoOp
      BY <1>1, <1>6, <1>7, <2>1 DEF Coherent
  <2>6. ~Idle(q)
      BY <1>2, <1>7 DEF Idle, SameStore
  <2> QED BY <2>2, <2>3, <2>4, <2>5, <2>6 DEF Coherent, Idle
<1>11. handle'[i] = q /\ Aside(i)
    BY <1>5, <1>7 DEF Aside, IInv, Types
<1>12. ASSUME flushes
       PROVE  /\ i = owner /\ session.state = "published" /\ r.state = "open"
              /\ ~flusher.late /\ taint = {} => flusher.need <= disk.n
  <2>1. /\ owner = i /\ session.state = "published"
        /\ flusher.need > 0 => session.opened < flusher.need
        /\ ~flusher.late /\ taint = {} => flusher.need <= r.cursor
      BY <1>1, <1>12 DEF IInv, FlushTrue
  <2>2. r.state = "open"
      BY <2>1, OwnerIs
  <2>3. ASSUME ~flusher.late, taint = {} PROVE flusher.need <= disk.n
    <3>1. /\ flusher.need \in Nat /\ r.cursor \in Nat /\ r.recovered \in Nat /\ disk.n \in Nat
          /\ session.opened \in Nat
        BY <1>1 DEF IInv, Types, Caller, Handle, Artifact, LiveSession, Seqs
    <3>2. CASE flusher.need = 0
        BY <3>1, <3>2
    <3>3. CASE flusher.need > 0
      <4>1. r.recovered > 0 => r.cursor = session.opened
          BY <2>1 DEF IInv, SessionRouted, Routed
      <4>2. r.recovered = 0 /\ r.cursor # 0
          BY <2>1, <2>3, <3>1, <3>3, <4>1
      <4>3. r.materialized
          BY <1>2, <4>2 DEF Steady
      <4>4. r.cursor = disk.n + r.recovered
          BY <2>2, <2>3, <4>3, TaintGrows DEF IInv, DiskTrue
      <4> QED BY <2>1, <2>3, <3>1, <4>2, <4>4
    <3> QED BY <3>1, <3>2, <3>3
  <2> QED BY <2>1, <2>2, <2>3
<1>13. flusher' \in Caller
  <2>1. flusher \in Caller /\ NoFlush \in Caller
      BY DEF IInv, Types, Bounds, Caller, NoFlush, Seqs
  <2>2. [flusher EXCEPT !.pc = "flush"] \in Caller
      BY <2>1 DEF Caller
  <2> HIDE DEF joined
  <2> QED BY <1>5, <2>1, <2>2
<1>14. Types'
    BY <1>5, <1>11, <1>13 DEF IInv, Types, Aside
<1>15. HandlesCoherent' /\ OneOwner' /\ DiskTrue'
  <2>1. Sound /\ q.op # NoOp => r.state = "open"
      BY <1>7 DEF IInv, DiskTrue
  <2>2. Sound' = Sound
      BY <1>5 DEF Sound
  <2> QED BY <1>5, <1>7, <1>10, <1>11, <2>1, <2>2, StoreKept
<1>16. SessionRouted'
  <2>1. CASE owner # i
    <3>1. owner \in Handles => handle'[owner] = handle[owner]
        BY <1>11, <2>1 DEF Aside
    <3> QED BY <1>5, <3>1, OwnerIs, RoutedKept
  <2>2. CASE owner = i
    <3>1. q.cursor = r.cursor /\ q.recovered = r.recovered /\ Kept(q) = Kept(r)
        BY <1>7 DEF SameStore, Kept
    <3>2. ~flushes => q.chain = r.chain
        BY <1>4, <1>7
    <3>3. session.state = "published" =>
             r.op.kind # "append" /\ \A k \in DOMAIN r.chain : r.chain[k].kind # "append"
        BY <2>2 DEF IInv, SessionRouted, Routed
    <3>4. flushes => /\ q.op.kind # "append"
                     /\ \A k \in DOMAIN q.chain : q.chain[k].kind # "append"
      <4> SUFFICES ASSUME flushes
                   PROVE  /\ q.op.kind # "append"
                          /\ \A k \in DOMAIN q.chain : q.chain[k].kind # "append"
          OBVIOUS
      <4>1. /\ \A k \in DOMAIN r.chain : q.chain[k] = r.chain[k]
            /\ q.chain[Len(r.chain) + 1] = e
            /\ \A k \in DOMAIN q.chain : k \in DOMAIN r.chain \/ k = Len(r.chain) + 1
          BY <1>4, <1>7, <1>8, ChainGrows
      <4>2. e.kind # "append"
          BY <1>8
      <4> HIDE DEF flushes
      <4> QED BY <1>7, <1>12, <3>3, <4>1, <4>2
    <3>5. flushes => session.state = "published"
        BY <1>12
    <3> HIDE DEF r, flushes
    <3>6. session.state # "none" =>
            /\ q.cursor = r.cursor /\ q.recovered = r.recovered
            /\ \/ q.op = r.op /\ q.chain = r.chain /\ q.buffered = r.buffered
               \/ /\ session.state \notin {"setup", "stored", "storing"}
                  /\ session.state = "published" =>
                        /\ q.op.kind # "append"
                        /\ \A k \in DOMAIN q.chain : q.chain[k].kind # "append"
                        /\ Kept(q) = Kept(r)
        BY <1>7, <3>1, <3>2, <3>4, <3>5
    <3> QED BY <1>5, <1>11, <2>2, <3>6, RoutedKept DEF r
  <2> QED BY <2>1, <2>2
<1>17. FlushTrue'
  <2>1. (taint = {} => promised <= disk.n)'
      BY <1>5 DEF IInv, FlushTrue
  <2>2. CASE ~joined
    <3>1. flusher' = flusher
        BY <1>5, <2>2
    <3>2. ASSUME flusher.pc = "drain", handle'[flusher.handle].close = "no"
          PROVE  /\ flusher.handle \in Handles
                 /\ handle'[flusher.handle] = handle[flusher.handle]
      <4>1. flusher.handle \in Handles /\ flusher.handle # i
          BY <2>2, <3>2 DEF IInv, FlushTrue
      <4> QED BY <1>11, <4>1 DEF Aside
    <3> QED BY <1>5, <2>1, <3>1, <3>2 DEF IInv, FlushTrue
  <2>3. CASE joined /\ (r.drainFailed \/ r.close # "no")
    <3>1. flusher' = NoFlush
      <4> HIDE DEF joined
      <4> QED BY <1>5, <2>3
    <3> QED BY <2>1, <3>1 DEF FlushTrue, NoFlush
  <2>4. CASE flushes
    <3>1. flusher' = [flusher EXCEPT !.pc = "flush"]
      <4> HIDE DEF joined
      <4> QED BY <1>5, <2>4
    <3>2. /\ flusher'.pc = "flush" /\ flusher'.handle = i /\ flusher'.need = flusher.need
          /\ flusher'.late = flusher.late
        BY <2>4, <3>1 DEF IInv, Types, Caller
    <3> QED BY <1>5, <1>12, <2>1, <2>4, <3>2 DEF FlushTrue
  <2> QED BY <2>2, <2>3, <2>4
<1>18. CloseTrue'
  <2>1. ASSUME NEW j \in Handles, j # i
        PROVE  handle'[j] = handle[j]
      BY <1>11, <2>1 DEF Aside
  <2>2. /\ r.close \in {"drain", "chain"} /\ r.closeNeed > 0 =>
              /\ session.state = "published"
              /\ session.opened < r.closeNeed
              /\ r.closeNeed <= session.seq
        /\ taint = {} /\ r.close \in {"last", "closed"} /\ ~r.closeFailed
              => r.closeNeed <= disk.n
      BY DEF IInv, CloseTrue
  <2> HIDE DEF r
  <2>3. /\ q.close \in {"drain", "chain"} /\ q.closeNeed > 0 =>
              /\ session.state = "published"
              /\ session.opened < q.closeNeed
              /\ q.closeNeed <= session.seq
        /\ taint = {} /\ q.close \in {"last", "closed"} /\ ~q.closeFailed
              => q.closeNeed <= disk.n
      BY <1>6, <1>7, <2>2
  <2> QED BY <1>5, <1>11, <2>1, <2>3 DEF IInv, CloseTrue
<1> QED BY <1>14, <1>15, <1>16, <1>17, <1>18 DEF IInv

-----------------------------------------------------------------------------
(* Acquisition and release. *)

\* A record without an operation, a chain, a buffer or a close is coherent.
LEMMA BlankCoherent ==
    ASSUME NEW r \in Handle, r.op = NoOp, r.chain = <<>>, r.close \in {"no", "closed"},
           r.drain = "none", ~r.timer, r.buffered = <<>>,
           ~r.materialized => r.cursor = 0 /\ r.recovered = 0 /\ ~r.torn,
           Idle(r) => r.close = "no", r.state = "none" => r = Fresh
    PROVE  Coherent(r)
<1>1. r.op.kind = "none" /\ r.op.stage = "none" /\ r.op.batch = <<>>
    BY DEF NoOp
<1>2. DOMAIN <<>> = {}
    BY Nothing, LenProperties
<1>3. SingleDrain(r)
    BY <1>1, <1>2 DEF SingleDrain
<1>4. Steady(r)
    BY <1>3 DEF Steady
<1>5. OperationFits(r)
  <2>1. Contiguous(r.op.batch, r.cursor)
      BY <1>1, Nothing DEF Handle, Seqs
  <2> QED BY <1>1, <2>1 DEF OperationFits
<1>6. Remembered(r)
    BY DEF Remembered
<1> QED BY <1>4, <1>5, <1>6 DEF Coherent

\* A handle before it is acquired, and what the other states start from.
LEMMA FreshIs ==
    ASSUME MaxEvents \in Nat
    PROVE  /\ Fresh \in Handle /\ Fresh.state = "none" /\ Fresh.cursor = 0
           /\ Fresh.materialized = FALSE /\ Fresh.torn = FALSE /\ Fresh.recovered = 0
           /\ Fresh.buffered = <<>> /\ Fresh.timer = FALSE /\ Fresh.drain = "none"
           /\ Fresh.chain = <<>> /\ Fresh.op = NoOp /\ Fresh.close = "no"
           /\ Fresh.closeNeed = 0 /\ Fresh.ahead = 0
<1>1. NoOp \in Operation
    BY Nothing DEF NoOp, Operation
<1>2. 0 \in Seqs /\ 0 \in Nat
    BY DEF Seqs
<1>3. Fresh \in Handle
    BY <1>1, <1>2, Nothing DEF Fresh, Handle
<1> QED BY <1>3 DEF Fresh

\* A fresh handle changes its state.
LEMMA FreshState ==
    ASSUME MaxEvents \in Nat, NEW s \in {"claimed", "open", "released", "dead"}
    PROVE  LET q == [Fresh EXCEPT !.state = s] IN
           /\ q \in Handle /\ q.state = s /\ q.cursor = 0
           /\ ~q.materialized /\ ~q.torn /\ q.recovered = 0
           /\ q.buffered = <<>> /\ ~q.timer /\ q.drain = "none"
           /\ q.chain = <<>> /\ q.op = NoOp /\ q.close = "no"
           /\ Coherent(q)
<1> DEFINE q == [Fresh EXCEPT !.state = s]
<1>1. q \in Handle
    BY FreshIs DEF Handle
<1>2. /\ q.state = s /\ q.cursor = 0
      /\ ~q.materialized /\ ~q.torn /\ q.recovered = 0
      /\ q.buffered = <<>> /\ ~q.timer /\ q.drain = "none"
      /\ q.chain = <<>> /\ q.op = NoOp /\ q.close = "no"
    BY FreshIs DEF Handle
<1> HIDE DEF q
<1>3. Coherent(q)
    BY <1>1, <1>2, BlankCoherent
<1>4. /\ q \in Handle /\ q.state = s /\ q.cursor = 0
      /\ ~q.materialized /\ ~q.torn /\ q.recovered = 0
      /\ q.buffered = <<>> /\ ~q.timer /\ q.drain = "none"
      /\ q.chain = <<>> /\ q.op = NoOp /\ q.close = "no"
      /\ Coherent(q)
    BY <1>1, <1>2, <1>3
<1> QED BY <1>4 DEF q

\* A handle is acquired, or not: no flush and no close is under way.
LEMMA AcquiredKept ==
    ASSUME IInv, NEW i \in Handles, Aside(i), session.state # "published",
           handle[i].close = "no", handle'[i].close = "no",
           UNCHANGED <<disk, flusher, promised, taint>>
    PROVE  FlushTrue' /\ CloseTrue'
<1>1. flusher.pc = "drain" => handle'[flusher.handle].close # "no"
  <2>1. ASSUME flusher.pc = "drain"
        PROVE  flusher.handle \in Handles /\ handle[flusher.handle].close # "no"
      BY <2>1 DEF IInv, FlushTrue
  <2> QED BY <2>1 DEF Aside
<1>2. FlushTrue'
    BY <1>1 DEF IInv, FlushTrue
<1>3. ASSUME NEW j \in Handles, handle'[j].close # "no"
      PROVE  /\ ~(handle'[j].close \in {"drain", "chain"} /\ handle'[j].closeNeed > 0)
             /\ taint = {} /\ handle'[j].close \in {"last", "closed"} /\ ~handle'[j].closeFailed
                  => handle'[j].closeNeed <= disk.n
  <2>1. handle'[j] = handle[j]
      BY <1>3 DEF Aside
  <2> QED BY <2>1 DEF IInv, CloseTrue
<1>4. CloseTrue'
    BY <1>3 DEF CloseTrue
<1> QED BY <1>2, <1>4

\* The artifact does not notice an acquisition.
LEMMA DiskUnseen ==
    ASSUME IInv, NEW i \in Handles, Aside(i), disk' = disk, taint' = taint,
           handle'[i].op = NoOp,
           handle'[i].materialized \/ handle'[i].state = "claimed" => disk.exists,
           Sound /\ handle'[i].state = "open" /\ handle'[i].materialized
               => /\ handle'[i].cursor = disk.n + handle'[i].recovered
                  /\ disk.torn => handle'[i].torn
    PROVE  DiskTrue'
<1>1. Sound' = Sound
    BY DEF Sound
<1>2. (~disk.exists => disk.n = 0 /\ ~disk.torn)' /\ (Sound' => ~disk'.bad)
    BY <1>1 DEF IInv, DiskTrue
<1>3. \A j \in Handles : handle'[j].materialized \/ handle'[j].state = "claimed" => disk'.exists
    BY DEF IInv, DiskTrue, Aside
<1>4. Sound' => \A j \in Handles : handle'[j].op # NoOp => handle'[j].state = "open"
    BY <1>1 DEF IInv, DiskTrue, Aside
<1>5. ASSUME Sound, NEW j \in Handles, handle'[j].state = "open", handle'[j].materialized
      PROVE  /\ handle'[j].cursor = disk.n + handle'[j].recovered
             /\ disk.torn => handle'[j].torn
  <2>1. CASE j = i
      BY <1>5, <2>1
  <2>2. CASE j # i
    <3>1. handle'[j] = handle[j]
        BY <2>2 DEF Aside
    <3> QED BY <1>5, <3>1 DEF IInv, DiskTrue
  <2> QED BY <2>1, <2>2
<1> QED BY <1>1, <1>2, <1>3, <1>4, <1>5 DEF DiskTrue

\* createAgent acquires the handle of a new session.
LEMMA CreateStep ==
    ASSUME IInv, NEW i \in Handles, NEW seed \in 0..1, Create(i, seed) PROVE IInv'
<1> DEFINE r == handle[i]
           q == [Fresh EXCEPT !.state = "open"]
<1>1. r \in Handle /\ Coherent(r) /\ r.state = "none" /\ owner = 0 /\ session = NoSession
    BY OwnerIs DEF Create, Unused
<1>2. r = Fresh /\ r.close = "no"
    BY <1>1 DEF Coherent, Steady, Idle
<1>3. /\ handle' = [handle EXCEPT ![i] = q]
      /\ UNCHANGED <<disk, flusher, promised, faults, crashes, taint>>
      /\ owner' = i /\ seed <= MaxEvents
      /\ session' = [state |-> "setup", seq |-> seed, stored |-> 0, opened |-> 0]
  <2>1. [handle EXCEPT ![i].state = "open"] = [handle EXCEPT ![i] = [r EXCEPT !.state = "open"]]
      BY DEF IInv, Types
  <2> QED BY <1>2, <2>1 DEF Create
<1>4. MaxEvents \in Nat /\ MaxHandles \in Nat /\ i \in 1..MaxHandles
    BY DEF IInv, Types, Bounds, Handles
<1>5. /\ q \in Handle /\ q.state = "open" /\ q.cursor = 0 /\ ~q.materialized /\ q.recovered = 0
      /\ q.buffered = <<>> /\ q.chain = <<>> /\ q.op = NoOp /\ q.close = "no" /\ Coherent(q)
    BY <1>4, FreshState
<1> HIDE DEF q
<1>6. handle'[i] = q /\ Aside(i)
    BY <1>3, <1>5 DEF Aside, IInv, Types
<1>7. session' \in LiveSession
    BY <1>3, <1>4 DEF LiveSession, Seqs
<1>8. Types'
    BY <1>3, <1>4, <1>6, <1>7 DEF IInv, Types, Aside
<1>9. HandlesCoherent'
    BY <1>5, <1>6 DEF IInv, HandlesCoherent, Aside
<1>10. OneOwner'
  <2>1. ASSUME NEW j \in Handles
        PROVE  handle'[j].state \in {"claimed", "open"} <=> owner' = j
    <3>1. j # 0
        BY <1>4 DEF Handles
    <3> QED BY <1>1, <1>3, <1>5, <1>6, <3>1 DEF IInv, OneOwner, Aside
  <2> QED BY <1>3, <1>4, <1>5, <1>6, <2>1 DEF OneOwner
<1>11. SessionRouted'
  <2>1. Routed(q, session', "gap" \in taint')
      BY <1>3, <1>5 DEF Routed
  <2> QED BY <1>3, <1>6, <2>1 DEF SessionRouted
<1>12. DiskTrue'
    BY <1>3, <1>5, <1>6, DiskUnseen
<1>13. FlushTrue' /\ CloseTrue'
    BY <1>1, <1>2, <1>3, <1>5, <1>6, AcquiredKept DEF NoSession
<1> QED BY <1>8, <1>9, <1>10, <1>11, <1>12, <1>13 DEF IInv

\* resume claims the log.
LEMMA ClaimStep == ASSUME IInv, NEW i \in Handles, claimWrite(i) PROVE IInv'
<1> DEFINE r == handle[i]
           q == [Fresh EXCEPT !.state = "claimed"]
<1>1. r \in Handle /\ Coherent(r) /\ r.state = "none" /\ owner = 0 /\ session = NoSession
    BY OwnerIs DEF claimWrite, Unused
<1>2. r = Fresh /\ r.close = "no"
    BY <1>1 DEF Coherent, Steady, Idle
<1>3. /\ handle' = [handle EXCEPT ![i] = q]
      /\ UNCHANGED <<disk, session, flusher, promised, faults, crashes, taint>>
      /\ owner' = i
  <2>1. [handle EXCEPT ![i].state = "claimed"] = [handle EXCEPT ![i] = [r EXCEPT !.state = "claimed"]]
      BY DEF IInv, Types
  <2> QED BY <1>2, <2>1 DEF claimWrite
<1>4. MaxEvents \in Nat /\ MaxHandles \in Nat /\ i \in 1..MaxHandles
    BY DEF IInv, Types, Bounds, Handles
<1>5. /\ q \in Handle /\ q.state = "claimed" /\ ~q.materialized /\ q.op = NoOp
      /\ q.close = "no" /\ Coherent(q)
    BY <1>4, FreshState
<1> HIDE DEF q
<1>6. handle'[i] = q /\ Aside(i)
    BY <1>3, <1>5 DEF Aside, IInv, Types
<1>7. Types'
    BY <1>3, <1>4, <1>6 DEF IInv, Types, Aside
<1>8. HandlesCoherent'
    BY <1>5, <1>6 DEF IInv, HandlesCoherent, Aside
<1>9. OneOwner' /\ SessionRouted'
  <2>1. ASSUME NEW j \in Handles
        PROVE  handle'[j].state \in {"claimed", "open"} <=> owner' = j
    <3>1. j # 0
        BY <1>4 DEF Handles
    <3> QED BY <1>1, <1>3, <1>5, <1>6, <3>1 DEF IInv, OneOwner, Aside
  <2>2. session'.state = "none"
      BY <1>1, <1>3 DEF NoSession
  <2> QED BY <2>1, <2>2 DEF OneOwner, SessionRouted
<1>10. DiskTrue'
    BY <1>3, <1>5, <1>6, DiskUnseen DEF claimWrite
<1>11. FlushTrue' /\ CloseTrue'
    BY <1>1, <1>2, <1>3, <1>5, <1>6, AcquiredKept DEF NoSession
<1> QED BY <1>7, <1>8, <1>9, <1>10, <1>11 DEF IInv

\* A claimed handle: no session yet, and nothing on the chain.
LEMMA ClaimedIs ==
    ASSUME IInv, NEW i \in Handles, handle[i].state = "claimed"
    PROVE  owner = i /\ session.state = "none" /\ handle[i].close = "no"
<1>1. owner = i
    BY DEF IInv, OneOwner
<1>2. session.state = "none"
    BY <1>1 DEF IInv, OneOwner
<1>3. handle[i].close = "no"
    BY OwnerIs DEF Coherent, Steady, Idle
<1> QED BY <1>1, <1>2, <1>3

\* The read of the stored prefix succeeds.
LEMMA OpenStep ==
    ASSUME IInv, NEW i \in Handles, NEW closers \in 0..1, OpenAdopts(i, closers) PROVE IInv'
<1> DEFINE recovered == IF Compressed THEN disk.partial ELSE 0
           stored == disk.n + recovered
           torn == disk.torn
           q == [Fresh EXCEPT !.state = "open", !.cursor = stored, !.materialized = TRUE,
                              !.torn = torn, !.recovered = recovered]
<1>1. owner = i /\ session.state = "none" /\ handle[i].close = "no" /\ ~disk.bad
    BY ClaimedIs DEF OpenAdopts
<1>2. /\ handle' = [handle EXCEPT ![i] = q]
      /\ session' = [state |-> "setup", seq |-> stored + closers, stored |-> stored, opened |-> stored]
      /\ stored + closers <= MaxEvents
      /\ UNCHANGED <<disk, owner, flusher, promised, faults, crashes, taint>>
    BY DEF OpenAdopts
<1>3. MaxEvents \in Nat /\ disk \in Artifact
    BY DEF IInv, Types, Bounds
<1>4. recovered \in Nat /\ stored \in Nat /\ torn \in BOOLEAN /\ disk.n \in Nat /\ closers \in Nat
    BY <1>3 DEF Artifact
<1>5. stored \in Seqs /\ recovered \in Seqs /\ stored + closers \in Seqs
    BY <1>2, <1>3, <1>4 DEF Seqs
<1> HIDE DEF recovered, torn
<1>6. q \in Handle
  <2> HIDE DEF stored
  <2> QED BY <1>3, <1>5, <1>4, FreshIs DEF Handle
<1>7. /\ q.state = "open" /\ q.cursor = stored /\ q.materialized /\ q.torn = torn
      /\ q.recovered = recovered /\ q.buffered = <<>> /\ ~q.timer /\ q.drain = "none"
      /\ q.chain = <<>> /\ q.op = NoOp /\ q.close = "no"
  <2> HIDE DEF stored
  <2> QED BY <1>3, FreshIs DEF Handle
<1> HIDE DEF q
<1>8. Coherent(q)
    BY <1>6, <1>7, BlankCoherent DEF Idle
<1>9. handle'[i] = q /\ Aside(i)
    BY <1>2, <1>6 DEF Aside, IInv, Types
<1>10. session' \in LiveSession
  <2> HIDE DEF stored
  <2> QED BY <1>2, <1>5 DEF LiveSession
<1>11. Types'
    BY <1>2, <1>9, <1>10 DEF IInv, Types, Aside
<1>12. HandlesCoherent'
    BY <1>8, <1>9 DEF IInv, HandlesCoherent, Aside
<1>13. OneOwner'
  <2>1. \A j \in Handles : handle'[j].state \in {"claimed", "open"} <=> owner' = j
      BY <1>1, <1>2, <1>7, <1>9 DEF IInv, OneOwner, Aside
  <2>2. owner' # 0 /\ handle'[owner'].state = "open"
      BY <1>1, <1>2, <1>7, <1>9 DEF Handles
  <2> QED BY <2>1, <2>2 DEF OneOwner
<1>14. SessionRouted'
  <2>1. stored <= stored + closers
      BY <1>4
  <2> HIDE DEF stored
  <2>2. Routed(q, session', "gap" \in taint')
      BY <1>2, <1>7, <2>1 DEF Routed
  <2> QED BY <1>1, <1>2, <1>9, <2>2 DEF SessionRouted
<1>15. DiskTrue'
  <2>1. disk.exists
      BY DEF OpenAdopts, IInv, DiskTrue
  <2> QED BY <1>2, <1>7, <1>9, <2>1, DiskUnseen DEF torn
<1>16. FlushTrue' /\ CloseTrue'
    BY <1>1, <1>2, <1>7, <1>9, AcquiredKept
<1> QED BY <1>11, <1>12, <1>13, <1>14, <1>15, <1>16 DEF IInv

\* The stored log cannot be read: the claim is given back.
LEMMA OpenFailsStep == ASSUME IInv, NEW i \in Handles, OpenFails(i) PROVE IInv'
<1> DEFINE q == [Fresh EXCEPT !.state = "released"]
<1>1. owner = i /\ session.state = "none" /\ handle[i].close = "no"
    BY ClaimedIs DEF OpenFails
<1>2. /\ handle' = [handle EXCEPT ![i] = q] /\ owner' = 0
      /\ UNCHANGED <<disk, session, flusher, promised, faults, crashes, taint>>
    BY DEF OpenFails
<1>3. MaxEvents \in Nat /\ MaxHandles \in Nat /\ i \in 1..MaxHandles
    BY DEF IInv, Types, Bounds, Handles
<1>4. /\ q \in Handle /\ q.state = "released" /\ ~q.materialized /\ q.op = NoOp
      /\ q.close = "no" /\ Coherent(q)
    BY <1>3, FreshState
<1> HIDE DEF q
<1>5. handle'[i] = q /\ Aside(i)
    BY <1>2, <1>4 DEF Aside, IInv, Types
<1>6. Types'
    BY <1>2, <1>3, <1>5 DEF IInv, Types, Aside
<1>7. HandlesCoherent'
    BY <1>4, <1>5 DEF IInv, HandlesCoherent, Aside
<1>8. OneOwner' /\ SessionRouted'
  <2>1. ASSUME NEW j \in Handles
        PROVE  handle'[j].state \in {"claimed", "open"} <=> owner' = j
    <3>1. j # 0
        BY <1>3 DEF Handles
    <3> QED BY <1>1, <1>2, <1>4, <1>5, <3>1 DEF IInv, OneOwner, Aside
  <2>2. session'.state = "none"
      BY <1>1, <1>2
  <2> QED BY <2>1, <2>2 DEF OneOwner, SessionRouted
<1>9. DiskTrue'
    BY <1>2, <1>4, <1>5, DiskUnseen
<1>10. FlushTrue' /\ CloseTrue'
    BY <1>1, <1>2, <1>4, <1>5, AcquiredKept
<1> QED BY <1>6, <1>7, <1>8, <1>9, <1>10 DEF IInv

\* The handle is released.
LEMMA ReleaseStep == ASSUME IInv, NEW i \in Handles, Release(i) PROVE IInv'
<1> DEFINE r == handle[i]
           q == [r EXCEPT !.close = "closed", !.state = "released"]
<1>1. /\ r \in Handle /\ Coherent(r) /\ r.close = "last" /\ r.op = NoOp /\ r.state = "open"
      /\ owner = i
    BY OwnerIs DEF Release, CloseReady, Coherent, Steady
<1>2. /\ handle' = [handle EXCEPT ![i] = q] /\ owner' = 0 /\ session' = NoSession
      /\ UNCHANGED <<disk, flusher, promised, faults, crashes, taint>>
  <2>1. [handle EXCEPT ![i].close = "closed", ![i].state = "released"] = [handle EXCEPT ![i] = q]
      BY DEF IInv, Types
  <2> QED BY <2>1 DEF Release
<1>3. MaxEvents \in Nat /\ MaxHandles \in Nat /\ i \in 1..MaxHandles
    BY DEF IInv, Types, Bounds, Handles
<1>4. /\ q \in Handle /\ q.state = "released" /\ q.close = "closed" /\ q.op = r.op
      /\ q.cursor = r.cursor /\ q.materialized = r.materialized /\ q.torn = r.torn
      /\ q.recovered = r.recovered /\ q.buffered = r.buffered /\ q.timer = r.timer
      /\ q.drain = r.drain /\ q.chain = r.chain
      /\ q.closeFailed = r.closeFailed /\ q.closeNeed = r.closeNeed
  <2>1. q \in Handle
      BY <1>1 DEF Handle
  <2> QED BY <1>1, <2>1 DEF Handle
<1> HIDE DEF q
<1>5. Coherent(q)
  <2>1. SingleDrain(q)
      BY <1>1, <1>4 DEF Coherent, Steady, SingleDrain
  <2>2. Steady(q)
      BY <1>1, <1>4, <2>1 DEF Coherent, Steady, Idle
  <2>3. OperationFits(q)
      BY <1>1, <1>4 DEF Coherent, OperationFits
  <2> QED BY <1>1, <1>4, <2>2, <2>3 DEF Coherent, Idle, Remembered
<1>6. handle'[i] = q /\ Aside(i)
    BY <1>2, <1>4 DEF Aside, IInv, Types
<1>7. Types'
  <2>1. NoSession \in LiveSession
      BY <1>3 DEF NoSession, LiveSession, Seqs
  <2> QED BY <1>2, <1>3, <1>6, <2>1 DEF IInv, Types, Aside
<1>8. HandlesCoherent'
    BY <1>5, <1>6 DEF IInv, HandlesCoherent, Aside
<1>9. OneOwner' /\ SessionRouted'
  <2>1. ASSUME NEW j \in Handles
        PROVE  handle'[j].state \in {"claimed", "open"} <=> owner' = j
    <3>1. j # 0
        BY <1>3 DEF Handles
    <3> QED BY <1>1, <1>2, <1>4, <1>6, <3>1 DEF IInv, OneOwner, Aside
  <2>2. session'.state = "none"
      BY <1>2 DEF NoSession
  <2> QED BY <2>1, <2>2 DEF OneOwner, SessionRouted
<1>10. DiskTrue'
  <2>1. q.materialized => disk.exists
      BY <1>4 DEF IInv, DiskTrue
  <2> QED BY <1>1, <1>2, <1>4, <1>6, <2>1, DiskUnseen
<1>11. FlushTrue'
  <2>1. flusher.pc = "drain" => handle'[flusher.handle].close # "no"
    <3>1. ASSUME flusher.pc = "drain", flusher.handle # i
          PROVE  handle[flusher.handle].close # "no" /\ handle'[flusher.handle] = handle[flusher.handle]
        BY <1>1, <1>6, <3>1 DEF IInv, FlushTrue, Aside
    <3> QED BY <1>4, <1>6, <3>1
  <2> QED BY <1>2, <2>1 DEF IInv, FlushTrue
<1>12. CloseTrue'
  <2>1. ASSUME NEW j \in Handles, j # i
        PROVE  handle'[j] = handle[j] /\ handle[j].close \notin {"drain", "chain"}
    <3>1. handle[j].close \in {"drain", "chain"} => handle[j].state = "open"
        BY OwnerIs DEF Coherent, Steady
    <3> QED BY <1>1, <1>6, <2>1, <3>1, OwnerIs DEF Aside
  <2> HIDE DEF r
  <2>2. taint = {} /\ ~q.closeFailed => q.closeNeed <= disk.n
      BY <1>1, <1>4 DEF IInv, CloseTrue, r
  <2> QED BY <1>2, <1>4, <1>6, <2>1, <2>2 DEF IInv, CloseTrue
<1> QED BY <1>7, <1>8, <1>9, <1>10, <1>11, <1>12 DEF IInv

-----------------------------------------------------------------------------
(* The session: its setup, its publication and its events. *)

\* The suffix that is not stored yet, as one batch.
LEMMA IntervalIs ==
    ASSUME MaxEvents \in Nat, NEW lo \in Seqs, NEW hi \in Seqs, lo <= hi
    PROVE  Interval(lo, hi) \in Seq(Event) /\ Len(Interval(lo, hi)) = hi - lo
<1> DEFINE n == hi - lo
<1>1. n \in Nat /\ lo \in Nat /\ hi \in Nat /\ hi <= MaxEvents /\ hi = lo + n
    BY DEF Seqs
<1>2. \A k \in 1..n : lo + k - 1 \in Event
    BY <1>1 DEF Event
<1> HIDE DEF n
<1>3. [k \in 1..n |-> lo + k - 1] \in Seq(Event)
    BY <1>1, <1>2, SeqDef
<1>4. Len([k \in 1..n |-> lo + k - 1]) = n
    BY <1>1, <1>3, LenProperties
<1> QED BY <1>3, <1>4 DEF Interval, n

\* The loop hands the handle the suffix to store.
LEMMA SuffixStep == ASSUME IInv, appendUnstoredSuffix PROVE IInv'
<1> DEFINE i == owner
           r == handle[i]
           b == Interval(session.stored, session.seq)
           e == [kind |-> "append", batch |-> b]
           q == EnqueueChain(r, "append", b)
<1>1. /\ i \in Handles /\ r \in Handle /\ Coherent(r) /\ r.state = "open"
      /\ session.state = "setup" /\ session.stored < session.seq
    BY OwnerIs DEF appendUnstoredSuffix
<1>2. /\ handle' = [handle EXCEPT ![i] = q]
      /\ session' = [session EXCEPT !.state = "storing"]
      /\ UNCHANGED <<disk, owner, flusher, promised, faults, crashes, taint>>
    BY DEF appendUnstoredSuffix
<1>3. session \in LiveSession /\ MaxEvents \in Nat
    BY DEF IInv, Types, Bounds
<1>4. b \in Seq(Event) /\ Len(b) = session.seq - session.stored
  <2>1. session.stored \in Seqs /\ session.seq \in Seqs /\ session.stored <= session.seq
      BY <1>1, <1>3 DEF LiveSession, Seqs
  <2> QED BY <1>3, <2>1, IntervalIs
<1>5. r.cursor = session.stored /\ r.buffered = <<>> /\ r.chain = <<>> /\ r.op = NoOp
    BY <1>1 DEF IInv, SessionRouted, Routed
<1> HIDE DEF b
<1>6. /\ q \in Handle /\ SameStore(q, r) /\ SameClose(q, r)
      /\ q.chain = Append(r.chain, e)
      /\ q.op = r.op /\ q.buffered = r.buffered /\ q.ahead = r.ahead
      /\ q.timer = r.timer /\ q.paused = r.paused
      /\ q.drain = r.drain /\ q.drainFailed = r.drainFailed
    BY <1>1, <1>4, EnqueueChainIs
<1>7. e \in Entry /\ e.kind = "append" /\ e.batch = b
    BY <1>4 DEF Entry
<1> HIDE DEF e, q
<1>8. Len(q.chain) = 1 /\ q.chain[1] = e
  <2>1. Len(r.chain) = 0 /\ r.chain \in Seq(Entry)
      BY <1>5, Nothing
  <2> QED BY <1>6, <1>7, <2>1, AppendProperties
<1>9. Coherent(q)
  <2>1. r.op.kind # "drain" /\ DOMAIN r.chain = {}
      BY <1>5, Nothing, LenProperties DEF NoOp
  <2>2. SingleDrain(q)
      BY <1>1, <1>6, <1>7, <2>1, ChainStaysSingle DEF Coherent, Steady
  <2>3. Steady(q)
      BY <1>1, <1>6, <2>2 DEF Coherent, Steady, SameStore, SameClose, Idle
  <2>4. OperationFits(q)
      BY <1>1, <1>6 DEF Coherent, OperationFits, SameStore
  <2>5. Remembered(q)
      BY <1>5, <1>6 DEF Remembered
  <2> QED BY <1>1, <1>5, <1>6, <2>3, <2>4, <2>5 DEF Coherent, SameStore, Idle
<1>10. handle'[i] = q /\ Aside(i)
    BY <1>1, <1>2, <1>6 DEF Aside, IInv, Types
<1>11. /\ session' \in LiveSession /\ session'.state = "storing" /\ session'.seq = session.seq
       /\ session'.stored = session.stored /\ session'.opened = session.opened
    BY <1>2, <1>3 DEF LiveSession
<1>12. Types'
    BY <1>2, <1>10, <1>11 DEF IInv, Types, Aside
<1>13. HandlesCoherent' /\ OneOwner' /\ DiskTrue'
  <2>1. q.op = NoOp
      BY <1>5, <1>6
  <2> HIDE DEF r
  <2> QED BY <1>1, <1>2, <1>6, <1>9, <1>10, <2>1, StoreKept DEF r
<1>14. SessionRouted'
  <2>1. session.stored \in Nat /\ session.seq \in Nat /\ session.stored <= session.seq
      BY <1>1, <1>3 DEF LiveSession, Seqs
  <2>2. Storing(q, session')
      BY <1>4, <1>5, <1>6, <1>7, <1>8, <1>11, <2>1 DEF Storing
  <2>3. r.recovered > 0 => r.cursor = session.opened
      BY <1>1 DEF IInv, SessionRouted, Routed
  <2> HIDE DEF r
  <2>4. Routed(q, session', "gap" \in taint')
      BY <1>5, <1>6, <1>11, <2>1, <2>2, <2>3 DEF Routed, SameStore
  <2> QED BY <1>2, <1>10, <2>4 DEF SessionRouted
<1>15. /\ \A j \in Handles : SameClose(handle'[j], handle[j])
       /\ disk' \in Artifact /\ disk.n <= disk'.n /\ SessionGoesOn
       /\ handle' \in [Handles -> Handle] /\ taint \subseteq taint'
  <2>1. \A j \in Handles : SameClose(handle'[j], handle[j])
      BY <1>6, <1>10 DEF Aside, SameClose
  <2> QED BY <1>1, <1>2, <1>10, <2>1 DEF IInv, Types, Artifact, SessionGoesOn, Aside
<1>16. CloseTrue'
    BY <1>11, <1>15, CloseKept
<1>17. FlushTrue'
  <2>1. handle[owner].drain # "none" => handle'[owner].drain # "none"
      BY <1>6, <1>10
  <2> QED BY <1>1, <1>2, <1>11, <1>15, <2>1, FlushKept
<1> QED BY <1>12, <1>13, <1>14, <1>16, <1>17 DEF IInv

\* A step of the session alone: the handles are left as they are.
LEMMA SessionStepKept ==
    ASSUME IInv, UNCHANGED <<disk, handle, owner, flusher, promised, faults, crashes>>,
           session' \in LiveSession, SessionGoesOn, session.state # "none",
           taint \subseteq taint', taint' \subseteq Taints,
           Routed(handle[owner], session', "gap" \in taint')
    PROVE  IInv'
<1>1. Types' /\ HandlesCoherent'
    BY DEF IInv, Types, HandlesCoherent
<1>2. OneOwner'
    BY DEF IInv, OneOwner
<1>3. SessionRouted'
    BY DEF SessionRouted
<1>4. DiskTrue'
    BY TaintGrows DEF IInv, DiskTrue
<1>5. /\ \A j \in Handles : SameClose(handle'[j], handle[j])
      /\ disk' \in Artifact /\ disk.n <= disk'.n /\ handle' \in [Handles -> Handle]
    BY DEF IInv, Types, Artifact, SameClose
<1>6. CloseTrue'
    BY <1>5, CloseKept
<1>7. FlushTrue'
  <2>1. owner \in Handles /\ handle[owner].cursor \in Nat
      BY OwnerIs DEF Handle, Seqs
  <2> QED BY <1>5, <2>1, FlushKept
<1> QED BY <1>1, <1>2, <1>3, <1>4, <1>6, <1>7 DEF IInv

\* The append resolved, and setup goes on.
LEMMA MoreSetupStep == ASSUME IInv, MoreSetup PROVE IInv'
<1>1. session \in LiveSession /\ session.state = "stored" /\ taint \subseteq Taints
    BY DEF MoreSetup, IInv, Types
<1>2. /\ session' = [session EXCEPT !.state = "setup"]
      /\ UNCHANGED <<disk, handle, owner, flusher, promised, faults, crashes, taint>>
    BY DEF MoreSetup
<1>3. /\ session' \in LiveSession /\ session'.state = "setup" /\ session'.seq = session.seq
      /\ session'.stored = session.stored /\ session'.opened = session.opened
    BY <1>1, <1>2 DEF LiveSession
<1>4. Routed(handle[owner], session, "gap" \in taint)
    BY <1>1 DEF IInv, SessionRouted
<1>5. Routed(handle[owner], session', "gap" \in taint)
    BY <1>1, <1>3, <1>4 DEF Routed
<1>6. SessionGoesOn
    BY <1>1 DEF SessionGoesOn
<1> QED BY <1>1, <1>2, <1>3, <1>5, <1>6, SessionStepKept

\* Publication: what is stored by then is what the handle goes on from.
LEMMA PublishStep == ASSUME IInv, Publish PROVE IInv'
<1> DEFINE r == handle[owner]
<1>1. /\ session \in LiveSession /\ session.state \in {"setup", "stored"} /\ taint \subseteq Taints
      /\ r \in Handle
    BY OwnerIs DEF Publish, IInv, Types
<1>2. /\ session' = [session EXCEPT !.state = "published"]
      /\ taint' = IF session.stored < session.seq THEN taint \cup {"gap"} ELSE taint
      /\ UNCHANGED <<disk, handle, owner, flusher, promised, faults, crashes>>
    BY DEF Publish
<1>3. /\ session' \in LiveSession /\ session'.state = "published" /\ session'.seq = session.seq
      /\ session'.stored = session.stored /\ session'.opened = session.opened
    BY <1>1, <1>2 DEF LiveSession
<1>4. /\ r.cursor = session.stored /\ session.stored <= session.seq /\ r.buffered = <<>>
      /\ r.chain = <<>> /\ r.op = NoOp /\ (r.recovered > 0 => r.cursor = session.opened)
    BY <1>1 DEF IInv, SessionRouted, Routed
<1>5. taint \subseteq taint' /\ taint' \subseteq Taints
    BY <1>1, <1>2 DEF Taints
<1>6. "gap" \notin taint' => r.cursor = session.seq /\ r.cursor \in Nat
    BY <1>1, <1>2, <1>4 DEF LiveSession, Seqs, Handle
<1>7. Kept(r) = <<>> /\ r.op.kind = "none" /\ DOMAIN r.chain = {}
  <2>1. r.op.kind = "none"
      BY <1>4 DEF NoOp
  <2>2. Kept(r) = <<>>
      BY <1>1, <1>4, <2>1, KeptIs
  <2>3. DOMAIN r.chain = {}
      BY <1>4, Nothing, LenProperties
  <2> QED BY <2>1, <2>2, <2>3
<1> HIDE DEF r
<1>8. Routed(r, session', "gap" \in taint')
    BY <1>3, <1>4, <1>6, <1>7, Nothing DEF Routed
<1>9. SessionGoesOn
    BY <1>1 DEF SessionGoesOn
<1> QED BY <1>1, <1>2, <1>3, <1>5, <1>8, <1>9, SessionStepKept DEF r

\* An event is appended to the session, and routed to its handle once published.
LEMMA AppendStep == ASSUME IInv, SessionAppend PROVE IInv'
<1> DEFINE i == owner
           r == handle[i]
           e == session.seq
           q == EnqueueLive(r, e)
<1>1. /\ session \in LiveSession /\ i \in Handles /\ r \in Handle /\ Coherent(r)
      /\ r.state = "open" /\ MaxEvents \in Nat /\ taint \subseteq Taints
      /\ session.state \in {"setup", "storing", "published"} /\ session.seq < MaxEvents
    BY OwnerIs DEF SessionAppend, IInv, Types, Bounds
<1>2. e \in Nat /\ e \in Event /\ e + 1 \in Seqs
    BY <1>1 DEF LiveSession, Seqs, Event
<1>3. /\ session' \in LiveSession /\ session'.state = session.state /\ session'.seq = e + 1
      /\ session'.stored = session.stored /\ session'.opened = session.opened
  <2> DEFINE n == session.seq + 1
  <2>1. session' = [session EXCEPT !.seq = n]
      BY <1>1 DEF SessionAppend, LiveSession
  <2> HIDE DEF n
  <2>2. n \in Seqs
      BY <1>2 DEF n
  <2>3. /\ session' \in LiveSession /\ session'.state = session.state /\ session'.seq = n
        /\ session'.stored = session.stored /\ session'.opened = session.opened
      BY <1>1, <2>1, <2>2 DEF LiveSession
  <2> QED BY <2>3 DEF n
<1>4. Routed(r, session, "gap" \in taint)
    BY <1>1 DEF IInv, SessionRouted
<1>5. SessionGoesOn
    BY <1>2, <1>3 DEF SessionGoesOn
<1>6. CASE session.state # "published"
  <2>1. UNCHANGED <<disk, handle, owner, flusher, promised, faults, crashes, taint>>
      BY <1>6 DEF SessionAppend
  <2>2. Routed(r, session', "gap" \in taint')
    <3>1. /\ session.stored \in Nat /\ r.cursor \in Nat
          /\ \A k \in Nat : session.stored + k <= e => session.stored + k <= e + 1
        BY <1>1, <1>2 DEF LiveSession, Seqs, Handle
    <3>2. session.stored <= e => session.stored <= e + 1
        BY <1>2, <3>1
    <3>3. ASSUME Storing(r, session)
          PROVE  Storing(r, session')
      <4>1. CASE /\ r.op = NoOp /\ Len(r.chain) = 1 /\ r.chain[1].kind = "append"
                 /\ session.stored + Len(r.chain[1].batch) <= session.seq
        <5>1. 1 \in 1..Len(r.chain) /\ r.chain \in Seq(Entry)
            BY <1>1, <4>1 DEF Handle
        <5>2. r.chain[1] \in Entry
            BY <5>1, ElementOfSeq
        <5>3. Len(r.chain[1].batch) \in Nat
            BY <5>2, LenProperties DEF Entry
        <5> QED BY <1>3, <3>1, <4>1, <5>3 DEF Storing
      <4>2. CASE /\ r.chain = <<>> /\ r.op.kind = "append"
                 /\ session.stored + Len(r.op.batch) <= session.seq
        <5>1. Len(r.op.batch) \in Nat
            BY <1>1, KeptIs
        <5> QED BY <1>3, <3>1, <4>2, <5>1 DEF Storing
      <4> QED BY <3>3, <4>1, <4>2 DEF Storing
    <3> HIDE DEF r
    <3> QED BY <1>3, <1>4, <1>6, <2>1, <3>2, <3>3 DEF Routed
  <2> QED BY <1>1, <1>3, <1>5, <2>1, <2>2, SessionStepKept
<1>7. CASE session.state = "published"
  <2>1. /\ handle' = [handle EXCEPT ![i] = q]
        /\ UNCHANGED <<disk, owner, flusher, promised, faults, crashes, taint>>
      BY <1>1, <1>7 DEF SessionAppend, Handles
  <2>2. /\ q \in Handle /\ SameStore(q, r) /\ SameClose(q, r)
        /\ q.op = r.op /\ q.chain = r.chain /\ q.ahead = r.ahead
        /\ q.drain = r.drain /\ q.drainFailed = r.drainFailed
        /\ q.buffered = Append(r.buffered, e)
        /\ q.timer \/ q.paused
      BY <1>1, <1>2, EnqueueLiveIs
  <2> HIDE DEF q
  <2>3. Coherent(q)
    <3>1. SingleDrain(q)
        BY <1>1, <2>2 DEF Coherent, Steady, SingleDrain
    <3>2. Steady(q)
        BY <1>1, <2>2, <3>1 DEF Coherent, Steady, SameStore, SameClose, Idle
    <3>3. OperationFits(q)
        BY <1>1, <2>2 DEF Coherent, OperationFits, SameStore
    <3>4. Remembered(q)
        BY <2>2 DEF Remembered
    <3> QED BY <1>1, <2>2, <3>2, <3>3, <3>4 DEF Coherent, SameStore, SameClose, Idle
  <2>4. handle'[i] = q /\ Aside(i)
      BY <1>1, <2>1, <2>2 DEF Aside, IInv, Types
  <2>5. Types'
      BY <1>3, <2>1, <2>4 DEF IInv, Types, Aside
  <2>6. HandlesCoherent' /\ OneOwner' /\ DiskTrue'
    <3>1. Sound' => q.op = NoOp \/ r.state = "open"
        BY <1>1
    <3> QED BY <1>1, <1>3, <2>1, <2>2, <2>3, <2>4, <3>1, StoreKept
  <2>7. SessionRouted'
    <3>1. Kept(q) = Append(Kept(r), e)
      <4>1. r.buffered \in Seq(Event) /\ r.op.batch \in Seq(Event)
          BY <1>1, KeptIs
      <4>2. CASE r.op.kind # "drain"
          BY <1>1, <2>2, <4>2, KeptIs
      <4>3. CASE r.op.kind = "drain"
        <5>1. Kept(q) = r.op.batch \o Append(r.buffered, e)
            BY <2>2, <4>3 DEF Kept
        <5>2. Kept(r) = r.op.batch \o r.buffered
            BY <4>3 DEF Kept
        <5> QED BY <1>2, <4>1, <5>1, <5>2, AppendLast
      <4> QED BY <4>2, <4>3
    <3>2. Kept(r) \in Seq(Event) /\ Len(Kept(r)) \in Nat /\ r.cursor \in Nat
      <4>1. r.cursor \in Nat
          BY <1>1 DEF Handle, Seqs
      <4> QED BY <1>1, <4>1, KeptIs
    <3>3. ASSUME "gap" \notin taint
          PROVE  Contiguous(Kept(q), q.cursor) /\ q.cursor + Len(Kept(q)) = e + 1
      <4>1. Contiguous(Kept(r), r.cursor) /\ r.cursor + Len(Kept(r)) = e
          BY <1>4, <1>7, <3>3 DEF Routed
      <4>2. Contiguous(Append(Kept(r), e), r.cursor)
          BY <1>2, <3>2, <4>1, ContiguousAppend
      <4>3. Len(Append(Kept(r), e)) = Len(Kept(r)) + 1
          BY <1>2, <3>2, AppendProperties
      <4>4. q.cursor = r.cursor
          BY <2>2 DEF SameStore
      <4> QED BY <1>2, <3>1, <3>2, <4>1, <4>2, <4>3, <4>4
    <3> HIDE DEF r, e
    <3>4. Routed(q, session', "gap" \in taint')
        BY <1>3, <1>4, <1>7, <2>1, <2>2, <3>3 DEF Routed, SameStore
    <3> QED BY <2>1, <2>4, <3>4 DEF SessionRouted
  <2>8. /\ \A j \in Handles : SameClose(handle'[j], handle[j])
        /\ disk' \in Artifact /\ disk.n <= disk'.n
        /\ handle' \in [Handles -> Handle] /\ taint \subseteq taint'
    <3>1. \A j \in Handles : SameClose(handle'[j], handle[j])
        BY <2>2, <2>4 DEF Aside, SameClose
    <3> QED BY <2>1, <2>4, <3>1 DEF IInv, Types, Artifact, Aside
  <2>9. CloseTrue'
      BY <1>3, <1>5, <2>8, CloseKept
  <2>10. FlushTrue'
    <3>1. /\ handle'[owner].drain = handle[owner].drain
          /\ handle'[owner].drainFailed = handle[owner].drainFailed
          /\ handle'[owner].cursor = handle[owner].cursor /\ handle[owner].cursor \in Nat
        BY <1>1, <2>2, <2>4 DEF SameStore, Handle, Seqs
    <3> QED BY <1>3, <1>5, <2>1, <2>8, <3>1, FlushKept
  <2> QED BY <2>5, <2>6, <2>7, <2>9, <2>10 DEF IInv
<1> QED BY <1>6, <1>7

-----------------------------------------------------------------------------
(* The artifact, and the caller of an operation that ends. *)

\* Events committed behind what is there.
LEMMA ExtendedIs ==
    ASSUME disk \in Artifact, NEW s, NEW k \in Nat
    PROVE  LET d == Extended(s, k) IN
           /\ d \in Artifact /\ d.exists = disk.exists /\ d.n = disk.n + k /\ d.torn = disk.torn
           /\ d.bad => disk.bad \/ disk.torn \/ s # disk.n
<1> DEFINE m == disk.n + k
           b == disk.bad \/ disk.torn \/ s # disk.n
           d == [disk EXCEPT !.n = m, !.bad = b]
<1>1. Extended(s, k) = d
    BY DEF Extended, Artifact
<1>2. m \in Nat /\ b \in BOOLEAN
    BY DEF Artifact
<1>3. b => disk.bad \/ disk.torn \/ s # disk.n
    OBVIOUS
<1> HIDE DEF m, b
<1>4. /\ d \in Artifact /\ d.exists = disk.exists /\ d.n = m /\ d.torn = disk.torn
      /\ d.bad = b
    BY <1>2 DEF Artifact
<1> HIDE DEF d
<1>5. m = disk.n + k
    BY DEF m
<1> QED BY <1>1, <1>3, <1>4, <1>5

\* The artifact is created with its first events.
LEMMA PublishedIs ==
    ASSUME disk \in Artifact, NEW k \in Nat
    PROVE  LET d == Published(k) IN
           d \in Artifact /\ d.exists /\ d.n = k /\ d.torn = disk.torn /\ d.bad = disk.bad
BY DEF Published, Artifact

\* A torn tail is cut off.
LEMMA TrimmedIs ==
    ASSUME disk \in Artifact
    PROVE  LET d == [disk EXCEPT !.torn = FALSE, !.partial = 0] IN
           /\ d \in Artifact /\ d.exists = disk.exists /\ d.n = disk.n
           /\ ~d.torn /\ d.bad = disk.bad
BY DEF Artifact

\* A write that stops anywhere commits no less than there was.
LEMMA CutShortIs ==
    ASSUME disk \in Artifact, NEW s, NEW k \in Nat, NEW d \in CutShort(s, k)
    PROVE  /\ d \in Artifact /\ d.exists = disk.exists /\ disk.n <= d.n
           /\ d.bad => disk.bad \/ disk.torn \/ s # disk.n
<1>1. CASE d = Extended(s, k)
  <2>1. /\ d \in Artifact /\ d.exists = disk.exists /\ d.n = disk.n + k
        /\ d.bad => disk.bad \/ disk.torn \/ s # disk.n
      BY <1>1, ExtendedIs
  <2>2. disk.n \in Nat
      BY DEF Artifact
  <2> QED BY <2>1, <2>2
<1>2. CASE \E p \in 0..k : d = TornFrame(s, p)
  <2>1. PICK p \in 0..k : d = TornFrame(s, p)
      BY <1>2
  <2> DEFINE x == Extended(s, 0)
  <2>2. /\ x \in Artifact /\ x.exists = disk.exists /\ x.n = disk.n + 0
        /\ x.bad => disk.bad \/ disk.torn \/ s # disk.n
      BY ExtendedIs
  <2>3. d = [x EXCEPT !.torn = TRUE, !.partial = p] /\ p \in Nat
      BY <2>1 DEF TornFrame
  <2> HIDE DEF x
  <2>4. d \in Artifact /\ d.exists = x.exists /\ d.n = x.n /\ d.bad = x.bad
      BY <2>2, <2>3 DEF Artifact
  <2>5. disk.n \in Nat
      BY DEF Artifact
  <2> QED BY <2>2, <2>4, <2>5
<1>3. CASE \E p \in 0..(IF k = 0 THEN 0 ELSE k - 1), t \in BOOLEAN :
             d = [Extended(s, p) EXCEPT !.torn = t]
  <2>1. PICK p \in 0..(IF k = 0 THEN 0 ELSE k - 1), t \in BOOLEAN :
             d = [Extended(s, p) EXCEPT !.torn = t]
      BY <1>3
  <2>2. p \in Nat
      OBVIOUS
  <2> DEFINE x == Extended(s, p)
  <2>3. /\ x \in Artifact /\ x.exists = disk.exists /\ x.n = disk.n + p
        /\ x.bad => disk.bad \/ disk.torn \/ s # disk.n
      BY <2>2, ExtendedIs
  <2>4. d = [x EXCEPT !.torn = t]
      BY <2>1
  <2> HIDE DEF x
  <2>5. d \in Artifact /\ d.exists = x.exists /\ d.n = x.n /\ d.bad = x.bad
      BY <2>3, <2>4 DEF Artifact
  <2>6. disk.n \in Nat
      BY DEF Artifact
  <2> QED BY <2>2, <2>3, <2>5, <2>6
<1>4. \/ d = Extended(s, k)
      \/ \E p \in 0..k : d = TornFrame(s, p)
      \/ \E p \in 0..(IF k = 0 THEN 0 ELSE k - 1), t \in BOOLEAN :
             d = [Extended(s, p) EXCEPT !.torn = t]
    BY DEF CutShort
<1> QED BY <1>1, <1>2, <1>3, <1>4

\* The artifact changes with the handle that owns it.
LEMMA DiskChanged ==
    ASSUME IInv, NEW i \in Handles, Aside(i), taint \subseteq taint',
           disk.exists => disk'.exists, ~disk'.exists => disk'.n = 0 /\ ~disk'.torn,
           handle'[i].state = handle[i].state, handle[i].state # "claimed",
           handle'[i].materialized => disk'.exists,
           Sound' => /\ ~disk'.bad /\ handle[i].state = "open"
                     /\ handle'[i].materialized =>
                           /\ handle'[i].cursor = disk'.n + handle'[i].recovered
                           /\ disk'.torn => handle'[i].torn
    PROVE  DiskTrue'
<1>1. Sound' => Sound
    BY TaintGrows
<1>2. ASSUME NEW j \in Handles, j # i
      PROVE  /\ handle'[j].materialized \/ handle'[j].state = "claimed" => disk'.exists
             /\ Sound' => handle'[j].op = NoOp /\ handle'[j].state # "open"
  <2>1. handle'[j] = handle[j]
      BY <1>2 DEF Aside
  <2>2. handle[j].materialized \/ handle[j].state = "claimed" => disk'.exists
      BY DEF IInv, DiskTrue
  <2>3. ASSUME Sound'
        PROVE  handle[j].op = NoOp /\ handle[j].state # "open"
    <3>1. handle[j].state # "open"
        BY <1>2, <2>3, OwnerIs
    <3> QED BY <1>1, <2>3, <3>1 DEF IInv, DiskTrue
  <2> QED BY <2>1, <2>2, <2>3
<1>3. \A j \in Handles : handle'[j].materialized \/ handle'[j].state = "claimed" => disk'.exists
    BY <1>2
<1>4. ASSUME Sound'
      PROVE  /\ \A j \in Handles : handle'[j].op # NoOp => handle'[j].state = "open"
             /\ \A j \in Handles : handle'[j].state = "open" /\ handle'[j].materialized
                  => /\ handle'[j].cursor = disk'.n + handle'[j].recovered
                     /\ disk'.torn => handle'[j].torn
    BY <1>2, <1>4
<1> QED BY <1>3, <1>4 DEF DiskTrue

\* What the caller of an operation sees when it ends.
LEMMA CallerIs ==
    ASSUME IInv, NEW i \in Handles, NEW kind, NEW ok \in BOOLEAN, CallerResumes(i, kind, ok),
           kind = "append" /\ ok => handle[i].cursor + Len(handle[i].op.batch) \in Seqs
    PROVE  /\ session' \in LiveSession /\ session'.seq = session.seq
           /\ session'.opened = session.opened /\ SessionGoesOn
           /\ session'.state # "none" => session.state # "none"
           /\ ~(kind = "append" /\ session.state = "storing" /\ owner = i) => session' = session
           /\ kind = "append" /\ session.state = "storing" /\ owner = i =>
                 /\ ok => /\ session'.state = "stored"
                          /\ session'.stored = handle[i].cursor + Len(handle[i].op.batch)
                 /\ ~ok => session'.state = "failed"
           /\ flusher' \in Caller /\ promised' \in Seqs
           /\ \/ flusher' = flusher /\ promised' = promised
              \/ flusher' = NoFlush /\ promised' \in Seqs /\ (taint = {} => promised' <= disk.n)
<1>1. session \in LiveSession /\ flusher \in Caller /\ promised \in Seqs /\ MaxEvents \in Nat
      /\ MaxHandles \in Nat
    BY DEF IInv, Types, Bounds
<1>2. CASE kind = "append" /\ session.state = "storing" /\ owner = i
  <2> DEFINE n == handle[i].cursor + Len(handle[i].op.batch)
  <2>1. session' = IF ok THEN [session EXCEPT !.state = "stored", !.stored = n]
                   ELSE [session EXCEPT !.state = "failed"]
      BY <1>2 DEF CallerResumes
  <2>2. ok => n \in Seqs
      BY <1>2
  <2> HIDE DEF n
  <2>3. ASSUME ok
        PROVE  /\ session' \in LiveSession /\ session'.seq = session.seq
               /\ session'.opened = session.opened /\ session'.state = "stored"
               /\ session'.stored = n
    <3>1. session' = [session EXCEPT !.state = "stored", !.stored = n]
        BY <2>1, <2>3
    <3> QED BY <1>1, <2>2, <2>3, <3>1 DEF LiveSession
  <2>4. ASSUME ~ok
        PROVE  /\ session' \in LiveSession /\ session'.seq = session.seq
               /\ session'.opened = session.opened /\ session'.state = "failed"
    <3>1. session' = [session EXCEPT !.state = "failed"]
        BY <2>1, <2>4
    <3> QED BY <1>1, <3>1 DEF LiveSession
  <2>5. SessionGoesOn
      BY <1>2 DEF SessionGoesOn
  <2>6. flusher' = flusher /\ promised' = promised
      BY <1>2 DEF CallerResumes
  <2> QED BY <1>1, <1>2, <2>3, <2>4, <2>5, <2>6 DEF n
<1>3. CASE ~(kind = "append" /\ session.state = "storing" /\ owner = i)
  <2>1. session' = session
      BY <1>3 DEF CallerResumes
  <2>2. SessionGoesOn
      BY <1>1, <2>1 DEF SessionGoesOn, LiveSession, Seqs
  <2>3. CASE kind = "flush" /\ flusher.handle = i
    <3>1. flusher' = NoFlush
        BY <2>3 DEF CallerResumes
    <3>2. NoFlush \in Caller
        BY <1>1 DEF NoFlush, Caller, Seqs
    <3>3. \/ promised' = promised
          \/ promised' = flusher.need /\ flusher.pc = "flush" /\ ~flusher.late
        BY DEF CallerResumes
    <3>4. promised' \in Seqs
        BY <1>1, <3>3 DEF Caller
    <3>5. taint = {} => promised' <= disk.n
        BY <3>3 DEF IInv, FlushTrue
    <3> QED BY <1>1, <1>3, <2>1, <2>2, <3>1, <3>2, <3>4, <3>5
  <2>4. CASE ~(kind = "flush" /\ flusher.handle = i)
    <3>1. flusher' = flusher /\ promised' = promised
        BY <2>4 DEF CallerResumes
    <3> QED BY <1>1, <1>3, <2>1, <2>2, <3>1
  <2> QED BY <2>3, <2>4
<1> QED BY <1>2, <1>3

\* An operation ends without having written its batch.
LEMMA FinishKept ==
    ASSUME IInv, NEW i \in Handles, NEW r, Ends(r, handle[i]), NEW ok \in BOOLEAN,
           r.op.kind \in {"append", "drain"} => ~ok, Finish(i, r, ok),
           disk' \in Artifact, disk.n <= disk'.n, owner' = owner,
           taint \subseteq taint', taint' \subseteq Taints,
           faults' \in 0..MaxFaults, crashes' \in 0..MaxCrashes
    PROVE  /\ Aside(i) /\ SameStore(handle'[i], handle[i]) /\ Coherent(handle'[i])
           /\ handle'[i].op = NoOp
           /\ session'.state # "none" => session.state # "none"
           /\ Types' /\ HandlesCoherent' /\ OneOwner'
           /\ SessionRouted' /\ FlushTrue' /\ CloseTrue'
<1> DEFINE h == handle[i]
           q == Settled(r, ok)
<1>1. h \in Handle /\ Coherent(h) /\ (h.state = "open" => owner = i)
    BY OwnerIs
<1>2. /\ r.op.kind \in {"append", "flush", "drain"}
      /\ h.op.kind # "append" /\ (\A k \in DOMAIN h.chain : h.chain[k].kind # "append")
           => r.op.kind # "append" /\ \A k \in DOMAIN r.chain : r.chain[k].kind # "append"
      /\ \A s : Storing(h, s) => r.op.kind = "append"
    BY <1>1, EndsIs
<1>3. r.op.kind = "drain" => ~ok
    OBVIOUS
<1>4. /\ q \in Handle /\ Coherent(q) /\ SameStore(q, h) /\ SameClose(q, h)
      /\ q.op = NoOp /\ q.chain = r.chain /\ Kept(q) = Kept(h)
      /\ q.drain # "none" <=> h.drain # "none"
      /\ q.drain = "settled" /\ ~q.drainFailed => h.drain = "settled" /\ ~h.drainFailed
    BY <1>1, <1>3, FailureKeeps
<1>5. handle' = [handle EXCEPT ![i] = q] /\ CallerResumes(i, r.op.kind, ok)
    BY DEF Finish
<1> HIDE DEF q
<1>6. handle'[i] = q /\ Aside(i)
    BY <1>4, <1>5 DEF Aside, IInv, Types
<1>7. /\ session' \in LiveSession /\ session'.seq = session.seq
      /\ session'.opened = session.opened /\ SessionGoesOn
      /\ session'.state # "none" => session.state # "none"
      /\ ~(r.op.kind = "append" /\ session.state = "storing" /\ owner = i) => session' = session
      /\ r.op.kind = "append" /\ session.state = "storing" /\ owner = i => session'.state = "failed"
      /\ flusher' \in Caller /\ promised' \in Seqs
      /\ \/ flusher' = flusher /\ promised' = promised
         \/ flusher' = NoFlush /\ promised' \in Seqs /\ (taint = {} => promised' <= disk.n)
  <2>1. ~(r.op.kind = "append" /\ ok)
      OBVIOUS
  <2>2. r.op.kind = "append" /\ ok => handle[i].cursor + Len(handle[i].op.batch) \in Seqs
      BY <2>1
  <2> QED BY <1>5, <2>1, <2>2, CallerIs
<1>8. Types'
    BY <1>6, <1>7 DEF IInv, Types, Bounds, Aside
<1>9. HandlesCoherent'
    BY <1>4, <1>6 DEF IInv, HandlesCoherent, Aside
<1>10. \A j \in Handles : SameStore(handle'[j], handle[j]) /\ SameClose(handle'[j], handle[j])
    BY <1>4, <1>6 DEF Aside, SameStore, SameClose
<1>11. OneOwner'
  <2>1. \A j \in Handles : handle'[j].state = handle[j].state
      BY <1>10 DEF SameStore
  <2>2. session'.state # "none" => owner' # 0 /\ handle'[owner'].state = "open"
      BY <1>7, <2>1, OwnerIs DEF IInv, OneOwner
  <2> QED BY <2>1, <2>2 DEF IInv, OneOwner
<1>12. SessionRouted'
  <2>1. CASE session' # session
    <3>1. owner = i /\ session'.state = "failed" /\ session.state = "storing"
        BY <1>7, <2>1
    <3>2. h.recovered > 0 => h.cursor = session.opened
        BY <3>1 DEF IInv, SessionRouted, Routed
    <3> HIDE DEF h
    <3>3. Routed(q, session', "gap" \in taint')
        BY <1>4, <1>7, <3>1, <3>2 DEF Routed, SameStore
    <3> QED BY <1>6, <3>1, <3>3 DEF SessionRouted
  <2>2. CASE session' = session
    <3>1. CASE owner # i \/ session.state = "none"
      <4>1. session.state # "none" => handle'[owner] = handle[owner]
          BY <1>6, <3>1, OwnerIs DEF Aside
      <4> QED BY <2>2, <4>1, RoutedKept
    <3>2. CASE owner = i /\ session.state # "none"
      <4>1. Routed(h, session, "gap" \in taint)
          BY <3>2 DEF IInv, SessionRouted
      <4>2. session.state # "storing"
        <5>1. session.state = "storing" => r.op.kind = "append"
            BY <1>2, <4>1 DEF Routed
        <5>2. session.state = "storing" => session'.state = "failed"
            BY <1>7, <3>2, <5>1
        <5> QED BY <2>2, <5>2
      <4>3. session.state \notin {"setup", "stored"}
          BY <4>1 DEF Routed, Ends
      <4>4. session.state = "published" =>
                 /\ r.op.kind # "append"
                 /\ \A k \in DOMAIN r.chain : r.chain[k].kind # "append"
          BY <1>2, <4>1 DEF Routed
      <4>5. q.op.kind # "append"
          BY <1>4 DEF NoOp
      <4>6. /\ handle'[owner] = q /\ handle[owner] = h
            /\ q.cursor = h.cursor /\ q.recovered = h.recovered
          BY <1>4, <1>6, <3>2 DEF SameStore
      <4>7. session.state = "published" =>
                 /\ q.op.kind # "append"
                 /\ \A k \in DOMAIN q.chain : q.chain[k].kind # "append"
                 /\ Kept(q) = Kept(h)
          BY <1>4, <4>4, <4>5
      <4>8. session.state \notin {"setup", "stored", "storing"}
          BY <4>2, <4>3
      <4> HIDE DEF h
      <4> QED BY <2>2, <4>6, <4>7, <4>8, RoutedKept
    <3> QED BY <3>1, <3>2
  <2> QED BY <2>1, <2>2
<1>13. handle' \in [Handles -> Handle]
    BY <1>6 DEF Aside
<1>14. CloseTrue'
    BY <1>7, <1>10, <1>13, CloseKept
<1>15. FlushTrue'
  <2>1. owner \in Handles =>
          /\ handle'[owner].cursor = handle[owner].cursor /\ handle[owner].cursor \in Nat
          /\ handle[owner].drain # "none" => handle'[owner].drain # "none"
          /\ handle'[owner].drain = "settled" /\ ~handle'[owner].drainFailed
               => handle[owner].drain = "settled" /\ ~handle[owner].drainFailed
    <3>1. ASSUME owner \in Handles
          PROVE  handle'[owner].cursor = handle[owner].cursor /\ handle[owner].cursor \in Nat
        BY <1>10, <3>1, OwnerIs DEF SameStore, Handle, Seqs
    <3>2. CASE owner = i
        BY <1>4, <1>6, <3>1, <3>2
    <3>3. CASE owner # i
        BY <1>6, <3>1, <3>3 DEF Aside
    <3> QED BY <3>2, <3>3
  <2>2. owner \in Handles => handle[owner].cursor <= handle'[owner].cursor
      BY <2>1
  <2>3. \A j \in Handles : SameClose(handle'[j], handle[j])
      BY <1>10
  <2> QED BY <1>7, <1>13, <2>1, <2>2, <2>3, FlushEnds
<1> QED BY <1>4, <1>6, <1>7, <1>8, <1>9, <1>11, <1>12, <1>14, <1>15

-----------------------------------------------------------------------------
(* The next operation of the chain starts. *)

\* It settles at once, or it is started with a batch that fits.
LEMMA StartIs ==
    ASSUME IInv, NEW i \in Handles, OpStarts(i)
    PROVE  LET h == handle[i]
               r == Begun(h) IN
           /\ h \in Handle /\ Coherent(h) /\ h.chain # <<>> /\ h.op = NoOp /\ ~CloseReady(h)
           /\ Ends(r, h)
           /\ taint' = IF h.state = "released" /\ handle'[i].op # NoOp
                       THEN taint \cup {"stray"} ELSE taint
           /\ UNCHANGED <<disk, owner, faults, crashes>>
           /\ \/ Finish(i, r, FALSE)
              \/ r.op.kind = "flush" /\ Finish(i, r, TRUE)
              \/ /\ handle' = [handle EXCEPT ![i] = r]
                 /\ UNCHANGED <<session, flusher, promised>>
                 /\ Contiguous(r.op.batch, h.cursor)
                 /\ r.op.kind = "flush" => ~h.materialized
<1> DEFINE h == handle[i]
           r == Begun(h)
           head == Head(h.chain)
           batch == IF head.kind = "drain" THEN h.buffered ELSE head.batch
<1>1. /\ h \in Handle /\ Coherent(h) /\ h.chain # <<>> /\ h.op = NoOp /\ ~CloseReady(h)
    BY OwnerIs DEF OpStarts
<1>2. /\ r.op.kind = head.kind /\ r.op.batch = batch
      /\ head.kind \in {"append", "flush", "drain"}
  <2>1. r.op.kind = head.kind /\ r.op.batch = batch /\ head \in Entry
      BY <1>1, BegunIs
  <2> QED BY <2>1 DEF Entry
<1>3. /\ CASE head.kind # "drain" /\ h.close # "no" -> Finish(i, r, FALSE)
           [] head.kind = "flush" /\ h.close = "no" /\ h.materialized -> Finish(i, r, TRUE)
           [] head.kind # "flush" /\ (head.kind = "append" => h.close = "no")
              /\ ~Contiguous(batch, h.cursor) -> Finish(i, r, FALSE)
           [] OTHER -> /\ handle' = [handle EXCEPT ![i] = r]
                       /\ UNCHANGED <<session, flusher, promised>>
      /\ taint' = IF h.state = "released" /\ handle'[i].op # NoOp
                  THEN taint \cup {"stray"} ELSE taint
      /\ UNCHANGED <<disk, owner, faults, crashes>>
    BY DEF OpStarts, Begun
<1>4. head.kind = "flush" => Contiguous(batch, h.cursor)
  <2>1. r.op.kind = "flush" => r.op.batch = <<>>
      BY <1>1, BegunSteady
  <2>2. h.cursor \in Nat
      BY <1>1 DEF Handle, Seqs
  <2> QED BY <1>2, <2>1, <2>2, Nothing
<1>5. Ends(r, h)
    BY <1>1 DEF Ends
<1> HIDE DEF r, h, head, batch
<1>6. \/ Finish(i, r, FALSE)
      \/ head.kind = "flush" /\ Finish(i, r, TRUE)
      \/ /\ handle' = [handle EXCEPT ![i] = r]
         /\ UNCHANGED <<session, flusher, promised>>
         /\ ~(head.kind # "drain" /\ h.close # "no")
         /\ ~(head.kind = "flush" /\ h.close = "no" /\ h.materialized)
         /\ ~(head.kind # "flush" /\ (head.kind = "append" => h.close = "no")
              /\ ~Contiguous(batch, h.cursor))
    BY <1>3
<1>7. \/ Finish(i, r, FALSE)
      \/ r.op.kind = "flush" /\ Finish(i, r, TRUE)
      \/ /\ handle' = [handle EXCEPT ![i] = r]
         /\ UNCHANGED <<session, flusher, promised>>
         /\ Contiguous(r.op.batch, h.cursor)
         /\ r.op.kind = "flush" => ~h.materialized
    BY <1>2, <1>4, <1>6
<1> QED BY <1>1, <1>3, <1>5, <1>7 DEF r, h

\* It is started.
LEMMA BeginKept ==
    ASSUME IInv, NEW i \in Handles, handle[i].chain # <<>>, handle[i].op = NoOp,
           ~CloseReady(handle[i]), handle' = [handle EXCEPT ![i] = Begun(handle[i])],
           UNCHANGED <<disk, owner, session, flusher, promised, faults, crashes>>,
           taint \subseteq taint', taint' \subseteq Taints,
           handle[i].state = "released" => ~Sound',
           Contiguous(Begun(handle[i]).op.batch, handle[i].cursor),
           Begun(handle[i]).op.kind = "flush" => ~handle[i].materialized
    PROVE  IInv'
<1> DEFINE h == handle[i]
           r == Begun(h)
           head == Head(h.chain)
<1>1. h \in Handle /\ Coherent(h) /\ (h.state = "open" => owner = i)
    BY OwnerIs
<1>2. /\ r \in Handle /\ SameStore(r, h) /\ SameClose(r, h)
      /\ r.drain = h.drain /\ r.drainFailed = h.drainFailed
      /\ r.chain = Tail(h.chain)
      /\ r.buffered = IF head.kind = "drain" THEN <<>> ELSE h.buffered
      /\ r.op.kind = head.kind
      /\ r.op.batch = IF head.kind = "drain" THEN h.buffered ELSE head.batch
    BY <1>1, BegunIs
<1>3. Coherent(r) /\ ~Idle(h)
    BY <1>1, BegunCoherent, BegunSteady
<1>4. /\ Kept(r) = Kept(h)
      /\ h.op.kind # "append" /\ (\A k \in DOMAIN h.chain : h.chain[k].kind # "append")
           => r.op.kind # "append" /\ \A k \in DOMAIN r.chain : r.chain[k].kind # "append"
  <2>1. Ends(r, h)
      BY DEF Ends
  <2> QED BY <1>1, <2>1, EndsIs
<1>5. /\ head = h.chain[1] /\ (Len(h.chain) = 1 => Tail(h.chain) = <<>>)
  <2>1. h.chain \in Seq(Entry)
      BY <1>1 DEF Handle
  <2> QED BY <2>1, ChainShrinks
<1>6. h.state \in {"open", "released"}
    BY <1>1, <1>3 DEF Handle, Idle
<1> HIDE DEF r, head
<1>7. handle'[i] = r /\ Aside(i)
    BY <1>2 DEF Aside, IInv, Types, r
<1>8. Types'
    BY <1>7 DEF IInv, Types, Bounds, Aside
<1>9. HandlesCoherent' /\ OneOwner' /\ DiskTrue'
  <2>1. Sound' => h.state = "open"
      BY <1>6
  <2> QED BY <1>2, <1>3, <1>7, <2>1, StoreKept
<1>10. SessionRouted'
  <2>1. CASE owner # i \/ session.state = "none"
    <3>1. session.state # "none" => handle'[owner] = handle[owner]
        BY <1>7, <2>1, OwnerIs DEF Aside
    <3> QED BY <3>1, RoutedKept
  <2>2. CASE owner = i /\ session.state # "none"
    <3>1. Routed(h, session, "gap" \in taint)
        BY <2>2 DEF IInv, SessionRouted
    <3>2. session.state \notin {"setup", "stored"}
        BY <3>1 DEF Routed
    <3>3. h.op.kind # "append"
        BY DEF NoOp
    <3>4. CASE session.state = "storing"
      <4>1. /\ Len(h.chain) = 1 /\ h.chain[1].kind = "append"
            /\ session.stored + Len(h.chain[1].batch) <= session.seq
          BY <3>1, <3>3, <3>4 DEF Routed, Storing
      <4>2. /\ r.chain = <<>> /\ r.op.kind = "append" /\ r.buffered = h.buffered
            /\ session.stored + Len(r.op.batch) <= session.seq
          BY <1>2, <1>5, <4>1
      <4>3. Storing(r, session)
          BY <4>2 DEF Storing
      <4> HIDE DEF h
      <4>4. Routed(r, session, "gap" \in taint')
          BY <1>2, <3>1, <3>4, <4>2, <4>3 DEF Routed, SameStore
      <4> QED BY <1>7, <2>2, <4>4 DEF SessionRouted
    <3>5. CASE session.state # "storing"
      <4>1. /\ handle'[owner] = r /\ handle[owner] = h
            /\ r.cursor = h.cursor /\ r.recovered = h.recovered
          BY <1>2, <1>7, <2>2 DEF SameStore
      <4>2. session.state = "published" =>
                 /\ r.op.kind # "append"
                 /\ \A k \in DOMAIN r.chain : r.chain[k].kind # "append"
                 /\ Kept(r) = Kept(h)
          BY <1>4, <3>1, <3>3 DEF Routed
      <4>3. session.state \notin {"setup", "stored", "storing"}
          BY <3>2, <3>5
      <4> HIDE DEF h
      <4> QED BY <4>1, <4>2, <4>3, RoutedKept
    <3> QED BY <3>4, <3>5
  <2> QED BY <2>1, <2>2
<1>11. /\ \A j \in Handles : SameClose(handle'[j], handle[j])
       /\ disk' \in Artifact /\ disk.n <= disk'.n /\ SessionGoesOn
       /\ handle' \in [Handles -> Handle] /\ session' \in LiveSession
  <2>1. \A j \in Handles : SameClose(handle'[j], handle[j])
      BY <1>2, <1>7 DEF Aside, SameClose
  <2>2. disk' \in Artifact /\ disk.n <= disk'.n /\ session' \in LiveSession
      BY DEF IInv, Types, Artifact
  <2>3. SessionGoesOn
      BY DEF SessionGoesOn, IInv, Types, LiveSession, Seqs
  <2> QED BY <1>7, <2>1, <2>2, <2>3 DEF Aside
<1>12. CloseTrue'
    BY <1>11, CloseKept
<1>13. FlushTrue'
  <2>1. owner \in Handles =>
          /\ handle'[owner].drain = handle[owner].drain
          /\ handle'[owner].drainFailed = handle[owner].drainFailed
          /\ handle'[owner].cursor = handle[owner].cursor /\ handle[owner].cursor \in Nat
    <3>1. CASE owner = i
        BY <1>1, <1>2, <1>7, <3>1 DEF SameStore, Handle, Seqs
    <3>2. CASE owner # i
      <4>1. owner \in Handles => handle'[owner] = handle[owner] /\ handle[owner] \in Handle
          BY <1>7, <3>2, OwnerIs DEF Aside
      <4> QED BY <4>1 DEF Handle, Seqs
    <3> QED BY <3>1, <3>2
  <2>2. owner \in Handles => handle[owner].cursor <= handle'[owner].cursor
      BY <2>1
  <2> QED BY <1>11, <2>1, <2>2, FlushKept
<1> QED BY <1>8, <1>9, <1>10, <1>12, <1>13 DEF IInv

\* An operation starts, or is refused.
LEMMA OpStartsStep == ASSUME IInv, NEW i \in Handles, OpStarts(i) PROVE IInv'
<1> DEFINE h == handle[i]
           r == Begun(h)
<1>1. /\ h \in Handle /\ Coherent(h) /\ h.chain # <<>> /\ h.op = NoOp /\ ~CloseReady(h)
      /\ Ends(r, h)
      /\ taint' = IF h.state = "released" /\ handle'[i].op # NoOp
                  THEN taint \cup {"stray"} ELSE taint
      /\ UNCHANGED <<disk, owner, faults, crashes>>
      /\ \/ Finish(i, r, FALSE)
         \/ r.op.kind = "flush" /\ Finish(i, r, TRUE)
         \/ /\ handle' = [handle EXCEPT ![i] = r]
            /\ UNCHANGED <<session, flusher, promised>>
            /\ Contiguous(r.op.batch, h.cursor)
            /\ r.op.kind = "flush" => ~h.materialized
    BY StartIs
<1>2. /\ taint \subseteq taint' /\ taint' \subseteq Taints
      /\ disk' \in Artifact /\ disk.n <= disk'.n
      /\ faults' \in 0..MaxFaults /\ crashes' \in 0..MaxCrashes
    BY <1>1 DEF IInv, Types, Taints, Artifact
<1> HIDE DEF r
<1>3. ASSUME NEW ok \in BOOLEAN, Finish(i, r, ok), r.op.kind \in {"append", "drain"} => ~ok
      PROVE  IInv'
  <2>1. /\ Aside(i) /\ SameStore(handle'[i], handle[i]) /\ Coherent(handle'[i])
        /\ handle'[i].op = NoOp
        /\ session'.state # "none" => session.state # "none"
        /\ Types' /\ HandlesCoherent' /\ OneOwner'
        /\ SessionRouted' /\ FlushTrue' /\ CloseTrue'
      BY <1>1, <1>2, <1>3, FinishKept
  <2>2. DiskTrue'
      BY <1>1, <1>2, <2>1, StoreKept
  <2> QED BY <2>1, <2>2 DEF IInv
<1>4. ASSUME handle' = [handle EXCEPT ![i] = r], UNCHANGED <<session, flusher, promised>>,
             Contiguous(r.op.batch, h.cursor), r.op.kind = "flush" => ~h.materialized
      PROVE  IInv'
  <2>1. h.state = "released" => ~Sound'
    <3>1. handle'[i] = r
        BY <1>4 DEF IInv, Types
    <3>2. r.op # NoOp
        BY <1>1, BegunIs DEF r
    <3> QED BY <1>1, <3>1, <3>2 DEF Sound
  <2> QED BY <1>1, <1>2, <1>4, <2>1, BeginKept DEF r
<1>5. r.op.kind = "flush" => r.op.kind \notin {"append", "drain"}
    OBVIOUS
<1> QED BY <1>1, <1>3, <1>4, <1>5

-----------------------------------------------------------------------------
(* The repairs of a torn tail, which come before a write. *)

\* A repair changes the tail the handle knows of and the stage of its operation.
Repaired(q, h) ==
    /\ q.state = h.state /\ q.cursor = h.cursor /\ q.materialized = h.materialized
    /\ q.recovered \in {0, h.recovered} /\ SameClose(q, h) /\ q.ahead = h.ahead
    /\ q.buffered = h.buffered /\ q.timer = h.timer /\ q.paused = h.paused
    /\ q.drain = h.drain /\ q.drainFailed = h.drainFailed /\ q.chain = h.chain
    /\ q.op.kind = h.op.kind /\ q.op.batch = h.op.batch /\ q.op # NoOp

\* A repaired handle keeps what it holds, and goes on with its batch.
LEMMA RepairKept ==
    ASSUME IInv, NEW i \in Handles, NEW q \in Handle, handle' = [handle EXCEPT ![i] = q],
           handle[i].op # NoOp, handle[i].materialized, Repaired(q, handle[i]), OperationFits(q),
           disk' \in Artifact, disk.n <= disk'.n,
           UNCHANGED <<owner, session, flusher, promised, faults, crashes, taint>>
    PROVE  /\ handle'[i] = q /\ Aside(i)
           /\ Types' /\ HandlesCoherent' /\ OneOwner'
           /\ SessionRouted' /\ FlushTrue' /\ CloseTrue'
<1> DEFINE h == handle[i]
<1>1. h \in Handle /\ Coherent(h) /\ ~Idle(h) /\ (h.state = "open" => owner = i)
    BY OwnerIs DEF Coherent
<1>2. handle'[i] = q /\ Aside(i)
    BY DEF Aside, IInv, Types
<1>3. Types'
    BY <1>2 DEF IInv, Types, Bounds, Aside
<1>4. Coherent(q)
  <2>1. SingleDrain(q)
      BY <1>1 DEF Coherent, Steady, SingleDrain, Repaired
  <2>2. Steady(q)
      BY <1>1, <2>1 DEF Coherent, Steady, Repaired, SameClose, Idle
  <2>3. Remembered(q)
      BY <1>1 DEF Coherent, Remembered, Repaired
  <2> QED BY <1>1, <2>2, <2>3 DEF Coherent, Repaired, SameClose, Idle
<1>5. HandlesCoherent'
    BY <1>2, <1>4 DEF IInv, HandlesCoherent, Aside
<1>6. OneOwner'
  <2>1. \A j \in Handles : handle'[j].state = handle[j].state
      BY <1>2 DEF Aside, Repaired
  <2> QED BY <2>1, OwnerIs DEF IInv, OneOwner
<1>7. SessionRouted'
  <2>1. CASE owner = i
      BY <1>2, <2>1, RoutedKept DEF Repaired
  <2>2. CASE owner # i
    <3>1. session.state # "none" => handle'[owner] = handle[owner]
        BY <1>2, <2>2, OwnerIs DEF Aside
    <3> QED BY <3>1, RoutedKept
  <2> QED BY <2>1, <2>2
<1>8. /\ \A j \in Handles : SameClose(handle'[j], handle[j])
      /\ SessionGoesOn /\ handle' \in [Handles -> Handle] /\ session' \in LiveSession
      /\ taint \subseteq taint'
  <2>1. \A j \in Handles : SameClose(handle'[j], handle[j])
      BY <1>2 DEF Aside, SameClose, Repaired
  <2>2. SessionGoesOn
      BY DEF SessionGoesOn, IInv, Types, LiveSession, Seqs
  <2> QED BY <1>2, <2>1, <2>2 DEF Aside, IInv, Types
<1>9. CloseTrue'
    BY <1>8, CloseKept
<1>10. FlushTrue'
  <2>1. owner \in Handles =>
          /\ handle'[owner].drain = handle[owner].drain
          /\ handle'[owner].drainFailed = handle[owner].drainFailed
          /\ handle'[owner].cursor = handle[owner].cursor /\ handle[owner].cursor \in Nat
    <3>1. CASE owner = i
        BY <1>1, <1>2, <3>1 DEF Repaired, Handle, Seqs
    <3>2. CASE owner # i
      <4>1. owner \in Handles => handle'[owner] = handle[owner] /\ handle[owner] \in Handle
          BY <1>2, <3>2, OwnerIs DEF Aside
      <4> QED BY <4>1 DEF Handle, Seqs
    <3> QED BY <3>1, <3>2
  <2>2. owner \in Handles => handle[owner].cursor <= handle'[owner].cursor
      BY <2>1
  <2> QED BY <1>8, <2>1, <2>2, FlushKept
<1> QED BY <1>2, <1>3, <1>5, <1>6, <1>7, <1>9, <1>10

\* The operation of a handle that is being repaired.
LEMMA RepairingIs ==
    ASSUME IInv, NEW i \in Handles, handle[i].op.stage \in {"truncate", "rewrite"}
    PROVE  LET h == handle[i] IN
           /\ h \in Handle /\ Coherent(h) /\ h.op # NoOp /\ h.materialized /\ disk.exists
           /\ h.state # "claimed"
           /\ Sound => /\ h.state = "open" /\ ~disk.bad
                       /\ h.cursor = disk.n + h.recovered /\ (disk.torn => h.torn)
<1> DEFINE h == handle[i]
<1>1. h \in Handle /\ Coherent(h)
    BY OwnerIs
<1>2. h.op # NoOp
    BY DEF NoOp
<1>3. h.recovered \in Nat
    BY <1>1 DEF Handle, Seqs
<1>4. h.materialized
    BY <1>1, <1>3 DEF Coherent, OperationFits, Steady
<1>5. disk.exists
    BY <1>4 DEF IInv, DiskTrue
<1>6. h.state # "claimed"
    BY <1>1, <1>2 DEF Coherent, Idle
<1>7. ASSUME Sound
      PROVE  /\ h.state = "open" /\ ~disk.bad
             /\ h.cursor = disk.n + h.recovered /\ (disk.torn => h.torn)
    BY <1>2, <1>4, <1>7 DEF IInv, DiskTrue
<1> QED BY <1>1, <1>2, <1>4, <1>5, <1>6, <1>7

\* The torn tail is cut off.
LEMMA TruncatedStep == ASSUME IInv, NEW i \in Handles, Truncated(i) PROVE IInv'
<1> DEFINE h == handle[i]
           p == [h EXCEPT !.torn = FALSE]
           x == NextStage(p)
           o == [h.op EXCEPT !.stage = x]
           q == [h EXCEPT !.torn = FALSE, !.op = o]
<1>1. /\ h.op.stage = "truncate" /\ disk' = [disk EXCEPT !.torn = FALSE, !.partial = 0]
      /\ UNCHANGED <<owner, session, flusher, promised, faults, crashes, taint>>
    BY DEF Truncated
<1>2. /\ h \in Handle /\ Coherent(h) /\ h.op # NoOp /\ h.materialized /\ disk.exists
      /\ h.state # "claimed"
      /\ Sound => /\ h.state = "open" /\ ~disk.bad
                  /\ h.cursor = disk.n + h.recovered /\ (disk.torn => h.torn)
    BY <1>1, RepairingIs
<1>3. handle' = [handle EXCEPT ![i] = q]
  <2>1. handle' = [handle EXCEPT ![i].torn = FALSE, ![i].op.stage = x]
      BY DEF Truncated
  <2> HIDE DEF x
  <2> QED BY <2>1 DEF IInv, Types
<1>4. x = IF h.recovered > 0 THEN "rewrite" ELSE "write"
  <2>1. p.torn = FALSE /\ p.recovered = h.recovered
      BY <1>2 DEF Handle
  <2> HIDE DEF p
  <2> QED BY <2>1 DEF NextStage
<1> HIDE DEF x
<1>5. o \in Operation /\ o.kind = h.op.kind /\ o.batch = h.op.batch /\ o.stage = x
    BY <1>2, <1>4 DEF Handle, Operation
<1>6. o # NoOp
    BY <1>4, <1>5 DEF NoOp
<1> HIDE DEF o
<1>7. q \in Handle
    BY <1>2, <1>5 DEF Handle
<1>8. Repaired(q, h) /\ q.torn = FALSE /\ q.recovered = h.recovered /\ q.op = o
    BY <1>2, <1>5, <1>6 DEF Handle, Repaired, SameClose
<1> HIDE DEF q
<1>9. OperationFits(q)
  <2>1. h.recovered \in Nat
      BY <1>2 DEF Handle, Seqs
  <2>2. OperationFits(h)
      BY <1>2 DEF Coherent
  <2> QED BY <1>2, <1>4, <1>5, <1>6, <1>8, <2>1, <2>2 DEF OperationFits, Repaired
<1>10. /\ disk' \in Artifact /\ disk'.exists = disk.exists /\ disk'.n = disk.n
       /\ ~disk'.torn /\ disk'.bad = disk.bad /\ disk.n <= disk'.n
  <2>1. disk \in Artifact
      BY DEF IInv, Types
  <2>2. /\ disk' \in Artifact /\ disk'.exists = disk.exists /\ disk'.n = disk.n
        /\ ~disk'.torn /\ disk'.bad = disk.bad
      BY <1>1, <2>1, TrimmedIs
  <2> QED BY <2>2 DEF Artifact
<1>11. /\ handle'[i] = q /\ Aside(i)
       /\ Types' /\ HandlesCoherent' /\ OneOwner'
       /\ SessionRouted' /\ FlushTrue' /\ CloseTrue'
    BY <1>1, <1>2, <1>3, <1>7, <1>8, <1>9, <1>10, RepairKept
<1>12. DiskTrue'
  <2>1. Sound' => Sound
      BY <1>1 DEF Sound
  <2>2. Sound' => /\ ~disk'.bad /\ h.state = "open" /\ q.cursor = disk'.n + q.recovered
      BY <1>2, <1>8, <1>10, <2>1 DEF Repaired
  <2>3. q.state = h.state
      BY <1>8 DEF Repaired
  <2> HIDE DEF h
  <2> QED BY <1>1, <1>2, <1>10, <1>11, <2>2, <2>3, DiskChanged DEF h
<1> QED BY <1>11, <1>12 DEF IInv

\* The recovered records are written again behind the committed ones.
LEMMA RewrittenStep == ASSUME IInv, NEW i \in Handles, Rewritten(i) PROVE IInv'
<1> DEFINE h == handle[i]
           s == h.cursor - h.recovered
           p == [h EXCEPT !.recovered = 0]
           x == NextStage(p)
           o == [h.op EXCEPT !.stage = x]
           q == [h EXCEPT !.recovered = 0, !.op = o]
<1>1. /\ h.op.stage = "rewrite" /\ disk' = Extended(s, h.recovered)
      /\ UNCHANGED <<owner, session, flusher, promised, faults, crashes, taint>>
    BY DEF Rewritten
<1>2. /\ h \in Handle /\ Coherent(h) /\ h.op # NoOp /\ h.materialized /\ disk.exists
      /\ h.state # "claimed"
      /\ Sound => /\ h.state = "open" /\ ~disk.bad
                  /\ h.cursor = disk.n + h.recovered /\ (disk.torn => h.torn)
    BY <1>1, RepairingIs
<1>3. handle' = [handle EXCEPT ![i] = q]
  <2>1. handle' = [handle EXCEPT ![i].recovered = 0, ![i].op.stage = x]
      BY DEF Rewritten
  <2> HIDE DEF x
  <2> QED BY <2>1 DEF IInv, Types
<1>4. ~h.torn /\ OperationFits(h)
    BY <1>1, <1>2 DEF Coherent, OperationFits
<1>5. x = "write"
  <2>1. p.torn = FALSE /\ p.recovered = 0
      BY <1>2, <1>4 DEF Handle
  <2> HIDE DEF p
  <2> QED BY <2>1 DEF NextStage
<1> HIDE DEF x
<1>6. o \in Operation /\ o.kind = h.op.kind /\ o.batch = h.op.batch /\ o.stage = x
    BY <1>2, <1>5 DEF Handle, Operation
<1>7. o # NoOp
    BY <1>5, <1>6 DEF NoOp
<1> HIDE DEF o
<1>8. q \in Handle
  <2>1. 0 \in Seqs
      BY DEF IInv, Types, Bounds, Seqs
  <2> QED BY <1>2, <1>6, <2>1 DEF Handle
<1>9. Repaired(q, h) /\ q.torn = h.torn /\ q.recovered = 0 /\ q.op = o
    BY <1>2, <1>6, <1>7 DEF Handle, Repaired, SameClose
<1> HIDE DEF q
<1>10. OperationFits(q)
    BY <1>2, <1>4, <1>5, <1>6, <1>7, <1>9 DEF OperationFits, Repaired
<1>11. /\ disk \in Artifact /\ h.recovered \in Nat /\ h.cursor \in Nat /\ disk.n \in Nat
  <2>1. disk \in Artifact /\ h.recovered \in Nat /\ h.cursor \in Nat
      BY <1>2 DEF IInv, Types, Handle, Seqs
  <2> QED BY <2>1 DEF Artifact
<1>12. /\ disk' \in Artifact /\ disk'.exists = disk.exists /\ disk'.n = disk.n + h.recovered
       /\ disk'.torn = disk.torn /\ disk.n <= disk'.n
       /\ disk'.bad => disk.bad \/ disk.torn \/ s # disk.n
  <2> HIDE DEF s
  <2>1. /\ disk' \in Artifact /\ disk'.exists = disk.exists /\ disk'.n = disk.n + h.recovered
        /\ disk'.torn = disk.torn
        /\ disk'.bad => disk.bad \/ disk.torn \/ s # disk.n
      BY <1>1, <1>11, ExtendedIs
  <2> QED BY <1>11, <2>1
<1>13. /\ handle'[i] = q /\ Aside(i)
       /\ Types' /\ HandlesCoherent' /\ OneOwner'
       /\ SessionRouted' /\ FlushTrue' /\ CloseTrue'
    BY <1>1, <1>2, <1>3, <1>8, <1>9, <1>10, <1>12, RepairKept
<1>14. DiskTrue'
  <2>1. Sound' => Sound
      BY <1>1 DEF Sound
  <2>2. Sound => s = disk.n /\ ~disk.torn
      BY <1>2, <1>4, <1>11
  <2>3. Sound' => /\ ~disk'.bad /\ h.state = "open" /\ q.cursor = disk'.n + q.recovered
                  /\ ~disk'.torn
      BY <1>2, <1>9, <1>11, <1>12, <2>1, <2>2 DEF Repaired
  <2>4. q.state = h.state
      BY <1>9 DEF Repaired
  <2> HIDE DEF h
  <2> QED BY <1>1, <1>2, <1>12, <1>13, <2>3, <2>4, DiskChanged DEF h
<1> QED BY <1>13, <1>14 DEF IInv

-----------------------------------------------------------------------------
(* Storage calls that fail. *)

\* A started operation fails; the artifact may have changed under the handle.
LEMMA FailsKept ==
    ASSUME IInv, NEW i \in Handles, handle[i].op # NoOp, Finish(i, handle[i], FALSE),
           disk' \in Artifact, disk.n <= disk'.n, disk.exists => disk'.exists,
           ~disk'.exists => disk'.n = 0 /\ ~disk'.torn,
           owner' = owner, taint \subseteq taint', taint' \subseteq Taints,
           faults' \in 0..MaxFaults, crashes' \in 0..MaxCrashes,
           Sound' => /\ ~disk'.bad
                     /\ handle[i].materialized =>
                           /\ handle[i].cursor = disk'.n + handle[i].recovered
                           /\ disk'.torn => handle[i].torn
    PROVE  IInv'
<1> DEFINE h == handle[i]
           q == handle'[i]
<1>1. h \in Handle /\ Coherent(h) /\ ~Idle(h)
    BY OwnerIs DEF Coherent
<1>2. Ends(h, h)
    BY DEF Ends
<1>3. /\ Aside(i) /\ SameStore(q, h) /\ q.op = NoOp
      /\ Types' /\ HandlesCoherent' /\ OneOwner'
      /\ SessionRouted' /\ FlushTrue' /\ CloseTrue'
    BY <1>2, FinishKept
<1>4. DiskTrue'
  <2>1. /\ q.state = h.state /\ q.cursor = h.cursor /\ q.materialized = h.materialized
        /\ q.torn = h.torn /\ q.recovered = h.recovered
      BY <1>3 DEF SameStore
  <2>2. h.state # "claimed"
      BY <1>1 DEF Idle
  <2>3. q.materialized => disk'.exists
      BY <2>1 DEF IInv, DiskTrue
  <2>4. Sound' => h.state = "open"
      BY TaintGrows DEF IInv, DiskTrue
  <2> QED BY <1>3, <2>1, <2>2, <2>3, <2>4, DiskChanged
<1> QED BY <1>3, <1>4 DEF IInv

\* What a handle that has started an operation knows of the artifact.
LEMMA StartedIs ==
    ASSUME IInv, NEW i \in Handles, handle[i].op # NoOp
    PROVE  LET h == handle[i] IN
           /\ h \in Handle /\ Coherent(h) /\ ~Idle(h)
           /\ h.materialized => disk.exists
           /\ Sound => /\ h.state = "open" /\ ~disk.bad
                       /\ h.materialized => h.cursor = disk.n + h.recovered /\ (disk.torn => h.torn)
           /\ ~disk.exists => disk.n = 0 /\ ~disk.torn
           /\ disk \in Artifact /\ disk.n \in Nat
           /\ h.cursor \in Nat /\ h.recovered \in Nat /\ Len(h.op.batch) \in Nat
<1> DEFINE h == handle[i]
<1>1. h \in Handle /\ Coherent(h)
    BY OwnerIs
<1>2. ~Idle(h)
    BY <1>1 DEF Coherent
<1>3. /\ h.materialized => disk.exists
      /\ ~disk.exists => disk.n = 0 /\ ~disk.torn
      /\ Sound => /\ h.state = "open" /\ ~disk.bad
                  /\ h.materialized => h.cursor = disk.n + h.recovered /\ (disk.torn => h.torn)
    BY DEF IInv, DiskTrue
<1>4. disk \in Artifact
    BY DEF IInv, Types
<1>5. disk.n \in Nat
    BY <1>4 DEF Artifact
<1>6. h.cursor \in Nat /\ h.recovered \in Nat
    BY <1>1 DEF Handle, Seqs
<1>7. Len(h.op.batch) \in Nat
    BY <1>1, KeptIs
<1> QED BY <1>1, <1>2, <1>3, <1>4, <1>5, <1>6, <1>7

\* Another artifact is there already.
LEMMA RefusedStep == ASSUME IInv, NEW i \in Handles, MaterializeRefused(i) PROVE IInv'
<1>1. /\ handle[i].op # NoOp /\ Finish(i, handle[i], FALSE)
      /\ disk' = disk /\ owner' = owner /\ faults' = faults /\ crashes' = crashes /\ taint' = taint
  <2>1. handle[i].op.stage = "write"
      BY DEF MaterializeRefused
  <2>2. handle[i].op # NoOp
      BY <2>1 DEF NoOp
  <2> QED BY <2>2 DEF MaterializeRefused
<1>2. /\ disk \in Artifact /\ disk.n \in Nat
      /\ ~disk.exists => disk.n = 0 /\ ~disk.torn
      /\ Sound => /\ ~disk.bad
                  /\ handle[i].materialized =>
                        handle[i].cursor = disk.n + handle[i].recovered /\ (disk.torn => handle[i].torn)
    BY <1>1, StartedIs
<1>3. taint \subseteq Taints /\ faults \in 0..MaxFaults /\ crashes \in 0..MaxCrashes
    BY DEF IInv, Types
<1>4. Sound' => /\ ~disk'.bad
                /\ handle[i].materialized =>
                      /\ handle[i].cursor = disk'.n + handle[i].recovered
                      /\ disk'.torn => handle[i].torn
    BY <1>1, <1>2 DEF Sound
<1>5. /\ disk' \in Artifact /\ disk.n <= disk'.n /\ (disk.exists => disk'.exists)
      /\ ~disk'.exists => disk'.n = 0 /\ ~disk'.torn
    BY <1>1, <1>2
<1> QED BY <1>1, <1>3, <1>4, <1>5, FailsKept

\* A storage call fails, with or without a trace.
LEMMA FailureStep ==
    ASSUME IInv, NEW i \in Handles, NEW left \in {"nothing", "unsynced", "bytes"}, StorageFails(i, left)
    PROVE  IInv'
<1> DEFINE h == handle[i]
           k == IF h.op.stage = "rewrite" THEN h.recovered ELSE Len(h.op.batch)
           s == IF h.op.stage = "rewrite" THEN h.cursor - h.recovered ELSE h.cursor
<1>1. /\ h.op.stage # "none" /\ faults < MaxFaults /\ faults' = faults + 1
      /\ Finish(i, h, FALSE) /\ UNCHANGED <<owner, crashes>>
    BY DEF StorageFails
<1>2. \/ left = "nothing" /\ UNCHANGED <<disk, taint>>
      \/ /\ h.op.stage = "truncate" /\ disk' = [disk EXCEPT !.torn = FALSE, !.partial = 0]
         /\ UNCHANGED taint
      \/ /\ h.op.stage = "write" /\ ~h.materialized /\ ~disk.exists /\ disk' = Published(k)
         /\ UNCHANGED taint
      \/ /\ h.materialized /\ disk' \in CutShort(s, k) /\ taint' = taint \cup {"rollback"}
  <2>1. (CASE left = "nothing" -> UNCHANGED <<disk, taint>>
           [] left = "unsynced" /\ h.op.stage = "truncate"
                -> /\ disk' = [disk EXCEPT !.torn = FALSE, !.partial = 0]
                   /\ UNCHANGED taint
           [] left = "unsynced" /\ h.op.stage = "write" /\ ~h.materialized
                -> /\ ~disk.exists
                   /\ disk' = Published(k)
                   /\ UNCHANGED taint
           [] left = "bytes" /\ h.op.stage # "truncate" /\ h.materialized
                -> /\ disk' \in CutShort(s, k)
                   /\ taint' = taint \cup {"rollback"}
           [] OTHER -> FALSE)
      BY DEF StorageFails
  <2> HIDE DEF h, k, s
  <2> QED BY <2>1
<1>3. h.op # NoOp
    BY <1>1 DEF NoOp
<1>4. /\ h \in Handle /\ Coherent(h) /\ (h.materialized => disk.exists)
      /\ disk \in Artifact /\ disk.n \in Nat
      /\ h.cursor \in Nat /\ h.recovered \in Nat /\ Len(h.op.batch) \in Nat
      /\ ~disk.exists => disk.n = 0 /\ ~disk.torn
      /\ Sound => /\ ~disk.bad
                  /\ h.materialized => h.cursor = disk.n + h.recovered /\ (disk.torn => h.torn)
    BY <1>3, StartedIs
<1>5. faults' \in 0..MaxFaults /\ crashes' \in 0..MaxCrashes /\ taint \subseteq Taints
    BY <1>1 DEF IInv, Types, Bounds
<1>6. k \in Nat
    BY <1>4
<1> HIDE DEF k, s
<1>7. CASE left = "nothing" /\ UNCHANGED <<disk, taint>>
  <2>1. disk' = disk /\ taint' = taint
      BY <1>7
  <2>2. Sound' => /\ ~disk'.bad
                  /\ h.materialized => h.cursor = disk'.n + h.recovered /\ (disk'.torn => h.torn)
      BY <1>4, <2>1 DEF Sound
  <2>3. /\ disk' \in Artifact /\ disk.n <= disk'.n /\ (disk.exists => disk'.exists)
        /\ ~disk'.exists => disk'.n = 0 /\ ~disk'.torn
      BY <1>4, <2>1
  <2> QED BY <1>1, <1>3, <1>5, <2>1, <2>2, <2>3, FailsKept
<1>8. CASE /\ h.op.stage = "truncate" /\ disk' = [disk EXCEPT !.torn = FALSE, !.partial = 0]
           /\ UNCHANGED taint
  <2>1. /\ disk' \in Artifact /\ disk'.exists = disk.exists /\ disk'.n = disk.n
        /\ ~disk'.torn /\ disk'.bad = disk.bad
      BY <1>4, <1>8, TrimmedIs
  <2>2. taint' = taint
      BY <1>8
  <2>3. Sound' => /\ ~disk'.bad
                  /\ h.materialized => h.cursor = disk'.n + h.recovered /\ (disk'.torn => h.torn)
      BY <1>4, <2>1, <2>2 DEF Sound
  <2>4. /\ disk' \in Artifact /\ disk.n <= disk'.n /\ (disk.exists => disk'.exists)
        /\ ~disk'.exists => disk'.n = 0 /\ ~disk'.torn
      BY <1>4, <2>1
  <2> QED BY <1>1, <1>3, <1>5, <2>2, <2>3, <2>4, FailsKept
<1>9. CASE /\ h.op.stage = "write" /\ ~h.materialized /\ ~disk.exists /\ disk' = Published(k)
           /\ UNCHANGED taint
  <2>1. disk' \in Artifact /\ disk'.exists /\ disk'.n = k /\ disk'.bad = disk.bad
      BY <1>4, <1>6, <1>9, PublishedIs
  <2>2. disk.n <= disk'.n
      BY <1>4, <1>6, <1>9, <2>1
  <2>3. Sound' => Sound
      BY <1>9 DEF Sound
  <2> QED BY <1>1, <1>3, <1>4, <1>5, <1>9, <2>1, <2>2, <2>3, FailsKept
<1>10. CASE /\ h.materialized /\ disk' \in CutShort(s, k) /\ taint' = taint \cup {"rollback"}
  <2>1. disk' \in Artifact /\ disk'.exists = disk.exists /\ disk.n <= disk'.n
      BY <1>4, <1>6, <1>10, CutShortIs
  <2>2. ~Sound'
      BY <1>10 DEF Sound
  <2>3. taint \subseteq taint' /\ taint' \subseteq Taints
      BY <1>5, <1>10 DEF Taints
  <2> QED BY <1>1, <1>3, <1>4, <1>5, <1>10, <2>1, <2>2, <2>3, FailsKept
<1> QED BY <1>2, <1>7, <1>8, <1>9, <1>10

-----------------------------------------------------------------------------
(* A batch is written. *)

\* The handle with its batch behind it.
Behind(h) == [h EXCEPT !.materialized = TRUE, !.cursor = @ + Len(h.op.batch)]

\* It keeps the rest, and its cursor stays in range.
LEMMA BehindIs ==
    ASSUME IInv, NEW i \in Handles, handle[i].op.stage = "write"
    PROVE  LET h == handle[i]
               c == h.cursor + Len(h.op.batch)
               q == Settled(Behind(h), TRUE) IN
           /\ c \in Seqs /\ q \in Handle /\ Coherent(q) /\ SameClose(q, h)
           /\ q.state = h.state /\ q.cursor = c /\ q.materialized
           /\ ~q.torn /\ q.recovered = 0
           /\ q.op = NoOp /\ q.chain = h.chain /\ q.buffered = h.buffered
           /\ h.op.kind = "drain" => q.drain = "check"
           /\ h.op.kind # "drain" => q.drain = h.drain /\ q.drainFailed = h.drainFailed
           /\ Behind(h).op = h.op /\ h.op # NoOp /\ ~h.torn /\ h.recovered = 0
           /\ h.op.kind = "flush" => h.op.batch = <<>>
           /\ h.op.kind \in {"append", "flush", "drain"}
           /\ ~h.materialized => h.cursor = 0
<1> DEFINE h == handle[i]
           c == h.cursor + Len(h.op.batch)
           w == [h EXCEPT !.materialized = TRUE, !.cursor = c]
           q == Settled(w, TRUE)
<1>1. h.op # NoOp /\ h \in Handle /\ Coherent(h) /\ ~Idle(h)
  <2>1. h.op # NoOp
      BY DEF NoOp
  <2> QED BY <2>1, StartedIs
<1>2. /\ ~h.torn /\ h.recovered = 0 /\ Contiguous(h.op.batch, h.cursor)
      /\ h.op.kind = "flush" => h.op.batch = <<>>
      /\ h.op.kind # "none"
    BY <1>1 DEF Coherent, OperationFits
<1>3. c \in Seqs
  <2>1. MaxEvents \in Nat /\ h.op.batch \in Seq(Event) /\ h.cursor \in Seqs
      BY <1>1 DEF IInv, Types, Bounds, Handle, Operation
  <2> QED BY <1>2, <2>1, BatchEnds
<1>4. Behind(h) = w
    BY DEF Behind, IInv, Types, Handle
<1>5. h.op.kind \in {"append", "flush", "drain"}
    BY <1>1, <1>2 DEF Handle, Operation
<1> HIDE DEF c
<1>6. w \in Handle
    BY <1>1, <1>3 DEF Handle
<1>7. /\ w.state = h.state /\ w.cursor = c /\ w.materialized = TRUE
      /\ w.torn = h.torn /\ w.recovered = h.recovered
      /\ w.buffered = h.buffered /\ w.timer = h.timer /\ w.paused = h.paused
      /\ w.drain = h.drain /\ w.drainFailed = h.drainFailed /\ w.chain = h.chain
      /\ w.op = h.op /\ SameClose(w, h)
    BY <1>1 DEF Handle, SameClose
<1> HIDE DEF w
<1>8. Steady(w) /\ Remembered(w) /\ ~Idle(w)
  <2>1. SingleDrain(w)
      BY <1>1, <1>7 DEF Coherent, Steady, SingleDrain
  <2>2. Remembered(w)
      BY <1>1, <1>7 DEF Coherent, Remembered
  <2>3. ~Idle(w)
      BY <1>1, <1>7 DEF Idle
  <2> QED BY <1>1, <1>7, <2>1, <2>2, <2>3 DEF Coherent, Steady, SameClose
<1>9. Coherent(q)
    BY <1>6, <1>8, SettledCoherent
<1>10. /\ q \in Handle /\ SameStore(q, w) /\ SameClose(q, w)
       /\ q.op = NoOp /\ q.chain = w.chain
       /\ w.op.kind # "drain" =>
             q.buffered = w.buffered /\ q.drain = w.drain /\ q.drainFailed = w.drainFailed
       /\ w.op.kind = "drain" => q.buffered = w.buffered /\ q.drain = "check"
    BY <1>6, SettledIs
<1> HIDE DEF q
<1>11. /\ q.state = h.state /\ q.cursor = c /\ q.materialized /\ ~q.torn /\ q.recovered = 0
       /\ SameClose(q, h) /\ q.chain = h.chain /\ q.buffered = h.buffered
       /\ h.op.kind = "drain" => q.drain = "check"
       /\ h.op.kind # "drain" => q.drain = h.drain /\ q.drainFailed = h.drainFailed
    BY <1>2, <1>7, <1>10 DEF SameStore, SameClose
<1>12. ~h.materialized => h.cursor = 0
    BY <1>1 DEF Coherent, Steady
<1>13. /\ c \in Seqs /\ q \in Handle /\ Coherent(q) /\ SameClose(q, h)
       /\ q.state = h.state /\ q.cursor = c /\ q.materialized
       /\ ~q.torn /\ q.recovered = 0
       /\ q.op = NoOp /\ q.chain = h.chain /\ q.buffered = h.buffered
       /\ h.op.kind = "drain" => q.drain = "check"
       /\ h.op.kind # "drain" => q.drain = h.drain /\ q.drainFailed = h.drainFailed
       /\ Behind(h).op = h.op /\ h.op # NoOp /\ ~h.torn /\ h.recovered = 0
       /\ h.op.kind = "flush" => h.op.batch = <<>>
       /\ h.op.kind \in {"append", "flush", "drain"}
       /\ ~h.materialized => h.cursor = 0
    BY <1>1, <1>2, <1>3, <1>4, <1>5, <1>7, <1>9, <1>10, <1>11, <1>12
<1>14. q = Settled(Behind(h), TRUE)
    BY <1>4 DEF q
<1> QED BY <1>13, <1>14 DEF c

\* The batch, or the header of an empty log, is in the artifact.
LEMMA WrittenStep == ASSUME IInv, NEW i \in Handles, Written(i) PROVE IInv'
<1> DEFINE h == handle[i]
           k == Len(h.op.batch)
           c == h.cursor + k
           q == Settled(Behind(h), TRUE)
<1>1. /\ h.op.stage = "write" /\ (h.materialized \/ ~disk.exists)
      /\ disk' = IF h.materialized THEN Extended(h.cursor, k) ELSE Published(k)
      /\ Finish(i, Behind(h), TRUE)
      /\ UNCHANGED <<owner, faults, crashes, taint>>
    BY DEF Written, Behind
<1>2. /\ c \in Seqs /\ q \in Handle /\ Coherent(q) /\ SameClose(q, h)
      /\ q.state = h.state /\ q.cursor = c /\ q.materialized
      /\ ~q.torn /\ q.recovered = 0
      /\ q.op = NoOp /\ q.chain = h.chain /\ q.buffered = h.buffered
      /\ h.op.kind = "drain" => q.drain = "check"
      /\ h.op.kind # "drain" => q.drain = h.drain /\ q.drainFailed = h.drainFailed
      /\ Behind(h).op = h.op /\ h.op # NoOp /\ ~h.torn /\ h.recovered = 0
      /\ h.op.kind = "flush" => h.op.batch = <<>>
      /\ h.op.kind \in {"append", "flush", "drain"}
      /\ ~h.materialized => h.cursor = 0
    BY <1>1, BehindIs
<1>3. /\ h \in Handle /\ Coherent(h) /\ ~Idle(h)
      /\ h.materialized => disk.exists
      /\ Sound => /\ h.state = "open" /\ ~disk.bad
                  /\ h.materialized => h.cursor = disk.n + h.recovered /\ (disk.torn => h.torn)
      /\ ~disk.exists => disk.n = 0 /\ ~disk.torn
      /\ disk \in Artifact /\ disk.n \in Nat
      /\ h.cursor \in Nat /\ k \in Nat
    BY <1>2, StartedIs
<1>4. handle' = [handle EXCEPT ![i] = q] /\ CallerResumes(i, h.op.kind, TRUE)
    BY <1>1, <1>2 DEF Finish
<1>5. /\ session' \in LiveSession /\ session'.seq = session.seq
      /\ session'.opened = session.opened /\ SessionGoesOn
      /\ session'.state # "none" => session.state # "none"
      /\ ~(h.op.kind = "append" /\ session.state = "storing" /\ owner = i) => session' = session
      /\ h.op.kind = "append" /\ session.state = "storing" /\ owner = i =>
            session'.state = "stored" /\ session'.stored = c
      /\ flusher' \in Caller /\ promised' \in Seqs
      /\ \/ flusher' = flusher /\ promised' = promised
         \/ flusher' = NoFlush /\ promised' \in Seqs /\ (taint = {} => promised' <= disk.n)
    BY <1>2, <1>4, CallerIs
<1> HIDE DEF q
<1>6. handle'[i] = q /\ Aside(i)
    BY <1>2, <1>4 DEF Aside, IInv, Types
<1>7. /\ disk' \in Artifact /\ disk.n <= disk'.n /\ disk'.exists
      /\ h.materialized => /\ disk'.n = disk.n + k /\ disk'.torn = disk.torn
                           /\ disk'.bad => disk.bad \/ disk.torn \/ h.cursor # disk.n
      /\ ~h.materialized => disk'.n = k /\ disk'.torn = disk.torn /\ disk'.bad = disk.bad
  <2>1. CASE h.materialized
    <3>1. /\ disk' \in Artifact /\ disk'.exists = disk.exists /\ disk'.n = disk.n + k
          /\ disk'.torn = disk.torn
          /\ disk'.bad => disk.bad \/ disk.torn \/ h.cursor # disk.n
      <4>1. disk' = Extended(h.cursor, k)
          BY <1>1, <2>1
      <4> QED BY <1>3, <4>1, ExtendedIs
    <3> QED BY <1>3, <2>1, <3>1
  <2>2. CASE ~h.materialized
    <3>1. /\ disk' \in Artifact /\ disk'.exists /\ disk'.n = k /\ disk'.torn = disk.torn
          /\ disk'.bad = disk.bad
      <4>1. disk' = Published(k)
          BY <1>1, <2>2
      <4> QED BY <1>3, <4>1, PublishedIs
    <3>2. disk.n = 0
        BY <1>1, <1>3, <2>2
    <3> QED BY <1>3, <2>2, <3>1, <3>2
  <2> QED BY <2>1, <2>2
<1>8. Types'
    BY <1>1, <1>5, <1>6, <1>7 DEF IInv, Types, Bounds, Aside
<1>9. HandlesCoherent'
    BY <1>2, <1>6 DEF IInv, HandlesCoherent, Aside
<1>10. OneOwner'
  <2>1. \A j \in Handles : handle'[j].state = handle[j].state
      BY <1>2, <1>6 DEF Aside
  <2>2. session'.state # "none" => owner' # 0 /\ handle'[owner'].state = "open"
      BY <1>1, <1>5, <2>1, OwnerIs DEF IInv, OneOwner
  <2> QED BY <1>1, <2>1, <2>2 DEF IInv, OneOwner
<1>11. DiskTrue'
  <2>1. Sound' => Sound
      BY <1>1 DEF Sound
  <2>2. Sound => ~disk'.bad /\ c = disk'.n + 0 /\ ~disk'.torn
    <3>1. CASE h.materialized
        BY <1>2, <1>3, <1>7, <3>1
    <3>2. CASE ~h.materialized
        BY <1>1, <1>2, <1>3, <1>7, <3>2
    <3> QED BY <3>1, <3>2
  <2>3. h.state # "claimed"
      BY <1>3 DEF Idle
  <2> HIDE DEF c, k, h
  <2>4. Sound' => /\ ~disk'.bad /\ h.state = "open" /\ q.cursor = disk'.n + q.recovered
                  /\ ~disk'.torn
      BY <1>2, <1>3, <2>1, <2>2
  <2> QED BY <1>1, <1>2, <1>6, <1>7, <2>3, <2>4, DiskChanged DEF h
<1>12. /\ \A j \in Handles : SameClose(handle'[j], handle[j])
       /\ handle' \in [Handles -> Handle] /\ taint \subseteq taint'
  <2>1. \A j \in Handles : SameClose(handle'[j], handle[j])
      BY <1>2, <1>6 DEF Aside, SameClose
  <2> QED BY <1>1, <1>6, <2>1 DEF Aside
<1>13. CloseTrue'
    BY <1>5, <1>7, <1>12, CloseKept
<1>14. FlushTrue'
  <2>1. owner \in Handles =>
          /\ handle[owner].drain # "none" => handle'[owner].drain # "none"
          /\ handle'[owner].drain = "settled" /\ ~handle'[owner].drainFailed
               => /\ handle[owner].drain = "settled" /\ ~handle[owner].drainFailed
                  /\ handle[owner].cursor <= handle'[owner].cursor
    <3>1. CASE owner = i
      <4>1. h.cursor <= c
          BY <1>3
      <4> HIDE DEF c
      <4> QED BY <1>2, <1>6, <3>1, <4>1
    <3>2. CASE owner # i
      <4>1. owner \in Handles => handle'[owner] = handle[owner] /\ handle[owner].cursor \in Nat
          BY <1>6, <3>2, OwnerIs DEF Aside, Handle, Seqs
      <4> QED BY <4>1
    <3> QED BY <3>1, <3>2
  <2> QED BY <1>1, <1>5, <1>7, <1>12, <2>1, FlushEnds
<1>15. SessionRouted'
  <2>1. CASE owner # i \/ session.state = "none"
    <3>1. session' = session
        BY <1>5, <2>1
    <3>2. session.state # "none" => handle'[owner] = handle[owner]
        BY <1>6, <2>1, OwnerIs DEF Aside
    <3> QED BY <1>1, <3>1, <3>2, RoutedKept
  <2>2. CASE owner = i /\ session.state # "none"
    <3>1. Routed(h, session, "gap" \in taint)
        BY <2>2 DEF IInv, SessionRouted
    <3>2. session.state \notin {"setup", "stored"}
        BY <1>2, <3>1 DEF Routed
    <3>3. CASE session.state = "storing"
      <4>1. /\ h.chain = <<>> /\ h.op.kind = "append" /\ h.buffered = <<>>
            /\ session.stored + k <= session.seq /\ h.cursor = session.stored
          BY <1>2, <3>1, <3>3 DEF Routed, Storing
      <4>2. session'.state = "stored" /\ session'.stored = c /\ c <= session'.seq
          BY <1>5, <2>2, <3>3, <4>1
      <4> HIDE DEF h, c
      <4>3. Routed(q, session', "gap" \in taint')
          BY <1>2, <4>1, <4>2 DEF Routed
      <4> QED BY <1>1, <1>6, <2>2, <4>3 DEF SessionRouted
    <3>4. CASE session.state = "published"
      <4>1. session' = session /\ q.op.kind # "append"
          BY <1>2, <1>5, <3>4 DEF NoOp
      <4>2. \A j \in DOMAIN q.chain : q.chain[j].kind # "append"
          BY <1>2, <3>1, <3>4 DEF Routed
      <4>3. h.buffered \in Seq(Event) /\ h.op.batch \in Seq(Event) /\ Len(h.buffered) \in Nat
          BY <1>3, KeptIs, LenProperties
      <4>4. Kept(q) = h.buffered
        <5>1. q.op.kind # "drain"
            BY <1>2 DEF NoOp
        <5> QED BY <1>2, <5>1, KeptIs
      <4>5. ASSUME "gap" \notin taint
            PROVE  Contiguous(h.buffered, c) /\ c + Len(h.buffered) = session.seq
        <5>1. Contiguous(Kept(h), h.cursor) /\ h.cursor + Len(Kept(h)) = session.seq
            BY <3>1, <3>4, <4>5 DEF Routed
        <5>2. CASE h.op.kind = "drain"
          <6>1. Kept(h) = h.op.batch \o h.buffered
              BY <1>3, <5>2, KeptIs
          <6>2. Len(h.op.batch \o h.buffered) = k + Len(h.buffered)
              BY <4>3, ConcatProperties
          <6>3. Contiguous(h.buffered, h.cursor + k)
              BY <1>3, <4>3, <5>1, <6>1, ContiguousRest
          <6>4. h.cursor + (k + Len(h.buffered)) = session.seq
              BY <5>1, <6>1, <6>2
          <6>5. h.cursor \in Nat /\ k \in Nat /\ Len(h.buffered) \in Nat
              BY <1>3, <4>3
          <6>6. c + Len(h.buffered) = h.cursor + (k + Len(h.buffered))
            <7> HIDE DEF k
            <7> QED BY <6>5
          <6> QED BY <6>3, <6>4, <6>6
        <5>3. CASE h.op.kind # "drain"
          <6>1. Kept(h) = h.buffered
              BY <1>3, <5>3, KeptIs
          <6>2. h.op.batch = <<>>
              BY <1>2, <3>1, <3>4, <5>3 DEF Routed
          <6>3. k = 0
              BY <6>2, Nothing
          <6> QED BY <1>3, <5>1, <6>1, <6>3
        <5> QED BY <5>2, <5>3
      <4> HIDE DEF h, c
      <4>6. Routed(q, session', "gap" \in taint')
          BY <1>1, <1>2, <3>4, <4>1, <4>2, <4>4, <4>5 DEF Routed
      <4> QED BY <1>1, <1>6, <2>2, <4>6 DEF SessionRouted
    <3>5. CASE session.state = "failed"
      <4>1. session' = session
          BY <1>5, <3>5
      <4> HIDE DEF h, c
      <4>2. Routed(q, session', "gap" \in taint')
          BY <1>2, <3>5, <4>1 DEF Routed
      <4> QED BY <1>1, <1>6, <2>2, <4>2 DEF SessionRouted
    <3>6. session.state \in {"setup", "storing", "stored", "failed", "published"}
        BY <2>2 DEF IInv, Types, LiveSession
    <3> QED BY <3>2, <3>3, <3>4, <3>5, <3>6
  <2> QED BY <2>1, <2>2
<1> QED BY <1>8, <1>9, <1>10, <1>11, <1>13, <1>14, <1>15 DEF IInv

\* A storage call settles.
LEMMA StorageStep == ASSUME IInv, NEW i \in Handles, StorageCall(i) PROVE IInv'
BY TruncatedStep, RewrittenStep, WrittenStep, RefusedStep, FailureStep DEF StorageCall

-----------------------------------------------------------------------------
(* The process dies. *)

\* A write in progress commits what it had reached.
LEMMA CrashDisk ==
    ASSUME IInv, Crash
    PROVE  /\ disk' \in Artifact /\ disk.n <= disk'.n
           /\ ~disk'.exists => disk'.n = 0 /\ ~disk'.torn
           /\ Sound => ~disk'.bad
<1>1. /\ disk \in Artifact /\ disk.n \in Nat
      /\ ~disk.exists => disk.n = 0 /\ ~disk.torn
      /\ Sound => ~disk.bad
  <2>1. disk \in Artifact
      BY DEF IInv, Types
  <2>2. disk.n \in Nat
      BY <2>1 DEF Artifact
  <2> QED BY <2>1, <2>2 DEF IInv, DiskTrue
<1>2. CASE disk' = disk
    BY <1>1, <1>2
<1>3. ASSUME NEW i \in Handles, handle[i].op.stage = "write", handle[i].materialized,
             disk' \in CutShort(handle[i].cursor, Len(handle[i].op.batch))
      PROVE  /\ disk' \in Artifact /\ disk.n <= disk'.n
             /\ ~disk'.exists => disk'.n = 0 /\ ~disk'.torn
             /\ Sound => ~disk'.bad
  <2> DEFINE h == handle[i]
  <2>1. /\ Coherent(h) /\ disk.exists /\ h.op # NoOp
        /\ Sound => ~disk.bad /\ h.cursor = disk.n + h.recovered /\ (disk.torn => h.torn)
        /\ Len(h.op.batch) \in Nat
    <3>1. h.op # NoOp
        BY <1>3 DEF NoOp
    <3> QED BY <1>3, <3>1, StartedIs
  <2>2. ~h.torn /\ h.recovered = 0
      BY <1>3, <2>1 DEF Coherent, OperationFits
  <2>3. /\ disk' \in Artifact /\ disk'.exists = disk.exists /\ disk.n <= disk'.n
        /\ disk'.bad => disk.bad \/ disk.torn \/ h.cursor # disk.n
      BY <1>1, <1>3, <2>1, CutShortIs
  <2>4. Sound => ~disk'.bad
      BY <1>1, <2>1, <2>2, <2>3
  <2> QED BY <2>1, <2>3, <2>4
<1>4. ASSUME NEW i \in Handles, ~disk.exists, disk' = Published(Len(handle[i].op.batch))
      PROVE  /\ disk' \in Artifact /\ disk.n <= disk'.n
             /\ ~disk'.exists => disk'.n = 0 /\ ~disk'.torn
             /\ Sound => ~disk'.bad
  <2> DEFINE k == Len(handle[i].op.batch)
  <2>1. k \in Nat
      BY OwnerIs, KeptIs
  <2> HIDE DEF k
  <2>2. disk' = Published(k)
      BY <1>4 DEF k
  <2>3. disk' \in Artifact /\ disk'.exists /\ disk'.n = k /\ disk'.bad = disk.bad
      BY <1>1, <2>1, <2>2, PublishedIs
  <2> QED BY <1>1, <1>4, <2>1, <2>3
<1>5. ASSUME NEW i \in Handles, handle[i].op.stage = "rewrite",
             disk' \in CutShort(handle[i].cursor - handle[i].recovered, handle[i].recovered)
      PROVE  /\ disk' \in Artifact /\ disk.n <= disk'.n
             /\ ~disk'.exists => disk'.n = 0 /\ ~disk'.torn
             /\ Sound => ~disk'.bad
  <2> DEFINE h == handle[i]
             s == h.cursor - h.recovered
  <2>1. /\ h \in Handle /\ Coherent(h) /\ disk.exists
        /\ Sound => ~disk.bad /\ h.cursor = disk.n + h.recovered /\ (disk.torn => h.torn)
      BY <1>5, RepairingIs
  <2>2. ~h.torn
      BY <1>5, <2>1 DEF Coherent, OperationFits
  <2>3. h.recovered \in Nat /\ h.cursor \in Nat
      BY <2>1 DEF Handle, Seqs
  <2>4. Sound => s = disk.n
      BY <1>1, <2>1, <2>3
  <2> HIDE DEF s
  <2>5. /\ disk' \in Artifact /\ disk'.exists = disk.exists /\ disk.n <= disk'.n
        /\ disk'.bad => disk.bad \/ disk.torn \/ s # disk.n
      BY <1>1, <1>5, <2>3, CutShortIs DEF s
  <2>6. Sound => ~disk'.bad
      BY <2>1, <2>2, <2>4, <2>5
  <2> QED BY <2>1, <2>5, <2>6
<1>6. CASE disk' = [disk EXCEPT !.torn = FALSE, !.partial = 0]
  <2>1. /\ disk' \in Artifact /\ disk'.exists = disk.exists /\ disk'.n = disk.n
        /\ ~disk'.torn /\ disk'.bad = disk.bad
      BY <1>1, <1>6, TrimmedIs
  <2> QED BY <1>1, <2>1
<1>7. \/ disk' = disk
      \/ disk' = [disk EXCEPT !.torn = FALSE, !.partial = 0]
      \/ \E i \in Handles :
           \/ /\ handle[i].op.stage = "write" /\ handle[i].materialized
              /\ disk' \in CutShort(handle[i].cursor, Len(handle[i].op.batch))
           \/ ~disk.exists /\ disk' = Published(Len(handle[i].op.batch))
           \/ /\ handle[i].op.stage = "rewrite"
              /\ disk' \in CutShort(handle[i].cursor - handle[i].recovered, handle[i].recovered)
    BY DEF Crash
<1> QED BY <1>2, <1>3, <1>4, <1>5, <1>6, <1>7

\* Of the handles nothing is left.
LEMMA CrashStep == ASSUME IInv, Crash PROVE IInv'
<1> DEFINE Lost == [Fresh EXCEPT !.state = "dead"]
<1>1. /\ crashes < MaxCrashes /\ crashes' = crashes + 1
      /\ handle' = [i \in Handles |-> IF handle[i].state = "none" THEN Fresh ELSE Lost]
      /\ owner' = 0 /\ session' = NoSession /\ flusher' = NoFlush
      /\ UNCHANGED <<promised, faults, taint>>
    BY DEF Crash
<1>2. /\ MaxEvents \in Nat /\ MaxHandles \in Nat /\ MaxCrashes \in Nat /\ crashes \in 0..MaxCrashes
      /\ promised \in Seqs /\ disk.n \in Nat
    BY DEF IInv, Types, Bounds, Artifact
<1>3. /\ Lost \in Handle /\ Lost.state = "dead" /\ ~Lost.materialized /\ Lost.op = NoOp
      /\ Lost.close = "no" /\ Coherent(Lost)
    BY <1>2, FreshState
<1>4. /\ Fresh \in Handle /\ Fresh.state = "none" /\ ~Fresh.materialized /\ Fresh.op = NoOp
      /\ Fresh.close = "no" /\ Coherent(Fresh)
  <2>1. /\ Fresh \in Handle /\ Fresh.state = "none" /\ Fresh.cursor = 0
        /\ Fresh.materialized = FALSE /\ Fresh.torn = FALSE /\ Fresh.recovered = 0
        /\ Fresh.buffered = <<>> /\ Fresh.timer = FALSE /\ Fresh.drain = "none"
        /\ Fresh.chain = <<>> /\ Fresh.op = NoOp /\ Fresh.close = "no"
      BY <1>2, FreshIs
  <2> QED BY <2>1, BlankCoherent
<1> HIDE DEF Lost
<1>5. ASSUME NEW j \in Handles
      PROVE  /\ handle'[j] \in Handle /\ handle'[j].state \in {"none", "dead"}
             /\ ~handle'[j].materialized /\ handle'[j].op = NoOp
             /\ handle'[j].close = "no" /\ Coherent(handle'[j])
  <2>1. handle'[j] = Fresh \/ handle'[j] = Lost
      BY <1>1
  <2> QED BY <1>3, <1>4, <2>1
<1>6. /\ disk' \in Artifact /\ disk.n <= disk'.n
      /\ ~disk'.exists => disk'.n = 0 /\ ~disk'.torn
      /\ Sound => ~disk'.bad
    BY CrashDisk
<1>7. Types'
  <2>1. handle' \in [Handles -> Handle]
      BY <1>1, <1>5
  <2>2. NoSession \in LiveSession /\ NoFlush \in Caller
      BY <1>2 DEF NoSession, LiveSession, NoFlush, Caller, Seqs
  <2>3. crashes' \in 0..MaxCrashes
      BY <1>1, <1>2
  <2> QED BY <1>1, <1>2, <1>6, <2>1, <2>2, <2>3 DEF IInv, Types, Bounds
<1>8. HandlesCoherent'
    BY <1>5 DEF HandlesCoherent
<1>9. OneOwner' /\ SessionRouted'
  <2>1. session'.state = "none"
      BY <1>1 DEF NoSession
  <2>2. \A j \in Handles : owner' # j /\ handle'[j].state \notin {"claimed", "open"}
      BY <1>1, <1>2, <1>5 DEF Handles
  <2> QED BY <2>1, <2>2 DEF OneOwner, SessionRouted
<1>10. DiskTrue'
  <2>1. Sound' => Sound
      BY <1>1 DEF Sound
  <2> QED BY <1>5, <1>6, <2>1 DEF DiskTrue
<1>11. FlushTrue'
  <2>1. taint' = {} => promised' <= disk'.n
    <3>1. disk'.n \in Nat /\ promised \in Nat
        BY <1>2, <1>6 DEF Artifact, Seqs
    <3>2. taint = {} => promised <= disk.n
        BY DEF IInv, FlushTrue
    <3> QED BY <1>1, <1>2, <1>6, <3>1, <3>2
  <2>2. flusher'.pc = "none"
      BY <1>1 DEF NoFlush
  <2> QED BY <2>1, <2>2 DEF FlushTrue
<1>12. CloseTrue'
    BY <1>5 DEF CloseTrue
<1> QED BY <1>7, <1>8, <1>9, <1>10, <1>11, <1>12 DEF IInv

-----------------------------------------------------------------------------
(* The invariant, and what follows from it. *)

\* Nothing is stored and nobody has a handle.
LEMMA InitIInv == ASSUME Bounds, Init PROVE IInv
<1>1. MaxEvents \in Nat /\ MaxHandles \in Nat /\ MaxFaults \in Nat /\ MaxCrashes \in Nat
    BY DEF Bounds
<1>2. /\ Fresh \in Handle /\ Fresh.state = "none" /\ ~Fresh.materialized /\ Fresh.op = NoOp
      /\ Fresh.close = "no" /\ Coherent(Fresh)
  <2>1. /\ Fresh \in Handle /\ Fresh.state = "none" /\ Fresh.cursor = 0
        /\ Fresh.materialized = FALSE /\ Fresh.torn = FALSE /\ Fresh.recovered = 0
        /\ Fresh.buffered = <<>> /\ Fresh.timer = FALSE /\ Fresh.drain = "none"
        /\ Fresh.chain = <<>> /\ Fresh.op = NoOp /\ Fresh.close = "no"
      BY <1>1, FreshIs
  <2> QED BY <2>1, BlankCoherent
<1>3. \A j \in Handles : handle[j] = Fresh
    BY DEF Init
<1>4. Types
  <2>1. NoSession \in LiveSession /\ NoFlush \in Caller /\ 0 \in Seqs
      BY <1>1 DEF NoSession, LiveSession, NoFlush, Caller, Seqs
  <2>2. disk \in Artifact
      BY DEF Init, Artifact
  <2> QED BY <1>1, <1>2, <2>1, <2>2 DEF Init, Types, Taints
<1>5. HandlesCoherent
    BY <1>2, <1>3 DEF HandlesCoherent
<1>6. OneOwner /\ SessionRouted
  <2>1. session.state = "none"
      BY DEF Init, NoSession
  <2>2. \A j \in Handles : owner # j /\ handle[j].state \notin {"claimed", "open"}
      BY <1>1, <1>2, <1>3 DEF Init, Handles
  <2> QED BY <2>1, <2>2 DEF OneOwner, SessionRouted
<1>7. DiskTrue
    BY <1>2, <1>3 DEF Init, DiskTrue
<1>8. FlushTrue /\ CloseTrue
    BY <1>2, <1>3 DEF Init, FlushTrue, CloseTrue, NoFlush
<1> QED BY <1>4, <1>5, <1>6, <1>7, <1>8 DEF IInv

\* Every step keeps it.
LEMMA NextIInv == ASSUME IInv, [Next]_vars PROVE IInv'
<1>1. CASE UNCHANGED vars
    BY <1>1 DEF vars, IInv, Types, HandlesCoherent, OneOwner, SessionRouted, DiskTrue,
               FlushTrue, CloseTrue, Sound
<1>2. ASSUME NEW i \in Handles, NEW seed \in 0..1, Create(i, seed) PROVE IInv'
    BY <1>2, CreateStep
<1>3. ASSUME NEW i \in Handles, NEW closers \in 0..1, OpenAdopts(i, closers) PROVE IInv'
    BY <1>3, OpenStep
<1>4. ASSUME NEW i \in Handles,
             \/ claimWrite(i) \/ OpenFails(i) \/ OpStarts(i) \/ StorageCall(i)
             \/ TimerFires(i) \/ DrainChecks(i) \/ DrainClears(i)
             \/ CloseChecks(i) \/ Release(i)
      PROVE  IInv'
    BY <1>4, ClaimStep, OpenFailsStep, OpStartsStep, StorageStep, TimerStep, DrainChecksStep,
       DrainClearsStep, CloseChecksStep, ReleaseStep
<1>5. CASE \/ appendUnstoredSuffix \/ MoreSetup \/ Publish \/ SessionAppend
           \/ SessionFlush \/ Close \/ Crash
    BY <1>5, SuffixStep, MoreSetupStep, PublishStep, AppendStep, SessionFlushStep, CloseStep,
       CrashStep
<1> QED BY <1>1, <1>2, <1>3, <1>4, <1>5 DEF Next

\* It says everything the type invariant does.
LEMMA IInvTypes == ASSUME IInv PROVE TypeOK
<1>1. MaxEvents \in Nat
    BY DEF IInv, Types, Bounds
<1>2. \A e \in Event : e \in Seqs
    BY <1>1 DEF Event, Seqs
<1>3. ASSUME NEW b \in Seq(Event) PROVE b \in Seq(Seqs)
  <2>1. Len(b) \in Nat /\ b \in [1..Len(b) -> Event]
      BY LenProperties
  <2>2. b \in [1..Len(b) -> Seqs]
      BY <1>2, <2>1
  <2> QED BY <2>1, <2>2, SeqDef
<1>4. ASSUME NEW i \in Handles
      PROVE  LET r == handle[i] IN
             /\ r.state \in {"none", "claimed", "open", "released", "dead"}
             /\ r.cursor \in Seqs /\ r.recovered \in Seqs /\ r.closeNeed \in Seqs
             /\ {r.materialized, r.torn, r.timer, r.paused, r.drainFailed, r.closeFailed} \subseteq BOOLEAN
             /\ r.buffered \in Seq(Seqs) /\ r.op.batch \in Seq(Seqs)
             /\ r.drain \in {"none", "op", "check", "settled"}
             /\ r.op.kind \in {"none", "append", "flush", "drain"}
             /\ r.op.stage \in {"none", "truncate", "rewrite", "write"}
             /\ r.close \in {"no", "drain", "chain", "last", "closed"}
             /\ r.ahead \in Nat
  <2> DEFINE r == handle[i]
  <2>1. r \in Handle
      BY OwnerIs
  <2>2. /\ r.materialized \in BOOLEAN /\ r.torn \in BOOLEAN /\ r.timer \in BOOLEAN
        /\ r.paused \in BOOLEAN /\ r.drainFailed \in BOOLEAN /\ r.closeFailed \in BOOLEAN
      BY <2>1 DEF Handle
  <2>3. r.buffered \in Seq(Seqs) /\ r.op.batch \in Seq(Seqs)
      BY <1>3, <2>1 DEF Handle, Operation
  <2>4. {r.materialized, r.torn, r.timer, r.paused, r.drainFailed, r.closeFailed} \subseteq BOOLEAN
      BY <2>2
  <2>5. /\ r.state \in {"none", "claimed", "open", "released", "dead"}
        /\ r.cursor \in Seqs /\ r.recovered \in Seqs /\ r.closeNeed \in Seqs
        /\ r.drain \in {"none", "op", "check", "settled"}
        /\ r.op.kind \in {"none", "append", "flush", "drain"}
        /\ r.op.stage \in {"none", "truncate", "rewrite", "write"}
        /\ r.close \in {"no", "drain", "chain", "last", "closed"}
        /\ r.ahead \in Nat
      BY <2>1 DEF Handle, Operation
  <2> QED BY <2>3, <2>4, <2>5
<1>5. /\ disk \in [exists : BOOLEAN, n : Nat, torn : BOOLEAN, partial : Nat, bad : BOOLEAN]
      /\ owner \in 0..MaxHandles
      /\ promised \in Seqs
      /\ faults \in 0..MaxFaults /\ crashes \in 0..MaxCrashes
      /\ taint \subseteq Taints
    BY DEF IInv, Types, Artifact
<1>6. /\ session.state \in {"none", "setup", "storing", "stored", "failed", "published"}
      /\ session.seq \in Seqs /\ session.stored \in Seqs /\ session.opened \in Seqs
    BY DEF IInv, Types, LiveSession
<1>7. /\ flusher.pc \in {"none", "drain", "flush"} /\ flusher.handle \in 0..MaxHandles
      /\ flusher.need \in Seqs /\ flusher.late \in BOOLEAN
    BY DEF IInv, Types, Caller
<1> QED BY <1>4, <1>5, <1>6, <1>7 DEF TypeOK

\* No event is lost on its way through the handle.
LEMMA IInvLosesNothing == ASSUME IInv PROVE LosesNothing
<1>1. StoredContiguous
    BY DEF IInv, DiskTrue, StoredContiguous
<1>2. RetainedInOrder
  <2>1. ASSUME session.state = "published", "gap" \notin taint
        PROVE  /\ Contiguous(Kept(handle[owner]), handle[owner].cursor)
               /\ handle[owner].cursor + Len(Kept(handle[owner])) = session.seq
      BY <2>1 DEF IInv, SessionRouted, Routed
  <2> QED BY <2>1 DEF RetainedInOrder, Kept
<1>3. NothingForgotten
    BY OwnerIs DEF NothingForgotten, Coherent, Remembered
<1>4. PromisedSurvives
    BY DEF IInv, FlushTrue, PromisedSurvives
<1>5. CloseIsLossless
    BY DEF IInv, CloseTrue, CloseIsLossless
<1> QED BY <1>1, <1>2, <1>3, <1>4, <1>5
       DEF LosesNothing, BufferDiscipline, OrderIsKept, DurableAsPromised

\* The write handle, the artifact and the session stay what they are said to be.
THEOREM TypeCorrect == Spec => []TypeOK
<1>1. Bounds
    BY BoundsAssumption, CompressedAssumption DEF Bounds
<1>2. Init => IInv
    BY <1>1, InitIInv
<1>3. IInv /\ [Next]_vars => IInv'
    BY NextIInv
<1>4. IInv => TypeOK
    BY IInvTypes
<1> QED BY <1>2, <1>3, <1>4, PTL DEF Spec

\* No record is lost, doubled or reordered on its way to the artifact, and what
\* a flush or a close has answered for stays there.
THEOREM NothingEverLost == Spec => []LosesNothing
<1>1. Bounds
    BY BoundsAssumption, CompressedAssumption DEF Bounds
<1>2. Init => IInv
    BY <1>1, InitIInv
<1>3. IInv /\ [Next]_vars => IInv'
    BY NextIInv
<1>4. IInv => LosesNothing
    BY IInvLosesNothing
<1> QED BY <1>2, <1>3, <1>4, PTL DEF Spec
=============================================================================
