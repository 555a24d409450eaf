---------------------------- MODULE Client_proofs ----------------------------
(***************************************************************************)
(* What TLAPS proves of the client: of the journal stream and of the       *)
(* connection below it, which share no state.                              *)
(*                                                                         *)
(* Of the stream, for any page size and any bounds: its types, that what   *)
(* it says of its window and of its end is true, and that it implements    *)
(* JournalWindow.  Two facts carry the proof: FeedContinues, that the      *)
(* frames under way continue what was taken but for counted holes, and     *)
(* GenShape, that no entry of a new generation is taken before its         *)
(* opening.                                                                *)
(*                                                                         *)
(* Of the connection, for any streams, any number of tiers and any number  *)
(* of outages: its types, and that what streams hold on to and what users  *)
(* see is there.  The mux is reasoned about by itself (MuxIsOne), operator *)
(* by operator, and blames every stream left on a dead socket on one of    *)
(* the two windows (Blamed).  SourceAt then says when the source of a      *)
(* generation can be ready: only while no attempt is under way.            *)
(* EventsHeld says why the events stream never misses the loss of its      *)
(* socket: whoever drops the socket while it is opening aborts it as well. *)
(***************************************************************************)
EXTENDS JournalStream, Connection, FiniteSetTheorems, SequenceTheorems, TLAPS

-----------------------------------------------------------------------------
(* The inductive invariant. *)

\* The domains of the variables, without the bounds that follow from the rest.
Hosts    == [len: Nat, ever: Nat, serving: {"no", "asked", "yes"}, sent: Nat]
Frames   == [type: {"opened", "entry", "end", "error"}, cursor: Nat]
Streams  == [at: {"idle", "start", "open", "lost", "wait", "parked", "over"},
             gen: Nat, attempt: Nat, accepted: BOOLEAN, revised: BOOLEAN]
Repairs  == [through: Nat, queued: SUBSET Nat, round: {0, 1, 2}]
Journals == [phase: {"idle", "opening", "live", "repair", "stale", "failed", "closed"},
             gen: Nat, first: Nat, last: Nat, opened: BOOLEAN, repair: Repairs,
             cause: {"none", "carrier", "behind", "end", "error", "hole", "page",
                     "restart"}]
Readers  == [Reader -> [at: {"idle", "asked"}, before: Nat]]
Windows  == [window: Seq(Nat), more: BOOLEAN, cut: BOOLEAN]
Tallies  == [left: Nat, count: [Kind -> Nat]]

Typed ==
    /\ host \in Hosts
    /\ feed \in Seq(Frames)
    /\ available \in BOOLEAN
    /\ stream \in Streams
    /\ journal \in Journals
    /\ reader \in Readers
    /\ shown \in Windows
    /\ faults \in Tallies

\* Where the generator is while the consumer is at each of its phases.
PhaseAt ==
    /\ journal.phase = "idle" <=> stream.at = "idle"
    /\ Consuming => stream.at \in {"start", "open", "lost", "wait"}
    /\ journal.phase = "failed" => stream.at \in {"parked", "over"}
    /\ journal.phase = "closed" => stream.at = "over"
    /\ journal.opened => journal.phase \notin {"idle", "opening"}
    /\ journal.phase \in {"live", "repair", "stale"} => journal.opened
    /\ journal.gen <= stream.gen
    /\ journal.cause # "none" => journal.phase \in {"failed", "closed"}
    /\ stream.revised => stream.at # "open" /\ faults.count["calm"] >= 1

\* The Host's journal: only a restart loses entries.
HostCounts ==
    /\ host.len <= host.ever /\ host.sent <= host.len /\ host.ever <= MaxLen
    /\ faults.count["forget"] = 0 => host.len = host.ever

\* The Host's end of the stream and the inbox last as long as the generation.
ServesAt ==
    /\ host.serving # "no" => stream.at \in {"open", "parked"}
    /\ host.serving = "asked" => feed = <<>>
    /\ feed # <<>> => stream.at \in {"open", "parked"}

\* A frame that ends the stream.
Ending(i) == feed[i].type \in {"end", "error"}

\* An opening frame comes first and a closing frame last, and every cursor is
\* that of an entry the journal has had.
FramesFit ==
    \A i \in 1 .. Len(feed) :
        /\ feed[i].cursor <= host.ever
        /\ feed[i].type = "opened" => i = 1
        /\ Ending(i) => i = Len(feed) /\ host.serving = "no"
                        /\ faults.count[feed[i].type] >= 1

\* The opening frame of the generation has not been taken.
Unopened ==
    host.serving = "asked" \/ (feed # <<>> /\ feed[1].type = "opened")

\* A generation is newer than the one applied exactly until its opening is taken.
GenShape ==
    /\ Consuming /\ Unopened => journal.gen < stream.gen
    /\ Consuming /\ journal.gen < stream.gen =>
         /\ host.serving = "yes" => Unopened
         /\ feed # <<>> => feed[1].type # "entry"

\* An opening frame that is behind what was applied is owed to a lost entry.
OpeningAhead ==
    Consuming /\ feed # <<>> /\ feed[1].type = "opened" /\ faults.count["forget"] = 0
        => journal.last <= feed[1].cursor

\* A carrier loss that was announced but not yet noticed.
EndPending == IF feed # <<>> /\ feed[Len(feed)].type = "end" THEN 1 ELSE 0

\* Every fault is paid for, and every retry answers a loss.
LossesPaid ==
    /\ \A k \in Kind \ {"loss"} : faults.left + faults.count[k] <= MaxFaults
    /\ faults.left + faults.count["loss"] + EndPending <= MaxFaults
    /\ stream.attempt + (IF stream.at = "lost" THEN 1 ELSE 0) <= faults.count["loss"]

\* What the repair keeps, and how far it has come.
RepairShape ==
    /\ journal.phase = "repair" <=> journal.repair.round # 0
    /\ journal.repair.round = 0 => journal.repair = NoRepair
    /\ journal.phase = "repair" =>
          /\ journal.last < journal.repair.through
          /\ \A k \in journal.repair.queued \union {journal.repair.through} : k <= host.ever
          /\ \E m \in journal.repair.queued \union {journal.repair.through} :
                \A k \in journal.repair.queued \union {journal.repair.through} : k <= m

\* The cursor of the last entry that was taken.
Taken == IF journal.phase = "repair" THEN Target(journal.repair) ELSE journal.last

\* Entries left out that the repair has met.
Holes ==
    IF journal.phase = "repair"
    THEN journal.repair.round + (IF Merges(journal.repair) THEN 0 ELSE 1)
    ELSE 0

\* n[i] bounds the entries left out up to the frame i of q: one for each step
\* of two.
Tally(q, limit, n, taken, holes) ==
    /\ holes <= n[0]
    /\ \A i \in 0 .. Len(q) : n[i] <= limit
    /\ \A i \in 1 .. Len(q) :
          LET before == IF i = 1 THEN taken ELSE q[i - 1].cursor
          IN  /\ n[i - 1] <= n[i]
              /\ q[i].type = "entry" =>
                    /\ before <= q[i].cursor /\ q[i].cursor <= before + 2
                    /\ q[i].cursor = before + 2 => n[i - 1] < n[i]

\* The frames of q continue the entries taken, with at most limit left out.
Continues(q, limit, taken, holes) ==
    \E n \in [0 .. Len(q) -> Nat] : Tally(q, limit, n, taken, holes)

\* The cursor the Host has come to.
Reached(q, taken) == IF q = <<>> THEN taken ELSE q[Len(q)].cursor

\* The entries under way continue those taken, but for those left out.
FeedContinues ==
    Consuming => /\ Continues(feed, faults.count["skip"], Taken, Holes)
                 /\ host.serving = "yes" => host.sent = Reached(feed, Taken)

\* The window is the run from firstCursor to currentCursor.
WindowShape ==
    /\ journal.last <= host.ever
    /\ \A r \in Reader : reader[r].before <= host.ever
    /\ ~journal.opened => journal.last = 0 /\ \A r \in Reader : reader[r].at = "idle"
    /\ journal.first = 0 =>
          /\ journal.last = 0 /\ shown.window = <<>>
          /\ \A r \in Reader : reader[r].before = 0
    /\ journal.first # 0 =>
          /\ journal.first <= journal.last
          /\ shown.window = Run(journal.first, journal.last)
    /\ ~shown.more /\ ~shown.cut /\ journal.first # 0 => journal.first = 1

IInv ==
    /\ Typed
    /\ PhaseAt /\ HostCounts /\ ServesAt /\ FramesFit /\ GenShape /\ OpeningAhead
    /\ LossesPaid /\ RepairShape /\ FeedContinues /\ WindowShape
    /\ GivesUpForCause

-----------------------------------------------------------------------------
(* The steps, outcome by outcome: the actions of JournalStream that end in    *)
(* several ways are split, and the frame taken is feed[1].                    *)

TakesFrame(type) ==
    /\ Consuming /\ stream.at = "open"
    /\ feed # <<>> /\ feed[1].type = type
    /\ feed' = Tail(feed)

\* CarrierFailed
CarrierRetries(at, n) ==
    /\ stream.at = "lost"
    /\ n \in {stream.attempt, stream.attempt + 1}
    /\ stream' = [stream EXCEPT !.at = at, !.attempt = n]
    /\ UNCHANGED <<host, feed, available, journal, reader, shown, faults>>

CarrierGivesUp ==
    /\ stream.at = "lost" /\ stream.attempt > 0
    /\ Terminates("carrier")
    /\ UNCHANGED <<available, reader, shown, faults>>

\* TakesOpening
OpeningRefused ==
    /\ TakesFrame("opened")
    /\ journal.opened /\ feed[1].cursor < journal.last
    /\ Rejects("behind")
    /\ UNCHANGED <<host, available, reader, shown, faults>>

OpeningApplied(c, first) ==
    /\ TakesFrame("opened")
    /\ c = feed[1].cursor /\ first = (IF c = 0 THEN 0 ELSE PageStart(c))
    /\ journal.opened => journal.last <= c
    /\ journal' = [journal EXCEPT !.phase = "live", !.gen = stream.gen, !.opened = TRUE,
                                  !.last = c, !.repair = NoRepair, !.first = first]
    /\ stream' = [stream EXCEPT !.accepted = TRUE, !.attempt = 0]
    /\ Publishes(Run(PageStart(c), c), PageStart(c) > 1, FALSE)
    /\ Forgiven
    /\ UNCHANGED <<host, available, reader>>

\* TakesEntry
EntryRepeated ==
    /\ journal.phase = "live" /\ TakesFrame("entry")
    /\ feed[1].cursor <= journal.last
    /\ UNCHANGED <<host, available, stream, journal, reader, shown, faults>>

EntryFollows(k) ==
    /\ journal.phase = "live" /\ TakesFrame("entry")
    /\ k = feed[1].cursor /\ k = journal.last + 1
    /\ journal' = [journal EXCEPT !.last = k, !.first = FirstWith(k)]
    /\ Publishes(Append(shown.window, k), shown.more, shown.cut)
    /\ UNCHANGED <<host, available, stream, reader, faults>>

EntryAhead(k) ==
    /\ journal.phase = "live" /\ TakesFrame("entry")
    /\ k = feed[1].cursor /\ k > journal.last + 1
    /\ journal' = [journal EXCEPT !.phase = "repair",
                                  !.repair = [through |-> k, queued |-> {k}, round |-> 1]]
    /\ UNCHANGED <<host, available, stream, reader, shown, faults>>

\* TakesEnd
EndRetried ==
    /\ TakesFrame("end")
    /\ stream' = [stream EXCEPT !.at = "lost"]
    /\ faults' = [faults EXCEPT !.count["loss"] = @ + 1]
    /\ UNCHANGED <<host, available, journal, reader, shown>>

EndFatal(type) ==
    /\ TakesFrame(type)
    /\ stream' = [stream EXCEPT !.at = "over"]
    /\ journal' = [journal EXCEPT !.phase = "failed", !.cause = type, !.repair = NoRepair]
    /\ UNCHANGED <<host, available, reader, shown, faults>>

\* QueuesEntry
EntryQueued(k) ==
    /\ journal.phase = "repair" /\ TakesFrame("entry")
    /\ k = feed[1].cursor
    /\ journal' = [journal EXCEPT !.repair.queued = @ \union {k}]
    /\ UNCHANGED <<host, available, stream, reader, shown, faults>>

\* PageArrives
PageAwaited ==
    /\ journal.phase = "repair" /\ ~PageAborted
    /\ UNCHANGED <<host, feed, available, reader, faults>>

PageFits(first, last) ==
    /\ PageAwaited /\ Merges(journal.repair)
    /\ first = PageStart(journal.repair.through) /\ last = Target(journal.repair)
    /\ journal' = [journal EXCEPT !.phase = "live", !.repair = NoRepair,
                                  !.first = first, !.last = last]
    /\ Publishes(Run(first, journal.repair.through) \o InOrder(Beyond(journal.repair)),
                 first > 1, FALSE)
    /\ UNCHANGED stream

PageReread(last) ==
    /\ PageAwaited /\ ~Merges(journal.repair) /\ journal.repair.round = 1
    /\ last = Target(journal.repair)
    /\ journal' = [journal EXCEPT !.repair.through = last, !.repair.round = 2]
    /\ UNCHANGED <<stream, shown>>

PageHole ==
    /\ PageAwaited /\ ~Merges(journal.repair) /\ journal.repair.round # 1
    /\ Rejects("hole")
    /\ UNCHANGED shown

\* PrependApplies
PrependAnswered(r) ==
    /\ reader[r].at = "asked" /\ stream.at # "over"
    /\ reader' = [reader EXCEPT ![r] = [at |-> "idle", before |-> 0]]
    /\ UNCHANGED <<host, feed, available, stream, faults>>

PrependMisses(r) ==
    /\ PrependAnswered(r)
    /\ Publishes(shown.window, FALSE, TRUE)
    /\ UNCHANGED journal

PrependEmpty(r) ==
    /\ PrependAnswered(r) /\ OlderEntries(r) = <<>>
    /\ Publishes(shown.window, OlderPage(r) # <<>> /\ OlderPage(r)[1] > 1, OlderPage(r) = <<>>)
    /\ UNCHANGED journal

PrependFits(r, first) ==
    /\ PrependAnswered(r) /\ OlderEntries(r) # <<>>
    /\ journal.first = 0 \/ Tail0(OlderEntries(r)) + 1 = journal.first
    /\ first = OlderEntries(r)[1]
    /\ journal' = [journal EXCEPT !.first = first]
    /\ Publishes(OlderEntries(r) \o shown.window,
                 OlderPage(r) # <<>> /\ OlderPage(r)[1] > 1, OlderPage(r) = <<>>)

Simple ==
    \/ JournalGrows \/ HostOpens \/ HostSends \/ HostSkips \/ HostRepeats
    \/ HostStops("end") \/ HostStops("error") \/ CarrierLost \/ HostForgets
    \/ ConnectionDown \/ ConnectionUp \/ NextGeneration \/ RetryEnds
    \/ PageFails \/ PageOvertaken \/ PageStale \/ Open \/ Restart \/ Dispose
    \/ \E r \in Reader : PrependAsks(r) \/ PrependFails(r)

Split ==
    \/ \E at \in {"start", "wait"}, n \in Nat : CarrierRetries(at, n)
    \/ CarrierGivesUp \/ OpeningRefused \/ \E c, first \in Nat : OpeningApplied(c, first)
    \/ EntryRepeated
    \/ \E k \in Nat : EntryFollows(k) \/ EntryAhead(k) \/ EntryQueued(k) \/ PageReread(k)
    \/ EndRetried \/ EndFatal("end") \/ EndFatal("error")
    \/ PageHole \/ \E first, last \in Nat : PageFits(first, last)
    \/ \E r \in Reader : \/ PrependMisses(r) \/ PrependEmpty(r)
                         \/ \E first \in Nat : PrependFits(r, first)

\* Every step of the specification is one of these.
Step == Simple \/ Split \/ UNCHANGED vars

\* The first frame.
LEMMA HeadTyped ==
  ASSUME feed \in Seq(Frames), feed # <<>>
  PROVE  /\ Head(feed) = feed[1] /\ feed[1] \in Frames /\ feed[1].cursor \in Nat
<1>1. Head(feed) = feed[1] /\ Len(feed) \in Nat /\ Len(feed) >= 1
  OBVIOUS
<1>2. feed[1] \in Frames
  BY <1>1, ElementOfSeq
<1> QED
  BY <1>1, <1>2 DEF Frames

\* Where a page starts.
LEMMA PageStartTyped ==
  ASSUME NEW c \in Nat
  PROVE  /\ PageStart(c) \in Nat /\ 1 <= PageStart(c) /\ PageStart(c) <= c + 1
         /\ c > 0 => PageStart(c) <= c
  BY JournalAssumption DEF JournalAssumption, PageStart

-----------------------------------------------------------------------------
(* Runs of cursors. *)

\* A run is a sequence, by its length and its ends.
LEMMA RunIs ==
  ASSUME NEW lo \in Nat, NEW hi \in Nat, 1 <= lo
  PROVE  /\ Run(lo, hi) \in Seq(Nat)
         /\ lo <= hi + 1 => Len(Run(lo, hi)) = hi + 1 - lo
         /\ hi < lo => Run(lo, hi) = <<>>
         /\ Run(lo, hi) = <<>> => hi < lo
         /\ \A i \in 1 .. hi + 1 - lo : Run(lo, hi)[i] = lo + i - 1
         /\ lo <= hi => Run(lo, hi)[1] = lo /\ Tail0(Run(lo, hi)) = hi
<1>1. CASE hi < lo
  <2>1. 1 .. hi + 1 - lo = {}
    BY <1>1
  <2>2. Run(lo, hi) = <<>>
    BY <2>1 DEF Run
  <2> QED
    BY <1>1, <2>1, <2>2
<1>2. CASE lo <= hi
  <2> DEFINE n == hi + 1 - lo
  <2>1. n \in Nat /\ n >= 1
    BY <1>2
  <2>2. Run(lo, hi) \in [1 .. n -> Nat]
    BY DEF Run
  <2>3. Run(lo, hi) \in Seq(Nat) /\ Len(Run(lo, hi)) = n
    BY <2>1, <2>2
  <2>4. \A i \in 1 .. n : Run(lo, hi)[i] = lo + i - 1
    BY DEF Run
  <2>5. Run(lo, hi) # <<>>
    BY <2>1, <2>3
  <2>6. Run(lo, hi)[1] = lo /\ Run(lo, hi)[n] = hi
    BY <2>1, <2>4
  <2> QED
    BY <1>2, <2>3, <2>4, <2>5, <2>6 DEF Tail0
<1> QED
  BY <1>1, <1>2

\* The next entry makes the run longer.
LEMMA RunGrows ==
  ASSUME NEW lo \in Nat, NEW hi \in Nat, 1 <= lo, lo <= hi + 1
  PROVE  Append(Run(lo, hi), hi + 1) = Run(lo, hi + 1)
<1>1. /\ Append(Run(lo, hi), hi + 1) \in Seq(Nat)
      /\ Run(lo, hi + 1) \in Seq(Nat)
      /\ Len(Append(Run(lo, hi), hi + 1)) = hi + 2 - lo
      /\ Len(Run(lo, hi + 1)) = hi + 2 - lo
  <2>1. Len(Run(lo, hi)) = hi + 1 - lo /\ Run(lo, hi) \in Seq(Nat)
    BY RunIs
  <2>2. hi + 1 \in Nat /\ lo <= hi + 1 + 1
    OBVIOUS
  <2>3. Len(Run(lo, hi + 1)) = hi + 1 + 1 - lo /\ Run(lo, hi + 1) \in Seq(Nat)
    BY <2>2, RunIs
  <2> QED
    BY <2>1, <2>2, <2>3
<1>2. \A i \in 1 .. hi + 2 - lo : Append(Run(lo, hi), hi + 1)[i] = Run(lo, hi + 1)[i]
  <2> SUFFICES ASSUME NEW i \in 1 .. hi + 2 - lo
               PROVE  Append(Run(lo, hi), hi + 1)[i] = Run(lo, hi + 1)[i]
    OBVIOUS
  <2>1. Run(lo, hi) \in Seq(Nat) /\ Len(Run(lo, hi)) = hi + 1 - lo
    BY RunIs
  <2>2. Run(lo, hi + 1)[i] = lo + i - 1
    BY RunIs
  <2>3. i <= hi + 1 - lo => Run(lo, hi)[i] = lo + i - 1
    BY RunIs
  <2> QED
    BY <2>1, <2>2, <2>3
<1> QED
  BY <1>1, <1>2, SeqEqual

\* The first entry alone is a run.
LEMMA RunOne ==
  Append(<<>>, 1) = Run(1, 1)
<1>1. 0 \in Nat /\ 1 \in Nat /\ 1 <= 1 /\ 0 < 1 /\ 0 + 1 = 1 /\ 1 <= 0 + 1
  OBVIOUS
<1>2. Run(1, 0) = <<>>
  BY <1>1, RunIs
<1>3. Append(Run(1, 0), 0 + 1) = Run(1, 0 + 1)
  BY <1>1, RunGrows
<1> QED
  BY <1>1, <1>2, <1>3

\* Two runs that meet are one.
LEMMA RunJoins ==
  ASSUME NEW lo \in Nat, NEW mid \in Nat, NEW hi \in Nat, 1 <= lo, lo <= mid + 1, mid <= hi
  PROVE  Run(lo, mid) \o Run(mid + 1, hi) = Run(lo, hi)
<1> DEFINE a == Run(lo, mid)
           b == Run(mid + 1, hi)
<1>a. a \in Seq(Nat) /\ Len(a) = mid + 1 - lo
  BY RunIs
<1>b. mid + 1 \in Nat /\ 1 <= mid + 1 /\ mid + 1 <= hi + 1
  OBVIOUS
<1>c. b \in Seq(Nat) /\ Len(b) = hi + 1 - (mid + 1)
  BY <1>b, RunIs
<1>d. Run(lo, hi) \in Seq(Nat) /\ Len(Run(lo, hi)) = hi + 1 - lo
  BY RunIs
<1> HIDE DEF a, b
<1>1. a \in Seq(Nat) /\ b \in Seq(Nat) /\ Run(lo, hi) \in Seq(Nat)
  BY <1>a, <1>c, <1>d
<1>2. Len(a) = mid + 1 - lo /\ Len(b) = hi - mid /\ Len(Run(lo, hi)) = hi + 1 - lo
  BY <1>a, <1>c, <1>d
<1> USE DEF a, b
<1>3. \A i \in 1 .. mid + 1 - lo : a[i] = lo + i - 1
  BY RunIs
<1>4. \A i \in 1 .. hi - mid : b[i] = mid + i
  BY RunIs
<1>5. \A i \in 1 .. hi + 1 - lo : Run(lo, hi)[i] = lo + i - 1
  BY RunIs
<1> HIDE DEF a, b
<1>6. a \o b \in Seq(Nat) /\ Len(a \o b) = hi + 1 - lo
  BY <1>1, <1>2
<1>7. \A i \in 1 .. hi + 1 - lo : (a \o b)[i] = lo + i - 1
  <2> SUFFICES ASSUME NEW i \in 1 .. hi + 1 - lo PROVE (a \o b)[i] = lo + i - 1
    OBVIOUS
  <2>1. i \in 1 .. Len(a) + Len(b)
    BY <1>2
  <2>2. (a \o b)[i] = IF i <= Len(a) THEN a[i] ELSE b[i - Len(a)]
    BY <1>1, <2>1, ConcatProperties
  <2> QED
    BY <2>2, <1>2, <1>3, <1>4
<1>8. a \o b = Run(lo, hi)
  BY <1>1, <1>2, <1>5, <1>6, <1>7, SeqEqual
<1> QED
  BY <1>8 DEF a, b

\* An older page starts at a cursor.
LEMMA OlderTyped ==
  ASSUME Typed, NEW r \in Reader
  PROVE  /\ OlderEnd(r) \in Nat
         /\ OlderEntries(r) # <<>> => OlderEntries(r)[1] \in Nat
<1>1. OlderEnd(r) \in Nat
  BY DEF Typed, OlderEnd, Readers, Hosts
<1>2. PageStart(OlderEnd(r)) \in Nat /\ 1 <= PageStart(OlderEnd(r))
  BY <1>1, PageStartTyped
<1>3. \E e \in Nat : OlderEntries(r) = Run(PageStart(OlderEnd(r)), e)
  BY <1>1 DEF OlderEntries, Typed, Journals
<1>4. PICK e \in Nat : OlderEntries(r) = Run(PageStart(OlderEnd(r)), e)
  BY <1>3
<1>5. CASE e < PageStart(OlderEnd(r))
  BY <1>1, <1>2, <1>4, <1>5, RunIs
<1>6. CASE PageStart(OlderEnd(r)) <= e
  <2>1. Run(PageStart(OlderEnd(r)), e)[1] = PageStart(OlderEnd(r))
    BY <1>2, <1>6, RunIs
  <2> QED
    BY <1>1, <1>2, <1>4, <2>1
<1> QED
  BY <1>2, <1>5, <1>6

-----------------------------------------------------------------------------
(* The frames under way. *)

\* The frames, one by one.
LEMMA FrameTyped ==
  ASSUME feed \in Seq(Frames)
  PROVE  /\ Len(feed) \in Nat
         /\ feed = <<>> <=> Len(feed) = 0
         /\ \A i \in 1 .. Len(feed) : feed[i] \in Frames /\ feed[i].cursor \in Nat
<1>1. Len(feed) \in Nat /\ (feed = <<>> <=> Len(feed) = 0)
  OBVIOUS
<1>2. \A i \in 1 .. Len(feed) : feed[i] \in Frames
  BY ElementOfSeq
<1> QED
  BY <1>1, <1>2 DEF Frames

\* What is left when a frame is taken.
LEMMA TailIs ==
  ASSUME feed \in Seq(Frames), feed # <<>>, feed' = Tail(feed)
  PROVE  /\ Len(feed) \in Nat /\ Len(feed) >= 1 /\ Len(feed') = Len(feed) - 1
         /\ \A i \in 1 .. Len(feed) - 1 : feed'[i] = feed[i + 1]
         /\ feed' = <<>> <=> Len(feed) = 1
<1>1. Len(feed) \in Nat /\ Len(feed) >= 1
  OBVIOUS
<1>2. Len(feed') = Len(feed) - 1 /\ \A i \in 1 .. Len(feed') : feed'[i] = feed[i + 1]
  BY HeadTailProperties
<1>3. feed' \in Seq(Frames)
  BY HeadTailProperties
<1>4. feed' = <<>> <=> Len(feed') = 0
  BY <1>3, EmptySeq
<1> QED
  BY <1>1, <1>2, <1>4

\* What is there when a frame is sent.
LEMMA AppendIs ==
  ASSUME NEW f \in Frames, feed \in Seq(Frames), feed' = Append(feed, f)
  PROVE  /\ Len(feed) \in Nat /\ Len(feed') = Len(feed) + 1
         /\ feed' # <<>>
         /\ \A i \in 1 .. Len(feed) : feed'[i] = feed[i]
         /\ feed'[Len(feed) + 1] = f
         /\ feed = <<>> <=> Len(feed) = 0
         /\ feed'[1] = IF feed = <<>> THEN f ELSE feed[1]
<1>1. Len(feed) \in Nat /\ (feed = <<>> <=> Len(feed) = 0)
  OBVIOUS
<1>2. /\ Len(feed') = Len(feed) + 1 /\ feed' # <<>>
      /\ \A i \in 1 .. Len(feed) : feed'[i] = feed[i]
      /\ feed'[Len(feed) + 1] = f
  BY AppendProperties
<1> QED
  BY <1>1, <1>2

-----------------------------------------------------------------------------
(* The fault counts. *)

\* What a fault does to the counts.
LEMMA FaultIs ==
  ASSUME faults \in Tallies, NEW kinds, Fault(kinds)
  PROVE  /\ faults.left > 0 /\ faults'.left = faults.left - 1
         /\ \A k \in Kind : faults'.count[k] = IF k \in kinds THEN faults.count[k] + 1
                                               ELSE faults.count[k]
         /\ \A k \in Kind : faults.count[k] \in Nat
  BY DEF Fault, Tallies

\* No fault but the losses is ever forgotten.
CountsKept ==
    \A k \in Kind \ {"loss"} : /\ faults.count[k] \in Nat /\ faults'.count[k] \in Nat
                               /\ faults.count[k] <= faults'.count[k]

\* The largest cursor the repair knows.
Topmost(m) ==
    /\ m \in journal.repair.queued \union {journal.repair.through}
    /\ \A k \in journal.repair.queued \union {journal.repair.through} : k <= m

\* maxCursor is the largest cursor the repair knows.
LEMMA TargetIs ==
  ASSUME journal \in Journals, journal.phase = "repair", RepairShape
  PROVE  /\ Topmost(Target(journal.repair)) /\ Target(journal.repair) \in Nat
         /\ \A m \in Nat : Topmost(m) => Target(journal.repair) = m
<1> DEFINE Known == journal.repair.queued \union {journal.repair.through}
<1>1. Known \subseteq Nat
  BY DEF Journals, Repairs
<1>2. PICK m \in Known : \A k \in Known : k <= m
  BY DEF RepairShape
<1> HIDE DEF Known
<1>3. Target(journal.repair) = (CHOOSE c \in Known : \A d \in Known : d <= c)
  BY DEF Target, Known
<1>4. Target(journal.repair) \in Known /\ \A d \in Known : d <= Target(journal.repair)
  BY <1>2, <1>3
<1>5. ASSUME NEW n \in Known, \A d \in Known : d <= n PROVE Target(journal.repair) = n
  <2>1. n \in Nat /\ Target(journal.repair) \in Nat
    BY <1>1, <1>4
  <2>2. n <= Target(journal.repair) /\ Target(journal.repair) <= n
    BY <1>4, <1>5
  <2> QED
    BY <2>1, <2>2
<1> QED
  BY <1>1, <1>4, <1>5 DEF Topmost, Known

\* The outcomes are all there is.
LEMMA Steps ==
  ASSUME Typed, RepairShape, [Next]_vars
  PROVE  Step
<1> USE DEF Typed, Takes, TakesFrame
<1>1. CASE CarrierFailed
  <2>1. stream.attempt \in Nat /\ stream.attempt + 1 \in Nat
    BY DEF Streams
  <2>2. CASE stream.revised
    <3>1. CarrierRetries("start", stream.attempt)
      BY <1>1, <2>2 DEF CarrierFailed, CarrierRetries, Streams
    <3> QED
      BY <2>1, <3>1 DEF Step, Split
  <2>3. CASE ~stream.revised /\ ~available
    <3>1. CarrierRetries("wait", stream.attempt + 1)
      BY <1>1, <2>3 DEF CarrierFailed, CarrierRetries
    <3> QED
      BY <2>1, <3>1 DEF Step, Split
  <2>4. CASE ~stream.revised /\ available /\ stream.attempt = 0
    <3>1. CarrierRetries("start", 1)
      BY <1>1, <2>4 DEF CarrierFailed, CarrierRetries
    <3> QED
      BY <3>1 DEF Step, Split
  <2>5. CASE ~stream.revised /\ available /\ stream.attempt > 0
    BY <1>1, <2>5 DEF CarrierFailed, CarrierGivesUp, Step, Split
  <2> QED
    BY <1>1, <2>2, <2>3, <2>4, <2>5 DEF CarrierFailed
<1>2. CASE TakesOpening
  <2> DEFINE c == feed[1].cursor
  <2>1. c = Head(feed).cursor /\ feed[1] = Head(feed) /\ c \in Nat /\ PageStart(c) \in Nat
    BY <1>2, HeadTyped, PageStartTyped DEF TakesOpening
  <2>2. \/ OpeningRefused
        \/ OpeningApplied(c, IF c = 0 THEN 0 ELSE PageStart(c))
    BY <1>2, <2>1 DEF TakesOpening, OpeningRefused, OpeningApplied, Accepts, Journals
  <2>3. (IF c = 0 THEN 0 ELSE PageStart(c)) \in Nat
    BY <2>1
  <2> QED
    BY <2>1, <2>2, <2>3 DEF Step, Split
<1>3. CASE TakesEntry
  <2> DEFINE k == feed[1].cursor
  <2>1. k = Head(feed).cursor /\ feed[1] = Head(feed) /\ k \in Nat
    BY <1>3, HeadTyped DEF TakesEntry
  <2>2. EntryRepeated \/ EntryFollows(k) \/ EntryAhead(k)
    BY <1>3, <2>1 DEF TakesEntry, EntryRepeated, EntryFollows, EntryAhead
  <2> QED
    BY <2>1, <2>2 DEF Step, Split
<1>4. CASE TakesEnd
  <2>1. feed[1] = Head(feed)
    BY <1>4, HeadTyped DEF TakesEnd
  <2> QED
    BY <1>4, <2>1 DEF TakesEnd, EndRetried, EndFatal, Step, Split
<1>5. CASE TakesError
  <2>1. feed[1] = Head(feed)
    BY <1>5, HeadTyped DEF TakesError
  <2> QED
    BY <1>5, <2>1 DEF TakesError, EndFatal, Step, Split
<1>6. CASE QueuesEntry
  <2> DEFINE k == feed[1].cursor
  <2>1. k = Head(feed).cursor /\ feed[1] = Head(feed) /\ k \in Nat
    BY <1>6, HeadTyped DEF QueuesEntry
  <2>2. EntryQueued(k)
    BY <1>6, <2>1 DEF QueuesEntry, EntryQueued
  <2> QED
    BY <2>1, <2>2 DEF Step, Split
<1>7. CASE PageArrives
  <2> DEFINE last  == Target(journal.repair)
             first == PageStart(journal.repair.through)
  <2>1. last \in Nat /\ first \in Nat
    BY <1>7, TargetIs, PageStartTyped DEF PageArrives, Journals, Repairs
  <2>2. journal.repair.round + 1 = 2 \/ journal.repair.round # 1
    OBVIOUS
  <2>3. PageFits(first, last) \/ PageReread(last) \/ PageHole
    BY <1>7, <2>2 DEF PageArrives, PageFits, PageReread, PageHole, PageAwaited, MayReread,
          Publishes, Journals, Repairs
  <2> QED
    BY <2>1, <2>3 DEF Step, Split
<1>8. ASSUME NEW r \in Reader, PrependApplies(r) PROVE Step
  <2>1. \/ PrependMisses(r) \/ PrependEmpty(r)
        \/ OlderEntries(r) # <<>> /\ PrependFits(r, OlderEntries(r)[1])
    <3>1. PrependAnswered(r)
      BY <1>8 DEF PrependApplies, PrependAnswered
    <3>2. CASE OlderEntries(r) = <<>>
      <4>1. journal' = journal
        BY <1>8, <3>2 DEF PrependApplies, Journals
      <4> QED
        BY <1>8, <3>1, <3>2, <4>1 DEF PrependApplies, PrependEmpty, Publishes
    <3>3. CASE OlderEntries(r) # <<>>
      BY <1>8, <3>1, <3>3 DEF PrependApplies, PrependMisses, PrependFits
    <3> QED
      BY <3>2, <3>3
  <2>2. OlderEntries(r) # <<>> => OlderEntries(r)[1] \in Nat
    BY OlderTyped
  <2> QED
    BY <2>1, <2>2 DEF Step, Split
<1>9. CASE Simple \/ UNCHANGED vars
  BY <1>9 DEF Step
<1> QED
  BY <1>1, <1>2, <1>3, <1>4, <1>5, <1>6, <1>7, <1>8, <1>9 DEF Next, Simple, HostFaults,
     Generator, Consumer, Page, Callers

\* A sequence of more than one element has a second one.
LEMMA SecondIndex ==
  ASSUME NEW n \in Nat, n >= 1, n # 1
  PROVE  1 \in 1 .. n - 1 /\ 2 \in 1 .. n
OBVIOUS

-----------------------------------------------------------------------------
(* The entries left out. *)

\* What a tally says of the first frame and of the holes.
LEMMA ContinuesMeans ==
  ASSUME NEW q \in Seq(Frames), NEW limit \in Nat, NEW taken \in Nat, NEW holes \in Nat,
         Continues(q, limit, taken, holes)
  PROVE  /\ holes <= limit
         /\ q # <<>> /\ q[1].type = "entry" =>
              taken <= q[1].cursor /\ q[1].cursor <= taken + 2
<1>1. PICK n \in [0 .. Len(q) -> Nat] : Tally(q, limit, n, taken, holes)
  BY DEF Continues
<1>2. Len(q) \in Nat /\ (q # <<>> => Len(q) >= 1)
  OBVIOUS
<1>3. 0 \in 0 .. Len(q) /\ (q # <<>> => 1 \in 1 .. Len(q))
  BY <1>2
<1>4. n[0] \in Nat /\ holes <= n[0] /\ n[0] <= limit
  BY <1>1, <1>3 DEF Tally
<1> QED
  BY <1>1, <1>3, <1>4 DEF Tally

\* Nothing is under way.
LEMMA ContinuesEmpty ==
  ASSUME NEW limit \in Nat, NEW taken \in Nat, NEW holes \in Nat, holes <= limit
  PROVE  Continues(<<>>, limit, taken, holes)
<1> DEFINE n == [i \in 0 .. 0 |-> limit]
<1>1. n \in [0 .. Len(<<>>) -> Nat]
  OBVIOUS
<1>2. Tally(<<>>, limit, n, taken, holes)
  BY DEF Tally
<1> QED
  BY <1>1, <1>2 DEF Continues

\* The same frames, with more allowed or less required.
LEMMA ContinuesKept ==
  ASSUME NEW q \in Seq(Frames), NEW limit \in Nat, NEW taken \in Nat, NEW holes \in Nat,
         Continues(q, limit, taken, holes),
         NEW more \in Nat, NEW other \in Nat, NEW fewer \in Nat,
         limit <= more, fewer <= holes,
         other = taken \/ q = <<>> \/ q[1].type # "entry"
  PROVE  Continues(q, more, other, fewer)
<1>1. PICK n \in [0 .. Len(q) -> Nat] : Tally(q, limit, n, taken, holes)
  BY DEF Continues
<1>2. Len(q) \in Nat /\ (q = <<>> => Len(q) = 0)
  OBVIOUS
<1>3. n[0] \in Nat /\ fewer <= n[0]
  BY <1>1, <1>2 DEF Tally
<1>4. \A i \in 0 .. Len(q) : n[i] \in Nat /\ n[i] <= more
  BY <1>1, <1>2 DEF Tally
<1>5. ASSUME NEW i \in 1 .. Len(q)
      PROVE  LET before == IF i = 1 THEN other ELSE q[i - 1].cursor
             IN  /\ n[i - 1] <= n[i]
                 /\ q[i].type = "entry" =>
                       /\ before <= q[i].cursor /\ q[i].cursor <= before + 2
                       /\ q[i].cursor = before + 2 => n[i - 1] < n[i]
  BY <1>1, <1>2 DEF Tally
<1> QED
  BY <1>3, <1>4, <1>5 DEF Continues, Tally

\* One more frame is sent.
LEMMA ContinuesSent ==
  ASSUME NEW q \in Seq(Frames), NEW limit \in Nat, NEW taken \in Nat, NEW holes \in Nat,
         Continues(q, limit, taken, holes),
         NEW f \in Frames, NEW more \in Nat, limit <= more,
         f.type = "entry" =>
             /\ Reached(q, taken) <= f.cursor /\ f.cursor <= Reached(q, taken) + 2
             /\ f.cursor = Reached(q, taken) + 2 => limit < more
  PROVE  Continues(Append(q, f), more, taken, holes)
<1>1. PICK n \in [0 .. Len(q) -> Nat] : Tally(q, limit, n, taken, holes)
  BY DEF Continues
<1> DEFINE a == Append(q, f)
           m == [i \in 0 .. Len(q) + 1 |-> IF i = Len(q) + 1 THEN more ELSE n[i]]
<1>2. /\ Len(q) \in Nat /\ Len(a) = Len(q) + 1 /\ (q = <<>> <=> Len(q) = 0)
      /\ a[Len(q) + 1] = f /\ \A i \in 1 .. Len(q) : a[i] = q[i]
  OBVIOUS
<1>3. m \in [0 .. Len(a) -> Nat]
  <2>1. \A i \in 0 .. Len(q) + 1 : (IF i = Len(q) + 1 THEN more ELSE n[i]) \in Nat
    BY <1>2
  <2> QED
    BY <1>2, <2>1
<1>4. m[Len(q) + 1] = more /\ \A i \in 0 .. Len(q) : m[i] = n[i]
  BY <1>2
<1> HIDE DEF a, m
<1>5. holes <= m[0] /\ \A i \in 0 .. Len(a) : m[i] <= more
  <2>1. \A i \in 0 .. Len(q) : n[i] \in Nat /\ n[i] <= limit /\ n[i] <= more
    BY <1>1, <1>2 DEF Tally
  <2>2. holes <= m[0]
    BY <1>1, <1>2, <1>4 DEF Tally
  <2>3. ASSUME NEW i \in 0 .. Len(a) PROVE m[i] <= more
    BY <1>2, <1>4, <2>1
  <2> QED
    BY <2>2, <2>3
<1>6. ASSUME NEW i \in 1 .. Len(a)
      PROVE  LET before == IF i = 1 THEN taken ELSE a[i - 1].cursor
             IN  /\ m[i - 1] <= m[i]
                 /\ a[i].type = "entry" =>
                       /\ before <= a[i].cursor /\ a[i].cursor <= before + 2
                       /\ a[i].cursor = before + 2 => m[i - 1] < m[i]
  <2>1. CASE i \in 1 .. Len(q)
    <3>1. m[i - 1] = n[i - 1] /\ m[i] = n[i] /\ a[i] = q[i] /\ (i # 1 => a[i - 1] = q[i - 1])
      BY <1>2, <1>4, <2>1
    <3> QED
      BY <1>1, <2>1, <3>1 DEF Tally
  <2>2. CASE i = Len(q) + 1
    <3>1. m[i] = more /\ m[i - 1] = n[Len(q)] /\ a[i] = f
      BY <1>2, <1>4, <2>2
    <3>2. n[Len(q)] \in Nat /\ n[Len(q)] <= limit
      BY <1>1, <1>2 DEF Tally
    <3>3. (IF i = 1 THEN taken ELSE a[i - 1].cursor) = Reached(q, taken)
      BY <1>2, <2>2 DEF Reached
    <3> QED
      BY <3>1, <3>2, <3>3
  <2> QED
    BY <1>2, <2>1, <2>2
<1>7. Tally(a, more, m, taken, holes)
  BY <1>5, <1>6 DEF Tally
<1> QED
  BY <1>3, <1>7 DEF Continues, a

\* The first frame is taken.
LEMMA ContinuesTaken ==
  ASSUME NEW q \in Seq(Frames), NEW limit \in Nat, NEW taken \in Nat, NEW holes \in Nat,
         Continues(q, limit, taken, holes), q # <<>>,
         NEW found \in Nat, NEW more \in Nat, limit <= more,
         \/ found <= holes
         \/ found <= holes + 1 /\ q[1].type = "entry" /\ q[1].cursor = taken + 2
  PROVE  Continues(Tail(q), more, q[1].cursor, found)
<1>1. PICK n \in [0 .. Len(q) -> Nat] : Tally(q, limit, n, taken, holes)
  BY DEF Continues
<1> DEFINE a == Tail(q)
           m == [i \in 0 .. Len(q) - 1 |-> n[i + 1]]
<1>2. /\ Len(q) \in Nat /\ Len(q) >= 1 /\ Len(a) = Len(q) - 1
      /\ \A i \in 1 .. Len(q) - 1 : a[i] = q[i + 1]
  BY HeadTailProperties
<1>3. m \in [0 .. Len(a) -> Nat]
  <2>1. \A i \in 0 .. Len(q) - 1 : n[i + 1] \in Nat
    BY <1>2
  <2> QED
    BY <1>2, <2>1
<1>4. \A i \in 0 .. Len(q) - 1 : m[i] = n[i + 1]
  BY <1>2
<1> HIDE DEF a, m
<1>5. found <= m[0]
  <2>1. 1 \in 1 .. Len(q) /\ 0 \in 0 .. Len(q) /\ 1 \in 0 .. Len(q) /\ 0 \in 0 .. Len(q) - 1
    BY <1>2
  <2>2. n[0] \in Nat /\ n[1] \in Nat /\ holes <= n[0] /\ n[1 - 1] <= n[1]
    BY <1>1, <2>1 DEF Tally
  <2>3. q[1].type = "entry" /\ q[1].cursor = taken + 2 => n[1 - 1] < n[1]
    BY <1>1, <2>1 DEF Tally
  <2>4. m[0] = n[1] /\ 1 - 1 = 0
    BY <1>4, <2>1
  <2> QED
    BY <2>2, <2>3, <2>4
<1>6. ASSUME NEW i \in 0 .. Len(a) PROVE m[i] <= more
  <2>1. i + 1 \in 0 .. Len(q) /\ m[i] = n[i + 1]
    BY <1>2, <1>4
  <2>2. n[i + 1] \in Nat /\ n[i + 1] <= limit
    BY <1>1, <2>1 DEF Tally
  <2> QED
    BY <2>1, <2>2
<1>7. ASSUME NEW i \in 1 .. Len(a)
      PROVE  LET before == IF i = 1 THEN q[1].cursor ELSE a[i - 1].cursor
             IN  /\ m[i - 1] <= m[i]
                 /\ a[i].type = "entry" =>
                       /\ before <= a[i].cursor /\ a[i].cursor <= before + 2
                       /\ a[i].cursor = before + 2 => m[i - 1] < m[i]
  <2>1. /\ i + 1 \in 1 .. Len(q) /\ i + 1 # 1 /\ (i + 1) - 1 = i
        /\ i \in 0 .. Len(q) - 1 /\ i - 1 \in 0 .. Len(q) - 1 /\ (i - 1) + 1 = i
    BY <1>2
  <2>2. m[i] = n[i + 1] /\ m[i - 1] = n[i] /\ a[i] = q[i + 1]
    BY <1>2, <1>4, <2>1
  <2>3. (IF i = 1 THEN q[1].cursor ELSE a[i - 1].cursor) = q[i].cursor
    <3>1. CASE i = 1
      BY <3>1
    <3>2. CASE i # 1
      <4>1. i - 1 \in 1 .. Len(q) - 1
        BY <1>2, <3>2
      <4> QED
        BY <1>2, <2>1, <3>2, <4>1
    <3> QED
      BY <3>1, <3>2
  <2>4. /\ n[i] <= n[i + 1]
        /\ q[i + 1].type = "entry" =>
              /\ q[i].cursor <= q[i + 1].cursor /\ q[i + 1].cursor <= q[i].cursor + 2
              /\ q[i + 1].cursor = q[i].cursor + 2 => n[i] < n[i + 1]
    BY <1>1, <2>1 DEF Tally
  <2> QED
    BY <2>2, <2>3, <2>4
<1>8. Tally(a, more, m, q[1].cursor, found)
  BY <1>5, <1>6, <1>7 DEF Tally
<1> QED
  BY <1>3, <1>8 DEF Continues, a

-----------------------------------------------------------------------------
(* The window. *)

\* The cardinality of a run of numbers, which FiniteSetTheorems has for
\* intervals that are not empty.
LEMMA IntervalCard ==
  ASSUME NEW lo \in Nat, NEW hi \in Nat, lo <= hi + 1
  PROVE  Cardinality(lo .. hi) = hi + 1 - lo
<1>1. Cardinality(lo .. hi) = IF lo > hi THEN 0 ELSE hi - lo + 1
  BY FS_Interval
<1> QED
  BY <1>1

\* The cursors of an interval, in order, are the run.
LEMMA InOrderIs ==
  ASSUME NEW lo \in Nat, NEW hi \in Nat, lo <= hi + 1
  PROVE  InOrder(lo .. hi) = Run(lo, hi)
<1>1. Cardinality(lo .. hi) = hi + 1 - lo
  BY IntervalCard
<1>2. ASSUME NEW i \in 1 .. hi + 1 - lo
      PROVE  (CHOOSE k \in lo .. hi : Cardinality({j \in lo .. hi : j <= k}) = i) = lo + i - 1
  <2>1. ASSUME NEW k \in lo .. hi PROVE Cardinality({j \in lo .. hi : j <= k}) = k + 1 - lo
    <3>1. {j \in lo .. hi : j <= k} = lo .. k
      OBVIOUS
    <3>2. k \in Nat /\ lo <= k + 1
      OBVIOUS
    <3>3. Cardinality(lo .. k) = k + 1 - lo
      BY <3>2, IntervalCard
    <3> QED
      BY <3>1, <3>3
  <2>2. lo + i - 1 \in lo .. hi
    OBVIOUS
  <2>3. \A k \in lo .. hi : Cardinality({j \in lo .. hi : j <= k}) = i <=> k = lo + i - 1
    BY <2>1
  <2> QED
    BY <2>2, <2>3
<1> QED
  BY <1>1, <1>2 DEF InOrder, Run

\* What a page that fits is merged into.
Merged(first, last) ==
    Run(first, journal.repair.through) \o InOrder(Beyond(journal.repair)) = Run(first, last)

\* What a page that fits shows.
LEMMA PageMerged ==
  ASSUME journal \in Journals, host \in Hosts, RepairShape,
         NEW first \in Nat, NEW last \in Nat, PageFits(first, last)
  PROVE  /\ Merged(first, last) /\ journal.repair.through \in Nat
         /\ 1 <= first /\ first <= last /\ last <= host.ever /\ journal.last < last
<1> DEFINE through == journal.repair.through
<1>1. /\ journal.phase = "repair" /\ Merges(journal.repair)
      /\ first = PageStart(through) /\ last = Target(journal.repair)
  BY DEF PageFits, PageAwaited
<1>2. /\ journal.repair.queued \subseteq Nat /\ through \in Nat /\ journal.last \in Nat
      /\ host.ever \in Nat
  BY DEF Journals, Repairs, Hosts
<1>3. Topmost(last)
  BY <1>1, TargetIs
<1>4. journal.last < through /\ through <= last
  BY <1>1, <1>3 DEF Topmost, RepairShape
<1>5. last <= host.ever
  BY <1>1, <1>3 DEF Topmost, RepairShape
<1>6. 1 <= first /\ first <= through
  BY <1>1, <1>2, <1>4, PageStartTyped
<1>7. Beyond(journal.repair) = (through + 1) .. last
  <2>1. (through + 1) .. last \subseteq Beyond(journal.repair)
    BY <1>1 DEF Merges
  <2>2. ASSUME NEW k \in Beyond(journal.repair) PROVE k \in (through + 1) .. last
    <3>1. k \in journal.repair.queued /\ k > through /\ k \in Nat
      BY <1>2 DEF Beyond
    <3>2. k <= last
      BY <1>3, <3>1 DEF Topmost
    <3> QED
      BY <1>2, <3>1, <3>2
  <2> QED
    BY <2>1, <2>2
<1>8. InOrder((through + 1) .. last) = Run(through + 1, last)
  BY <1>2, <1>4, InOrderIs
<1>9. Run(first, through) \o Run(through + 1, last) = Run(first, last)
  <2>1. first <= through + 1 /\ through \in Nat
    BY <1>2, <1>6
  <2> QED
    BY <1>4, <1>6, <2>1, RunJoins
<1> QED
  BY <1>2, <1>4, <1>5, <1>6, <1>7, <1>8, <1>9 DEF Merged

\* What a page before the window holds.
LEMMA OlderIs ==
  ASSUME host \in Hosts, journal \in Journals, reader \in Readers, NEW r \in Reader
  PROVE  /\ OlderEntries(r) \in Seq(Nat)
         /\ reader[r].before = 0 => OlderEntries(r) = <<>>
         /\ OlderEntries(r) = <<>> /\ OlderPage(r) # <<>> /\ ~(OlderPage(r)[1] > 1)
              => journal.first \in {0, 1}
         /\ OlderEntries(r) # <<>> /\ Tail0(OlderEntries(r)) + 1 = journal.first =>
              /\ OlderEntries(r)[1] \in Nat /\ 1 <= OlderEntries(r)[1]
              /\ OlderEntries(r)[1] < journal.first
              /\ OlderEntries(r) = Run(OlderEntries(r)[1], journal.first - 1)
              /\ OlderPage(r) # <<>>
              /\ ~(OlderPage(r)[1] > 1) => OlderEntries(r)[1] = 1
<1> DEFINE end   == OlderEnd(r)
           start == PageStart(end)
           cut   == IF journal.first \in 1 .. end THEN journal.first - 1 ELSE end
<1>1. end \in Nat /\ (reader[r].before = 0 => end = 0)
  BY DEF OlderEnd, Readers, Hosts
<1>2. start \in Nat /\ 1 <= start /\ start <= end + 1 /\ (end > 0 => start <= end)
  BY <1>1, PageStartTyped
<1>3. OlderEntries(r) = Run(start, cut) /\ OlderPage(r) = Run(start, end)
  BY DEF OlderEntries, OlderPage
<1>4. journal.first \in Nat
  BY DEF Journals
<1> HIDE DEF end, start
<1>5. cut \in Nat /\ cut <= end /\ (journal.first \in 1 .. end => cut = journal.first - 1)
  BY <1>1, <1>4
<1>6. journal.first \notin 1 .. end => cut = end
  OBVIOUS
<1> HIDE DEF cut
<1>7. OlderEntries(r) \in Seq(Nat) /\ (OlderEntries(r) = <<>> <=> cut < start)
  BY <1>1, <1>2, <1>3, <1>5, RunIs
<1>8. OlderPage(r) = <<>> <=> end < start
  BY <1>1, <1>2, <1>3, RunIs
<1>9. start <= cut => OlderEntries(r)[1] = start /\ Tail0(OlderEntries(r)) = cut
  <2>1. start <= cut => Run(start, cut)[1] = start /\ Tail0(Run(start, cut)) = cut
    BY <1>2, <1>5, RunIs
  <2> QED
    BY <1>3, <2>1
<1>10. start <= end => OlderPage(r)[1] = start
  <2>1. start <= end => Run(start, end)[1] = start
    BY <1>1, <1>2, RunIs
  <2> QED
    BY <1>3, <2>1
<1>11. reader[r].before = 0 => OlderEntries(r) = <<>>
  BY <1>1, <1>2, <1>5, <1>7
<1>12. ASSUME OlderEntries(r) = <<>>, OlderPage(r) # <<>>, ~(OlderPage(r)[1] > 1)
       PROVE  journal.first \in {0, 1}
  <2>1. cut < start /\ start <= end /\ start = 1
    BY <1>1, <1>2, <1>5, <1>7, <1>8, <1>10, <1>12
  <2>2. journal.first \in 1 .. end
    BY <1>1, <1>6, <2>1
  <2> QED
    BY <1>4, <1>5, <2>1, <2>2
<1>13. ASSUME OlderEntries(r) # <<>>, Tail0(OlderEntries(r)) + 1 = journal.first
       PROVE  /\ OlderEntries(r)[1] \in Nat /\ 1 <= OlderEntries(r)[1]
              /\ OlderEntries(r)[1] < journal.first
              /\ OlderEntries(r) = Run(OlderEntries(r)[1], journal.first - 1)
              /\ OlderPage(r) # <<>>
              /\ ~(OlderPage(r)[1] > 1) => OlderEntries(r)[1] = 1
  <2>1. start <= cut
    BY <1>2, <1>5, <1>7, <1>13
  <2>2. OlderEntries(r)[1] = start /\ cut = journal.first - 1
    BY <1>4, <1>5, <1>9, <1>13, <2>1
  <2>3. start <= end
    BY <1>1, <1>2, <1>5, <2>1
  <2> QED
    BY <1>1, <1>2, <1>3, <1>4, <1>5, <1>8, <1>10, <2>1, <2>2, <2>3
<1> QED
  BY <1>7, <1>11, <1>12, <1>13

\* A prepend call comes back.
IdleReader(r) == reader' = [reader EXCEPT ![r] = [at |-> "idle", before |-> 0]]

\* What a prepend call leaves behind.
LEMMA IdleReaderIs ==
  ASSUME reader \in Readers, NEW r \in Reader, IdleReader(r)
  PROVE  \A s \in Reader : /\ reader'[s].at = IF s = r THEN "idle" ELSE reader[s].at
                           /\ reader'[s].before = IF s = r THEN 0 ELSE reader[s].before
  BY DEF IdleReader, Readers

\* The domains are kept, variable by variable: the Host.
LEMMA HostTyped ==
  ASSUME host \in Hosts, feed \in Seq(Frames), Step
  PROVE  host' \in Hosts
<1> USE DEF Hosts
<1>a. host.len + 1 \in Nat /\ host.sent + 1 \in Nat /\ host.sent + 2 \in Nat
  OBVIOUS
<1>b. host.len > 0 => host.len - 1 \in Nat
  OBVIOUS
<1>1. CASE UNCHANGED vars \/ ConnectionDown \/ ConnectionUp \/ RetryEnds
            \/ PageFails \/ PageOvertaken \/ PageStale \/ Open
            \/ (\E r \in Reader : PrependAsks(r))
            \/ (\E r \in Reader : PrependFails(r))
            \/ (\E at \in {"start", "wait"}, n \in Nat : CarrierRetries(at, n))
            \/ OpeningRefused
            \/ (\E c \in Nat, first \in Nat : OpeningApplied(c, first))
            \/ EntryRepeated \/ (\E k \in Nat : EntryFollows(k))
            \/ (\E k \in Nat : EntryAhead(k))
            \/ (\E k \in Nat : EntryQueued(k))
            \/ (\E k \in Nat : PageReread(k)) \/ EndRetried \/ EndFatal("end")
            \/ EndFatal("error") \/ PageHole
            \/ (\E first \in Nat, last \in Nat : PageFits(first, last))
            \/ (\E r \in Reader : PrependMisses(r))
            \/ (\E r \in Reader : PrependEmpty(r))
            \/ (\E r \in Reader, first \in Nat : PrependFits(r, first))
  <2>1. UNCHANGED <<host>>
    BY <1>1 DEF vars, ConnectionDown, ConnectionUp, RetryEnds, PageFails,
       PageOvertaken, PageStale, Open, PrependAsks, PrependFails,
       CarrierRetries, OpeningRefused, OpeningApplied, EntryRepeated,
       EntryFollows, EntryAhead, EntryQueued, PageReread, PageAwaited,
       EndRetried, EndFatal, PageHole, PageFits, PrependMisses,
       PrependAnswered, PrependEmpty, PrependFits
  <2> QED
    BY <2>1
<1>2. CASE JournalGrows
  BY <1>2, <1>a, <1>b
     DEF JournalGrows, Max2
<1>3. CASE HostOpens
  BY <1>3, <1>a, <1>b
     DEF HostOpens
<1>4. CASE HostSends
  BY <1>4, <1>a, <1>b
     DEF HostSends, Sends
<1>5. CASE HostSkips
  BY <1>5, <1>a, <1>b
     DEF HostSkips, Sends, Fault
<1>6. CASE HostRepeats
  BY <1>6, <1>a, <1>b
     DEF HostRepeats, Sends, Fault
<1>7. CASE HostStops("end")
  BY <1>7, <1>a, <1>b
     DEF HostStops, Fault
<1>8. CASE HostStops("error")
  BY <1>8, <1>a, <1>b
     DEF HostStops, Fault
<1>9. CASE CarrierLost
  BY <1>9, <1>a, <1>b
     DEF CarrierLost, Fault, Unplugged
<1>10. CASE HostForgets
  BY <1>10, <1>a, <1>b
     DEF HostForgets, Fault, Unplugged
<1>11. CASE NextGeneration
  BY <1>11, <1>a, <1>b
     DEF NextGeneration, Forgiven
<1>12. CASE Restart
  BY <1>12, <1>a, <1>b
     DEF Restart, Fault
<1>13. CASE Dispose
  BY <1>13, <1>a, <1>b
     DEF Dispose, Fault
<1>14. CASE CarrierGivesUp
  BY <1>14, <1>a, <1>b
     DEF CarrierGivesUp, Terminates
<1> QED
  BY <1>1, <1>2, <1>3, <1>4, <1>5, <1>6, <1>7, <1>8, <1>9, <1>10, <1>11, <1>12,
     <1>13, <1>14
     DEF Step, Simple, Split

\* The feed stays a sequence of frames.
LEMMA FeedTyped ==
  ASSUME feed \in Seq(Frames), host \in Hosts, Step
  PROVE  feed' \in Seq(Frames)
<1> USE DEF Frames, Hosts
<1>1. CASE UNCHANGED vars \/ JournalGrows \/ ConnectionDown \/ ConnectionUp
            \/ RetryEnds \/ PageFails \/ PageOvertaken \/ PageStale \/ Open
            \/ (\E r \in Reader : PrependAsks(r))
            \/ (\E r \in Reader : PrependFails(r))
            \/ (\E at \in {"start", "wait"}, n \in Nat : CarrierRetries(at, n))
            \/ (\E k \in Nat : PageReread(k)) \/ PageHole
            \/ (\E first \in Nat, last \in Nat : PageFits(first, last))
            \/ (\E r \in Reader : PrependMisses(r))
            \/ (\E r \in Reader : PrependEmpty(r))
            \/ (\E r \in Reader, first \in Nat : PrependFits(r, first))
  <2>1. UNCHANGED <<feed>>
    BY <1>1 DEF vars, JournalGrows, ConnectionDown, ConnectionUp, RetryEnds,
       PageFails, PageOvertaken, PageStale, Open, PrependAsks, PrependFails,
       CarrierRetries, PageReread, PageAwaited, PageHole, PageFits,
       PrependMisses, PrependAnswered, PrependEmpty, PrependFits
  <2> QED
    BY <2>1
<1>2. CASE HostOpens
  BY <1>2 DEF HostOpens
<1>3. CASE HostSends
  BY <1>3 DEF HostSends, Sends
<1>4. CASE HostSkips
  BY <1>4 DEF HostSkips, Sends, Fault
<1>5. CASE HostRepeats
  BY <1>5 DEF HostRepeats, Sends, Fault
<1>6. CASE HostStops("end")
  BY <1>6 DEF HostStops, Fault
<1>7. CASE HostStops("error")
  BY <1>7 DEF HostStops, Fault
<1>8. CASE CarrierLost
  BY <1>8 DEF CarrierLost, Fault, Unplugged
<1>9. CASE HostForgets
  BY <1>9 DEF HostForgets, Fault, Unplugged
<1>10. CASE NextGeneration
  BY <1>10 DEF NextGeneration, Forgiven
<1>11. CASE Restart
  BY <1>11 DEF Restart, Fault
<1>12. CASE Dispose
  BY <1>12 DEF Dispose, Fault
<1>13. CASE CarrierGivesUp
  BY <1>13 DEF CarrierGivesUp, Terminates
<1>14. CASE OpeningRefused
  BY <1>14 DEF OpeningRefused, TakesFrame, Rejects
<1>15. ASSUME NEW c \in Nat, NEW first \in Nat, OpeningApplied(c, first)
       PROVE  feed' \in Seq(Frames)
  BY <1>15 DEF OpeningApplied, TakesFrame, Publishes, Forgiven
<1>16. CASE EntryRepeated
  BY <1>16 DEF EntryRepeated, TakesFrame
<1>17. ASSUME NEW k \in Nat, EntryFollows(k)
       PROVE  feed' \in Seq(Frames)
  BY <1>17 DEF EntryFollows, TakesFrame, FirstWith, Publishes
<1>18. ASSUME NEW k \in Nat, EntryAhead(k)
       PROVE  feed' \in Seq(Frames)
  BY <1>18 DEF EntryAhead, TakesFrame
<1>19. ASSUME NEW k \in Nat, EntryQueued(k)
       PROVE  feed' \in Seq(Frames)
  BY <1>19 DEF EntryQueued, TakesFrame
<1>20. CASE EndRetried
  BY <1>20 DEF EndRetried, TakesFrame
<1>21. CASE EndFatal("end")
  BY <1>21 DEF EndFatal, TakesFrame
<1>22. CASE EndFatal("error")
  BY <1>22 DEF EndFatal, TakesFrame
<1> QED
  BY <1>1, <1>2, <1>3, <1>4, <1>5, <1>6, <1>7, <1>8, <1>9, <1>10, <1>11, <1>12,
     <1>13, <1>14, <1>15, <1>16, <1>17, <1>18, <1>19, <1>20, <1>21, <1>22
     DEF Step, Simple, Split

\* The availability stays a Boolean.
LEMMA AvailableTyped ==
  ASSUME available \in BOOLEAN, Step
  PROVE  available' \in BOOLEAN
<1>1. CASE UNCHANGED vars \/ JournalGrows \/ HostOpens \/ HostSends
            \/ HostSkips \/ HostRepeats \/ HostStops("end")
            \/ HostStops("error") \/ CarrierLost \/ HostForgets
            \/ NextGeneration \/ RetryEnds \/ PageFails \/ PageOvertaken
            \/ PageStale \/ Open \/ Restart \/ Dispose
            \/ (\E r \in Reader : PrependAsks(r))
            \/ (\E r \in Reader : PrependFails(r))
            \/ (\E at \in {"start", "wait"}, n \in Nat : CarrierRetries(at, n))
            \/ CarrierGivesUp \/ OpeningRefused
            \/ (\E c \in Nat, first \in Nat : OpeningApplied(c, first))
            \/ EntryRepeated \/ (\E k \in Nat : EntryFollows(k))
            \/ (\E k \in Nat : EntryAhead(k))
            \/ (\E k \in Nat : EntryQueued(k))
            \/ (\E k \in Nat : PageReread(k)) \/ EndRetried \/ EndFatal("end")
            \/ EndFatal("error") \/ PageHole
            \/ (\E first \in Nat, last \in Nat : PageFits(first, last))
            \/ (\E r \in Reader : PrependMisses(r))
            \/ (\E r \in Reader : PrependEmpty(r))
            \/ (\E r \in Reader, first \in Nat : PrependFits(r, first))
  <2>1. UNCHANGED <<available>>
    BY <1>1 DEF vars, JournalGrows, HostOpens, HostSends, Sends, HostSkips,
       HostRepeats, HostStops, CarrierLost, HostForgets, NextGeneration,
       RetryEnds, PageFails, PageOvertaken, PageStale, Open, Restart, Dispose,
       PrependAsks, PrependFails, CarrierRetries, CarrierGivesUp,
       OpeningRefused, OpeningApplied, EntryRepeated, EntryFollows, EntryAhead,
       EntryQueued, PageReread, PageAwaited, EndRetried, EndFatal, PageHole,
       PageFits, PrependMisses, PrependAnswered, PrependEmpty, PrependFits
  <2> QED
    BY <2>1
<1>2. CASE ConnectionDown
  BY <1>2 DEF ConnectionDown, Fault
<1>3. CASE ConnectionUp
  BY <1>3 DEF ConnectionUp
<1> QED
  BY <1>1, <1>2, <1>3
     DEF Step, Simple, Split

\* The generator stays in its states.
LEMMA StreamTyped ==
  ASSUME stream \in Streams, Step
  PROVE  stream' \in Streams
<1> USE DEF Streams
<1>a. stream.gen + 1 \in Nat /\ stream.attempt + 1 \in Nat
  OBVIOUS
<1>1. CASE UNCHANGED vars \/ JournalGrows \/ HostOpens \/ HostSends
            \/ HostSkips \/ HostRepeats \/ HostStops("end")
            \/ HostStops("error") \/ ConnectionDown \/ ConnectionUp
            \/ PageStale \/ (\E r \in Reader : PrependAsks(r))
            \/ (\E r \in Reader : PrependFails(r)) \/ EntryRepeated
            \/ (\E k \in Nat : EntryFollows(k))
            \/ (\E k \in Nat : EntryAhead(k))
            \/ (\E k \in Nat : EntryQueued(k))
            \/ (\E k \in Nat : PageReread(k))
            \/ (\E first \in Nat, last \in Nat : PageFits(first, last))
            \/ (\E r \in Reader : PrependMisses(r))
            \/ (\E r \in Reader : PrependEmpty(r))
            \/ (\E r \in Reader, first \in Nat : PrependFits(r, first))
  <2>1. UNCHANGED <<stream>>
    BY <1>1 DEF vars, JournalGrows, HostOpens, HostSends, Sends, HostSkips,
       HostRepeats, HostStops, ConnectionDown, ConnectionUp, PageStale,
       PrependAsks, PrependFails, EntryRepeated, EntryFollows, EntryAhead,
       EntryQueued, PageReread, PageAwaited, PageFits, PrependMisses,
       PrependAnswered, PrependEmpty, PrependFits
  <2> QED
    BY <2>1
<1>2. CASE CarrierLost
  BY <1>2, <1>a
     DEF CarrierLost, Fault, Unplugged
<1>3. CASE HostForgets
  BY <1>3, <1>a
     DEF HostForgets, Fault, Unplugged
<1>4. CASE NextGeneration
  BY <1>4, <1>a
     DEF NextGeneration, Forgiven
<1>5. CASE RetryEnds
  BY <1>5, <1>a
     DEF RetryEnds, MayRetry
<1>6. CASE PageFails
  BY <1>6, <1>a
     DEF PageFails, PageAborted, Rejects, Fault
<1>7. CASE PageOvertaken
  BY <1>7, <1>a
     DEF PageOvertaken, Rejects
<1>8. CASE Open
  BY <1>8, <1>a
     DEF Open
<1>9. CASE Restart
  BY <1>9, <1>a
     DEF Restart, Fault
<1>10. CASE Dispose
  BY <1>10, <1>a
     DEF Dispose, Fault
<1>11. ASSUME NEW at \in {"start", "wait"}, NEW n \in Nat,
            CarrierRetries(at, n)
       PROVE  stream' \in Streams
  BY <1>11, <1>a
     DEF CarrierRetries
<1>12. CASE CarrierGivesUp
  BY <1>12, <1>a
     DEF CarrierGivesUp, Terminates
<1>13. CASE OpeningRefused
  BY <1>13, <1>a
     DEF OpeningRefused, TakesFrame, Rejects
<1>14. ASSUME NEW c \in Nat, NEW first \in Nat, OpeningApplied(c, first)
       PROVE  stream' \in Streams
  BY <1>14, <1>a
     DEF OpeningApplied, TakesFrame, Publishes, Forgiven
<1>15. CASE EndRetried
  BY <1>15, <1>a
     DEF EndRetried, TakesFrame
<1>16. CASE EndFatal("end")
  BY <1>16, <1>a
     DEF EndFatal, TakesFrame
<1>17. CASE EndFatal("error")
  BY <1>17, <1>a
     DEF EndFatal, TakesFrame
<1>18. CASE PageHole
  BY <1>18, <1>a
     DEF PageHole, PageAwaited, PageAborted, Rejects
<1> QED
  BY <1>1, <1>2, <1>3, <1>4, <1>5, <1>6, <1>7, <1>8, <1>9, <1>10, <1>11, <1>12,
     <1>13, <1>14, <1>15, <1>16, <1>17, <1>18
     DEF Step, Simple, Split

\* The consumer stays in its states.
LEMMA JournalTyped ==
  ASSUME journal \in Journals, stream \in Streams, Step
  PROVE  journal' \in Journals
<1> USE DEF Journals, Repairs, Streams, NoRepair
<1>1. CASE UNCHANGED vars \/ JournalGrows \/ HostOpens \/ HostSends
            \/ HostSkips \/ HostRepeats \/ HostStops("end")
            \/ HostStops("error") \/ CarrierLost \/ HostForgets
            \/ ConnectionDown \/ ConnectionUp \/ NextGeneration \/ RetryEnds
            \/ Restart \/ (\E r \in Reader : PrependAsks(r))
            \/ (\E r \in Reader : PrependFails(r))
            \/ (\E at \in {"start", "wait"}, n \in Nat : CarrierRetries(at, n))
            \/ EntryRepeated \/ EndRetried
            \/ (\E r \in Reader : PrependMisses(r))
            \/ (\E r \in Reader : PrependEmpty(r))
  <2>1. UNCHANGED <<journal>>
    BY <1>1 DEF vars, JournalGrows, HostOpens, HostSends, Sends, HostSkips,
       HostRepeats, HostStops, CarrierLost, HostForgets, ConnectionDown,
       ConnectionUp, NextGeneration, RetryEnds, Restart, PrependAsks,
       PrependFails, CarrierRetries, EntryRepeated, EndRetried, PrependMisses,
       PrependAnswered, PrependEmpty
  <2> QED
    BY <2>1
<1>2. CASE PageFails
  BY <1>2 DEF PageFails, PageAborted, Rejects, Fault
<1>3. CASE PageOvertaken
  BY <1>3 DEF PageOvertaken, Rejects
<1>4. CASE PageStale
  BY <1>4 DEF PageStale, PageAborted
<1>5. CASE Open
  BY <1>5 DEF Open
<1>6. CASE Dispose
  BY <1>6 DEF Dispose, Fault
<1>7. CASE CarrierGivesUp
  BY <1>7 DEF CarrierGivesUp, Terminates
<1>8. CASE OpeningRefused
  BY <1>8 DEF OpeningRefused, TakesFrame, Rejects
<1>9. ASSUME NEW c \in Nat, NEW first \in Nat, OpeningApplied(c, first)
       PROVE  journal' \in Journals
  BY <1>9 DEF OpeningApplied, TakesFrame, Publishes, Forgiven
<1>10. ASSUME NEW k \in Nat, EntryFollows(k)
       PROVE  journal' \in Journals
  BY <1>10 DEF EntryFollows, TakesFrame, FirstWith, Publishes
<1>11. ASSUME NEW k \in Nat, EntryAhead(k)
       PROVE  journal' \in Journals
  BY <1>11 DEF EntryAhead, TakesFrame
<1>12. ASSUME NEW k \in Nat, EntryQueued(k)
       PROVE  journal' \in Journals
  BY <1>12 DEF EntryQueued, TakesFrame
<1>13. ASSUME NEW k \in Nat, PageReread(k)
       PROVE  journal' \in Journals
  BY <1>13 DEF PageReread, PageAwaited, PageAborted
<1>14. CASE EndFatal("end")
  BY <1>14 DEF EndFatal, TakesFrame
<1>15. CASE EndFatal("error")
  BY <1>15 DEF EndFatal, TakesFrame
<1>16. CASE PageHole
  BY <1>16 DEF PageHole, PageAwaited, PageAborted, Rejects
<1>17. ASSUME NEW first \in Nat, NEW last \in Nat, PageFits(first, last)
       PROVE  journal' \in Journals
  BY <1>17 DEF PageFits, PageAwaited, PageAborted, Publishes
<1>18. ASSUME NEW r \in Reader, NEW first \in Nat, PrependFits(r, first)
       PROVE  journal' \in Journals
  BY <1>18 DEF PrependFits, PrependAnswered, Publishes
<1> QED
  BY <1>1, <1>2, <1>3, <1>4, <1>5, <1>6, <1>7, <1>8, <1>9, <1>10, <1>11, <1>12,
     <1>13, <1>14, <1>15, <1>16, <1>17, <1>18
     DEF Step, Simple, Split

\* Every prepend call stays in its states.
LEMMA ReaderTyped ==
  ASSUME reader \in Readers, journal \in Journals, Step
  PROVE  reader' \in Readers
<1> USE DEF Readers, Journals
<1>1. CASE UNCHANGED vars \/ JournalGrows \/ HostOpens \/ HostSends
            \/ HostSkips \/ HostRepeats \/ HostStops("end")
            \/ HostStops("error") \/ CarrierLost \/ HostForgets
            \/ ConnectionDown \/ ConnectionUp \/ NextGeneration \/ RetryEnds
            \/ PageFails \/ PageOvertaken \/ PageStale \/ Open \/ Restart
            \/ Dispose
            \/ (\E at \in {"start", "wait"}, n \in Nat : CarrierRetries(at, n))
            \/ CarrierGivesUp \/ OpeningRefused
            \/ (\E c \in Nat, first \in Nat : OpeningApplied(c, first))
            \/ EntryRepeated \/ (\E k \in Nat : EntryFollows(k))
            \/ (\E k \in Nat : EntryAhead(k))
            \/ (\E k \in Nat : EntryQueued(k))
            \/ (\E k \in Nat : PageReread(k)) \/ EndRetried \/ EndFatal("end")
            \/ EndFatal("error") \/ PageHole
            \/ (\E first \in Nat, last \in Nat : PageFits(first, last))
  <2>1. UNCHANGED <<reader>>
    BY <1>1 DEF vars, JournalGrows, HostOpens, HostSends, Sends, HostSkips,
       HostRepeats, HostStops, CarrierLost, HostForgets, ConnectionDown,
       ConnectionUp, NextGeneration, RetryEnds, PageFails, PageOvertaken,
       PageStale, Open, Restart, Dispose, CarrierRetries, CarrierGivesUp,
       OpeningRefused, OpeningApplied, EntryRepeated, EntryFollows, EntryAhead,
       EntryQueued, PageReread, PageAwaited, EndRetried, EndFatal, PageHole,
       PageFits
  <2> QED
    BY <2>1
<1>2. ASSUME NEW r \in Reader, PrependAsks(r)
       PROVE  reader' \in Readers
  BY <1>2 DEF PrependAsks
<1>3. ASSUME NEW r \in Reader, PrependFails(r)
       PROVE  reader' \in Readers
  BY <1>3 DEF PrependFails
<1>4. ASSUME NEW r \in Reader, PrependMisses(r)
       PROVE  reader' \in Readers
  BY <1>4 DEF PrependMisses, PrependAnswered, Publishes
<1>5. ASSUME NEW r \in Reader, PrependEmpty(r)
       PROVE  reader' \in Readers
  BY <1>5 DEF PrependEmpty, PrependAnswered, Publishes
<1>6. ASSUME NEW r \in Reader, NEW first \in Nat, PrependFits(r, first)
       PROVE  reader' \in Readers
  BY <1>6 DEF PrependFits, PrependAnswered, Publishes
<1> QED
  BY <1>1, <1>2, <1>3, <1>4, <1>5, <1>6
     DEF Step, Simple, Split

\* The tally of faults stays one count per kind.
LEMMA FaultsTyped ==
  ASSUME faults \in Tallies, Step
  PROVE  faults' \in Tallies
<1> USE DEF Tallies, Kind
<1>1. CASE UNCHANGED vars \/ JournalGrows \/ HostOpens \/ HostSends
            \/ ConnectionUp \/ RetryEnds \/ PageOvertaken \/ PageStale \/ Open
            \/ (\E r \in Reader : PrependAsks(r))
            \/ (\E r \in Reader : PrependFails(r))
            \/ (\E at \in {"start", "wait"}, n \in Nat : CarrierRetries(at, n))
            \/ CarrierGivesUp \/ OpeningRefused \/ EntryRepeated
            \/ (\E k \in Nat : EntryFollows(k))
            \/ (\E k \in Nat : EntryAhead(k))
            \/ (\E k \in Nat : EntryQueued(k))
            \/ (\E k \in Nat : PageReread(k)) \/ EndFatal("end")
            \/ EndFatal("error") \/ PageHole
            \/ (\E first \in Nat, last \in Nat : PageFits(first, last))
            \/ (\E r \in Reader : PrependMisses(r))
            \/ (\E r \in Reader : PrependEmpty(r))
            \/ (\E r \in Reader, first \in Nat : PrependFits(r, first))
  <2>1. UNCHANGED <<faults>>
    BY <1>1 DEF vars, JournalGrows, HostOpens, HostSends, Sends, ConnectionUp,
       RetryEnds, PageOvertaken, PageStale, Open, PrependAsks, PrependFails,
       CarrierRetries, CarrierGivesUp, OpeningRefused, EntryRepeated,
       EntryFollows, EntryAhead, EntryQueued, PageReread, PageAwaited,
       EndFatal, PageHole, PageFits, PrependMisses, PrependAnswered,
       PrependEmpty, PrependFits
  <2> QED
    BY <2>1
<1>2. CASE HostSkips
  BY <1>2 DEF HostSkips, Sends, Fault
<1>3. CASE HostRepeats
  BY <1>3 DEF HostRepeats, Sends, Fault
<1>4. CASE HostStops("end")
  BY <1>4 DEF HostStops, Fault
<1>5. CASE HostStops("error")
  BY <1>5 DEF HostStops, Fault
<1>6. CASE CarrierLost
  BY <1>6 DEF CarrierLost, Fault, Unplugged
<1>7. CASE HostForgets
  BY <1>7 DEF HostForgets, Fault, Unplugged
<1>8. CASE ConnectionDown
  BY <1>8 DEF ConnectionDown, Fault
<1>9. CASE NextGeneration
  BY <1>9 DEF NextGeneration, Forgiven
<1>10. CASE PageFails
  BY <1>10 DEF PageFails, PageAborted, Rejects, Fault
<1>11. CASE Restart
  BY <1>11 DEF Restart, Fault
<1>12. CASE Dispose
  BY <1>12 DEF Dispose, Fault
<1>13. ASSUME NEW c \in Nat, NEW first \in Nat, OpeningApplied(c, first)
       PROVE  faults' \in Tallies
  BY <1>13 DEF OpeningApplied, TakesFrame, Publishes, Forgiven
<1>14. CASE EndRetried
  <2>1. faults.count["loss"] + 1 \in Nat
    OBVIOUS
  <2> QED
    BY <1>14, <2>1 DEF EndRetried
<1> QED
  BY <1>1, <1>2, <1>3, <1>4, <1>5, <1>6, <1>7, <1>8, <1>9, <1>10, <1>11, <1>12,
     <1>13, <1>14
     DEF Step, Simple, Split

\* The window stays a sequence of cursors.
LEMMA WindowTyped ==
  ASSUME shown \in Windows, journal \in Journals, host \in Hosts,
         reader \in Readers, feed \in Seq(Frames), RepairShape, Step
  PROVE  shown' \in Windows
<1>a. /\ shown.window \in Seq(Nat) /\ shown.more \in BOOLEAN /\ shown.cut \in BOOLEAN
      /\ shown \in Windows
  BY DEF Windows
<1>b. ASSUME NEW window \in Seq(Nat), NEW more \in BOOLEAN, NEW cut \in BOOLEAN,
             Publishes(window, more, cut)
      PROVE  shown' \in Windows
  BY <1>b DEF Publishes, Windows
<1>1. CASE UNCHANGED vars \/ JournalGrows \/ HostOpens \/ HostSends
            \/ HostSkips \/ HostRepeats \/ HostStops("end")
            \/ HostStops("error") \/ CarrierLost \/ HostForgets
            \/ ConnectionDown \/ ConnectionUp \/ NextGeneration \/ RetryEnds
            \/ PageFails \/ PageOvertaken \/ PageStale \/ Open \/ Restart
            \/ Dispose \/ (\E r \in Reader : PrependAsks(r))
            \/ (\E r \in Reader : PrependFails(r))
            \/ (\E at \in {"start", "wait"}, n \in Nat : CarrierRetries(at, n))
            \/ CarrierGivesUp \/ OpeningRefused \/ EntryRepeated
            \/ (\E k \in Nat : EntryAhead(k))
            \/ (\E k \in Nat : EntryQueued(k))
            \/ (\E k \in Nat : PageReread(k)) \/ EndRetried \/ EndFatal("end")
            \/ EndFatal("error") \/ PageHole
  <2>1. UNCHANGED <<shown>>
    BY <1>1 DEF vars, JournalGrows, HostOpens, HostSends, Sends, HostSkips,
       HostRepeats, HostStops, CarrierLost, HostForgets, ConnectionDown,
       ConnectionUp, NextGeneration, RetryEnds, PageFails, PageOvertaken,
       PageStale, Open, Restart, Dispose, PrependAsks, PrependFails,
       CarrierRetries, CarrierGivesUp, OpeningRefused, EntryRepeated,
       EntryAhead, EntryQueued, PageReread, PageAwaited, EndRetried, EndFatal,
       PageHole
  <2> QED
    BY <2>1, <1>a
<1>2. ASSUME NEW c \in Nat, NEW first \in Nat, OpeningApplied(c, first)
       PROVE  shown' \in Windows
  <2>1. Run(PageStart(c), c) \in Seq(Nat)
    BY PageStartTyped, RunIs
  <2>2. Publishes(Run(PageStart(c), c), PageStart(c) > 1, FALSE)
    BY <1>2 DEF OpeningApplied
  <2>3. (PageStart(c) > 1) \in BOOLEAN /\ FALSE \in BOOLEAN
    OBVIOUS
  <2> QED
    BY <1>b, <2>1, <2>2, <2>3
<1>3. ASSUME NEW k \in Nat, EntryFollows(k)
       PROVE  shown' \in Windows
  <2>1. Append(shown.window, k) \in Seq(Nat)
    BY <1>a
  <2> QED
    BY <1>3, <1>a, <1>b, <2>1 DEF EntryFollows
<1>4. ASSUME NEW first \in Nat, NEW last \in Nat, PageFits(first, last)
       PROVE  shown' \in Windows
  <2>1. Merged(first, last) /\ journal.repair.through \in Nat /\ 1 <= first
    BY <1>4, PageMerged
  <2>2. Run(first, last) \in Seq(Nat)
    BY <2>1, RunIs
  <2>3. Publishes(Run(first, last), first > 1, FALSE)
    BY <1>4, <2>1 DEF PageFits, Merged
  <2>4. (first > 1) \in BOOLEAN /\ FALSE \in BOOLEAN
    OBVIOUS
  <2> QED
    BY <1>b, <2>2, <2>3, <2>4
<1>5. ASSUME NEW r \in Reader, PrependMisses(r)
       PROVE  shown' \in Windows
  <2>1. Publishes(shown.window, FALSE, TRUE)
    BY <1>5 DEF PrependMisses
  <2> QED
    BY <1>a, <1>b, <2>1
<1>6. ASSUME NEW r \in Reader, PrependEmpty(r)
       PROVE  shown' \in Windows
  <2>1. Publishes(shown.window, OlderPage(r) # <<>> /\ OlderPage(r)[1] > 1,
                      OlderPage(r) = <<>>)
    BY <1>6 DEF PrependEmpty
  <2> QED
    BY <1>a, <1>b, <2>1
<1>7. ASSUME NEW r \in Reader, NEW first \in Nat, PrependFits(r, first)
       PROVE  shown' \in Windows
  <2>1. OlderEntries(r) \in Seq(Nat)
    BY OlderIs
  <2>2. OlderEntries(r) \o shown.window \in Seq(Nat)
    BY <1>a, <2>1
  <2>3. Publishes(OlderEntries(r) \o shown.window,
                 OlderPage(r) # <<>> /\ OlderPage(r)[1] > 1, OlderPage(r) = <<>>)
    BY <1>7 DEF PrependFits
  <2> QED
    BY <1>b, <2>2, <2>3
<1> QED
  BY <1>1, <1>2, <1>3, <1>4, <1>5, <1>6, <1>7
     DEF Step, Simple, Split

\* The journal is never shorter than it has been.
LEMMA EverGrows ==
  ASSUME host \in Hosts, Step
  PROVE  host'.ever \in Nat /\ host.ever <= host'.ever
<1> USE DEF Hosts
<1>1. CASE UNCHANGED vars \/ ConnectionDown \/ ConnectionUp \/ RetryEnds
            \/ PageFails \/ PageOvertaken \/ PageStale \/ Open
            \/ (\E r \in Reader : PrependAsks(r))
            \/ (\E r \in Reader : PrependFails(r))
            \/ (\E at \in {"start", "wait"}, n \in Nat : CarrierRetries(at, n))
            \/ OpeningRefused
            \/ (\E c \in Nat, first \in Nat : OpeningApplied(c, first))
            \/ EntryRepeated \/ (\E k \in Nat : EntryFollows(k))
            \/ (\E k \in Nat : EntryAhead(k))
            \/ (\E k \in Nat : EntryQueued(k))
            \/ (\E k \in Nat : PageReread(k)) \/ EndRetried \/ EndFatal("end")
            \/ EndFatal("error") \/ PageHole
            \/ (\E first \in Nat, last \in Nat : PageFits(first, last))
            \/ (\E r \in Reader : PrependMisses(r))
            \/ (\E r \in Reader : PrependEmpty(r))
            \/ (\E r \in Reader, first \in Nat : PrependFits(r, first))
  <2>1. UNCHANGED <<host>>
    BY <1>1 DEF vars, ConnectionDown, ConnectionUp, RetryEnds, PageFails,
       PageOvertaken, PageStale, Open, PrependAsks, PrependFails,
       CarrierRetries, OpeningRefused, OpeningApplied, EntryRepeated,
       EntryFollows, EntryAhead, EntryQueued, PageReread, PageAwaited,
       EndRetried, EndFatal, PageHole, PageFits, PrependMisses,
       PrependAnswered, PrependEmpty, PrependFits
  <2> QED
    BY <2>1
<1>2. CASE JournalGrows
  <2>1. host'.ever = IF host.ever > host.len + 1 THEN host.ever ELSE host.len + 1
    BY <1>2 DEF JournalGrows, Max2
  <2>2. host.len + 1 \in Nat
    OBVIOUS
  <2> QED
    BY <2>1, <2>2
<1>3. CASE HostOpens
  BY <1>3 DEF HostOpens
<1>4. CASE HostSends
  BY <1>4 DEF HostSends, Sends
<1>5. CASE HostSkips
  BY <1>5 DEF HostSkips, Sends
<1>6. CASE HostRepeats
  BY <1>6 DEF HostRepeats, Sends
<1>7. CASE HostStops("end")
  BY <1>7 DEF HostStops
<1>8. CASE HostStops("error")
  BY <1>8 DEF HostStops
<1>9. CASE CarrierLost
  BY <1>9 DEF CarrierLost, Unplugged
<1>10. CASE HostForgets
  BY <1>10 DEF HostForgets, Unplugged
<1>11. CASE NextGeneration
  BY <1>11 DEF NextGeneration, Forgiven
<1>12. CASE Restart
  BY <1>12 DEF Restart
<1>13. CASE Dispose
  BY <1>13 DEF Dispose
<1>14. CASE CarrierGivesUp
  BY <1>14 DEF CarrierGivesUp, Terminates
<1> QED
  BY <1>1, <1>2, <1>3, <1>4, <1>5, <1>6, <1>7, <1>8, <1>9, <1>10, <1>11, <1>12,
     <1>13, <1>14
     DEF Step, Simple, Split

\* No count but that of the losses falls.
LEMMA CountsNext ==
  ASSUME faults \in Tallies, Step
  PROVE  CountsKept
<1> USE DEF CountsKept
<1>t. \A k \in Kind : faults.count[k] \in Nat
  BY DEF Tallies
<1>u. \A k \in Kind : faults.count[k] + 1 >= faults.count[k] /\ faults.count[k] + 1 \in Nat
  BY <1>t
<1>1. CASE UNCHANGED vars \/ JournalGrows \/ HostOpens \/ HostSends
            \/ ConnectionUp \/ RetryEnds \/ PageOvertaken \/ PageStale \/ Open
            \/ (\E r \in Reader : PrependAsks(r))
            \/ (\E r \in Reader : PrependFails(r))
            \/ (\E at \in {"start", "wait"}, n \in Nat : CarrierRetries(at, n))
            \/ CarrierGivesUp \/ OpeningRefused \/ EntryRepeated
            \/ (\E k \in Nat : EntryFollows(k))
            \/ (\E k \in Nat : EntryAhead(k))
            \/ (\E k \in Nat : EntryQueued(k))
            \/ (\E k \in Nat : PageReread(k)) \/ EndFatal("end")
            \/ EndFatal("error") \/ PageHole
            \/ (\E first \in Nat, last \in Nat : PageFits(first, last))
            \/ (\E r \in Reader : PrependMisses(r))
            \/ (\E r \in Reader : PrependEmpty(r))
            \/ (\E r \in Reader, first \in Nat : PrependFits(r, first))
  <2>1. UNCHANGED <<faults>>
    BY <1>1 DEF vars, JournalGrows, HostOpens, HostSends, Sends, ConnectionUp,
       RetryEnds, PageOvertaken, PageStale, Open, PrependAsks, PrependFails,
       CarrierRetries, CarrierGivesUp, OpeningRefused, EntryRepeated,
       EntryFollows, EntryAhead, EntryQueued, PageReread, PageAwaited,
       EndFatal, PageHole, PageFits, PrependMisses, PrependAnswered,
       PrependEmpty, PrependFits
  <2> QED
    BY <2>1, <1>t
<1>2. CASE HostSkips
  BY <1>2, <1>t, <1>u, FaultIs
     DEF HostSkips, Sends
<1>3. CASE HostRepeats
  BY <1>3, <1>t, <1>u, FaultIs
     DEF HostRepeats, Sends
<1>4. CASE HostStops("end")
  BY <1>4, <1>t, <1>u, FaultIs
     DEF HostStops
<1>5. CASE HostStops("error")
  BY <1>5, <1>t, <1>u, FaultIs
     DEF HostStops
<1>6. CASE CarrierLost
  BY <1>6, <1>t, <1>u, FaultIs
     DEF CarrierLost, Unplugged
<1>7. CASE HostForgets
  BY <1>7, <1>t, <1>u, FaultIs
     DEF HostForgets, Unplugged
<1>8. CASE ConnectionDown
  BY <1>8, <1>t, <1>u, FaultIs
     DEF ConnectionDown
<1>9. CASE NextGeneration
  BY <1>9, <1>t
     DEF NextGeneration, Forgiven, Tallies, Kind
<1>10. CASE PageFails
  BY <1>10, <1>t, <1>u, FaultIs
     DEF PageFails, PageAborted, Rejects
<1>11. CASE Restart
  BY <1>11, <1>t, <1>u, FaultIs
     DEF Restart
<1>12. CASE Dispose
  BY <1>12, <1>t, <1>u, FaultIs
     DEF Dispose
<1>13. ASSUME NEW c \in Nat, NEW first \in Nat, OpeningApplied(c, first)
       PROVE  CountsKept
  BY <1>13, <1>t
     DEF OpeningApplied, TakesFrame, Publishes, Forgiven, Tallies, Kind
<1>14. CASE EndRetried
  BY <1>14, <1>t
     DEF EndRetried, TakesFrame, Tallies, Kind
<1> QED
  BY <1>1, <1>2, <1>3, <1>4, <1>5, <1>6, <1>7, <1>8, <1>9, <1>10, <1>11, <1>12,
     <1>13, <1>14
     DEF Step, Simple, Split

\* Where the generator is follows the phase of the consumer.
LEMMA PhaseAtNext ==
  ASSUME stream \in Streams, journal \in Journals, faults \in Tallies, PhaseAt,
         Step
  PROVE  PhaseAt'
<1> USE DEF PhaseAt, Streams, Journals, Tallies, Consuming, Kind
<1>1. CASE UNCHANGED vars \/ JournalGrows \/ HostOpens \/ HostSends
            \/ ConnectionUp \/ (\E r \in Reader : PrependAsks(r))
            \/ (\E r \in Reader : PrependFails(r)) \/ EntryRepeated
            \/ (\E r \in Reader : PrependMisses(r))
            \/ (\E r \in Reader : PrependEmpty(r))
  <2>1. UNCHANGED <<stream, journal, faults>>
    BY <1>1 DEF vars, JournalGrows, HostOpens, HostSends, Sends, ConnectionUp,
       PrependAsks, PrependFails, EntryRepeated, PrependMisses,
       PrependAnswered, PrependEmpty
  <2> QED
    BY <2>1
<1>2. CASE HostSkips
  BY <1>2 DEF HostSkips, Sends, Fault
<1>3. CASE HostRepeats
  BY <1>3 DEF HostRepeats, Sends, Fault
<1>4. CASE HostStops("end")
  BY <1>4 DEF HostStops, Fault
<1>5. CASE HostStops("error")
  BY <1>5 DEF HostStops, Fault
<1>6. CASE CarrierLost
  BY <1>6 DEF CarrierLost, Fault, Unplugged
<1>7. CASE HostForgets
  BY <1>7 DEF HostForgets, Fault, Unplugged
<1>8. CASE ConnectionDown
  BY <1>8 DEF ConnectionDown, Fault
<1>9. CASE NextGeneration
  BY <1>9 DEF NextGeneration, Forgiven
<1>10. CASE RetryEnds
  BY <1>10 DEF RetryEnds, MayRetry
<1>11. CASE PageFails
  BY <1>11 DEF PageFails, PageAborted, Rejects, Fault
<1>12. CASE PageOvertaken
  BY <1>12 DEF PageOvertaken, Rejects
<1>13. CASE PageStale
  BY <1>13 DEF PageStale, PageAborted
<1>14. CASE Open
  BY <1>14 DEF Open
<1>15. CASE Restart
  BY <1>15 DEF Restart, Fault
<1>16. CASE Dispose
  BY <1>16 DEF Dispose, Fault
<1>17. ASSUME NEW at \in {"start", "wait"}, NEW n \in Nat, CarrierRetries(at, n) PROVE PhaseAt'
  BY <1>17 DEF CarrierRetries
<1>18. CASE CarrierGivesUp
  BY <1>18 DEF CarrierGivesUp, Terminates
<1>19. CASE OpeningRefused
  BY <1>19 DEF OpeningRefused, TakesFrame, Rejects
<1>20. ASSUME NEW c \in Nat, NEW first \in Nat, OpeningApplied(c, first)
       PROVE  PhaseAt'
  BY <1>20 DEF OpeningApplied, TakesFrame, Publishes, Forgiven
<1>21. ASSUME NEW k \in Nat, EntryFollows(k) PROVE PhaseAt'
  BY <1>21 DEF EntryFollows, TakesFrame, FirstWith, Publishes
<1>22. ASSUME NEW k \in Nat, EntryAhead(k) PROVE PhaseAt'
  BY <1>22 DEF EntryAhead, TakesFrame
<1>23. ASSUME NEW k \in Nat, EntryQueued(k) PROVE PhaseAt'
  BY <1>23 DEF EntryQueued, TakesFrame
<1>24. ASSUME NEW k \in Nat, PageReread(k) PROVE PhaseAt'
  BY <1>24 DEF PageReread, PageAwaited, PageAborted
<1>25. CASE EndRetried
  <2>1. ~stream.revised
    BY <1>25 DEF EndRetried, TakesFrame
  <2>2. /\ stream' = [stream EXCEPT !.at = "lost"] /\ UNCHANGED journal /\ Consuming
        /\ stream.at = "open"
    BY <1>25 DEF EndRetried, TakesFrame
  <2> QED
    BY <2>1, <2>2
<1>26. CASE EndFatal("end")
  BY <1>26 DEF EndFatal, TakesFrame
<1>27. CASE EndFatal("error")
  BY <1>27 DEF EndFatal, TakesFrame
<1>28. CASE PageHole
  BY <1>28 DEF PageHole, PageAwaited, PageAborted, Rejects
<1>29. ASSUME NEW first \in Nat, NEW last \in Nat, PageFits(first, last) PROVE PhaseAt'
  BY <1>29 DEF PageFits, PageAwaited, PageAborted, Publishes
<1>30. ASSUME NEW r \in Reader, NEW first \in Nat, PrependFits(r, first) PROVE PhaseAt'
  BY <1>30 DEF PrependFits, PrependAnswered, Publishes
<1> QED
  BY <1>1, <1>2, <1>3, <1>4, <1>5, <1>6, <1>7, <1>8, <1>9, <1>10, <1>11, <1>12,
     <1>13, <1>14, <1>15, <1>16, <1>17, <1>18, <1>19, <1>20, <1>21, <1>22,
     <1>23, <1>24, <1>25, <1>26, <1>27, <1>28, <1>29, <1>30
     DEF Step, Simple, Split

\* Only a restart of the Host loses entries.
LEMMA HostCountsNext ==
  ASSUME host \in Hosts, HostCounts, CountsKept, faults \in Tallies, Step
  PROVE  HostCounts'
<1> USE DEF HostCounts, Hosts, Kind, CountsKept
<1>1. CASE UNCHANGED vars \/ ConnectionDown \/ ConnectionUp \/ RetryEnds
            \/ PageFails \/ PageOvertaken \/ PageStale \/ Open
            \/ (\E r \in Reader : PrependAsks(r))
            \/ (\E r \in Reader : PrependFails(r))
            \/ (\E at \in {"start", "wait"}, n \in Nat : CarrierRetries(at, n))
            \/ OpeningRefused
            \/ (\E c \in Nat, first \in Nat : OpeningApplied(c, first))
            \/ EntryRepeated \/ (\E k \in Nat : EntryFollows(k))
            \/ (\E k \in Nat : EntryAhead(k))
            \/ (\E k \in Nat : EntryQueued(k))
            \/ (\E k \in Nat : PageReread(k)) \/ EndRetried \/ EndFatal("end")
            \/ EndFatal("error") \/ PageHole
            \/ (\E first \in Nat, last \in Nat : PageFits(first, last))
            \/ (\E r \in Reader : PrependMisses(r))
            \/ (\E r \in Reader : PrependEmpty(r))
            \/ (\E r \in Reader, first \in Nat : PrependFits(r, first))
  <2>1. UNCHANGED <<host>>
    BY <1>1 DEF vars, ConnectionDown, ConnectionUp, RetryEnds, PageFails,
       PageOvertaken, PageStale, Open, PrependAsks, PrependFails,
       CarrierRetries, OpeningRefused, OpeningApplied, EntryRepeated,
       EntryFollows, EntryAhead, EntryQueued, PageReread, PageAwaited,
       EndRetried, EndFatal, PageHole, PageFits, PrependMisses,
       PrependAnswered, PrependEmpty, PrependFits
  <2> QED
    BY <2>1
<1>2. CASE JournalGrows
  <2>1. host'.len = host.len + 1 /\ host'.sent = host.sent /\ UNCHANGED faults /\ host.len < MaxLen
    BY <1>2 DEF JournalGrows
  <2>2. host'.ever = IF host.ever > host.len + 1 THEN host.ever ELSE host.len + 1
    BY <1>2 DEF JournalGrows, Max2
  <2> QED
    BY <2>1, <2>2, JournalAssumption DEF JournalAssumption
<1>3. CASE HostOpens
  BY <1>3 DEF HostOpens
<1>4. CASE HostSends
  BY <1>4 DEF HostSends, Sends
<1>5. CASE HostSkips
  BY <1>5 DEF HostSkips, Sends
<1>6. CASE HostRepeats
  BY <1>6 DEF HostRepeats, Sends
<1>7. CASE HostStops("end")
  BY <1>7 DEF HostStops
<1>8. CASE HostStops("error")
  BY <1>8 DEF HostStops
<1>9. CASE CarrierLost
  BY <1>9 DEF CarrierLost, Unplugged
<1>10. CASE HostForgets
  BY <1>10, FaultIs
     DEF HostForgets, Kind
<1>11. CASE NextGeneration
  BY <1>11 DEF NextGeneration, Forgiven
<1>12. CASE Restart
  BY <1>12 DEF Restart
<1>13. CASE Dispose
  BY <1>13 DEF Dispose
<1>14. CASE CarrierGivesUp
  BY <1>14 DEF CarrierGivesUp, Terminates
<1> QED
  BY <1>1, <1>2, <1>3, <1>4, <1>5, <1>6, <1>7, <1>8, <1>9, <1>10, <1>11, <1>12,
     <1>13, <1>14
     DEF Step, Simple, Split

\* The inbox is emptied, and the Host told, whenever a generation ends.
LEMMA ServesAtNext ==
  ASSUME feed \in Seq(Frames), host \in Hosts, stream \in Streams, ServesAt,
         FramesFit, PhaseAt, Step
  PROVE  ServesAt'
<1> USE DEF ServesAt, Hosts, Streams
<1>a. \A type \in {"end", "error"} : TakesFrame(type) => feed' = <<>> /\ host.serving = "no"
  BY TailIs DEF TakesFrame, FramesFit, Ending
<1>b. \A type : TakesFrame(type) => feed # <<>>
  BY DEF TakesFrame
<1>1. CASE UNCHANGED vars \/ ConnectionDown \/ ConnectionUp \/ PageStale
            \/ (\E r \in Reader : PrependAsks(r))
            \/ (\E r \in Reader : PrependFails(r))
            \/ (\E k \in Nat : PageReread(k))
            \/ (\E first \in Nat, last \in Nat : PageFits(first, last))
            \/ (\E r \in Reader : PrependMisses(r))
            \/ (\E r \in Reader : PrependEmpty(r))
            \/ (\E r \in Reader, first \in Nat : PrependFits(r, first))
  <2>1. UNCHANGED <<host, feed, stream>>
    BY <1>1 DEF vars, ConnectionDown, ConnectionUp, PageStale, PrependAsks,
       PrependFails, PageReread, PageAwaited, PageFits, PrependMisses,
       PrependAnswered, PrependEmpty, PrependFits
  <2> QED
    BY <2>1
<1>2. CASE JournalGrows
  BY <1>2 DEF JournalGrows, Max2
<1>3. CASE HostOpens
  BY <1>3 DEF HostOpens
<1>4. CASE HostSends
  BY <1>4 DEF HostSends, Sends
<1>5. CASE HostSkips
  BY <1>5 DEF HostSkips, Sends
<1>6. CASE HostRepeats
  BY <1>6 DEF HostRepeats, Sends
<1>7. CASE HostStops("end")
  BY <1>7 DEF HostStops
<1>8. CASE HostStops("error")
  BY <1>8 DEF HostStops
<1>9. CASE CarrierLost
  BY <1>9 DEF CarrierLost, Unplugged
<1>10. CASE HostForgets
  BY <1>10 DEF HostForgets, Unplugged
<1>11. CASE NextGeneration
  BY <1>11 DEF NextGeneration, Forgiven
<1>12. CASE RetryEnds
  BY <1>12 DEF RetryEnds, MayRetry
<1>13. CASE PageFails
  BY <1>13 DEF PageFails, PageAborted, Rejects
<1>14. CASE PageOvertaken
  BY <1>14 DEF PageOvertaken, Rejects
<1>15. CASE Open
  BY <1>15 DEF Open, PhaseAt
<1>16. CASE Restart
  BY <1>16 DEF Restart
<1>17. CASE Dispose
  BY <1>17 DEF Dispose
<1>18. ASSUME NEW at \in {"start", "wait"}, NEW n \in Nat, CarrierRetries(at, n) PROVE ServesAt'
  BY <1>18 DEF CarrierRetries
<1>19. CASE CarrierGivesUp
  BY <1>19 DEF CarrierGivesUp, Terminates
<1>20. CASE OpeningRefused
  BY <1>20, <1>a, <1>b
     DEF OpeningRefused, Rejects
<1>21. ASSUME NEW c \in Nat, NEW first \in Nat, OpeningApplied(c, first)
       PROVE  ServesAt'
  BY <1>21, <1>a, <1>b
     DEF OpeningApplied, Publishes, Forgiven
<1>22. CASE EntryRepeated
  BY <1>22, <1>a, <1>b
     DEF EntryRepeated
<1>23. ASSUME NEW k \in Nat, EntryFollows(k) PROVE ServesAt'
  BY <1>23, <1>a, <1>b
     DEF EntryFollows, FirstWith, Publishes
<1>24. ASSUME NEW k \in Nat, EntryAhead(k) PROVE ServesAt'
  BY <1>24, <1>a, <1>b
     DEF EntryAhead
<1>25. ASSUME NEW k \in Nat, EntryQueued(k) PROVE ServesAt'
  BY <1>25, <1>a, <1>b
     DEF EntryQueued
<1>26. CASE EndRetried
  BY <1>26, <1>a, <1>b
     DEF EndRetried
<1>27. CASE EndFatal("end")
  BY <1>27, <1>a, <1>b
     DEF EndFatal
<1>28. CASE EndFatal("error")
  BY <1>28, <1>a, <1>b
     DEF EndFatal
<1>29. CASE PageHole
  BY <1>29 DEF PageHole, PageAwaited, PageAborted, Rejects
<1> QED
  BY <1>1, <1>2, <1>3, <1>4, <1>5, <1>6, <1>7, <1>8, <1>9, <1>10, <1>11, <1>12,
     <1>13, <1>14, <1>15, <1>16, <1>17, <1>18, <1>19, <1>20, <1>21, <1>22,
     <1>23, <1>24, <1>25, <1>26, <1>27, <1>28, <1>29
     DEF Step, Simple, Split

\* Frames are sent in the order of the protocol and taken in order.
LEMMA FramesFitNext ==
  ASSUME faults \in Tallies, feed \in Seq(Frames), host \in Hosts, ServesAt,
         FramesFit, HostCounts, CountsKept, Step
  PROVE  FramesFit'
<1> USE DEF FramesFit, Ending
<1>a. /\ Len(feed) \in Nat /\ (feed = <<>> <=> Len(feed) = 0)
      /\ \A i \in 1 .. Len(feed) : feed[i].cursor \in Nat /\ feed[i].type \in {"opened", "entry", "end", "error"}
  BY FrameTyped DEF Frames
<1>b. host.ever \in Nat /\ host.len \in Nat /\ host.sent \in Nat
  BY DEF Hosts
<1>c. "end" \in Kind \ {"loss"} /\ "error" \in Kind \ {"loss"}
  BY DEF Kind
\* A frame is taken.
<1>d. ASSUME NEW type, TakesFrame(type), UNCHANGED host PROVE FramesFit'
  <2>1. /\ Len(feed) >= 1 /\ Len(feed') = Len(feed) - 1
        /\ \A i \in 1 .. Len(feed) - 1 : feed'[i] = feed[i + 1]
    BY <1>d, TailIs DEF TakesFrame
  <2> SUFFICES ASSUME NEW i \in 1 .. Len(feed')
               PROVE  /\ feed'[i].cursor <= host.ever
                      /\ feed'[i].type # "opened"
                      /\ feed'[i].type \in {"end", "error"} =>
                            /\ i = Len(feed') /\ host.serving = "no"
                            /\ faults'.count[feed'[i].type] >= 1
    BY <1>d
  <2>2. i + 1 \in 1 .. Len(feed) /\ i + 1 # 1 /\ feed'[i] = feed[i + 1]
    BY <1>a, <2>1
  <2>3. feed'[i].type \in {"end", "error"} =>
            /\ i + 1 = Len(feed) /\ host.serving = "no" /\ faults.count[feed'[i].type] >= 1
    BY <2>2
  <2>4. feed'[i].type \in {"end", "error"} => faults'.count[feed'[i].type] >= 1
    BY <2>3, <1>c DEF CountsKept
  <2> QED
    BY <1>a, <2>1, <2>2, <2>3, <2>4
\* A frame is sent: the stream was served until then.
<1>e. ASSUME NEW f \in Frames, feed' = Append(feed, f), host.serving # "no",
             f.type # "opened", f.cursor <= host.ever, host'.ever = host.ever,
             f.type \in {"end", "error"} => host'.serving = "no" /\ faults'.count[f.type] >= 1
      PROVE  FramesFit'
  <2>1. /\ Len(feed') = Len(feed) + 1 /\ feed'[Len(feed) + 1] = f
        /\ \A i \in 1 .. Len(feed) : feed'[i] = feed[i]
    BY <1>e, AppendIs
  <2>2. \A i \in 1 .. Len(feed) : feed[i].type \notin {"end", "error"}
    BY <1>e
  <2> SUFFICES ASSUME NEW i \in 1 .. Len(feed')
               PROVE  /\ feed'[i].cursor <= host.ever
                      /\ feed'[i].type = "opened" => i = 1
                      /\ feed'[i].type \in {"end", "error"} =>
                            /\ i = Len(feed') /\ host'.serving = "no"
                            /\ faults'.count[feed'[i].type] >= 1
    BY <1>e
  <2>3. CASE i = Len(feed) + 1
    BY <1>e, <2>1, <2>3
  <2>4. CASE i # Len(feed) + 1
    <3>1. i \in 1 .. Len(feed)
      BY <1>a, <2>1, <2>4
    <3> QED
      BY <2>1, <2>2, <3>1
  <2> QED
    BY <2>3, <2>4
\* Nothing moves in the inbox.
<1>f. ASSUME UNCHANGED feed, host'.ever >= host.ever, host'.ever \in Nat,
             host.serving = "no" => host'.serving = "no"
      PROVE  FramesFit'
  BY <1>a, <1>b, <1>c, <1>f DEF CountsKept
\* The inbox is emptied.
<1>g. ASSUME feed' = <<>> PROVE FramesFit'
  <2>1. Len(feed') = 0
    BY <1>g
  <2> QED
    BY <2>1
<1>1. CASE UNCHANGED vars \/ ConnectionUp \/ RetryEnds \/ PageOvertaken
            \/ PageStale \/ Open \/ (\E r \in Reader : PrependAsks(r))
            \/ (\E r \in Reader : PrependFails(r))
            \/ (\E at \in {"start", "wait"}, n \in Nat : CarrierRetries(at, n))
            \/ (\E k \in Nat : PageReread(k)) \/ PageHole
            \/ (\E first \in Nat, last \in Nat : PageFits(first, last))
            \/ (\E r \in Reader : PrependMisses(r))
            \/ (\E r \in Reader : PrependEmpty(r))
            \/ (\E r \in Reader, first \in Nat : PrependFits(r, first))
  <2>1. UNCHANGED <<host, feed, faults>>
    BY <1>1 DEF vars, ConnectionUp, RetryEnds, PageOvertaken, PageStale, Open,
       PrependAsks, PrependFails, CarrierRetries, PageReread, PageAwaited,
       PageHole, PageFits, PrependMisses, PrependAnswered, PrependEmpty,
       PrependFits
  <2> QED
    BY <2>1, <1>f, <1>b
<1>2. CASE JournalGrows
  BY <1>2, <1>f, <1>b, <1>c DEF JournalGrows, Max2
<1>3. CASE HostOpens
  <2>1. feed' = <<[type |-> "opened", cursor |-> host.len]>> /\ host'.ever = host.ever
    BY <1>3 DEF HostOpens
  <2>2. Len(feed') = 1 /\ feed'[1] = [type |-> "opened", cursor |-> host.len]
    BY <2>1
  <2>3. \A i \in 1 .. Len(feed') : i = 1
    BY <2>2
  <2>4. host.len <= host.ever
    BY DEF HostCounts
  <2> QED
    BY <2>1, <2>2, <2>3, <2>4
<1>4. CASE HostSends
  <2> DEFINE f == [type |-> "entry", cursor |-> host.sent + 1]
  <2>1. f \in Frames /\ f.cursor <= host.ever
    BY <1>4, <1>b DEF HostSends, Frames, HostCounts
  <2>2. feed' = Append(feed, f) /\ host.serving # "no" /\ host'.ever = host.ever
    BY <1>4 DEF HostSends, Sends
  <2> QED
    BY <2>1, <2>2, <1>e
<1>5. CASE HostSkips
  <2> DEFINE f == [type |-> "entry", cursor |-> host.sent + 2]
  <2>1. f \in Frames /\ f.cursor <= host.ever
    BY <1>5, <1>b DEF HostSkips, Frames, HostCounts
  <2>2. feed' = Append(feed, f) /\ host.serving # "no" /\ host'.ever = host.ever
    BY <1>5 DEF HostSkips, Sends
  <2> QED
    BY <2>1, <2>2, <1>e
<1>6. CASE HostRepeats
  <2> DEFINE f == [type |-> "entry", cursor |-> host.sent]
  <2>1. f \in Frames /\ f.cursor <= host.ever
    BY <1>6, <1>b DEF HostRepeats, Frames, HostCounts
  <2>2. feed' = Append(feed, f) /\ host.serving # "no" /\ host'.ever = host.ever
    BY <1>6 DEF HostRepeats, Sends
  <2> QED
    BY <2>1, <2>2, <1>e
<1>7. CASE HostStops("end")
  <2> DEFINE f == [type |-> "end", cursor |-> 0]
  <2>1. f \in Frames /\ f.cursor <= host.ever
    BY <1>b DEF Frames
  <2>2. feed' = Append(feed, f) /\ host.serving # "no" /\ host'.ever = host.ever /\ host'.serving = "no"
    BY <1>7 DEF HostStops
  <2>3. faults'.count["end"] >= 1
    <3>1. Fault({"end"})
      BY <1>7 DEF HostStops
    <3>2. "end" \in Kind
      BY DEF Kind
    <3> QED
      BY <3>1, <3>2, FaultIs
  <2> QED
    BY <2>1, <2>2, <2>3, <1>e
<1>8. CASE HostStops("error")
  <2> DEFINE f == [type |-> "error", cursor |-> 0]
  <2>1. f \in Frames /\ f.cursor <= host.ever
    BY <1>b DEF Frames
  <2>2. feed' = Append(feed, f) /\ host.serving # "no" /\ host'.ever = host.ever /\ host'.serving = "no"
    BY <1>8 DEF HostStops
  <2>3. faults'.count["error"] >= 1
    <3>1. Fault({"error"})
      BY <1>8 DEF HostStops
    <3>2. "error" \in Kind
      BY DEF Kind
    <3> QED
      BY <3>1, <3>2, FaultIs
  <2> QED
    BY <2>1, <2>2, <2>3, <1>e
<1>9. CASE CarrierLost
  BY <1>9, <1>g DEF CarrierLost, Fault, Unplugged
<1>10. CASE HostForgets
  BY <1>10, <1>g DEF HostForgets, Fault, Unplugged
<1>11. CASE ConnectionDown
  BY <1>11, <1>f, <1>b, <1>c DEF ConnectionDown
<1>12. CASE NextGeneration
  BY <1>12, <1>g DEF NextGeneration, Forgiven
<1>13. CASE PageFails
  BY <1>13, <1>f, <1>b, <1>c DEF PageFails, PageAborted, Rejects
<1>14. CASE Restart
  BY <1>14, <1>g DEF Restart, Fault
<1>15. CASE Dispose
  BY <1>15, <1>g DEF Dispose, Fault
<1>16. CASE CarrierGivesUp
  BY <1>16, <1>g DEF CarrierGivesUp, Terminates
<1>17. CASE OpeningRefused
  BY <1>17, <1>d
     DEF OpeningRefused, Rejects
<1>18. ASSUME NEW c \in Nat, NEW first \in Nat, OpeningApplied(c, first)
       PROVE  FramesFit'
  BY <1>18, <1>d
     DEF OpeningApplied, Publishes, Forgiven
<1>19. CASE EntryRepeated
  BY <1>19, <1>d
     DEF EntryRepeated
<1>20. ASSUME NEW k \in Nat, EntryFollows(k) PROVE FramesFit'
  BY <1>20, <1>d
     DEF EntryFollows, FirstWith, Publishes
<1>21. ASSUME NEW k \in Nat, EntryAhead(k) PROVE FramesFit'
  BY <1>21, <1>d
     DEF EntryAhead
<1>22. ASSUME NEW k \in Nat, EntryQueued(k) PROVE FramesFit'
  BY <1>22, <1>d
     DEF EntryQueued
<1>23. CASE EndRetried
  BY <1>23, <1>d
     DEF EndRetried
<1>24. CASE EndFatal("end")
  BY <1>24, <1>d
     DEF EndFatal
<1>25. CASE EndFatal("error")
  BY <1>25, <1>d
     DEF EndFatal
<1> QED
  BY <1>1, <1>2, <1>3, <1>4, <1>5, <1>6, <1>7, <1>8, <1>9, <1>10, <1>11, <1>12,
     <1>13, <1>14, <1>15, <1>16, <1>17, <1>18, <1>19, <1>20, <1>21, <1>22,
     <1>23, <1>24, <1>25
     DEF Step, Simple, Split

\* No entry of a generation is taken before its opening.
LEMMA GenShapeNext ==
  ASSUME feed \in Seq(Frames), host \in Hosts, stream \in Streams,
         journal \in Journals, PhaseAt, ServesAt, FramesFit, GenShape, Step
  PROVE  GenShape'
<1> USE DEF GenShape, Unopened, Consuming
<1>a. stream.gen \in Nat /\ stream.gen + 1 \in Nat /\ journal.gen \in Nat /\ journal.gen < stream.gen + 1
  BY DEF Streams, Journals, PhaseAt
<1>b. \A type : TakesFrame(type) =>
          /\ feed # <<>> /\ feed[1].type = type /\ Consuming /\ host.serving # "asked"
          /\ feed' # <<>> => feed'[1].type # "opened"
          /\ type \in {"end", "error"} => feed' = <<>> /\ host.serving = "no"
  <2> SUFFICES ASSUME NEW type, TakesFrame(type)
               PROVE  /\ feed' # <<>> => feed'[1].type # "opened"
                      /\ type \in {"end", "error"} => feed' = <<>> /\ host.serving = "no"
    BY DEF TakesFrame, ServesAt
  <2>1. /\ Len(feed) \in Nat /\ Len(feed) >= 1 /\ feed[1].type = type
        /\ \A i \in 1 .. Len(feed) - 1 : feed'[i] = feed[i + 1]
        /\ feed' = <<>> <=> Len(feed) = 1
    BY TailIs DEF TakesFrame
  <2>2. Len(feed) # 1 => feed'[1] = feed[2] /\ 2 \in 1 .. Len(feed)
    <3>0. Len(feed) \in Nat /\ Len(feed) >= 1
      BY <2>1
    <3>1. Len(feed) # 1 => 1 \in 1 .. Len(feed) - 1 /\ 2 \in 1 .. Len(feed)
      BY <3>0, SecondIndex
    <3>2. Len(feed) # 1 => feed'[1] = feed[1 + 1]
      BY <2>1, <3>1
    <3> QED
      BY <3>1, <3>2
  <2>3. Len(feed) # 1 => feed[2].type # "opened"
    BY <2>2 DEF FramesFit
  <2> QED
    BY <2>1, <2>2, <2>3 DEF FramesFit, Ending
<1>c. \A f \in Frames : feed' = Append(feed, f) =>
          feed' # <<>> /\ feed'[1] = IF feed = <<>> THEN f ELSE feed[1]
  BY AppendIs
<1>1. CASE UNCHANGED vars \/ ConnectionDown \/ ConnectionUp
            \/ (\E r \in Reader : PrependAsks(r))
            \/ (\E r \in Reader : PrependFails(r))
            \/ (\E r \in Reader : PrependMisses(r))
            \/ (\E r \in Reader : PrependEmpty(r))
  <2>1. UNCHANGED <<host, feed, stream, journal>>
    BY <1>1 DEF vars, ConnectionDown, ConnectionUp, PrependAsks, PrependFails,
       PrependMisses, PrependAnswered, PrependEmpty
  <2> QED
    BY <2>1
<1>2. CASE JournalGrows
  BY <1>2 DEF JournalGrows, Max2
<1>3. CASE HostOpens
  <2>1. feed' # <<>> /\ feed'[1].type = "opened" /\ UNCHANGED <<stream, journal>> /\ host.serving = "asked"
    BY <1>3 DEF HostOpens
  <2> QED
    BY <2>1
<1>4. CASE HostSends
  <2> DEFINE f == [type |-> "entry", cursor |-> host.sent + 1]
  <2>1. f \in Frames
    BY DEF Frames, Hosts
  <2>2. feed' = Append(feed, f) /\ host.serving = "yes" /\ host'.serving = "yes" /\ UNCHANGED <<stream, journal>>
    BY <1>4 DEF HostSends, Sends, Hosts
  <2>3. f.type = "entry"
    OBVIOUS
  <2> HIDE DEF f
  <2> QED
    BY <2>1, <2>2, <2>3, <1>c
<1>5. CASE HostSkips
  <2> DEFINE f == [type |-> "entry", cursor |-> host.sent + 2]
  <2>1. f \in Frames
    BY DEF Frames, Hosts
  <2>2. feed' = Append(feed, f) /\ host.serving = "yes" /\ host'.serving = "yes" /\ UNCHANGED <<stream, journal>>
    BY <1>5 DEF HostSkips, Sends, Hosts
  <2>3. f.type = "entry"
    OBVIOUS
  <2> HIDE DEF f
  <2> QED
    BY <2>1, <2>2, <2>3, <1>c
<1>6. CASE HostRepeats
  <2> DEFINE f == [type |-> "entry", cursor |-> host.sent]
  <2>1. f \in Frames
    BY DEF Frames, Hosts
  <2>2. feed' = Append(feed, f) /\ host.serving = "yes" /\ host'.serving = "yes" /\ UNCHANGED <<stream, journal>>
    BY <1>6 DEF HostRepeats, Sends, Hosts
  <2>3. f.type = "entry"
    OBVIOUS
  <2> HIDE DEF f
  <2> QED
    BY <2>1, <2>2, <2>3, <1>c
<1>7. CASE HostStops("end")
  <2> DEFINE f == [type |-> "end", cursor |-> 0]
  <2>1. f \in Frames
    BY DEF Frames
  <2>2. feed' = Append(feed, f) /\ host.serving # "no" /\ host'.serving = "no" /\ UNCHANGED <<stream, journal>>
    BY <1>7 DEF HostStops, Hosts
  <2>3. f.type = "end"
    OBVIOUS
  <2>4. feed = <<>> \/ host.serving = "yes"
    BY <2>2 DEF ServesAt, Hosts
  <2> HIDE DEF f
  <2> QED
    BY <2>1, <2>2, <2>3, <2>4, <1>c
<1>8. CASE HostStops("error")
  <2> DEFINE f == [type |-> "error", cursor |-> 0]
  <2>1. f \in Frames
    BY DEF Frames
  <2>2. feed' = Append(feed, f) /\ host.serving # "no" /\ host'.serving = "no" /\ UNCHANGED <<stream, journal>>
    BY <1>8 DEF HostStops, Hosts
  <2>3. f.type = "error"
    OBVIOUS
  <2>4. feed = <<>> \/ host.serving = "yes"
    BY <2>2 DEF ServesAt, Hosts
  <2> HIDE DEF f
  <2> QED
    BY <2>1, <2>2, <2>3, <2>4, <1>c
<1>9. CASE CarrierLost
  BY <1>9 DEF CarrierLost, Unplugged
<1>10. CASE HostForgets
  BY <1>10 DEF HostForgets, Unplugged
<1>11. CASE NextGeneration
  BY <1>11, <1>a
     DEF NextGeneration
<1>12. CASE RetryEnds
  BY <1>12 DEF RetryEnds, MayRetry
<1>13. CASE PageFails
  BY <1>13 DEF PageFails, PageAborted, Rejects
<1>14. CASE PageOvertaken
  BY <1>14 DEF PageOvertaken, Rejects
<1>15. CASE PageStale
  BY <1>15 DEF PageStale, PageAborted
<1>16. CASE Open
  BY <1>16 DEF Open, ServesAt, PhaseAt
<1>17. CASE Restart
  BY <1>17 DEF Restart
<1>18. CASE Dispose
  BY <1>18 DEF Dispose
<1>19. ASSUME NEW at \in {"start", "wait"}, NEW n \in Nat, CarrierRetries(at, n) PROVE GenShape'
  BY <1>19 DEF CarrierRetries
<1>20. CASE CarrierGivesUp
  BY <1>20 DEF CarrierGivesUp, Terminates
<1>21. CASE OpeningRefused
  BY <1>21, <1>a, <1>b
     DEF OpeningRefused, Rejects
<1>22. ASSUME NEW c \in Nat, NEW first \in Nat, OpeningApplied(c, first)
       PROVE  GenShape'
  BY <1>22, <1>a, <1>b
     DEF OpeningApplied, Publishes, Forgiven
<1>23. CASE EntryRepeated
  BY <1>23, <1>a, <1>b
     DEF EntryRepeated
<1>24. ASSUME NEW k \in Nat, EntryFollows(k) PROVE GenShape'
  BY <1>24, <1>a, <1>b
     DEF EntryFollows, FirstWith, Publishes
<1>25. ASSUME NEW k \in Nat, EntryAhead(k) PROVE GenShape'
  BY <1>25, <1>a, <1>b
     DEF EntryAhead
<1>26. ASSUME NEW k \in Nat, EntryQueued(k) PROVE GenShape'
  BY <1>26, <1>a, <1>b
     DEF EntryQueued
<1>27. ASSUME NEW k \in Nat, PageReread(k) PROVE GenShape'
  BY <1>27 DEF PageReread, PageAwaited, PageAborted
<1>28. CASE EndRetried
  BY <1>28, <1>a, <1>b
     DEF EndRetried
<1>29. CASE EndFatal("end")
  BY <1>29, <1>a, <1>b
     DEF EndFatal
<1>30. CASE EndFatal("error")
  BY <1>30, <1>a, <1>b
     DEF EndFatal
<1>31. CASE PageHole
  BY <1>31 DEF PageHole, PageAwaited, PageAborted, Rejects
<1>32. ASSUME NEW first \in Nat, NEW last \in Nat, PageFits(first, last) PROVE GenShape'
  BY <1>32 DEF PageFits, PageAwaited, PageAborted, Publishes
<1>33. ASSUME NEW r \in Reader, NEW first \in Nat, PrependFits(r, first) PROVE GenShape'
  BY <1>33 DEF PrependFits, PrependAnswered, Publishes
<1> QED
  BY <1>1, <1>2, <1>3, <1>4, <1>5, <1>6, <1>7, <1>8, <1>9, <1>10, <1>11, <1>12,
     <1>13, <1>14, <1>15, <1>16, <1>17, <1>18, <1>19, <1>20, <1>21, <1>22,
     <1>23, <1>24, <1>25, <1>26, <1>27, <1>28, <1>29, <1>30, <1>31, <1>32,
     <1>33
     DEF Step, Simple, Split

\* An opening frame is not behind, unless the Host lost an entry.
LEMMA OpeningAheadNext ==
  ASSUME feed \in Seq(Frames), host \in Hosts, journal \in Journals,
         journal.last <= host.ever, CountsKept, HostCounts, PhaseAt, ServesAt,
         FramesFit, GenShape, OpeningAhead, Step
  PROVE  OpeningAhead'
<1> USE DEF OpeningAhead, Consuming
<1>a. faults'.count["forget"] = 0 => faults.count["forget"] = 0
  BY DEF CountsKept, Kind
<1>b. \A type : TakesFrame(type) => (feed' # <<>> => feed'[1].type # "opened")
  <2> SUFFICES ASSUME NEW type, TakesFrame(type), feed' # <<>> PROVE feed'[1].type # "opened"
    OBVIOUS
  <2>1. /\ Len(feed) \in Nat /\ Len(feed) >= 1
        /\ \A i \in 1 .. Len(feed) - 1 : feed'[i] = feed[i + 1]
        /\ feed' = <<>> <=> Len(feed) = 1
    BY TailIs DEF TakesFrame
  <2>0. Len(feed) \in Nat /\ Len(feed) >= 1
    BY <2>1
  <2>2. 1 \in 1 .. Len(feed) - 1 /\ 2 \in 1 .. Len(feed)
    BY <2>0, <2>1, SecondIndex
  <2>3. feed'[1] = feed[1 + 1]
    BY <2>1, <2>2
  <2> QED
    BY <2>2, <2>3 DEF FramesFit
<1>e. journal.gen \in Nat /\ ~(journal.gen < journal.gen)
  BY DEF Journals
<1>c. \A f \in Frames : feed' = Append(feed, f) =>
          feed' # <<>> /\ feed'[1] = IF feed = <<>> THEN f ELSE feed[1]
  BY AppendIs
<1>1. CASE UNCHANGED vars \/ ConnectionUp \/ (\E r \in Reader : PrependAsks(r))
            \/ (\E r \in Reader : PrependFails(r))
            \/ (\E r \in Reader : PrependMisses(r))
            \/ (\E r \in Reader : PrependEmpty(r))
  <2>1. UNCHANGED <<host, feed, stream, journal, faults>>
    BY <1>1 DEF vars, ConnectionUp, PrependAsks, PrependFails, PrependMisses,
       PrependAnswered, PrependEmpty
  <2> QED
    BY <2>1, <1>a
<1>2. CASE JournalGrows
  BY <1>2 DEF JournalGrows, Max2
<1>3. CASE HostOpens
  <2>1. feed' # <<>> /\ feed'[1].cursor = host.len /\ UNCHANGED <<journal, faults>>
    BY <1>3 DEF HostOpens
  <2> QED
    BY <1>a, <2>1 DEF HostCounts
<1>4. CASE HostSends
  <2> DEFINE f == [type |-> "entry", cursor |-> host.sent + 1]
  <2>1. f \in Frames
    BY DEF Frames, Hosts
  <2>2. feed' = Append(feed, f) /\ UNCHANGED journal
    BY <1>4 DEF HostSends, Sends
  <2>3. f.type = "entry"
    OBVIOUS
  <2> HIDE DEF f
  <2> QED
    BY <1>a, <2>1, <2>2, <2>3, <1>c
<1>5. CASE HostSkips
  <2> DEFINE f == [type |-> "entry", cursor |-> host.sent + 2]
  <2>1. f \in Frames
    BY DEF Frames, Hosts
  <2>2. feed' = Append(feed, f) /\ UNCHANGED journal
    BY <1>5 DEF HostSkips, Sends
  <2>3. f.type = "entry"
    OBVIOUS
  <2> HIDE DEF f
  <2> QED
    BY <1>a, <2>1, <2>2, <2>3, <1>c
<1>6. CASE HostRepeats
  <2> DEFINE f == [type |-> "entry", cursor |-> host.sent]
  <2>1. f \in Frames
    BY DEF Frames, Hosts
  <2>2. feed' = Append(feed, f) /\ UNCHANGED journal
    BY <1>6 DEF HostRepeats, Sends
  <2>3. f.type = "entry"
    OBVIOUS
  <2> HIDE DEF f
  <2> QED
    BY <1>a, <2>1, <2>2, <2>3, <1>c
<1>7. CASE HostStops("end")
  <2> DEFINE f == [type |-> "end", cursor |-> 0]
  <2>1. f \in Frames
    BY DEF Frames
  <2>2. feed' = Append(feed, f) /\ UNCHANGED journal
    BY <1>7 DEF HostStops
  <2>3. f.type = "end"
    OBVIOUS
  <2> HIDE DEF f
  <2> QED
    BY <1>a, <2>1, <2>2, <2>3, <1>c
<1>8. CASE HostStops("error")
  <2> DEFINE f == [type |-> "error", cursor |-> 0]
  <2>1. f \in Frames
    BY DEF Frames
  <2>2. feed' = Append(feed, f) /\ UNCHANGED journal
    BY <1>8 DEF HostStops
  <2>3. f.type = "error"
    OBVIOUS
  <2> HIDE DEF f
  <2> QED
    BY <1>a, <2>1, <2>2, <2>3, <1>c
<1>9. CASE CarrierLost
  BY <1>9, <1>a
     DEF CarrierLost, Unplugged
<1>10. CASE HostForgets
  BY <1>10, <1>a
     DEF HostForgets, Unplugged
<1>11. CASE ConnectionDown
  BY <1>11, <1>a
     DEF ConnectionDown
<1>12. CASE NextGeneration
  BY <1>12 DEF NextGeneration
<1>13. CASE RetryEnds
  BY <1>13 DEF RetryEnds, MayRetry
<1>14. CASE PageFails
  BY <1>14, <1>a
     DEF PageFails, PageAborted, Rejects
<1>15. CASE PageOvertaken
  BY <1>15 DEF PageOvertaken, Rejects
<1>16. CASE PageStale
  BY <1>16 DEF PageStale, PageAborted
<1>17. CASE Open
  BY <1>17 DEF Open, ServesAt, PhaseAt
<1>18. CASE Restart
  BY <1>18, <1>a
     DEF Restart
<1>19. CASE Dispose
  BY <1>19, <1>a
     DEF Dispose
<1>20. ASSUME NEW at \in {"start", "wait"}, NEW n \in Nat,
            CarrierRetries(at, n)
       PROVE  OpeningAhead'
  BY <1>20 DEF CarrierRetries
<1>21. CASE CarrierGivesUp
  BY <1>21 DEF CarrierGivesUp, Terminates
<1>22. CASE OpeningRefused
  BY <1>22, <1>b
     DEF OpeningRefused
<1>23. ASSUME NEW c \in Nat, NEW first \in Nat, OpeningApplied(c, first)
       PROVE  OpeningAhead'
  BY <1>23, <1>b
     DEF OpeningApplied
<1>24. CASE EntryRepeated
  BY <1>24, <1>b
     DEF EntryRepeated
<1>25. ASSUME NEW k \in Nat, EntryFollows(k) PROVE OpeningAhead'
  BY <1>25, <1>b
     DEF EntryFollows, FirstWith
<1>26. ASSUME NEW k \in Nat, EntryAhead(k) PROVE OpeningAhead'
  BY <1>26, <1>b
     DEF EntryAhead
<1>27. ASSUME NEW k \in Nat, EntryQueued(k) PROVE OpeningAhead'
  BY <1>27, <1>b
     DEF EntryQueued
<1>28. ASSUME NEW k \in Nat, PageReread(k) PROVE OpeningAhead'
  BY <1>28, <1>e DEF GenShape, Unopened, PageAborted, PageReread, PageAwaited, PageAborted
<1>29. CASE EndRetried
  BY <1>29, <1>b
     DEF EndRetried
<1>30. CASE EndFatal("end")
  BY <1>30, <1>b
     DEF EndFatal
<1>31. CASE EndFatal("error")
  BY <1>31, <1>b
     DEF EndFatal
<1>32. CASE PageHole
  BY <1>32 DEF PageHole, PageAwaited, PageAborted, Rejects
<1>33. ASSUME NEW first \in Nat, NEW last \in Nat, PageFits(first, last)
       PROVE  OpeningAhead'
  BY <1>33, <1>e DEF GenShape, Unopened, PageAborted, PageFits, PageAwaited, PageAborted
<1>34. ASSUME NEW r \in Reader, NEW first \in Nat, PrependFits(r, first)
       PROVE  OpeningAhead'
  BY <1>34 DEF PrependFits, PrependAnswered, Publishes
<1> QED
  BY <1>1, <1>2, <1>3, <1>4, <1>5, <1>6, <1>7, <1>8, <1>9, <1>10, <1>11, <1>12,
     <1>13, <1>14, <1>15, <1>16, <1>17, <1>18, <1>19, <1>20, <1>21, <1>22,
     <1>23, <1>24, <1>25, <1>26, <1>27, <1>28, <1>29, <1>30, <1>31, <1>32,
     <1>33, <1>34
     DEF Step, Simple, Split

\* Every retry answers a loss, and every loss is a fault.
LEMMA LossesPaidNext ==
  ASSUME faults \in Tallies, faults' \in Tallies, host \in Hosts,
         feed \in Seq(Frames), stream \in Streams, FramesFit, LossesPaid, Step
  PROVE  LossesPaid'
<1>a. /\ faults.left \in Nat /\ faults'.left \in Nat /\ MaxFaults \in Nat
      /\ \A k \in Kind : faults.count[k] \in Nat /\ faults'.count[k] \in Nat
      /\ stream.attempt \in Nat /\ stream.attempt + 1 \in Nat
  BY JournalAssumption DEF Tallies, Streams, JournalAssumption
<1>b. "loss" \in Kind
  BY DEF Kind
<1>c. ASSUME NEW kinds, Fault(kinds)
      PROVE  \A k \in Kind :
                /\ faults'.left + faults'.count[k] <= faults.left + faults.count[k]
                /\ faults.count[k] <= faults'.count[k]
                /\ k \notin kinds => faults'.left + faults'.count[k] + 1 <= faults.left + faults.count[k]
                /\ k \in kinds => faults'.count[k] = faults.count[k] + 1
  <2> TAKE k \in Kind
  <2>1. faults'.left = faults.left - 1
    BY <1>c, FaultIs
  <2>2. faults'.count[k] = IF k \in kinds THEN faults.count[k] + 1 ELSE faults.count[k]
    BY <1>c, FaultIs
  <2>3. faults.count[k] \in Nat /\ faults'.count[k] \in Nat /\ faults.left \in Nat
    BY <1>a
  <2>4. k \notin kinds => faults'.count[k] = faults.count[k]
    BY <2>2
  <2>5. k \in kinds => faults'.count[k] = faults.count[k] + 1
    BY <2>2
  <2> QED
    BY <2>1, <2>3, <2>4, <2>5
<1>d. /\ EndPending \in {0, 1} /\ EndPending' \in {0, 1}
      /\ (stream.at = "lost" => stream.attempt + 1 <= faults.count["loss"])
      /\ stream.attempt <= faults.count["loss"]
  BY <1>a, <1>b DEF EndPending, LossesPaid
\* A step that keeps the sums and the attempts within them.
<1>e. ASSUME \A k \in Kind : faults'.left + faults'.count[k] <= faults.left + faults.count[k],
             \/ EndPending' <= EndPending
             \/ faults'.left + faults'.count["loss"] + 1 <= faults.left + faults.count["loss"],
             stream'.at # "lost" \/ stream.at = "lost",
             stream'.attempt \in Nat, stream'.attempt <= stream.attempt,
             faults.count["loss"] <= faults'.count["loss"]
      PROVE  LossesPaid'
  <2>1. ASSUME NEW k \in Kind \ {"loss"} PROVE faults'.left + faults'.count[k] <= MaxFaults
    <3>1. faults.left + faults.count[k] <= MaxFaults
      BY DEF LossesPaid
    <3> QED
      BY <1>a, <1>e, <3>1
  <2>2. faults'.left + faults'.count["loss"] + EndPending' <= MaxFaults
    <3>1. faults.left + faults.count["loss"] + EndPending <= MaxFaults
      BY DEF LossesPaid
    <3>2. faults'.left + faults'.count["loss"] <= faults.left + faults.count["loss"]
      BY <1>b, <1>e
    <3>3. /\ faults.count["loss"] \in Nat /\ faults'.count["loss"] \in Nat
          /\ faults.left \in Nat /\ faults'.left \in Nat /\ MaxFaults \in Nat
      BY <1>a, <1>b
    <3>4. EndPending \in Nat /\ EndPending' \in Nat /\ EndPending' <= 1
      BY <1>d
    <3>5. CASE EndPending' <= EndPending
      BY <3>1, <3>2, <3>3, <3>4, <3>5
    <3>6. CASE faults'.left + faults'.count["loss"] + 1 <= faults.left + faults.count["loss"]
      BY <3>1, <3>3, <3>4, <3>6
    <3> QED
      BY <1>e, <3>5, <3>6
  <2>3. stream'.attempt + (IF stream'.at = "lost" THEN 1 ELSE 0) <= faults'.count["loss"]
    BY <1>a, <1>b, <1>d, <1>e
  <2> QED
    BY <2>1, <2>2, <2>3 DEF LossesPaid
\* A step that starts the count of attempts again, or pays for one more.
<1>j. ASSUME \A k \in Kind : faults'.left + faults'.count[k] <= faults.left + faults.count[k],
             EndPending' <= EndPending,
             stream'.attempt + (IF stream'.at = "lost" THEN 1 ELSE 0) <= faults'.count["loss"]
      PROVE  LossesPaid'
  <2>1. ASSUME NEW k \in Kind \ {"loss"} PROVE faults'.left + faults'.count[k] <= MaxFaults
    <3>1. faults.left + faults.count[k] <= MaxFaults
      BY DEF LossesPaid
    <3> QED
      BY <1>a, <1>j, <3>1
  <2>2. faults'.left + faults'.count["loss"] + EndPending' <= MaxFaults
    <3>1. faults.left + faults.count["loss"] + EndPending <= MaxFaults
      BY DEF LossesPaid
    <3>2. faults'.left + faults'.count["loss"] <= faults.left + faults.count["loss"]
      BY <1>b, <1>j
    <3>3. /\ faults.count["loss"] \in Nat /\ faults'.count["loss"] \in Nat
          /\ faults.left \in Nat /\ faults'.left \in Nat /\ MaxFaults \in Nat
      BY <1>a, <1>b
    <3>4. EndPending \in Nat /\ EndPending' \in Nat
      BY <1>d
    <3> QED
      BY <1>j, <3>1, <3>2, <3>3, <3>4
  <2> QED
    BY <1>j, <2>1, <2>2 DEF LossesPaid
\* The end that is under way stays the last frame.
<1>f. ASSUME NEW type, TakesFrame(type)
      PROVE  EndPending' <= EndPending /\ (type = "end" => EndPending = 1 /\ EndPending' = 0)
  <2>1. /\ feed # <<>> /\ Len(feed) \in Nat /\ Len(feed) >= 1 /\ Len(feed') = Len(feed) - 1
        /\ \A i \in 1 .. Len(feed) - 1 : feed'[i] = feed[i + 1]
        /\ feed' = <<>> <=> Len(feed) = 1
    BY <1>f, TailIs DEF TakesFrame
  <2>2. CASE Len(feed) = 1
    BY <1>f, <2>1, <2>2 DEF EndPending, TakesFrame
  <2>3. CASE Len(feed) # 1
    <3>1. Len(feed) - 1 \in 1 .. Len(feed) - 1 /\ 1 \in 1 .. Len(feed)
      BY <2>1, <2>3
    <3>2. feed'[Len(feed')] = feed[Len(feed)]
      BY <2>1, <3>1
    <3>3. feed[1].type # "end"
      BY <2>3, <3>1 DEF FramesFit, Ending
    <3> QED
      BY <1>f, <2>1, <2>3, <3>2, <3>3 DEF EndPending, TakesFrame
  <2> QED
    BY <2>2, <2>3
<1>g. ASSUME NEW f \in Frames, feed' = Append(feed, f), f.type # "end" PROVE EndPending' = 0
  <2>1. feed'[Len(feed')] = f
    BY <1>g, AppendIs
  <2> QED
    BY <1>g, <2>1 DEF EndPending
<1>h. ASSUME feed' = <<>> PROVE EndPending' <= EndPending
  BY <1>d, <1>h DEF EndPending
<1>i. ASSUME UNCHANGED feed PROVE EndPending' <= EndPending
  BY <1>d, <1>i DEF EndPending
<1>1. CASE UNCHANGED vars \/ JournalGrows \/ ConnectionUp \/ PageStale
            \/ (\E r \in Reader : PrependAsks(r))
            \/ (\E r \in Reader : PrependFails(r))
            \/ (\E k \in Nat : PageReread(k))
            \/ (\E first \in Nat, last \in Nat : PageFits(first, last))
            \/ (\E r \in Reader : PrependMisses(r))
            \/ (\E r \in Reader : PrependEmpty(r))
            \/ (\E r \in Reader, first \in Nat : PrependFits(r, first))
  <2>1. UNCHANGED <<stream, feed, faults>>
    BY <1>1 DEF vars, JournalGrows, ConnectionUp, PageStale, PrependAsks,
       PrependFails, PageReread, PageAwaited, PageFits, PrependMisses,
       PrependAnswered, PrependEmpty, PrependFits
  <2> QED
    BY <2>1, <1>a, <1>b, <1>d, <1>e, <1>i
<1>2. CASE HostOpens
  <2>1. feed' = <<[type |-> "opened", cursor |-> host.len]>> /\ UNCHANGED <<stream, faults>>
    BY <1>2 DEF HostOpens
  <2>2. EndPending' = 0
    BY <2>1 DEF EndPending
  <2> QED
    BY <1>a, <1>b, <1>d, <1>e, <2>1, <2>2
<1>3. CASE HostSends
  <2> DEFINE f == [type |-> "entry", cursor |-> host.sent + 1]
  <2>1. f \in Frames /\ f.type # "end"
    BY DEF Frames, Hosts
  <2>2. feed' = Append(feed, f) /\ UNCHANGED stream
    BY <1>3 DEF HostSends, Sends
  <2>3. EndPending' <= EndPending
    BY <1>d, <1>g, <2>1, <2>2
  <2>4. UNCHANGED faults
    BY <1>3 DEF HostSends, Sends
  <2> QED
    BY <1>a, <1>b, <1>e, <2>2, <2>3, <2>4
<1>4. CASE HostSkips
  <2> DEFINE f == [type |-> "entry", cursor |-> host.sent + 2]
  <2>1. f \in Frames /\ f.type # "end"
    BY DEF Frames, Hosts
  <2>2. feed' = Append(feed, f) /\ UNCHANGED stream
    BY <1>4 DEF HostSkips, Sends
  <2>3. EndPending' <= EndPending
    BY <1>d, <1>g, <2>1, <2>2
  <2>4. Fault({"skip"})
    BY <1>4 DEF HostSkips
  <2>5. \A k \in Kind : /\ faults'.left + faults'.count[k] <= faults.left + faults.count[k]
                        /\ faults.count[k] <= faults'.count[k]
    BY <1>c, <2>4
  <2> QED
    BY <1>a, <1>b, <1>e, <2>2, <2>3, <2>5
<1>5. CASE HostRepeats
  <2> DEFINE f == [type |-> "entry", cursor |-> host.sent]
  <2>1. f \in Frames /\ f.type # "end"
    BY DEF Frames, Hosts
  <2>2. feed' = Append(feed, f) /\ UNCHANGED stream
    BY <1>5 DEF HostRepeats, Sends
  <2>3. EndPending' <= EndPending
    BY <1>d, <1>g, <2>1, <2>2
  <2>4. Fault({"calm"})
    BY <1>5 DEF HostRepeats
  <2>5. \A k \in Kind : /\ faults'.left + faults'.count[k] <= faults.left + faults.count[k]
                        /\ faults.count[k] <= faults'.count[k]
    BY <1>c, <2>4
  <2> QED
    BY <1>a, <1>b, <1>e, <2>2, <2>3, <2>5
<1>6. CASE HostStops("end")
  <2>1. Fault({"end"}) /\ UNCHANGED stream
    BY <1>6 DEF HostStops
  <2>2. /\ \A k \in Kind : /\ faults'.left + faults'.count[k] <= faults.left + faults.count[k]
                           /\ faults.count[k] <= faults'.count[k]
        /\ faults'.left + faults'.count["loss"] + 1 <= faults.left + faults.count["loss"]
    BY <1>b, <1>c, <2>1
  <2> QED
    BY <1>a, <1>b, <1>e, <2>1, <2>2
<1>7. CASE HostStops("error")
  <2>1. Fault({"error"}) /\ UNCHANGED stream
    BY <1>7 DEF HostStops
  <2>2. /\ \A k \in Kind : /\ faults'.left + faults'.count[k] <= faults.left + faults.count[k]
                           /\ faults.count[k] <= faults'.count[k]
        /\ faults'.left + faults'.count["loss"] + 1 <= faults.left + faults.count["loss"]
    BY <1>b, <1>c, <2>1
  <2> QED
    BY <1>a, <1>b, <1>e, <2>1, <2>2
<1>8. CASE CarrierLost
  <2>1. Fault({"loss"}) /\ stream.at = "open"
    BY <1>8 DEF CarrierLost
  <2>2. \A k \in Kind : /\ faults'.left + faults'.count[k] <= faults.left + faults.count[k]
                        /\ faults.count[k] <= faults'.count[k]
    BY <1>c, <2>1
  <2>3. /\ feed' = <<>> /\ stream'.attempt = stream.attempt
        /\ stream.at # "open" => stream'.at = stream.at
    BY <1>8 DEF CarrierLost, Unplugged, Streams
  <2>5. EndPending' <= EndPending
    BY <1>h, <2>3
  <2>6. CASE stream.at # "open"
    BY <1>a, <1>b, <1>e, <2>2, <2>3, <2>5, <2>6
  <2>7. CASE stream.at = "open"
    <3>1. faults'.count["loss"] = faults.count["loss"] + 1
      BY <1>b, <1>c, <2>1, <2>7
    <3>2. stream'.attempt + 1 <= faults'.count["loss"] /\ faults'.count["loss"] \in Nat
      BY <1>a, <1>b, <1>d, <2>3, <3>1
    <3>3. \A k \in Kind : faults'.left + faults'.count[k] <= faults.left + faults.count[k]
      BY <2>2
    <3>4. stream'.attempt \in Nat
      BY <1>a, <2>3
    <3>5. stream'.attempt + (IF stream'.at = "lost" THEN 1 ELSE 0) <= faults'.count["loss"]
      BY <3>2, <3>4
    <3> QED
      BY <1>j, <2>5, <3>3, <3>5
  <2> QED
    BY <2>6, <2>7
<1>9. CASE HostForgets
  <2>1. Fault(IF stream.at = "open" THEN {"forget", "loss"} ELSE {"forget"})
    BY <1>9 DEF HostForgets
  <2>2. \A k \in Kind : /\ faults'.left + faults'.count[k] <= faults.left + faults.count[k]
                        /\ faults.count[k] <= faults'.count[k]
    BY <1>c, <2>1
  <2>3. /\ feed' = <<>> /\ stream'.attempt = stream.attempt
        /\ stream.at # "open" => stream'.at = stream.at
    BY <1>9 DEF HostForgets, Unplugged, Streams
  <2>5. EndPending' <= EndPending
    BY <1>h, <2>3
  <2>6. CASE stream.at # "open"
    BY <1>a, <1>b, <1>e, <2>2, <2>3, <2>5, <2>6
  <2>7. CASE stream.at = "open"
    <3>1. faults'.count["loss"] = faults.count["loss"] + 1
      BY <1>b, <1>c, <2>1, <2>7
    <3>2. stream'.attempt + 1 <= faults'.count["loss"] /\ faults'.count["loss"] \in Nat
      BY <1>a, <1>b, <1>d, <2>3, <3>1
    <3>3. \A k \in Kind : faults'.left + faults'.count[k] <= faults.left + faults.count[k]
      BY <2>2
    <3>4. stream'.attempt \in Nat
      BY <1>a, <2>3
    <3>5. stream'.attempt + (IF stream'.at = "lost" THEN 1 ELSE 0) <= faults'.count["loss"]
      BY <3>2, <3>4
    <3> QED
      BY <1>j, <2>5, <3>3, <3>5
  <2> QED
    BY <2>6, <2>7
<1>10. CASE ConnectionDown
  <2>1. Fault({"calm"})
    BY <1>10 DEF ConnectionDown
  <2>2. \A k \in Kind : /\ faults'.left + faults'.count[k] <= faults.left + faults.count[k]
                        /\ faults.count[k] <= faults'.count[k]
    BY <1>c, <2>1
  <2>3. UNCHANGED feed /\ (stream'.at # "lost" \/ stream.at = "lost") /\ stream'.attempt = stream.attempt
    BY <1>10 DEF ConnectionDown
  <2> QED
    BY <1>a, <1>b, <1>e, <1>i, <2>2, <2>3
<1>11. CASE NextGeneration
  <2>1. feed' = <<>> /\ stream'.at = "open"
    BY <1>11 DEF NextGeneration, Streams
  <2>2. EndPending' <= EndPending
    BY <1>h, <2>1
  <2>3. CASE stream.revised
    <3>1. /\ faults'.left = faults.left /\ faults'.count["loss"] = 0
          /\ \A k \in Kind \ {"loss"} : faults'.count[k] = faults.count[k]
      BY <1>11, <1>b, <2>3 DEF NextGeneration, Forgiven, Tallies
    <3>2. stream'.attempt = 0
      BY <1>11, <2>3 DEF NextGeneration, Streams
    <3>3. \A k \in Kind : faults'.left + faults'.count[k] <= faults.left + faults.count[k]
      BY <1>a, <1>b, <3>1
    <3> QED
      BY <1>j, <2>1, <2>2, <3>1, <3>2, <3>3
  <2>4. CASE ~stream.revised
    <3>1. stream'.attempt = stream.attempt /\ UNCHANGED faults
      BY <1>11, <2>4 DEF NextGeneration, Streams
    <3> QED
      BY <1>a, <1>b, <1>e, <2>1, <2>2, <3>1
  <2> QED
    BY <2>3, <2>4
<1>12. CASE RetryEnds
  <2>1. stream'.at # "lost" /\ stream'.attempt = stream.attempt /\ UNCHANGED <<feed, faults>>
    BY <1>12 DEF Streams, RetryEnds, MayRetry
  <2> QED
    BY <1>a, <1>b, <1>e, <1>i, <2>1
<1>13. CASE PageFails
  <2>1. UNCHANGED faults \/ Fault({"page"})
    BY <1>13 DEF PageFails
  <2>2. \A k \in Kind : /\ faults'.left + faults'.count[k] <= faults.left + faults.count[k]
                        /\ faults.count[k] <= faults'.count[k]
    BY <1>a, <1>c, <2>1
  <2>3. UNCHANGED feed /\ stream'.at # "lost" /\ stream'.attempt = stream.attempt
    BY <1>13 DEF PageFails, Rejects, Streams
  <2> QED
    BY <1>a, <1>b, <1>e, <1>i, <2>2, <2>3
<1>14. CASE PageOvertaken
  <2>1. stream'.at # "lost" /\ stream'.attempt = stream.attempt /\ UNCHANGED <<feed, faults>>
    BY <1>14 DEF Streams, PageOvertaken, Rejects
  <2> QED
    BY <1>a, <1>b, <1>e, <1>i, <2>1
<1>15. CASE Open
  <2>1. stream'.at # "lost" /\ stream'.attempt = stream.attempt /\ UNCHANGED <<feed, faults>>
    BY <1>15 DEF Streams, Open
  <2> QED
    BY <1>a, <1>b, <1>e, <1>i, <2>1
<1>16. CASE Restart
  <2>1. Fault({"calm"})
    BY <1>16 DEF Restart
  <2>2. \A k \in Kind : /\ faults'.left + faults'.count[k] <= faults.left + faults.count[k]
                        /\ faults.count[k] <= faults'.count[k]
    BY <1>c, <2>1
  <2>3. feed' = <<>> /\ (stream'.at # "lost" \/ stream.at = "lost") /\ stream'.attempt = stream.attempt
    BY <1>16 DEF Restart, Streams
  <2> QED
    BY <1>a, <1>b, <1>e, <1>h, <2>2, <2>3
<1>17. CASE Dispose
  <2>1. Fault({"calm"})
    BY <1>17 DEF Dispose
  <2>2. \A k \in Kind : /\ faults'.left + faults'.count[k] <= faults.left + faults.count[k]
                        /\ faults.count[k] <= faults'.count[k]
    BY <1>c, <2>1
  <2>3. feed' = <<>> /\ (stream'.at # "lost" \/ stream.at = "lost") /\ stream'.attempt = stream.attempt
    BY <1>17 DEF Dispose, Streams
  <2> QED
    BY <1>a, <1>b, <1>e, <1>h, <2>2, <2>3
<1>18. ASSUME NEW at \in {"start", "wait"}, NEW n \in Nat,
            CarrierRetries(at, n)
       PROVE  LossesPaid'
  <2>1. /\ stream'.attempt = n /\ stream'.at # "lost" /\ stream.at = "lost"
        /\ n <= stream.attempt + 1 /\ UNCHANGED <<feed, faults>>
    BY <1>18, <1>a DEF CarrierRetries, Streams
  <2>2. n <= faults.count["loss"]
    BY <1>a, <1>b, <1>d, <2>1
  <2> QED
    BY <1>a, <1>b, <1>i, <1>j, <2>1, <2>2
<1>19. CASE CarrierGivesUp
  <2>1. stream'.at # "lost" /\ stream'.attempt = stream.attempt /\ feed' = <<>> /\ UNCHANGED faults
    BY <1>19 DEF Streams, CarrierGivesUp, Terminates
  <2> QED
    BY <1>a, <1>b, <1>e, <1>h, <2>1
<1>20. CASE OpeningRefused
  <2>1. stream'.at # "lost" /\ stream'.attempt = stream.attempt /\ UNCHANGED faults
    BY <1>20 DEF Streams, OpeningRefused, Rejects
  <2>2. EndPending' <= EndPending
    BY <1>20, <1>f DEF OpeningRefused
  <2> QED
    BY <1>a, <1>b, <1>e, <2>1, <2>2
<1>21. ASSUME NEW c \in Nat, NEW first \in Nat, OpeningApplied(c, first)
       PROVE  LossesPaid'
  <2>1. /\ stream'.attempt = 0 /\ stream'.at = "open"
    BY <1>21 DEF OpeningApplied, TakesFrame, Streams
  <2>2. EndPending' <= EndPending
    BY <1>21, <1>f DEF OpeningApplied
  <2>3. /\ faults'.left = faults.left /\ faults'.count["loss"] = 0
        /\ \A k \in Kind \ {"loss"} : faults'.count[k] = faults.count[k]
    BY <1>21, <1>b DEF OpeningApplied, Forgiven, Tallies
  <2>4. \A k \in Kind : faults'.left + faults'.count[k] <= faults.left + faults.count[k]
    BY <1>a, <1>b, <2>3
  <2> QED
    BY <1>j, <2>1, <2>2, <2>3, <2>4
<1>22. CASE EntryRepeated
  <2>1. UNCHANGED <<stream, faults>>
    BY <1>22 DEF EntryRepeated
  <2>2. EndPending' <= EndPending
    BY <1>22, <1>f DEF EntryRepeated
  <2> QED
    BY <1>a, <1>b, <1>e, <2>1, <2>2
<1>23. ASSUME NEW k \in Nat, EntryFollows(k) PROVE LossesPaid'
  <2>1. UNCHANGED <<stream, faults>>
    BY <1>23 DEF EntryFollows, FirstWith, Publishes
  <2>2. EndPending' <= EndPending
    BY <1>23, <1>f DEF EntryFollows
  <2> QED
    BY <1>a, <1>b, <1>e, <2>1, <2>2
<1>24. ASSUME NEW k \in Nat, EntryAhead(k) PROVE LossesPaid'
  <2>1. UNCHANGED <<stream, faults>>
    BY <1>24 DEF EntryAhead
  <2>2. EndPending' <= EndPending
    BY <1>24, <1>f DEF EntryAhead
  <2> QED
    BY <1>a, <1>b, <1>e, <2>1, <2>2
<1>25. ASSUME NEW k \in Nat, EntryQueued(k) PROVE LossesPaid'
  <2>1. UNCHANGED <<stream, faults>>
    BY <1>25 DEF EntryQueued
  <2>2. EndPending' <= EndPending
    BY <1>25, <1>f DEF EntryQueued
  <2> QED
    BY <1>a, <1>b, <1>e, <2>1, <2>2
<1>26. CASE EndRetried
  <2>1. stream'.attempt = stream.attempt /\ stream'.at = "lost"
    BY <1>26 DEF EndRetried, Streams
  <2>2. EndPending = 1 /\ EndPending' = 0
    BY <1>26, <1>f DEF EndRetried
  <2>3. /\ faults'.left = faults.left /\ faults'.count["loss"] = faults.count["loss"] + 1
        /\ \A k \in Kind \ {"loss"} : faults'.count[k] = faults.count[k]
    BY <1>26, <1>b DEF EndRetried, Tallies
  <2>4. stream.attempt + 1 <= faults.count["loss"] + 1
    BY <1>a, <1>b, <1>d
  <2>5. faults'.left + faults'.count["loss"] + EndPending' <= MaxFaults
    BY <1>a, <1>b, <2>2, <2>3 DEF LossesPaid
  <2>6. \A k \in Kind \ {"loss"} : faults'.left + faults'.count[k] <= MaxFaults
    BY <2>3 DEF LossesPaid
  <2> QED
    BY <2>1, <2>3, <2>4, <2>5, <2>6 DEF LossesPaid
<1>27. CASE EndFatal("end")
  <2>1. stream'.at # "lost" /\ stream'.attempt = stream.attempt /\ UNCHANGED faults
    BY <1>27 DEF Streams, EndFatal
  <2>2. EndPending' <= EndPending
    BY <1>27, <1>f DEF EndFatal
  <2> QED
    BY <1>a, <1>b, <1>e, <2>1, <2>2
<1>28. CASE EndFatal("error")
  <2>1. stream'.at # "lost" /\ stream'.attempt = stream.attempt /\ UNCHANGED faults
    BY <1>28 DEF Streams, EndFatal
  <2>2. EndPending' <= EndPending
    BY <1>28, <1>f DEF EndFatal
  <2> QED
    BY <1>a, <1>b, <1>e, <2>1, <2>2
<1>29. CASE PageHole
  <2>1. stream'.at # "lost" /\ stream'.attempt = stream.attempt /\ UNCHANGED <<feed, faults>>
    BY <1>29 DEF Streams, PageHole, PageAwaited, PageAborted, Rejects
  <2> QED
    BY <1>a, <1>b, <1>e, <1>i, <2>1
<1> QED
  BY <1>1, <1>2, <1>3, <1>4, <1>5, <1>6, <1>7, <1>8, <1>9, <1>10, <1>11, <1>12,
     <1>13, <1>14, <1>15, <1>16, <1>17, <1>18, <1>19, <1>20, <1>21, <1>22,
     <1>23, <1>24, <1>25, <1>26, <1>27, <1>28, <1>29
     DEF Step, Simple, Split

\* A repair looks for entries the journal has had.
LEMMA RepairShapeNext ==
  ASSUME feed \in Seq(Frames), host \in Hosts, host'.ever \in Nat,
         host.ever <= host'.ever, journal \in Journals,
         journal.last <= host.ever, PhaseAt, FramesFit, RepairShape, Step
  PROVE  RepairShape'
<1> USE DEF RepairShape
<1>a. /\ journal.repair.queued \subseteq Nat /\ journal.repair.through \in Nat /\ journal.last \in Nat
      /\ host.ever \in Nat /\ journal.repair.round \in {0, 1, 2}
  BY DEF Journals, Repairs, Hosts
<1>b. \A type : TakesFrame(type) => feed[1].cursor <= host.ever /\ feed[1].cursor \in Nat
  <2> SUFFICES ASSUME feed # <<>> PROVE feed[1].cursor <= host.ever /\ feed[1].cursor \in Nat
    BY DEF TakesFrame
  <2>1. Len(feed) \in Nat /\ Len(feed) # 0
    BY FrameTyped
  <2>2. 1 \in 1 .. Len(feed)
    BY <2>1
  <2> QED
    BY <2>2, FrameTyped DEF FramesFit
<1>c. NoRepair.round = 0
  BY DEF NoRepair
<1>d. ASSUME UNCHANGED journal PROVE RepairShape'
  BY <1>a, <1>d
<1>e. ASSUME journal'.phase # "repair", journal'.repair = NoRepair PROVE RepairShape'
  BY <1>c, <1>e
<1>1. CASE UNCHANGED vars \/ ConnectionDown \/ ConnectionUp \/ RetryEnds
            \/ (\E r \in Reader : PrependAsks(r))
            \/ (\E r \in Reader : PrependFails(r))
            \/ (\E at \in {"start", "wait"}, n \in Nat : CarrierRetries(at, n))
            \/ EntryRepeated \/ EndRetried
            \/ (\E r \in Reader : PrependMisses(r))
            \/ (\E r \in Reader : PrependEmpty(r))
  <2>1. UNCHANGED <<host, journal>>
    BY <1>1 DEF vars, ConnectionDown, ConnectionUp, RetryEnds, PrependAsks,
       PrependFails, CarrierRetries, EntryRepeated, EndRetried, PrependMisses,
       PrependAnswered, PrependEmpty
  <2> QED
    BY <2>1, <1>d
<1>2. CASE JournalGrows
  BY <1>2, <1>d DEF JournalGrows, Max2
<1>3. CASE HostOpens
  BY <1>3, <1>d DEF HostOpens
<1>4. CASE HostSends
  BY <1>4, <1>d DEF HostSends, Sends
<1>5. CASE HostSkips
  BY <1>5, <1>d DEF HostSkips, Sends, Fault
<1>6. CASE HostRepeats
  BY <1>6, <1>d DEF HostRepeats, Sends, Fault
<1>7. CASE HostStops("end")
  BY <1>7, <1>d DEF HostStops, Fault
<1>8. CASE HostStops("error")
  BY <1>8, <1>d DEF HostStops, Fault
<1>9. CASE CarrierLost
  BY <1>9, <1>d DEF CarrierLost, Fault, Unplugged
<1>10. CASE HostForgets
  BY <1>10, <1>d DEF HostForgets, Fault, Unplugged
<1>11. CASE NextGeneration
  BY <1>11, <1>d DEF NextGeneration
<1>12. CASE PageFails
  BY <1>12, <1>e DEF Journals, PageFails, PageAborted, Rejects, Fault
<1>13. CASE PageOvertaken
  BY <1>13, <1>e DEF Journals, PageOvertaken, Rejects
<1>14. CASE PageStale
  BY <1>14, <1>e DEF Journals, PageStale, PageAborted
<1>15. CASE Open
  BY <1>15 DEF Journals, Open
<1>16. CASE Restart
  BY <1>16, <1>d DEF Restart, Fault
<1>17. CASE Dispose
  BY <1>17, <1>e DEF Journals, Dispose, Fault
<1>18. CASE CarrierGivesUp
  BY <1>18, <1>e DEF Journals, CarrierGivesUp, Terminates
<1>19. CASE OpeningRefused
  BY <1>19, <1>e DEF Journals, OpeningRefused, Rejects
<1>20. ASSUME NEW c \in Nat, NEW first \in Nat, OpeningApplied(c, first)
       PROVE  RepairShape'
  BY <1>20, <1>e DEF Journals, OpeningApplied
<1>21. ASSUME NEW k \in Nat, EntryFollows(k) PROVE RepairShape'
  BY <1>21 DEF Journals, EntryFollows, FirstWith
<1>22. ASSUME NEW k \in Nat, EntryAhead(k) PROVE RepairShape'
  <2> DEFINE known == journal'.repair.queued \union {journal'.repair.through}
  <2>1. /\ journal'.phase = "repair" /\ journal'.repair.round = 1 /\ journal'.repair.through = k
        /\ journal'.repair.queued = {k} /\ journal'.last = journal.last /\ host' = host
        /\ k > journal.last + 1
    BY <1>22 DEF EntryAhead, Journals
  <2>2. k <= host.ever
    BY <1>22, <1>b DEF EntryAhead
  <2>3. journal.last < k
    BY <1>a, <2>1
  <2> QED
    BY <2>1, <2>2, <2>3
<1>23. ASSUME NEW k \in Nat, EntryQueued(k) PROVE RepairShape'
  <2>1. /\ journal'.phase = "repair" /\ journal'.repair.round = journal.repair.round
        /\ journal'.repair.through = journal.repair.through /\ journal.phase = "repair"
        /\ journal'.repair.queued = journal.repair.queued \union {k}
        /\ journal'.last = journal.last /\ host' = host
    BY <1>23 DEF EntryQueued, Journals, Repairs
  <2>2. k <= host.ever
    BY <1>23, <1>b DEF EntryQueued
  <2>3. PICK m \in journal.repair.queued \union {journal.repair.through} :
            \A j \in journal.repair.queued \union {journal.repair.through} : j <= m
    BY <2>1
  <2>4. m \in Nat
    BY <1>a
  <2> DEFINE top == IF k <= m THEN m ELSE k
  <2>5. top \in journal'.repair.queued \union {journal'.repair.through}
    BY <2>1, <2>3
  <2>6. ASSUME NEW j \in journal'.repair.queued \union {journal'.repair.through}
        PROVE  j <= top /\ j <= host.ever
    <3>1. j = k \/ j \in journal.repair.queued \union {journal.repair.through}
      BY <2>1, <2>6
    <3>2. j \in Nat /\ j <= host.ever
      BY <1>a, <2>1, <2>2, <3>1
    <3>3. j = k \/ j <= m
      BY <2>3, <3>1
    <3> QED
      BY <2>4, <3>2, <3>3
  <2> QED
    BY <1>a, <2>1, <2>5, <2>6
<1>24. ASSUME NEW k \in Nat, PageReread(k) PROVE RepairShape'
  <2>1. /\ journal'.phase = "repair" /\ journal'.repair.round = 2
        /\ journal'.repair.through = k /\ journal.phase = "repair"
        /\ journal'.repair.queued = journal.repair.queued
        /\ journal'.last = journal.last /\ host' = host /\ k = Target(journal.repair)
    BY <1>24 DEF PageReread, PageAwaited, Journals, Repairs
  <2>2. Topmost(k)
    BY <2>1, TargetIs
  <2>3. journal.last < journal.repair.through /\ journal.repair.through <= k
    BY <2>1, <2>2 DEF Topmost
  <2>4. journal.last < k
    BY <1>a, <2>3
  <2> QED
    BY <1>a, <2>1, <2>2, <2>4 DEF Topmost
<1>25. CASE EndFatal("end")
  BY <1>25, <1>e DEF Journals, EndFatal
<1>26. CASE EndFatal("error")
  BY <1>26, <1>e DEF Journals, EndFatal
<1>27. CASE PageHole
  BY <1>27, <1>e DEF Journals, PageHole, PageAwaited, PageAborted, Rejects
<1>28. ASSUME NEW first \in Nat, NEW last \in Nat, PageFits(first, last)
       PROVE  RepairShape'
  BY <1>28, <1>e DEF Journals, PageFits, PageAwaited, PageAborted
<1>29. ASSUME NEW r \in Reader, NEW first \in Nat, PrependFits(r, first)
       PROVE  RepairShape'
  BY <1>29 DEF Journals, PrependFits, PrependAnswered
<1> QED
  BY <1>1, <1>2, <1>3, <1>4, <1>5, <1>6, <1>7, <1>8, <1>9, <1>10, <1>11, <1>12,
     <1>13, <1>14, <1>15, <1>16, <1>17, <1>18, <1>19, <1>20, <1>21, <1>22,
     <1>23, <1>24, <1>25, <1>26, <1>27, <1>28, <1>29
     DEF Step, Simple, Split

\* The frames under way continue what was taken.
LEMMA FeedContinuesNext ==
  ASSUME feed \in Seq(Frames), host \in Hosts, stream \in Streams,
         journal \in Journals, faults \in Tallies, CountsKept, RepairShape,
         PhaseAt, ServesAt, FramesFit, GenShape, FeedContinues, Step
  PROVE  FeedContinues'
<1> DEFINE limit == faults.count["skip"]
<1>a. /\ limit \in Nat /\ limit' \in Nat /\ limit <= limit' /\ 0 \in Nat /\ 0 <= limit'
      /\ journal.last \in Nat
  BY DEF CountsKept, Kind, Journals
<1>b. Taken \in Nat /\ Holes \in Nat /\ 0 <= Holes /\ (Consuming => Holes <= limit)
  <2>1. Taken \in Nat
    BY <1>a, TargetIs DEF Taken
  <2>2. Holes \in Nat
    BY DEF Holes, Journals, Repairs
  <2>3. Consuming => Holes <= limit
    BY <1>a, <2>1, <2>2, ContinuesMeans DEF FeedContinues
  <2> QED
    BY <2>1, <2>2, <2>3
<1>c. \A type \in {"end", "error"} : TakesFrame(type) => feed' = <<>> /\ host.serving = "no"
  BY TailIs DEF TakesFrame, FramesFit, Ending
<1>d. TakesFrame("entry") =>
          Taken <= feed[1].cursor /\ feed[1].cursor <= Taken + 2 /\ feed[1].cursor \in Nat
  BY <1>a, <1>b, ContinuesMeans, HeadTyped DEF TakesFrame, FeedContinues
<1>g. Consuming => (stream.gen # journal.gen => journal.gen < stream.gen)
  BY DEF PhaseAt, Streams, Journals
<1> HIDE DEF limit
\* The inbox is emptied.
<1>e. ASSUME feed' = <<>>, host'.serving # "yes", UNCHANGED journal PROVE FeedContinues'
  <2>1. Taken' = Taken /\ Holes' = Holes /\ Consuming' = Consuming
    BY <1>e DEF Taken, Holes, Consuming
  <2>2. Consuming => Continues(<<>>, limit', Taken, Holes)
    <3>1. Consuming => Holes <= limit'
      BY <1>a, <1>b
    <3> QED
      BY <1>a, <1>b, <3>1, ContinuesEmpty
  <2> QED
    BY <1>e, <2>1, <2>2 DEF FeedContinues, limit
\* Nothing moves in the inbox.
<1>k. ASSUME UNCHANGED feed, host'.serving = host.serving, host'.sent = host.sent,
             Taken' = Taken, Holes' \in Nat, Holes' <= Holes, Consuming' => Consuming
      PROVE  FeedContinues'
  <2>1. Consuming => Continues(feed, limit', Taken, Holes')
    BY <1>a, <1>b, <1>k, ContinuesKept DEF FeedContinues, limit
  <2> QED
    BY <1>k, <2>1 DEF FeedContinues, limit
\* A frame is sent.
<1>s. ASSUME NEW f \in Frames, feed' = Append(feed, f), UNCHANGED journal,
             host'.serving = "yes" => host'.sent = f.cursor,
             Consuming /\ f.type = "entry" =>
                 /\ Reached(feed, Taken) <= f.cursor /\ f.cursor <= Reached(feed, Taken) + 2
                 /\ f.cursor = Reached(feed, Taken) + 2 => limit < limit'
      PROVE  FeedContinues'
  <2>1. Taken' = Taken /\ Holes' = Holes /\ Consuming' = Consuming
    BY <1>s DEF Taken, Holes, Consuming
  <2>2. Consuming => Continues(feed', limit', Taken, Holes)
    BY <1>a, <1>b, <1>s, ContinuesSent DEF FeedContinues, limit
  <2>3. Reached(feed', Taken) = f.cursor
    BY <1>s, AppendIs DEF Reached
  <2> QED
    BY <1>s, <2>1, <2>2, <2>3 DEF FeedContinues, limit
\* A frame is taken.
<1>t. ASSUME NEW type, TakesFrame(type), UNCHANGED host, Taken' = feed[1].cursor, Holes' \in Nat,
             \/ Holes' <= Holes
             \/ Holes' <= Holes + 1 /\ feed[1].type = "entry" /\ feed[1].cursor = Taken + 2
      PROVE  FeedContinues'
  <2>1. Consuming /\ feed # <<>> /\ feed' = Tail(feed)
    BY <1>t DEF TakesFrame
  <2>2. Continues(Tail(feed), limit', feed[1].cursor, Holes')
    BY <1>a, <1>b, <1>t, <2>1, ContinuesTaken DEF FeedContinues, limit
  <2>3. Reached(feed', feed[1].cursor) = Reached(feed, Taken)
    <3>1. /\ Len(feed) \in Nat /\ Len(feed) >= 1 /\ Len(feed') = Len(feed) - 1
          /\ \A i \in 1 .. Len(feed) - 1 : feed'[i] = feed[i + 1]
          /\ feed' = <<>> <=> Len(feed) = 1
      BY <2>1, TailIs
    <3>2. CASE Len(feed) = 1
      BY <2>1, <3>1, <3>2 DEF Reached
    <3>3. CASE Len(feed) # 1
      <4>1. Len(feed) - 1 \in 1 .. Len(feed) - 1 /\ (Len(feed) - 1) + 1 = Len(feed)
        BY <3>1, <3>3
      <4>2. feed'[Len(feed')] = feed[Len(feed)]
        BY <3>1, <4>1
      <4> QED
        BY <2>1, <3>1, <3>3, <4>2 DEF Reached
    <3> QED
      BY <3>2, <3>3
  <2> QED
    BY <1>t, <2>1, <2>2, <2>3 DEF FeedContinues, limit
<1>1. CASE UNCHANGED vars \/ ConnectionUp \/ RetryEnds
            \/ (\E r \in Reader : PrependAsks(r))
            \/ (\E r \in Reader : PrependFails(r))
            \/ (\E at \in {"start", "wait"}, n \in Nat : CarrierRetries(at, n))
            \/ (\E r \in Reader : PrependMisses(r))
            \/ (\E r \in Reader : PrependEmpty(r))
  <2>1. UNCHANGED <<host, feed, journal, faults>>
    BY <1>1 DEF vars, ConnectionUp, RetryEnds, PrependAsks, PrependFails,
       CarrierRetries, PrependMisses, PrependAnswered, PrependEmpty
  <2> QED
    BY <2>1, <1>b, <1>k DEF Taken, Holes, Consuming
<1>2. CASE JournalGrows
  <2>1. UNCHANGED journal
    BY <1>2 DEF JournalGrows, Hosts
  <2>2. Taken' = Taken /\ Holes' = Holes /\ Consuming' = Consuming
    BY <2>1 DEF Taken, Holes, Consuming
  <2>3. UNCHANGED feed /\ host'.serving = host.serving /\ host'.sent = host.sent
    BY <1>2 DEF JournalGrows, Hosts
  <2> QED
    BY <1>b, <2>2, <2>3, <1>k
<1>3. CASE HostOpens
  <2> DEFINE f == [type |-> "opened", cursor |-> host.len]
  <2>1. f \in Frames /\ f.type # "entry" /\ f.cursor = host.len
    BY DEF Frames, Hosts
  <2>2. feed = <<>>
    BY <1>3 DEF HostOpens, ServesAt
  <2>3. feed' = Append(feed, f) /\ UNCHANGED journal /\ host'.sent = f.cursor
    BY <1>3, <2>2 DEF HostOpens, Hosts
  <2> HIDE DEF f
  <2> QED
    BY <2>1, <2>3, <1>s
<1>4. CASE HostSends
  <2> DEFINE f == [type |-> "entry", cursor |-> host.sent + 1]
  <2>1. f \in Frames
    BY DEF Frames, Hosts
  <2>2. /\ feed' = Append(feed, f) /\ UNCHANGED journal /\ host.serving = "yes"
        /\ host'.sent = f.cursor
    BY <1>4 DEF HostSends, Sends, Hosts
  <2>5. host.sent \in Nat /\ f.cursor = host.sent + 1
    BY DEF Hosts
  <2> HIDE DEF f
  <2>6. Consuming => f.cursor = Reached(feed, Taken) + 1 /\ Reached(feed, Taken) \in Nat
    BY <2>2, <2>5 DEF FeedContinues
  <2>7. Consuming => /\ Reached(feed, Taken) <= f.cursor /\ f.cursor <= Reached(feed, Taken) + 2
                     /\ f.cursor = Reached(feed, Taken) + 2 => limit < limit'
    BY <2>6, <1>a
  <2> QED
    BY <2>1, <2>2, <2>7, <1>s
<1>5. CASE HostSkips
  <2> DEFINE f == [type |-> "entry", cursor |-> host.sent + 2]
  <2>1. f \in Frames
    BY DEF Frames, Hosts
  <2>2. /\ feed' = Append(feed, f) /\ UNCHANGED journal /\ host.serving = "yes"
        /\ host'.sent = f.cursor
    BY <1>5 DEF HostSkips, Sends, Hosts
  <2>3. Fault({"skip"}) /\ "skip" \in Kind
    BY <1>5 DEF HostSkips, Kind
  <2>4. limit' = limit + 1 /\ limit < limit + 1
    BY <1>a, <2>3, FaultIs DEF limit
  <2>5. host.sent \in Nat /\ f.cursor = host.sent + 2
    BY DEF Hosts
  <2> HIDE DEF f
  <2>6. Consuming => f.cursor = Reached(feed, Taken) + 2 /\ Reached(feed, Taken) \in Nat
    BY <2>2, <2>5 DEF FeedContinues
  <2>7. Consuming => /\ Reached(feed, Taken) <= f.cursor /\ f.cursor <= Reached(feed, Taken) + 2
                     /\ f.cursor = Reached(feed, Taken) + 2 => limit < limit'
    BY <2>6, <2>4, <1>a
  <2> QED
    BY <2>1, <2>2, <2>7, <1>s
<1>6. CASE HostRepeats
  <2> DEFINE f == [type |-> "entry", cursor |-> host.sent]
  <2>1. f \in Frames
    BY DEF Frames, Hosts
  <2>2. /\ feed' = Append(feed, f) /\ UNCHANGED journal /\ host.serving = "yes"
        /\ host'.sent = f.cursor
    BY <1>6 DEF HostRepeats, Sends, Hosts
  <2>5. host.sent \in Nat /\ f.cursor = host.sent
    BY DEF Hosts
  <2> HIDE DEF f
  <2>6. Consuming => f.cursor = Reached(feed, Taken) /\ Reached(feed, Taken) \in Nat
    BY <2>2, <2>5 DEF FeedContinues
  <2>7. Consuming => /\ Reached(feed, Taken) <= f.cursor /\ f.cursor <= Reached(feed, Taken) + 2
                     /\ f.cursor = Reached(feed, Taken) + 2 => limit < limit'
    BY <2>6, <1>a
  <2> QED
    BY <2>1, <2>2, <2>7, <1>s
<1>7. CASE HostStops("end")
  <2> DEFINE f == [type |-> "end", cursor |-> 0]
  <2>1. f \in Frames /\ f.type # "entry"
    BY DEF Frames
  <2>2. feed' = Append(feed, f) /\ UNCHANGED journal /\ host'.serving = "no"
    BY <1>7 DEF HostStops, Hosts
  <2> HIDE DEF f
  <2> QED
    BY <2>1, <2>2, <1>s
<1>8. CASE HostStops("error")
  <2> DEFINE f == [type |-> "error", cursor |-> 0]
  <2>1. f \in Frames /\ f.type # "entry"
    BY DEF Frames
  <2>2. feed' = Append(feed, f) /\ UNCHANGED journal /\ host'.serving = "no"
    BY <1>8 DEF HostStops, Hosts
  <2> HIDE DEF f
  <2> QED
    BY <2>1, <2>2, <1>s
<1>9. CASE CarrierLost
  <2>1. feed' = <<>> /\ host'.serving # "yes" /\ UNCHANGED journal
    BY <1>9 DEF CarrierLost, Hosts, Unplugged
  <2> QED
    BY <2>1, <1>e
<1>10. CASE HostForgets
  <2>1. feed' = <<>> /\ host'.serving # "yes" /\ UNCHANGED journal
    BY <1>10 DEF HostForgets, Hosts, Unplugged
  <2> QED
    BY <2>1, <1>e
<1>11. CASE ConnectionDown
  <2>1. UNCHANGED journal
    BY <1>11 DEF ConnectionDown
  <2>2. Taken' = Taken /\ Holes' = Holes /\ Consuming' = Consuming
    BY <2>1 DEF Taken, Holes, Consuming
  <2>3. UNCHANGED feed /\ host'.serving = host.serving /\ host'.sent = host.sent
    BY <1>11 DEF ConnectionDown
  <2> QED
    BY <1>b, <2>2, <2>3, <1>k
<1>12. CASE NextGeneration
  <2>1. feed' = <<>> /\ host'.serving # "yes" /\ UNCHANGED journal
    BY <1>12 DEF NextGeneration, Hosts
  <2> QED
    BY <2>1, <1>e
<1>13. CASE PageFails
  <2>1. ~Consuming'
    BY <1>13 DEF Consuming, Journals, PageFails, Rejects
  <2> QED
    BY <2>1 DEF FeedContinues
<1>14. CASE PageOvertaken
  <2>1. ~Consuming'
    BY <1>14 DEF Consuming, Journals, PageOvertaken, Rejects
  <2> QED
    BY <2>1 DEF FeedContinues
<1>15. CASE PageStale
  <2>1. /\ journal'.phase = "stale" /\ journal'.last = journal.last
        /\ journal.phase = "repair" /\ UNCHANGED <<feed, host>> /\ PageAborted
    BY <1>15 DEF PageStale, Journals
  <2>2. Taken' = journal.last /\ Holes' = 0
    BY <2>1 DEF Taken, Holes
  <2>3. feed # <<>> => feed[1].type # "entry"
    BY <1>a, <1>g, <2>1 DEF PageAborted, PhaseAt, ServesAt, GenShape, Consuming
  <2>4. host.serving = "yes" => feed # <<>>
    BY <1>a, <1>g, <2>1 DEF PageAborted, PhaseAt, ServesAt, GenShape, Consuming, Unopened
  <2>5. Continues(feed, limit', journal.last, 0)
    BY <1>a, <1>b, <2>1, <2>3, ContinuesKept DEF Consuming, FeedContinues, limit
  <2>6. host.serving = "yes" => host.sent = Reached(feed, journal.last)
    BY <2>1, <2>4 DEF FeedContinues, Reached, Consuming
  <2> QED
    BY <2>1, <2>2, <2>5, <2>6 DEF FeedContinues, limit
<1>16. CASE Open
  <2>1. feed = <<>> /\ host.serving = "no" /\ UNCHANGED <<feed, host>>
    BY <1>16 DEF Open, PhaseAt, ServesAt, Hosts
  <2>2. Taken' = journal.last /\ Holes' = 0
    BY <1>16 DEF Open, Journals, Taken, Holes
  <2>3. Continues(<<>>, limit', journal.last, 0)
    BY <1>a, ContinuesEmpty
  <2> QED
    BY <2>1, <2>2, <2>3 DEF FeedContinues, limit
<1>17. CASE Restart
  <2>1. feed' = <<>> /\ host'.serving # "yes" /\ UNCHANGED journal
    BY <1>17 DEF Restart, Hosts
  <2> QED
    BY <2>1, <1>e
<1>18. CASE Dispose
  <2>1. ~Consuming'
    BY <1>18 DEF Consuming, Journals, Dispose
  <2> QED
    BY <2>1 DEF FeedContinues
<1>19. CASE CarrierGivesUp
  <2>1. ~Consuming'
    BY <1>19 DEF Consuming, Journals, CarrierGivesUp, Terminates
  <2> QED
    BY <2>1 DEF FeedContinues
<1>20. CASE OpeningRefused
  <2>1. ~Consuming'
    BY <1>20 DEF Consuming, Journals, OpeningRefused, Rejects
  <2> QED
    BY <2>1 DEF FeedContinues
<1>21. ASSUME NEW c \in Nat, NEW first \in Nat, OpeningApplied(c, first)
       PROVE  FeedContinues'
  <2>1. TakesFrame("opened") /\ UNCHANGED host
    BY <1>21 DEF OpeningApplied
  <2>2. Taken' = feed[1].cursor /\ Holes' = 0
    BY <1>21 DEF OpeningApplied, Journals, Taken, Holes
  <2> QED
    BY <1>t, <1>a, <1>b, <2>1, <2>2
<1>22. CASE EntryRepeated
  <2>1. TakesFrame("entry") /\ UNCHANGED <<host, journal>> /\ journal.phase = "live"
    BY <1>22 DEF EntryRepeated
  <2>2. Taken = journal.last /\ Holes = 0 /\ Taken' = journal.last /\ Holes' = 0
    BY <2>1 DEF Taken, Holes
  <2>3. feed[1].cursor <= journal.last /\ feed[1].cursor \in Nat /\ Taken <= feed[1].cursor
    BY <1>22, <1>d, <2>1 DEF EntryRepeated
  <2>4. Taken' = feed[1].cursor
    BY <1>a, <2>2, <2>3
  <2> QED
    BY <1>t, <2>1, <2>2, <2>4
<1>23. ASSUME NEW k \in Nat, EntryFollows(k) PROVE FeedContinues'
  <2>1. TakesFrame("entry") /\ UNCHANGED host /\ journal.phase = "live"
    BY <1>23 DEF EntryFollows
  <2>2. Holes = 0 /\ Taken' = feed[1].cursor /\ Holes' = 0
    BY <1>23, <2>1 DEF EntryFollows, Journals, Taken, Holes
  <2> QED
    BY <1>t, <2>1, <2>2
<1>24. ASSUME NEW k \in Nat, EntryAhead(k) PROVE FeedContinues'
  <2>1. TakesFrame("entry") /\ UNCHANGED host /\ journal.phase = "live"
    BY <1>24 DEF EntryAhead
  <2>2. /\ journal'.phase = "repair" /\ journal'.repair.round = 1
        /\ journal'.repair.through = k /\ journal'.repair.queued = {k}
    BY <1>24 DEF EntryAhead, Journals
  <2>3. k = feed[1].cursor /\ k > journal.last + 1
    BY <1>24 DEF EntryAhead
  <2>4. Taken' = k
    <3>1. Target(journal'.repair) = CHOOSE c \in {k} : \A d \in {k} : d <= c
      BY <2>2 DEF Target
    <3> QED
      BY <2>2, <3>1 DEF Taken
  <2>5. Holes' = 1
    <3>1. (k + 1) .. k = {}
      OBVIOUS
    <3>2. Target(journal'.repair) = k /\ journal'.repair.through = k
      BY <2>2, <2>4 DEF Taken
    <3>3. Merges(journal'.repair)
      BY <3>1, <3>2 DEF Merges
    <3> QED
      BY <2>2, <3>3 DEF Holes
  <2>6. Taken = journal.last /\ Holes = 0
    BY <2>1 DEF Taken, Holes
  <2>7. k <= journal.last + 2
    BY <1>d, <2>1, <2>3, <2>6
  <2>8. feed[1].cursor = Taken + 2 /\ feed[1].type = "entry"
    BY <1>a, <2>1, <2>3, <2>6, <2>7 DEF TakesFrame
  <2> QED
    BY <1>t, <2>1, <2>3, <2>4, <2>5, <2>6, <2>8
<1>25. ASSUME NEW k \in Nat, EntryQueued(k) PROVE FeedContinues'
  <2>1. TakesFrame("entry") /\ UNCHANGED host /\ journal.phase = "repair"
    BY <1>25 DEF EntryQueued
  <2>2. /\ journal'.phase = "repair" /\ journal'.repair.round = journal.repair.round
        /\ journal'.repair.through = journal.repair.through
        /\ journal'.repair.queued = journal.repair.queued \union {k}
    BY <1>25 DEF EntryQueued, Journals, Repairs
  <2> DEFINE top == Target(journal.repair)
  <2>3. /\ top \in Nat /\ Topmost(top) /\ journal.repair.through <= top
        /\ Taken = top /\ k = feed[1].cursor
    BY <1>25, <2>1, TargetIs DEF Topmost, Taken, EntryQueued
  <2> HIDE DEF top
  <2>4. top <= k /\ k <= top + 2
    BY <1>d, <2>1, <2>3
  <2>5. /\ journal.repair.queued \subseteq Nat /\ journal.repair.through \in Nat
        /\ journal.repair.round \in {0, 1, 2}
    BY DEF Journals, Repairs
  <2>6. ASSUME NEW j \in journal'.repair.queued \union {journal'.repair.through}
        PROVE  j <= k /\ j \in Nat
    <3>1. j = k \/ j \in journal.repair.queued \union {journal.repair.through}
      BY <2>2, <2>6
    <3>2. j = k \/ j <= top
      BY <2>3, <3>1 DEF Topmost
    <3>3. j \in Nat
      BY <2>5, <3>1
    <3> QED
      BY <2>3, <2>4, <3>2, <3>3
  <2>7. Target(journal'.repair) = k
    <3> DEFINE known == journal'.repair.queued \union {journal'.repair.through}
    <3>1. k \in known
      BY <2>2
    <3>2. Target(journal'.repair) = CHOOSE c \in known : \A d \in known : d <= c
      BY DEF Target
    <3>3. \A d \in known : d <= k /\ d \in Nat
      BY <2>6
    <3> HIDE DEF known
    <3>4. /\ Target(journal'.repair) \in known
          /\ \A d \in known : d <= Target(journal'.repair)
      BY <3>1, <3>2, <3>3
    <3>5. Target(journal'.repair) <= k /\ k <= Target(journal'.repair)
      BY <3>1, <3>3, <3>4
    <3>6. Target(journal'.repair) \in Nat /\ k \in Nat
      BY <3>1, <3>3, <3>4
    <3> QED
      BY <3>5, <3>6
  <2>8. Taken' = feed[1].cursor
    BY <2>2, <2>3, <2>7 DEF Taken
  <2> DEFINE old == IF Merges(journal.repair) THEN 0 ELSE 1
             new == IF Merges(journal'.repair) THEN 0 ELSE 1
  <2>12. Holes = journal.repair.round + old /\ Holes' = journal.repair.round + new
    BY <2>1, <2>2 DEF Holes
  <2>13. old \in {0, 1} /\ new \in {0, 1}
    OBVIOUS
  <2> HIDE DEF old, new
  <2>9. Holes' \in Nat /\ Holes \in Nat /\ Holes' <= Holes + 1
    <3>1. journal.repair.round \in Nat
      BY <2>5
    <3>2. old \in Nat /\ new \in Nat /\ new <= old + 1
      BY <2>13
    <3> QED
      BY <2>12, <3>1, <3>2
  <2>10. CASE k = top + 2
    BY <1>t, <2>1, <2>3, <2>8, <2>9, <2>10 DEF TakesFrame
  <2>11. CASE k <= top + 1
    <3>1. Merges(journal.repair) => Merges(journal'.repair)
      <4> SUFFICES ASSUME Merges(journal.repair), NEW i \in (journal.repair.through + 1) .. k
                   PROVE  i \in Beyond(journal'.repair)
        BY <2>2, <2>7 DEF Merges
      <4>1. i > journal.repair.through /\ i \in Nat
        BY <2>5
      <4>2. CASE i = k
        BY <2>2, <4>1, <4>2 DEF Beyond
      <4>3. CASE i # k
        <5>1. i \in (journal.repair.through + 1) .. top
          BY <2>3, <2>5, <2>11, <4>1, <4>3
        <5>2. i \in Beyond(journal.repair)
          BY <5>1 DEF Merges, top
        <5> QED
          BY <2>2, <5>2 DEF Beyond
      <4> QED
        BY <4>2, <4>3
    <3>2. Holes' <= Holes
      BY <2>5, <2>12, <2>13, <3>1 DEF old, new
    <3> QED
      BY <1>t, <2>1, <2>8, <2>9, <3>2
  <2> QED
    BY <2>3, <2>4, <2>10, <2>11
<1>26. ASSUME NEW k \in Nat, PageReread(k) PROVE FeedContinues'
  <2>1. /\ journal'.phase = "repair" /\ journal'.repair.round = 2
        /\ journal'.repair.through = k /\ journal.phase = "repair"
        /\ journal'.repair.queued = journal.repair.queued
        /\ k = Target(journal.repair) /\ UNCHANGED <<feed, host>>
        /\ ~Merges(journal.repair) /\ journal.repair.round = 1
    BY <1>26 DEF PageReread, PageAwaited, Journals, Repairs
  <2>2. Topmost(k) /\ k \in Nat
    BY <2>1, TargetIs
  <2>3. Target(journal'.repair) = k
    <3> DEFINE known == journal'.repair.queued \union {journal'.repair.through}
    <3>1. k \in known
      BY <2>1
    <3>2. Target(journal'.repair) = CHOOSE c \in known : \A d \in known : d <= c
      BY DEF Target
    <3>3. \A d \in known : d <= k /\ d \in Nat
      BY <2>1, <2>2 DEF Topmost, Journals, Repairs
    <3> HIDE DEF known
    <3>4. /\ Target(journal'.repair) \in known
          /\ \A d \in known : d <= Target(journal'.repair)
      BY <3>1, <3>2, <3>3
    <3>5. Target(journal'.repair) <= k /\ k <= Target(journal'.repair)
      BY <3>1, <3>3, <3>4
    <3>6. Target(journal'.repair) \in Nat /\ k \in Nat
      BY <3>1, <3>3, <3>4
    <3> QED
      BY <3>5, <3>6
  <2>4. Merges(journal'.repair)
    <3>1. (k + 1) .. k = {}
      BY <2>2
    <3> QED
      BY <2>1, <2>3, <3>1 DEF Merges
  <2>5. Taken' = Taken /\ Holes' = 2 /\ Holes = 2
    BY <2>1, <2>3, <2>4 DEF Taken, Holes
  <2> QED
    BY <1>k, <2>1, <2>5 DEF Consuming
<1>27. CASE EndRetried
  <2>1. feed' = <<>> /\ host.serving = "no" /\ UNCHANGED <<host, journal>>
    BY <1>27, <1>c DEF EndRetried
  <2> QED
    BY <2>1, <1>e
<1>28. CASE EndFatal("end")
  <2>1. ~Consuming'
    BY <1>28 DEF Consuming, Journals, EndFatal
  <2> QED
    BY <2>1 DEF FeedContinues
<1>29. CASE EndFatal("error")
  <2>1. ~Consuming'
    BY <1>29 DEF Consuming, Journals, EndFatal
  <2> QED
    BY <2>1 DEF FeedContinues
<1>30. CASE PageHole
  <2>1. ~Consuming'
    BY <1>30 DEF Consuming, Journals, PageHole, Rejects
  <2> QED
    BY <2>1 DEF FeedContinues
<1>31. ASSUME NEW first \in Nat, NEW last \in Nat, PageFits(first, last)
       PROVE  FeedContinues'
  <2>1. /\ journal'.phase = "live" /\ journal'.last = Target(journal.repair)
        /\ journal.phase = "repair" /\ UNCHANGED <<feed, host>>
    BY <1>31 DEF PageFits, PageAwaited, Journals
  <2>2. Taken' = Taken /\ Holes' = 0
    BY <2>1 DEF Taken, Holes
  <2> QED
    BY <1>k, <1>a, <1>b, <2>1, <2>2 DEF Consuming
<1>32. ASSUME NEW r \in Reader, NEW first \in Nat, PrependFits(r, first)
       PROVE  FeedContinues'
  <2>1. journal'.phase = journal.phase /\ journal'.repair = journal.repair /\ journal'.last = journal.last
    BY <1>32 DEF PrependFits, PrependAnswered, Journals
  <2>2. Taken' = Taken /\ Holes' = Holes /\ Consuming' = Consuming
    BY <2>1 DEF Taken, Holes, Consuming
  <2>3. UNCHANGED feed /\ host'.serving = host.serving /\ host'.sent = host.sent
    BY <1>32 DEF PrependFits, PrependAnswered, Journals
  <2> QED
    BY <1>b, <2>2, <2>3, <1>k
<1> QED
  BY <1>1, <1>2, <1>3, <1>4, <1>5, <1>6, <1>7, <1>8, <1>9, <1>10, <1>11, <1>12,
     <1>13, <1>14, <1>15, <1>16, <1>17, <1>18, <1>19, <1>20, <1>21, <1>22,
     <1>23, <1>24, <1>25, <1>26, <1>27, <1>28, <1>29, <1>30, <1>31, <1>32
     DEF Step, Simple, Split

\* The window stays the run between its two cursors.
LEMMA WindowShapeNext ==
  ASSUME shown \in Windows, journal \in Journals, host \in Hosts,
         reader \in Readers, feed \in Seq(Frames), host'.ever \in Nat,
         host.ever <= host'.ever, PhaseAt, FramesFit, RepairShape, WindowShape,
         Step
  PROVE  WindowShape'
<1>a. /\ host.ever \in Nat /\ journal.first \in Nat /\ journal.last \in Nat
      /\ \A r \in Reader : reader[r].before \in Nat
  BY DEF Hosts, Journals, Readers
<1>b. \A type : TakesFrame(type) => feed[1].cursor <= host.ever /\ feed[1].cursor \in Nat
  <2> SUFFICES ASSUME feed # <<>> PROVE feed[1].cursor <= host.ever /\ feed[1].cursor \in Nat
    BY DEF TakesFrame
  <2>1. Len(feed) \in Nat /\ Len(feed) # 0
    BY FrameTyped
  <2>2. 1 \in 1 .. Len(feed)
    BY <2>1
  <2> QED
    BY <2>2, FrameTyped DEF FramesFit
\* What the window is made of stays.
<1>c. ASSUME journal'.first = journal.first, journal'.last = journal.last,
             journal'.opened = journal.opened, UNCHANGED <<reader, shown>>
      PROVE  WindowShape'
  BY <1>a, <1>c DEF WindowShape
<1>1. CASE UNCHANGED vars \/ ConnectionDown \/ ConnectionUp \/ RetryEnds
            \/ (\E at \in {"start", "wait"}, n \in Nat : CarrierRetries(at, n))
            \/ EntryRepeated \/ EndRetried
  <2>1. UNCHANGED <<host, journal, reader, shown>>
    BY <1>1 DEF vars, ConnectionDown, ConnectionUp, RetryEnds, CarrierRetries,
       EntryRepeated, EndRetried
  <2> QED
    BY <2>1, <1>c
<1>2. CASE JournalGrows
  <2>1. UNCHANGED <<journal, reader, shown>>
    BY <1>2 DEF JournalGrows, Max2
  <2> QED
    BY <1>c, <2>1
<1>3. CASE HostOpens
  <2>1. UNCHANGED <<journal, reader, shown>>
    BY <1>3 DEF HostOpens
  <2> QED
    BY <1>c, <2>1
<1>4. CASE HostSends
  <2>1. UNCHANGED <<journal, reader, shown>>
    BY <1>4 DEF HostSends, Sends
  <2> QED
    BY <1>c, <2>1
<1>5. CASE HostSkips
  <2>1. UNCHANGED <<journal, reader, shown>>
    BY <1>5 DEF HostSkips, Sends
  <2> QED
    BY <1>c, <2>1
<1>6. CASE HostRepeats
  <2>1. UNCHANGED <<journal, reader, shown>>
    BY <1>6 DEF HostRepeats, Sends
  <2> QED
    BY <1>c, <2>1
<1>7. CASE HostStops("end")
  <2>1. UNCHANGED <<journal, reader, shown>>
    BY <1>7 DEF HostStops
  <2> QED
    BY <1>c, <2>1
<1>8. CASE HostStops("error")
  <2>1. UNCHANGED <<journal, reader, shown>>
    BY <1>8 DEF HostStops
  <2> QED
    BY <1>c, <2>1
<1>9. CASE CarrierLost
  <2>1. UNCHANGED <<journal, reader, shown>>
    BY <1>9 DEF CarrierLost
  <2> QED
    BY <1>c, <2>1
<1>10. CASE HostForgets
  <2>1. UNCHANGED <<journal, reader, shown>>
    BY <1>10 DEF HostForgets
  <2> QED
    BY <1>c, <2>1
<1>11. CASE NextGeneration
  <2>1. UNCHANGED <<journal, reader, shown>>
    BY <1>11 DEF NextGeneration
  <2> QED
    BY <1>c, <2>1
<1>12. CASE PageFails
  <2>1. /\ journal'.first = journal.first /\ journal'.last = journal.last
        /\ journal'.opened = journal.opened /\ UNCHANGED <<reader, shown>>
    BY <1>12 DEF Journals, PageFails, PageAborted, Rejects
  <2> QED
    BY <1>c, <2>1
<1>13. CASE PageOvertaken
  <2>1. /\ journal'.first = journal.first /\ journal'.last = journal.last
        /\ journal'.opened = journal.opened /\ UNCHANGED <<reader, shown>>
    BY <1>13 DEF Journals, PageOvertaken, Rejects
  <2> QED
    BY <1>c, <2>1
<1>14. CASE PageStale
  <2>1. /\ journal'.first = journal.first /\ journal'.last = journal.last
        /\ journal'.opened = journal.opened /\ UNCHANGED <<reader, shown>>
    BY <1>14 DEF Journals, PageStale, PageAborted
  <2> QED
    BY <1>c, <2>1
<1>15. CASE Open
  <2>1. /\ journal'.first = journal.first /\ journal'.last = journal.last
        /\ journal'.opened = journal.opened /\ UNCHANGED <<reader, shown>>
    BY <1>15 DEF Journals, Open
  <2> QED
    BY <1>c, <2>1
<1>16. CASE Restart
  <2>1. UNCHANGED <<journal, reader, shown>>
    BY <1>16 DEF Restart
  <2> QED
    BY <1>c, <2>1
<1>17. CASE Dispose
  <2>1. /\ journal'.first = journal.first /\ journal'.last = journal.last
        /\ journal'.opened = journal.opened /\ UNCHANGED <<reader, shown>>
    BY <1>17 DEF Journals, Dispose
  <2> QED
    BY <1>c, <2>1
<1>18. ASSUME NEW r \in Reader, PrependAsks(r) PROVE WindowShape'
  <2>1. /\ UNCHANGED <<host, journal, shown>> /\ journal.opened
        /\ reader' = [reader EXCEPT ![r] = [at |-> "asked", before |-> journal.first]]
    BY <1>18 DEF PrependAsks
  <2>2. \A s \in Reader : reader'[s].before = IF s = r THEN journal.first ELSE reader[s].before
    BY <2>1 DEF Readers
  <2>3. journal.first <= host.ever
    BY <1>a DEF WindowShape
  <2> QED
    BY <1>a, <2>1, <2>2, <2>3 DEF WindowShape
<1>19. ASSUME NEW r \in Reader, PrependFails(r) PROVE WindowShape'
  <2>1. UNCHANGED <<host, journal, shown>> /\ IdleReader(r)
    BY <1>19 DEF PrependFails, IdleReader
  <2> QED
    BY <1>a, <2>1, IdleReaderIs DEF WindowShape
<1>20. CASE CarrierGivesUp
  <2>1. /\ journal'.first = journal.first /\ journal'.last = journal.last
        /\ journal'.opened = journal.opened /\ UNCHANGED <<reader, shown>>
    BY <1>20 DEF Journals, CarrierGivesUp, Terminates
  <2> QED
    BY <1>c, <2>1
<1>21. CASE OpeningRefused
  <2>1. /\ journal'.first = journal.first /\ journal'.last = journal.last
        /\ journal'.opened = journal.opened /\ UNCHANGED <<reader, shown>>
    BY <1>21 DEF Journals, OpeningRefused, Rejects
  <2> QED
    BY <1>c, <2>1
<1>22. ASSUME NEW c \in Nat, NEW first \in Nat, OpeningApplied(c, first)
       PROVE  WindowShape'
  <2>1. /\ journal'.last = c /\ journal'.first = first /\ journal'.opened = TRUE
        /\ UNCHANGED <<host, reader>> /\ (journal.opened => journal.last <= c)
        /\ first = (IF c = 0 THEN 0 ELSE PageStart(c))
    BY <1>22 DEF OpeningApplied, Journals
  <2>2. shown'.window = Run(PageStart(c), c) /\ (~shown'.more => ~(PageStart(c) > 1))
    BY <1>22 DEF OpeningApplied, Publishes
  <2>3. c <= host.ever
    BY <1>22, <1>b DEF OpeningApplied
  <2>4. PageStart(c) \in Nat /\ 1 <= PageStart(c) /\ (c > 0 => PageStart(c) <= c)
    BY PageStartTyped
  <2>5. CASE c = 0
    <3>0. journal.last = 0
      BY <1>a, <2>1, <2>5 DEF WindowShape
    <3>3. journal.first # 0 => journal.first <= journal.last
      BY DEF WindowShape
    <3>1. journal.last = 0 /\ journal.first = 0
      BY <1>a, <3>0, <3>3
    <3>2. Run(PageStart(c), c) = <<>>
      <4>1. c < PageStart(c)
        BY <2>4, <2>5
      <4> QED
        BY <2>4, <4>1, RunIs
    <3> QED
      BY <1>a, <2>1, <2>2, <2>5, <3>1, <3>2 DEF WindowShape
  <2>6. CASE c # 0
    BY <1>a, <2>1, <2>2, <2>3, <2>4, <2>6 DEF WindowShape
  <2> QED
    BY <2>5, <2>6
<1>23. ASSUME NEW k \in Nat, EntryFollows(k) PROVE WindowShape'
  <2>1. /\ journal'.last = k /\ k = journal.last + 1 /\ journal'.opened = journal.opened
        /\ journal.phase = "live" /\ UNCHANGED <<host, reader>>
        /\ journal'.first = IF journal.first = 0 THEN k ELSE journal.first
    BY <1>23 DEF EntryFollows, FirstWith, Journals
  <2>2. shown'.window = Append(shown.window, k) /\ shown'.more = shown.more /\ shown'.cut = shown.cut
    BY <1>23 DEF EntryFollows, Publishes
  <2>3. k <= host.ever
    BY <1>23, <1>b DEF EntryFollows
  <2>4. journal.opened
    BY <2>1 DEF PhaseAt
  <2>5. CASE journal.first = 0
    <3>1. k = 1 /\ shown.window = <<>>
      BY <2>1, <2>5 DEF WindowShape
    <3>3. shown'.window = Run(1, 1)
      BY <2>2, <3>1, RunOne
    <3>5. journal'.first = 1 /\ journal'.last = 1 /\ 1 <= host.ever
      BY <2>1, <2>3, <2>5, <3>1
    <3>6. journal'.opened = TRUE
      BY <2>1, <2>4 DEF Journals
    <3>7. UNCHANGED <<host, reader>> /\ \A r \in Reader : reader[r].before <= host.ever
      BY <2>1 DEF WindowShape
    <3> QED
      BY <3>3, <3>5, <3>6, <3>7 DEF WindowShape
  <2>6. CASE journal.first # 0
    <3>1. shown.window = Run(journal.first, journal.last) /\ journal.first <= journal.last
      BY <2>6 DEF WindowShape
    <3>2. 1 <= journal.first /\ journal.first <= journal.last + 1
      BY <1>a, <2>6, <3>1
    <3>4. Append(Run(journal.first, journal.last), journal.last + 1)
          = Run(journal.first, journal.last + 1)
      BY <1>a, <3>2, RunGrows
    <3> QED
      BY <1>a, <2>1, <2>2, <2>3, <2>4, <2>6, <3>1, <3>4 DEF WindowShape
  <2> QED
    BY <2>5, <2>6
<1>24. ASSUME NEW k \in Nat, EntryAhead(k) PROVE WindowShape'
  <2>1. /\ journal'.first = journal.first /\ journal'.last = journal.last
        /\ journal'.opened = journal.opened /\ UNCHANGED <<reader, shown>>
    BY <1>24 DEF Journals, EntryAhead
  <2> QED
    BY <1>c, <2>1
<1>25. ASSUME NEW k \in Nat, EntryQueued(k) PROVE WindowShape'
  <2>1. /\ journal'.first = journal.first /\ journal'.last = journal.last
        /\ journal'.opened = journal.opened /\ UNCHANGED <<reader, shown>>
    BY <1>25 DEF Journals, EntryQueued
  <2> QED
    BY <1>c, <2>1
<1>26. ASSUME NEW k \in Nat, PageReread(k) PROVE WindowShape'
  <2>1. /\ journal'.first = journal.first /\ journal'.last = journal.last
        /\ journal'.opened = journal.opened /\ UNCHANGED <<reader, shown>>
    BY <1>26 DEF Journals, PageReread, PageAwaited, PageAborted
  <2> QED
    BY <1>c, <2>1
<1>27. CASE EndFatal("end")
  <2>1. /\ journal'.first = journal.first /\ journal'.last = journal.last
        /\ journal'.opened = journal.opened /\ UNCHANGED <<reader, shown>>
    BY <1>27 DEF Journals, EndFatal
  <2> QED
    BY <1>c, <2>1
<1>28. CASE EndFatal("error")
  <2>1. /\ journal'.first = journal.first /\ journal'.last = journal.last
        /\ journal'.opened = journal.opened /\ UNCHANGED <<reader, shown>>
    BY <1>28 DEF Journals, EndFatal
  <2> QED
    BY <1>c, <2>1
<1>29. CASE PageHole
  <2>1. /\ journal'.first = journal.first /\ journal'.last = journal.last
        /\ journal'.opened = journal.opened /\ UNCHANGED <<reader, shown>>
    BY <1>29 DEF Journals, PageHole, PageAwaited, PageAborted, Rejects
  <2> QED
    BY <1>c, <2>1
<1>30. ASSUME NEW first \in Nat, NEW last \in Nat, PageFits(first, last)
       PROVE  WindowShape'
  <2>1. /\ journal'.last = last /\ journal'.first = first /\ journal'.opened = journal.opened
        /\ UNCHANGED <<host, reader>> /\ journal.phase = "repair"
    BY <1>30 DEF PageFits, PageAwaited, Journals
  <2>2. Merged(first, last) /\ 1 <= first /\ first <= last /\ last <= host.ever /\ journal.last < last
    BY <1>30, PageMerged
  <2>3. shown'.window = Run(first, last) /\ (~shown'.more => ~(first > 1))
    BY <1>30, <2>2 DEF PageFits, Publishes, Merged
  <2>4. journal.opened
    BY <2>1 DEF PhaseAt
  <2> QED
    BY <1>a, <2>1, <2>2, <2>3, <2>4 DEF WindowShape
<1>31. ASSUME NEW r \in Reader, PrependMisses(r) PROVE WindowShape'
  <2>1. UNCHANGED <<host, journal>> /\ IdleReader(r)
    BY <1>31 DEF PrependMisses, PrependAnswered, IdleReader
  <2>2. shown'.window = shown.window /\ shown'.cut = TRUE
    BY <1>31 DEF PrependMisses, Publishes
  <2> QED
    BY <1>a, <2>1, <2>2, IdleReaderIs DEF WindowShape
<1>32. ASSUME NEW r \in Reader, PrependEmpty(r) PROVE WindowShape'
  <2>1. UNCHANGED <<host, journal>> /\ IdleReader(r)
    BY <1>32 DEF PrependEmpty, PrependAnswered, IdleReader
  <2>2. /\ shown'.window = shown.window
        /\ shown'.more = (OlderPage(r) # <<>> /\ OlderPage(r)[1] > 1)
        /\ shown'.cut = (OlderPage(r) = <<>>)
    BY <1>32 DEF PrependEmpty, Publishes
  <2>3. ~shown'.more /\ ~shown'.cut => journal.first \in {0, 1}
    BY <1>32, <1>a, <2>2, OlderIs DEF PrependEmpty
  <2> QED
    BY <1>a, <2>1, <2>2, <2>3, IdleReaderIs DEF WindowShape
<1>33. ASSUME NEW r \in Reader, NEW first \in Nat, PrependFits(r, first)
       PROVE  WindowShape'
  <2>1. /\ UNCHANGED host /\ IdleReader(r) /\ journal'.first = first
        /\ journal'.last = journal.last /\ journal'.opened = journal.opened
    BY <1>33 DEF PrependFits, PrependAnswered, IdleReader, Journals
  <2>2. /\ shown'.window = OlderEntries(r) \o shown.window
        /\ shown'.more = (OlderPage(r) # <<>> /\ OlderPage(r)[1] > 1)
        /\ shown'.cut = (OlderPage(r) = <<>>)
    BY <1>33 DEF PrependFits, Publishes
  <2>3. /\ OlderEntries(r) # <<>> /\ first = OlderEntries(r)[1]
        /\ journal.first = 0 \/ Tail0(OlderEntries(r)) + 1 = journal.first
        /\ reader[r].at = "asked"
    BY <1>33 DEF PrependFits, PrependAnswered
  <2>4. journal.first # 0
    BY <2>3, OlderIs DEF WindowShape
  <2>5. /\ journal.first <= journal.last /\ shown.window = Run(journal.first, journal.last)
    BY <2>4 DEF WindowShape
  <2>6. /\ 1 <= first /\ first < journal.first
        /\ OlderEntries(r) = Run(first, journal.first - 1)
        /\ ~shown'.more /\ ~shown'.cut => first = 1
    BY <2>2, <2>3, <2>4, OlderIs
  <2>7. Run(first, journal.first - 1) \o Run((journal.first - 1) + 1, journal.last)
        = Run(first, journal.last)
    <3>1. journal.first - 1 \in Nat /\ first <= (journal.first - 1) + 1 /\ journal.first - 1 <= journal.last
      BY <1>a, <2>4, <2>5, <2>6
    <3> QED
      BY <1>a, <2>6, <3>1, RunJoins
  <2>10. (journal.first - 1) + 1 = journal.first
    BY <1>a
  <2>8. shown'.window = Run(first, journal.last)
    BY <2>2, <2>5, <2>6, <2>7, <2>10
  <2>9. journal.opened
    BY <2>3 DEF WindowShape
  <2> QED
    BY <1>a, <2>1, <2>5, <2>6, <2>8, <2>9, IdleReaderIs DEF WindowShape
<1> QED
  BY <1>1, <1>2, <1>3, <1>4, <1>5, <1>6, <1>7, <1>8, <1>9, <1>10, <1>11, <1>12,
     <1>13, <1>14, <1>15, <1>16, <1>17, <1>18, <1>19, <1>20, <1>21, <1>22,
     <1>23, <1>24, <1>25, <1>26, <1>27, <1>28, <1>29, <1>30, <1>31, <1>32,
     <1>33
     DEF Step, Simple, Split

\* The stream gives up for a cause.
LEMMA GivesUpNext ==
  ASSUME faults \in Tallies, faults' \in Tallies, feed \in Seq(Frames),
         host \in Hosts, stream \in Streams, journal \in Journals, PhaseAt,
         HostCounts, FramesFit, OpeningAhead, LossesPaid, RepairShape,
         FeedContinues, GivesUpForCause, Step
  PROVE  GivesUpForCause'
<1>a. \A k \in Kind : faults.count[k] \in Nat /\ faults'.count[k] \in Nat
  BY DEF Tallies
<1>b. \A kinds : Fault(kinds) => \A k \in Kind : faults.count[k] <= faults'.count[k]
  <2> SUFFICES ASSUME NEW kinds, Fault(kinds), NEW k \in Kind
               PROVE  faults.count[k] <= faults'.count[k]
    OBVIOUS
  <2>1. faults'.count[k] = IF k \in kinds THEN faults.count[k] + 1 ELSE faults.count[k]
    BY FaultIs
  <2> QED
    BY <1>a, <2>1
<1>k. {"skip", "end", "error", "loss", "forget", "page", "calm"} = Kind
  BY DEF Kind
\* The cause stays, and no count it rests on falls.
<1>c. ASSUME journal'.cause = journal.cause,
             \/ journal.cause = "none"
             \/ UNCHANGED faults
             \/ \A k \in Kind : faults.count[k] <= faults'.count[k]
      PROVE  GivesUpForCause'
  <2>1. CASE journal.cause = "none" \/ UNCHANGED faults
    BY <1>c, <2>1 DEF GivesUpForCause
  <2>2. CASE \A k \in Kind : faults.count[k] <= faults'.count[k]
    <3>1. ASSUME NEW k \in Kind, NEW m \in Nat, faults.count[k] >= m PROVE faults'.count[k] >= m
      BY <1>a, <2>2, <3>1
    <3>2. journal.cause = "page" => faults'.count["page"] + faults'.count["forget"] >= 1
      <4>1. journal.cause = "page" => faults.count["page"] + faults.count["forget"] >= 1
        BY DEF GivesUpForCause
      <4>2. /\ faults.count["page"] \in Nat /\ faults'.count["page"] \in Nat
            /\ faults.count["forget"] \in Nat /\ faults'.count["forget"] \in Nat
            /\ faults.count["page"] <= faults'.count["page"]
            /\ faults.count["forget"] <= faults'.count["forget"]
        BY <1>a, <1>k, <2>2
      <4> QED
        BY <4>1, <4>2
    <3>3. journal.cause = "carrier" => faults'.count["loss"] >= 2
      BY <1>k, <3>1 DEF GivesUpForCause
    <3>4. journal.cause = "behind" => faults'.count["forget"] >= 1
      BY <1>k, <3>1 DEF GivesUpForCause
    <3>5. journal.cause = "hole" => faults'.count["skip"] >= 3
      BY <1>k, <3>1 DEF GivesUpForCause
    <3>6. journal.cause = "end" => faults'.count["end"] >= 1
      BY <1>k, <3>1 DEF GivesUpForCause
    <3>7. journal.cause = "error" => faults'.count["error"] >= 1
      BY <1>k, <3>1 DEF GivesUpForCause
    <3>8. journal.cause = "restart" => faults'.count["calm"] >= 1
      BY <1>k, <3>1 DEF GivesUpForCause
    <3> QED
      BY <1>c, <3>2, <3>3, <3>4, <3>5, <3>6, <3>7, <3>8 DEF GivesUpForCause
  <2> QED
    BY <1>c, <2>1, <2>2
\* A cause is found.
<1>d. ASSUME NEW cause \in {"carrier", "behind", "end", "error", "hole", "page", "restart"},
             journal'.cause = cause,
             CASE cause = "carrier" -> faults'.count["loss"] >= 2
               [] cause = "behind"  -> faults'.count["forget"] >= 1
               [] cause = "page"    -> faults'.count["page"] + faults'.count["forget"] >= 1
               [] cause = "hole"    -> faults'.count["skip"] >= 3
               [] cause = "end"     -> faults'.count["end"] >= 1
               [] cause = "error"   -> faults'.count["error"] >= 1
               [] cause = "restart" -> faults'.count["calm"] >= 1
      PROVE  GivesUpForCause'
  BY <1>d DEF GivesUpForCause
<1>1. CASE UNCHANGED vars \/ JournalGrows \/ HostOpens \/ HostSends
            \/ ConnectionUp \/ RetryEnds \/ (\E r \in Reader : PrependAsks(r))
            \/ (\E r \in Reader : PrependFails(r))
            \/ (\E at \in {"start", "wait"}, n \in Nat : CarrierRetries(at, n))
            \/ EntryRepeated \/ (\E r \in Reader : PrependMisses(r))
            \/ (\E r \in Reader : PrependEmpty(r))
  <2>1. UNCHANGED <<journal, faults>>
    BY <1>1 DEF vars, JournalGrows, HostOpens, HostSends, Sends, ConnectionUp,
       RetryEnds, PrependAsks, PrependFails, CarrierRetries, EntryRepeated,
       PrependMisses, PrependAnswered, PrependEmpty
  <2> QED
    BY <2>1, <1>c
<1>2. CASE HostSkips
  <2>1. journal'.cause = journal.cause
    BY <1>2 DEF Journals, HostSkips, Sends
  <2>2. \A k \in Kind : faults.count[k] <= faults'.count[k]
    BY <1>2, <1>b DEF HostSkips, Sends
  <2> QED
    BY <1>a, <1>c, <2>1, <2>2
<1>3. CASE HostRepeats
  <2>1. journal'.cause = journal.cause
    BY <1>3 DEF Journals, HostRepeats, Sends
  <2>2. \A k \in Kind : faults.count[k] <= faults'.count[k]
    BY <1>3, <1>b DEF HostRepeats, Sends
  <2> QED
    BY <1>a, <1>c, <2>1, <2>2
<1>4. CASE HostStops("end")
  <2>1. journal'.cause = journal.cause
    BY <1>4 DEF Journals, HostStops
  <2>2. \A k \in Kind : faults.count[k] <= faults'.count[k]
    BY <1>4, <1>b DEF HostStops
  <2> QED
    BY <1>a, <1>c, <2>1, <2>2
<1>5. CASE HostStops("error")
  <2>1. journal'.cause = journal.cause
    BY <1>5 DEF Journals, HostStops
  <2>2. \A k \in Kind : faults.count[k] <= faults'.count[k]
    BY <1>5, <1>b DEF HostStops
  <2> QED
    BY <1>a, <1>c, <2>1, <2>2
<1>6. CASE CarrierLost
  <2>1. journal'.cause = journal.cause
    BY <1>6 DEF Journals, CarrierLost
  <2>2. \A k \in Kind : faults.count[k] <= faults'.count[k]
    BY <1>6, <1>b DEF CarrierLost
  <2> QED
    BY <1>a, <1>c, <2>1, <2>2
<1>7. CASE HostForgets
  <2>1. journal'.cause = journal.cause
    BY <1>7 DEF Journals, HostForgets
  <2>2. \A k \in Kind : faults.count[k] <= faults'.count[k]
    BY <1>7, <1>b DEF HostForgets
  <2> QED
    BY <1>a, <1>c, <2>1, <2>2
<1>8. CASE ConnectionDown
  <2>1. journal'.cause = journal.cause
    BY <1>8 DEF Journals, ConnectionDown
  <2>2. \A k \in Kind : faults.count[k] <= faults'.count[k]
    BY <1>8, <1>b DEF ConnectionDown
  <2> QED
    BY <1>a, <1>c, <2>1, <2>2
<1>9. CASE NextGeneration
  <2>1. journal.cause = "none" /\ journal' = journal
    BY <1>9 DEF NextGeneration, PhaseAt, Journals
  <2> QED
    BY <1>c, <2>1
<1>10. CASE PageFails
  <2>1. journal'.cause = "page" /\ journal.phase = "repair"
    BY <1>10 DEF PageFails, Rejects, Journals
  <2>2. /\ faults'.count["page"] \in Nat /\ faults'.count["forget"] \in Nat
        /\ faults.count["page"] \in Nat /\ faults.count["forget"] \in Nat
    BY <1>a, <1>k
  <2>3. CASE journal.repair.through > host.len /\ UNCHANGED faults
    <3>1. journal.repair.through <= host.ever
      BY <2>1 DEF RepairShape
    <3>2. host.len # host.ever
      BY <2>3, <3>1 DEF Hosts, Journals, Repairs
    <3>3. faults'.count["forget"] >= 1
      BY <2>2, <2>3, <3>2 DEF HostCounts
    <3>4. faults'.count["page"] + faults'.count["forget"] >= 1
      BY <2>2, <3>3
    <3> QED
      BY <1>d, <2>1, <3>4
  <2>4. CASE Fault({"page"})
    <3>1. "page" \in Kind /\ "page" \in {"page"}
      BY <1>k
    <3>2. faults'.count["page"] = faults.count["page"] + 1
      BY <2>4, <3>1, FaultIs
    <3>3. faults'.count["page"] + faults'.count["forget"] >= 1
      BY <2>2, <3>2
    <3> QED
      BY <1>d, <2>1, <3>3
  <2> QED
    BY <1>10, <2>3, <2>4 DEF PageFails
<1>11. CASE PageOvertaken
  <2>1. journal'.cause = "restart" /\ UNCHANGED faults /\ stream.revised
    BY <1>11 DEF PageOvertaken, Rejects, Journals
  <2>2. faults'.count["calm"] >= 1
    BY <2>1 DEF PhaseAt
  <2> QED
    BY <1>d, <2>1, <2>2
<1>12. CASE PageStale
  <2>1. journal'.cause = journal.cause
    BY <1>12 DEF Journals, PageStale
  <2>2. UNCHANGED faults
    BY <1>12 DEF PageStale
  <2> QED
    BY <1>a, <1>c, <2>1, <2>2
<1>13. CASE Open
  <2>1. journal'.cause = journal.cause
    BY <1>13 DEF Journals, Open
  <2>2. UNCHANGED faults
    BY <1>13 DEF Open
  <2> QED
    BY <1>a, <1>c, <2>1, <2>2
<1>14. CASE Restart
  <2>1. journal'.cause = journal.cause
    BY <1>14 DEF Journals, Restart
  <2>2. \A k \in Kind : faults.count[k] <= faults'.count[k]
    BY <1>14, <1>b DEF Restart
  <2> QED
    BY <1>a, <1>c, <2>1, <2>2
<1>15. CASE Dispose
  <2>1. journal'.cause = journal.cause
    BY <1>15 DEF Journals, Dispose
  <2>2. \A k \in Kind : faults.count[k] <= faults'.count[k]
    BY <1>15, <1>b DEF Dispose
  <2> QED
    BY <1>a, <1>c, <2>1, <2>2
<1>16. CASE CarrierGivesUp
  <2>1. journal'.cause = "carrier" /\ UNCHANGED faults
    BY <1>16 DEF CarrierGivesUp, Terminates, Journals
  <2>2. stream.attempt > 0 /\ stream.attempt + 1 <= faults.count["loss"]
    BY <1>16 DEF CarrierGivesUp, LossesPaid
  <2>3. stream.attempt \in Nat /\ faults.count["loss"] \in Nat
    BY <1>a, <1>k DEF Streams
  <2>4. faults'.count["loss"] >= 2
    BY <2>1, <2>2, <2>3
  <2> QED
    BY <1>d, <2>1, <2>4
<1>17. CASE OpeningRefused
  <2>1. journal'.cause = "behind" /\ UNCHANGED faults
    BY <1>17 DEF OpeningRefused, Rejects, Journals
  <2>2. Consuming /\ feed # <<>> /\ feed[1].type = "opened" /\ feed[1].cursor < journal.last
    BY <1>17 DEF OpeningRefused, TakesFrame
  <2>3. feed[1].cursor \in Nat /\ journal.last \in Nat
    BY <2>2, HeadTyped DEF Journals
  <2>4. faults.count["forget"] # 0
    BY <2>2, <2>3 DEF OpeningAhead
  <2>5. faults'.count["forget"] >= 1
    BY <1>a, <1>k, <2>1, <2>4
  <2> QED
    BY <1>d, <2>1, <2>5
<1>18. ASSUME NEW c \in Nat, NEW first \in Nat, OpeningApplied(c, first)
       PROVE  GivesUpForCause'
  <2>1. journal.cause = "none" /\ journal'.cause = journal.cause
    BY <1>18 DEF OpeningApplied, TakesFrame, Consuming, PhaseAt, Journals
  <2> QED
    BY <1>c, <2>1
<1>19. ASSUME NEW k \in Nat, EntryFollows(k)
       PROVE  GivesUpForCause'
  <2>1. journal'.cause = journal.cause
    BY <1>19 DEF Journals, EntryFollows, FirstWith
  <2>2. UNCHANGED faults
    BY <1>19 DEF EntryFollows, FirstWith
  <2> QED
    BY <1>a, <1>c, <2>1, <2>2
<1>20. ASSUME NEW k \in Nat, EntryAhead(k) PROVE GivesUpForCause'
  <2>1. journal'.cause = journal.cause
    BY <1>20 DEF Journals, EntryAhead
  <2>2. UNCHANGED faults
    BY <1>20 DEF EntryAhead
  <2> QED
    BY <1>a, <1>c, <2>1, <2>2
<1>21. ASSUME NEW k \in Nat, EntryQueued(k) PROVE GivesUpForCause'
  <2>1. journal'.cause = journal.cause
    BY <1>21 DEF Journals, EntryQueued
  <2>2. UNCHANGED faults
    BY <1>21 DEF EntryQueued
  <2> QED
    BY <1>a, <1>c, <2>1, <2>2
<1>22. ASSUME NEW k \in Nat, PageReread(k) PROVE GivesUpForCause'
  <2>1. journal'.cause = journal.cause
    BY <1>22 DEF Journals, PageReread, PageAwaited
  <2>2. UNCHANGED faults
    BY <1>22 DEF PageReread, PageAwaited
  <2> QED
    BY <1>a, <1>c, <2>1, <2>2
<1>23. CASE EndRetried
  <2>1. journal.cause = "none" /\ journal'.cause = journal.cause
    BY <1>23 DEF EndRetried, TakesFrame, Consuming, PhaseAt, Journals
  <2> QED
    BY <1>c, <2>1
<1>24. CASE EndFatal("end")
  <2>1. journal'.cause = "end" /\ UNCHANGED faults
    BY <1>24 DEF EndFatal, Journals
  <2>2. feed # <<>> /\ feed[1].type = "end"
    BY <1>24 DEF EndFatal, TakesFrame
  <2>3. 1 \in 1 .. Len(feed)
    BY <2>2, FrameTyped
  <2>4. faults'.count["end"] >= 1
    BY <2>1, <2>2, <2>3 DEF FramesFit, Ending
  <2> QED
    BY <1>d, <2>1, <2>4
<1>25. CASE EndFatal("error")
  <2>1. journal'.cause = "error" /\ UNCHANGED faults
    BY <1>25 DEF EndFatal, Journals
  <2>2. feed # <<>> /\ feed[1].type = "error"
    BY <1>25 DEF EndFatal, TakesFrame
  <2>3. 1 \in 1 .. Len(feed)
    BY <2>2, FrameTyped
  <2>4. faults'.count["error"] >= 1
    BY <2>1, <2>2, <2>3 DEF FramesFit, Ending
  <2> QED
    BY <1>d, <2>1, <2>4
<1>26. CASE PageHole
  <2>1. journal'.cause = "hole" /\ UNCHANGED faults
    BY <1>26 DEF PageHole, PageAwaited, Rejects, Journals
  <2>2. journal.phase = "repair" /\ journal.repair.round # 1 /\ ~Merges(journal.repair)
    BY <1>26 DEF PageHole, PageAwaited
  <2>3. journal.repair.round = 2
    BY <2>2 DEF RepairShape, Journals, Repairs
  <2>4. Holes = 3 /\ Holes \in Nat /\ Consuming
    BY <2>2, <2>3 DEF Holes, Consuming
  <2>5. Taken \in Nat
    BY TargetIs DEF Taken, Journals
  <2>6. faults.count["skip"] \in Nat
    BY <1>a, <1>k
  <2>7. Holes <= faults.count["skip"]
    BY <2>4, <2>5, <2>6, ContinuesMeans DEF FeedContinues
  <2>8. faults'.count["skip"] >= 3
    BY <2>1, <2>4, <2>6, <2>7
  <2> QED
    BY <1>d, <2>1, <2>8
<1>27. ASSUME NEW first \in Nat, NEW last \in Nat, PageFits(first, last)
       PROVE  GivesUpForCause'
  <2>1. journal'.cause = journal.cause
    BY <1>27 DEF Journals, PageFits, PageAwaited
  <2>2. UNCHANGED faults
    BY <1>27 DEF PageFits, PageAwaited
  <2> QED
    BY <1>a, <1>c, <2>1, <2>2
<1>28. ASSUME NEW r \in Reader, NEW first \in Nat, PrependFits(r, first)
       PROVE  GivesUpForCause'
  <2>1. journal'.cause = journal.cause
    BY <1>28 DEF Journals, PrependFits, PrependAnswered
  <2>2. UNCHANGED faults
    BY <1>28 DEF PrependFits, PrependAnswered
  <2> QED
    BY <1>a, <1>c, <2>1, <2>2
<1> QED
  BY <1>1, <1>2, <1>3, <1>4, <1>5, <1>6, <1>7, <1>8, <1>9, <1>10, <1>11, <1>12,
     <1>13, <1>14, <1>15, <1>16, <1>17, <1>18, <1>19, <1>20, <1>21, <1>22,
     <1>23, <1>24, <1>25, <1>26, <1>27, <1>28
     DEF Step, Simple, Split

-----------------------------------------------------------------------------
(* The inductive invariant holds. *)

\* It holds at the start.
LEMMA InitIInv ==
  ASSUME Init
  PROVE  IInv
<1> USE DEF Init
<1>1. Typed
  <2>1. MaxFaults \in Nat /\ 0 \in Nat
    BY JournalAssumption DEF JournalAssumption
  <2>2. host \in Hosts /\ stream \in Streams /\ reader \in Readers /\ available \in BOOLEAN
    BY DEF Hosts, Streams, Readers
  <2>3. journal \in Journals
    BY DEF Journals, Repairs, NoRepair
  <2>4. feed \in Seq(Frames) /\ shown \in Windows
    BY DEF Windows
  <2>5. faults \in Tallies
    BY <2>1 DEF Tallies
  <2> QED
    BY <2>2, <2>3, <2>4, <2>5 DEF Typed
<1>2. PhaseAt /\ HostCounts /\ ServesAt
  BY JournalAssumption DEF PhaseAt, HostCounts, ServesAt, Consuming, JournalAssumption
<1>3. FramesFit
  BY DEF FramesFit
<1>4. GenShape /\ OpeningAhead /\ FeedContinues
  BY DEF GenShape, OpeningAhead, FeedContinues, Consuming
<1>5. LossesPaid
  <2>1. EndPending = 0
    BY DEF EndPending
  <2>2. "loss" \in Kind /\ MaxFaults \in Nat
    BY JournalAssumption DEF Kind, JournalAssumption
  <2> QED
    BY <2>1, <2>2 DEF LossesPaid
<1>6. RepairShape
  BY DEF RepairShape, NoRepair
<1>7. WindowShape
  BY DEF WindowShape
<1>8. GivesUpForCause
  BY DEF GivesUpForCause
<1> QED
  BY <1>1, <1>2, <1>3, <1>4, <1>5, <1>6, <1>7, <1>8 DEF IInv

\* Every step keeps it.
LEMMA NextIInv ==
  ASSUME IInv, [Next]_vars
  PROVE  IInv'
<1>1. Step
  BY Steps DEF IInv
<1>2. Typed'
  BY <1>1, HostTyped, FeedTyped, AvailableTyped, StreamTyped, JournalTyped, ReaderTyped,
     WindowTyped, FaultsTyped DEF IInv, Typed
<1>3. CountsKept
  BY <1>1, CountsNext DEF IInv, Typed
<1>4. host'.ever \in Nat /\ host.ever <= host'.ever
  BY <1>1, EverGrows DEF IInv, Typed
<1>5. journal.last <= host.ever
  BY DEF IInv, WindowShape
<1>6. PhaseAt' /\ ServesAt'
  BY <1>1, PhaseAtNext, ServesAtNext DEF IInv, Typed
<1>7. HostCounts' /\ FramesFit'
  BY <1>1, <1>3, HostCountsNext, FramesFitNext DEF IInv, Typed
<1>8. GenShape'
  BY <1>1, GenShapeNext DEF IInv, Typed
<1>9. OpeningAhead'
  BY <1>1, <1>3, <1>5, OpeningAheadNext DEF IInv, Typed
<1>10. LossesPaid'
  BY <1>1, <1>2, LossesPaidNext DEF IInv, Typed
<1>11. RepairShape'
  BY <1>1, <1>4, <1>5, RepairShapeNext DEF IInv, Typed
<1>12. FeedContinues'
  BY <1>1, <1>3, FeedContinuesNext DEF IInv, Typed
<1>13. WindowShape'
  BY <1>1, <1>4, WindowShapeNext DEF IInv, Typed
<1>14. GivesUpForCause'
  BY <1>1, <1>2, GivesUpNext DEF IInv, Typed
<1> QED
  BY <1>2, <1>6, <1>7, <1>8, <1>9, <1>10, <1>11, <1>12, <1>13, <1>14 DEF IInv

\* It holds at any time.
LEMMA Invariant == Spec => []IInv
<1>1. Init => IInv
  BY InitIInv
<1>2. IInv /\ [Next]_vars => IInv'
  BY NextIInv
<1> QED
  BY <1>1, <1>2, PTL DEF Spec

-----------------------------------------------------------------------------
(* What follows from it. *)

\* A run of the journal consists of cursors.
LEMMA RunInCursors ==
  ASSUME NEW lo \in Nat, NEW hi \in Nat, 1 <= lo, lo <= hi, hi <= MaxLen
  PROVE  Run(lo, hi) \in Seq(Cursor)
<1> DEFINE n == hi + 1 - lo
<1>1. n \in Nat
  OBVIOUS
<1>2. \A i \in 1 .. n : lo + i - 1 \in Cursor
  BY JournalAssumption DEF JournalAssumption, Cursor
<1>3. Run(lo, hi) \in [1 .. n -> Cursor]
  BY <1>2 DEF Run
<1> QED
  BY <1>1, <1>3

\* The bounds follow from it.
LEMMA IInvTyped ==
  ASSUME IInv
  PROVE  TypeOK
<1> USE DEF IInv
<1>1. MaxLen \in Nat /\ MaxFaults \in Nat /\ host.ever \in Nat /\ host.ever <= MaxLen
  BY JournalAssumption DEF JournalAssumption, Typed, Hosts, HostCounts
<1>2. host \in [len: Cursor, ever: Cursor, serving: {"no", "asked", "yes"}, sent: Cursor]
  <2>1. host.len \in Cursor /\ host.ever \in Cursor /\ host.sent \in Cursor
    BY <1>1 DEF Typed, Hosts, HostCounts, Cursor
  <2> QED
    BY <2>1 DEF Typed, Hosts
<1>3. feed \in Seq([type: {"opened", "entry", "end", "error"}, cursor: Cursor])
  <2> DEFINE F == [type: {"opened", "entry", "end", "error"}, cursor: Cursor]
  <2>1. Len(feed) \in Nat /\ feed = [i \in 1 .. Len(feed) |-> feed[i]]
    BY DEF Typed
  <2>2. ASSUME NEW i \in 1 .. Len(feed) PROVE feed[i] \in F
    <3>1. feed[i] \in Frames /\ feed[i].cursor \in Nat /\ feed[i].cursor <= host.ever
      BY FrameTyped DEF Typed, FramesFit
    <3>2. feed[i].cursor \in Cursor
      BY <1>1, <3>1 DEF Cursor
    <3> QED
      BY <3>1, <3>2 DEF Frames
  <2> HIDE DEF F
  <2>3. feed \in [1 .. Len(feed) -> F]
    BY <2>1, <2>2
  <2>4. feed \in Seq(F)
    BY <2>1, <2>3
  <2> QED
    BY <2>4 DEF F
<1>4. journal.first \in Cursor /\ journal.last \in Cursor
  BY <1>1 DEF Typed, Journals, WindowShape, Cursor
<1>5. journal.repair \in [through: Cursor, queued: SUBSET Cursor, round: 0 .. 2]
  <2>1. CASE journal.phase = "repair"
    <3>1. \A k \in journal.repair.queued \union {journal.repair.through} : k \in Nat /\ k <= host.ever
      BY <2>1 DEF Typed, Journals, Repairs, RepairShape
    <3>2. \A k \in journal.repair.queued \union {journal.repair.through} : k \in Cursor
      BY <1>1, <3>1 DEF Cursor
    <3>3. journal.repair.round \in 0 .. 2
      BY DEF Typed, Journals, Repairs
    <3> QED
      BY <3>2, <3>3 DEF Typed, Journals, Repairs
  <2>2. CASE journal.phase # "repair"
    <3>1. journal.repair = NoRepair
      BY <2>2 DEF RepairShape
    <3> QED
      BY <1>1, <3>1 DEF NoRepair, Cursor
  <2> QED
    BY <2>1, <2>2
<1>6. journal \in [phase: {"idle", "opening", "live", "repair", "stale", "failed", "closed"},
                   gen: Nat, first: Cursor, last: Cursor, opened: BOOLEAN,
                   repair: [through: Cursor, queued: SUBSET Cursor, round: 0 .. 2],
                   cause: {"none", "carrier", "behind", "end", "error", "hole", "page",
                           "restart"}]
  BY <1>4, <1>5 DEF Typed, Journals
<1>7. reader \in [Reader -> [at: {"idle", "asked"}, before: Cursor]]
  <2>1. \A r \in Reader : reader[r].before \in Cursor
    BY <1>1 DEF Typed, Readers, WindowShape, Cursor
  <2> QED
    BY <2>1 DEF Typed, Readers
<1>8. shown \in [window: Seq(Cursor), more: BOOLEAN, cut: BOOLEAN]
  <2>1. shown.window \in Seq(Cursor)
    <3>1. CASE journal.first = 0
      <4>1. shown.window = <<>>
        BY <3>1 DEF WindowShape
      <4> QED
        BY <4>1
    <3>2. CASE journal.first # 0
      <4>1. journal.first <= journal.last /\ shown.window = Run(journal.first, journal.last)
        BY <3>2 DEF WindowShape
      <4>2. journal.first \in Nat /\ journal.last \in Nat /\ journal.last <= MaxLen
        BY <1>1 DEF Typed, Journals, WindowShape
      <4>3. 1 <= journal.first
        BY <3>2, <4>2
      <4> QED
        BY <4>1, <4>2, <4>3, RunInCursors
    <3> QED
      BY <3>1, <3>2
  <2> QED
    BY <2>1 DEF Typed, Windows
<1>9. faults \in [left: 0 .. MaxFaults, count: [Kind -> 0 .. MaxFaults]]
  <2>1. faults.left \in Nat /\ \A k \in Kind : faults.count[k] \in Nat
    BY DEF Typed, Tallies
  <2>2. ASSUME NEW k \in Kind
        PROVE  faults.left \in 0 .. MaxFaults /\ faults.count[k] \in 0 .. MaxFaults
    <3>1. CASE k = "loss"
      <4>1. faults.left + faults.count["loss"] + EndPending <= MaxFaults
        BY DEF LossesPaid
      <4>2. EndPending \in Nat
        BY DEF EndPending
      <4> QED
        BY <1>1, <2>1, <3>1, <4>1, <4>2
    <3>2. CASE k # "loss"
      <4>1. faults.left + faults.count[k] <= MaxFaults
        BY <3>2 DEF LossesPaid
      <4> QED
        BY <1>1, <2>1, <4>1
    <3> QED
      BY <3>1, <3>2
  <2>3. "loss" \in Kind
    BY DEF Kind
  <2> QED
    BY <2>2, <2>3 DEF Typed, Tallies
<1> QED
  BY <1>2, <1>3, <1>6, <1>7, <1>8, <1>9 DEF TypeOK, Typed, Streams

\* The window, by its ends.
LEMMA WindowEnds ==
  ASSUME IInv
  PROVE  /\ journal.first \in Nat /\ journal.last \in Nat /\ host.ever \in Nat
         /\ journal.last <= host.ever
         /\ Tail0(shown.window) = journal.last
         /\ journal.first = 0 => shown.window = <<>>
         /\ journal.first # 0 => shown.window # <<>> /\ shown.window[1] = journal.first
<1>1. /\ journal.first \in Nat /\ journal.last \in Nat /\ host.ever \in Nat
      /\ journal.last <= host.ever
  BY DEF IInv, Typed, Journals, Hosts, WindowShape
<1>2. CASE journal.first = 0
  BY <1>1, <1>2 DEF IInv, WindowShape, Tail0
<1>3. CASE journal.first # 0
  <2>1. 1 <= journal.first /\ journal.first <= journal.last
    BY <1>1, <1>3 DEF IInv, WindowShape
  <2>2. shown.window = Run(journal.first, journal.last)
    BY <1>3 DEF IInv, WindowShape
  <2>3. /\ Run(journal.first, journal.last)[1] = journal.first
        /\ Tail0(Run(journal.first, journal.last)) = journal.last
    BY <1>1, <2>1, RunIs
  <2>4. Run(journal.first, journal.last) # <<>>
    <3>1. ~(journal.last < journal.first)
      BY <1>1, <2>1
    <3> QED
      BY <1>1, <2>1, <3>1, RunIs
  <2> QED
    BY <1>1, <1>3, <2>2, <2>3, <2>4
<1> QED
  BY <1>2, <1>3

\* So does what the stream says of itself.
LEMMA IInvHonest ==
  ASSUME IInv
  PROVE  StreamIsHonest
<1>1. ~shown.more /\ ~shown.cut /\ journal.first # 0 => journal.first = 1
  BY DEF IInv, WindowShape
<1>2. WindowIsKnown
  BY <1>1, WindowEnds DEF WindowIsKnown
<1> QED
  BY <1>2 DEF StreamIsHonest, IInv

\* The types of JournalStream: the cursors stay within the journal, the counts
\* within the faults that were allowed (JournalStream's TypeOK, which the runs
\* check).
THEOREM TypeCorrect == Spec => []TypeOK
<1>1. IInv => TypeOK
  BY IInvTyped
<1> QED
  BY Invariant, <1>1, PTL

\* Whatever the carriers do, the cursors RemoteJournalStream keeps are those of
\* the window it published, and it gives up only for a cause it cannot mend.
THEOREM StreamAlwaysHonest == Spec => []StreamIsHonest
<1>1. IInv => StreamIsHonest
  BY IInvHonest
<1> QED
  BY Invariant, <1>1, PTL

-----------------------------------------------------------------------------
(* JournalStream implements JournalWindow. *)

\* The status of JournalWindow, as JournalStream substitutes it.
Status ==
    CASE journal.phase = "closed" -> "closed"
      [] journal.phase = "failed" -> "failed"
      [] journal.opened /\ journal.phase \notin {"failed", "closed"} -> "shown"
      [] ~journal.opened /\ journal.phase \notin {"failed", "closed"} -> "blank"

StatusShape ==
    /\ journal.phase = "closed" <=> Status = "closed"
    /\ journal.phase = "failed" <=> Status = "failed"
    /\ journal.opened /\ journal.phase \notin {"failed", "closed"} <=> Status = "shown"
    /\ ~journal.opened /\ journal.phase \notin {"failed", "closed"} <=> Status = "blank"

\* Which status each phase stands for.
LEMMA StatusIs ==
  ASSUME journal \in Journals
  PROVE  StatusShape
<1>1. journal.phase = "closed" => Status = "closed"
  BY DEF Status
<1>2. journal.phase = "failed" => Status = "failed"
  BY DEF Status
<1>3. journal.opened /\ journal.phase \notin {"failed", "closed"} => Status = "shown"
  BY DEF Status
<1>4. ~journal.opened /\ journal.phase \notin {"failed", "closed"} => Status = "blank"
  BY DEF Status
<1> QED
  BY <1>1, <1>2, <1>3, <1>4 DEF StatusShape, Journals

\* The same after a step.
LEMMA StatusNextIs ==
  ASSUME journal' \in Journals
  PROVE  StatusShape'
<1>1. journal'.phase = "closed" => Status' = "closed"
  BY DEF Status
<1>2. journal'.phase = "failed" => Status' = "failed"
  BY DEF Status
<1>3. journal'.opened /\ journal'.phase \notin {"failed", "closed"} => Status' = "shown"
  BY DEF Status
<1>4. ~journal'.opened /\ journal'.phase \notin {"failed", "closed"} => Status' = "blank"
  BY DEF Status
<1> QED
  BY <1>1, <1>2, <1>3, <1>4 DEF StatusShape, Journals

\* Every step is one of JournalWindow, or a stutter.
LEMMA WindowStep ==
  ASSUME IInv, journal' \in Journals, Step
  PROVE  [Window!Next]_(Window!vars)
<1> USE DEF IInv, Typed
<1>a. StatusShape
  BY StatusIs
<1>b. StatusShape'
  BY StatusNextIs
<1>c. /\ journal.first \in Nat /\ journal.last \in Nat /\ host.ever \in Nat
      /\ Tail0(shown.window) = journal.last
      /\ journal.first # 0 => shown.window # <<>> /\ shown.window[1] = journal.first
      /\ PhaseAt /\ WindowShape /\ HostCounts /\ RepairShape
      /\ journal \in Journals /\ host \in Hosts /\ reader \in Readers
  BY WindowEnds
<1>d. \A type : TakesFrame(type) => feed[1].cursor <= host.ever /\ feed[1].cursor \in Nat
  <2> SUFFICES ASSUME feed # <<>> PROVE feed[1].cursor <= host.ever /\ feed[1].cursor \in Nat
    BY DEF TakesFrame
  <2>1. Len(feed) \in Nat /\ Len(feed) # 0
    BY FrameTyped
  <2>2. 1 \in 1 .. Len(feed)
    BY <2>1
  <2> QED
    BY <2>2, FrameTyped DEF FramesFit
<1> USE <1>c
<1> HIDE DEF IInv, Typed
\* Nothing the owner sees changes.
<1>s. ASSUME UNCHANGED host.ever, shown'.window = shown.window, journal'.opened = journal.opened,
             \/ journal'.phase = journal.phase
             \/ /\ journal.phase \notin {"failed", "closed"}
                /\ journal'.phase \notin {"failed", "closed"}
      PROVE  [Window!Next]_(Window!vars)
  <2>1. Status' = Status
    BY <1>a, <1>b, <1>s DEF StatusShape, Journals
  <2> QED
    BY <1>s, <2>1 DEF Window!vars, Status
\* The stream fails.
<1>f. ASSUME UNCHANGED <<host.ever, shown>>, journal'.phase = "failed",
             journal.phase \notin {"failed", "closed"}
      PROVE  [Window!Next]_(Window!vars)
  <2>1. Status \in {"blank", "shown"} /\ Status' = "failed"
    BY <1>a, <1>b, <1>f DEF StatusShape, Journals
  <2> QED
    BY <1>f, <2>1 DEF Window!Next, Window!Fail, Status
\* A complete window.
<1>r. ASSUME NEW lo \in Nat, NEW hi \in Nat, 1 <= lo, lo <= hi + 1, journal.last <= hi,
             hi <= host.ever, UNCHANGED host.ever, shown'.window = Run(lo, hi),
             journal.phase \notin {"failed", "closed"}, journal'.phase = "live",
             journal'.opened = TRUE
      PROVE  [Window!Next]_(Window!vars)
  <2>1. Status \in {"blank", "shown"} /\ Status' = "shown"
    BY <1>a, <1>b, <1>r DEF StatusShape, Journals
  <2>2. Window!End(shown.window) = journal.last
    BY <1>c DEF Window!End, Tail0
  <2>3. hi \in Window!End(shown.window) .. host.ever /\ lo \in 1 .. hi + 1
    BY <1>c, <1>r, <2>2
  <2>4. shown'.window = Window!Stretch(lo, hi)
    BY <1>r DEF Run, Window!Stretch
  <2> QED
    BY <1>r, <2>1, <2>3, <2>4 DEF Window!Next, Window!Replace, Status
<1>1. CASE UNCHANGED vars \/ ConnectionDown \/ ConnectionUp \/ RetryEnds
            \/ (\E r \in Reader : PrependAsks(r))
            \/ (\E r \in Reader : PrependFails(r))
            \/ (\E at \in {"start", "wait"}, n \in Nat : CarrierRetries(at, n))
            \/ EntryRepeated \/ EndRetried
  <2>1. UNCHANGED <<host, journal, shown>>
    BY <1>1 DEF vars, ConnectionDown, ConnectionUp, RetryEnds, PrependAsks,
       PrependFails, CarrierRetries, EntryRepeated, EndRetried
  <2> QED
    BY <2>1, <1>s
<1>2. CASE JournalGrows
  <2>1. UNCHANGED <<journal, shown>> /\ host'.ever = Max2(host.ever, host.len + 1)
    BY <1>2 DEF JournalGrows, Hosts
  <2>2. host'.ever = host.ever \/ host'.ever = host.ever + 1
    BY <2>1 DEF Max2, Hosts, HostCounts
  <2>3. UNCHANGED Status
    BY <2>1 DEF Status
  <2>4. CASE host'.ever = host.ever
    BY <1>s, <2>1, <2>4
  <2>5. CASE host'.ever = host.ever + 1
    BY <2>1, <2>3, <2>5 DEF Window!Next, Window!Grow, Status
  <2> QED
    BY <2>2, <2>4, <2>5
<1>3. CASE HostOpens
  <2>1. /\ UNCHANGED <<host.ever, shown>> /\ journal'.opened = journal.opened
        /\ journal'.phase = journal.phase \/ (journal.phase \notin {"failed", "closed"}
                                             /\ journal'.phase \notin {"failed", "closed"})
    BY <1>3 DEF Journals, Hosts, HostOpens
  <2> QED
    BY <1>s, <2>1
<1>4. CASE HostSends
  <2>1. /\ UNCHANGED <<host.ever, shown>> /\ journal'.opened = journal.opened
        /\ journal'.phase = journal.phase \/ (journal.phase \notin {"failed", "closed"}
                                             /\ journal'.phase \notin {"failed", "closed"})
    BY <1>4 DEF Journals, Hosts, HostSends, Sends
  <2> QED
    BY <1>s, <2>1
<1>5. CASE HostSkips
  <2>1. /\ UNCHANGED <<host.ever, shown>> /\ journal'.opened = journal.opened
        /\ journal'.phase = journal.phase \/ (journal.phase \notin {"failed", "closed"}
                                             /\ journal'.phase \notin {"failed", "closed"})
    BY <1>5 DEF Journals, Hosts, HostSkips, Sends
  <2> QED
    BY <1>s, <2>1
<1>6. CASE HostRepeats
  <2>1. /\ UNCHANGED <<host.ever, shown>> /\ journal'.opened = journal.opened
        /\ journal'.phase = journal.phase \/ (journal.phase \notin {"failed", "closed"}
                                             /\ journal'.phase \notin {"failed", "closed"})
    BY <1>6 DEF Journals, Hosts, HostRepeats, Sends
  <2> QED
    BY <1>s, <2>1
<1>7. CASE HostStops("end")
  <2>1. /\ UNCHANGED <<host.ever, shown>> /\ journal'.opened = journal.opened
        /\ journal'.phase = journal.phase \/ (journal.phase \notin {"failed", "closed"}
                                             /\ journal'.phase \notin {"failed", "closed"})
    BY <1>7 DEF Journals, Hosts, HostStops
  <2> QED
    BY <1>s, <2>1
<1>8. CASE HostStops("error")
  <2>1. /\ UNCHANGED <<host.ever, shown>> /\ journal'.opened = journal.opened
        /\ journal'.phase = journal.phase \/ (journal.phase \notin {"failed", "closed"}
                                             /\ journal'.phase \notin {"failed", "closed"})
    BY <1>8 DEF Journals, Hosts, HostStops
  <2> QED
    BY <1>s, <2>1
<1>9. CASE CarrierLost
  <2>1. /\ UNCHANGED <<host.ever, shown>> /\ journal'.opened = journal.opened
        /\ journal'.phase = journal.phase \/ (journal.phase \notin {"failed", "closed"}
                                             /\ journal'.phase \notin {"failed", "closed"})
    BY <1>9 DEF Journals, Hosts, CarrierLost
  <2> QED
    BY <1>s, <2>1
<1>10. CASE HostForgets
  <2>1. /\ UNCHANGED <<host.ever, shown>> /\ journal'.opened = journal.opened
        /\ journal'.phase = journal.phase \/ (journal.phase \notin {"failed", "closed"}
                                             /\ journal'.phase \notin {"failed", "closed"})
    BY <1>10 DEF Journals, Hosts, HostForgets
  <2> QED
    BY <1>s, <2>1
<1>11. CASE NextGeneration
  <2>1. /\ UNCHANGED <<host.ever, shown>> /\ journal'.opened = journal.opened
        /\ journal'.phase = journal.phase \/ (journal.phase \notin {"failed", "closed"}
                                             /\ journal'.phase \notin {"failed", "closed"})
    BY <1>11 DEF Journals, Hosts, NextGeneration
  <2> QED
    BY <1>s, <2>1
<1>12. CASE PageFails
  <2>1. /\ journal'.phase = "failed" /\ journal.phase \notin {"failed", "closed"}
        /\ UNCHANGED <<host.ever, shown>>
    BY <1>12 DEF Journals, Hosts, PhaseAt, Consuming, PageFails, Rejects
  <2> QED
    BY <1>f, <2>1
<1>13. CASE PageOvertaken
  <2>1. /\ journal'.phase = "failed" /\ journal.phase \notin {"failed", "closed"}
        /\ UNCHANGED <<host.ever, shown>>
    BY <1>13 DEF Journals, Hosts, PhaseAt, Consuming, PageOvertaken, Rejects
  <2> QED
    BY <1>f, <2>1
<1>14. CASE PageStale
  <2>1. /\ UNCHANGED <<host.ever, shown>> /\ journal'.opened = journal.opened
        /\ journal'.phase = journal.phase \/ (journal.phase \notin {"failed", "closed"}
                                             /\ journal'.phase \notin {"failed", "closed"})
    BY <1>14 DEF Journals, Hosts, PageStale
  <2> QED
    BY <1>s, <2>1
<1>15. CASE Open
  <2>1. /\ UNCHANGED <<host.ever, shown>> /\ journal'.opened = journal.opened
        /\ journal'.phase = journal.phase \/ (journal.phase \notin {"failed", "closed"}
                                             /\ journal'.phase \notin {"failed", "closed"})
    BY <1>15 DEF Journals, Hosts, Open
  <2> QED
    BY <1>s, <2>1
<1>16. CASE Restart
  <2>1. /\ UNCHANGED <<host.ever, shown>> /\ journal'.opened = journal.opened
        /\ journal'.phase = journal.phase \/ (journal.phase \notin {"failed", "closed"}
                                             /\ journal'.phase \notin {"failed", "closed"})
    BY <1>16 DEF Journals, Hosts, Restart
  <2> QED
    BY <1>s, <2>1
<1>17. CASE Dispose
  <2>1. /\ journal'.phase = "closed" /\ journal.phase # "closed"
        /\ UNCHANGED <<host.ever, shown>>
    BY <1>17 DEF Dispose, Journals, Hosts
  <2>2. Status # "closed" /\ Status' = "closed"
    BY <1>a, <1>b, <2>1 DEF StatusShape
  <2> QED
    BY <2>1, <2>2 DEF Window!Next, Window!Close, Status
<1>18. CASE CarrierGivesUp
  <2>1. /\ journal'.phase = "failed" /\ journal.phase \notin {"failed", "closed"}
        /\ UNCHANGED <<host.ever, shown>>
    BY <1>18 DEF Journals, Hosts, PhaseAt, Consuming, CarrierGivesUp, Terminates
  <2> QED
    BY <1>f, <2>1
<1>19. CASE OpeningRefused
  <2>1. /\ journal'.phase = "failed" /\ journal.phase \notin {"failed", "closed"}
        /\ UNCHANGED <<host.ever, shown>>
    BY <1>19 DEF Journals, Hosts, PhaseAt, Consuming, OpeningRefused, Rejects, TakesFrame
  <2> QED
    BY <1>f, <2>1
<1>20. ASSUME NEW c \in Nat, NEW first \in Nat, OpeningApplied(c, first)
       PROVE  [Window!Next]_(Window!vars)
  <2>1. /\ journal'.phase = "live" /\ journal'.opened = TRUE /\ UNCHANGED host.ever
        /\ shown'.window = Run(PageStart(c), c) /\ Consuming /\ (journal.opened => journal.last <= c)
    BY <1>20 DEF OpeningApplied, TakesFrame, Publishes, Journals
  <2>2. c <= host.ever
    BY <1>20, <1>d DEF OpeningApplied
  <2>3. journal.last <= c
    BY <2>1, <1>c DEF WindowShape
  <2>4. 1 <= PageStart(c) /\ PageStart(c) <= c + 1 /\ PageStart(c) \in Nat
    BY PageStartTyped
  <2>5. journal.phase \notin {"failed", "closed"}
    BY <2>1 DEF Consuming
  <2> QED
    BY <1>r, <2>1, <2>2, <2>3, <2>4, <2>5
<1>21. ASSUME NEW k \in Nat, EntryFollows(k)
       PROVE  [Window!Next]_(Window!vars)
  <2>1. /\ k = journal.last + 1 /\ journal'.opened = journal.opened /\ journal'.phase = journal.phase
        /\ journal.phase = "live" /\ UNCHANGED host.ever
        /\ shown'.window = Append(shown.window, k)
    BY <1>21 DEF EntryFollows, Publishes, Journals
  <2>2. k <= host.ever
    BY <1>21, <1>d DEF EntryFollows
  <2>3. Status = "shown" /\ Status' = "shown"
    BY <1>a, <1>b, <2>1 DEF StatusShape, PhaseAt
  <2>4. Window!End(shown.window) = journal.last
    BY <1>c DEF Window!End, Tail0
  <2>5. journal.last < host.ever
    BY <1>c, <2>1, <2>2
  <2> QED
    BY <2>1, <2>3, <2>4, <2>5 DEF Window!Next, Window!Extend, Status
<1>22. ASSUME NEW k \in Nat, EntryAhead(k)
       PROVE  [Window!Next]_(Window!vars)
  <2>1. /\ UNCHANGED <<host.ever, shown>> /\ journal'.opened = journal.opened
        /\ journal'.phase = journal.phase \/ (journal.phase \notin {"failed", "closed"}
                                             /\ journal'.phase \notin {"failed", "closed"})
    BY <1>22 DEF Journals, Hosts, EntryAhead
  <2> QED
    BY <1>s, <2>1
<1>23. ASSUME NEW k \in Nat, EntryQueued(k)
       PROVE  [Window!Next]_(Window!vars)
  <2>1. /\ UNCHANGED <<host.ever, shown>> /\ journal'.opened = journal.opened
        /\ journal'.phase = journal.phase \/ (journal.phase \notin {"failed", "closed"}
                                             /\ journal'.phase \notin {"failed", "closed"})
    BY <1>23 DEF Journals, Hosts, EntryQueued
  <2> QED
    BY <1>s, <2>1
<1>24. ASSUME NEW k \in Nat, PageReread(k)
       PROVE  [Window!Next]_(Window!vars)
  <2>1. /\ UNCHANGED <<host.ever, shown>> /\ journal'.opened = journal.opened
        /\ journal'.phase = journal.phase \/ (journal.phase \notin {"failed", "closed"}
                                             /\ journal'.phase \notin {"failed", "closed"})
    BY <1>24 DEF Journals, Hosts, PageReread, PageAwaited
  <2> QED
    BY <1>s, <2>1
<1>25. CASE EndFatal("end")
  <2>1. /\ journal'.phase = "failed" /\ journal.phase \notin {"failed", "closed"}
        /\ UNCHANGED <<host.ever, shown>>
    BY <1>25 DEF Journals, Hosts, PhaseAt, Consuming, EndFatal, TakesFrame
  <2> QED
    BY <1>f, <2>1
<1>26. CASE EndFatal("error")
  <2>1. /\ journal'.phase = "failed" /\ journal.phase \notin {"failed", "closed"}
        /\ UNCHANGED <<host.ever, shown>>
    BY <1>26 DEF Journals, Hosts, PhaseAt, Consuming, EndFatal, TakesFrame
  <2> QED
    BY <1>f, <2>1
<1>27. CASE PageHole
  <2>1. /\ journal'.phase = "failed" /\ journal.phase \notin {"failed", "closed"}
        /\ UNCHANGED <<host.ever, shown>>
    BY <1>27 DEF Journals, Hosts, PhaseAt, Consuming, PageHole, PageAwaited, Rejects
  <2> QED
    BY <1>f, <2>1
<1>28. ASSUME NEW first \in Nat, NEW last \in Nat, PageFits(first, last)
       PROVE  [Window!Next]_(Window!vars)
  <2>1. /\ journal'.phase = "live" /\ journal'.opened = journal.opened /\ UNCHANGED host.ever
        /\ journal.phase = "repair"
    BY <1>28 DEF PageFits, PageAwaited, Journals
  <2>2. Merged(first, last) /\ 1 <= first /\ first <= last /\ last <= host.ever /\ journal.last < last
    BY <1>28, PageMerged
  <2>3. shown'.window = Run(first, last)
    BY <1>28, <2>2 DEF PageFits, Publishes, Merged
  <2>4. journal'.opened = TRUE
    BY <2>1 DEF PhaseAt, Journals
  <2>5. journal.last <= last /\ first <= last + 1
    BY <1>c, <2>2
  <2> QED
    BY <1>r, <2>1, <2>2, <2>3, <2>4, <2>5
<1>29. ASSUME NEW r \in Reader, PrependMisses(r)
       PROVE  [Window!Next]_(Window!vars)
  <2>1. UNCHANGED <<host, journal>> /\ shown'.window = shown.window
    BY <1>29 DEF PrependMisses, PrependAnswered, Publishes
  <2> QED
    BY <1>s, <2>1
<1>30. ASSUME NEW r \in Reader, PrependEmpty(r)
       PROVE  [Window!Next]_(Window!vars)
  <2>1. UNCHANGED <<host, journal>> /\ shown'.window = shown.window
    BY <1>30 DEF PrependEmpty, PrependAnswered, Publishes
  <2> QED
    BY <1>s, <2>1
<1>31. ASSUME NEW r \in Reader, NEW first \in Nat, PrependFits(r, first)
       PROVE  [Window!Next]_(Window!vars)
  <2>1. /\ UNCHANGED host.ever /\ journal'.opened = journal.opened /\ journal'.phase = journal.phase
        /\ shown'.window = OlderEntries(r) \o shown.window
        /\ OlderEntries(r) # <<>> /\ first = OlderEntries(r)[1]
        /\ journal.first = 0 \/ Tail0(OlderEntries(r)) + 1 = journal.first
        /\ reader[r].at = "asked" /\ stream.at # "over"
    BY <1>31 DEF PrependFits, PrependAnswered, Publishes, Journals
  <2>2. journal.opened /\ journal.phase # "closed"
    BY <2>1 DEF WindowShape, PhaseAt
  <2>3. Status \in {"shown", "failed"} /\ Status' = Status
    BY <1>a, <1>b, <2>1, <2>2 DEF StatusShape
  <2>4. journal.first # 0
    BY <2>1, OlderIs DEF WindowShape
  <2>5. /\ first \in Nat /\ 1 <= first /\ first < journal.first
        /\ OlderEntries(r) = Run(first, journal.first - 1)
    BY <2>1, <2>4, OlderIs
  <2>6. shown.window # <<>> /\ shown.window[1] = journal.first
    BY <1>c, <2>4
  <2>7. first \in 1 .. shown.window[1]
    BY <1>c, <2>5, <2>6
  <2>8. shown'.window = Window!Stretch(first, shown.window[1] - 1) \o shown.window
    BY <2>1, <2>5, <2>6 DEF Run, Window!Stretch
  <2> QED
    BY <2>1, <2>3, <2>6, <2>7, <2>8 DEF Window!Next, Window!Prepend, Status
<1> QED
  BY <1>1, <1>2, <1>3, <1>4, <1>5, <1>6, <1>7, <1>8, <1>9, <1>10, <1>11, <1>12,
     <1>13, <1>14, <1>15, <1>16, <1>17, <1>18, <1>19, <1>20, <1>21, <1>22,
     <1>23, <1>24, <1>25, <1>26, <1>27, <1>28, <1>29, <1>30, <1>31
     DEF Step, Simple, Split

\* To its owner the stream is a JournalWindow: one unbroken stretch of the
\* journal whose end never moves back, whatever carriers, pages and restarts do.
THEOREM WindowImplemented == Spec => ImplementsWindow
<1>1. Init => Window!Init
  <2>1. ASSUME Init PROVE Status = "blank"
    BY <2>1 DEF Init, Status
  <2> QED
    BY <2>1 DEF Init, Window!Init, Status
<1>2. IInv /\ [Next]_vars => [Window!Next]_(Window!vars)
  <2> SUFFICES ASSUME IInv, [Next]_vars PROVE [Window!Next]_(Window!vars)
    OBVIOUS
  <2>1. Step
    BY Steps DEF IInv
  <2>2. journal' \in Journals
    BY NextIInv DEF IInv, Typed
  <2> QED
    BY <2>1, <2>2, WindowStep
<1> QED
  BY Invariant, <1>1, <1>2, PTL DEF Spec, ImplementsWindow, Window!Spec

-----------------------------------------------------------------------------
(* The inductive invariant of the connection. *)

States == {"idle", "failed", "opening"} \union Waiting \union Registered

Muxes ==
    [socket: {"none", "open", "closing"}, task: {"none", "connecting", "failed"},
     bumped: BOOLEAN, follow: BOOLEAN, open: BOOLEAN, crossed: BOOLEAN,
     overtaken: BOOLEAN, at: [AllStreams -> States]]

Controls == [pc: {"off", "offline", "final", "delay", "ready", "failed", "ended"},
             running: BOOLEAN, attempt: 0 .. Tiers, immediate: BOOLEAN,
             manual: BOOLEAN, woken: BOOLEAN, aborted: BOOLEAN]

Sources == [pc: {"none", "starting", "pumping", "settled"}, ready: BOOLEAN]

Views == [state: {"none", "connecting", "connected", "disconnected"}, generation: BOOLEAN]

LinkTyped ==
    /\ ctl \in Controls /\ net \in BOOLEAN /\ up \in BOOLEAN
    /\ src \in Sources /\ mux \in Muxes /\ status \in Views
    /\ outages \in 0 .. MaxOutages

\* No stream is registered on this.socket, unless a start() crossed a close.
Clear(m) == m.crossed \/ \A s \in AllStreams : m.at[s] # "on"

\* Who is stranded was crossed by a start() or overtaken by a drop.
Blamed(m) == m.crossed \/ m.overtaken

\* There is one socket or an attempt at one; without a socket nobody is
\* registered on it or about to be, and during an attempt nobody but over a
\* crossed start().
MuxIsOne(m) ==
    /\ m.task # "none" => m.socket # "open" /\ Clear(m)
    /\ \A s \in AllStreams :
          /\ m.at[s] \in Waiting => m.socket # "open"
          /\ m.at[s] = "opening" => m.socket = "open"
          /\ m.at[s] = "on" => m.socket # "none"
          /\ m.at[s] = "stranded" => Blamed(m)

\* The source runs while the loop awaits it, it alone opens $events, and it is
\* ready only on an open socket or one that was lost, never during an attempt.
SourceAt ==
    /\ ctl.pc \notin {"ready", "failed"} => src.pc \in {"none", "settled"}
    /\ ctl.pc = "off" => ~src.ready
    /\ src.pc # "pumping" => mux.at[Events] = "idle"
    /\ src.ready => mux.task = "none"

\* A stopped connection shows nothing any more, nor does one not started.
StoppedShows ==
    /\ ~ctl.running \/ ctl.pc = "off" => status.state = "none"
    /\ ~ctl.running /\ ctl.pc = "ready" => ctl.aborted
    /\ ctl.pc = "ended" => ~ctl.running

\* The stream of the events is on a socket only while there is no attempt at
\* another: nothing leaves it behind.
EventsHeld ==
    /\ mux.at[Events] # "stranded"
    /\ mux.at[Events] = "on" => mux.task = "none"

LinkIInv == LinkTyped /\ MuxIsOne(mux) /\ SourceAt /\ StoppedShows /\ ShownIsTrue

-----------------------------------------------------------------------------
(* The operators of the mux. *)

\* What every operator of the mux keeps: its types, one socket, and which
\* streams are not opened.
Keeps(m, n) ==
    /\ n \in Muxes /\ MuxIsOne(n)
    /\ \A s \in AllStreams : m.at[s] = "idle" => n.at[s] = "idle"

\* Moving streams changes nothing else.
LEMMA MoveIs ==
  ASSUME NEW m \in Muxes, NEW states, NEW to \in States
  PROVE  /\ Move(m, states, to) \in Muxes
         /\ \A s \in AllStreams : Move(m, states, to).at[s] =
                                     IF m.at[s] \in states THEN to ELSE m.at[s]
         /\ Move(m, states, to).socket = m.socket /\ Move(m, states, to).task = m.task
         /\ Move(m, states, to).bumped = m.bumped /\ Move(m, states, to).follow = m.follow
         /\ Move(m, states, to).open = m.open /\ Move(m, states, to).crossed = m.crossed
         /\ Move(m, states, to).overtaken = m.overtaken
<1>1. [s \in AllStreams |-> IF m.at[s] \in states THEN to ELSE m.at[s]]
        \in [AllStreams -> States]
  BY DEF Muxes
<1> QED
  BY <1>1 DEF Move, Muxes

\* Giving the socket up leaves nobody on it, and strands only whom it overtakes.
LEMMA GiveUpIs ==
  ASSUME NEW m \in Muxes, MuxIsOne(m)
  PROVE  /\ Keeps(m, GiveUp(m)) /\ GiveUp(m).socket = "none" /\ GiveUp(m).task = m.task
         /\ \A s \in AllStreams :
               GiveUp(m).at[s] = CASE m.at[s] \in Registered -> "failed"
                                   [] m.at[s] = "opening" -> "stranded"
                                   [] OTHER -> m.at[s]
<1>1. "failed" \in States /\ "stranded" \in States
  BY DEF States, Registered
<1> DEFINE f == FailAll(m)
           g == Move(f, {"opening"}, "stranded")
           over == f.overtaken \/ \E s \in AllStreams : m.at[s] = "opening"
<1>2. /\ f \in Muxes
      /\ \A s \in AllStreams : f.at[s] = IF m.at[s] \in Registered THEN "failed" ELSE m.at[s]
      /\ f.socket = m.socket /\ f.task = m.task /\ f.crossed = m.crossed
      /\ f.overtaken = m.overtaken
  BY <1>1, MoveIs DEF FailAll
<1>3. /\ g \in Muxes
      /\ \A s \in AllStreams : g.at[s] = IF f.at[s] = "opening" THEN "stranded" ELSE f.at[s]
      /\ g.socket = m.socket /\ g.task = m.task /\ g.crossed = m.crossed
      /\ g.overtaken = f.overtaken
  BY <1>1, <1>2, MoveIs
<1>4. over \in BOOLEAN
  BY <1>2 DEF Muxes
<1>5. GiveUp(m) = [g EXCEPT !.socket = "none", !.overtaken = over]
  BY <1>3 DEF GiveUp
<1>6. over = (m.overtaken \/ \E s \in AllStreams : m.at[s] = "opening")
  BY <1>2
<1> HIDE DEF f, g, over
<1> DEFINE n == GiveUp(m)
<1>7. /\ n \in Muxes /\ n.at = g.at /\ n.socket = "none" /\ n.task = m.task
      /\ n.crossed = m.crossed /\ n.overtaken = over
  BY <1>3, <1>4, <1>5 DEF Muxes
<1> HIDE DEF n
<1>8. \A s \in AllStreams :
        n.at[s] = CASE m.at[s] \in Registered -> "failed"
                    [] m.at[s] = "opening" -> "stranded"
                    [] OTHER -> m.at[s]
  BY <1>2, <1>3, <1>7 DEF Registered
<1>9. \A s \in AllStreams : n.at[s] # "on" /\ n.at[s] # "opening"
  BY <1>8 DEF Registered
<1>10. \A s \in AllStreams : n.at[s] = "stranded" => n.overtaken
  BY <1>6, <1>7, <1>8 DEF Registered
<1>11. MuxIsOne(n)
  BY <1>7, <1>9, <1>10 DEF MuxIsOne, Clear, Blamed
<1>12. \A s \in AllStreams : m.at[s] = "idle" => n.at[s] = "idle"
  BY <1>8 DEF Registered
<1>13. Keeps(m, n)
  BY <1>7, <1>11, <1>12 DEF Keeps
<1> QED
  BY <1>7, <1>8, <1>13 DEF n

\* Dropping the socket gives it up, if there is one.
LEMMA DropSocketIs ==
  ASSUME NEW m \in Muxes, MuxIsOne(m)
  PROVE  /\ Keeps(m, DropSocket(m)) /\ DropSocket(m).socket = "none"
         /\ DropSocket(m).task = m.task
<1>1. m.socket = "none" => Keeps(m, m)
  BY DEF Keeps
<1> QED
  BY <1>1, GiveUpIs DEF DropSocket

\* A cancelled attempt is over but for its handlers.
LEMMA CancelIs ==
  ASSUME NEW m \in Muxes, MuxIsOne(m)
  PROVE  Keeps(m, Cancel(m)) /\ Cancel(m).socket = m.socket
<1>1. [m EXCEPT !.task = "failed"] \in Muxes
  BY DEF Muxes
<1>2. m.task = "connecting" => Keeps(m, [m EXCEPT !.task = "failed"])
  BY <1>1 DEF Keeps, MuxIsOne, Clear, Blamed, Muxes
<1> QED
  BY <1>2 DEF Cancel, Keeps, Muxes

\* An attempt begins where nobody is registered, but over a crossed start().
LEMMA MaintainIs ==
  ASSUME NEW m \in Muxes, MuxIsOne(m), Clear(m) \/ m.socket = "open"
  PROVE  Keeps(m, Maintain(m))
<1>1. "waiting" \in States
  BY DEF States, Waiting
<1> DEFINE f == Move(m, {"fresh"}, "waiting")
<1>2. /\ f \in Muxes
      /\ \A s \in AllStreams : f.at[s] = IF m.at[s] = "fresh" THEN "waiting" ELSE m.at[s]
      /\ f.socket = m.socket /\ f.crossed = m.crossed /\ f.overtaken = m.overtaken
  BY <1>1, MoveIs
<1> DEFINE n == [f EXCEPT !.task = "connecting", !.bumped = FALSE]
<1>3. n \in Muxes /\ n.at = f.at /\ n.socket = m.socket /\ n.crossed = m.crossed
      /\ n.overtaken = m.overtaken /\ n.task = "connecting"
  BY <1>2 DEF Muxes
<1>4. m.socket # "open" => Keeps(m, n)
  BY <1>2, <1>3 DEF Keeps, MuxIsOne, Clear, Blamed, Waiting
<1>5. Keeps(m, m)
  BY DEF Keeps
<1> QED
  BY <1>4, <1>5 DEF Maintain

\* So does one that follows another.
LEMMA FollowIs ==
  ASSUME NEW m \in Muxes, MuxIsOne(m), Clear(m) \/ m.socket = "open"
  PROVE  Keeps(m, Follow(m))
<1>1. [m EXCEPT !.follow = TRUE] \in Muxes
  BY DEF Muxes
<1>2. Keeps(m, [m EXCEPT !.follow = TRUE])
  BY <1>1 DEF Keeps, MuxIsOne, Clear, Blamed, Muxes
<1> QED
  BY <1>2, MaintainIs DEF Follow

\* start() marks the streams it crosses.
LEMMA MuxStartIs ==
  ASSUME NEW m \in Muxes, MuxIsOne(m)
  PROVE  Keeps(m, MuxStart(m))
<1> DEFINE c == m.crossed \/ \E s \in AllStreams : m.at[s] = "on"
           n == [m EXCEPT !.crossed = c]
<1>0. c \in BOOLEAN
  BY DEF Muxes
<1> HIDE DEF c
<1>1. n \in Muxes /\ n.crossed = c /\ n.at = m.at /\ n.socket = m.socket /\ n.task = m.task
      /\ n.overtaken = m.overtaken
  BY <1>0 DEF Muxes
<1> HIDE DEF n
<1>2. Clear(n)
  BY <1>1 DEF Clear, c
<1>3. m.crossed => c
  BY DEF c
<1>4. MuxIsOne(n)
  BY <1>1, <1>2, <1>3 DEF MuxIsOne, Blamed
<1>5. Keeps(n, Follow(n))
  BY <1>1, <1>2, <1>4, FollowIs
<1>6. Keeps(m, Follow(n)) /\ Keeps(m, m)
  BY <1>1, <1>5 DEF Keeps
<1> QED
  BY <1>6 DEF MuxStart, n, c

\* reconnect() cancels, drops and begins.
LEMMA MuxReconnectIs ==
  ASSUME NEW m \in Muxes, MuxIsOne(m)
  PROVE  Keeps(m, MuxReconnect(m))
<1> DEFINE b == m.task # "none"
           n == [m EXCEPT !.bumped = b]
<1>0. b \in BOOLEAN
  OBVIOUS
<1> HIDE DEF b
<1>1. n \in Muxes /\ n.at = m.at /\ n.socket = m.socket /\ n.task = m.task
      /\ n.crossed = m.crossed /\ n.overtaken = m.overtaken
  BY <1>0 DEF Muxes
<1> HIDE DEF n
<1>2. MuxIsOne(n)
  BY <1>1 DEF MuxIsOne, Clear, Blamed
<1>3. Keeps(n, Cancel(n))
  BY <1>1, <1>2, CancelIs
<1>4. Keeps(Cancel(n), DropSocket(Cancel(n))) /\ DropSocket(Cancel(n)).socket = "none"
  BY <1>3, DropSocketIs DEF Keeps
<1>5. Clear(DropSocket(Cancel(n)))
  BY <1>4 DEF Keeps, MuxIsOne, Clear, Registered
<1>6. Keeps(DropSocket(Cancel(n)), Follow(DropSocket(Cancel(n))))
  BY <1>4, <1>5, FollowIs DEF Keeps
<1>7. Keeps(m, Follow(DropSocket(Cancel(n)))) /\ Keeps(m, m)
  BY <1>1, <1>3, <1>4, <1>6 DEF Keeps
<1> QED
  BY <1>7 DEF MuxReconnect, n, b

\* One stream goes to another state.
LEMMA OneMoves ==
  ASSUME NEW m \in Muxes, MuxIsOne(m), NEW s \in AllStreams,
         NEW to \in States \ {"stranded"},
         to \in Waiting => m.socket # "open",
         to \in {"opening", "on"} => m.socket = "open"
  PROVE  /\ [m EXCEPT !.at[s] = to] \in Muxes /\ MuxIsOne([m EXCEPT !.at[s] = to])
         /\ \A t \in AllStreams \ {s} : [m EXCEPT !.at[s] = to].at[t] = m.at[t]
         /\ [m EXCEPT !.at[s] = to].at[s] = to /\ [m EXCEPT !.at[s] = to].task = m.task
<1> DEFINE n == [m EXCEPT !.at[s] = to]
<1>1. n \in Muxes /\ n.at = [m.at EXCEPT ![s] = to] /\ n.socket = m.socket
      /\ n.task = m.task /\ n.crossed = m.crossed /\ n.overtaken = m.overtaken
  BY DEF Muxes
<1>2. \A t \in AllStreams : n.at[t] = IF t = s THEN to ELSE m.at[t]
  BY <1>1 DEF Muxes
<1> HIDE DEF n
<1>3. MuxIsOne(n)
  BY <1>1, <1>2 DEF MuxIsOne, Clear, Blamed, Waiting
<1> QED
  BY <1>1, <1>2, <1>3 DEF n

\* A stream that is opened is handed the open socket, or waits for one.
LEMMA OpenedIs ==
  ASSUME NEW m \in Muxes, MuxIsOne(m), NEW s \in AllStreams
  PROVE  /\ Opened(m, s) \in Muxes /\ MuxIsOne(Opened(m, s))
         /\ \A t \in AllStreams \ {s} : Opened(m, s).at[t] = m.at[t]
         /\ Opened(m, s).task = m.task /\ Opened(m, s).at[s] \notin {"on", "stranded"}
<1>1. m.open \in BOOLEAN /\ m.bumped \in BOOLEAN
  BY DEF Muxes
<1>2. {"opening", "failed", "fresh", "waiting"} \subseteq States \ {"stranded"}
  BY DEF States, Waiting
<1>3. \E to \in {"opening", "failed", "fresh", "waiting"} :
        /\ Opened(m, s) = [m EXCEPT !.at[s] = to]
        /\ to \in Waiting => m.socket # "open"
        /\ to \in {"opening", "on"} => m.socket = "open"
  <2>1. CASE m.socket = "open"
    BY <2>1 DEF Opened, Waiting
  <2>2. CASE m.socket # "open" /\ ~m.open
    BY <2>2 DEF Opened, Waiting
  <2>3. CASE m.socket # "open" /\ m.open /\ m.bumped
    BY <2>3 DEF Opened, Waiting
  <2>4. CASE m.socket # "open" /\ m.open /\ ~m.bumped
    BY <2>4 DEF Opened, Waiting
  <2> QED
    BY <1>1, <2>1, <2>2, <2>3, <2>4
<1> QED
  BY <1>2, <1>3, OneMoves

\* An aborted stream fails.
LEMMA AbortedIs ==
  ASSUME NEW m \in Muxes, MuxIsOne(m), NEW s \in AllStreams
  PROVE  /\ Keeps(m, Aborted(m, s)) /\ Aborted(m, s).task = m.task
         /\ Aborted(m, s).at[s] \in {"idle", "failed"}
<1> DEFINE to == IF m.at[s] = "idle" THEN m.at[s] ELSE "failed"
<1>1. /\ to \in States \ {"stranded"} /\ to \notin Waiting /\ to \notin {"opening", "on"}
      /\ m.at[s] = "idle" => to = "idle"
      /\ to \in {"idle", "failed"}
  BY DEF States, Waiting, Registered
<1>2. Aborted(m, s) = [m EXCEPT !.at[s] = to]
  BY DEF Aborted, Muxes
<1> HIDE DEF to
<1> QED
  BY <1>1, <1>2, OneMoves DEF Keeps

-----------------------------------------------------------------------------
(* The connection keeps it. *)

\* It holds at the start.
LEMMA LinkInitIInv == LinkInit => LinkIInv
<1> SUFFICES ASSUME LinkInit PROVE LinkIInv
  OBVIOUS
<1> USE ConnectionAssumption DEF ConnectionAssumption
<1>1. [s \in AllStreams |-> "idle"] \in [AllStreams -> States]
  BY DEF States
<1>2. mux \in Muxes /\ MuxIsOne(mux)
  BY <1>1 DEF LinkInit, Muxes, MuxIsOne, Clear, Blamed, Waiting, AllStreams
<1>3. LinkTyped
  BY <1>2 DEF LinkTyped, LinkInit, Controls, Sources, Views
<1> QED
  BY <1>2, <1>3 DEF LinkInit, LinkIInv, SourceAt, StoppedShows, ShownIsTrue, AllStreams

\* The loop stops at a rest, or goes on with a generation: what is left to show
\* is the same for every place it comes from.
LEMMA EnterKeeps ==
  ASSUME LinkIInv, NEW c \in Controls, c.running = ctl.running, ctl.running,
         src.pc \in {"none", "settled"},
         Enter(c, mux), UNCHANGED <<net, up, outages>>
  PROVE  LinkIInv'
<1> USE ConnectionAssumption DEF ConnectionAssumption
<1>0. LinkTyped /\ mux \in Muxes /\ MuxIsOne(mux) /\ mux.at[Events] = "idle"
  BY DEF LinkTyped, LinkIInv, SourceAt
<1>1. CASE ~net /\ ~c.immediate /\ Rests(c, "offline") /\ Shows("disconnected")
  BY <1>0, <1>1 DEF LinkTyped, LinkIInv, SourceAt, StoppedShows, ShownIsTrue, Rests, Shows,
                           Controls, Sources, Views
<1>2. CASE /\ c.immediate
           /\ Generation([c EXCEPT !.immediate = FALSE, !.attempt = 1, !.manual = TRUE],
                         MuxReconnect(mux))
           /\ Shows("connecting")
  <2>1. Keeps(mux, MuxReconnect(mux))
    BY <1>0, MuxReconnectIs
  <2>2. mux' \in Muxes /\ MuxIsOne(mux') /\ mux'.at[Events] = "idle"
    BY <1>0, <1>2, <2>1 DEF Generation, Keeps, AllStreams
  <2> DEFINE d == [c EXCEPT !.immediate = FALSE, !.attempt = 1, !.manual = TRUE]
  <2>0. d \in Controls /\ d.running
    <3>1. 1 \in 0 .. Tiers
      OBVIOUS
    <3>2. d \in Controls /\ d.running = c.running
      BY <3>1 DEF Controls
    <3> HIDE DEF d
    <3> QED
      BY <3>2
  <2>3. ctl' \in Controls /\ ctl'.pc = "ready" /\ ctl'.running /\ ~ctl'.aborted
    <3>1. ctl' = [d EXCEPT !.pc = "ready", !.aborted = FALSE, !.woken = FALSE]
      BY <1>2 DEF Generation
    <3> HIDE DEF d
    <3> QED
      BY <2>0, <3>1 DEF Controls
  <2>4. src' \in Sources /\ src'.pc = "starting" /\ ~src'.ready
    BY <1>2 DEF Generation, Sources
  <2>5. status' \in Views /\ status'.state = "connecting" /\ ~status'.generation
    BY <1>2 DEF Shows, Views
  <2> QED
    BY <1>0, <2>2, <2>3, <2>4, <2>5 DEF LinkTyped, LinkIInv, SourceAt, StoppedShows, ShownIsTrue
<1>3. CASE /\ ~c.immediate /\ net /\ FinalTier(c.attempt)
           /\ Rests([c EXCEPT !.manual = FALSE], "final") /\ Shows("disconnected")
  BY <1>0, <1>3 DEF LinkTyped, LinkIInv, SourceAt, StoppedShows, ShownIsTrue, Rests, Shows,
                           Controls, Sources, Views
<1>4. CASE /\ ~c.immediate /\ net /\ ~FinalTier(c.attempt)
           /\ Rests([c EXCEPT !.manual = FALSE, !.attempt = @ + 1], "delay")
           /\ Shows("connecting")
  <2>1. c.attempt + 1 \in 0 .. Tiers
    BY <1>4 DEF FinalTier, Controls
  <2> QED
    BY <1>0, <1>4, <2>1 DEF LinkTyped, LinkIInv, SourceAt, StoppedShows, ShownIsTrue, Rests, Shows,
                           Controls, Sources, Views
<1> QED
  BY <1>1, <1>2, <1>3, <1>4 DEF Enter

\* A stopped loop ends.
LEMMA EndsKeeps ==
  ASSUME LinkIInv, ~ctl.running, src.pc \in {"none", "settled"}, Ends,
         UNCHANGED <<net, up, outages>>
  PROVE  LinkIInv'
<1>0. LinkTyped
  BY DEF LinkIInv
<1> QED
  BY <1>0 DEF LinkTyped, LinkIInv, SourceAt, StoppedShows, ShownIsTrue, Ends, Controls, Views

\* Every step keeps it.
LEMMA LinkNextIInv == LinkIInv /\ [LinkNext]_linkVars => LinkIInv'
<1> SUFFICES ASSUME LinkIInv, [LinkNext]_linkVars PROVE LinkIInv'
  OBVIOUS
<1> USE ConnectionAssumption DEF ConnectionAssumption
<1>0. LinkTyped /\ mux \in Muxes /\ MuxIsOne(mux) /\ Events \in AllStreams
  BY DEF LinkTyped, LinkIInv, AllStreams
<1>1. CASE Start
  <2>1. mux' = MuxStart(mux) /\ Keeps(mux, MuxStart(mux))
    BY <1>0, <1>1, MuxStartIs DEF Start, Generation
  <2>2. mux' \in Muxes /\ MuxIsOne(mux') /\ mux'.at[Events] = "idle"
    BY <1>0, <1>1, <2>1 DEF Start, LinkIInv, SourceAt, Keeps
  <2>3. CASE /\ ~net
             /\ ctl' = [ctl EXCEPT !.pc = "offline"]
             /\ Shows("disconnected") /\ UNCHANGED src
    BY <1>0, <1>1, <2>2, <2>3
       DEF LinkTyped, LinkIInv, SourceAt, StoppedShows, ShownIsTrue, Start, Shows, Controls, Sources,
           Views
  <2>4. CASE net /\ Generation(ctl, MuxStart(mux)) /\ UNCHANGED status
    BY <1>0, <1>1, <2>2, <2>4
       DEF LinkTyped, LinkIInv, SourceAt, StoppedShows, ShownIsTrue, Start, Generation, Controls,
           Sources, Views
  <2> QED
    BY <1>1, <2>3, <2>4 DEF Start
<1>2. CASE RestEnds
  <2>1. src.pc \in {"none", "settled"} /\ ctl \in Controls
    BY <1>0, <1>2 DEF RestEnds, LinkTyped, LinkIInv, SourceAt
  <2> QED
    BY <1>2, <2>1, EnterKeeps, EndsKeeps DEF RestEnds
<1>3. CASE DelayEnds
  <2>1. src.pc \in {"none", "settled"} /\ ctl \in Controls
    BY <1>0, <1>3 DEF DelayEnds, LinkTyped, LinkIInv, SourceAt
  <2>2. CASE ctl.running /\ Generation(ctl, MuxReconnect(mux)) /\ UNCHANGED status
    <3>1. mux' = MuxReconnect(mux) /\ Keeps(mux, MuxReconnect(mux))
      BY <1>0, <2>2, MuxReconnectIs DEF Generation
    <3>2. mux' \in Muxes /\ MuxIsOne(mux') /\ mux'.at[Events] = "idle"
      BY <1>0, <2>1, <3>1 DEF LinkIInv, SourceAt, Keeps
    <3> QED
      BY <1>0, <1>3, <2>2, <3>2
         DEF LinkTyped, LinkIInv, SourceAt, StoppedShows, ShownIsTrue, DelayEnds, Generation,
             Controls, Sources, Views
  <2> QED
    BY <1>3, <2>1, <2>2, EnterKeeps, EndsKeeps DEF DelayEnds
<1>4. CASE HandshakeEnds
  <2>1. UNCHANGED <<net, src, mux, up, outages>> /\ ctl.pc = "ready"
    BY <1>4 DEF HandshakeEnds
  <2>2. CASE /\ src.ready /\ ~ctl.aborted
             /\ ctl' = [ctl EXCEPT !.pc = "failed", !.attempt = 0]
             /\ status' = [state |-> "connected", generation |-> TRUE]
    <3>1. 0 \in 0 .. Tiers
      OBVIOUS
    <3>2. /\ ctl' \in Controls /\ ctl'.pc = "failed" /\ ctl'.running = ctl.running
      BY <1>0, <2>2, <3>1 DEF Controls, LinkTyped
    <3> QED
      BY <1>0, <2>1, <2>2, <3>2 DEF LinkTyped, LinkIInv, SourceAt, StoppedShows, ShownIsTrue, Views
  <2>3. CASE ctl.aborted /\ ctl' = [ctl EXCEPT !.pc = "failed"] /\ UNCHANGED status
    <3>1. /\ ctl' \in Controls /\ ctl'.pc = "failed" /\ ctl'.running = ctl.running
      BY <1>0, <2>3 DEF Controls, LinkTyped
    <3> QED
      BY <1>0, <2>1, <2>3, <3>1 DEF LinkTyped, LinkIInv, SourceAt, StoppedShows, ShownIsTrue
  <2> QED
    BY <1>4, <2>2, <2>3 DEF HandshakeEnds
<1>5. CASE GenerationOver
  <2>1. src.pc \in {"none", "settled"} /\ ctl \in Controls
    BY <1>0, <1>5 DEF GenerationOver, LinkTyped
  <2> DEFINE c == [ctl EXCEPT !.attempt = IF ctl.manual THEN 0 ELSE @]
  <2>2. c \in Controls /\ c.running = ctl.running
    BY <2>1 DEF Controls
  <2>3. CASE ctl.running /\ Enter(c, mux)
    BY <1>5, <2>1, <2>2, <2>3, EnterKeeps DEF GenerationOver
  <2> QED
    BY <1>5, <2>1, <2>3, EndsKeeps DEF GenerationOver
<1>6. CASE CandidateOpens
  <2>0. {"on", "stranded"} \subseteq States
    BY DEF States, Registered
  <2> DEFINE f == Move(mux, {"on"}, "stranded")
             g == Move(f, Waiting, "on")
  <2>1. /\ f \in Muxes
        /\ \A s \in AllStreams : f.at[s] = IF mux.at[s] = "on" THEN "stranded" ELSE mux.at[s]
        /\ f.crossed = mux.crossed /\ f.overtaken = mux.overtaken
    BY <1>0, <2>0, MoveIs
  <2>2. /\ g \in Muxes
        /\ \A s \in AllStreams : g.at[s] = IF f.at[s] \in Waiting THEN "on" ELSE f.at[s]
        /\ g.crossed = f.crossed /\ g.overtaken = f.overtaken
    BY <2>0, <2>1, MoveIs
  <2>3. /\ mux' \in Muxes /\ mux'.at = g.at /\ mux'.crossed = g.crossed
        /\ mux'.overtaken = g.overtaken
        /\ mux'.socket = "open" /\ mux'.task = "none"
    BY <1>6, <2>2 DEF CandidateOpens, Muxes
  <2> HIDE DEF f, g
  <2>4. mux.task = "connecting"
    BY <1>6 DEF CandidateOpens
  <2>5. MuxIsOne(mux')
    BY <1>0, <2>1, <2>2, <2>3, <2>4 DEF MuxIsOne, Clear, Blamed, Waiting
  <2>6. mux.at[Events] = "idle" => mux'.at[Events] = "idle"
    BY <1>0, <2>1, <2>2, <2>3 DEF Waiting
  <2> QED
    BY <1>0, <1>6, <2>3, <2>5, <2>6
       DEF LinkTyped, LinkIInv, SourceAt, StoppedShows, ShownIsTrue, CandidateOpens
<1>7. CASE CandidateFails
  <2>0. outages' \in 0 .. MaxOutages
    BY <1>0, <1>7 DEF CandidateFails, Outage, LinkTyped
  <2>1. mux' \in Muxes /\ mux'.at = mux.at /\ MuxIsOne(mux') /\ mux.task = "connecting"
    BY <1>0, <1>7 DEF CandidateFails, Muxes, MuxIsOne, Clear, Blamed
  <2> QED
    BY <1>0, <1>7, <2>0, <2>1
       DEF LinkTyped, LinkIInv, SourceAt, StoppedShows, ShownIsTrue, CandidateFails
<1>8. CASE AttemptSettles
  <2>0. "failed" \in States
    BY DEF States
  <2> DEFINE f == RejectsWaiters(mux)
             m == [f EXCEPT !.task = "none", !.follow = FALSE]
  <2>1. /\ f \in Muxes
        /\ \A s \in AllStreams : f.at[s] = IF mux.at[s] = "waiting" THEN "failed" ELSE mux.at[s]
        /\ f.socket = mux.socket /\ f.crossed = mux.crossed /\ f.overtaken = mux.overtaken
    BY <1>0, <2>0, MoveIs DEF RejectsWaiters
  <2>2. /\ m \in Muxes /\ m.at = f.at /\ m.socket = f.socket /\ m.crossed = f.crossed
        /\ m.overtaken = f.overtaken /\ m.task = "none"
    BY <2>1 DEF Muxes
  <2>3. mux' = IF mux.follow THEN Maintain(m) ELSE m
    BY <1>8 DEF AttemptSettles
  <2>4. mux.task = "failed"
    BY <1>8 DEF AttemptSettles
  <2> HIDE DEF f, m
  <2>5. MuxIsOne(m) /\ Clear(m) /\ (mux.at[Events] = "idle" => m.at[Events] = "idle")
    BY <1>0, <2>1, <2>2, <2>4 DEF MuxIsOne, Clear, Blamed, Waiting
  <2>6. Keeps(m, Maintain(m))
    BY <2>2, <2>5, MaintainIs
  <2>7. mux' \in Muxes /\ MuxIsOne(mux') /\ (mux.at[Events] = "idle" => mux'.at[Events] = "idle")
    BY <1>0, <2>2, <2>3, <2>5, <2>6 DEF Keeps
  <2>8. ~src.ready /\ (ctl.running => ~status.generation)
    BY <1>0, <2>4 DEF LinkIInv, SourceAt, ShownIsTrue
  <2> QED
    BY <1>0, <1>8, <2>7, <2>8
       DEF LinkTyped, LinkIInv, SourceAt, StoppedShows, ShownIsTrue, AttemptSettles
<1>9. CASE SourceStarts
  <2>1. Opened(mux, Events) \in Muxes /\ MuxIsOne(Opened(mux, Events))
        /\ Opened(mux, Events).task = mux.task
    BY <1>0, OpenedIs
  <2>2. "failed" \in States \ {"stranded"} /\ "failed" \notin Waiting
    BY DEF States, Waiting
  <2> DEFINE n == [mux EXCEPT !.at[Events] = "failed"]
  <2>3. n \in Muxes /\ MuxIsOne(n) /\ n.task = mux.task
    BY <1>0, <2>2, OneMoves
  <2>4. mux' \in Muxes /\ MuxIsOne(mux') /\ mux'.task = mux.task
    BY <1>9, <2>1, <2>3 DEF SourceStarts
  <2> QED
    BY <1>0, <1>9, <2>4
       DEF LinkTyped, LinkIInv, SourceAt, StoppedShows, ShownIsTrue, SourceStarts, Sources
<1>10. CASE HostReady
  <2>1. mux.task = "none"
    BY <1>0, <1>10 DEF HostReady, MuxIsOne
  <2> QED
    BY <1>0, <1>10, <2>1
       DEF LinkTyped, LinkIInv, SourceAt, StoppedShows, ShownIsTrue, HostReady, Sources
<1>11. CASE SourceSettles
  <2>1. "idle" \in States \ {"stranded"} /\ "idle" \notin Waiting
    BY DEF States, Waiting
  <2> DEFINE n == [mux EXCEPT !.at[Events] = "idle"]
  <2>2. n \in Muxes /\ MuxIsOne(n) /\ n.task = mux.task /\ n.at[Events] = "idle"
    BY <1>0, <2>1, OneMoves
  <2>3. mux' \in Muxes /\ MuxIsOne(mux') /\ mux'.task = mux.task /\ mux'.at[Events] = "idle"
    BY <1>11, <2>2 DEF SourceSettles
  <2> QED
    BY <1>0, <1>11, <2>3
       DEF LinkTyped, LinkIInv, SourceAt, StoppedShows, ShownIsTrue, SourceSettles, Sources, Controls
<1>12. CASE SocketCloses
  <2>0. outages' \in 0 .. MaxOutages
    BY <1>0, <1>12 DEF SocketCloses, Outage, LinkTyped
  <2>1. mux' \in Muxes /\ mux'.at = mux.at /\ MuxIsOne(mux') /\ mux'.task = mux.task
    BY <1>0, <1>12 DEF SocketCloses, Muxes, MuxIsOne, Clear, Blamed, NewTask
  <2> QED
    BY <1>0, <1>12, <2>0, <2>1
       DEF LinkTyped, LinkIInv, SourceAt, StoppedShows, ShownIsTrue, SocketCloses
<1>13. CASE SocketLost
  <2>0. outages' \in 0 .. MaxOutages
    BY <1>0, <1>13 DEF SocketLost, Outage, LinkTyped
  <2>1. mux' = DropSocket(mux) /\ Keeps(mux, DropSocket(mux)) /\ DropSocket(mux).task = mux.task
    BY <1>0, <1>13, DropSocketIs DEF SocketLost
  <2>2. mux' \in Muxes /\ MuxIsOne(mux') /\ mux'.task = mux.task
        /\ (mux.at[Events] = "idle" => mux'.at[Events] = "idle")
    BY <1>0, <2>1 DEF Keeps
  <2> QED
    BY <1>0, <1>13, <2>0, <2>2
       DEF LinkTyped, LinkIInv, SourceAt, StoppedShows, ShownIsTrue, SocketLost
<1>14. CASE HostEnds
  <2>0. outages' \in 0 .. MaxOutages
    BY <1>0, <1>14 DEF HostEnds, Outage, LinkTyped
  <2>1. "failed" \in States \ {"stranded"} /\ "failed" \notin Waiting
    BY DEF States, Waiting
  <2> DEFINE n == [mux EXCEPT !.at[Events] = "failed"]
  <2>2. n \in Muxes /\ MuxIsOne(n) /\ n.task = mux.task
    BY <1>0, <2>1, OneMoves
  <2>3. mux' \in Muxes /\ MuxIsOne(mux') /\ mux'.task = mux.task /\ mux.at[Events] = "on"
    BY <1>14, <2>2 DEF HostEnds
  <2> QED
    BY <1>0, <1>14, <2>0, <2>3
       DEF LinkTyped, LinkIInv, SourceAt, StoppedShows, ShownIsTrue, HostEnds
<1>15. CASE Reconnect
  <2>0. outages' \in 0 .. MaxOutages
    BY <1>0, <1>15 DEF Reconnect, Outage, LinkTyped
  <2>1. Keeps(mux, Aborted(mux, Events)) /\ Aborted(mux, Events).task = mux.task
    BY <1>0, AbortedIs
  <2>2. mux' \in Muxes /\ MuxIsOne(mux') /\ mux'.task = mux.task
        /\ (mux.at[Events] = "idle" => mux'.at[Events] = "idle")
    BY <1>0, <1>15, <2>1 DEF Reconnect, Interrupts, Keeps
  <2>3. /\ ctl' \in Controls /\ ctl'.pc = ctl.pc /\ ctl'.running = ctl.running /\ ctl'.aborted
    <3> DEFINE c == [ctl EXCEPT !.attempt = 0, !.immediate = TRUE]
    <3>1. 0 \in 0 .. Tiers
      OBVIOUS
    <3>2. c \in Controls /\ c.pc = ctl.pc /\ c.running = ctl.running
      BY <1>0, <3>1 DEF Controls, LinkTyped
    <3>3. ctl' = [c EXCEPT !.aborted = TRUE, !.woken = TRUE]
      BY <1>15 DEF Reconnect, Interrupts
    <3> HIDE DEF c
    <3> QED
      BY <3>2, <3>3 DEF Controls
  <2>4. status' \in Views /\ status'.state = "connecting" /\ ~status'.generation
    BY <1>15 DEF Reconnect, Shows, Views
  <2>5. ctl.running /\ ctl.pc \notin {"off", "ended"} /\ UNCHANGED <<net, src, up>>
    BY <1>15 DEF Reconnect, Looping
  <2> QED
    BY <1>0, <2>0, <2>2, <2>3, <2>4, <2>5
       DEF LinkTyped, LinkIInv, SourceAt, StoppedShows, ShownIsTrue
<1>16. CASE NetworkChanges
  <2>0. outages' \in 0 .. MaxOutages
    BY <1>0, <1>16 DEF NetworkChanges, Outage, LinkTyped
  <2>1. Keeps(mux, Aborted(mux, Events)) /\ Aborted(mux, Events).task = mux.task
    BY <1>0, AbortedIs
  <2>5. net' = ~net /\ UNCHANGED <<src, up>>
    BY <1>16 DEF NetworkChanges
  <2>6. CASE Looping /\ Interrupts([ctl EXCEPT !.attempt = 0, !.immediate = FALSE])
             /\ Shows(IF net' THEN "connecting" ELSE "disconnected")
    <3>2. mux' \in Muxes /\ MuxIsOne(mux') /\ mux'.task = mux.task
          /\ (mux.at[Events] = "idle" => mux'.at[Events] = "idle")
      BY <1>0, <2>6, <2>1 DEF Interrupts, Keeps
    <3>3. /\ ctl' \in Controls /\ ctl'.pc = ctl.pc /\ ctl'.running = ctl.running /\ ctl'.aborted
      <4> DEFINE c == [ctl EXCEPT !.attempt = 0, !.immediate = FALSE]
      <4>1. 0 \in 0 .. Tiers
        OBVIOUS
      <4>2. c \in Controls /\ c.pc = ctl.pc /\ c.running = ctl.running
        BY <1>0, <4>1 DEF Controls, LinkTyped
      <4>3. ctl' = [c EXCEPT !.aborted = TRUE, !.woken = TRUE]
        BY <2>6 DEF Interrupts
      <4> HIDE DEF c
      <4> QED
        BY <4>2, <4>3 DEF Controls
    <3>4. status' \in Views /\ ~status'.generation /\ status'.state \in {"connecting", "disconnected"}
          /\ (status'.state = "disconnected" => ~net')
      BY <2>6 DEF Shows, Views
    <3>5. ctl.running /\ ctl.pc \notin {"off", "ended"}
      BY <2>6 DEF Looping
    <3> QED
      BY <1>0, <2>0, <2>5, <3>2, <3>3, <3>4, <3>5
         DEF LinkTyped, LinkIInv, SourceAt, StoppedShows, ShownIsTrue
  <2>7. CASE ~Looping /\ UNCHANGED <<ctl, mux, status>>
    BY <1>0, <2>0, <2>5, <2>7
       DEF LinkTyped, LinkIInv, SourceAt, StoppedShows, ShownIsTrue, Looping
  <2> QED
    BY <1>16, <2>6, <2>7 DEF NetworkChanges
<1>17. CASE Stop
  <2>1. Keeps(mux, Aborted(mux, Events)) /\ Aborted(mux, Events).task = mux.task
    BY <1>0, AbortedIs
  <2>2. CASE ctl.pc = "off" /\ ctl' = [ctl EXCEPT !.running = FALSE, !.pc = "ended"]
             /\ UNCHANGED mux
    BY <1>0, <1>17, <2>2
       DEF LinkTyped, LinkIInv, SourceAt, StoppedShows, ShownIsTrue, Stop, Shows, Controls, Views
  <2>3. CASE ctl.pc # "off" /\ Interrupts([ctl EXCEPT !.running = FALSE])
    <3>1. mux' \in Muxes /\ MuxIsOne(mux') /\ mux'.task = mux.task
          /\ (mux.at[Events] = "idle" => mux'.at[Events] = "idle")
      BY <1>0, <2>3, <2>1 DEF Interrupts, Keeps
    <3>2. /\ ctl' \in Controls /\ ctl'.pc = ctl.pc /\ ~ctl'.running /\ ctl'.aborted
      BY <1>0, <2>3 DEF Interrupts, Controls, LinkTyped
    <3> QED
      BY <1>0, <1>17, <2>3, <3>1, <3>2
         DEF LinkTyped, LinkIInv, SourceAt, StoppedShows, ShownIsTrue, Stop, Shows, Views
  <2> QED
    BY <1>17, <2>2, <2>3 DEF Stop
<1>18. CASE MuxCloses
  <2>0. "failed" \in States
    BY DEF States
  <2> DEFINE f == GiveUp(mux)
             g == Move(f, Waiting, "failed")
  <2>1. f \in Muxes /\ MuxIsOne(f) /\ f.socket = "none" /\ f.task = mux.task
        /\ (mux.at[Events] = "idle" => f.at[Events] = "idle")
    BY <1>0, GiveUpIs DEF Keeps
  <2> HIDE DEF f
  <2>2. /\ g \in Muxes
        /\ \A s \in AllStreams : g.at[s] = IF f.at[s] \in Waiting THEN "failed" ELSE f.at[s]
        /\ g.crossed = f.crossed /\ g.overtaken = f.overtaken /\ g.task = f.task
        /\ g.socket = "none"
    BY <2>0, <2>1, MoveIs
  <2> HIDE DEF g
  <2>3. MuxIsOne(g)
    BY <2>1, <2>2 DEF MuxIsOne, Clear, Blamed, Waiting
  <2>4. /\ Keeps(g, Cancel(g)) /\ Cancel(g).socket = "none"
        /\ g.task # "connecting" => Cancel(g).task = g.task
    BY <2>2, <2>3, CancelIs DEF Cancel
  <2>5. mux' = [Cancel(g) EXCEPT !.open = FALSE]
    BY <1>18 DEF MuxCloses, f, g
  <2>6. /\ mux' \in Muxes /\ mux'.at = Cancel(g).at /\ mux'.crossed = Cancel(g).crossed
        /\ mux'.overtaken = Cancel(g).overtaken /\ mux'.socket = "none"
        /\ mux'.task = Cancel(g).task
    BY <2>4, <2>5 DEF Keeps, Muxes
  <2>7. MuxIsOne(mux') /\ (mux.at[Events] = "idle" => mux'.at[Events] = "idle")
    BY <1>0, <2>1, <2>2, <2>4, <2>6 DEF MuxIsOne, Clear, Blamed, Keeps, Waiting
  <2> QED
    BY <1>0, <1>18, <2>1, <2>2, <2>4, <2>6, <2>7
       DEF LinkTyped, LinkIInv, SourceAt, StoppedShows, ShownIsTrue, MuxCloses
<1>19. CASE HostGoes \/ HostReturns
  <2>0. outages' \in 0 .. MaxOutages
    BY <1>0, <1>19 DEF HostGoes, HostReturns, Outage, LinkTyped
  <2>1. up' \in BOOLEAN /\ UNCHANGED <<ctl, net, src, mux, status>>
    BY <1>19 DEF HostGoes, HostReturns
  <2> QED
    BY <1>0, <2>0, <2>1 DEF LinkTyped, LinkIInv, SourceAt, StoppedShows, ShownIsTrue
<1>20. CASE \E s \in Stream : StreamOpens(s) \/ StreamEnds(s)
  <2>1. PICK s \in Stream : StreamOpens(s) \/ StreamEnds(s)
    BY <1>20
  <2>2. s \in AllStreams /\ s # Events /\ UNCHANGED <<ctl, net, src, status, up, outages>>
    BY <2>1 DEF AllStreams, StreamOpens, StreamEnds
  <2>3. "idle" \in States \ {"stranded"} /\ "idle" \notin Waiting
    BY DEF States, Waiting
  <2>4. CASE StreamOpens(s)
    <3>1. /\ mux' \in Muxes /\ MuxIsOne(mux') /\ mux'.task = mux.task
          /\ mux'.at[Events] = mux.at[Events]
      BY <1>0, <2>2, <2>4, OpenedIs DEF StreamOpens
    <3> QED
      BY <1>0, <2>2, <3>1 DEF LinkTyped, LinkIInv, SourceAt, StoppedShows, ShownIsTrue
  <2>5. CASE StreamEnds(s)
    <3>1. /\ mux' \in Muxes /\ MuxIsOne(mux') /\ mux'.task = mux.task
          /\ mux'.at[Events] = mux.at[Events]
      <4> DEFINE n == [mux EXCEPT !.at[s] = "idle"]
      <4>1. n \in Muxes /\ MuxIsOne(n) /\ n.task = mux.task /\ n.at[Events] = mux.at[Events]
        BY <1>0, <2>2, <2>3, OneMoves
      <4> QED
        BY <2>5, <4>1 DEF StreamEnds
    <3> QED
      BY <1>0, <2>2, <3>1 DEF LinkTyped, LinkIInv, SourceAt, StoppedShows, ShownIsTrue
  <2> QED
    BY <2>1, <2>4, <2>5
<1>21. CASE \E s \in AllStreams : Registers(s)
  <2>1. PICK s \in AllStreams : Registers(s)
    BY <1>21
  <2>2. "on" \in States \ {"stranded"} /\ "on" \notin Waiting
    BY DEF States, Waiting, Registered
  <2>3. mux.socket = "open" /\ mux' = [mux EXCEPT !.at[s] = "on"]
    BY <1>0, <2>1 DEF Registers, MuxIsOne
  <2> DEFINE n == [mux EXCEPT !.at[s] = "on"]
  <2>4. n \in Muxes /\ MuxIsOne(n) /\ n.task = mux.task
        /\ (s # Events => n.at[Events] = mux.at[Events])
    BY <1>0, <2>2, <2>3, OneMoves
  <2>5. mux' \in Muxes /\ MuxIsOne(mux') /\ mux'.task = mux.task
        /\ (s # Events => mux'.at[Events] = mux.at[Events])
    BY <2>3, <2>4
  <2>6. s = Events => src.pc = "pumping"
    BY <2>1 DEF Registers, LinkIInv, SourceAt
  <2> QED
    BY <1>0, <2>1, <2>5, <2>6
       DEF LinkTyped, LinkIInv, SourceAt, StoppedShows, ShownIsTrue, Registers
<1>22. CASE UNCHANGED linkVars
  BY <1>0, <1>22 DEF linkVars, LinkTyped, LinkIInv, SourceAt, StoppedShows, ShownIsTrue
<1> QED
  BY <1>1, <1>2, <1>3, <1>4, <1>5, <1>6, <1>7, <1>8, <1>9, <1>10, <1>11, <1>12, <1>13, <1>14, <1>15, <1>16, <1>17, <1>18, <1>19, <1>20, <1>21, <1>22
     DEF LinkNext, Loop, Attempt, Source

\* It holds at any time.
LEMMA LinkInvariant == LinkSpec => []LinkIInv
BY LinkInitIInv, LinkNextIInv, PTL DEF LinkSpec

\* An attempt begins with no socket, and what it moves waited for one.
LEMMA MaintainMoves ==
  ASSUME NEW m \in Muxes, NEW s \in AllStreams,
         m.at[s] # "stranded", m.at[s] # "on"
  PROVE  Maintain(m).at[s] # "stranded" /\ Maintain(m).at[s] # "on"
<1>1. "waiting" \in States
  BY DEF States, Waiting
<1> DEFINE f == Move(m, {"fresh"}, "waiting")
<1>2. f \in Muxes /\ f.at[s] = IF m.at[s] = "fresh" THEN "waiting" ELSE m.at[s]
  BY <1>1, MoveIs
<1> DEFINE n == [f EXCEPT !.task = "connecting", !.bumped = FALSE]
<1>3. n.at = f.at
  BY <1>2 DEF Muxes
<1> QED
  BY <1>2, <1>3 DEF Maintain

\* No step leaves the stream of the events behind: the socket is replaced by the
\* loop only between two generations, and an event waits for its registration.
LEMMA EventsHeldNext ==
  ASSUME LinkIInv, EventsHeld, [LinkNext]_linkVars
  PROVE  EventsHeld'
<1>0. LinkTyped /\ mux \in Muxes /\ MuxIsOne(mux) /\ Events \in AllStreams
  BY DEF LinkTyped, LinkIInv, AllStreams
<1>a. /\ mux.at[Events] # "stranded" /\ (mux.at[Events] = "on" => mux.task = "none")
      /\ (src.pc # "pumping" => mux.at[Events] = "idle")
  BY DEF EventsHeld, LinkIInv, SourceAt
<1>1. CASE Start \/ RestEnds \/ DelayEnds \/ GenerationOver
  <2>1. src.pc \in {"none", "settled"}
    BY <1>1 DEF Start, RestEnds, DelayEnds, GenerationOver, LinkIInv, SourceAt
  <2>2. mux' \in {mux, MuxStart(mux), MuxReconnect(mux)}
    BY <1>1 DEF Start, RestEnds, DelayEnds, GenerationOver, Enter, Ends, Rests, Generation
  <2>3. Keeps(mux, mux) /\ Keeps(mux, MuxStart(mux)) /\ Keeps(mux, MuxReconnect(mux))
    BY <1>0, MuxStartIs, MuxReconnectIs DEF Keeps
  <2>4. mux'.at[Events] = "idle"
    BY <1>0, <1>a, <2>1, <2>2, <2>3 DEF Keeps
  <2> QED
    BY <2>4 DEF EventsHeld
<1>2. CASE UNCHANGED mux
  BY <1>2, <1>a DEF EventsHeld
<1>3. CASE CandidateOpens
  <2>0. {"on", "stranded"} \subseteq States
    BY DEF States, Registered
  <2> DEFINE f == Move(mux, {"on"}, "stranded")
             g == Move(f, Waiting, "on")
  <2>1. f \in Muxes /\ f.at[Events] = IF mux.at[Events] = "on" THEN "stranded" ELSE mux.at[Events]
    BY <1>0, <2>0, MoveIs
  <2>2. g \in Muxes /\ g.at[Events] = IF f.at[Events] \in Waiting THEN "on" ELSE f.at[Events]
    BY <1>0, <2>0, <2>1, MoveIs
  <2>3. mux'.at = g.at /\ mux'.task = "none" /\ mux.task = "connecting"
    BY <1>3, <2>2 DEF CandidateOpens, Muxes
  <2> QED
    BY <1>a, <2>1, <2>2, <2>3 DEF EventsHeld
<1>4. CASE CandidateFails
  <2>1. mux'.at = mux.at /\ mux.task = "connecting"
    BY <1>0, <1>4 DEF CandidateFails, Muxes
  <2> QED
    BY <1>a, <2>1 DEF EventsHeld
<1>5. CASE AttemptSettles
  <2>0. "failed" \in States
    BY DEF States
  <2> DEFINE f == RejectsWaiters(mux)
             m == [f EXCEPT !.task = "none", !.follow = FALSE]
  <2>1. f \in Muxes /\ f.at[Events] = IF mux.at[Events] = "waiting" THEN "failed" ELSE mux.at[Events]
    BY <1>0, <2>0, MoveIs DEF RejectsWaiters
  <2>2. m \in Muxes /\ m.at = f.at
    BY <2>1 DEF Muxes
  <2>3. mux.task = "failed" /\ mux' = IF mux.follow THEN Maintain(m) ELSE m
    BY <1>5 DEF AttemptSettles
  <2> HIDE DEF f, m
  <2>4. m.at[Events] # "stranded" /\ m.at[Events] # "on"
    BY <1>a, <2>1, <2>2, <2>3
  <2>5. Maintain(m).at[Events] # "stranded" /\ Maintain(m).at[Events] # "on"
    BY <1>0, <2>2, <2>4, MaintainMoves
  <2> QED
    BY <2>3, <2>4, <2>5 DEF EventsHeld
<1>6. CASE SocketCloses
  <2>1. mux'.at = mux.at /\ mux'.task = mux.task
    BY <1>0, <1>6 DEF SocketCloses, Muxes
  <2> QED
    BY <1>a, <2>1 DEF EventsHeld
<1>7. CASE SocketLost
  <2>1. mux.at[Events] # "opening" /\ mux' = DropSocket(mux)
    BY <1>0, <1>7 DEF SocketLost, NewTask
  <2>2. mux'.task = mux.task
        /\ (mux'.at[Events] = mux.at[Events] \/ mux'.at[Events] = "failed")
    BY <1>0, <2>1, GiveUpIs DEF DropSocket
  <2> QED
    BY <1>a, <2>2 DEF EventsHeld
<1>8. CASE SourceStarts
  <2>1. Opened(mux, Events).at[Events] \notin {"on", "stranded"}
    BY <1>0, OpenedIs
  <2>2. [mux EXCEPT !.at[Events] = "failed"].at[Events] = "failed"
    BY <1>0 DEF Muxes
  <2> QED
    BY <1>8, <2>1, <2>2 DEF SourceStarts, EventsHeld
<1>9. CASE HostEnds \/ SourceSettles
  <2>1. mux'.at[Events] \in {"failed", "idle"}
    BY <1>0, <1>9 DEF HostEnds, SourceSettles, Muxes
  <2> QED
    BY <2>1 DEF EventsHeld
<1>10. CASE Reconnect \/ NetworkChanges \/ Stop
  <2>1. mux' = mux \/ mux' = Aborted(mux, Events)
    BY <1>10 DEF Reconnect, NetworkChanges, Stop, Interrupts
  <2>2. Aborted(mux, Events).at[Events] \in {"idle", "failed"}
    BY <1>0, AbortedIs
  <2> QED
    BY <1>a, <2>1, <2>2 DEF EventsHeld
<1>11. CASE MuxCloses
  <2>0. mux.at[Events] = "idle" /\ "failed" \in States
    BY <1>a, <1>11 DEF MuxCloses, States
  <2> DEFINE f == GiveUp(mux)
             g == Move(f, Waiting, "failed")
  <2>1. f \in Muxes /\ f.at[Events] = "idle"
    BY <1>0, <2>0, GiveUpIs DEF Keeps
  <2> HIDE DEF f
  <2>2. g \in Muxes /\ g.at[Events] = "idle"
    BY <1>0, <2>0, <2>1, MoveIs DEF Waiting
  <2>3. mux' = [Cancel(g) EXCEPT !.open = FALSE]
    BY <1>11 DEF MuxCloses, f, g
  <2> HIDE DEF g
  <2>4. mux'.at = g.at
    BY <2>2, <2>3 DEF Cancel, Muxes
  <2> QED
    BY <2>2, <2>4 DEF EventsHeld
<1>12. CASE \E s \in Stream : StreamOpens(s) \/ StreamEnds(s)
  <2>1. PICK s \in Stream : StreamOpens(s) \/ StreamEnds(s)
    BY <1>12
  <2>2. s \in AllStreams /\ Events \in AllStreams \ {s}
    BY ConnectionAssumption, <2>1 DEF AllStreams, ConnectionAssumption
  <2>3. [mux EXCEPT !.at[s] = "idle"].at[Events] = mux.at[Events]
        /\ [mux EXCEPT !.at[s] = "idle"].task = mux.task
    BY <1>0, <2>2 DEF Muxes
  <2>4. CASE StreamOpens(s)
    <3>1. Opened(mux, s).at[Events] = mux.at[Events] /\ Opened(mux, s).task = mux.task
      BY <1>0, <2>2, OpenedIs
    <3> QED
      BY <1>a, <2>4, <3>1 DEF StreamOpens, EventsHeld
  <2>5. CASE StreamEnds(s)
    BY <1>a, <2>3, <2>5 DEF StreamEnds, EventsHeld
  <2> QED
    BY <2>1, <2>4, <2>5
<1>13. CASE \E s \in AllStreams : Registers(s)
  <2>1. PICK s \in AllStreams : mux.at[s] = "opening" /\ mux' = [mux EXCEPT !.at[s] = "on"]
    BY <1>13 DEF Registers
  <2>2. mux.task = "none" /\ mux'.task = mux.task
    BY <1>0, <2>1 DEF MuxIsOne, Muxes
  <2>3. mux'.at[Events] = mux.at[Events] \/ mux'.at[Events] = "on"
    BY <1>0, <2>1 DEF Muxes
  <2> QED
    BY <1>a, <2>2, <2>3 DEF EventsHeld
<1> QED
  BY <1>1, <1>2, <1>3, <1>4, <1>5, <1>6, <1>7, <1>8, <1>9, <1>10, <1>11, <1>12, <1>13
     DEF LinkNext, Loop, Attempt, Source, HandshakeEnds, HostReady, HostGoes, HostReturns,
         linkVars

\* The stream of the events is never left behind.
LEMMA EventsAlwaysHeld == LinkSpec => []EventsHeld
<1>1. LinkInit => EventsHeld
  BY DEF LinkInit, EventsHeld, AllStreams
<1>2. LinkIInv /\ EventsHeld /\ [LinkNext]_linkVars => EventsHeld'
  BY EventsHeldNext
<1> QED
  BY LinkInvariant, <1>1, <1>2, PTL DEF LinkSpec

\* Every variable keeps its type; the retries never pass the last tier
\* (isFinalBackoffTier).
THEOREM LinkTypeCorrect == LinkSpec => []LinkTypeOK
<1>1. LinkIInv => LinkTypeOK
  BY DEF LinkIInv, LinkTyped, LinkTypeOK, Controls, Sources, Muxes, Views, States, Waiting, Registered
<1> QED
  BY LinkInvariant, <1>1, PTL

\* Whatever closes, fails, is aborted or restarted, and whenever: nobody waits
\* beside an open socket; nobody is left on one that is gone unless a start()
\* crossed its closing or a drop came between waitForSocket and the registration,
\* the stream of the events never; and what users see of the connection is so
\* (open, reconnect, maintain, lost and failAll of the mux, loop and setState of
\* the controller).
THEOREM ConnectionAlwaysTrue == LinkSpec => []ConnectionIsTrue
<1>1. LinkIInv /\ EventsHeld => ConnectionIsTrue
  BY DEF LinkIInv, MuxIsOne, Blamed, EventsHeld, ConnectionIsTrue, SocketIsShared
<1> QED
  BY LinkInvariant, EventsAlwaysHeld, <1>1, PTL
==============================================================================
