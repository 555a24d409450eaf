---------------------------- MODULE JournalStream ----------------------------
(***************************************************************************)
(* The client's view of a journal over carriers that come and go:          *)
(* RemoteJournalStream (packages/api/gateway/src/client/journal-stream.ts) *)
(* on top of RemoteStream (remote-stream.ts), with the Host's side of the  *)
(* follow stream, the pages and the connection as their environment.       *)
(*                                                                         *)
(* A cursor is a natural number, 0 for the empty journal, and an entry is  *)
(* the cursor it covers.  A page is the run of entries up to the cursor    *)
(* asked for, at most Limit of them.  The Host sends entries in order; it  *)
(* may leave some out, send the last one again, end or fail the stream,    *)
(* and lose the newest entry in a restart.                                 *)
(***************************************************************************)
EXTENDS Integers, Sequences, FiniteSets

CONSTANTS Reader,     \* callers of prepend
          Limit,      \* entries of a page
          MaxLen,     \* entries the journal grows to
          MaxFeed,    \* frames under way
          MaxFaults   \* events that are not part of a calm run

ASSUME JournalAssumption ==
    /\ Limit \in Nat \ {0}
    /\ MaxLen \in Nat \ {0}
    /\ MaxFeed \in Nat \ {0}
    /\ MaxFaults \in Nat

VARIABLES
    host,       \* the journal and the Host's end of the follow stream
    feed,       \* frames sent and not yet taken (StreamInbox)
    available,  \* the connection shows an established generation
    stream,     \* RemoteStream
    journal,    \* RemoteJournalStream
    reader,     \* the prepend calls
    shown,      \* what the domain was given through publish
    faults      \* history: how often each fault has happened, and how many may

vars == <<host, feed, available, stream, journal, reader, shown, faults>>

-----------------------------------------------------------------------------
\* The entries from lo to hi.
Run(lo, hi) == [i \in 1 .. hi + 1 - lo |-> lo + i - 1]

\* First entry of a page that ends at c.
PageStart(c) == IF c > Limit THEN c + 1 - Limit ELSE 1

Tail0(w) == IF w = <<>> THEN 0 ELSE w[Len(w)]

Max2(a, b) == IF a > b THEN a ELSE b

\* "calm" stands for what no failure may be put down to: a repeated entry, a
\* lost generation of the connection, restart() and dispose().  "loss" counts
\* the carriers lost since an opening was accepted or the stream restarted.
Kind == {"skip", "end", "error", "loss", "forget", "page", "calm"}

NoRepair == [through |-> 0, queued |-> {}, round |-> 0]

\* serving: no, asked (open request on its way) or yes.
\* stream.at: idle (no consumer yet), start (top of the loop), open, lost (a
\* carrier error was thrown), wait (for a generation of the connection), parked
\* (suspended at a yield, its consumer has failed) or over (the lifetime is
\* aborted).  revised stands for revision # observedRevision.
\* journal.first is 0 for an undefined firstCursor.  The phases: idle, opening
\* (open() awaits the first frame), live (consume), repair (replaceThrough
\* awaits a page), stale (awaitReplacementGeneration), failed and closed.
\* shown.cut: the last word on older history is that of a page that did not
\* fit the window, or that nothing could precede when it was asked for.
Init ==
    /\ host = [len |-> 0, ever |-> 0, serving |-> "no", sent |-> 0]
    /\ feed = <<>>
    /\ available = TRUE
    /\ stream = [at |-> "idle", gen |-> 0, attempt |-> 0, accepted |-> FALSE,
                 revised |-> FALSE]
    /\ journal = [phase |-> "idle", gen |-> 0, first |-> 0, last |-> 0,
                  opened |-> FALSE, repair |-> NoRepair, cause |-> "none"]
    /\ reader = [r \in Reader |-> [at |-> "idle", before |-> 0]]
    /\ shown = [window |-> <<>>, more |-> FALSE, cut |-> FALSE]
    /\ faults = [left |-> MaxFaults, count |-> [k \in Kind |-> 0]]

Fault(kinds) ==
    /\ faults.left > 0
    /\ faults' = [left |-> faults.left - 1,
                  count |-> [k \in Kind |-> IF k \in kinds THEN faults.count[k] + 1
                                                          ELSE faults.count[k]]]

\* History: the loss count starts again.
Forgiven == faults' = [faults EXCEPT !.count["loss"] = 0]

-----------------------------------------------------------------------------
(* The Host and the connection. *)

JournalGrows ==
    /\ host.len < MaxLen
    /\ host' = [host EXCEPT !.len = @ + 1, !.ever = Max2(@, host.len + 1)]
    /\ UNCHANGED <<feed, available, stream, journal, reader, shown, faults>>

\* The opening frame: the current cursor and the page that ends there.
HostOpens ==
    /\ host.serving = "asked" /\ stream.at = "open"
    /\ host' = [host EXCEPT !.serving = "yes", !.sent = host.len]
    /\ feed' = <<[type |-> "opened", cursor |-> host.len]>>
    /\ UNCHANGED <<available, stream, journal, reader, shown, faults>>

Sends(k) ==
    /\ host.serving = "yes" /\ Len(feed) < MaxFeed
    /\ feed' = Append(feed, [type |-> "entry", cursor |-> k])
    /\ host' = [host EXCEPT !.sent = k]
    /\ UNCHANGED <<available, stream, journal, reader, shown>>

HostSends == host.sent < host.len /\ Sends(host.sent + 1) /\ UNCHANGED faults

HostSkips == host.sent + 1 < host.len /\ Sends(host.sent + 2) /\ Fault({"skip"})

HostRepeats == host.sent > 0 /\ Sends(host.sent) /\ Fault({"calm"})

\* The source of the stream returns, or throws.
HostStops(type) ==
    /\ host.serving # "no" /\ Len(feed) < MaxFeed
    /\ stream.at = "open"
    /\ Fault({type})
    /\ feed' = Append(feed, [type |-> type, cursor |-> 0])
    /\ host' = [host EXCEPT !.serving = "no"]
    /\ UNCHANGED <<available, stream, journal, reader, shown>>

\* The socket is gone: the inbox drops its frames and fails.
Unplugged ==
    /\ feed' = <<>>
    /\ stream' = IF stream.at = "open" THEN [stream EXCEPT !.at = "lost"] ELSE stream

CarrierLost ==
    /\ stream.at = "open"
    /\ Fault({"loss"})
    /\ Unplugged
    /\ host' = [host EXCEPT !.serving = "no"]
    /\ UNCHANGED <<available, journal, reader, shown>>

\* A restart of the Host without the entry it had not stored.
HostForgets ==
    /\ host.len > 0
    /\ Fault(IF stream.at = "open" THEN {"forget", "loss"} ELSE {"forget"})
    /\ Unplugged
    /\ host' = [host EXCEPT !.len = @ - 1, !.serving = "no", !.sent = 0]
    /\ UNCHANGED <<available, journal, reader, shown>>

ConnectionDown ==
    /\ available /\ available' = FALSE
    /\ Fault({"calm"})
    /\ UNCHANGED <<host, feed, stream, journal, reader, shown>>

ConnectionUp ==
    /\ ~available /\ available' = TRUE
    /\ UNCHANGED <<host, feed, stream, journal, reader, shown, faults>>

-----------------------------------------------------------------------------
(* RemoteStream.read. *)

\* The top of the loop: a fresh generation, whose signal replaces the last.
NextGeneration ==
    /\ stream.at = "start"
    /\ stream' = [stream EXCEPT !.at = "open", !.gen = @ + 1, !.accepted = FALSE,
                                !.revised = FALSE,
                                !.attempt = IF stream.revised THEN 0 ELSE @]
    /\ feed' = <<>>
    /\ host' = [host EXCEPT !.serving = "asked"]
    /\ IF stream.revised THEN Forgiven ELSE UNCHANGED faults
    /\ UNCHANGED <<available, journal, reader, shown>>

\* An error nobody retries: the generator is over, its lifetime aborted, and
\* the consumer reports the failure.
Terminates(cause) ==
    /\ stream' = [stream EXCEPT !.at = "over"]
    /\ feed' = <<>>
    /\ host' = [host EXCEPT !.serving = "no"]
    /\ journal' = [journal EXCEPT !.phase = "failed", !.cause = cause, !.repair = NoRepair]

\* The catch clause for a carrier error, and the entry of
\* waitForRemoteStreamRetry.  A restart in the meantime goes first.
CarrierFailed ==
    /\ stream.at = "lost"
    /\ \/ /\ stream.revised
          /\ stream' = [stream EXCEPT !.at = "start"]
          /\ UNCHANGED <<host, feed, journal>>
       \/ /\ ~stream.revised /\ ~available
          /\ stream' = [stream EXCEPT !.at = "wait", !.attempt = @ + 1]
          /\ UNCHANGED <<host, feed, journal>>
       \/ /\ ~stream.revised /\ available /\ stream.attempt = 0
          /\ stream' = [stream EXCEPT !.at = "start", !.attempt = 1]
          /\ UNCHANGED <<host, feed, journal>>
       \/ /\ ~stream.revised /\ available /\ stream.attempt > 0
          /\ Terminates("carrier")
    /\ UNCHANGED <<available, reader, shown, faults>>

\* Mutant: the wait does not look at the connection.
MayRetryOnRestart == stream.revised

\* The wait ends with a generation of the connection or with a restart.
MayRetry == available \/ stream.revised

RetryEnds ==
    /\ stream.at = "wait" /\ MayRetry
    /\ stream' = [stream EXCEPT !.at = "start"]
    /\ UNCHANGED <<host, feed, available, journal, reader, shown, faults>>

\* restart(): the revision moves and the current generation is aborted.
Restart ==
    /\ stream.at \in {"start", "open", "lost", "wait"}
    /\ Fault({"calm"})
    /\ stream' = [stream EXCEPT !.revised = TRUE,
                                !.at = IF @ = "open" THEN "start" ELSE @]
    /\ feed' = <<>>
    /\ host' = [host EXCEPT !.serving = "no"]
    /\ UNCHANGED <<available, journal, reader, shown>>

-----------------------------------------------------------------------------
(* RemoteJournalStream: opening and live entries. *)

Consuming == journal.phase \in {"opening", "live", "repair", "stale"}

\* The consumer awaits the next item and the generator has one.
Takes(type) ==
    /\ Consuming /\ stream.at = "open"
    /\ feed # <<>> /\ Head(feed).type = type
    /\ feed' = Tail(feed)

\* A failure thrown by the consumer itself.  What the generator still does, up
\* to its next yield, nobody sees.
Rejects(cause) ==
    /\ journal' = [journal EXCEPT !.phase = "failed", !.cause = cause, !.repair = NoRepair]
    /\ stream' = [stream EXCEPT !.at = IF @ = "over" THEN @ ELSE "parked"]

Publishes(window, more, cut) == shown' = [window |-> window, more |-> more, cut |-> cut]

\* open().
Open ==
    /\ journal.phase = "idle"
    /\ journal' = [journal EXCEPT !.phase = "opening"]
    /\ stream' = [stream EXCEPT !.at = "start"]
    /\ UNCHANGED <<host, feed, available, reader, shown, faults>>

\* Mutant: the attempts are not reset.
AcceptsOnly == stream' = [stream EXCEPT !.accepted = TRUE]

\* item.accept()
Accepts == stream' = [stream EXCEPT !.accepted = TRUE, !.attempt = 0]

\* replaceGeneration: the opening frame of a generation, wherever the consumer
\* is.  Only a later generation is compared with what was applied.
TakesOpening ==
    /\ Takes("opened")
    /\ LET c == Head(feed).cursor
       IN  \/ /\ journal.opened /\ c < journal.last
              /\ Rejects("behind")
              /\ UNCHANGED <<shown, faults>>
           \/ /\ journal.opened => c >= journal.last
              /\ journal' = [journal EXCEPT !.phase = "live", !.gen = stream.gen,
                                !.opened = TRUE, !.last = c, !.repair = NoRepair,
                                !.first = IF c = 0 THEN 0 ELSE PageStart(c)]
              /\ Accepts
              /\ Publishes(Run(PageStart(c), c), PageStart(c) > 1, FALSE)
              /\ Forgiven
    /\ UNCHANGED <<host, available, reader>>

\* firstCursor once k has been appended.
FirstWith(k) == IF journal.first = 0 THEN k ELSE journal.first

\* acceptEntry: a duplicate, the next entry, or a gap.
TakesEntry ==
    /\ journal.phase = "live" /\ Takes("entry")
    /\ LET k == Head(feed).cursor
       IN  \/ k <= journal.last /\ UNCHANGED <<journal, shown>>
           \/ /\ k = journal.last + 1
              /\ journal' = [journal EXCEPT !.last = k, !.first = FirstWith(k)]
              /\ Publishes(Append(shown.window, k), shown.more, shown.cut)
           \/ /\ k > journal.last + 1
              /\ journal' = [journal EXCEPT !.phase = "repair",
                                !.repair = [through |-> k, queued |-> {k}, round |-> 1]]
              /\ UNCHANGED shown
    /\ UNCHANGED <<host, available, stream, reader, faults>>

\* The stream ended: retryable once its opening was accepted.
TakesEnd ==
    /\ Takes("end")
    /\ \/ /\ stream.accepted
          /\ stream' = [stream EXCEPT !.at = "lost"]
          /\ faults' = [faults EXCEPT !.count["loss"] = @ + 1]
          /\ UNCHANGED journal
       \/ /\ ~stream.accepted
          /\ stream' = [stream EXCEPT !.at = "over"]
          /\ journal' = [journal EXCEPT !.phase = "failed", !.cause = "end",
                                         !.repair = NoRepair]
          /\ UNCHANGED faults
    /\ UNCHANGED <<host, available, reader, shown>>

TakesError ==
    /\ Takes("error")
    /\ stream' = [stream EXCEPT !.at = "over"]
    /\ journal' = [journal EXCEPT !.phase = "failed", !.cause = "error", !.repair = NoRepair]
    /\ UNCHANGED <<host, available, reader, shown, faults>>

-----------------------------------------------------------------------------
(* RemoteJournalStream: repair of a gap. *)

\* readPageWhileFollowing: entries that arrive meanwhile are kept.
QueuesEntry ==
    /\ journal.phase = "repair" /\ Takes("entry")
    /\ journal' = [journal EXCEPT !.repair.queued = @ \union {Head(feed).cursor}]
    /\ UNCHANGED <<host, available, stream, reader, shown, faults>>

\* The signal of the generation that asked for the page is aborted.
PageAborted == stream.revised \/ stream.gen # journal.gen \/ stream.at = "over"

\* maxCursor
Target(repair) ==
    CHOOSE c \in repair.queued \union {repair.through} :
        \A d \in repair.queued \union {repair.through} : d <= c

\* mergeReplacement: the queued entries continue the page without a hole.
Beyond(repair) == {k \in repair.queued : k > repair.through}

\* Mutant: the hole between the page and the queued entries is not seen.
MergesBlindly(repair) == TRUE

Merges(repair) == (repair.through + 1) .. Target(repair) \subseteq Beyond(repair)

InOrder(set) == [i \in 1 .. Cardinality(set) |->
                    CHOOSE k \in set : Cardinality({j \in set : j <= k}) = i]

\* Mutant: pages are read until one fits.
RereadsAlways(repair) == TRUE

\* A second page is read, never a third.
MayReread(repair) == repair.round = 1

\* The page arrives: it is enough, or a second one is read, or it is over.
PageArrives ==
    /\ journal.phase = "repair" /\ ~PageAborted
    /\ journal.repair.through <= host.len
    /\ LET repair == journal.repair
           start  == PageStart(repair.through)
       IN  \/ /\ Merges(repair)
              /\ journal' = [journal EXCEPT !.phase = "live", !.repair = NoRepair,
                                !.first = start, !.last = Target(repair)]
              /\ Publishes(Run(start, repair.through) \o InOrder(Beyond(repair)), start > 1, FALSE)
              /\ UNCHANGED stream
           \/ /\ ~Merges(repair) /\ MayReread(repair)
              /\ journal' = [journal EXCEPT !.repair.through = Target(repair),
                                            !.repair.round = @ + 1]
              /\ UNCHANGED <<stream, shown>>
           \/ /\ ~Merges(repair) /\ ~MayReread(repair)
              /\ Rejects("hole")
              /\ UNCHANGED shown
    /\ UNCHANGED <<host, feed, available, reader, faults>>

\* The read fails for a reason of its own.
PageFails ==
    /\ journal.phase = "repair" /\ ~PageAborted
    /\ Rejects("page")
    /\ \/ journal.repair.through > host.len /\ UNCHANGED faults
       \/ Fault({"page"})
    /\ UNCHANGED <<host, feed, available, reader, shown>>

\* The page had arrived, and restart() came before it was used: the abort is
\* then taken for a failure of the journal.
PageOvertaken ==
    /\ journal.phase = "repair" /\ stream.revised
    /\ journal.repair.through <= host.len
    /\ Rejects("restart")
    /\ UNCHANGED <<host, feed, available, reader, shown, faults>>

\* The read fails because its generation is gone: the entries kept for it are
\* dropped and the next generation is awaited.
PageStale ==
    /\ journal.phase = "repair" /\ PageAborted
    /\ journal' = [journal EXCEPT !.phase = "stale", !.repair = NoRepair]
    /\ UNCHANGED <<host, feed, available, stream, reader, shown, faults>>

-----------------------------------------------------------------------------
(* Pagination and disposal. *)

\* prepend(): the page before what is shown now, read through the last cursor.
PrependAsks(r) ==
    /\ journal.opened /\ journal.phase # "closed"
    /\ reader[r].at = "idle"
    /\ reader' = [reader EXCEPT ![r] = [at |-> "asked", before |-> journal.first]]
    /\ UNCHANGED <<host, feed, available, stream, journal, shown, faults>>

\* Last entry of the older page, from the journal as it is when the page is read.
OlderEnd(r) ==
    IF reader[r].before = 0 THEN 0
    ELSE IF reader[r].before - 1 > host.len THEN host.len
    ELSE reader[r].before - 1

OlderPage(r) == Run(PageStart(OlderEnd(r)), OlderEnd(r))

\* Its entries before firstCursor, which a page, being a run, begins with.
OlderEntries(r) ==
    Run(PageStart(OlderEnd(r)),
        IF journal.first \in 1 .. OlderEnd(r) THEN journal.first - 1 ELSE OlderEnd(r))

\* The page arrives and is fitted to the window as it is by then.
PrependApplies(r) ==
    /\ reader[r].at = "asked" /\ stream.at # "over"
    /\ LET page     == OlderPage(r)
           accepted == OlderEntries(r)
       IN  \/ /\ accepted # <<>> /\ journal.first # 0
              /\ Tail0(accepted) + 1 # journal.first
              /\ Publishes(shown.window, FALSE, TRUE)
              /\ UNCHANGED journal
           \/ /\ accepted = <<>> \/ journal.first = 0 \/ Tail0(accepted) + 1 = journal.first
              /\ journal' = [journal EXCEPT !.first = IF accepted = <<>> THEN @ ELSE accepted[1]]
              /\ Publishes(accepted \o shown.window, page # <<>> /\ page[1] > 1,
                        page = <<>>)
    /\ reader' = [reader EXCEPT ![r] = [at |-> "idle", before |-> 0]]
    /\ UNCHANGED <<host, feed, available, stream, faults>>

\* The page cannot be read, or the lifetime is aborted by then.
PrependFails(r) ==
    /\ reader[r].at = "asked"
    /\ reader' = [reader EXCEPT ![r] = [at |-> "idle", before |-> 0]]
    /\ UNCHANGED <<host, feed, available, stream, journal, shown, faults>>

\* dispose()
Dispose ==
    /\ journal.phase \notin {"idle", "closed"}
    /\ Fault({"calm"})
    /\ stream' = [stream EXCEPT !.at = "over"]
    /\ journal' = [journal EXCEPT !.phase = "closed", !.repair = NoRepair]
    /\ feed' = <<>>
    /\ host' = [host EXCEPT !.serving = "no"]
    /\ UNCHANGED <<available, reader, shown>>

-----------------------------------------------------------------------------
HostFaults ==
    \/ HostSkips \/ HostRepeats \/ HostStops("end") \/ HostStops("error")
    \/ CarrierLost \/ HostForgets \/ ConnectionDown

Generator == NextGeneration \/ CarrierFailed \/ RetryEnds

Consumer ==
    \/ TakesOpening \/ TakesEntry \/ TakesEnd \/ TakesError \/ QueuesEntry

Page == PageArrives \/ PageFails \/ PageOvertaken \/ PageStale

Callers ==
    \/ Open \/ Restart \/ Dispose
    \/ \E r \in Reader : PrependAsks(r) \/ PrependApplies(r) \/ PrependFails(r)

Next ==
    \/ JournalGrows \/ HostOpens \/ HostSends \/ HostFaults \/ ConnectionUp
    \/ Generator \/ Consumer \/ Page \/ Callers

\* The event loop of the client runs what is ready, requests are answered, a
\* Host that is connected serves, and what it serves it sends.  No fairness is
\* asked of the journal, of faults or of the callers, nor of the connection
\* loop, which stops retrying at its last backoff tier.
Fairness ==
    /\ WF_vars(available /\ HostOpens) /\ WF_vars(HostSends)
    /\ WF_vars(Generator) /\ WF_vars(Consumer) /\ WF_vars(Page)

Spec == Init /\ [][Next]_vars /\ Fairness

-----------------------------------------------------------------------------
Cursor == 0 .. MaxLen

TypeOK ==
    /\ host \in [len: Cursor, ever: Cursor, serving: {"no", "asked", "yes"}, sent: Cursor]
    /\ feed \in Seq([type: {"opened", "entry", "end", "error"}, cursor: Cursor])
    /\ available \in BOOLEAN
    /\ stream \in [at: {"idle", "start", "open", "lost", "wait", "parked", "over"},
                   gen: Nat, attempt: Nat, accepted: BOOLEAN, revised: BOOLEAN]
    /\ journal \in [phase: {"idle", "opening", "live", "repair", "stale", "failed", "closed"},
                    gen: Nat, first: Cursor, last: Cursor, opened: BOOLEAN,
                    repair: [through: Cursor, queued: SUBSET Cursor, round: 0 .. 2],
                    cause: {"none", "carrier", "behind", "end", "error", "hole", "page",
                            "restart"}]
    /\ reader \in [Reader -> [at: {"idle", "asked"}, before: Cursor]]
    /\ shown \in [window: Seq(Cursor), more: BOOLEAN, cut: BOOLEAN]
    /\ faults \in [left: 0 .. MaxFaults, count: [Kind -> 0 .. MaxFaults]]

\* The cursors the code keeps are those of the window the domain was given,
\* and older history is denied only where the window begins with the journal,
\* whichever of pages, repairs and replacements came last - unless the last
\* word was that of a page that did not fit or could not hold any (prepend).
WindowIsKnown ==
    /\ journal.opened =>
         /\ journal.last = Tail0(shown.window)
         /\ journal.first = IF shown.window = <<>> THEN 0 ELSE shown.window[1]
    /\ ~shown.more /\ ~shown.cut /\ shown.window # <<>> => shown.window[1] = 1

\* A stream gives up only for what it cannot mend: a carrier lost again before
\* a new opening was accepted, a Host that went back, a source that ended too
\* early or failed, a page that could not be read, a restart asked for while a
\* page was being used, three holes around one repair (CarrierFailed,
\* TakesOpening, PageArrives and the rest).
GivesUpForCause ==
    LET n == faults.count
    IN  /\ journal.cause = "carrier" => n["loss"] >= 2
        /\ journal.cause = "behind"  => n["forget"] >= 1
        /\ journal.cause = "page"    => n["page"] + n["forget"] >= 1
        /\ journal.cause = "hole"    => n["skip"] >= 3
        /\ journal.cause = "end"     => n["end"] >= 1
        /\ journal.cause = "error"   => n["error"] >= 1
        /\ journal.cause = "restart" => n["calm"] >= 1

\* What the stream says of its window and of its end is true.
StreamIsHonest == WindowIsKnown /\ GivesUpForCause

\* As the owner of the stream sees it, it is a JournalWindow.
Window == INSTANCE JournalWindow WITH
    size <- host.ever,
    window <- shown.window,
    status <- CASE journal.phase = "closed" -> "closed"
                [] journal.phase = "failed" -> "failed"
                [] journal.opened /\ journal.phase \notin {"failed", "closed"} -> "shown"
                [] ~journal.opened /\ journal.phase \notin {"failed", "closed"} -> "blank"

ImplementsWindow == Window!Spec

\* The window catches up with the journal, unless the stream is not open any
\* more or waits for a connection that is not there: no gap, loss, restart or
\* return of the connection leaves it waiting for ever.
CatchesUp ==
    <>[](\/ journal.phase \in {"idle", "failed", "closed"}
         \/ journal.phase = "live" /\ journal.last >= host.len
         \/ ~available /\ (stream.at = "wait" \/ host.serving = "asked"))
=============================================================================
