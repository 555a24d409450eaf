------------------------------ MODULE Connection ------------------------------
(***************************************************************************)
(* The browser's connection to the Host: the retry loop of                 *)
(* ConnectionController (packages/client/connection/src/client), the one   *)
(* WebSocket of RemoteStreamMuxClient (packages/api/gateway/src/client/    *)
(* stream-client.ts), and the $events stream whose life is a generation    *)
(* (remote-events.ts).  Other logical streams share the socket.            *)
(*                                                                         *)
(* The state of ctl, mux and status is the code's; the Host, the network   *)
(* and the callers are the environment.  A revision of the mux is only     *)
(* compared with that of the attempt under way, so that it is kept as the  *)
(* flags bumped and "fresh".                                               *)
(*                                                                         *)
(* Names that would meet those of JournalStream, which runs over this      *)
(* connection, carry the prefix Link.                                      *)
(***************************************************************************)
EXTENDS Naturals, FiniteSets

CONSTANTS Events,     \* the $events stream
          Stream,     \* other logical streams
          Tiers,      \* retry tiers of the backoff; the last one is final
          MaxOutages  \* events that are not part of a calm run

ASSUME ConnectionAssumption ==
    /\ Events \notin Stream
    /\ Tiers \in Nat \ {0}
    /\ MaxOutages \in Nat

VARIABLES
    ctl,     \* ConnectionController
    net,     \* networkAvailable
    src,     \* the generation source (pumpEvents)
    mux,     \* RemoteStreamMuxClient
    status,  \* what ConnectionHandle publishes
    up,      \* the Host can be reached
    outages  \* events of that kind left

linkVars == <<ctl, net, src, mux, status, up, outages>>

AllStreams == Stream \union {Events}

Registered == {"on", "stranded"}

Waiting == {"waiting", "fresh"}

\* ctl.pc is the await of loop(): off (not started), offline and final
\* (waitForAbort), delay (sleep), ready (the handshake), failed (await failed)
\* or ended.  woken: retryDelay is aborted; aborted: current is.
\* mux.task is keepAlive: none, connecting, or failed with its handlers still to
\* run; follow: a maintain() is chained to it.
\* mux.at: idle, waiting (in waiters), fresh (with a later revision than the
\* attempt under way), opening (it was handed this.socket and registers in the
\* next microtask), on (registered on this.socket), stranded (registered, or
\* about to, on a socket that is not this.socket any more) or failed (its error
\* not taken).  crossed and overtaken are history: start() found streams on a
\* socket that was closing; a socket was dropped before a stream that had been
\* handed it was registered.
LinkInit ==
    /\ ctl = [pc |-> "off", running |-> TRUE, attempt |-> 0, immediate |-> FALSE,
              manual |-> FALSE, woken |-> FALSE, aborted |-> FALSE]
    /\ net \in BOOLEAN
    /\ src = [pc |-> "none", ready |-> FALSE]
    /\ mux = [socket |-> "none", task |-> "connecting", bumped |-> FALSE,
              follow |-> FALSE, open |-> TRUE, at |-> [s \in AllStreams |-> "idle"],
              crossed |-> FALSE, overtaken |-> FALSE]
    /\ status = [state |-> "none", generation |-> FALSE]
    /\ up \in BOOLEAN
    /\ outages = MaxOutages

Outage == outages > 0 /\ outages' = outages - 1

\* An event of the socket or of the browser, and a timer, are tasks of their own:
\* the continuations that the running one has queued come first.
NewTask ==
    /\ src.pc # "starting" /\ mux.task # "failed"
    /\ \A s \in AllStreams : mux.at[s] # "opening"

-----------------------------------------------------------------------------
(* RemoteStreamMuxClient. *)

\* Every stream that is in one of the states goes to another.
Move(m, states, to) ==
    [m EXCEPT !.at = [s \in AllStreams |-> IF m.at[s] \in states THEN to ELSE m.at[s]]]

\* Mutant: the socket is dropped and its streams are not told.
FailNobody(m) == Move(m, {"on"}, "stranded")

\* failAll
FailAll(m) == Move(m, Registered, "failed")

\* The socket is given up.  failAll cannot see the streams that are about to
\* register on it.
GiveUp(m) ==
    [Move(FailAll(m), {"opening"}, "stranded")
        EXCEPT !.socket = "none",
               !.overtaken = @ \/ \E s \in AllStreams : m.at[s] = "opening"]

\* The part of reconnect() and lost() that gives the socket up.
DropSocket(m) == IF m.socket = "none" THEN m ELSE GiveUp(m)

\* maintain(): an attempt, unless there is a socket or an attempt already.
Maintain(m) ==
    IF ~m.open \/ m.socket = "open" \/ m.task # "none" THEN m
    ELSE [Move(m, {"fresh"}, "waiting") EXCEPT !.task = "connecting", !.bumped = FALSE]

\* ... after the attempt under way, if there is one.
Follow(m) == IF m.task = "none" THEN Maintain(m) ELSE [m EXCEPT !.follow = TRUE]

MuxStart(m) ==
    IF ~m.open \/ m.socket = "open" THEN m
    ELSE Follow([m EXCEPT !.crossed = @ \/ \E s \in AllStreams : m.at[s] = "on"])

\* cancelCandidate
Cancel(m) == IF m.task = "connecting" THEN [m EXCEPT !.task = "failed"] ELSE m

MuxReconnect(m) ==
    IF ~m.open THEN m
    ELSE Follow(DropSocket(Cancel([m EXCEPT !.bumped = m.task # "none"])))

\* waitForSocket: it hands out the open socket, or the stream waits for one.
Opened(m, s) ==
    [m EXCEPT !.at[s] = CASE m.socket = "open" -> "opening"
                          [] m.socket # "open" /\ ~m.open -> "failed"
                          [] m.socket # "open" /\ m.open /\ m.bumped -> "fresh"
                          [] m.socket # "open" /\ m.open /\ ~m.bumped -> "waiting"]

\* The signal of the stream is aborted.
Aborted(m, s) == [m EXCEPT !.at[s] = IF @ = "idle" THEN @ ELSE "failed"]

\* The candidate opens: it is the socket from now on, of the waiters too, whose
\* continuations are the first to run.  A maintain() that follows finds it open.
CandidateOpens ==
    /\ NewTask /\ mux.task = "connecting" /\ up
    /\ mux' = [Move(Move(mux, {"on"}, "stranded"), Waiting, "on")
                  EXCEPT !.socket = "open", !.task = "none", !.follow = FALSE]
    /\ UNCHANGED <<ctl, net, src, status, up, outages>>

CandidateFails ==
    /\ NewTask /\ mux.task = "connecting"
    /\ \/ ~up /\ UNCHANGED outages
       \/ Outage
    /\ mux' = [mux EXCEPT !.task = "failed"]
    /\ UNCHANGED <<ctl, net, src, status, up>>

\* Mutant: a failed attempt leaves its waiters alone.
RejectsNobody(m) == m

\* The waiters that waited for this attempt get its error.
RejectsWaiters(m) == Move(m, {"waiting"}, "failed")

\* The handlers of the failed attempt: reject, clear keepAlive, what follows.
AttemptSettles ==
    /\ mux.task = "failed"
    /\ LET m == [RejectsWaiters(mux) EXCEPT !.task = "none", !.follow = FALSE]
       IN  mux' = IF mux.follow THEN Maintain(m) ELSE m
    /\ UNCHANGED <<ctl, net, src, status, up, outages>>

\* The closing handshake begins; the event comes later.
SocketCloses ==
    /\ NewTask /\ mux.socket = "open"
    /\ Outage
    /\ mux' = [mux EXCEPT !.socket = "closing"]
    /\ UNCHANGED <<ctl, net, src, status, up>>

\* "close" or "error" of the socket.
SocketLost ==
    /\ NewTask
    /\ \/ mux.socket = "closing" /\ UNCHANGED outages
       \/ mux.socket = "open" /\ Outage
    /\ mux' = DropSocket(mux)
    /\ UNCHANGED <<ctl, net, src, status, up>>

-----------------------------------------------------------------------------
(* Other streams on the mux. *)

StreamOpens(s) ==
    /\ mux.at[s] = "idle"
    /\ mux' = Opened(mux, s)
    /\ UNCHANGED <<ctl, net, src, status, up, outages>>

\* open() goes on after its await: the stream is registered on the socket that
\* it was handed, without a look at what has become of it.
Registers(s) ==
    /\ mux.at[s] = "opening"
    /\ mux' = [mux EXCEPT !.at[s] = "on"]
    /\ UNCHANGED <<ctl, net, src, status, up, outages>>

\* It is cancelled, or its consumer has taken the error.
StreamEnds(s) ==
    /\ mux.at[s] # "idle"
    /\ mux' = [mux EXCEPT !.at[s] = "idle"]
    /\ UNCHANGED <<ctl, net, src, status, up, outages>>

-----------------------------------------------------------------------------
(* The generation source. *)

SourceStarts ==
    /\ src.pc = "starting"
    /\ src' = [src EXCEPT !.pc = "pumping"]
    /\ mux' = IF ctl.aborted THEN [mux EXCEPT !.at[Events] = "failed"] ELSE Opened(mux, Events)
    /\ UNCHANGED <<ctl, net, status, up, outages>>

\* The opening item of the Host.
HostReady ==
    /\ NewTask /\ up /\ mux.socket = "open" /\ mux.at[Events] = "on" /\ ~src.ready
    /\ src' = [src EXCEPT !.ready = TRUE]
    /\ UNCHANGED <<ctl, net, mux, status, up, outages>>

\* The Host ends or fails the stream, sends what it may not, or an answer to it
\* cannot be delivered.
HostEnds ==
    /\ NewTask /\ mux.socket = "open" /\ mux.at[Events] = "on"
    /\ Outage
    /\ mux' = [mux EXCEPT !.at[Events] = "failed"]
    /\ UNCHANGED <<ctl, net, src, status, up>>

\* The source settles, and aborts its generation with it.
SourceSettles ==
    /\ src.pc = "pumping" /\ mux.at[Events] = "failed"
    /\ src' = [src EXCEPT !.pc = "settled"]
    /\ mux' = [mux EXCEPT !.at[Events] = "idle"]
    /\ ctl' = [ctl EXCEPT !.aborted = TRUE]
    /\ UNCHANGED <<net, status, up, outages>>

-----------------------------------------------------------------------------
(* ConnectionController.loop. *)

\* A state other than connected withdraws the generation.
Shows(state) == status' = [state |-> state, generation |-> FALSE]

\* Mutant: there is always another tier.
NeverFinal(attempt) == FALSE

\* isFinalBackoffTier
FinalTier(attempt) == attempt >= Tiers

\* A new generation: its source starts in a microtask.
Generation(c, m) ==
    /\ ctl' = [c EXCEPT !.pc = "ready", !.aborted = FALSE, !.woken = FALSE]
    /\ src' = [pc |-> "starting", ready |-> FALSE]
    /\ mux' = m

Rests(c, pc) == ctl' = [c EXCEPT !.pc = pc, !.woken = FALSE] /\ UNCHANGED <<mux, src>>

\* The loop from its top to the next await, in a retry: not the first time.
Enter(c, m) ==
    \/ /\ ~net /\ ~c.immediate
       /\ Rests(c, "offline") /\ Shows("disconnected")
    \/ /\ c.immediate
       /\ Generation([c EXCEPT !.immediate = FALSE, !.attempt = 1, !.manual = TRUE],
                     MuxReconnect(m))
       /\ Shows("connecting")
    \/ /\ ~c.immediate /\ net /\ FinalTier(c.attempt)
       /\ Rests([c EXCEPT !.manual = FALSE], "final") /\ Shows("disconnected")
    \/ /\ ~c.immediate /\ net /\ ~FinalTier(c.attempt)
       /\ Rests([c EXCEPT !.manual = FALSE, !.attempt = @ + 1], "delay")
       /\ Shows("connecting")

Ends == ctl' = [ctl EXCEPT !.pc = "ended"] /\ UNCHANGED <<mux, src, status>>

\* The loader is done: the mux is started again, then the loop.
Start ==
    /\ ctl.pc = "off" /\ ctl.running
    /\ \/ /\ ~net
          /\ ctl' = [ctl EXCEPT !.pc = "offline"] /\ mux' = MuxStart(mux)
          /\ Shows("disconnected") /\ UNCHANGED src
       \/ net /\ Generation(ctl, MuxStart(mux)) /\ UNCHANGED status
    /\ UNCHANGED <<net, up, outages>>

\* waitForAbort returns, offline or after the last tier.
RestEnds ==
    /\ ctl.pc \in {"offline", "final"} /\ ctl.woken
    /\ \/ ~ctl.running /\ Ends
       \/ ctl.running /\ Enter(ctl, mux)
    /\ UNCHANGED <<net, up, outages>>

\* sleep returns: the attempt, unless something happened meanwhile.
DelayEnds ==
    /\ ctl.pc = "delay"
    /\ \/ ~ctl.running /\ Ends
       \/ ctl.running /\ ctl.woken /\ Enter(ctl, mux)
       \/ /\ NewTask /\ ctl.running /\ ~ctl.woken
          /\ Generation(ctl, MuxReconnect(mux)) /\ UNCHANGED status
    /\ UNCHANGED <<net, up, outages>>

\* The handshake is over, one way or the other.
HandshakeEnds ==
    /\ ctl.pc = "ready"
    /\ \/ /\ src.ready /\ ~ctl.aborted
          /\ ctl' = [ctl EXCEPT !.pc = "failed", !.attempt = 0]
          /\ status' = [state |-> "connected", generation |-> TRUE]
       \/ /\ ctl.aborted
          /\ ctl' = [ctl EXCEPT !.pc = "failed"]
          /\ UNCHANGED status
    /\ UNCHANGED <<net, src, mux, up, outages>>

\* await failed
GenerationOver ==
    /\ ctl.pc = "failed" /\ src.pc = "settled"
    /\ \/ ~ctl.running /\ Ends
       \/ /\ ctl.running
          /\ Enter([ctl EXCEPT !.attempt = IF ctl.manual THEN 0 ELSE @], mux)
    /\ UNCHANGED <<net, up, outages>>

-----------------------------------------------------------------------------
(* Callers and the network. *)

Looping == ctl.running /\ ctl.pc \notin {"off", "ended"}

\* current and retryDelay are aborted.
Interrupts(c) ==
    /\ ctl' = [c EXCEPT !.aborted = TRUE, !.woken = TRUE]
    /\ mux' = Aborted(mux, Events)

\* reconnect()
Reconnect ==
    /\ Looping /\ Outage
    /\ Interrupts([ctl EXCEPT !.attempt = 0, !.immediate = TRUE])
    /\ Shows("connecting")
    /\ UNCHANGED <<net, src, up>>

\* setNetworkAvailable
NetworkChanges ==
    /\ NewTask /\ Outage
    /\ net' = ~net
    /\ \/ /\ Looping
          /\ Interrupts([ctl EXCEPT !.attempt = 0, !.immediate = FALSE])
          /\ Shows(IF net' THEN "connecting" ELSE "disconnected")
       \/ ~Looping /\ UNCHANGED <<ctl, mux, status>>
    /\ UNCHANGED <<src, up>>

\* The plugin is disposed: stop(), and what the handle shows is withdrawn.
Stop ==
    /\ ctl.running
    /\ \/ /\ ctl.pc = "off" /\ ctl' = [ctl EXCEPT !.running = FALSE, !.pc = "ended"]
          /\ UNCHANGED mux
       \/ ctl.pc # "off" /\ Interrupts([ctl EXCEPT !.running = FALSE])
    /\ Shows("none")
    /\ UNCHANGED <<net, src, up, outages>>

\* close(), after the active generation
MuxCloses ==
    /\ ~ctl.running /\ mux.open /\ src.pc \in {"none", "settled"}
    /\ mux' = [Cancel(Move(GiveUp(mux), Waiting, "failed")) EXCEPT !.open = FALSE]
    /\ UNCHANGED <<ctl, net, src, status, up, outages>>

HostGoes ==
    /\ up /\ Outage /\ up' = FALSE
    /\ UNCHANGED <<ctl, net, src, mux, status>>

HostReturns == ~up /\ up' = TRUE /\ UNCHANGED <<ctl, net, src, mux, status, outages>>

-----------------------------------------------------------------------------
Loop == Start \/ RestEnds \/ DelayEnds \/ HandshakeEnds \/ GenerationOver

Attempt == CandidateOpens \/ CandidateFails \/ AttemptSettles

Source == SourceStarts \/ HostReady \/ SourceSettles

LinkNext ==
    \/ Loop \/ Attempt \/ Source \/ SocketCloses \/ SocketLost \/ HostEnds
    \/ Reconnect \/ NetworkChanges \/ Stop \/ MuxCloses \/ HostGoes \/ HostReturns
    \/ \E s \in Stream : StreamOpens(s) \/ StreamEnds(s)
    \/ \E s \in AllStreams : Registers(s)

\* The loader finishes, continuations run, delays pass, an attempt opens or
\* fails, a closing socket closes, and a Host that is reached answers.  What is a
\* task has its turn although streams that open go first, time and again: strong
\* fairness.  None is asked of callers, of the network or of the Host's return.
LinkFairness ==
    /\ SF_linkVars(Loop) /\ SF_linkVars(Source) /\ WF_linkVars(AttemptSettles)
    /\ SF_linkVars(CandidateOpens \/ CandidateFails)
    /\ \A s \in AllStreams : WF_linkVars(Registers(s))
    /\ SF_linkVars(mux.socket = "closing" /\ SocketLost) /\ WF_linkVars(MuxCloses)

LinkSpec == LinkInit /\ [][LinkNext]_linkVars /\ LinkFairness

-----------------------------------------------------------------------------
\* The variables keep their domains; in particular the retries never pass the
\* last tier (isFinalBackoffTier).
LinkTypeOK ==
    /\ ctl \in [pc: {"off", "offline", "final", "delay", "ready", "failed", "ended"},
                running: BOOLEAN, attempt: 0 .. Tiers, immediate: BOOLEAN,
                manual: BOOLEAN, woken: BOOLEAN, aborted: BOOLEAN]
    /\ net \in BOOLEAN /\ up \in BOOLEAN
    /\ src \in [pc: {"none", "starting", "pumping", "settled"}, ready: BOOLEAN]
    /\ mux \in [socket: {"none", "open", "closing"},
                task: {"none", "connecting", "failed"},
                bumped: BOOLEAN, follow: BOOLEAN, open: BOOLEAN, crossed: BOOLEAN,
                overtaken: BOOLEAN,
                at: [AllStreams -> {"idle", "failed", "opening"} \union Waiting
                                      \union Registered]]
    /\ status \in [state: {"none", "connecting", "connected", "disconnected"},
                  generation: BOOLEAN]
    /\ outages \in 0 .. MaxOutages

\* The mux keeps one socket, nobody waits beside an open one, and no stream is
\* left on a socket that was given up, lost or replaced (reconnect, lost) - but
\* in two windows: a start() that meets a closing socket and is quicker than its
\* event, and a socket dropped between waitForSocket and the registration of the
\* stream that was handed it.  The stream of the events is never left.
SocketIsShared ==
    /\ mux.task = "connecting" => mux.socket # "open"
    /\ \A s \in AllStreams :
          /\ mux.at[s] \in Waiting => mux.socket # "open"
          /\ mux.at[s] = "opening" => mux.socket = "open"
          /\ mux.at[s] = "stranded" => mux.crossed \/ mux.overtaken
    /\ mux.at[Events] # "stranded"

\* What is shown is so: a generation is one whose source was ready, and
\* "disconnected" means that nothing goes on by itself.  While a failed attempt
\* rejects the streams that waited for it no generation is shown, which is what
\* keeps them from giving up (waitForRemoteStreamRetry).
ShownIsTrue ==
    /\ status.generation <=> status.state = "connected"
    /\ status.generation => ctl.pc = "failed" /\ src.ready
    /\ status.state = "disconnected" => ~net \/ ctl.pc = "final"
    /\ mux.task = "failed" /\ ctl.running => ~status.generation

\* What streams hold on to and what users see is there.
ConnectionIsTrue == SocketIsShared /\ ShownIsTrue

\* The loop never hangs, whenever it was interrupted (loop, reconnect,
\* setNetworkAvailable, stop, and the rejections of maintain): it ends up
\* connected, or it waits for the network, for the user after the last tier, or
\* for a Host that has gone; once stopped it ends, and so does the mux.
Recovers ==
    <>[](\/ ctl.pc = "ended" /\ ~mux.open /\ mux.task = "none"
         \/ ctl.pc = "failed" /\ status.generation /\ mux.at[Events] = "on"
         \/ ctl.pc = "offline" /\ ~net
         \/ ctl.pc = "final"
         \/ ctl.pc = "ready" /\ ~up /\ mux.at[Events] = "on")
=============================================================================
