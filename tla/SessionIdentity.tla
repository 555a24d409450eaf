--------------------------- MODULE SessionIdentity ---------------------------
(***************************************************************************)
(* What callers may rely on for one session id, whoever creates, resumes   *)
(* or tears it down: at any time at most one transaction holds the id, an  *)
(* agent is visible under it only while its transaction holds it, a stored *)
(* log is created by a holder only and is never replaced.  AgentLifecycle  *)
(* implements this.                                                        *)
(***************************************************************************)
CONSTANTS Op, NoOp

VARIABLES
    holder,   \* the transaction that holds the id
    visible,  \* the transaction whose agent the registries show
    author    \* the transaction that created the stored log, "disk" or NoOp

vars == <<holder, visible, author>>

Init ==
    /\ holder = NoOp
    /\ visible = NoOp
    /\ author \in {NoOp, "disk"}

\* A transaction takes the free id.
Take(o) ==
    /\ holder = NoOp
    /\ holder' = o
    /\ UNCHANGED <<visible, author>>

\* The first event reaches storage: only the holder writes, and only where no
\* log is.
Store(o) ==
    /\ holder = o /\ author = NoOp
    /\ author' = o
    /\ UNCHANGED <<holder, visible>>

\* The agent enters the registries; without a backend this also takes the id.
Show(o) ==
    /\ holder \in {NoOp, o} /\ visible = NoOp
    /\ holder' = o /\ visible' = o
    /\ UNCHANGED author

\* The holder gives the id up and with it leaves the registries.
Leave(o) ==
    /\ holder = o
    /\ holder' = NoOp
    /\ visible' = NoOp
    /\ UNCHANGED author

Next == \E o \in Op : Take(o) \/ Store(o) \/ Show(o) \/ Leave(o)

Spec == Init /\ [][Next]_vars
=============================================================================
