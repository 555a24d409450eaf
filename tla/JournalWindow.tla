---------------------------- MODULE JournalWindow ----------------------------
(***************************************************************************)
(* What the owner of a journal stream may rely on: the window it was given *)
(* is at any time one unbroken stretch of the journal, without a gap, a    *)
(* duplicate or a swap, however often the carrier was replaced; its end    *)
(* never moves back; after a failure only older history is added, and      *)
(* after disposal nothing at all.  JournalStream implements this.          *)
(***************************************************************************)
EXTENDS Naturals, Sequences

VARIABLES
    size,    \* entries the journal has ever had
    window,  \* cursors of the entries shown, in the order shown
    status   \* "blank", "shown", "failed" or "closed"

vars == <<size, window, status>>

Stretch(lo, hi) == [i \in 1 .. hi + 1 - lo |-> lo + i - 1]

End(w) == IF w = <<>> THEN 0 ELSE w[Len(w)]

Init == size \in Nat /\ window = <<>> /\ status = "blank"

Grow == size' = size + 1 /\ UNCHANGED <<window, status>>

\* A complete window: the first one, one of a later generation, a repaired one.
Replace ==
    /\ status \in {"blank", "shown"}
    /\ \E hi \in End(window) .. size : \E lo \in 1 .. hi + 1 :
           window' = Stretch(lo, hi)
    /\ status' = "shown"
    /\ UNCHANGED size

\* The next live entry.
Extend ==
    /\ status = "shown" /\ End(window) < size
    /\ window' = Append(window, End(window) + 1)
    /\ UNCHANGED <<size, status>>

\* An older page.
Prepend ==
    /\ status \in {"shown", "failed"} /\ window # <<>>
    /\ \E lo \in 1 .. window[1] : window' = Stretch(lo, window[1] - 1) \o window
    /\ UNCHANGED <<size, status>>

Fail == status \in {"blank", "shown"} /\ status' = "failed" /\ UNCHANGED <<size, window>>

Close == status # "closed" /\ status' = "closed" /\ UNCHANGED <<size, window>>

Next == Grow \/ Replace \/ Extend \/ Prepend \/ Fail \/ Close

Spec == Init /\ [][Next]_vars
=============================================================================
