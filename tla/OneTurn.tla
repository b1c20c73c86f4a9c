------------------------------ MODULE OneTurn ------------------------------
(***************************************************************************)
(* What the lock of a link is for (link.py, lock and send): one at a time  *)
(* speaks to the lamp.  Who wants to waits for a turn and has at most one  *)
(* at a time; a command may try again, so many times in all, and keeps its *)
(* turn meanwhile, so that nobody gets in between; whether one that failed *)
(* was done is found out after the turn, which others have by then.        *)
(***************************************************************************)
EXTENDS Naturals

CONSTANTS
    Lock,      \* one for each link
    Who,       \* who may want a turn
    Sender,    \* those of them who deliver commands
    Attempts   \* how often a command is tried in one turn

VARIABLES
    turn,      \* of each, at each lock: "out", "waits", "has" or "unsure"
    tries      \* the attempt that is made in the turn, 0 out of it

tvars == <<turn, tries>>

Init ==
    /\ turn  = [l \in Lock |-> [w \in Who |-> "out"]]
    /\ tries = [l \in Lock |-> [w \in Who |-> 0]]

Becomes(l, w, t, n) ==
    /\ turn'  = [turn  EXCEPT ![l][w] = t]
    /\ tries' = [tries EXCEPT ![l][w] = n]

Asks(l, w) == turn[l][w] = "out" /\ Becomes(l, w, "waits", 0)

Takes(l, w) ==
    /\ turn[l][w] = "waits"
    /\ \A v \in Who : turn[l][v] # "has"
    /\ Becomes(l, w, "has", 1)

\* In the same turn.
TriesAgain(l, w) ==
    /\ w \in Sender
    /\ turn[l][w] = "has"
    /\ tries[l][w] < Attempts
    /\ Becomes(l, w, "has", tries[l][w] + 1)

\* Its turn is over, or it does not want it any more.
Leaves(l, w) == turn[l][w] \in {"waits", "has"} /\ Becomes(l, w, "out", 0)

\* The turn of a command is over, and whether it was done is not known.
BecomesUnsure(l, w) ==
    /\ w \in Sender
    /\ turn[l][w] = "has"
    /\ Becomes(l, w, "unsure", 0)

IsTold(l, w) == turn[l][w] = "unsure" /\ Becomes(l, w, "out", 0)

Next ==
    \E l \in Lock, w \in Who :
        \/ Asks(l, w)
        \/ Takes(l, w)
        \/ TriesAgain(l, w)
        \/ Leaves(l, w)
        \/ BecomesUnsure(l, w)
        \/ IsTold(l, w)

Spec == Init /\ [][Next]_tvars
=============================================================================
