------------------------------ MODULE OneDoor ------------------------------
(***************************************************************************)
(* What Link promises of every client (ADR 0003, "One door for letting go  *)
(* of a client, and the invariant is 'the bus is closed'"): a client whose *)
(* bus is open is let go of through a hang-up and in no other way; one     *)
(* that is being let go of is never taken up again; and a hang-up ends     *)
(* with the bus closed, or with the client kept to be hung up again.       *)
(***************************************************************************)
CONSTANT Client

VARIABLE state

Init == state = [c \in Client |-> "closed"]

Take(c) ==
    /\ state[c] = "closed"
    /\ state' = [state EXCEPT ![c] = "open"]

\* One step may begin several hang-ups: the tick's.
LetGo(C) ==
    /\ C # {}
    /\ \A c \in C : state[c] \in {"open", "kept"}
    /\ state' = [c \in Client |-> IF c \in C THEN "leaving" ELSE state[c]]

Close(c) ==
    /\ state[c] = "leaving"
    /\ state' = [state EXCEPT ![c] = "closed"]

Keep(c) ==
    /\ state[c] = "leaving"
    /\ state' = [state EXCEPT ![c] = "kept"]

Next ==
    \/ \E c \in Client : Take(c) \/ Close(c) \/ Keep(c)
    \/ \E C \in SUBSET Client : LetGo(C)

Spec == Init /\ [][Next]_state
=============================================================================
