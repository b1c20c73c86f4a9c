------------------------------ MODULE Freshness ------------------------------
(***************************************************************************)
(* What it means that the lamp has reported something since: each of those *)
(* who asked has a set of ids of its own, into which every report goes     *)
(* from the moment it asked on, though it may listen only later, or never. *)
(* Delivery's fresh is such a set; Mirror does the same with one number    *)
(* for each id.                                                            *)
(***************************************************************************)
CONSTANTS
    Waiter,     \* who asks
    Id,         \* property ids
    Question,   \* records: of, a set of ids; all, whether every one is asked for
    None

VARIABLES
    asked,      \* of each: what it asks, if it does
    listens,    \* of each: whether it wants to be told yet
    fresh,      \* of each: the ids reported since it began to ask
    answer      \* of each: what it was told last: "none", "yes" or "no"

fvars == <<asked, listens, fresh, answer>>

Init ==
    /\ asked   = [w \in Waiter |-> None]
    /\ listens = [w \in Waiter |-> FALSE]
    /\ fresh   = [w \in Waiter |-> {}]
    /\ answer  = [w \in Waiter |-> "none"]

\* Whether a question q is answered by reports that carried K.
Answered(q, K) == IF q.all THEN q.of \subseteq K ELSE q.of \cap K # {}

Asks(w, q) ==
    /\ asked[w] = None
    /\ asked'  = [asked  EXCEPT ![w] = q]
    /\ fresh'  = [fresh  EXCEPT ![w] = {}]
    /\ answer' = [answer EXCEPT ![w] = "none"]
    /\ UNCHANGED listens

Listens(w) ==
    /\ asked[w] # None
    /\ listens' = [listens EXCEPT ![w] = TRUE]
    /\ UNCHANGED <<asked, fresh, answer>>

Report(K) ==
    /\ fresh' = [w \in Waiter |-> IF asked[w] = None THEN {} ELSE fresh[w] \cup K]
    /\ UNCHANGED <<asked, listens, answer>>

Ends(w, a) ==
    /\ asked[w] # None
    /\ asked'   = [asked   EXCEPT ![w] = None]
    /\ listens' = [listens EXCEPT ![w] = FALSE]
    /\ fresh'   = [fresh   EXCEPT ![w] = {}]
    /\ answer'  = [answer  EXCEPT ![w] = a]

\* Yes is an answer that reports have given, to one who listened; who asked for
\* all of its ids and gives up is told yes for a part of them.
Yes(w) ==
    /\ listens[w]
    /\ Answered(asked[w], fresh[w]) \/ (asked[w].all /\ fresh[w] # {})
    /\ Ends(w, "yes")

\* No, where nobody has said so: who asked for all of them has had none.
No(w) ==
    /\ listens[w]
    /\ asked[w].all => fresh[w] = {}
    /\ Ends(w, "no")

\* It does not want to know any more, and is told neither.
Withdraws(w) == Ends(w, "none")

Next ==
    \/ \E w \in Waiter :
          \/ \E q \in Question : Asks(w, q)
          \/ Listens(w) \/ Yes(w) \/ No(w) \/ Withdraws(w)
    \/ \E K \in SUBSET Id : K # {} /\ Report(K)

Spec == Init /\ [][Next]_fvars
=============================================================================
