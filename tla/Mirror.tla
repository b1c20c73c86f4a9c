-------------------------------- MODULE Mirror --------------------------------
(***************************************************************************)
(* Mirror (mirror.py): which ids it takes in, how it numbers the reports,  *)
(* and those who wait for one.  What stands under an id is Delivery's.     *)
(*                                                                         *)
(* The lamp chooses the ids it reports: those the integration has a name   *)
(* for are always kept, of others no more than there is room for.  A       *)
(* command that failed asks whether one of its ids was reported since it   *)
(* was taken up (coordinator.py, _async_device_confirms), a state request  *)
(* that was accepted whether all of them were since it was written         *)
(* (_async_ask_state).  So what has been reported is noted first, reports  *)
(* may come while the write is under way, and only what becomes of it says *)
(* whether anybody listens: whoever does looks, waits for the next report, *)
(* and looks again, until a deadline of its own.                           *)
(***************************************************************************)
EXTENDS Naturals, FiniteSets

CONSTANTS
    Known,       \* KNOWN_KEYS
    Other,       \* ids nobody has a name for
    Room,        \* _OTHERS_KEPT
    Waiter,      \* who may ask at once
    None,        \* Python's None
    MaxReports   \* a bound: how many reports there are

Id == Known \cup Other

Question == [of : (SUBSET Known) \ {{}}, all : BOOLEAN]

ASSUME MirrorAssumption == /\ Room \in Nat /\ MaxReports \in Nat
                           /\ IsFiniteSet(Id) /\ Known \cap Other = {}
                           /\ None \notin Question

VARIABLES
    held,         \* _values: the ids it holds a value for
    others,       \* _others
    turnedAway,   \* whether not_kept is more than zero
    reports,      \* how many there have been
    reportedAt,   \* _reported_at; 0 for an id the lamp never reported
    at,           \* of each: "off", "writing", or it listens: "begun", "waiting", "woken"
    asked,        \* its question
    before,       \* what reports stood at when it began (reports_before)
    heard,        \* history: the ids frames of the lamp carried since it began
    looked,       \* history: what reports stood at when it last looked
    answer        \* what it was told last

intake  == <<held, others, turnedAway, reports, reportedAt>>
waiters == <<at, asked, before, heard, looked, answer>>
vars    == <<intake, waiters>>

Listening == {"begun", "waiting", "woken"}

TypeOK ==
    /\ held       \in SUBSET Id
    /\ others     \in 0..Room
    /\ turnedAway \in BOOLEAN
    /\ reports    \in 0..MaxReports
    /\ reportedAt \in [Id -> 0..MaxReports]
    /\ at         \in [Waiter -> {"off", "writing"} \cup Listening]
    /\ asked      \in [Waiter -> Question \cup {None}]
    /\ before     \in [Waiter -> 0..MaxReports]
    /\ heard      \in [Waiter -> SUBSET Id]
    /\ looked     \in [Waiter -> 0..MaxReports]
    /\ answer     \in [Waiter -> {"none", "yes", "no"}]

Init ==
    /\ held       = {}
    /\ others     = 0
    /\ turnedAway = FALSE
    /\ reports    = 0
    /\ reportedAt = [k \in Id |-> 0]
    /\ at         = [w \in Waiter |-> "off"]
    /\ asked      = [w \in Waiter |-> None]
    /\ before     = [w \in Waiter |-> 0]
    /\ heard      = [w \in Waiter |-> {}]
    /\ looked     = [w \in Waiter |-> 0]
    /\ answer     = [w \in Waiter |-> "none"]

-----------------------------------------------------------------------------
\* Slip: a known id takes up a place too.
NewOfAny(K) == K \ held

\* The ids of a frame that need one of the places for those without a name.
New(K) == K \ (Known \cup held)

\* Slip: each frame is given the room for itself.
KeptByTheFrame(K) ==
    {(K \ New(K)) \cup S : S \in {S \in SUBSET New(K) :
        Cardinality(S) = IF Cardinality(New(K)) < Room THEN Cardinality(New(K)) ELSE Room}}

\* _kept_of: of the new ones as many as there is room for, the first in the
\* frame, which may be any.
Kept(K) ==
    {(K \ New(K)) \cup S : S \in {S \in SUBSET New(K) :
        Cardinality(S) = IF Cardinality(New(K)) < Room - others
                         THEN Cardinality(New(K)) ELSE Room - others}}

\* _wake.
Wake(w) == at[w] = "waiting"

\* take, of a frame of which the ids K could be read: all of it, what a frame that
\* is cut short carried, or what stood ahead of an item that cannot be read.  A
\* frame that is no map, or has bytes to spare, is dropped, and so is one of which
\* nothing is kept: no report, no number.
Take(K) ==
    \E kept \in Kept(K) :
        /\ others' = others + Cardinality(kept \cap New(K))
        /\ turnedAway' = (turnedAway \/ kept # K)
        /\ IF kept = {}
           THEN UNCHANGED <<held, reports, reportedAt, waiters>>
           ELSE /\ reports < MaxReports
                /\ reports' = reports + 1
                /\ held' = held \cup kept
                /\ reportedAt' = [k \in Id |-> IF k \in kept THEN reports + 1
                                               ELSE reportedAt[k]]
                /\ at' = [w \in Waiter |-> IF Wake(w) THEN "woken" ELSE at[w]]
                /\ heard' = [w \in Waiter |-> IF at[w] = "off" THEN {}
                                              ELSE heard[w] \cup kept]
                /\ UNCHANGED <<asked, before, looked, answer>>

\* Slip: an echo is numbered as a report is.
EchoReports(K) ==
    /\ reports < MaxReports
    /\ reports' = reports + 1
    /\ held' = held \cup K
    /\ reportedAt' = [k \in Id |-> IF k \in K THEN reports + 1 ELSE reportedAt[k]]
    /\ UNCHANGED <<others, turnedAway, waiters>>

\* echo: no report, no number, nobody woken.
Echo(K) ==
    /\ held' = held \cup K
    /\ UNCHANGED <<others, turnedAway, reports, reportedAt, waiters>>

-----------------------------------------------------------------------------
\* reported_since.
Since(n) == {k \in Id : reportedAt[k] > n}

\* Whether question q is answered by reports that carried K.
Answered(q, K) == IF q.all THEN q.of \subseteq K ELSE q.of \cap K # {}

\* What has been reported is noted: before a command waits for its turn, before
\* the state request is written.
Asks(w, q) ==
    /\ at[w] = "off"
    /\ at'     = [at     EXCEPT ![w] = "writing"]
    /\ asked'  = [asked  EXCEPT ![w] = q]
    /\ before' = [before EXCEPT ![w] = reports]
    /\ heard'  = [heard  EXCEPT ![w] = {}]
    /\ looked' = [looked EXCEPT ![w] = reports]
    /\ answer' = [answer EXCEPT ![w] = "none"]
    /\ UNCHANGED intake

IsTold(w, a) ==
    /\ at'     = [at     EXCEPT ![w] = "off"]
    /\ asked'  = [asked  EXCEPT ![w] = None]
    /\ before' = [before EXCEPT ![w] = 0]
    /\ heard'  = [heard  EXCEPT ![w] = {}]
    /\ looked' = [looked EXCEPT ![w] = 0]
    /\ answer' = [answer EXCEPT ![w] = a]
    /\ UNCHANGED intake

\* The write is over and it listens: a state request that was acknowledged, a
\* command that was put to a link and not.  A report may come before it goes on.
Listens(w) ==
    /\ at[w] = "writing"
    /\ at' = [at EXCEPT ![w] = "begun"]
    /\ UNCHANGED <<asked, before, heard, looked, answer, intake>>

\* It is not told, whatever was reported: a state request whose write was refused
\* or lost its link, a command that was acknowledged or never put to a link, or
\* either of them cut short with the flow it is part of, wherever that was.
Withdraws(w) == at[w] # "off" /\ IsTold(w, "none")

\* It looks, and its question is answered.
Finds(w) ==
    /\ at[w] \in {"begun", "woken"}
    /\ Answered(asked[w], Since(before[w]))
    /\ IsTold(w, "yes")

\* Slip: it waits for the next report before it looks.
WaitsFirst(w) ==
    /\ at[w] \in {"begun", "woken"}
    /\ at' = [at EXCEPT ![w] = "waiting"]
    /\ UNCHANGED <<asked, before, heard, looked, answer, intake>>

\* It looks, and waits for the next report (next_report): nothing can come in
\* between.  A command waits although its ids were reported, where the mirror
\* does not agree with it.
Waits(w) ==
    /\ at[w] \in {"begun", "woken"}
    /\ asked[w].all => ~ Answered(asked[w], Since(before[w]))
    /\ at' = [at EXCEPT ![w] = "waiting"]
    /\ looked' = [looked EXCEPT ![w] = reports]
    /\ UNCHANGED <<asked, before, heard, answer, intake>>

\* Slip: a state request whose write was lost is called answered where something
\* was reported.
TimesOutAnywhere(w) ==
    /\ at[w] \in {"writing", "waiting", "woken"}
    /\ IsTold(w, IF asked[w].all /\ reports > before[w] THEN "yes" ELSE "no")

\* Its deadline strikes in the wait, though a report may have ended that already.
\* A state request that was accepted and answered in part is answered.
TimesOut(w) ==
    /\ at[w] \in {"waiting", "woken"}
    /\ IsTold(w, IF asked[w].all /\ reports > before[w] THEN "yes" ELSE "no")

Next ==
    \/ \E K \in (SUBSET Id) \ {{}} : Take(K)
    \/ \E K \in (SUBSET Known) \ {{}} : Echo(K)
    \/ \E w \in Waiter :
          \/ \E q \in Question : Asks(w, q)
          \/ Listens(w) \/ Finds(w) \/ Waits(w) \/ TimesOut(w) \/ Withdraws(w)

Spec == Init /\ [][Next]_vars

-----------------------------------------------------------------------------
(* What must hold. *)

\* Whatever ids a device makes up, the mirror takes in only so many of them, and
\* the count of them is right: the room is neither given twice nor lost.
RoomIsCounted == others = Cardinality(held \cap Other)

\* Who waits has looked at every report there is: none is taken between its look
\* and its wait, or is not told to it.
NoReportMissed == \A w \in Waiter : at[w] = "waiting" => looked[w] = reports

\* One number for each id tells everybody who asks what frames of the lamp have
\* carried since (Freshness): no echo is taken for a report, and none from before;
\* one that came inside the write counts, but only for a write that went through.
listening == [w \in Waiter |-> at[w] \in Listening]
F == INSTANCE Freshness WITH fresh <- heard, listens <- listening
CountsSince == F!Spec
=============================================================================
