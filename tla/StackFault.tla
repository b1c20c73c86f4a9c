----------------------------- MODULE StackFault -----------------------------
(***************************************************************************)
(* A Bluetooth stack that will not hang up (link.py, note_stuck_hang_up    *)
(* and note_answer; ADR 0004): how the hang-ups of one lamp's clients end, *)
(* what of that is counted, and the episode - the backoff, the warning and *)
(* the repair - it is made into.  The sessions of the entry come one after *)
(* another; a hang-up, and its count, belong to the link that began it,    *)
(* and may end when that link has been stopped.  The repair is filed under *)
(* the entry, and so is shared.                                            *)
(*                                                                         *)
(* Who dials, and why a client is let go of, is Link's and may happen here *)
(* whenever no link is held and no client kept.  Time is counted in ticks  *)
(* of the poll.                                                            *)
(***************************************************************************)
EXTENDS Naturals, FiniteSets

CONSTANTS
    Sessions,     \* how often the entry is set up
    Client,       \* the clients there may be at once
    FaultAfter,   \* _STACK_FAULT_AFTER
    LongestGap,   \* _STACK_FAULT_BACKOFF_MAX, in ticks
    CountMax      \* a bound: the count of unanswered hang-ups stops there

Session == 1..Sessions

ASSUME FaultAssumption == /\ Sessions \in Nat \ {0}
                          /\ FaultAfter \in Nat \ {0}
                          /\ LongestGap \in Nat \ {0}
                          /\ CountMax \in Nat
                          /\ FaultAfter < CountMax

VARIABLES
    phase,      \* of each session: "new", "running", "stopped", "down"
    door,       \* of each client: "closed", "held", "failed", "leaving" or "kept"
    of,         \* the session whose link holds it or hangs it up
    stuck,      \* Link.stuck_hang_ups
    rest,       \* ticks until Link.dial_not_before
    announced,  \* Link._fault_announced
    repair,     \* whether the repair stands
    silent      \* history: hang-ups in a row that nothing answered, up to FaultAfter

counts  == <<stuck, rest>>
episode == <<announced, repair>>
vars    == <<phase, door, of, counts, episode, silent>>

TypeOK ==
    /\ phase     \in [Session -> {"new", "running", "stopped", "down"}]
    /\ door      \in [Client -> {"closed", "held", "failed", "leaving", "kept"}]
    /\ of        \in [Client -> Session]
    /\ stuck     \in [Session -> 0..CountMax]
    /\ rest      \in [Session -> 0..LongestGap]
    /\ announced \in [Session -> BOOLEAN]
    /\ repair    \in BOOLEAN
    /\ silent    \in [Session -> 0..FaultAfter]

Init ==
    /\ phase     = [s \in Session |-> "new"]
    /\ door      = [c \in Client |-> "closed"]
    /\ of        = [c \in Client |-> 1]
    /\ stuck     = [s \in Session |-> 0]
    /\ rest      = [s \in Session |-> 0]
    /\ announced = [s \in Session |-> FALSE]
    /\ repair    = FALSE
    /\ silent    = [s \in Session |-> 0]

-----------------------------------------------------------------------------
Stopped(s) == phase[s] \in {"stopped", "down"}

HasLink(s) == \E c \in Client : door[c] = "held" /\ of[c] = s
Kept       == {c \in Client : door[c] = "kept"}

\* The gap after the unanswered hang-up that is the n-th past the mark: two
\* ticks, doubled each time (the exponent has a cap of its own, or a power would
\* overflow), and never longer than the longest.
Doublings(n) == IF n + 1 < 16 THEN n + 1 ELSE 16

\* Slip: the gap has no longest.
GapUncapped(n) == 2^Doublings(n)

Gap(n) == IF 2^Doublings(n) \in 1..LongestGap THEN 2^Doublings(n) ELSE LongestGap

Start(s) ==
    /\ phase[s] = "new"
    /\ \A z \in Session : z < s => phase[z] = "stopped"
    /\ phase' = [phase EXCEPT ![s] = "running"]
    /\ UNCHANGED <<door, of, counts, episode, silent>>

\* A link is made: nothing is kept, and the session that dials holds none, though
\* a client a command has failed on may be up still.
Dialled(s) ==
    /\ phase[s] = "running"
    /\ ~ HasLink(s)
    /\ Kept = {}
    /\ \E c \in Client : /\ door[c] = "closed"
                         /\ door' = [door EXCEPT ![c] = "held"]
                         /\ of'   = [of   EXCEPT ![c] = s]
    /\ UNCHANGED <<phase, counts, episode, silent>>

\* The background, which the backoff holds back, and a command, which it does not.
BackgroundDials(s) == rest[s] = 0 /\ Dialled(s)
CommandDials(s)    == Dialled(s)

\* send: the last attempt of a command fails, and its client is no longer held; it
\* stays up for as long as the command is vouched for, whatever becomes of its link.
CommandFails(c) ==
    /\ door[c] = "held"
    /\ door' = [door EXCEPT ![c] = "failed"]
    /\ UNCHANGED <<phase, of, counts, episode, silent>>

\* hang_up, for whatever reason, of a client that is held, or that failed.
LetGo(c) ==
    /\ door[c] \in {"held", "failed"}
    /\ door' = [door EXCEPT ![c] = "leaving"]
    /\ UNCHANGED <<phase, of, counts, episode, silent>>

\* Slip: a fault that stands begins its gap anew with every tick.
TickBacksOff(s) ==
    /\ phase[s] = "running"
    /\ rest' = [rest EXCEPT ![s] = IF stuck[s] < FaultAfter THEN 0
                                   ELSE Gap(stuck[s] - FaultAfter)]
    /\ door' = [c \in Client |-> IF door[c] = "kept" THEN "leaving" ELSE door[c]]
    /\ of'   = [c \in Client |-> IF door[c] = "kept" THEN s ELSE of[c]]
    /\ UNCHANGED <<phase, stuck, episode, silent>>

\* tick: half a minute is over, and the kept clients are hung up once more.
Tick(s) ==
    /\ phase[s] = "running"
    /\ rest' = [rest EXCEPT ![s] = IF @ = 0 THEN 0 ELSE @ - 1]
    /\ door' = [c \in Client |-> IF door[c] = "kept" THEN "leaving" ELSE door[c]]
    /\ of'   = [c \in Client |-> IF door[c] = "kept" THEN s ELSE of[c]]
    /\ UNCHANGED <<phase, stuck, episode, silent>>

-----------------------------------------------------------------------------
(* How the hang-up of c ends (_async_disconnect). *)

\* It is over; the client is kept where its bus is still open.
Ends(c, d) ==
    /\ door[c] = "leaving"
    /\ door' = [door EXCEPT ![c] = d]
    /\ UNCHANGED <<phase, of>>

\* Slip: a hang-up that goes through ends the count, whatever was made of it.
HungUpEndsAll(c) ==
    /\ Ends(c, "closed")
    /\ stuck'  = [stuck EXCEPT ![of[c]] = 0]
    /\ silent' = [silent EXCEPT ![of[c]] = 0]
    /\ UNCHANGED <<rest, episode>>

\* BlueZ hung up: the run is broken, unless it has been called a fault.
HungUp(c) ==
    /\ Ends(c, "closed")
    /\ stuck'  = [stuck EXCEPT ![of[c]] = IF @ < FaultAfter THEN 0 ELSE @]
    /\ silent' = [silent EXCEPT ![of[c]] = 0]
    /\ UNCHANGED <<rest, episode>>

\* BlueZ answered with an error, and the bus was closed by hand or not.
Refused(c) ==
    /\ \E d \in {"closed", "kept"} : Ends(c, d)
    /\ silent' = [silent EXCEPT ![of[c]] = 0]
    /\ UNCHANGED <<counts, episode>>

\* No answer, and none that BlueZ owed: the bus was closed already, the client is a
\* proxy's or has no backend on record, or the hang-up was cancelled.
Moot(c) ==
    /\ \E d \in {"closed", "kept"} : Ends(c, d)
    /\ UNCHANGED <<counts, episode, silent>>

\* Slip: a run is announced whether or not anybody is there to call it over.
NoteStuckThoughStopped(s) ==
    LET n == IF stuck[s] < CountMax THEN stuck[s] + 1 ELSE CountMax IN
    /\ stuck' = [stuck EXCEPT ![s] = n]
    /\ IF n < FaultAfter
       THEN UNCHANGED <<rest, episode>>
       ELSE /\ rest'      = [rest EXCEPT ![s] = Gap(n - FaultAfter)]
            /\ announced' = [announced EXCEPT ![s] = @ \/ n = FaultAfter]
            /\ repair'    = (repair \/ n = FaultAfter)

\* note_stuck_hang_up: from FaultAfter on the dials back off; said when the mark
\* is reached, and never by a link that has been stopped.
NoteStuck(s) ==
    LET n == IF stuck[s] < CountMax THEN stuck[s] + 1 ELSE CountMax IN
    /\ stuck' = [stuck EXCEPT ![s] = n]
    /\ IF n < FaultAfter \/ Stopped(s)
       THEN UNCHANGED <<rest, episode>>
       ELSE /\ rest'      = [rest EXCEPT ![s] = Gap(n - FaultAfter)]
            /\ announced' = [announced EXCEPT ![s] = @ \/ n = FaultAfter]
            /\ repair'    = (repair \/ n = FaultAfter)

\* BlueZ left it unanswered, whether or not the bus could then be closed.
Unanswered(c) ==
    /\ \E d \in {"closed", "kept"} : Ends(c, d)
    /\ NoteStuck(of[c])
    /\ silent' = [silent EXCEPT ![of[c]] = IF @ < FaultAfter THEN @ + 1 ELSE @]

-----------------------------------------------------------------------------
(* How an episode ends. *)

\* Slip: the dials stay held back when the lamp has answered.
NoteAnswerKeepsTheGap(s) ==
    /\ \E c \in Client : door[c] # "closed" /\ of[c] = s
    /\ announced' = [announced EXCEPT ![s] = FALSE]
    /\ repair'    = (repair /\ ~ announced[s])
    /\ stuck'     = [stuck EXCEPT ![s] = 0]
    /\ silent'    = [silent EXCEPT ![s] = 0]
    /\ UNCHANGED <<phase, door, of, rest>>

\* note_answer: a report, or an acknowledged write, on a client of s that is
\* still up, one being hung up included.
NoteAnswer(s) ==
    /\ \E c \in Client : door[c] # "closed" /\ of[c] = s
    /\ announced' = [announced EXCEPT ![s] = FALSE]
    /\ repair'    = (repair /\ ~ announced[s])
    /\ stuck'     = [stuck EXCEPT ![s] = 0]
    /\ rest'      = [rest EXCEPT ![s] = 0]
    /\ silent'    = [silent EXCEPT ![s] = 0]
    /\ UNCHANGED <<phase, door, of>>

\* _async_stop_watching, at an unload (p = "stopped") or when Home Assistant
\* stops ("down"): halt, then unwatch; what is held is let go of.
Stop(s, p) ==
    /\ phase[s] = "running"
    /\ phase'     = [phase EXCEPT ![s] = p]
    /\ announced' = [announced EXCEPT ![s] = FALSE]
    /\ repair'    = FALSE
    /\ door' = [c \in Client |-> IF door[c] = "held" /\ of[c] = s THEN "leaving"
                                 ELSE door[c]]
    /\ UNCHANGED <<of, counts, silent>>

-----------------------------------------------------------------------------
HangUpEnds(c) == HungUp(c) \/ Refused(c) \/ Moot(c) \/ Unanswered(c)

Next ==
    \/ \E s \in Session :
          \/ Start(s)
          \/ BackgroundDials(s)
          \/ CommandDials(s)
          \/ Tick(s)
          \/ NoteAnswer(s)
          \/ \E p \in {"stopped", "down"} : Stop(s, p)
    \/ \E c \in Client : CommandFails(c) \/ LetGo(c) \/ HangUpEnds(c)

Spec == Init /\ [][Next]_vars

\* The poll ticks, and a hang-up has a ceiling.
FairSpec ==
    /\ Spec
    /\ \A s \in Session : WF_vars(Tick(s))
    /\ \A c \in Client : WF_vars(HangUpEnds(c))

-----------------------------------------------------------------------------
(* What must hold. *)

\* The repair stands exactly while a session that still watches the lamp has an
\* episode to call over: none is left behind by a reload, none is put up by a
\* hang-up that ends after it, and no other session's is taken down.
RepairIsOwned ==
    repair <=> \E s \in Session : phase[s] = "running" /\ announced[s]

\* An episode is announced as soon as the count reaches the mark and stands until
\* the count is taken back; dials are held back only in one.
EpisodeIsTheFault ==
    \A s \in Session :
        /\ phase[s] = "running" => (announced[s] <=> stuck[s] >= FaultAfter)
        /\ rest[s] > 0 => stuck[s] >= FaultAfter

\* "The episode ends only with the lamp" (ADR 0004): never because BlueZ hung up
\* once, or refused; and with it ends the backoff.
EndsWithTheLamp ==
    [][\A s \in Session :
          announced[s] /\ ~ announced'[s] =>
              \/ phase[s] # phase'[s]
              \/ /\ \E c \in Client : door[c] # "closed" /\ of[c] = s
                 /\ UNCHANGED door
                 /\ stuck'[s] = 0 /\ rest'[s] = 0]_vars

\* A fault holds the background dials back, and never for good: the gap runs out,
\* unless a command has a link meanwhile, or a client that is kept forbids dials.
DialsGoOn ==
    \A s \in Session :
        phase[s] = "running" ~> \/ rest[s] = 0
                                \/ HasLink(s)
                                \/ Kept # {}
                                \/ phase[s] # "running"

\* Why: sessions have their turns, and only the one that runs has an episode.
OneRuns ==
    /\ \A s \in Session, z \in Session : z < s /\ phase[s] # "new" => phase[z] = "stopped"
    /\ \A s \in Session : announced[s] => phase[s] = "running"
    /\ \A s \in Session : phase[s] = "new" =>
          stuck[s] = 0 /\ (\A c \in Client : of[c] = s => door[c] = "closed")

IInv == TypeOK /\ RepairIsOwned /\ EpisodeIsTheFault /\ OneRuns

-----------------------------------------------------------------------------
(* What a test says, and the code does not keep. *)

\* "A hang-up BlueZ answers breaks the run" (test_bus_lifetime.py), and the
\* repair tells its reader that as many requests in a row were never answered.
AnnouncedInARow ==
    [][\A s \in Session : ~ announced[s] /\ announced'[s] => silent'[s] = FaultAfter]_vars
=============================================================================
