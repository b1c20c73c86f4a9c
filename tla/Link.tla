-------------------------------- MODULE Link --------------------------------
(***************************************************************************)
(* The link to one lamp (link.py, class Link), as the sessions of its      *)
(* config entry have it one after another: who dials, who holds the        *)
(* client, who speaks on it, and how every client is let go of.            *)
(*                                                                         *)
(* asyncio is cooperative: what the code does between two awaits is one    *)
(* step here.  A task is a pair of a session and a role; pc[s][r] names    *)
(* the await it is suspended at, mine[s][r] the client its own local       *)
(* variable refers to while it is suspended there.  Time is left out: a    *)
(* deadline may strike at any await it covers, and a comparison of clocks  *)
(* (silent for five minutes, in doubt for ten seconds) may go either way.  *)
(***************************************************************************)
EXTENDS Naturals, FiniteSets

CONSTANTS
    Sessions,       \* how often the entry is set up: the first time, and reloads
    Client,         \* the client objects the Bluetooth library makes
    Command,        \* the commands that may be in flight at once in a session
    WriteAttempts,  \* _WRITE_ATTEMPTS
    Work,           \* a bound: which background work a tick may set off
    None            \* Python's None

Session    == 1..Sessions
Connecting == {"initial", "reconnect"}
Background == Connecting \cup {"prime", "probe"}
Role       == Background \cup Command \cup {"stop"}

ASSUME CountsAssumption == /\ Sessions \in Nat \ {0}
                           /\ WriteAttempts \in Nat \ {0}
ASSUME NamesAssumption == /\ None \notin Client
                          /\ None \notin Role
                          /\ Work \subseteq Background
                          /\ Command \cap (Background \cup {"stop"}) = {}

VARIABLES
    phase,    \* of each session: "new", "running", "stopped" (unloaded), "down"
    lock,     \* Link.lock: the role that holds it
    held,     \* Link.client
    primed,   \* Link.primed: the client the first exchange was made on
    doubt,    \* Link.lost: the client a call failed on, not reported lost
    pc,       \* where each task is suspended
    mine,     \* the client that task's local variable refers to
    tried,    \* send: which attempt a command is on
    said,     \* send: whether the command got as far as a link
    awaits,   \* the hang-ups the lock's holder is waiting for, inside open
    open,     \* clients whose connection to the system bus is open
    up,       \* clients that call themselves connected
    hangUps,  \* Unclosed.hang_ups, shared by all sessions
    kept      \* Unclosed.clients, shared by all sessions

memory == <<primed, doubt>>
locals == <<tried, said>>
bluez  == <<open, up, kept>>
vars   == <<phase, lock, held, memory, pc, mine, locals, awaits, hangUps, bluez>>

\* Where a task can be suspended.  "lock": waiting for the lock.  Inside open:
\* "hangups" (for those under way), "dial", "subscribe" and "closing" (for the
\* hang-up of a client that was dialled and not taken).  "talk": an exchange or
\* a command on the client.  "vouch": a failed command listening for a report,
\* without the lock.  "bye": an unload waiting for the hang-up it began.
Place == {"idle", "lock", "hangups", "dial", "subscribe", "closing", "talk",
          "vouch", "bye"}

\* Places inside the lock.
Inside == {"hangups", "dial", "subscribe", "closing", "talk"}

\* A hang-up is a task of its own, and one client can have two of them: an
\* exchange that got no answer drops its client whether or not the loss of the
\* link has dropped it already.
HangUp == Client \X {1, 2}

TypeOK ==
    /\ phase   \in [Session -> {"new", "running", "stopped", "down"}]
    /\ lock    \in [Session -> Role \cup {None}]
    /\ held    \in [Session -> Client \cup {None}]
    /\ primed  \in [Session -> Client \cup {None}]
    /\ doubt   \in [Session -> Client \cup {None}]
    /\ pc      \in [Session -> [Role -> Place]]
    /\ mine    \in [Session -> [Role -> Client \cup {None}]]
    /\ tried   \in [Session -> [Role -> 1..WriteAttempts]]
    /\ said    \in [Session -> [Role -> BOOLEAN]]
    /\ awaits  \in [Session -> SUBSET HangUp]
    /\ open    \in SUBSET Client
    /\ up      \in SUBSET Client
    /\ hangUps \in SUBSET HangUp
    /\ kept    \in SUBSET Client

Init ==
    /\ phase   = [s \in Session |-> "new"]
    /\ lock    = [s \in Session |-> None]
    /\ held    = [s \in Session |-> None]
    /\ primed  = [s \in Session |-> None]
    /\ doubt   = [s \in Session |-> None]
    /\ pc      = [s \in Session |-> [r \in Role |-> "idle"]]
    /\ mine    = [s \in Session |-> [r \in Role |-> None]]
    /\ tried   = [s \in Session |-> [r \in Role |-> 1]]
    /\ said    = [s \in Session |-> [r \in Role |-> FALSE]]
    /\ awaits  = [s \in Session |-> {}]
    /\ open    = {}
    /\ up      = {}
    /\ hangUps = {}
    /\ kept    = {}

-----------------------------------------------------------------------------
(* What the steps are made of. *)

\* Link._stopped: set by halt, never cleared.
Stopped(s) == phase[s] \in {"stopped", "down"}

\* Link.connected.
Connected(s) == held[s] \in up

\* Hang-ups of c are under way.
Leaving(c) == <<c, 1>> \in hangUps \/ <<c, 2>> \in hangUps

\* An object nothing refers to any more: what the library makes next may be it.
Fresh(c) ==
    /\ c \notin open \cup kept
    /\ ~ Leaving(c)
    /\ \A s \in Session : /\ c \notin {held[s], primed[s]}
                          /\ \A r \in Role : mine[s][r] # c

\* The session is over: its unload has returned and Home Assistant has seen the
\* background tasks it cancelled end.
Unloaded(s) ==
    /\ phase[s] = "stopped"
    /\ \A r \in Background \cup {"stop"} : pc[s][r] = "idle"

\* Task (s, r) is suspended at place p next, with client c in hand.
At(s, r, p, c) ==
    /\ pc'   = [pc   EXCEPT ![s][r] = p]
    /\ mine' = [mine EXCEPT ![s][r] = c]

Attempt(s, r, n, b) ==
    /\ tried' = [tried EXCEPT ![s][r] = n]
    /\ said'  = [said  EXCEPT ![s][r] = b]

\* Slip: the lock is not released where a flow ends.
LockStays(s, r) == lock' = lock

LetLockGo(s, r) == lock' = [lock EXCEPT ![s] = IF @ = r THEN None ELSE @]
TakeLock(s, r)  == lock' = [lock EXCEPT ![s] = r]
Await(s, H)     == awaits' = [awaits EXCEPT ![s] = H]

\* The hang-up of c that begins now, and those under way once the clients in C
\* have been given to one each.
NewHangUp(c) == IF <<c, 1>> \in hangUps THEN <<c, 2>> ELSE <<c, 1>>
With(C)      == hangUps \cup {NewHangUp(c) : c \in C}

\* A client the link is letting go of is not the link's any more, and a doubt
\* about it is not one any more: the tick looks for a doubt about what is held.
LetGoOf(s, C) ==
    /\ held'  = [held  EXCEPT ![s] = IF @ \in C THEN None ELSE @]
    /\ doubt' = [doubt EXCEPT ![s] = IF @ \in C THEN None ELSE @]

\* Link.hang_up: C is hung up in the background.
HangUpAll(s, C) ==
    /\ hangUps' = With(C)
    /\ LetGoOf(s, C)

\* _refuse_what_must_not_be_dialled, the other way round.
MayDial(s) == ~ Stopped(s) /\ kept = {}

\* The flow of (s, r) is over: the lock is released and, for a command that got
\* as far as a link (b), the report that would vouch for it is listened for, c
\* being the client that failed.
GiveUp(s, r, c, b) ==
    /\ At(s, r, IF b THEN "vouch" ELSE "idle", IF b THEN c ELSE None)
    /\ Attempt(s, r, 1, FALSE)
    /\ LetLockGo(s, r)
    /\ Await(s, IF lock[s] = r THEN {} ELSE awaits[s])

\* Link.open up to its first await: refuse, wait for the hang-ups H under way,
\* or dial.  n and b: the attempt it is, and whether one got to a link before.
Open(s, r, H, n, b) ==
    \/ /\ MayDial(s)
       /\ At(s, r, IF H = {} THEN "dial" ELSE "hangups", None)
       /\ Attempt(s, r, n, b)
       /\ TakeLock(s, r)
       /\ Await(s, H)
    \/ /\ ~ MayDial(s)
       /\ GiveUp(s, r, None, b)

\* Slip: the attempts are counted one too far.
NoLinkOnceMore(s, r) ==
    IF r \in Command /\ tried[s][r] <= WriteAttempts
    THEN Open(s, r, hangUps, tried[s][r] + 1, said[s][r])
    ELSE GiveUp(s, r, None, said[s][r])

\* No link could be had: a command may try once more, a connect may not.
NoLink(s, r) ==
    IF r \in Command /\ tried[s][r] < WriteAttempts
    THEN Open(s, r, hangUps, tried[s][r] + 1, said[s][r])
    ELSE GiveUp(s, r, None, said[s][r])

\* Slip: the client of the last attempt is hung up before it could vouch.
HungUpAtOnce(s, r, c) ==
    LET C == {c} \ {None} IN
    /\ HangUpAll(s, C)
    /\ IF tried[s][r] < WriteAttempts
       THEN Open(s, r, With(C), tried[s][r] + 1, TRUE)
       ELSE GiveUp(s, r, c, TRUE)

\* What a command does about a link lost under its write, the client it took
\* from the link being c (None where that was let go of meanwhile): hung up at
\* once before the retry; after the last attempt kept for the vouching.
LostUnderCommand(s, r, c) ==
    LET C == {c} \ {None} IN
    IF tried[s][r] < WriteAttempts
    THEN /\ HangUpAll(s, C)
         /\ Open(s, r, With(C), tried[s][r] + 1, TRUE)
    ELSE /\ hangUps' = hangUps
         /\ LetGoOf(s, C)
         /\ GiveUp(s, r, c, TRUE)

-----------------------------------------------------------------------------
(* The session: set up, ticking, hearing the lamp, stopped. *)

\* async_start: the watching begins, and the first connect with it.
Start(s) ==
    /\ phase[s] = "new"
    /\ \A z \in Session : z < s => Unloaded(z)
    /\ phase' = [phase EXCEPT ![s] = "running"]
    /\ At(s, "initial", "lock", None)
    /\ UNCHANGED <<lock, held, memory, locals, awaits, hangUps, bluez>>

\* A piece of background work begins, unless it is on its way (_reconnecting; a
\* first exchange or a probe is over by the next tick).
Spawn(s, r) ==
    IF r \in Work /\ pc[s][r] = "idle"
    THEN At(s, r, "lock", None)
    ELSE UNCHANGED <<pc, mine>>

\* advertising: the lamp is heard, and no link is held.
Advertised(s) ==
    /\ phase[s] = "running"
    /\ ~ Connected(s)
    /\ Spawn(s, "reconnect")
    /\ UNCHANGED <<phase, lock, held, memory, locals, awaits, hangUps, bluez>>

\* A bound: a tick comes thirty seconds after the last and a hang-up ends within
\* ten, so what one tick began has ended by the next.  (Left out with it: a tick
\* in the seconds when a client that had two hang-ups is kept by the first.)
TicksApart == \A c \in kept : ~ Leaving(c)

\* Slip: only a tick that finds a link hangs the kept clients up again.
TickLeavesKept(s) ==
    /\ TicksApart
    /\ phase[s] = "running"
    /\ ~ Connected(s)
    /\ Spawn(s, "reconnect") \/ UNCHANGED <<pc, mine>>
    /\ UNCHANGED <<phase, lock, held, memory, locals, awaits, hangUps, bluez>>

\* tick.  The kept clients are hung up again, whatever else it does; with no
\* link held it sets off a connect, unless a stack fault holds the dials back.
TickDisconnected(s) ==
    /\ TicksApart
    /\ phase[s] = "running"
    /\ ~ Connected(s)
    /\ hangUps' = With(kept)
    /\ Spawn(s, "reconnect") \/ UNCHANGED <<pc, mine>>
    /\ UNCHANGED <<phase, lock, held, memory, locals, awaits, bluez>>

\* A link that was doubted and not reported lost within the grace.
TickDropsDoubted(s) ==
    /\ TicksApart
    /\ phase[s] = "running"
    /\ Connected(s)
    /\ doubt[s] = held[s]
    /\ HangUpAll(s, kept \cup {held[s]})
    /\ UNCHANGED <<phase, lock, primed, pc, mine, locals, awaits, bluez>>

\* A doubt is kept while its grace lasts; a link that was never greeted is, one
\* silent for long enough probed.
TickConnected(s) ==
    /\ TicksApart
    /\ phase[s] = "running"
    /\ Connected(s)
    /\ hangUps' = With(kept)
    /\ IF held[s] # primed[s]
       THEN Spawn(s, "prime")
       ELSE Spawn(s, "probe") \/ UNCHANGED <<pc, mine>>
    /\ UNCHANGED <<phase, lock, held, memory, locals, awaits, bluez>>

\* async_stop up to its first await: halt, then the first lines of let_go, which
\* returns at once where no client is held.
Unload(s) ==
    /\ phase[s] = "running"
    /\ phase' = [phase EXCEPT ![s] = "stopped"]
    /\ At(s, "stop", IF held[s] = None THEN "idle" ELSE "lock", None)
    /\ UNCHANGED <<lock, held, memory, locals, awaits, hangUps, bluez>>

\* let_go with the lock, or without it once its ceiling has passed: the client
\* is taken only now, and hung up if there still is one.
LetGo(s) ==
    /\ pc[s]["stop"] = "lock"
    /\ HangUpAll(s, {held[s]} \ {None})
    /\ IF held[s] = None
       THEN /\ At(s, "stop", "idle", None)
            /\ UNCHANGED lock
       ELSE /\ At(s, "stop", "bye", None)
            /\ IF lock[s] = None THEN TakeLock(s, "stop") ELSE UNCHANGED lock
    /\ UNCHANGED <<phase, primed, locals, awaits, bluez>>

\* The hang-up has ended, or the unload has waited its three seconds for it.
LetGoEnds(s) ==
    /\ pc[s]["stop"] = "bye"
    /\ At(s, "stop", "idle", None)
    /\ LetLockGo(s, "stop")
    /\ UNCHANGED <<phase, held, memory, locals, awaits, hangUps, bluez>>

\* async_shutdown: Home Assistant stops, no entry is unloaded, nothing is waited
\* for and no session follows.
ShutDown(s) ==
    /\ phase[s] = "running"
    /\ phase' = [phase EXCEPT ![s] = "down"]
    /\ HangUpAll(s, {held[s]} \ {None})
    /\ UNCHANGED <<lock, primed, pc, mine, locals, awaits, bluez>>

-----------------------------------------------------------------------------
(* Waiting for the lock, and what each role does once it has it. *)

\* send.  A service call: the entities are there while the session runs, and
\* until the process is gone once Home Assistant is stopping.
Issue(s, k) ==
    /\ phase[s] \in {"running", "down"}
    /\ pc[s][k] = "idle"
    /\ At(s, k, "lock", None)
    /\ UNCHANGED <<phase, lock, held, memory, locals, awaits, hangUps, bluez>>

\* Slip: who has waited long enough goes ahead without the lock, as an unload may.
GrantedInTime(s, r) == pc[s][r] = "lock"

Granted(s, r) == pc[s][r] = "lock" /\ lock[s] = None

\* connect, connect_locked: dial if, with the lock, no link is held after all.
ConnectLocked(s, r) ==
    /\ Granted(s, r)
    /\ IF Connected(s)
       THEN GiveUp(s, r, None, FALSE)
       ELSE Open(s, r, hangUps, 1, FALSE)
    /\ UNCHANGED <<phase, held, memory, hangUps, bluez>>

\* prime_held, probe_held: speak on the link that is held, if it is one that
\* has not been greeted or, for the probe, is still silent.
AskHeld(s, r) ==
    /\ Granted(s, r)
    /\ \/ /\ held[s] # None
          /\ r = "prime" => held[s] # primed[s]
          /\ At(s, r, "talk", held[s])
          /\ TakeLock(s, r)
       \/ /\ \/ held[s] = None
             \/ r = "prime" /\ held[s] = primed[s]
             \/ r = "probe"
          /\ At(s, r, "idle", None)
          /\ UNCHANGED lock
    /\ UNCHANGED <<phase, held, memory, locals, awaits, hangUps, bluez>>

\* The first attempt of send: on the link that is held, or on one it opens.
Send(s, k) ==
    /\ Granted(s, k)
    /\ IF Connected(s)
       THEN /\ At(s, k, "talk", held[s])
            /\ Attempt(s, k, 1, TRUE)
            /\ TakeLock(s, k)
            /\ UNCHANGED awaits
       ELSE Open(s, k, hangUps, 1, FALSE)
    /\ UNCHANGED <<phase, held, memory, hangUps, bluez>>

-----------------------------------------------------------------------------
(* open, from its first await on.  r: a connect or a command. *)

\* Slip: after the wait nothing is looked at again.
HangUpsEndedUnchecked(s, r) ==
    /\ pc[s][r] = "hangups"
    /\ awaits[s] = {}
    /\ At(s, r, "dial", None)
    /\ UNCHANGED <<phase, lock, held, memory, locals, awaits, hangUps, bluez>>

\* Every hang-up that was under way has ended; what must not be dialled is
\* refused again.  Hang-ups that began meanwhile are not looked for.
HangUpsEnded(s, r) ==
    /\ pc[s][r] = "hangups"
    /\ awaits[s] = {}
    /\ Open(s, r, {}, tried[s][r], said[s][r])
    /\ UNCHANGED <<phase, held, memory, hangUps, bluez>>

\* The library hands back a connected client, new to everybody.
Dialled(s, r) ==
    /\ pc[s][r] = "dial"
    /\ \E c \in Client :
          /\ Fresh(c)
          /\ At(s, r, "subscribe", c)
          /\ open' = open \cup {c}
          /\ up'   = up \cup {c}
    /\ UNCHANGED <<phase, lock, held, memory, locals, awaits, hangUps, kept>>

\* It gives up instead, and has closed whatever it opened.
DialFails(s, r) ==
    /\ pc[s][r] = "dial"
    /\ NoLink(s, r)
    /\ UNCHANGED <<phase, held, memory, hangUps, bluez>>

\* Slip: a stop that came while the link was being made is not looked for.
TakenThoughStopped(s, r) ==
    /\ pc[s][r] = "subscribe"
    /\ mine[s][r] \in up
    /\ held' = [held EXCEPT ![s] = mine[s][r]]
    /\ At(s, r, "talk", mine[s][r])
    /\ Attempt(s, r, tried[s][r], r \in Command)
    /\ UNCHANGED <<phase, lock, memory, awaits, hangUps, bluez>>

\* Subscribed, on a link that is up and not stopped meanwhile: the client is
\* the link's from here on, and what it was dialled for is said on it.
Taken(s, r) ==
    /\ pc[s][r] = "subscribe"
    /\ ~ Stopped(s)
    /\ mine[s][r] \in up
    /\ held' = [held EXCEPT ![s] = mine[s][r]]
    /\ At(s, r, "talk", mine[s][r])
    /\ Attempt(s, r, tried[s][r], r \in Command)
    /\ UNCHANGED <<phase, lock, memory, awaits, hangUps, bluez>>

\* Subscribed, but the link went down in the same turn of the loop, when the
\* client was nobody's (on_lost).  It is taken, the first call on it fails
\* without waiting, and it is let go of.
TakenDead(s, r) ==
    /\ pc[s][r] = "subscribe"
    /\ ~ Stopped(s)
    /\ mine[s][r] \notin up
    /\ IF r \in Command
       THEN LostUnderCommand(s, r, mine[s][r])
       ELSE /\ HangUpAll(s, {mine[s][r]})
            /\ GiveUp(s, r, None, FALSE)
    /\ UNCHANGED <<phase, primed, bluez>>

\* The subscription failed, or the link was stopped while this one was on its
\* way: the client is hung up, and its hang-up waited for.
NotTaken(s, r) ==
    /\ pc[s][r] = "subscribe"
    /\ HangUpAll(s, {mine[s][r]})
    /\ At(s, r, "closing", None)
    /\ Await(s, {NewHangUp(mine[s][r])})
    /\ UNCHANGED <<phase, lock, primed, locals, bluez>>

\* ... and then the failure is the caller's, who may dial again.
ClosedInOpen(s, r) ==
    /\ pc[s][r] = "closing"
    /\ awaits[s] = {}
    /\ NoLink(s, r)
    /\ UNCHANGED <<phase, held, memory, hangUps, bluez>>

-----------------------------------------------------------------------------
(* Speaking on the link. *)

\* note_answer: an acknowledged write, or a report heard on any client that is
\* still up, one this session no longer holds included.
NoteAnswer(s) ==
    /\ up # {}
    /\ doubt[s] # None
    /\ doubt' = [doubt EXCEPT ![s] = None]
    /\ UNCHANGED <<phase, lock, held, primed, pc, mine, locals, awaits, hangUps, bluez>>

\* Turn.in_doubt: the state request failed, and was not refused.  (Noted of a
\* client that has been let go of already it is compared with nothing.)
InDoubt(s, r) ==
    /\ pc[s][r] = "talk"
    /\ held[s] = mine[s][r]
    /\ doubt' = [doubt EXCEPT ![s] = mine[s][r]]
    /\ UNCHANGED <<phase, lock, held, primed, pc, mine, locals, awaits, hangUps, bluez>>

\* Turn.answered, in a first exchange; the device info may be read after it.
Answered(s, r) ==
    /\ pc[s][r] = "talk"
    /\ primed' = [primed EXCEPT ![s] = mine[s][r]]
    /\ UNCHANGED <<phase, lock, held, doubt, pc, mine, locals, awaits, hangUps, bluez>>

\* _greet_on, its exchange over: a client that did not answer is dropped.
Greeted(s, r) ==
    /\ pc[s][r] = "talk"
    /\ HangUpAll(s, IF primed[s] = mine[s][r] THEN {} ELSE {mine[s][r]})
    /\ GiveUp(s, r, None, FALSE)
    /\ UNCHANGED <<phase, primed, bluez>>

\* _greet_on, a write lost half-way: the link stays held, and not primed.
GreetRaises(s, r) ==
    /\ pc[s][r] = "talk"
    /\ primed[s] # mine[s][r]
    /\ GiveUp(s, r, None, FALSE)
    /\ UNCHANGED <<phase, held, memory, hangUps, bluez>>

\* probe_held, its exchange over without an answer, its deadline included: the
\* client is dropped, if it is still the link's.
Unanswered(s) ==
    /\ HangUpAll(s, {mine[s]["probe"]} \cap {held[s]})
    /\ GiveUp(s, "probe", None, FALSE)
    /\ UNCHANGED <<phase, primed, bluez>>

ProbeSilent(s) == pc[s]["probe"] = "talk" /\ Unanswered(s)

ProbeAnswered(s) ==
    /\ pc[s]["probe"] = "talk"
    /\ GiveUp(s, "probe", None, FALSE)
    /\ UNCHANGED <<phase, held, memory, hangUps, bluez>>

\* send: the command's write was acknowledged.
Delivered(s, k) ==
    /\ pc[s][k] = "talk"
    /\ GiveUp(s, k, None, FALSE)
    /\ UNCHANGED <<phase, held, memory, hangUps, bluez>>

\* send: the write failed.
WriteFails(s, k) ==
    /\ pc[s][k] = "talk"
    /\ LostUnderCommand(s, k, held[s])
    /\ UNCHANGED <<phase, primed, bluez>>

\* send: the lamp has vouched for the command, or its two seconds are over.
\* Only now is the client that failed hung up.
Vouched(s, k) ==
    /\ pc[s][k] = "vouch"
    /\ HangUpAll(s, {mine[s][k]} \ {None})
    /\ At(s, k, "idle", None)
    /\ UNCHANGED <<phase, lock, primed, locals, awaits, bluez>>

-----------------------------------------------------------------------------
(* A flow cut short: its deadline, or an unload that cancels it. *)

\* Slip: a cancellation leaves the client it was subscribing on as it is.
CutShortWalksAway(s, r) ==
    /\ pc[s][r] \in {"lock", "hangups", "dial", "subscribe", "closing"}
    /\ GiveUp(s, r, None, said[s][r])
    /\ UNCHANGED <<phase, held, memory, hangUps, bluez>>

\* While it waits, or is inside open.  A client it was dialling for is hung up
\* and not waited for; one that open has hung up already goes on being hung up.
CutShort(s, r) ==
    /\ pc[s][r] \in {"lock", "hangups", "dial", "subscribe", "closing"}
    /\ HangUpAll(s, IF pc[s][r] = "subscribe" THEN {mine[s][r]} ELSE {})
    /\ GiveUp(s, r, None, said[s][r])
    /\ UNCHANGED <<phase, primed, bluez>>

\* During an exchange: the link stays held.
ExchangeCutShort(s, r) ==
    /\ pc[s][r] = "talk"
    /\ GiveUp(s, r, None, FALSE)
    /\ UNCHANGED <<phase, held, memory, hangUps, bluez>>

\* Slip: the link goes on holding the client a write ran out of time on.
WriteCutShortHeld(s, k) ==
    /\ pc[s][k] = "talk"
    /\ GiveUp(s, k, IF held[s] = mine[s][k] THEN held[s] ELSE None, TRUE)
    /\ UNCHANGED <<phase, held, memory, hangUps, bluez>>

\* During a command's write: the link is taken from, unless it has been let go
\* of meanwhile.
WriteCutShort(s, k) ==
    /\ pc[s][k] = "talk"
    /\ GiveUp(s, k, IF held[s] = mine[s][k] THEN held[s] ELSE None, TRUE)
    /\ LetGoOf(s, {mine[s][k]})
    /\ UNCHANGED <<phase, primed, hangUps, bluez>>

\* Slip: a command's deadline covers the dial and not the write.
DeadlineForTheDial(s, r) ==
    \/ CutShort(s, r)
    \/ r \in Connecting \cup {"prime"} /\ ExchangeCutShort(s, r)
    \/ r = "probe" /\ pc[s][r] = "talk" /\ Unanswered(s)

Deadline(s, r) ==
    \/ CutShort(s, r)
    \/ r \in Connecting \cup {"prime"} /\ ExchangeCutShort(s, r)
    \/ r = "probe" /\ pc[s][r] = "talk" /\ Unanswered(s)
    \/ r \in Command /\ WriteCutShort(s, r)

\* The entry's own background tasks, when it is unloaded or the process ends.
Cancelled(s, r) ==
    /\ Stopped(s)
    /\ CutShort(s, r) \/ ExchangeCutShort(s, r)

-----------------------------------------------------------------------------
(* The stack. *)

\* Slip: the loss of any client lets go of the one that is held.
LinkDownAny(c) ==
    /\ c \in up
    /\ up' = up \ {c}
    /\ hangUps' = With({held[s] : s \in Session} \ {None})
    /\ held'  = [s \in Session |-> None]
    /\ doubt' = [s \in Session |-> None]
    /\ UNCHANGED <<phase, lock, primed, pc, mine, locals, awaits, open, kept>>

\* The link of c is gone.  on_lost: only the client that is held is hung up.
LinkDown(c) ==
    /\ c \in up
    /\ up' = up \ {c}
    /\ LET S == {s \in Session : held[s] = c} IN
          /\ hangUps' = IF S = {} THEN hangUps ELSE With({c})
          /\ held'  = [s \in Session |-> IF s \in S THEN None ELSE held[s]]
          /\ doubt' = [s \in Session |-> IF s \in S THEN None ELSE doubt[s]]
    /\ UNCHANGED <<phase, lock, primed, pc, mine, locals, awaits, open, kept>>

EndHangUp(h) ==
    /\ h \in hangUps
    /\ hangUps' = hangUps \ {h}
    /\ awaits'  = [s \in Session |-> awaits[s] \ {h}]
    /\ UNCHANGED <<phase, lock, held, doubt, pc, mine, locals>>

\* No client made later is c: a link that remembers it might as well not.
Forget(c) == primed' = [s \in Session |-> IF primed[s] = c THEN None ELSE primed[s]]

\* Slip: a client is forgotten once its hang-up has ended, closed or not.
HangUpForgets(h) ==
    /\ EndHangUp(h)
    /\ h[1] \in open
    /\ kept' = kept \ {h[1]}
    /\ UNCHANGED <<open, up, primed>>

\* _async_disconnect: hung up, or its bus closed by hand or found closed.
HangUpCloses(h) ==
    /\ EndHangUp(h)
    /\ open' = open \ {h[1]}
    /\ up'   = up \ {h[1]}
    /\ kept' = kept \ {h[1]}
    /\ Forget(h[1])

\* _async_disconnect: neither could be done, and the client is kept.
HangUpKeeps(h) ==
    /\ EndHangUp(h)
    /\ h[1] \in open
    /\ kept' = kept \cup {h[1]}
    /\ UNCHANGED <<open, up, primed>>

-----------------------------------------------------------------------------
Opening(s, r) ==
    \/ HangUpsEnded(s, r)
    \/ Dialled(s, r)
    \/ DialFails(s, r)
    \/ Taken(s, r)
    \/ TakenDead(s, r)
    \/ NotTaken(s, r)
    \/ ClosedInOpen(s, r)

Connect(s, r) == ConnectLocked(s, r) \/ Opening(s, r)

Greet(s, r) == Answered(s, r) \/ Greeted(s, r) \/ GreetRaises(s, r)

Probe(s) == AskHeld(s, "probe") \/ ProbeAnswered(s) \/ ProbeSilent(s)

Deliver(s, k) ==
    \/ Issue(s, k)
    \/ Send(s, k)
    \/ Opening(s, k)
    \/ Delivered(s, k)
    \/ WriteFails(s, k)
    \/ Vouched(s, k)

Tick(s) == TickDisconnected(s) \/ TickDropsDoubted(s) \/ TickConnected(s)

Stop(s) == Unload(s) \/ LetGo(s) \/ LetGoEnds(s) \/ ShutDown(s)

Stack ==
    \/ \E c \in Client : LinkDown(c)
    \/ \E h \in hangUps : HangUpCloses(h) \/ HangUpKeeps(h)

Next ==
    \/ \E s \in Session :
          \/ Start(s) \/ Advertised(s) \/ Tick(s) \/ Stop(s)
          \/ NoteAnswer(s)
          \/ \E r \in Connecting : Connect(s, r)
          \/ AskHeld(s, "prime")
          \/ \E r \in Connecting \cup {"prime"} : Greet(s, r)
          \/ \E r \in Background : InDoubt(s, r)
          \/ Probe(s)
          \/ \E k \in Command : Deliver(s, k)
          \/ \E r \in Background \cup Command : Deadline(s, r)
          \/ \E r \in Background : Cancelled(s, r)
    \/ Stack

Spec == Init /\ [][Next]_vars

\* What the code's own deadlines and Home Assistant's clock see to: every await
\* ends or runs out of time (the vouching and a hang-up have ceilings as well),
\* the poll ticks, and a stack fault does not hold the dials back for ever.  The
\* lock is first come, first served.  Nothing is assumed of the lamp, of the
\* library, or of how a hang-up ends.
Fairness ==
    /\ \A s \in Session :
          /\ WF_vars(LetGo(s)) /\ WF_vars(LetGoEnds(s))
          /\ WF_vars(TickDisconnected(s) /\ pc'[s]["reconnect"] = "lock")
          /\ WF_vars(Tick(s))
          /\ \A r \in Background \cup Command : WF_vars(Deadline(s, r))
          /\ \A r \in Connecting : /\ SF_vars(ConnectLocked(s, r))
                                  /\ WF_vars(HangUpsEnded(s, r))
          /\ SF_vars(AskHeld(s, "prime"))
          /\ \A k \in Command : SF_vars(Send(s, k)) /\ WF_vars(Vouched(s, k))
    /\ \A h \in HangUp : WF_vars(HangUpCloses(h) \/ HangUpKeeps(h))

FairSpec == Spec /\ Fairness

-----------------------------------------------------------------------------
(* What must hold. *)

\* c is in the hands of a task that is not speaking for the link: it is being
\* subscribed on, or it failed under a command that is being vouched for.
InHand(c) == \E s \in Session, r \in Role :
                mine[s][r] = c /\ pc[s][r] \in {"subscribe", "vouch"}

\* No client is forgotten (ADR 0003): whatever failed, was cut short or was
\* cancelled, a client whose bus is open is held, in the hands of a task that
\* will take it or hang it up, being hung up, or kept.
NothingForgotten ==
    \A c \in open : \/ \E s \in Session : held[s] = c
                    \/ InHand(c)
                    \/ Leaving(c)
                    \/ c \in kept

\* What a link holds is a link: the client is up, nobody is hanging it up, it
\* is not one that would not close, and no other link or task has it too.
HeldIsSound ==
    \A s \in Session : held[s] # None =>
        /\ held[s] \in up
        /\ ~ Leaving(held[s])
        /\ held[s] \notin kept
        /\ ~ InHand(held[s])
        /\ \A z \in Session \ {s} : held[z] # held[s]

\* A stopped coordinator holds no link and takes no new one (ARCHITECTURE.md,
\* Reconnect), whatever commands outlive it: once its unload has returned, or
\* Home Assistant has begun to stop.
StoppedHoldsNothing ==
    \A s \in Session :
        Stopped(s) /\ pc[s]["stop"] = "idle" => held[s] = None

\* The client behind the last failed write stays as it is while the command is
\* vouched for: its notifications are the channel the vouching listens on.
VouchChannelStays ==
    \A s \in Session, k \in Command :
        pc[s][k] = "vouch" /\ mine[s][k] # None =>
            /\ mine[s][k] \in open \ kept
            /\ ~ Leaving(mine[s][k])

\* Nobody waits for what will not come: the lock is never left with a task that
\* has ended, waits for it or is out of it, whatever cut that task short, and no
\* hang-up that has ended is waited for inside open.
WaitsForSomebody ==
    \A s \in Session :
        /\ lock[s] # None => pc[s][lock[s]] \in Inside \cup {"bye"}
        /\ awaits[s] \subseteq hangUps

\* A dial begins: only with nothing kept and no session holding a link, the
\* session before a reload included - the lamp has one link to give.
DialBegins(s, r) == pc[s][r] # "dial" /\ pc'[s][r] = "dial"
DialMeetsNoLink ==
    [][\A s \in Session, r \in Role : DialBegins(s, r) =>
          kept = {} /\ \A z \in Session : held'[z] = None]_vars

\* A link that is up is let go of by whoever was speaking on it, by the tick
\* over a doubt about that very client, or by a stop: never over the loss of a
\* superseded client, nor by a flow that spoke on another.
LiveLinkLetGoByItsUser ==
    [][\A s \in Session :
          LET c == held[s] IN
          c # None /\ held'[s] # c /\ c \in up' =>
              \/ \E r \in Role : /\ pc[s][r] = "talk" /\ mine[s][r] = c
                                 /\ pc'[s][r] # "talk"
              \/ doubt[s] = c /\ UNCHANGED pc
              \/ Stopped(s)']_vars

\* Every client goes through one door (OneDoor), whoever lets go of it and why.
doorState == [c \in Client |-> IF c \notin open THEN "closed"
                               ELSE IF Leaving(c) THEN "leaving"
                               ELSE IF c \in kept THEN "kept"
                               ELSE "open"]
Door == INSTANCE OneDoor WITH state <- doorState
GoesThroughOneDoor == Door!Spec

\* Whoever speaks to the lamp, or dials to, has the turn of its link (OneTurn): a
\* command's retry is in the turn of its first attempt, its vouching after it.  An
\* unload that could not wait for its turn takes the client without one.
HasTurn(s, r) == pc[s][r] \in Inside \/ (pc[s][r] = "bye" /\ lock[s] = r)
turnOf  == [s \in Session |-> [r \in Role |->
               IF HasTurn(s, r) THEN "has"
               ELSE IF pc[s][r] = "lock" THEN "waits"
               ELSE IF pc[s][r] = "vouch" THEN "unsure"
               ELSE "out"]]
triesOf == [s \in Session |-> [r \in Role |-> IF HasTurn(s, r) THEN tried[s][r] ELSE 0]]
Turn == INSTANCE OneTurn WITH
    Lock <- Session, Who <- Role, Sender <- Command, Attempts <- WriteAttempts,
    turn <- turnOf, tries <- triesOf
TakesTurns == Turn!Spec

-----------------------------------------------------------------------------
(* Why: the invariant that a step preserves (proved in LinkProofs). *)

\* Whoever is inside the lock holds it.
LockHeld == \A s \in Session, r \in Role : pc[s][r] \in Inside => lock[s] = r

\* A task has a client in hand where it needs one, and no two have the same.
MineWhere == \A s \in Session, r \in Role :
                /\ mine[s][r] # None => pc[s][r] \in {"subscribe", "talk", "vouch"}
                /\ pc[s][r] \in {"subscribe", "talk"} => mine[s][r] # None
                /\ r = "stop" => mine[s][r] = None
MineAlone == \A s \in Session, r \in Role, z \in Session, q \in Role :
                mine[s][r] # None /\ mine[s][r] = mine[z][q] => s = z /\ r = q

\* While a flow is inside open, the link holds nothing; while one speaks, it
\* holds what that one speaks on or, once that is let go of, nothing.
HeldInside == \A s \in Session, r \in Role :
                /\ pc[s][r] \in Inside \ {"talk"} => held[s] = None
                /\ pc[s][r] = "talk" => held[s] \in {None, mine[s][r]}

\* A client one link holds is in the hands of nobody but who speaks for it.
HeldMine == \A z \in Session, s \in Session, r \in Role :
                held[z] # None /\ held[z] = mine[s][r] => z = s /\ pc[s][r] = "talk"
HeldAlone == \A s \in Session, z \in Session :
                held[s] # None /\ held[s] = held[z] => s = z

\* A client that is held, or in hand outside the link, is open and not leaving.
Sound(c) == c \in open /\ ~ Leaving(c) /\ c \notin kept
HeldSound == \A s \in Session : held[s] # None => Sound(held[s]) /\ held[s] \in up
HandSound == \A s \in Session, r \in Role :
                mine[s][r] # None /\ pc[s][r] # "talk" => Sound(mine[s][r])

\* Only a session that was unloaded has its link to let go of, and once it has
\* taken it, nothing is held again.
StopsOnce == \A s \in Session :
                /\ pc[s]["stop"] # "idle" => phase[s] = "stopped"
                /\ Stopped(s) /\ pc[s]["stop"] # "lock" => held[s] = None

\* The sessions have their turns one after another.
NotYet == \A s \in Session : phase[s] = "new" =>
                held[s] = None /\ \A r \in Role : pc[s][r] = "idle"
InTurn == \A s \in Session, z \in Session :
                z < s /\ phase[s] # "new" => phase[z] = "stopped" /\ pc[z]["stop"] = "idle"

IInv ==
    /\ TypeOK
    /\ LockHeld
    /\ MineWhere
    /\ MineAlone
    /\ HeldInside
    /\ HeldMine
    /\ HeldAlone
    /\ HeldSound
    /\ HandSound
    /\ StopsOnce
    /\ NotYet
    /\ InTurn
    /\ NothingForgotten

-----------------------------------------------------------------------------
(* What must happen, under FairSpec. *)

\* A command ends, whatever the lock, the hang-ups and the stack do: a switch is
\* never pressed into a wait without end.
CommandEnds ==
    \A s \in Session, k \in Command : pc[s][k] = "lock" ~> pc[s][k] = "idle"

\* A session that runs without a link dials again, by whichever flow, unless a
\* client that will not close forbids it.
DialsAgain ==
    \A s \in Session :
        phase[s] = "running" /\ held[s] = None
            ~> \/ \E r \in Role : pc[s][r] = "dial"
               \/ held[s] # None
               \/ kept # {}
               \/ phase[s] # "running"

\* A client that would not close is tried again for as long as a session runs.
KeptIsRetried ==
    \A s \in Session, c \in Client :
        c \in kept /\ phase[s] = "running" ~> Leaving(c) \/ phase[s] # "running"

-----------------------------------------------------------------------------
(* What the documents say, and the code does not keep. *)

\* ADR 0003: "One case is left, the one in which more than one client can come
\* to be kept: a command's dial under way when the entry is unloaded".  So while
\* no session has been unloaded there is never more than one.
OneKept == (\A s \in Session : ~ Stopped(s)) => Cardinality(kept) <= 1
=============================================================================
