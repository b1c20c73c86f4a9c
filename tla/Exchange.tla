------------------------------- MODULE Exchange -------------------------------
(***************************************************************************)
(* What is said on a link before and between commands (coordinator.py):    *)
(* the first exchange (_greet) asks the lamp for its state, brings it up   *)
(* where it says it is not activated, puts its clock right, and reads its  *)
(* device info last, since on BlueZ a link does not outlive a read; the    *)
(* probe asks again on a link gone silent.  How a client is dialled and    *)
(* closed is Link's, the order of an exchange among commands the lock's:   *)
(* there is one exchange at a time, and every call of it may fail.         *)
(***************************************************************************)
EXTENDS Naturals

CONSTANTS
    Limit,      \* _REFUSALS_THAT_END_THE_ASKING
    MaxFaults   \* a bound: how often something goes wrong that need not

ASSUME ExchangeAssumption == Limit \in Nat \ {0} /\ MaxFaults \in Nat

Part     == {"flag", "clock"}          \* of STATE_KEYS, the ids acted upon here
BringUps == {"misc", "time", "flag"}   \* what _async_activate writes
Manners  == {"reports", "nameless", "moody"}

VARIABLES
    manner,     \* of the lamp: "reports" its state when asked, does so and is
                \* "nameless", or is "moody"
    done,       \* which of the bring-up the lamp has, since it was last reset
    was,        \* history: whether it was ever activated
    link,       \* "none", "live", or "dead": held, and every call on it fails
    doomed,     \* whether the lamp was read on this link
    spoke,      \* history: whether it answered anything on this link
    primed,     \* whether the first exchange was made on it (Link.primed)
    at,         \* what the exchange under way awaits, or "idle"
    kind,       \* "greet" or "probe"
    asked,      \* what came of its request: "not", "lost" or "answered"
    carried,    \* of Part, what was reported since it was made
    seen,       \* the mirror: of the flag and of the clock, what it shows
    refusals,   \* _state_request_refusals
    checked,    \* _activation_checked
    info,       \* whether device_info is known
    faults      \* how much has gone wrong

lamp   == <<manner, done, was>>
held   == <<link, doomed, spoke, primed>>
turn   == <<at, kind, asked, carried>>
memory == <<seen, refusals, checked, info>>
vars   == <<lamp, held, turn, memory, faults>>

TypeOK ==
    /\ manner   \in Manners
    /\ done     \in SUBSET BringUps
    /\ was      \in BOOLEAN
    /\ link     \in {"none", "live", "dead"}
    /\ doomed   \in BOOLEAN
    /\ spoke    \in BOOLEAN
    /\ primed   \in BOOLEAN
    /\ at       \in {"idle", "ask", "wait", "read", "misc", "time", "flag", "sync", "info"}
    /\ kind     \in {"greet", "probe"}
    /\ asked    \in {"not", "lost", "answered"}
    /\ carried  \in SUBSET Part
    /\ seen     \in [flag : {"none", "no", "yes"}, clock : {"none", "right", "wrong"}]
    /\ refusals \in 0..Limit
    /\ checked  \in BOOLEAN
    /\ info     \in BOOLEAN
    /\ faults   \in 0..MaxFaults

Init ==
    /\ manner \in Manners
    /\ done \in {{}, BringUps}
    /\ was = (done = BringUps)
    /\ link = "none" /\ doomed = FALSE /\ spoke = FALSE /\ primed = FALSE
    /\ at = "idle" /\ kind = "greet" /\ asked = "not" /\ carried = {}
    /\ seen = [flag |-> "none", clock |-> "none"]
    /\ refusals = 0
    /\ checked = FALSE
    /\ info = FALSE
    /\ faults = 0

\* Something goes wrong, which it does so often only.
Fault == faults < MaxFaults /\ faults' = faults + 1

\* A call on a live link fails for no reason the code knows; on a dead one it
\* always does.
CallFails == IF link = "live" THEN Fault ELSE UNCHANGED faults

-----------------------------------------------------------------------------
(* The lamp, and time. *)

Acts(w) ==
    /\ done' = done \cup ({w} \cap BringUps)
    /\ was' = (was \/ w = "flag")
    /\ UNCHANGED manner

\* What the mirror shows once a frame with K of the lamp is in it.
Showing(K, clock) ==
    [flag  |-> IF "flag" \notin K THEN seen.flag
               ELSE IF "flag" \in done THEN "yes" ELSE "no",
     clock |-> IF "clock" \in K THEN clock ELSE seen.clock]

\* It reports of its own accord, or as it was asked to.
Report(K) ==
    /\ link = "live"
    /\ \E clock \in {"right", "wrong"} : seen' = Showing(K, clock)
    /\ carried' = IF at \in {"ask", "wait"} THEN carried \cup K ELSE carried
    /\ spoke' = TRUE
    /\ UNCHANGED <<lamp, link, doomed, primed, at, kind, asked, refusals, checked,
                   info, faults>>

\* Somebody resets it, and the link is gone before anybody notices.
FactoryReset ==
    /\ done # {}
    /\ Fault
    /\ done' = {}
    /\ link' = IF link = "live" THEN "dead" ELSE link
    /\ UNCHANGED <<manner, was, doomed, spoke, primed, turn, memory>>

\* The vendor's app brings it up, on the one connection it takes.
AppActivates ==
    /\ link = "none"
    /\ done # BringUps
    /\ done' = BringUps
    /\ was' = TRUE
    /\ UNCHANGED <<manner, held, turn, memory, faults>>

\* The clock the mirror shows is the one that was read: it falls behind.
ClockAges ==
    /\ at = "idle"
    /\ seen.clock = "right"
    /\ seen' = [seen EXCEPT !.clock = "wrong"]
    /\ UNCHANGED <<lamp, held, turn, refusals, checked, info, faults>>

-----------------------------------------------------------------------------
(* The link. *)

\* Slip: a lamp that refuses is asked for ever.
BeginsAsking(k) ==
    /\ at' = "ask" /\ kind' = k
    /\ asked' = "not" /\ carried' = {}

\* _request_state: the lamp is asked, unless it is asked no more.
Begins(k) ==
    /\ at' = IF refusals < Limit THEN "ask" ELSE "read"
    /\ kind' = k
    /\ asked' = "not" /\ carried' = {}

Taken(l) == link' = l /\ doomed' = FALSE /\ spoke' = FALSE /\ primed' = FALSE

\* connect_locked: a link is made, and the first exchange on it.  It may be one
\* that was never any good.
Dial ==
    /\ at = "idle" /\ link = "none"
    /\ \/ Taken("live") /\ UNCHANGED faults
       \/ Taken("dead") /\ Fault
    /\ Begins("greet")
    /\ UNCHANGED <<lamp, memory>>

\* A command takes a link without one.
CommandDials ==
    /\ at = "idle" /\ link = "none"
    /\ Taken("live")
    /\ UNCHANGED <<lamp, turn, memory, faults>>

\* prime_held, probe_held: which of them the tick finds to be made.
PrimeHeld ==
    /\ at = "idle" /\ link # "none" /\ ~ primed
    /\ Begins("greet")
    /\ UNCHANGED <<lamp, held, memory, faults>>

ProbeHeld ==
    /\ at = "idle" /\ link # "none" /\ primed
    /\ Begins("probe")
    /\ UNCHANGED <<lamp, held, memory, faults>>

\* It goes down, or stays up and carries nothing.
LinkLost ==
    /\ link # "none"
    /\ Fault
    /\ \/ link' = "none" /\ primed' = FALSE
       \/ link = "live" /\ link' = "dead" /\ UNCHANGED primed
    /\ UNCHANGED <<lamp, doomed, spoke, turn, memory>>

\* Two seconds after a read, on BlueZ.
DoomEnds ==
    /\ doomed /\ link # "none"
    /\ link' = "none" /\ primed' = FALSE
    /\ UNCHANGED <<lamp, doomed, spoke, turn, memory, faults>>

\* _drop, of a link that answers nothing.
LetsGo ==
    /\ at' = "idle"
    /\ link' = "none" /\ primed' = FALSE
    /\ UNCHANGED <<spoke, kind, asked, carried, checked>>

\* A read is made on it, whether it is answered or not.
Dooms == doomed' = (doomed \/ link = "live")

-----------------------------------------------------------------------------
(* The exchange. *)

\* Slip: the bring-up is judged once, whatever the flag says.
ChecksAnyway(flag) == checked' = TRUE

\* The flag settles the question only where it says yes.
Checks(flag) == checked' = (checked \/ flag = "yes")

\* The exchange goes on to await s; before its last part the link is called one
\* that works (answered).
Goes(s) ==
    /\ at' = s
    /\ primed' = (primed \/ (s \in {"info", "idle"} /\ link # "none"))
    /\ UNCHANGED <<link, kind, asked, carried>>

\* _async_sync_clock_if_needed, and what follows it.
AfterBringUp == Goes(IF seen'.clock = "wrong" THEN "sync"
                     ELSE IF info THEN "idle" ELSE "info")

\* The lamp answered: a probe ends, a first exchange goes on with what is to be
\* written (_async_activate_if_needed).
Answers ==
    \/ /\ kind = "probe"
       /\ at' = "idle"
       /\ UNCHANGED <<link, primed, kind, asked, carried, checked>>
    \/ /\ kind = "greet"
       /\ ~ checked /\ seen'.flag = "no"
       /\ Goes("misc")
       /\ UNCHANGED checked
    \/ /\ kind = "greet"
       /\ checked \/ seen'.flag # "no"
       /\ AfterBringUp
       /\ Checks(seen'.flag)

\* _async_ask_state.  The report of a lamp that reports comes inside the write.
AskAccepted ==
    /\ at = "ask" /\ link = "live"
    /\ manner # "moody" => carried = Part
    /\ at' = "wait" /\ asked' = "answered"
    /\ refusals' = 0
    /\ spoke' = TRUE
    /\ UNCHANGED <<lamp, link, doomed, primed, kind, carried, seen, checked, info, faults>>

AskRefused ==
    /\ at = "ask" /\ link = "live" /\ manner = "moody"
    /\ at' = "read" /\ asked' = "answered"
    /\ refusals' = refusals + 1
    /\ spoke' = TRUE
    /\ UNCHANGED <<lamp, link, doomed, primed, kind, carried, seen, checked, info, faults>>

\* Slip: a request that was lost counts as refused.
LostIsRefused ==
    /\ at = "ask"
    /\ CallFails
    /\ at' = "read" /\ asked' = "lost"
    /\ refusals' = refusals + 1
    /\ UNCHANGED <<lamp, held, kind, carried, seen, checked, info>>

AskLost ==
    /\ at = "ask"
    /\ CallFails
    /\ at' = "read" /\ asked' = "lost"
    /\ UNCHANGED <<lamp, held, kind, carried, memory>>

Reported ==
    /\ at = "wait" /\ carried = Part
    /\ UNCHANGED seen
    /\ Answers
    /\ UNCHANGED <<lamp, doomed, spoke, refusals, info, faults>>

\* A part of what was asked for is an answer; of nothing at all the lamp is read.
TimedOut ==
    /\ at = "wait" /\ carried # Part
    /\ UNCHANGED seen
    /\ \/ carried # {} /\ Answers
       \/ /\ carried = {}
          /\ at' = "read"
          /\ UNCHANGED <<link, primed, kind, asked, carried, checked>>
    /\ UNCHANGED <<lamp, doomed, spoke, refusals, info, faults>>

\* _async_read_state: what is read is taken as a report is.
ReadDone ==
    /\ at = "read" /\ link = "live"
    /\ \E K \in SUBSET Part, clock \in {"right", "wrong"} : seen' = Showing(K, clock)
    /\ Dooms /\ spoke' = TRUE
    /\ Answers
    /\ UNCHANGED <<lamp, refusals, info, faults>>

\* Slip: the exchange goes on although nothing was answered.
GoesOnUnanswered ==
    /\ at = "read"
    /\ CallFails
    /\ UNCHANGED seen
    /\ Dooms /\ Answers
    /\ UNCHANGED <<lamp, spoke, refusals, info>>

\* The read fails: that the request was answered at all will do.
ReadLost ==
    /\ at = "read"
    /\ CallFails
    /\ UNCHANGED <<lamp, seen, refusals, info>>
    /\ \/ asked = "answered" /\ Dooms /\ UNCHANGED spoke /\ Answers
       \/ asked # "answered" /\ UNCHANGED doomed /\ LetsGo

\* Slip: the flag first, so that the light works at once.
AfterFlagFirst(w) == [misc |-> "flag", flag |-> "time", time |-> "done"][w]

\* _async_activate: clock after misc, and last what the light is gated on.
After(w) == [misc |-> "time", time |-> "flag", flag |-> "done"][w]

\* What _write_on puts over the mirror once a write is acknowledged.
Echoed(w) == [flag  |-> IF w = "flag" THEN "yes" ELSE seen.flag,
              clock |-> IF w \in {"time", "sync"} THEN "right" ELSE seen.clock]

WriteAcked ==
    /\ at \in BringUps \cup {"sync"} /\ link = "live"
    /\ Acts(at)
    /\ seen' = Echoed(at)
    /\ spoke' = TRUE
    /\ \/ /\ at = "sync"
          /\ Goes(IF info THEN "idle" ELSE "info")
          /\ UNCHANGED checked
       \/ /\ at # "sync" /\ After(at) # "done"
          /\ Goes(After(at))
          /\ UNCHANGED checked
       \/ /\ at # "sync" /\ After(at) = "done"
          /\ AfterBringUp
          /\ Checks(seen'.flag)
    /\ UNCHANGED <<doomed, refusals, info, faults>>

\* Slip: the mirror is told before the lamp has answered.
WriteLostEchoed ==
    /\ at \in BringUps \cup {"sync"}
    /\ CallFails
    /\ at' = "idle"
    /\ seen' = Echoed(at)
    /\ (link = "live" /\ Acts(at)) \/ UNCHANGED lamp
    /\ UNCHANGED <<held, kind, asked, carried, refusals, checked, info>>

\* A write that fails, or a deadline in it, ends the exchange: the link is held,
\* and not primed.  The lamp may have acted on it.
WriteLost ==
    /\ at \in BringUps \cup {"sync"}
    /\ CallFails
    /\ at' = "idle"
    /\ (link = "live" /\ Acts(at)) \/ UNCHANGED lamp
    /\ UNCHANGED <<held, kind, asked, carried, memory>>

\* _async_read_device_info.  What a nameless lamp answers names nothing, and is
\* read again on the next link.
InfoRead ==
    /\ at = "info" /\ link = "live"
    /\ at' = "idle"
    /\ info' \in BOOLEAN
    /\ manner = "reports"  => info'
    /\ manner = "nameless" => ~ info'
    /\ Dooms /\ spoke' = TRUE
    /\ UNCHANGED <<lamp, link, primed, kind, asked, carried, seen, refusals, checked, faults>>

InfoLost ==
    /\ at = "info"
    /\ CallFails
    /\ at' = "idle"
    /\ Dooms
    /\ UNCHANGED <<lamp, link, spoke, primed, kind, asked, carried, memory>>

\* The deadline of the whole exchange: a probe lets go of its link then.
CutShort ==
    /\ at \in {"ask", "wait", "read", "info"}
    /\ Fault
    /\ IF at \in {"read", "info"} THEN Dooms ELSE UNCHANGED doomed
    /\ \/ kind = "probe" /\ LetsGo
       \/ /\ kind = "greet"
          /\ at' = "idle"
          /\ UNCHANGED <<link, spoke, primed, kind, asked, carried, checked>>
    /\ UNCHANGED <<lamp, seen, refusals, info>>

-----------------------------------------------------------------------------
Awaits ==
    \/ AskAccepted \/ AskRefused \/ AskLost
    \/ Reported \/ TimedOut
    \/ ReadDone \/ ReadLost
    \/ WriteAcked \/ WriteLost
    \/ InfoRead \/ InfoLost
    \/ CutShort

Next ==
    \/ \E K \in SUBSET Part : K # {} /\ Report(K)
    \/ FactoryReset \/ AppActivates \/ ClockAges
    \/ Dial \/ CommandDials \/ PrimeHeld \/ ProbeHeld
    \/ LinkLost \/ DoomEnds
    \/ Awaits

\* Every call ends, by its deadline if by nothing else; the tick comes round; a
\* link that was read goes down; and a lamp that reports does so when asked.
Fairness ==
    /\ WF_vars(Awaits)
    /\ WF_vars(Dial \/ PrimeHeld \/ ProbeHeld)
    /\ WF_vars(DoomEnds)
    /\ WF_vars(at = "ask" /\ manner # "moody" /\ Report(Part))

Spec == Init /\ [][Next]_vars /\ Fairness

-----------------------------------------------------------------------------
(* What must hold. *)

\* A lamp is never left half brought up: once its light works, it has everything
\* the app would have told it, whatever was lost on the way and however often the
\* bring-up was begun.
BroughtUpWhole == "flag" \in done => done = BringUps

\* The question is never settled for a lamp that was never activated: not by an
\* echo of what it did not take, nor by a flag nobody has seen.
CheckedWasActive == checked => was

\* A link is called one that works only if the lamp has answered on it.
PrimedSpoke == primed => spoke

\* A lamp that reports, and says what it is, ends up on a link that is not read and
\* stays: whatever failed on the way, it is asked and not read from then on.
Settles == manner = "reports" => <>[](link = "live" /\ primed)

\* And it is brought up, however often the bring-up was cut short.
IsBroughtUp == manner # "moody" => <>was
=============================================================================
