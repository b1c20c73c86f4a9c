------------------------------ MODULE Delivery ------------------------------
(***************************************************************************)
(* How a command is delivered and what it may be called afterwards         *)
(* (coordinator.py, _async_deliver and _async_device_confirms; mirror.py;  *)
(* link.py, send; ADR 0005).  A command is a map from property ids to      *)
(* values.  A write that is acknowledged is echoed into the mirror; one    *)
(* that fails may have reached the lamp or not, is made once more, and is  *)
(* then vouched for by a report of the lamp or called a failure.           *)
(*                                                                         *)
(* Of Link.send only the lock, the retry and the vouching outside the lock *)
(* are here; clients and dials are Link's.  The lamp also changes of its   *)
(* own accord (its own buttons, its circadian curve).  A report is taken   *)
(* as it is sent, so its number is not needed: fresh[c] is what            *)
(* reported_since(reports_before) would answer to the command of c.        *)
(***************************************************************************)
EXTENDS Integers

CONSTANTS
    Caller,     \* the service calls that may be in flight at once
    Key,        \* property ids
    Value,      \* what a property may be set to or report
    StateKeys,  \* STATE_KEYS: the ids the lamp reports
    Resets,     \* of the lamp: <<k, v, j>> where setting k to v puts j back
    Default,    \* the value j is put back to
    Carried,    \* what a report may carry: sets of these ids
    Attempts,   \* _WRITE_ATTEMPTS
    None        \* Python's None

ASSUME KeysAssumption == /\ Attempts \in Nat \ {0}
                         /\ StateKeys \subseteq Key
                         /\ Carried \subseteq SUBSET StateKeys
                         /\ Default \in Value
                         /\ Resets \subseteq Key \X Value \X Key
                         /\ None \notin Value
                         /\ None \notin Caller

Payload == UNION {[K -> Value] : K \in (SUBSET Key) \ {{}}}

VARIABLES
    lamp,     \* what each property of the lamp is
    mirror,   \* Mirror: what was last reported or echoed
    lock,     \* Link.lock
    task,     \* of each call: where its command is
    payload,  \* the command, where there is one
    left,     \* the attempts it has left, the one it makes included
    said,     \* whether it was ever put to a link
    fresh,    \* what has been reported since the command was taken up
    had,      \* history: its settings the lamp had, or acknowledged, since then
    ever      \* history: the values each property of the lamp ever had

histories == <<had, ever>>
commands  == <<task, payload, left, said, fresh>>
dvars     == <<lamp, mirror, lock, commands, histories>>

\* "queued": waiting for the lock; "trying": with the lock, waiting for a link;
\* "put": put to a link; "written": the lamp has it; "unsure": the write failed,
\* and a report is waited for.
Under == {"trying", "put", "written"}
Busy  == {"queued", "unsure"} \cup Under
Rest  == {"idle", "done", "failed"}

TypeOK ==
    /\ lamp    \in [Key -> Value]
    /\ mirror  \in [Key -> Value \cup {None}]
    /\ lock    \in Caller \cup {None}
    /\ task    \in [Caller -> Busy \cup Rest]
    /\ payload \in [Caller -> Payload \cup {<<>>}]
    /\ left    \in [Caller -> 0..Attempts]
    /\ said    \in [Caller -> BOOLEAN]
    /\ fresh   \in [Caller -> SUBSET StateKeys]
    /\ had     \in [Caller -> SUBSET Key]
    /\ ever    \in [Key -> SUBSET Value]

DInit ==
    /\ lamp    \in [Key -> Value]
    /\ mirror  = [k \in Key |-> None]
    /\ lock    = None
    /\ task    = [c \in Caller |-> "idle"]
    /\ payload = [c \in Caller |-> <<>>]
    /\ left    = [c \in Caller |-> 0]
    /\ said    = [c \in Caller |-> FALSE]
    /\ fresh   = [c \in Caller |-> {}]
    /\ had     = [c \in Caller |-> {}]
    /\ ever    = [k \in Key |-> {lamp[k]}]

-----------------------------------------------------------------------------
\* The properties of command p that are as it sets them in m.
Agree(p, m) == {k \in DOMAIN p : m[k] = p[k]}

\* The lamp with p acted on.
Acted(p) == [k \in Key |->
                IF k \in DOMAIN p THEN p[k]
                ELSE IF \E j \in DOMAIN p : <<j, p[j], k>> \in Resets THEN Default
                ELSE lamp[k]]

\* The lamp is m from now on; what that makes true of the commands under way.
Becomes(m) ==
    /\ lamp' = m
    /\ had'  = [c \in Caller |-> had[c] \cup Agree(payload[c], m)]
    /\ ever' = [k \in Key |-> ever[k] \cup {m[k]}]

Goes(c, t) == task' = [task EXCEPT ![c] = t]

\* The command of c is over.
Over(c, t) ==
    /\ Goes(c, t)
    /\ payload' = [payload EXCEPT ![c] = <<>>]
    /\ left'    = [left    EXCEPT ![c] = 0]
    /\ said'    = [said    EXCEPT ![c] = FALSE]
    /\ fresh'   = [fresh   EXCEPT ![c] = {}]

Forgotten(c) == had' = [had EXCEPT ![c] = {}]

Unlock(c) == lock' = IF lock = c THEN None ELSE lock

\* What p sets, in m.
With(m, p) == [k \in Key |-> IF k \in DOMAIN p THEN p[k] ELSE m[k]]

\* _async_deliver: what has been reported so far is noted before the lock is
\* waited for.
TakeUp(c, p) ==
    /\ task[c] \in Rest
    /\ Goes(c, "queued")
    /\ payload' = [payload EXCEPT ![c] = p]
    /\ left'    = [left    EXCEPT ![c] = Attempts]
    /\ said'    = [said    EXCEPT ![c] = FALSE]
    /\ fresh'   = [fresh   EXCEPT ![c] = {}]
    /\ had'     = [had     EXCEPT ![c] = Agree(p, lamp)]
    /\ UNCHANGED <<lamp, mirror, lock, ever>>

Granted(c) ==
    /\ task[c] = "queued"
    /\ lock = None
    /\ lock' = c
    /\ Goes(c, "trying")
    /\ UNCHANGED <<lamp, mirror, payload, left, said, fresh, histories>>

\* Slip: the command is echoed as it is put to the link.
PutAndEchoed(c) ==
    /\ task[c] = "trying"
    /\ Goes(c, "put")
    /\ said' = [said EXCEPT ![c] = TRUE]
    /\ mirror' = With(mirror, payload[c])
    /\ UNCHANGED <<lamp, lock, payload, left, fresh, histories>>

\* There is a link, and the write is put to it.
Put(c) ==
    /\ task[c] = "trying"
    /\ Goes(c, "put")
    /\ said' = [said EXCEPT ![c] = TRUE]
    /\ UNCHANGED <<lamp, mirror, lock, payload, left, fresh, histories>>

\* The lamp does as it is told.  A write that was given up may still arrive.
Reaches(c) ==
    /\ task[c] \in {"put", "unsure"}
    /\ task' = [task EXCEPT ![c] = IF @ = "put" THEN "written" ELSE @]
    /\ Becomes(Acted(payload[c]))
    /\ UNCHANGED <<mirror, lock, payload, left, said, fresh>>

\* The acknowledgement comes, and the command is echoed: over what the lamp may
\* have reported meanwhile.
Acked(c) ==
    /\ task[c] = "written"
    /\ mirror' = With(mirror, payload[c])
    /\ had' = [d \in Caller |->
                  IF d = c THEN {}
                  ELSE had[d] \cup {k \in DOMAIN payload[c] \cap DOMAIN payload[d] :
                                       payload[c][k] = payload[d][k]}]
    /\ Over(c, "done")
    /\ Unlock(c)
    /\ UNCHANGED <<lamp, ever>>

\* Slip: the lock is let go of for the reconnect.
TriedAgainUnlocked(c) ==
    /\ task[c] \in Under
    /\ left[c] > 1
    /\ Goes(c, "trying")
    /\ left' = [left EXCEPT ![c] = @ - 1]
    /\ Unlock(c)
    /\ UNCHANGED <<lamp, mirror, payload, said, fresh, histories>>

\* No link, or the write failed, whether or not it has reached the lamp: once
\* more, under the lock still.
TriedAgain(c) ==
    /\ task[c] \in Under
    /\ left[c] > 1
    /\ Goes(c, "trying")
    /\ left' = [left EXCEPT ![c] = @ - 1]
    /\ UNCHANGED <<lamp, mirror, lock, payload, said, fresh, histories>>

\* It has failed for the last time - the attempts are used up, the link will not
\* dial, or the deadline is over, wherever it was - and is listened for without
\* the lock, if it was ever put to a link.
WriteFails(c) ==
    /\ task[c] \in {"queued"} \cup Under
    /\ Unlock(c)
    /\ IF said[c]
       THEN Goes(c, "unsure") /\ UNCHANGED <<payload, left, said, fresh, had>>
       ELSE Over(c, "failed") /\ Forgotten(c)
    /\ UNCHANGED <<lamp, mirror, ever>>

Tracked(c) == DOMAIN payload[c] \cap StateKeys

\* Slip: a mirror that agrees is enough, however old it is.
VouchedByTheMirror(c) ==
    /\ task[c] = "unsure"
    /\ Tracked(c) # {}
    /\ Tracked(c) \subseteq Agree(payload[c], mirror)
    /\ Over(c, "done")
    /\ Forgotten(c)
    /\ UNCHANGED <<lamp, mirror, lock, ever>>

\* _async_device_confirms: every property of the command the lamp reports at all
\* is mirrored as it was set, and one of them was reported since.
Vouched(c) ==
    /\ task[c] = "unsure"
    /\ Tracked(c) \subseteq Agree(payload[c], mirror)
    /\ Tracked(c) \cap fresh[c] # {}
    /\ Over(c, "done")
    /\ Forgotten(c)
    /\ UNCHANGED <<lamp, mirror, lock, ever>>

\* _CONFIRM_TIMEOUT is over.
NotVouched(c) ==
    /\ task[c] = "unsure"
    /\ Over(c, "failed")
    /\ Forgotten(c)
    /\ UNCHANGED <<lamp, mirror, lock, ever>>

-----------------------------------------------------------------------------
\* The lamp changes of its own accord.
LampChanges ==
    /\ \E k \in Key, v \in Value : Becomes([lamp EXCEPT ![k] = v])
    /\ UNCHANGED <<mirror, lock, commands>>

\* Mirror.take: a report of some of its properties, as they are.
Report ==
    /\ \E K \in Carried :
          /\ mirror' = [k \in Key |-> IF k \in K THEN lamp[k] ELSE mirror[k]]
          /\ fresh'  = [c \in Caller |-> IF task[c] \in Busy THEN fresh[c] \cup K
                                         ELSE {}]
    /\ UNCHANGED <<lamp, lock, task, payload, left, said, histories>>

Sending(c) == Granted(c) \/ Put(c) \/ Reaches(c) \/ TriedAgain(c)
Outcome(c) == Acked(c) \/ WriteFails(c) \/ Vouched(c) \/ NotVouched(c)

DNext ==
    \/ \E c \in Caller : (\E p \in Payload : TakeUp(c, p)) \/ Sending(c) \/ Outcome(c)
    \/ LampChanges
    \/ Report

DSpec == DInit /\ [][DNext]_dvars

-----------------------------------------------------------------------------
(* What must hold. *)

\* A command is called done only on the lamp's word: since it was taken up, the
\* lamp had, or acknowledged to somebody, what the command sets - never because
\* of what the mirror held of old.  All of it where it was acknowledged; at least
\* one property of it where a report vouched for it (_async_device_confirms owns
\* up to the rest: "What this leaves is a coincidence").
DoneOnTheLampsWord ==
    [][\A c \in Caller :
          task[c] \in Busy /\ task'[c] = "done" =>
              IF task[c] = "written" THEN DOMAIN payload[c] \subseteq had[c]
                                     ELSE Tracked(c) \cap had[c] # {}]_dvars

\* The mirror shows what the lamp was at some time, never what only a command
\* said it should be: the echo waits for the acknowledgement.
MirrorIsTheLamps ==
    \A k \in Key : mirror[k] # None => mirror[k] \in ever[k]

\* Whoever has put its write to a link has the lock, until it is acknowledged or
\* given up: no two commands are at the lamp at once, second attempts included.
LockedWhileWritten ==
    \A c \in Caller : task[c] \in Under => lock = c

\* Commands have their turns at the lamp (OneTurn): the second attempt is in the
\* turn of the first, and one that is not sure of itself has no turn any more.
turnOf  == [l \in {None} |-> [c \in Caller |->
               IF task[c] \in Under THEN "has"
               ELSE IF task[c] = "queued" THEN "waits"
               ELSE IF task[c] = "unsure" THEN "unsure"
               ELSE "out"]]
triesOf == [l \in {None} |-> [c \in Caller |->
               IF task[c] \in Under THEN Attempts + 1 - left[c] ELSE 0]]
Turn == INSTANCE OneTurn WITH
    Lock <- {None}, Who <- Caller, Sender <- Caller, turn <- turnOf, tries <- triesOf
TakesTurns == Turn!Spec

\* Why: the lock is nobody's who is not under way, what is written the lamp had,
\* and what was reported since is the lamp's word.
DInv ==
    /\ TypeOK
    /\ MirrorIsTheLamps
    /\ LockedWhileWritten
    /\ \A k \in Key : lamp[k] \in ever[k]
    /\ \A c \in Caller :
          /\ Agree(payload[c], lamp) \subseteq had[c]
          /\ fresh[c] \cap Agree(payload[c], mirror) \subseteq had[c]
          /\ task[c] = "written" =>
                \A k \in DOMAIN payload[c] : k \in had[c] /\ payload[c][k] \in ever[k]
=============================================================================
