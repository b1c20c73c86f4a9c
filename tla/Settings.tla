------------------------------ MODULE Settings ------------------------------
(***************************************************************************)
(* Service calls that are more than one command, or whose command is built *)
(* on what the lamp last reported (coordinator.py, the setters): the       *)
(* operating mode takes two commands, a third puts the ramp back; a        *)
(* lighting mode carries the ramp, the ramp the lighting mode; a field of  *)
(* the schedule is set by writing the whole slot.  Commands are            *)
(* Delivery's, which puts one at a time to the lamp; what is built of the  *)
(* mirror is built before the wait for its turn.                           *)
(*                                                                         *)
(* The lamp is left to Home Assistant here; what it does of its own accord *)
(* is Delivery's.  Two settings of a property stand for all of them.  A    *)
(* field of the slot is a property of its own here, reported and written   *)
(* together with the others (0x11 is one byte string).                     *)
(***************************************************************************)
EXTENDS Integers

CONSTANTS
    Caller,    \* as in Delivery
    Attempts,
    None,
    Field,     \* the fields of the schedule's slot
    Ask,       \* what may be asked for: records of the sets below
    Found,     \* a bound: the lamps it may begin with
    Calls      \* a bound: how many calls are made

Flag    == {"circadian", "schedule"}
Setting == Flag \cup {"lighting", "ramp"} \cup Field
Mode    == {"manual", "circadian", "schedule"}

RampDefault == 0

Asks == [op : {"mode"}, to : Mode]
        \cup [op : {"lighting", "ramp"}, to : 0..1]
        \cup [op : {"slot"}, to : 0..1, field : Field]

\* Sentinels are apart, the fields of the slot are not settings of their own, and
\* a lamp that is found is in one mode.
ASSUME SettingsAssumption ==
    /\ Ask \subseteq Asks /\ None \notin Ask
    /\ Found \subseteq {m \in [Setting -> 0..1] : ~ (m["circadian"] = 1 /\ m["schedule"] = 1)}
    /\ Calls \in Nat
    /\ Attempts \in Nat \ {0}
    /\ None \notin 0..1 /\ None \notin Caller
    /\ Field \cap {"circadian", "schedule", "lighting", "ramp"} = {}

VARIABLES
    lamp, mirror, lock, task, payload, left, said, fresh, had, ever,
    call,      \* of each caller: what it was asked for, until it returns or raises
    step,      \* which of its commands is under way
    desired,   \* _desired_ramp
    made,      \* the calls made so far
    before,    \* history: what a call found that is alone and knows all of the lamp
    crossed    \* history: whether two calls for a mode were ever under way at once

\* A report carries all of them, as it does when asked, or what has changed.
Carried == ({Setting, Field} \cup {{k} : k \in Setting \ Field}) \ {{}}

\* Turning Circadian on resets the ramp of the lamp.
INSTANCE Delivery WITH
    Key <- Setting, Value <- 0..1, StateKeys <- Setting, Carried <- Carried,
    Resets <- {<<"circadian", 1, "ramp">>}, Default <- RampDefault

delivery == <<lamp, mirror, lock, task, payload, left, said, fresh, had, ever>>
svars    == <<delivery, call, step, desired, made, before, crossed>>

SInit ==
    /\ DInit
    /\ lamp \in Found
    /\ call    = [c \in Caller |-> None]
    /\ step    = [c \in Caller |-> 0]
    /\ desired = None
    /\ made    = 0
    /\ before  = [c \in Caller |-> None]
    /\ crossed = FALSE

-----------------------------------------------------------------------------
\* The ramp that a lighting mode carries: the one remembered, or the default.
Ramp == IF desired = None THEN RampDefault ELSE desired

\* _mode_payload.
Lighting(mode, ramp) == [k \in {"lighting", "ramp"} |-> IF k = "ramp" THEN ramp ELSE mode]

\* A flag of the mode, alone.
Only(flag, v) == [k \in {flag} |-> v]

\* Slip: the new mode is turned on before the old one is turned off.
OnFirst(m) == IF m = "manual" THEN Only("circadian", 0) ELSE Only(m, 1)

\* The flag that is written first for a mode, and the one that is written then:
\* what is on is turned off before the other is turned on.
First(m)  == IF m = "circadian" THEN Only("schedule", 0) ELSE Only("circadian", 0)
Second(m) == IF m = "circadian" THEN Only("circadian", 1)
             ELSE Only("schedule", IF m = "schedule" THEN 1 ELSE 0)

\* What a call cannot do without: that it was reported (_require).
Known(ks) == \A k \in ks : mirror[k] # None

\* The first command of a call for o.
Command(o) ==
    CASE o.op = "mode"     -> First(o.to)
      [] o.op = "lighting" -> Lighting(o.to, Ramp)
      [] o.op = "ramp"     -> Lighting(mirror["lighting"], o.to)
      [] o.op = "slot"     -> [f \in Field |-> IF f = o.field THEN o.to ELSE mirror[f]]

Needs(o) ==
    CASE o.op = "ramp" -> {"lighting"} [] o.op = "slot" -> Field [] OTHER -> {}

UnderWay == {c \in Caller : call[c] # None}

\* No call has had its command done, or failed, and not gone on: what follows a
\* command in its call follows at once, in the same turn of the event loop.
Settled == \A c \in UnderWay : task[c] \notin {"done", "failed"}

\* Slip: a ramp is remembered as it is asked for.
CalledRemembering(c, o) ==
    /\ call[c] = None
    /\ made < Calls
    /\ Known(Needs(o))
    /\ TakeUp(c, Command(o))
    /\ call'   = [call EXCEPT ![c] = o]
    /\ step'   = [step EXCEPT ![c] = 1]
    /\ made'   = made + 1
    /\ desired' = IF o.op = "ramp" THEN o.to ELSE desired
    /\ UNCHANGED <<before, crossed>>

\* A call, for which all that it needs is known: the others raise before they
\* have done anything.
Called(c, o) ==
    /\ call[c] = None
    /\ made < Calls
    /\ Known(Needs(o))
    /\ TakeUp(c, Command(o))
    /\ call'   = [call EXCEPT ![c] = o]
    /\ step'   = [step EXCEPT ![c] = 1]
    /\ made'   = made + 1
    /\ before' = [d \in Caller |-> IF d = c /\ UnderWay = {} /\ mirror = lamp
                                   THEN [lamp |-> lamp, ramp |-> desired] ELSE None]
    /\ crossed' = (crossed \/ \E d \in UnderWay : "mode" = o.op /\ "mode" = call[d].op)
    /\ UNCHANGED desired

\* The call of c returns, or raises.
Returns(c) ==
    /\ call' = [call EXCEPT ![c] = None]
    /\ step' = [step EXCEPT ![c] = 0]

\* async_set_operating_mode goes on: the second flag, and in Circadian the ramp,
\* where one is remembered - which raises if no lighting mode was reported.
NextOfMode(c) ==
    /\ task[c] = "done"
    /\ call[c] # None /\ call[c].op = "mode"
    /\ \/ /\ step[c] = 1
          /\ TakeUp(c, Second(call[c].to))
       \/ /\ step[c] = 2 /\ call[c].to = "circadian"
          /\ desired # None /\ Known({"lighting"})
          /\ TakeUp(c, Lighting(mirror["lighting"], Ramp))
    /\ step' = [step EXCEPT ![c] = @ + 1]
    /\ UNCHANGED <<call, desired, made, before, crossed>>

\* Slip: the ramp is left as Circadian has reset it.
LastIsTheFlag(c) == step[c] = 2

LastOfMode(c) ==
    \/ step[c] = 3
    \/ step[c] = 2 /\ ~ (call[c].to = "circadian" /\ desired # None)

\* A call has had its last command done.  Only now is a ramp remembered.
Done(c) ==
    /\ call[c] # None
    /\ task[c] = "done"
    /\ call[c].op = "mode" => LastOfMode(c)
    /\ Returns(c)
    /\ desired' = IF call[c].op = "ramp" THEN call[c].to ELSE desired
    /\ UNCHANGED <<delivery, made, before, crossed>>

\* A command of it failed, or the third command of a mode has no lighting mode.
Raises(c) ==
    /\ call[c] # None
    /\ \/ task[c] = "failed"
       \/ /\ task[c] = "done"
          /\ call[c].op = "mode" /\ step[c] = 2 /\ ~ LastOfMode(c)
          /\ ~ Known({"lighting"})
    /\ Returns(c)
    /\ UNCHANGED <<delivery, desired, made, before, crossed>>

\* _ingest: the first ramp that is reported is remembered.
Ingest ==
    /\ Report
    /\ desired' = IF desired = None THEN mirror'["ramp"] ELSE desired
    /\ UNCHANGED <<call, step, made, before, crossed>>

\* Its command is delivered, or not.  A call for which a report had to vouch is
\* no longer sure of all it set.
Delivers(c) ==
    /\ Sending(c) \/ Outcome(c)
    /\ before' = [before EXCEPT ![c] = IF Vouched(c) THEN None ELSE @]
    /\ UNCHANGED <<call, step, desired, made, crossed>>

SNext ==
    \/ \E c \in Caller : NextOfMode(c) \/ Done(c) \/ Raises(c)
    \/ /\ Settled
       /\ \/ \E c \in Caller : Delivers(c) \/ \E o \in Ask : Called(c, o)
          \/ Ingest

SSpec == SInit /\ [][SNext]_svars

-----------------------------------------------------------------------------
(* What must hold. *)

\* The ramp that is remembered, and put back with every lighting mode and every
\* switch to Circadian, is one the lamp had: not one a call only asked for.
RampRemembered == desired # None => desired \in ever["ramp"]

\* "The mutually-exclusive Manual/Circadian/Schedule mode": as long as calls for
\* a mode do not cross, the lamp is never told to be in both, whatever fails.
ModesApart == ~ crossed => ~ (lamp["circadian"] = 1 /\ lamp["schedule"] = 1)

\* The lamp that o asks for, where it was m and the ramp remembered was r.
Wanted(o, m, r) ==
    CASE o.op = "mode" ->
            {w \in [Setting -> 0..1] :
                /\ w["circadian"] = IF o.to = "circadian" THEN 1 ELSE 0
                /\ w["schedule"]  = IF o.to = "schedule"  THEN 1 ELSE 0
                /\ w["ramp"]      = m["ramp"] \/ o.to = "circadian"
                /\ o.to = "circadian" /\ r # None => w["ramp"] = r
                /\ \A k \in {"lighting"} \cup Field : w[k] = m[k]}
      [] o.op = "lighting" ->
            {[m EXCEPT !["lighting"] = o.to,
                       !["ramp"] = IF r = None THEN RampDefault ELSE r]}
      [] o.op = "ramp" -> {[m EXCEPT !["ramp"] = o.to]}
      [] o.op = "slot" -> {[m EXCEPT ![o.field] = o.to]}

\* A call that is alone, that knows the lamp and whose commands were all
\* acknowledged leaves it as was asked, and the rest of it as it was: the fields
\* that are written with the one it sets, and the ramp that Circadian resets.
AloneDoesAsAsked ==
    [][\A c \in Caller :
          before[c] # None /\ task[c] = "done" /\ call'[c] = None /\ call[c] # None
             => lamp \in Wanted(call[c], before[c].lamp, before[c].ramp)]_svars

-----------------------------------------------------------------------------
(* What the code says, and does not keep. *)

\* "The 0x11 slot with field written at, the rest as it came" (_slot_with), and
\* "nothing left for Home Assistant to queue here" (time.py): the command of one
\* field leaves the others as they are.
SlotKeepsTheRest ==
    [][\A c \in Caller :
          Reaches(c) /\ call[c].op = "slot" =>
              \A f \in Field \ {call[c].field} : lamp'[f] = lamp[f]]_svars
=============================================================================
