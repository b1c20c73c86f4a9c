--------------------------- MODULE SettingsProofs ---------------------------
(***************************************************************************)
(* Theorems about Settings, for any number of callers, calls and attempts  *)
(* and any fields of the schedule: the ramp that is remembered is one the  *)
(* lamp had, calls for a mode that do not cross leave it in one mode, and  *)
(* a call that is alone leaves the lamp as it asked, the rest as it was.   *)
(*                                                                         *)
(* What is known of the commands is DeliveryProofs', of the delivery that  *)
(* Settings instantiates: each step of a call is one of Delivery's, or     *)
(* leaves it alone.                                                        *)
(***************************************************************************)
EXTENDS Settings, TLAPS

D == INSTANCE DeliveryProofs WITH
    Key <- Setting, Value <- 0..1, StateKeys <- Setting, Carried <- Carried,
    Resets <- {<<"circadian", 1, "ramp">>}, Default <- RampDefault

\* The assumptions of Delivery are met.
LEMMA DeliveryIsMet == D!KeysAssumption
BY SettingsAssumption DEF D!KeysAssumption, Carried, Setting, Flag, RampDefault

\* What may be asked for.
LEMMA WhatIsAsked ==
  ASSUME NEW o \in Ask
  PROVE  /\ o.op \in {"mode", "lighting", "ramp", "slot"}
         /\ o.op = "mode" => o.to \in Mode
         /\ o.op # "mode" => o.to \in 0..1
         /\ o.op = "slot" => o.field \in Field
         /\ o # None
BY SettingsAssumption DEF Asks

\* The actions of the delivery are Delivery's.
LEMMA SameSteps ==
  /\ \A c \in Caller, p \in D!Payload : TakeUp(c, p) => D!TakeUp(c, p)
  /\ \A c \in Caller : Sending(c) => D!Sending(c)
  /\ \A c \in Caller : Outcome(c) => D!Outcome(c)
  /\ Report => D!Report
<1>1. ASSUME NEW c \in Caller, NEW p \in D!Payload, TakeUp(c, p)
      PROVE  D!TakeUp(c, p)
  BY <1>1 DEF TakeUp, D!TakeUp, Rest, D!Rest, Goes, D!Goes, Agree, D!Agree
<1>2. ASSUME NEW c \in Caller, Granted(c) PROVE D!Granted(c)
  BY <1>2 DEF Granted, D!Granted, Goes, D!Goes, histories, D!histories
<1>3. ASSUME NEW c \in Caller, Put(c) PROVE D!Put(c)
  BY <1>3 DEF Put, D!Put, Goes, D!Goes, histories, D!histories
<1>4. ASSUME NEW c \in Caller, Reaches(c) PROVE D!Reaches(c)
  BY <1>4 DEF Reaches, D!Reaches, Becomes, D!Becomes, Acted, D!Acted, Agree, D!Agree
<1>5. ASSUME NEW c \in Caller, TriedAgain(c) PROVE D!TriedAgain(c)
  BY <1>5 DEF TriedAgain, D!TriedAgain, Under, D!Under, Goes, D!Goes, histories, D!histories
<1>6. ASSUME NEW c \in Caller, Acked(c) PROVE D!Acked(c)
  BY <1>6 DEF Acked, D!Acked, With, D!With, Over, D!Over, Unlock, D!Unlock, Goes, D!Goes
<1>7. ASSUME NEW c \in Caller, WriteFails(c) PROVE D!WriteFails(c)
  BY <1>7 DEF WriteFails, D!WriteFails, Under, D!Under, Over, D!Over, Unlock, D!Unlock,
              Goes, D!Goes, Forgotten, D!Forgotten
<1>8. ASSUME NEW c \in Caller, Vouched(c) PROVE D!Vouched(c)
  BY <1>8 DEF Vouched, D!Vouched, Tracked, D!Tracked, Agree, D!Agree, Over, D!Over,
              Goes, D!Goes, Forgotten, D!Forgotten
<1>9. ASSUME NEW c \in Caller, NotVouched(c) PROVE D!NotVouched(c)
  BY <1>9 DEF NotVouched, D!NotVouched, Over, D!Over, Goes, D!Goes, Forgotten, D!Forgotten
<1>10. Report => D!Report
  BY DEF Report, D!Report, Busy, D!Busy, Under, D!Under, histories, D!histories
<1> QED
  BY <1>1, <1>2, <1>3, <1>4, <1>5, <1>6, <1>7, <1>8, <1>9, <1>10
     DEF Sending, D!Sending, Outcome, D!Outcome

-----------------------------------------------------------------------------
(* The inductive invariant. *)

ModeCall(c) == call[c] # None /\ call[c].op = "mode"

\* The flag that a call for mode m turns off first.
OffFlag(m) == IF m = "circadian" THEN "schedule" ELSE "circadian"

Typed ==
    /\ call \in [Caller -> Ask \cup {None}]
    /\ step \in [Caller -> 0..3]
    /\ desired \in 0..1 \cup {None}
    /\ crossed \in BOOLEAN

\* A command under way is that of a call.
Asked == \A c \in Caller : task[c] \in Busy => call[c] # None

\* A call for a ramp writes the ramp that is asked for, and when it is done the
\* lamp has had it.
RampAsked ==
    \A c \in Caller : call[c] # None /\ call[c].op = "ramp" =>
        /\ task[c] \in Busy => "ramp" \in DOMAIN payload[c] /\ payload[c]["ramp"] = call[c].to
        /\ task[c] = "done" => call[c].to \in ever["ramp"]

\* A flag of the mode is written by a call for a mode, in its first and its
\* second command, alone.
FlagsWritten ==
    \A c \in Caller :
        /\ ModeCall(c) => step[c] \in 1..3
        /\ task[c] \in Busy =>
              /\ ModeCall(c) /\ step[c] = 1 => payload[c] = First(call[c].to)
              /\ ModeCall(c) /\ step[c] = 2 => payload[c] = Second(call[c].to)
              /\ \/ ModeCall(c) /\ step[c] \in 1..2
                 \/ Flag \cap DOMAIN payload[c] = {}

OneMode == ~ crossed => \A c, d \in Caller : ModeCall(c) /\ ModeCall(d) => c = d

\* What a call for a mode turns off first is off before it turns anything on:
\* its write was acknowledged, or reported since.
OffIsOff ==
    ~ crossed => \A c \in Caller : ModeCall(c) =>
        LET off == OffFlag(call[c].to) IN
        /\ step[c] = 1 /\ task[c] = "written" => lamp[off] = 0
        /\ step[c] = 1 /\ task[c] \in Busy /\ off \in fresh[c] => lamp[off] \in {0, mirror[off]}
        /\ (step[c] = 1 /\ task[c] = "done") \/ step[c] \in 2..3 => lamp[off] = 0

SInv == /\ D!DInv
        /\ Typed
        /\ Asked
        /\ RampRemembered
        /\ RampAsked
        /\ FlagsWritten
        /\ OneMode
        /\ OffIsOff
        /\ ModesApart

\* What is used of the delivery's invariant.
LEMMA OfTheDelivery ==
  ASSUME D!DInv
  PROVE  /\ lamp \in [Setting -> 0..1]
         /\ mirror \in [Setting -> 0..1 \cup {None}]
         /\ task \in [Caller -> Busy \cup Rest]
         /\ payload \in [Caller -> D!Payload \cup {<<>>}]
         /\ fresh \in [Caller -> SUBSET Setting]
         /\ ever \in [Setting -> SUBSET (0..1)]
         /\ \A k \in Setting : lamp[k] \in ever[k] /\ (mirror[k] # None => mirror[k] \in ever[k])
         /\ \A c \in Caller : task[c] = "written" =>
               \A k \in DOMAIN payload[c] : payload[c][k] \in ever[k]
BY DEF D!DInv, D!TypeOK, D!MirrorIsTheLamps, Busy, D!Busy, Under, D!Under, Rest, D!Rest

\* No setting is both a flag of the mode and the ramp, and the lamp resets no flag.
LEMMA Apart ==
  /\ {"circadian", "schedule", "lighting", "ramp"} \subseteq Setting
  /\ Flag = {"circadian", "schedule"}
  /\ Field \cap Flag = {} /\ "ramp" \notin Field /\ "lighting" \notin Field
BY SettingsAssumption DEF Setting, Flag

\* The commands of calls are commands, of the settings they are meant for.
LEMMA LightingIs ==
  ASSUME NEW m \in 0..1, NEW r \in 0..1
  PROVE  /\ Lighting(m, r) \in D!Payload
         /\ Flag \cap DOMAIN Lighting(m, r) = {}
         /\ "ramp" \in DOMAIN Lighting(m, r) /\ Lighting(m, r)["ramp"] = r
<1>1. /\ Lighting(m, r) \in [{"lighting", "ramp"} -> 0..1]
      /\ DOMAIN Lighting(m, r) = {"lighting", "ramp"} /\ Lighting(m, r)["ramp"] = r
  BY DEF Lighting
<1>2. {"lighting", "ramp"} \in (SUBSET Setting) \ {{}}
  BY Apart
<1> QED
  BY <1>1, <1>2, Apart DEF D!Payload

LEMMA FlagsAre ==
  ASSUME NEW m \in Mode
  PROVE  /\ First(m) \in D!Payload /\ Second(m) \in D!Payload
         /\ DOMAIN First(m) = {OffFlag(m)} /\ First(m)[OffFlag(m)] = 0
         /\ OffFlag(m) \in Flag
         /\ \A f \in Flag : f \in DOMAIN Second(m) /\ f = OffFlag(m) => Second(m)[f] = 0
<1>1. \A f \in Flag, v \in 0..1 : /\ Only(f, v) \in [{f} -> 0..1]
                                  /\ DOMAIN Only(f, v) = {f} /\ Only(f, v)[f] = v
  BY DEF Only
<1>2. \A f \in Flag : {f} \in (SUBSET Setting) \ {{}}
  BY Apart
<1>3. \A f \in Flag, v \in 0..1 : Only(f, v) \in D!Payload
  BY <1>1, <1>2 DEF D!Payload
<1> QED
  BY <1>1, <1>3, Apart DEF First, Second, OffFlag, Mode

LEMMA CommandIs ==
  ASSUME D!DInv, Typed, NEW o \in Ask, Known(Needs(o))
  PROVE  /\ Command(o) \in D!Payload
         /\ o.op = "mode" => Command(o) = First(o.to)
         /\ o.op # "mode" => Flag \cap DOMAIN Command(o) = {}
         /\ o.op = "ramp" => "ramp" \in DOMAIN Command(o) /\ Command(o)["ramp"] = o.to
<1>1. mirror \in [Setting -> 0..1 \cup {None}]
  BY OfTheDelivery
<1>2. CASE o.op = "mode"
  <2>1. Command(o) = First(o.to)
    BY <1>2 DEF Command
  <2> QED
    BY <1>2, <2>1, WhatIsAsked, FlagsAre
<1>3. CASE o.op = "lighting"
  <2>1. Command(o) = Lighting(o.to, Ramp) /\ Ramp \in 0..1
    BY <1>3 DEF Command, Ramp, RampDefault, Typed
  <2> QED
    BY <1>3, <2>1, WhatIsAsked, LightingIs
<1>4. CASE o.op = "ramp"
  <2>1. Command(o) = Lighting(mirror["lighting"], o.to)
    BY <1>4 DEF Command
  <2>2. mirror["lighting"] \in 0..1
    BY <1>1, <1>4, Apart DEF Known, Needs
  <2> QED
    BY <1>4, <2>1, <2>2, WhatIsAsked, LightingIs
<1>5. CASE o.op = "slot"
  <2>1. Command(o) = [f \in Field |-> IF f = o.field THEN o.to ELSE mirror[f]]
    BY <1>5 DEF Command
  <2>2. \A f \in Field : f \in Setting /\ mirror[f] \in 0..1
    BY <1>1, <1>5 DEF Known, Needs, Setting
  <2>3. Command(o) \in [Field -> 0..1] /\ Field \in (SUBSET Setting) \ {{}}
    BY <1>5, <2>1, <2>2, WhatIsAsked
  <2> QED
    BY <1>5, <2>3, Apart DEF D!Payload
<1> QED
  BY <1>2, <1>3, <1>4, <1>5, WhatIsAsked

\* What a command under way does to the flags and the ramp, when it is acted on.
LEMMA ActedIs ==
  ASSUME NEW p
  PROVE  /\ \A f \in Flag : Acted(p)[f] = IF f \in DOMAIN p THEN p[f] ELSE lamp[f]
         /\ "ramp" \in DOMAIN p => Acted(p)["ramp"] = p["ramp"]
BY Apart DEF Acted

-----------------------------------------------------------------------------
(* The steps of a call. *)

LEMMA InitSInv == SInit => SInv
<1> SUFFICES ASSUME SInit PROVE SInv
  OBVIOUS
<1>1. D!DInv
  <2>1. D!DInit
    BY DEF SInit, DInit, D!DInit
  <2> QED
    BY <2>1, DeliveryIsMet, D!InitIsSound
<1>2. Typed
  <2>1. /\ call \in [Caller -> Ask \cup {None}]
        /\ step \in [Caller -> 0..3]
        /\ desired \in 0..1 \cup {None}
    BY DEF SInit
  <2>2. crossed \in BOOLEAN
    BY DEF SInit
  <2> QED
    BY <2>1, <2>2 DEF Typed
<1>3. Asked /\ RampRemembered /\ RampAsked
  BY DEF SInit, DInit, Asked, RampRemembered, RampAsked, Busy, Under
<1>4. FlagsWritten /\ OneMode /\ OffIsOff
  BY DEF SInit, DInit, FlagsWritten, OneMode, OffIsOff, ModeCall, Busy, Under
<1>5. ModesApart
  BY SettingsAssumption DEF SInit, ModesApart
<1> QED
  BY <1>1, <1>2, <1>3, <1>4, <1>5 DEF SInv

\* What a command that is taken up leaves as it was, and what is new of its call.
LEMMA TakeUpIs ==
  ASSUME D!DInv, NEW c \in Caller, NEW p \in D!Payload, TakeUp(c, p)
  PROVE  /\ D!DInv'
         /\ UNCHANGED <<lamp, mirror, ever>>
         /\ task'[c] = "queued" /\ payload'[c] = p /\ fresh'[c] = {}
         /\ task[c] \in Rest
         /\ \A d \in Caller \ {c} : /\ task'[d] = task[d] /\ payload'[d] = payload[d]
                                    /\ fresh'[d] = fresh[d]
<1>1. D!DInv'
  BY SameSteps, DeliveryIsMet, D!StepKeepsInv DEF D!DNext
<1> QED
  BY <1>1, OfTheDelivery DEF TakeUp, Goes

LEMMA CalledKeeps ==
  ASSUME SInv, NEW c \in Caller, NEW o \in Ask, Called(c, o)
  PROVE  SInv'
<1>1. /\ D!DInv /\ Typed /\ Asked /\ RampRemembered /\ RampAsked /\ FlagsWritten
      /\ OneMode /\ OffIsOff /\ ModesApart
  BY DEF SInv
<1>2. /\ call[c] = None
      /\ Known(Needs(o)) /\ TakeUp(c, Command(o))
      /\ call' = [call EXCEPT ![c] = o]
      /\ step' = [step EXCEPT ![c] = 1]
      /\ crossed' = (crossed \/ \E d \in UnderWay : "mode" = o.op /\ "mode" = call[d].op)
      /\ desired' = desired
  BY DEF Called
<1>3. /\ Command(o) \in D!Payload
      /\ o.op = "mode" => Command(o) = First(o.to)
      /\ o.op # "mode" => Flag \cap DOMAIN Command(o) = {}
      /\ o.op = "ramp" => "ramp" \in DOMAIN Command(o) /\ Command(o)["ramp"] = o.to
  BY <1>1, <1>2, CommandIs
<1>4. /\ D!DInv'
      /\ UNCHANGED <<lamp, mirror, ever>>
      /\ task'[c] = "queued" /\ payload'[c] = Command(o) /\ fresh'[c] = {}
      /\ \A d \in Caller \ {c} : /\ task'[d] = task[d] /\ payload'[d] = payload[d]
                                 /\ fresh'[d] = fresh[d]
  BY <1>1, <1>2, <1>3, TakeUpIs
<1>5. /\ call'[c] = o /\ step'[c] = 1
      /\ \A d \in Caller \ {c} : call'[d] = call[d] /\ step'[d] = step[d]
      /\ o # None
  BY <1>1, <1>2, WhatIsAsked DEF Typed
<1>6. Typed'
  BY <1>1, <1>2 DEF Typed
<1>7. Asked' /\ RampRemembered' /\ RampAsked'
  BY <1>1, <1>2, <1>3, <1>4, <1>5 DEF Asked, RampRemembered, RampAsked
<1>8. FlagsWritten'
  <2>1. ASSUME NEW d \in Caller, d # c
        PROVE  ModeCall(d)' <=> ModeCall(d)
    BY <1>5, <2>1 DEF ModeCall
  <2> QED
    BY <1>1, <1>3, <1>4, <1>5, <2>1 DEF FlagsWritten, ModeCall
<1>9. ASSUME ~ crossed'
      PROVE  /\ ~ crossed
             /\ \A d \in Caller : ModeCall(d)' =>
                   (ModeCall(d) /\ d # c) \/ (d = c /\ \A e \in Caller : ~ ModeCall(e))
  <2>1. ~ crossed /\ ~ \E d \in UnderWay : "mode" = o.op /\ "mode" = call[d].op
    BY <1>2, <1>9
  <2> QED
    BY <1>2, <1>5, <2>1 DEF ModeCall, UnderWay
<1>10. OneMode'
  BY <1>1, <1>9 DEF OneMode
<1>11. OffIsOff'
  <2> SUFFICES ASSUME ~ crossed', NEW d \in Caller, ModeCall(d)'
               PROVE  LET off == OffFlag(call'[d].to) IN
                      /\ step'[d] = 1 /\ task'[d] = "written" => lamp'[off] = 0
                      /\ step'[d] = 1 /\ task'[d] \in Busy /\ off \in fresh'[d]
                            => lamp'[off] \in {0, mirror'[off]}
                      /\ (step'[d] = 1 /\ task'[d] = "done") \/ step'[d] \in 2..3
                            => lamp'[off] = 0
    BY DEF OffIsOff
  <2>1. CASE d = c
    BY <1>4, <1>5, <2>1
  <2>2. CASE d # c
    <3>1. ModeCall(d) /\ ~ crossed
      BY <1>9, <2>2
    <3> QED
      BY <1>1, <1>4, <1>5, <2>2, <3>1 DEF OffIsOff
  <2> QED
    BY <2>1, <2>2
<1>12. ModesApart'
  BY <1>1, <1>4, <1>9 DEF ModesApart
<1> QED
  BY <1>4, <1>6, <1>7, <1>8, <1>10, <1>11, <1>12 DEF SInv

\* A call for a mode goes on.
LEMMA NextOfModeKeeps ==
  ASSUME SInv, NEW c \in Caller, NextOfMode(c)
  PROVE  SInv'
<1>1. /\ D!DInv /\ Typed /\ Asked /\ RampRemembered /\ RampAsked /\ FlagsWritten
      /\ OneMode /\ OffIsOff /\ ModesApart
  BY DEF SInv
<1>2. /\ task[c] = "done" /\ ModeCall(c)
      /\ step' = [step EXCEPT ![c] = @ + 1]
      /\ UNCHANGED <<call, desired, crossed>>
  BY DEF NextOfMode, ModeCall
<1>3. call[c] \in Ask /\ call[c].to \in Mode /\ call[c].op = "mode"
  BY <1>1, <1>2, WhatIsAsked DEF Typed, ModeCall
<1>4. PICK p \in D!Payload :
         /\ TakeUp(c, p)
         /\ step[c] \in 1..2
         /\ step[c] = 1 => p = Second(call[c].to)
         /\ step[c] = 2 => Flag \cap DOMAIN p = {}
  <2>1. CASE step[c] = 1 /\ TakeUp(c, Second(call[c].to))
    <3>1. Second(call[c].to) \in D!Payload
      BY <1>3, FlagsAre
    <3> QED
      BY <2>1, <3>1
  <2>2. CASE /\ step[c] = 2 /\ desired # None /\ Known({"lighting"})
             /\ TakeUp(c, Lighting(mirror["lighting"], Ramp))
    <3>1. mirror["lighting"] \in 0..1 /\ Ramp \in 0..1
      BY <1>1, <2>2, OfTheDelivery, Apart DEF Known, Ramp, Typed
    <3>2. /\ Lighting(mirror["lighting"], Ramp) \in D!Payload
          /\ Flag \cap DOMAIN Lighting(mirror["lighting"], Ramp) = {}
      BY <3>1, LightingIs
    <3> QED
      BY <2>2, <3>2
  <2> QED
    BY <2>1, <2>2 DEF NextOfMode
<1>5. /\ D!DInv'
      /\ UNCHANGED <<lamp, mirror, ever>>
      /\ task'[c] = "queued" /\ payload'[c] = p /\ fresh'[c] = {}
      /\ \A d \in Caller \ {c} : /\ task'[d] = task[d] /\ payload'[d] = payload[d]
                                 /\ fresh'[d] = fresh[d]
  BY <1>1, <1>4, TakeUpIs
<1>6. /\ step'[c] = step[c] + 1
      /\ \A d \in Caller \ {c} : step'[d] = step[d]
      /\ \A d \in Caller : ModeCall(d)' <=> ModeCall(d)
  BY <1>1, <1>2 DEF Typed, ModeCall
<1>7. Typed'
  BY <1>1, <1>2, <1>4, <1>6 DEF Typed
<1>8. Asked' /\ RampRemembered' /\ RampAsked'
  BY <1>1, <1>2, <1>3, <1>5 DEF Asked, RampRemembered, RampAsked, ModeCall
<1>9. FlagsWritten'
  BY <1>1, <1>2, <1>4, <1>5, <1>6 DEF FlagsWritten
<1>10. OneMode' /\ ModesApart'
  BY <1>1, <1>2, <1>5, <1>6 DEF OneMode, ModesApart
<1>11. OffIsOff'
  BY <1>1, <1>2, <1>4, <1>5, <1>6 DEF OffIsOff
<1> QED
  BY <1>5, <1>7, <1>8, <1>9, <1>10, <1>11 DEF SInv

\* A call returns or raises, which the delivery does not notice.
LEMMA ReturnsKeeps ==
  ASSUME SInv, NEW c \in Caller, Done(c) \/ Raises(c)
  PROVE  SInv'
<1>1. /\ D!DInv /\ Typed /\ Asked /\ RampRemembered /\ RampAsked /\ FlagsWritten
      /\ OneMode /\ OffIsOff /\ ModesApart
  BY DEF SInv
<1>2. /\ call[c] # None /\ task[c] \in {"done", "failed"}
      /\ call' = [call EXCEPT ![c] = None]
      /\ step' = [step EXCEPT ![c] = 0]
      /\ UNCHANGED <<lamp, mirror, lock, task, payload, left, said, fresh, had, ever, crossed>>
  BY DEF Done, Raises, Returns, delivery
<1>3. D!DInv'
  BY <1>1, <1>2 DEF D!DInv, D!TypeOK, D!MirrorIsTheLamps, D!LockedWhileWritten, D!Agree
<1>4. /\ call'[c] = None /\ ~ ModeCall(c)'
      /\ \A d \in Caller \ {c} : /\ call'[d] = call[d] /\ step'[d] = step[d]
                                 /\ ModeCall(d)' <=> ModeCall(d)
  BY <1>1, <1>2 DEF Typed, ModeCall
<1>5. /\ desired' \in 0..1 \cup {None}
      /\ desired' # None => desired' \in ever["ramp"]
  <2>1. CASE desired' = desired
    BY <1>1, <2>1 DEF Typed, RampRemembered
  <2>2. CASE Done(c) /\ call[c].op = "ramp" /\ desired' = call[c].to
    <3>1. call[c].to \in 0..1
      BY <1>1, <1>2, <2>2, WhatIsAsked DEF Typed
    <3> QED
      BY <1>1, <1>2, <2>2, <3>1 DEF RampAsked, Done
  <2> QED
    BY <2>1, <2>2 DEF Done, Raises
<1>6. Typed' /\ RampRemembered'
  BY <1>1, <1>2, <1>5 DEF Typed, RampRemembered
<1>7. task'[c] \notin Busy
  BY <1>2 DEF Busy, Under
<1>8. Asked' /\ RampAsked'
  BY <1>1, <1>2, <1>4, <1>7 DEF Asked, RampAsked
<1>9. FlagsWritten'
  BY <1>1, <1>2, <1>4, <1>7 DEF FlagsWritten
<1>10. OneMode' /\ ModesApart' /\ OffIsOff'
  BY <1>1, <1>2, <1>4 DEF OneMode, ModesApart, OffIsOff
<1> QED
  BY <1>3, <1>6, <1>8, <1>9, <1>10 DEF SInv

-----------------------------------------------------------------------------
(* The steps of the delivery. *)

\* A step of the delivery, or a report, changes neither calls nor what is known
\* of their crossing.
LEMMA IngestKeeps ==
  ASSUME SInv, Ingest
  PROVE  SInv'
<1>1. /\ D!DInv /\ Typed /\ Asked /\ RampRemembered /\ RampAsked /\ FlagsWritten
      /\ OneMode /\ OffIsOff /\ ModesApart
  BY DEF SInv
<1>2. D!DInv'
  BY <1>1, SameSteps, DeliveryIsMet, D!StepKeepsInv DEF D!DNext, Ingest
<1>3. PICK K \in Carried :
         /\ mirror' = [k \in Setting |-> IF k \in K THEN lamp[k] ELSE mirror[k]]
         /\ fresh'  = [c \in Caller |-> IF task[c] \in Busy THEN fresh[c] \cup K ELSE {}]
  BY DEF Ingest, Report
<1>4. UNCHANGED <<lamp, task, payload, ever, call, step, crossed>>
  BY DEF Ingest, Report, histories
<1>5. /\ desired' \in 0..1 \cup {None}
      /\ desired' # None => desired' \in ever["ramp"]
  <2>1. /\ mirror'["ramp"] \in 0..1 \cup {None}
        /\ mirror'["ramp"] # None => mirror'["ramp"] \in ever["ramp"]
    BY <1>2, <1>4, Apart, OfTheDelivery DEF D!DInv, D!TypeOK, D!MirrorIsTheLamps
  <2> QED
    BY <1>1, <2>1 DEF Ingest, Typed, RampRemembered
<1>6. Typed' /\ RampRemembered' /\ Asked' /\ RampAsked' /\ FlagsWritten' /\ OneMode' /\ ModesApart'
  BY <1>1, <1>4, <1>5
     DEF Typed, RampRemembered, Asked, RampAsked, FlagsWritten, OneMode, ModesApart, ModeCall
<1>7. OffIsOff'
  <2> SUFFICES ASSUME ~ crossed, NEW c \in Caller, ModeCall(c),
                      step[c] = 1, task[c] \in Busy, OffFlag(call[c].to) \in fresh'[c]
               PROVE  lamp[OffFlag(call[c].to)] \in {0, mirror'[OffFlag(call[c].to)]}
    BY <1>1, <1>4 DEF OffIsOff, ModeCall
  <2> DEFINE off == OffFlag(call[c].to)
  <2>1. off \in Setting
    BY Apart DEF OffFlag
  <2>2. CASE off \in K
    BY <1>3, <2>1, <2>2
  <2>3. CASE off \notin K
    <3>1. off \in fresh[c] /\ mirror'[off] = mirror[off]
      BY <1>3, <2>1, <2>3
    <3> QED
      BY <1>1, <3>1 DEF OffIsOff
  <2> QED
    BY <2>2, <2>3
<1> QED
  BY <1>2, <1>6, <1>7 DEF SInv

\* What holds after a step of the delivery that leaves the lamp, and lets no
\* command be acknowledged, is what held before.
LEMMA MovesKeep ==
  ASSUME SInv, NEW c \in Caller, NEW t, D!DInv',
         UNCHANGED <<lamp, mirror, call, step, desired, crossed, ever>>,
         task' = [task EXCEPT ![c] = t],
         \A d \in Caller \ {c} : payload'[d] = payload[d] /\ fresh'[d] = fresh[d],
         \/ /\ t \in Busy \ {"written"} /\ task[c] \in Busy
            /\ payload'[c] = payload[c] /\ fresh'[c] = fresh[c]
         \/ t = "failed"
  PROVE  SInv'
<1>1. /\ D!DInv /\ Typed /\ Asked /\ RampRemembered /\ RampAsked /\ FlagsWritten
      /\ OneMode /\ OffIsOff /\ ModesApart
  BY DEF SInv
<1>2. /\ task'[c] = t
      /\ \A d \in Caller \ {c} : task'[d] = task[d]
  BY <1>1, OfTheDelivery
<1>3. \A d \in Caller : ModeCall(d)' <=> ModeCall(d)
  BY DEF ModeCall
<1>4. t \notin {"written", "done"}
  BY DEF Busy, Under
<1>5. \A d \in Caller : task'[d] \in Busy => /\ task[d] \in Busy
                                           /\ payload'[d] = payload[d] /\ fresh'[d] = fresh[d]
  BY <1>2 DEF Busy, Under
<1>6. \A d \in Caller : task'[d] \in {"written", "done"} => task'[d] = task[d]
  BY <1>2, <1>4
<1>7. Typed' /\ RampRemembered' /\ OneMode' /\ ModesApart' /\ Asked'
  BY <1>1, <1>3, <1>5 DEF Typed, RampRemembered, OneMode, ModesApart, Asked
<1>8. RampAsked' /\ FlagsWritten'
  BY <1>1, <1>3, <1>5, <1>6 DEF RampAsked, FlagsWritten
<1>9. OffIsOff'
  BY <1>1, <1>3, <1>5, <1>6 DEF OffIsOff
<1> QED
  BY <1>7, <1>8, <1>9 DEF SInv

\* The lamp acts on a command.  A flag of the mode is told it by a call for a
\* mode, of which there is one, and which has turned the other flag off.
LEMMA ReachesKeeps ==
  ASSUME SInv, NEW c \in Caller, Reaches(c), D!DInv',
         UNCHANGED <<call, step, desired, crossed>>
  PROVE  SInv'
<1>1. /\ D!DInv /\ Typed /\ Asked /\ RampRemembered /\ RampAsked /\ FlagsWritten
      /\ OneMode /\ OffIsOff /\ ModesApart
  BY DEF SInv
<1>2. /\ task[c] \in {"put", "unsure"}
      /\ task' = [task EXCEPT ![c] = IF @ = "put" THEN "written" ELSE @]
      /\ lamp' = Acted(payload[c])
      /\ ever' = [k \in Setting |-> ever[k] \cup {lamp'[k]}]
      /\ UNCHANGED <<mirror, payload, fresh>>
  BY DEF Reaches, Becomes
<1>3. /\ \A f \in Flag : lamp'[f] = IF f \in DOMAIN payload[c] THEN payload[c][f] ELSE lamp[f]
      /\ "ramp" \in Setting /\ Flag \subseteq Setting
  BY <1>2, ActedIs, Apart
<1>4. /\ task[c] \in Busy
      /\ \A d \in Caller : /\ task'[d] \in Busy <=> task[d] \in Busy
                           /\ task'[d] = "done" <=> task[d] = "done"
                           /\ task'[d] = "written" /\ d # c => task[d] = "written"
  BY <1>1, <1>2, OfTheDelivery DEF Busy, Under
<1>5. \A d \in Caller : ModeCall(d)' <=> ModeCall(d)
  BY DEF ModeCall
<1>6. \A d \in Caller : ModeCall(d) => /\ call[d].to \in Mode
                                       /\ OffFlag(call[d].to) \in Flag
  BY <1>1, WhatIsAsked, FlagsAre DEF Typed, ModeCall
<1>7. Typed' /\ RampRemembered' /\ OneMode' /\ Asked' /\ FlagsWritten'
  <2>1. Typed' /\ OneMode'
    BY <1>1, <1>5 DEF Typed, OneMode
  <2>2. RampRemembered'
    BY <1>1, <1>2, <1>3 DEF RampRemembered
  <2>3. Asked' /\ FlagsWritten'
    BY <1>1, <1>2, <1>4, <1>5 DEF Asked, FlagsWritten
  <2> QED
    BY <2>1, <2>2, <2>3
<1>8. RampAsked'
  BY <1>1, <1>2, <1>3, <1>4 DEF RampAsked
\* What a flag is told.
<1>9. CASE Flag \cap DOMAIN payload[c] = {}
  <2>1. \A f \in Flag : lamp'[f] = lamp[f]
    BY <1>3, <1>9
  <2>2. ModesApart'
    BY <1>1, <2>1, Apart DEF ModesApart
  <2>3. OffIsOff'
    <3> SUFFICES ASSUME ~ crossed, NEW d \in Caller, ModeCall(d)
                 PROVE  LET off == OffFlag(call[d].to) IN
                        /\ step[d] = 1 /\ task'[d] = "written" => lamp'[off] = 0
                        /\ step[d] = 1 /\ task'[d] \in Busy /\ off \in fresh[d]
                              => lamp'[off] \in {0, mirror[off]}
                        /\ (step[d] = 1 /\ task'[d] = "done") \/ step[d] \in 2..3
                              => lamp'[off] = 0
      BY <1>2, <1>5 DEF OffIsOff
    <3>1. d = c => step[d] # 1
      <4> SUFFICES ASSUME d = c, step[c] = 1 PROVE FALSE
        OBVIOUS
      <4>1. payload[c] = First(call[c].to)
        BY <1>1, <1>4 DEF FlagsWritten
      <4> QED
        BY <1>6, <1>9, <4>1, FlagsAre
    <3>2. lamp'[OffFlag(call[d].to)] = lamp[OffFlag(call[d].to)]
      BY <1>6, <2>1
    <3> QED
      BY <1>1, <1>4, <3>1, <3>2 DEF OffIsOff
  <2> QED
    BY <1>7, <1>8, <2>2, <2>3 DEF SInv
<1>10. CASE Flag \cap DOMAIN payload[c] # {}
  <2>1. ModeCall(c) /\ step[c] \in 1..2
    BY <1>1, <1>4, <1>10 DEF FlagsWritten
  <2> DEFINE off == OffFlag(call[c].to)
  <2>2. CASE step[c] = 1
    <3>1. payload[c] = First(call[c].to)
      BY <1>1, <1>4, <2>1, <2>2 DEF FlagsWritten
    <3>2. DOMAIN payload[c] = {off} /\ payload[c][off] = 0
      BY <1>6, <2>1, <3>1, FlagsAre
    <3>3. lamp'[off] = 0 /\ \A f \in Flag : f # off => lamp'[f] = lamp[f]
      BY <1>3, <1>6, <2>1, <3>2
    <3> QED
      <4>1. ModesApart'
        BY <1>1, <1>6, <2>1, <3>3, Apart DEF ModesApart
      <4>2. OffIsOff'
        BY <1>1, <1>2, <1>4, <1>5, <2>1, <3>3 DEF OffIsOff, OneMode
      <4> QED
        BY <1>7, <1>8, <4>1, <4>2 DEF SInv
  <2>3. CASE step[c] = 2
    <3>1. payload[c] = Second(call[c].to)
      BY <1>1, <1>4, <2>1, <2>3 DEF FlagsWritten
    <3>2. off \in DOMAIN payload[c] => payload[c][off] = 0
      BY <1>6, <2>1, <3>1, FlagsAre
    <3>3. ~ crossed => lamp[off] = 0
      BY <1>1, <2>1, <2>3 DEF OffIsOff
    <3>4. ~ crossed => lamp'[off] = 0
      BY <1>3, <1>6, <2>1, <3>2, <3>3
    <3> QED
      <4>1. ModesApart'
        BY <1>6, <2>1, <3>4, Apart DEF ModesApart
      <4>2. OffIsOff'
        BY <1>1, <1>2, <1>4, <1>5, <2>1, <2>3, <3>4 DEF OffIsOff, OneMode
      <4> QED
        BY <1>7, <1>8, <4>1, <4>2 DEF SInv
  <2> QED
    BY <2>1, <2>2, <2>3
<1> QED
  BY <1>9, <1>10

\* A command is over: acknowledged, or vouched for by a report.  What it wrote the
\* lamp had, and of the flag that it turned off it has said that it is.
LEMMA DoneKeeps ==
  ASSUME SInv, NEW c \in Caller, Acked(c) \/ Vouched(c), D!DInv',
         UNCHANGED <<call, step, desired, crossed>>
  PROVE  SInv'
<1>1. /\ D!DInv /\ Typed /\ Asked /\ RampRemembered /\ RampAsked /\ FlagsWritten
      /\ OneMode /\ OffIsOff /\ ModesApart
  BY DEF SInv
<1>2. /\ task[c] \in {"written", "unsure"}
      /\ task' = [task EXCEPT ![c] = "done"]
      /\ payload' = [payload EXCEPT ![c] = <<>>]
      /\ fresh' = [fresh EXCEPT ![c] = {}]
      /\ UNCHANGED <<lamp, ever>>
  BY DEF Acked, Vouched, Over, Goes
<1>3. /\ task'[c] = "done" /\ task[c] \in Busy
      /\ \A d \in Caller \ {c} : /\ task'[d] = task[d] /\ payload'[d] = payload[d]
                                 /\ fresh'[d] = fresh[d]
  BY <1>1, <1>2, OfTheDelivery DEF Busy, Under
<1>4. task'[c] \notin Busy
  BY <1>3 DEF Busy, Under
<1>5. \A d \in Caller : ModeCall(d)' <=> ModeCall(d)
  BY DEF ModeCall
<1>6. Typed' /\ RampRemembered' /\ OneMode' /\ ModesApart'
  BY <1>1, <1>2, <1>5 DEF Typed, RampRemembered, OneMode, ModesApart
<1>7. Asked' /\ FlagsWritten'
  BY <1>1, <1>3, <1>4, <1>5 DEF Asked, FlagsWritten
\* What it set the lamp had.
<1>8. \A k \in DOMAIN payload[c] \cap Setting : payload[c][k] \in ever[k]
  <2>1. CASE Acked(c)
    BY <1>1, <2>1, OfTheDelivery DEF Acked
  <2>2. CASE Vouched(c)
    <3>1. DOMAIN payload[c] \cap Setting \subseteq Agree(payload[c], mirror)
      BY <2>2 DEF Vouched, Tracked
    <3>2. \A k \in DOMAIN payload[c] \cap Setting : mirror[k] = payload[c][k]
      BY <3>1 DEF Agree
    <3>3. payload[c] \in D!Payload \cup {<<>>}
      BY <1>1, OfTheDelivery
    <3>4. \A k \in DOMAIN payload[c] : payload[c][k] # None
      BY <3>3, SettingsAssumption DEF D!Payload
    <3> QED
      BY <1>1, <3>2, <3>4, OfTheDelivery
  <2> QED
    BY <2>1, <2>2
<1>9. RampAsked'
  BY <1>1, <1>2, <1>3, <1>4, <1>8, Apart DEF RampAsked
<1>10. ~ crossed /\ ModeCall(c) /\ step[c] = 1 => lamp[OffFlag(call[c].to)] = 0
  <2> SUFFICES ASSUME ~ crossed, ModeCall(c), step[c] = 1
               PROVE  lamp[OffFlag(call[c].to)] = 0
    OBVIOUS
  <2> DEFINE off == OffFlag(call[c].to)
  <2>1. off \in Setting /\ DOMAIN payload[c] = {off} /\ payload[c][off] = 0
    BY <1>1, <1>3, FlagsAre, WhatIsAsked, Apart DEF FlagsWritten, Typed, ModeCall
  <2>2. CASE Acked(c)
    BY <1>1, <2>2 DEF Acked, OffIsOff
  <2>3. CASE Vouched(c)
    <3>1. off \in fresh[c] /\ mirror[off] = 0
      BY <2>1, <2>3 DEF Vouched, Tracked, Agree
    <3> QED
      BY <1>1, <1>3, <3>1 DEF OffIsOff
  <2> QED
    BY <2>2, <2>3
<1>11. OffIsOff'
  <2> SUFFICES ASSUME ~ crossed, NEW d \in Caller, ModeCall(d)
               PROVE  LET off == OffFlag(call[d].to) IN
                      /\ step[d] = 1 /\ task'[d] = "written" => lamp[off] = 0
                      /\ step[d] = 1 /\ task'[d] \in Busy /\ off \in fresh'[d]
                            => lamp[off] \in {0, mirror'[off]}
                      /\ (step[d] = 1 /\ task'[d] = "done") \/ step[d] \in 2..3
                            => lamp[off] = 0
    BY <1>2, <1>5 DEF OffIsOff
  <2>1. CASE d = c
    BY <1>1, <1>3, <1>4, <1>10, <2>1 DEF OffIsOff
  <2>2. CASE d # c
    <3>1. ~ ModeCall(c)
      BY <1>1, <2>2 DEF OneMode
    <3>2. Flag \cap DOMAIN payload[c] = {}
      BY <1>1, <1>3, <3>1 DEF FlagsWritten
    <3>3. OffFlag(call[d].to) \in Setting /\ OffFlag(call[d].to) \notin DOMAIN payload[c]
      BY <1>1, <3>2, FlagsAre, WhatIsAsked, Apart DEF Typed, ModeCall
    <3>4. mirror'[OffFlag(call[d].to)] = mirror[OffFlag(call[d].to)]
      BY <3>3 DEF Acked, Vouched, With
    <3> QED
      BY <1>1, <1>3, <2>2, <3>4 DEF OffIsOff
  <2> QED
    BY <2>1, <2>2
<1> QED
  BY <1>6, <1>7, <1>9, <1>11 DEF SInv

LEMMA DeliversKeeps ==
  ASSUME SInv, NEW c \in Caller, Delivers(c)
  PROVE  SInv'
<1>1. D!DInv /\ Typed
  BY DEF SInv
<1>2. Sending(c) \/ Outcome(c)
  BY DEF Delivers
<1>3. D!DInv'
  BY <1>1, <1>2, SameSteps, DeliveryIsMet, D!StepKeepsInv DEF D!DNext
<1>4. UNCHANGED <<call, step, desired, crossed>>
  BY DEF Delivers
<1>5. CASE Reaches(c)
  BY <1>3, <1>4, <1>5, ReachesKeeps
<1>6. CASE Acked(c) \/ Vouched(c)
  BY <1>3, <1>4, <1>6, DoneKeeps
<1>7. CASE Granted(c) \/ Put(c) \/ TriedAgain(c)
  <2>1. \E t \in {"trying", "put"} :
           /\ task' = [task EXCEPT ![c] = t] /\ task[c] \in Busy
           /\ UNCHANGED <<lamp, mirror, payload, fresh, ever>>
    BY <1>7 DEF Granted, Put, TriedAgain, Goes, histories, Busy, Under
  <2> QED
    BY <1>3, <1>4, <2>1, MovesKeep DEF Busy, Under
<1>8. CASE WriteFails(c) /\ said[c]
  <2>1. /\ task' = [task EXCEPT ![c] = "unsure"] /\ task[c] \in Busy
        /\ UNCHANGED <<lamp, mirror, payload, fresh, ever>>
    BY <1>8 DEF WriteFails, Goes, Busy, Under
  <2> QED
    BY <1>3, <1>4, <2>1, MovesKeep DEF Busy, Under
<1>9. CASE (WriteFails(c) /\ ~ said[c]) \/ NotVouched(c)
  <2>1. /\ task' = [task EXCEPT ![c] = "failed"]
        /\ payload' = [payload EXCEPT ![c] = <<>>] /\ fresh' = [fresh EXCEPT ![c] = {}]
        /\ UNCHANGED <<lamp, mirror, ever>>
    BY <1>9 DEF WriteFails, NotVouched, Over, Goes
  <2>2. \A d \in Caller \ {c} : payload'[d] = payload[d] /\ fresh'[d] = fresh[d]
    BY <1>1, <2>1, OfTheDelivery
  <2> QED
    BY <1>3, <1>4, <2>1, <2>2, MovesKeep
<1> QED
  BY <1>2, <1>5, <1>6, <1>7, <1>8, <1>9 DEF Sending, Outcome

LEMMA NextKeepsSInv == SInv /\ [SNext]_svars => SInv'
<1>1. ASSUME SInv, SNext PROVE SInv'
  BY <1>1, CalledKeeps, NextOfModeKeeps, ReturnsKeeps, IngestKeeps, DeliversKeeps DEF SNext
<1>2. ASSUME SInv, UNCHANGED svars PROVE SInv'
  <2>1. UNCHANGED <<lamp, mirror, lock, task, payload, left, said, fresh, had, ever,
                    call, step, desired, crossed>>
    BY <1>2 DEF svars, delivery
  <2>2. D!DInv'
    BY <1>2, <2>1
       DEF SInv, D!DInv, D!TypeOK, D!MirrorIsTheLamps, D!LockedWhileWritten, D!Agree
  <2> QED
    BY <1>2, <2>1, <2>2
       DEF SInv, Typed, Asked, RampRemembered, RampAsked, FlagsWritten, OneMode, OffIsOff,
           ModesApart, ModeCall
<1> QED
  BY <1>1, <1>2

-----------------------------------------------------------------------------
(* A call that is alone, and knows all of the lamp. *)

Alone(c)  == before[c] # None /\ call[c] # None
AtLamp(c) == task[c] \in {"written", "done"}

\* The flag that a call for mode m writes last, and what it then says.
OnFlag(m) == IF m = "circadian" THEN "circadian" ELSE "schedule"
OnSays(m) == IF m = "manual" THEN 0 ELSE 1

\* What a call o of one command writes, of what it found: the lamp b, and the
\* ramp r remembered.
Sets(o, b, r) ==
    CASE o.op = "lighting" -> Lighting(o.to, IF r = None THEN RampDefault ELSE r)
      [] o.op = "ramp"     -> Lighting(b["lighting"], o.to)
      [] o.op = "slot"     -> [f \in Field |-> IF f = o.field THEN o.to ELSE b[f]]

\* Such a call changes nothing but what it writes.
OneOnItsWay(c) ==
    LET b == before[c].lamp
        p == Sets(call[c], b, before[c].ramp)
    IN  /\ task[c] \in Busy => payload[c] = p
        /\ \A k \in Setting \ DOMAIN p : lamp[k] = b[k]
        /\ AtLamp(c) => \A k \in DOMAIN p : lamp[k] = p[k]

\* A call for a mode: how far it is with the flags, and what it leaves alone.
ModeOnItsWay(c) ==
    LET m == call[c].to
        b == before[c].lamp
        r == before[c].ramp
    IN  /\ \A k \in {"lighting"} \cup Field : lamp[k] = b[k]
        /\ mirror["lighting"] = b["lighting"]
        /\ lamp["ramp"] = b["ramp"] \/ m = "circadian"
        /\ r # None => desired = r
        /\ AtLamp(c) \/ step[c] # 1 => lamp[OffFlag(m)] = 0
        /\ step[c] = 3 \/ (step[c] = 2 /\ AtLamp(c)) => lamp[OnFlag(m)] = OnSays(m)
        /\ step[c] = 3 =>
              /\ m = "circadian"
              /\ task[c] \in Busy => /\ DOMAIN payload[c] = {"lighting", "ramp"}
                                     /\ payload[c]["lighting"] = b["lighting"]
                                     /\ r # None => payload[c]["ramp"] = r
              /\ AtLamp(c) /\ r # None => lamp["ramp"] = r

\* While one is alone it is the only one, and on its way to what was asked.
AInv ==
    /\ before \in [Caller -> [lamp : [Setting -> 0..1], ramp : 0..1 \cup {None}] \cup {None}]
    /\ \A c \in Caller : Alone(c) =>
          /\ UnderWay = {c}
          /\ IF ModeCall(c) THEN ModeOnItsWay(c) ELSE OneOnItsWay(c)

\* What the lamp is once it has acted on p: Circadian, turned on, resets the ramp.
LEMMA ActedExactly ==
  ASSUME NEW p, NEW k \in Setting
  PROVE  Acted(p)[k] =
            IF k \in DOMAIN p THEN p[k]
            ELSE IF k = "ramp" /\ "circadian" \in DOMAIN p /\ p["circadian"] = 1
                 THEN RampDefault
                 ELSE lamp[k]
BY DEF Acted

\* The two commands of a mode's flags, by the flags they are for.
LEMMA FlagsOfAMode ==
  ASSUME NEW m \in Mode
  PROVE  /\ DOMAIN First(m) = {OffFlag(m)} /\ First(m)[OffFlag(m)] = 0
         /\ DOMAIN Second(m) = {OnFlag(m)} /\ Second(m)[OnFlag(m)] = OnSays(m)
         /\ OffFlag(m) # OnFlag(m) /\ {OffFlag(m), OnFlag(m)} = Flag
         /\ OnFlag(m) = "circadian" => m = "circadian"
<1>1. \A f \in Flag, v \in 0..1 : DOMAIN Only(f, v) = {f} /\ Only(f, v)[f] = v
  BY DEF Only
<1> QED
  BY <1>1 DEF First, Second, OffFlag, OnFlag, OnSays, Mode, Flag

\* A flag of a mode is neither a setting of the lighting nor a field of the slot.
LEMMA FlagsAreApart ==
  ASSUME NEW m \in Mode
  PROVE  \A f \in {OffFlag(m), OnFlag(m)} : f \notin {"lighting", "ramp"} \cup Field
<1>1. OffFlag(m) \in Flag /\ OnFlag(m) \in Flag
  BY FlagsOfAMode
<1>2. Flag \cap Field = {} /\ Flag \cap {"lighting", "ramp"} = {}
  BY Apart
<1> QED
  BY <1>1, <1>2

\* A call that finds the mirror to be as the lamp is builds its command on the lamp.
LEMMA BuiltOnTheLamp ==
  ASSUME NEW o \in Ask, o.op # "mode", mirror = lamp
  PROVE  Command(o) = Sets(o, lamp, desired)
BY WhatIsAsked DEF Command, Sets, Ramp

LEMMA InitAInv == SInit => AInv
BY DEF SInit, AInv, Alone

\* A call is made: alone it is only where no other is under way, and no other that
\* is is alone from then on.
LEMMA CalledAlone ==
  ASSUME SInv, AInv, NEW c \in Caller, NEW o \in Ask, Called(c, o)
  PROVE  AInv'
<1>1. /\ Known(Needs(o)) /\ TakeUp(c, Command(o))
      /\ call' = [call EXCEPT ![c] = o]
      /\ step' = [step EXCEPT ![c] = 1]
      /\ before' = [d \in Caller |-> IF d = c /\ UnderWay = {} /\ mirror = lamp
                                     THEN [lamp |-> lamp, ramp |-> desired] ELSE None]
      /\ desired' = desired
  BY DEF Called
<1>2. D!DInv /\ Typed
  BY DEF SInv
<1>3. lamp \in [Setting -> 0..1] /\ desired \in 0..1 \cup {None}
  BY <1>2, OfTheDelivery DEF Typed
<1>4. /\ UNCHANGED <<lamp, mirror>>
      /\ task'[c] = "queued" /\ payload'[c] = Command(o)
  BY <1>1, <1>2, CommandIs, TakeUpIs
<1>5. before' \in [Caller -> [lamp : [Setting -> 0..1], ramp : 0..1 \cup {None}] \cup {None}]
  BY <1>1, <1>3
<1>6. ASSUME NEW d \in Caller, Alone(d)'
      PROVE  /\ UnderWay' = {d}
             /\ IF ModeCall(d)' THEN ModeOnItsWay(d)' ELSE OneOnItsWay(d)'
  <2>1. d = c /\ UnderWay = {} /\ mirror = lamp
    BY <1>1, <1>6 DEF Alone
  <2>2. before'[c] = [lamp |-> lamp, ramp |-> desired]
    BY <1>1, <2>1
  <2>3. call'[c] = o /\ step'[c] = 1 /\ o # None
    BY <1>1, <1>2, WhatIsAsked DEF Typed
  <2>4. UnderWay' = {c}
    BY <1>1, <1>2, <2>1, <2>3 DEF UnderWay, Typed
  <2>5. ~ AtLamp(c)'
    BY <1>4 DEF AtLamp
  <2>6. CASE o.op = "mode"
    <3>1. ModeOnItsWay(c)'
      BY <1>1, <1>4, <2>1, <2>2, <2>3, <2>5 DEF ModeOnItsWay
    <3> QED
      BY <2>1, <2>3, <2>4, <2>6, <3>1 DEF ModeCall
  <2>7. CASE o.op # "mode"
    <3>1. payload'[c] = Sets(o, lamp, desired)
      BY <1>4, <2>1, <2>7, BuiltOnTheLamp
    <3>2. /\ call'[c] = o /\ before'[c].lamp = lamp /\ before'[c].ramp = desired
          /\ before'[c].lamp = lamp'
      BY <1>4, <2>2, <2>3
    <3>3. Sets(call[c], before[c].lamp, before[c].ramp)' = Sets(o, lamp, desired)
      BY <3>2, Zenon DEF Sets, Lighting
    <3>4. OneOnItsWay(c)'
      BY <1>4, <2>5, <3>1, <3>2, <3>3 DEF OneOnItsWay
    <3> QED
      BY <2>1, <2>3, <2>4, <2>7, <3>4 DEF ModeCall
  <2> QED
    BY <2>6, <2>7
<1> QED
  BY <1>5, <1>6 DEF AInv

\* A call for a mode goes on: with the other flag, then with the ramp.
LEMMA NextOfModeAlone ==
  ASSUME SInv, AInv, NEW c \in Caller, NextOfMode(c)
  PROVE  AInv'
<1>1. /\ task[c] = "done" /\ call[c] # None /\ call[c].op = "mode"
      /\ step' = [step EXCEPT ![c] = @ + 1]
      /\ UNCHANGED <<call, desired, before>>
  BY DEF NextOfMode
<1>2. D!DInv /\ Typed
  BY DEF SInv
<1>3. PICK p \in D!Payload :
         /\ TakeUp(c, p)
         /\ \/ step[c] = 1
            \/ /\ step[c] = 2 /\ call[c].to = "circadian" /\ desired # None
               /\ p = Lighting(mirror["lighting"], Ramp)
  <2>1. call[c] \in Ask /\ call[c].to \in Mode
    BY <1>1, <1>2, WhatIsAsked DEF Typed
  <2>2. Second(call[c].to) \in D!Payload
    BY <2>1, FlagsAre
  <2>3. Known({"lighting"}) => Lighting(mirror["lighting"], Ramp) \in D!Payload
    <3>1. Known({"lighting"}) => mirror["lighting"] \in 0..1 /\ Ramp \in 0..1
      BY <1>2, OfTheDelivery, Apart DEF Known, Ramp, RampDefault, Typed
    <3> QED
      BY <3>1, LightingIs
  <2> QED
    BY <2>2, <2>3 DEF NextOfMode
<1>4. /\ UNCHANGED <<lamp, mirror>>
      /\ task'[c] = "queued" /\ payload'[c] = p
  BY <1>2, <1>3, TakeUpIs
<1>5. ASSUME NEW d \in Caller, Alone(d)'
      PROVE  /\ UnderWay' = {d}
             /\ IF ModeCall(d)' THEN ModeOnItsWay(d)' ELSE OneOnItsWay(d)'
  <2>1. Alone(d) /\ UnderWay = {d}
    BY <1>1, <1>5 DEF Alone, AInv
  <2>2. d = c
    BY <1>1, <2>1 DEF UnderWay
  <2>3. UnderWay' = {d}
    BY <1>1, <2>1 DEF UnderWay
  <2>4. ModeOnItsWay(c) /\ ModeCall(c)
    BY <1>1, <2>1, <2>2 DEF AInv, ModeCall
  <2>5. step'[c] = step[c] + 1 /\ step[c] \in 1..2 /\ AtLamp(c) /\ ~ AtLamp(c)'
    BY <1>1, <1>2, <1>3, <1>4 DEF Typed, AtLamp
  <2>6. step[c] = 2 => /\ DOMAIN p = {"lighting", "ramp"} /\ p["lighting"] = mirror["lighting"]
                       /\ p["ramp"] = desired
    BY <1>3 DEF Lighting, Ramp
  <2>7. ModeOnItsWay(c)'
    BY <1>1, <1>3, <1>4, <2>4, <2>5, <2>6 DEF ModeOnItsWay
  <2> QED
    BY <1>1, <2>2, <2>3, <2>4, <2>7 DEF ModeCall
<1> QED
  BY <1>1, <1>5 DEF AInv

\* A call returns, or raises: only one that is alone has one beside it that is not.
LEMMA ReturnsAlone ==
  ASSUME SInv, AInv, NEW c \in Caller, Done(c) \/ Raises(c)
  PROVE  AInv'
<1>1. call[c] # None /\ call' = [call EXCEPT ![c] = None] /\ UNCHANGED before
  BY DEF Done, Raises, Returns
<1>2. \A d \in Caller : ~ Alone(d)'
  <2> SUFFICES ASSUME NEW d \in Caller, Alone(d)' PROVE FALSE
    OBVIOUS
  <2>1. d # c /\ Alone(d)
    BY <1>1 DEF Alone, SInv, Typed
  <2>2. UnderWay = {d}
    BY <2>1 DEF AInv
  <2> QED
    BY <1>1, <2>1, <2>2 DEF UnderWay
<1> QED
  BY <1>1, <1>2 DEF AInv

\* A report: of the lamp it says what it is, and a ramp that is remembered stays.
LEMMA IngestAlone ==
  ASSUME SInv, AInv, Ingest
  PROVE  AInv'
<1>1. PICK K \in Carried :
         mirror' = [k \in Setting |-> IF k \in K THEN lamp[k] ELSE mirror[k]]
  BY DEF Ingest, Report
<1>2. /\ UNCHANGED <<lamp, task, payload, call, step, before>>
      /\ desired # None => desired' = desired
  BY DEF Ingest, Report
<1>3. ASSUME NEW c \in Caller, Alone(c)'
      PROVE  /\ UnderWay' = {c}
             /\ IF ModeCall(c)' THEN ModeOnItsWay(c)' ELSE OneOnItsWay(c)'
  <2>1. /\ Alone(c) /\ UnderWay = {c}
        /\ IF ModeCall(c) THEN ModeOnItsWay(c) ELSE OneOnItsWay(c)
    BY <1>2, <1>3 DEF Alone, AInv
  <2>2. UnderWay' = {c} /\ (ModeCall(c)' <=> ModeCall(c))
    BY <1>2, <2>1 DEF UnderWay, ModeCall
  <2>3. ModeOnItsWay(c) => ModeOnItsWay(c)'
    <3>1. "lighting" \in Setting
      BY Apart
    <3> QED
      BY <1>1, <1>2, <3>1 DEF ModeOnItsWay, AtLamp
  <2>4. OneOnItsWay(c) => OneOnItsWay(c)'
    BY <1>2 DEF OneOnItsWay, AtLamp
  <2> QED
    BY <2>1, <2>2, <2>3, <2>4
<1> QED
  BY <1>2, <1>3 DEF AInv

\* The command that is alone at the lamp is acted on.
LEMMA ReachesOnItsWay ==
  ASSUME SInv, AInv, NEW c \in Caller, Alone(c), Reaches(c),
         UNCHANGED <<call, step, desired, before>>
  PROVE  IF ModeCall(c) THEN ModeOnItsWay(c)' ELSE OneOnItsWay(c)'
<1>1. /\ task[c] \in Busy /\ ~ AtLamp(c)
      /\ lamp' = Acted(payload[c])
      /\ UNCHANGED <<mirror, payload>>
  BY DEF Reaches, Becomes, Busy, Under, AtLamp
<1>2. FlagsWritten /\ Typed
  BY DEF SInv
<1>3. CASE ~ ModeCall(c)
  <2>1. OneOnItsWay(c)
    BY <1>3 DEF AInv
  <2> DEFINE p == Sets(call[c], before[c].lamp, before[c].ramp)
  <2>2. payload[c] = p
    BY <1>1, <2>1 DEF OneOnItsWay
  <2>3. Flag \cap DOMAIN p = {}
    BY <1>1, <1>2, <1>3, <2>2 DEF FlagsWritten
  <2>4. \A k \in Setting : lamp'[k] = IF k \in DOMAIN p THEN p[k] ELSE lamp[k]
    BY <1>1, <2>2, <2>3, ActedExactly, Apart
  <2>5. DOMAIN p \subseteq Setting
    BY <1>3, WhatIsAsked DEF Sets, Lighting, Setting, Alone, ModeCall, Typed, SInv
  <2>6. p' = p
    BY DEF Sets, Lighting
  <2>7. OneOnItsWay(c)'
    BY <1>1, <2>1, <2>2, <2>4, <2>5, <2>6 DEF OneOnItsWay
  <2> QED
    BY <1>3, <2>7
<1>4. CASE ModeCall(c)
  <2> DEFINE m == call[c].to
             b == before[c].lamp
  <2>1. ModeOnItsWay(c)
    BY <1>4 DEF AInv
  <2>2. m \in Mode /\ step[c] \in 1..3
    BY <1>2, <1>4, WhatIsAsked DEF Typed, ModeCall, FlagsWritten
  <2>3. {"lighting", "ramp", OffFlag(m), OnFlag(m)} \cup Field \subseteq Setting
    BY <2>2, FlagsOfAMode, Apart DEF Setting
  <2>4. CASE step[c] = 1
    <3>1. DOMAIN payload[c] = {OffFlag(m)} /\ payload[c][OffFlag(m)] = 0
      BY <1>1, <1>2, <1>4, <2>2, <2>4, FlagsOfAMode DEF FlagsWritten
    <3>2. \A k \in Setting : lamp'[k] = IF k = OffFlag(m) THEN 0 ELSE lamp[k]
      BY <1>1, <3>1, ActedExactly
    <3>3. OffFlag(m) \notin {"lighting", "ramp"} \cup Field
      BY <2>2, FlagsAreApart
    <3>4. ModeOnItsWay(c)'
      BY <1>1, <2>1, <2>3, <2>4, <3>2, <3>3 DEF ModeOnItsWay
    <3> QED
      BY <1>4, <3>4
  <2>5. CASE step[c] = 2
    <3>1. DOMAIN payload[c] = {OnFlag(m)} /\ payload[c][OnFlag(m)] = OnSays(m)
      BY <1>1, <1>2, <1>4, <2>2, <2>5, FlagsOfAMode DEF FlagsWritten
    <3>2. OnFlag(m) \notin {"lighting", "ramp"} \cup Field /\ OffFlag(m) # OnFlag(m)
          /\ OffFlag(m) # "ramp" /\ (OnFlag(m) = "circadian" => m = "circadian")
      BY <2>2, FlagsOfAMode, FlagsAreApart
    <3>3. /\ lamp'[OnFlag(m)] = OnSays(m) /\ lamp'[OffFlag(m)] = lamp[OffFlag(m)]
          /\ \A k \in {"lighting"} \cup Field : lamp'[k] = lamp[k]
          /\ lamp'["ramp"] = lamp["ramp"] \/ m = "circadian"
      BY <1>1, <2>3, <3>1, <3>2, ActedExactly, Apart
    <3>4. lamp[OffFlag(m)] = 0 /\ (before[c].ramp # None => desired = before[c].ramp)
      BY <2>1, <2>5 DEF ModeOnItsWay
    <3>5. lamp'["ramp"] = b["ramp"] \/ m = "circadian"
      BY <2>1, <3>3 DEF ModeOnItsWay
    <3>6. (\A k \in {"lighting"} \cup Field : lamp'[k] = b[k]) /\ mirror'["lighting"] = b["lighting"]
      BY <1>1, <2>1, <3>3 DEF ModeOnItsWay
    <3>7. step'[c] = 2
      BY <2>5
    <3>8. ModeOnItsWay(c)'
      BY <3>3, <3>4, <3>5, <3>6, <3>7 DEF ModeOnItsWay
    <3> QED
      BY <1>4, <3>8
  <2>6. CASE step[c] = 3
    <3>1. /\ m = "circadian"
          /\ DOMAIN payload[c] = {"lighting", "ramp"}
          /\ payload[c]["lighting"] = b["lighting"]
          /\ before[c].ramp # None => payload[c]["ramp"] = before[c].ramp
      BY <1>1, <2>1, <2>6 DEF ModeOnItsWay
    <3>2. \A k \in Setting : lamp'[k] = IF k \in {"lighting", "ramp"} THEN payload[c][k] ELSE lamp[k]
      BY <1>1, <3>1, ActedExactly
    <3>3. {OffFlag(m), OnFlag(m)} \cap {"lighting", "ramp"} = {} /\ "ramp" \notin Field
      BY <2>2, FlagsAreApart, Apart
    <3>4. /\ lamp[OffFlag(m)] = 0 /\ lamp[OnFlag(m)] = OnSays(m)
          /\ before[c].ramp # None => desired = before[c].ramp
      BY <2>1, <2>6 DEF ModeOnItsWay
    <3>5. \A k \in Field : lamp[k] = b[k]
      BY <2>1 DEF ModeOnItsWay
    <3>6. /\ lamp'[OffFlag(m)] = 0 /\ lamp'[OnFlag(m)] = OnSays(m)
          /\ \A k \in Field : lamp'[k] = b[k]
          /\ lamp'["lighting"] = b["lighting"]
          /\ before[c].ramp # None => lamp'["ramp"] = before[c].ramp
      BY <2>3, <3>1, <3>2, <3>3, <3>4, <3>5, Apart
    <3>7. mirror'["lighting"] = b["lighting"] /\ step'[c] = 3 /\ payload' = payload
      BY <1>1, <2>1, <2>6 DEF ModeOnItsWay
    <3>8. ModeOnItsWay(c)'
      BY <3>1, <3>4, <3>6, <3>7 DEF ModeOnItsWay
    <3> QED
      BY <1>4, <3>8
  <2> QED
    BY <2>2, <2>4, <2>5, <2>6
<1> QED
  BY <1>3, <1>4

\* It is acknowledged, and so echoed.
LEMMA AckedOnItsWay ==
  ASSUME SInv, AInv, NEW c \in Caller, Alone(c), Acked(c),
         UNCHANGED <<call, step, desired, before>>
  PROVE  IF ModeCall(c) THEN ModeOnItsWay(c)' ELSE OneOnItsWay(c)'
<1>1. /\ task[c] = "written" /\ task[c] \in Busy /\ AtLamp(c)
      /\ task'[c] = "done"
      /\ mirror' = [k \in Setting |-> IF k \in DOMAIN payload[c] THEN payload[c][k] ELSE mirror[k]]
      /\ lamp' = lamp
  BY OfTheDelivery DEF SInv, Acked, With, Over, Goes, Busy, Under, AtLamp
<1>2. task'[c] \notin Busy
  BY <1>1 DEF Busy, Under
<1>3. CASE ~ ModeCall(c)
  <2>1. OneOnItsWay(c)
    BY <1>3 DEF AInv
  <2>2. OneOnItsWay(c)'
    BY <1>1, <1>2, <2>1 DEF OneOnItsWay, Sets, Lighting
  <2> QED
    BY <1>3, <2>2
<1>4. CASE ModeCall(c)
  <2>1. ModeOnItsWay(c)
    BY <1>4 DEF AInv
  <2>2. mirror'["lighting"] = before[c].lamp["lighting"]
    <3>1. call[c].to \in Mode /\ step[c] \in 1..3
      BY <1>4, WhatIsAsked DEF Typed, ModeCall, FlagsWritten, SInv
    <3>2. CASE step[c] \in 1..2
      <4>1. payload[c] \in {First(call[c].to), Second(call[c].to)}
        BY <1>1, <1>4, <3>2 DEF SInv, FlagsWritten
      <4>2. "lighting" \notin {OffFlag(call[c].to), OnFlag(call[c].to)}
        BY <3>1, FlagsAreApart
      <4>3. "lighting" \notin DOMAIN payload[c]
        BY <3>1, <4>1, <4>2, FlagsOfAMode
      <4> QED
        BY <1>1, <2>1, <4>3, Apart DEF ModeOnItsWay
    <3>3. CASE step[c] = 3
      BY <1>1, <2>1, <3>3, Apart DEF ModeOnItsWay
    <3> QED
      BY <3>1, <3>2, <3>3
  <2>3. ModeOnItsWay(c)'
    BY <1>1, <1>2, <2>1, <2>2 DEF ModeOnItsWay, AtLamp
  <2> QED
    BY <1>4, <2>3
<1> QED
  BY <1>3, <1>4

\* It gets on without the lamp, or fails.
LEMMA MovesOnItsWay ==
  ASSUME SInv, AInv, NEW c \in Caller, Alone(c),
         Granted(c) \/ Put(c) \/ TriedAgain(c) \/ WriteFails(c) \/ NotVouched(c),
         UNCHANGED <<call, step, desired, before>>
  PROVE  IF ModeCall(c) THEN ModeOnItsWay(c)' ELSE OneOnItsWay(c)'
<1>1. /\ task[c] \in Busy /\ ~ AtLamp(c)'
      /\ task'[c] \in Busy => payload'[c] = payload[c]
      /\ UNCHANGED <<lamp, mirror>>
  <2>1. task \in [Caller -> Busy \cup Rest] /\ payload \in [Caller -> D!Payload \cup {<<>>}]
    BY OfTheDelivery DEF SInv
  <2>2. CASE Granted(c) \/ Put(c) \/ TriedAgain(c)
    BY <2>1, <2>2 DEF Granted, Put, TriedAgain, Goes, Busy, Under, AtLamp, histories
  <2>3. CASE WriteFails(c) \/ NotVouched(c)
    BY <2>1, <2>3 DEF WriteFails, NotVouched, Over, Goes, Busy, Under, AtLamp
  <2> QED
    BY <2>2, <2>3
<1>2. CASE ~ ModeCall(c)
  <2>1. OneOnItsWay(c)
    BY <1>2 DEF AInv
  <2>2. OneOnItsWay(c)'
    BY <1>1, <2>1 DEF OneOnItsWay, Sets, Lighting
  <2> QED
    BY <1>2, <2>2
<1>3. CASE ModeCall(c)
  <2>1. ModeOnItsWay(c)
    BY <1>3 DEF AInv
  <2>2. ModeOnItsWay(c)'
    BY <1>1, <2>1 DEF ModeOnItsWay
  <2> QED
    BY <1>3, <2>2
<1> QED
  BY <1>2, <1>3

LEMMA DeliversAlone ==
  ASSUME SInv, AInv, NEW d \in Caller, Delivers(d)
  PROVE  AInv'
<1>1. /\ Sending(d) \/ Outcome(d)
      /\ before' = [before EXCEPT ![d] = IF Vouched(d) THEN None ELSE @]
      /\ UNCHANGED <<call, step, desired>>
  BY DEF Delivers
<1>2. task[d] \in Busy
  BY <1>1 DEF Sending, Outcome, Granted, Put, Reaches, TriedAgain, Acked, WriteFails, Vouched,
              NotVouched, Busy, Under
<1>3. before' \in [Caller -> [lamp : [Setting -> 0..1], ramp : 0..1 \cup {None}] \cup {None}]
  BY <1>1 DEF AInv
<1>4. ASSUME NEW c \in Caller, Alone(c)'
      PROVE  /\ UnderWay' = {c}
             /\ IF ModeCall(c)' THEN ModeOnItsWay(c)' ELSE OneOnItsWay(c)'
  <2>1. Alone(c)
    BY <1>1, <1>4 DEF Alone, AInv
  <2>2. UnderWay = {c} /\ UnderWay' = {c} /\ (ModeCall(c)' <=> ModeCall(c))
    BY <1>1, <2>1 DEF UnderWay, ModeCall, AInv
  <2>3. d = c
    BY <1>2, <2>2 DEF SInv, Asked, UnderWay
  <2>4. ~ Vouched(c) /\ before' = before
    BY <1>1, <1>4, <2>3 DEF Alone, AInv
  <2>5. CASE Reaches(c)
    BY <1>1, <2>1, <2>2, <2>4, <2>5, ReachesOnItsWay
  <2>6. CASE Acked(c)
    BY <1>1, <2>1, <2>2, <2>4, <2>6, AckedOnItsWay
  <2>7. CASE Granted(c) \/ Put(c) \/ TriedAgain(c) \/ WriteFails(c) \/ NotVouched(c)
    BY <1>1, <2>1, <2>2, <2>4, <2>7, MovesOnItsWay
  <2> QED
    BY <1>1, <2>3, <2>4, <2>5, <2>6, <2>7 DEF Sending, Outcome
<1> QED
  BY <1>3, <1>4 DEF AInv

LEMMA NextKeepsAInv == SInv /\ AInv /\ [SNext]_svars => AInv'
<1>1. ASSUME SInv, AInv, SNext PROVE AInv'
  BY <1>1, CalledAlone, NextOfModeAlone, ReturnsAlone, IngestAlone, DeliversAlone DEF SNext
<1>2. ASSUME AInv, UNCHANGED svars PROVE AInv'
  <2>1. UNCHANGED <<lamp, mirror, task, payload, call, step, desired, before>>
    BY <1>2 DEF svars, delivery
  <2>2. UnderWay' = UnderWay
    BY <2>1 DEF UnderWay
  <2>3. ASSUME NEW c \in Caller, Alone(c)'
        PROVE  /\ UnderWay' = {c}
               /\ IF ModeCall(c)' THEN ModeOnItsWay(c)' ELSE OneOnItsWay(c)'
    <3>1. /\ UnderWay = {c}
          /\ IF ModeCall(c) THEN ModeOnItsWay(c) ELSE OneOnItsWay(c)
      BY <1>2, <2>1, <2>3 DEF AInv, Alone
    <3>2. ModeCall(c)' <=> ModeCall(c)
      BY <2>1 DEF ModeCall
    <3>3. ModeOnItsWay(c) => ModeOnItsWay(c)'
      BY <2>1 DEF ModeOnItsWay, AtLamp
    <3>4. OneOnItsWay(c) => OneOnItsWay(c)'
      BY <2>1 DEF OneOnItsWay, AtLamp, Sets, Lighting
    <3> QED
      BY <2>2, <3>1, <3>2, <3>3, <3>4
  <2> QED
    BY <1>2, <2>1, <2>3 DEF AInv
<1> QED
  BY <1>1, <1>2

-----------------------------------------------------------------------------
\* The inductive invariant of Settings: that of the delivery it is built on, and
\* what is known of each call and of its command.
THEOREM SettingsInvariant == SSpec => []SInv
<1> QED
  BY InitSInv, NextKeepsSInv, PTL DEF SSpec

\* The ramp that every lighting mode and every switch to Circadian puts back
\* (_desired_ramp) is one the lamp had: it is learnt from a report, or from a call
\* for a ramp that is done, and never from one that failed.
THEOREM RampIsTheLamps == SSpec => []RampRemembered
<1>1. SInv => RampRemembered
  BY DEF SInv
<1> QED
  BY <1>1, SettingsInvariant, PTL

\* Calls for an operating mode that do not cross never have the lamp in Circadian
\* and on its schedule at once (async_set_operating_mode), whichever of their
\* commands fails, is vouched for, or is interleaved with the commands of others.
THEOREM ModesStayApart == SSpec => []ModesApart
<1>1. SInv => ModesApart
  BY DEF SInv
<1> QED
  BY <1>1, SettingsInvariant, PTL

-----------------------------------------------------------------------------
\* A call of one command, alone: the lamp is as it asked once it is acted on.
LEMMA OneAsAsked ==
  ASSUME SInv, NEW c \in Caller, Alone(c), ~ ModeCall(c), OneOnItsWay(c), AtLamp(c),
         before[c] \in [lamp : [Setting -> 0..1], ramp : 0..1 \cup {None}]
  PROVE  lamp \in Wanted(call[c], before[c].lamp, before[c].ramp)
<1> DEFINE o == call[c]
           b == before[c].lamp
           r == before[c].ramp
<1>1. lamp \in [Setting -> 0..1] /\ b \in [Setting -> 0..1]
  BY OfTheDelivery DEF SInv
<1>2. o \in Ask /\ o.op # "mode"
  BY DEF Alone, ModeCall, SInv, Typed
<1>3. \A k \in Setting : lamp[k] = IF k \in DOMAIN Sets(o, b, r) THEN Sets(o, b, r)[k] ELSE b[k]
  BY DEF OneOnItsWay
<1>4. "lighting" \in Setting /\ "ramp" \in Setting /\ Field \subseteq Setting
  BY Apart DEF Setting
<1>5. CASE o.op = "lighting"
  <2> DEFINE v == IF r = None THEN RampDefault ELSE r
  <2>1. \A k \in Setting : lamp[k] = [b EXCEPT !["lighting"] = o.to, !["ramp"] = v][k]
    BY <1>1, <1>3, <1>4, <1>5 DEF Sets, Lighting
  <2>2. lamp = [b EXCEPT !["lighting"] = o.to, !["ramp"] = v]
    BY <1>1, <2>1
  <2> QED
    BY <1>5, <2>2 DEF Wanted
<1>6. CASE o.op = "ramp"
  <2>1. \A k \in Setting : lamp[k] = [b EXCEPT !["ramp"] = o.to][k]
    BY <1>1, <1>3, <1>4, <1>6 DEF Sets, Lighting
  <2>2. lamp = [b EXCEPT !["ramp"] = o.to]
    BY <1>1, <2>1
  <2> QED
    BY <1>6, <2>2 DEF Wanted
<1>7. CASE o.op = "slot"
  <2>1. \A k \in Setting : lamp[k] = [b EXCEPT ![o.field] = o.to][k]
    BY <1>1, <1>2, <1>3, <1>4, <1>7, WhatIsAsked DEF Sets
  <2>2. lamp = [b EXCEPT ![o.field] = o.to]
    BY <1>1, <2>1
  <2> QED
    BY <1>7, <2>2 DEF Wanted
<1> QED
  BY <1>2, <1>5, <1>6, <1>7, WhatIsAsked

\* A call for a mode, alone: the lamp is in the mode once its last command is done.
LEMMA ModeAsAsked ==
  ASSUME SInv, NEW c \in Caller, ModeCall(c), ModeOnItsWay(c), task[c] = "done", LastOfMode(c)
  PROVE  lamp \in Wanted(call[c], before[c].lamp, before[c].ramp)
<1> DEFINE m == call[c].to
           b == before[c].lamp
           r == before[c].ramp
<1>1. lamp \in [Setting -> 0..1] /\ m \in Mode /\ call[c].op = "mode"
  BY OfTheDelivery, WhatIsAsked DEF SInv, Typed, ModeCall
<1>2. AtLamp(c) /\ step[c] \in 2..3
  BY DEF AtLamp, LastOfMode
<1>3. lamp[OffFlag(m)] = 0 /\ lamp[OnFlag(m)] = OnSays(m)
  BY <1>2 DEF ModeOnItsWay
<1>4. /\ lamp["circadian"] = IF m = "circadian" THEN 1 ELSE 0
      /\ lamp["schedule"]  = IF m = "schedule"  THEN 1 ELSE 0
  BY <1>1, <1>3 DEF OffFlag, OnFlag, OnSays, Mode
<1>5. m = "circadian" /\ r # None => lamp["ramp"] = r
  BY <1>2 DEF ModeOnItsWay, LastOfMode
<1>6. (lamp["ramp"] = b["ramp"] \/ m = "circadian") /\ \A k \in {"lighting"} \cup Field : lamp[k] = b[k]
  BY DEF ModeOnItsWay
<1> QED
  BY <1>1, <1>4, <1>5, <1>6 DEF Wanted

LEMMA StepAsAsked ==
  ASSUME SInv, AInv, [SNext]_svars
  PROVE  \A c \in Caller :
            before[c] # None /\ task[c] = "done" /\ call'[c] = None /\ call[c] # None
               => lamp \in Wanted(call[c], before[c].lamp, before[c].ramp)
<1> SUFFICES ASSUME NEW c \in Caller,
                    before[c] # None, task[c] = "done", call'[c] = None, call[c] # None
             PROVE  lamp \in Wanted(call[c], before[c].lamp, before[c].ramp)
  OBVIOUS
<1>1. /\ Alone(c) /\ AtLamp(c)
      /\ before[c] \in [lamp : [Setting -> 0..1], ramp : 0..1 \cup {None}]
      /\ IF ModeCall(c) THEN ModeOnItsWay(c) ELSE OneOnItsWay(c)
  BY DEF Alone, AtLamp, AInv
<1>2. Done(c) \/ Raises(c)
  <2>1. \A d \in Caller : ~ NextOfMode(d) /\ ~ Delivers(d) /\ ~ Ingest
    BY DEF NextOfMode, Delivers, Ingest
  <2>2. ASSUME NEW d \in Caller, NEW o \in Ask, Called(d, o) PROVE FALSE
    BY <2>2, WhatIsAsked DEF Called, SInv, Typed
  <2>3. call' # call
    OBVIOUS
  <2>4. ASSUME NEW d \in Caller, Done(d) \/ Raises(d) PROVE d = c
    BY <2>4 DEF Done, Raises, Returns, SInv, Typed
  <2> QED
    BY <2>1, <2>2, <2>3, <2>4 DEF SNext, svars
<1>3. ModeCall(c) => LastOfMode(c)
  <2> SUFFICES ASSUME ModeCall(c), ~ LastOfMode(c), Raises(c) PROVE FALSE
    BY <1>2 DEF Done, ModeCall
  <2>1. mirror["lighting"] = None
    BY DEF Raises, Known
  <2>2. before[c].lamp["lighting"] \in 0..1
    BY <1>1, Apart
  <2> QED
    BY <1>1, <2>1, <2>2, Apart, SettingsAssumption DEF ModeOnItsWay
<1> QED
  BY <1>1, <1>3, OneAsAsked, ModeAsAsked

\* A call that was alone, that knew the lamp it began with and whose commands were
\* all acknowledged, leaves the lamp as it asked and the rest of it as it was.
THEOREM LeftAsAsked == SSpec => AloneDoesAsAsked
<1>1. SSpec => [](SInv /\ AInv)
  BY InitSInv, InitAInv, NextKeepsSInv, NextKeepsAInv, PTL DEF SSpec
<1>2. SInv /\ AInv /\ [SNext]_svars =>
        [\A c \in Caller :
            before[c] # None /\ task[c] = "done" /\ call'[c] = None /\ call[c] # None
               => lamp \in Wanted(call[c], before[c].lamp, before[c].ramp)]_svars
  BY StepAsAsked
<1> QED
  BY <1>1, <1>2, PTL DEF SSpec, AloneDoesAsAsked
=============================================================================
