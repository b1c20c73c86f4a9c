------------------------------ MODULE Entities ------------------------------
(***************************************************************************)
(* What an entity shows of what the mirror holds, and what it has written  *)
(* when it is set: the conversions of light.py, number.py, select.py and   *)
(* entity.py, and the commands of one write (coordinator.py).  When an     *)
(* entity is there, who tells it and what it remembers is Entry's.         *)
(*                                                                         *)
(* NotReported stands for Python's None.  Minutes as Home Assistant hands  *)
(* them over are whole numbers of Fine parts of one.                       *)
(***************************************************************************)
EXTENDS Slots, TLC

\* round(n / d): to the nearest, a half to the even one.
Rounded(n, d) ==
    LET low == n \div d
        over == 2 * (n % d)
    IN  IF over < d \/ (over = d /\ low % 2 = 0) THEN low ELSE low + 1

\* usable: what cannot be used is shown as nothing.
Usable(reading) == IF reading = Unusable THEN NotReported ELSE reading

\* _or_remembered: what was read; what is remembered, while nothing was read.
OrRemembered(reading, remembered) ==
    IF reading = NotReported THEN remembered ELSE Usable(reading)

(***************************************************************************)
(* The light.                                                              *)
(***************************************************************************)
Bright == 0..255
LevelOf(brightness) == Rounded(brightness * 100, 255)

ShownBrightness(v) ==
    LET level == Usable(ReadBrightness(v)) IN
    IF level = NotReported THEN level ELSE Some(Rounded(level.of * 255, 100))

\* async_turn_on, async_turn_off: power, and a level where one is asked for, in
\* one command.
LightCommand(on, brightness) ==
    ("power" :> Flag(on)) @@
    IF brightness = NotReported THEN <<>>
    ELSE "brightness" :> Whole(Clamped(LevelOf(brightness.of), 0, 100))

(***************************************************************************)
(* Lengths of time.                                                        *)
(***************************************************************************)
Micro == 1000000        \* of a minute, what is looked at
Fine  == 10 * Micro     \* of a minute, what is handed over

\* _whole_minutes: the nearest, a half going up, a hair taken off before.
WholeMinutes(fine) == (Rounded(fine, Fine \div Micro) + Micro \div 2) \div Micro

(***************************************************************************)
(* The lighting mode: a preset's key, of the presets modes of the model.   *)
(***************************************************************************)
ShownPreset(modes, v, remembered) ==
    LET index == ReadLighting(v) IN
    CASE index = NotReported ->
            IF remembered \in DOMAIN modes THEN Some(remembered) ELSE NotReported
      [] index.is = "value" /\ \E key \in DOMAIN modes : modes[key] = index.of ->
            Some(CHOOSE key \in DOMAIN modes : modes[key] = index.of)
      [] OTHER -> NotReported

\* Any model without a profile of its own is given the reference's presets.
Resolved(models, reference, id) == IF id \in DOMAIN models THEN models[id] ELSE reference

(***************************************************************************)
(* The home: refused where Home Assistant was given none.                  *)
(***************************************************************************)
LocationCommand(latitude, longitude) ==
    IF latitude = 0 /\ longitude = 0 THEN NotReported
    ELSE Some([latitude |-> Float(latitude), longitude |-> Float(longitude)])
=============================================================================
