----------------------------- MODULE MCSettings -----------------------------
(* Settings for TLC: what may be asked for, in the runs.  What the lamp's    *)
(* values mean, and how they are written, is checked beside it.              *)
EXTENDS Settings, TLC

Slots    == INSTANCE Slots
Entities == INSTANCE Entities

AskModes == [op : {"mode"}, to : Mode]
            \cup [op : {"lighting"}, to : {1}] \cup [op : {"ramp"}, to : {0, 1}]
AskSlot  == [op : {"slot"}, to : {1}, field : Field]

\* In Schedule, with a ramp that is not the default; in Manual.
InSchedule == [k \in Setting |-> IF k \in {"schedule", "ramp"} THEN 1 ELSE 0]
InManual   == [InSchedule EXCEPT !["schedule"] = 0]
FoundInSchedule == {InSchedule}
FoundInManual   == {InManual}

Symmetry == Permutations(Caller)

(* Values of every kind, and slots at the boundaries of each field.          *)
Values == {Slots!Missing, Slots!Odd, Slots!Flag(TRUE), Slots!Flag(FALSE), Slots!Whole(1)}
SlotsTried == {<<e, 0, 7, 0, h, m, 22, 30, n, f, 16>> :
                 e \in {0, 1, 2}, h \in {0, 23, 24}, m \in {0, 59, 60},
                 n \in {0, 100, 101}, f \in {0, 14, 28, 29}}
Schedules == {s \in SlotsTried : Slots!IsSchedule(s)}

(* The two flags together are the mode: Manual takes both, each saying no; a *)
(* flag that says yes outweighs whatever stands under the other; and a lamp  *)
(* that has reported neither is in no mode yet.                              *)
ASSUME ModeFollowsTheFlags ==
  \A c, s \in Values : LET mode == Slots!OperatingMode(c, s) IN
    /\ mode = Slots!Some("manual") <=> c = Slots!Flag(FALSE) /\ s = Slots!Flag(FALSE)
    /\ mode.is = "value" <=> Slots!Flag(TRUE) \in {c, s} \/ {c, s} = {Slots!Flag(FALSE)}
    /\ mode = Slots!Unusable => \E v \in {c, s} : v.kind \notin {"missing", "flag"}
    /\ mode = Slots!NotReported => Slots!Missing \in {c, s}

(* A writer of one field takes the slot from one schedule to another; two    *)
(* that write different fields, each on what the other wrote, do so in       *)
(* either order, and the slot reads as what was asked of both.               *)
ASSUME WritersOfDifferentFieldsAgree ==
  \A s \in Schedules, percent \in {-1, 0, 50, 101}, fade \in {0, 1, 90, 120} :
    LET start == Slots!WithStart(Slots!Bytes(s), 6, 45).of
        level == Slots!WithBrightness(Slots!Bytes(s), percent).of
        both  == Slots!WithBrightness(Slots!Bytes(start), percent)
    IN  /\ both = Slots!WithStart(Slots!Bytes(level), 6, 45)
        /\ Slots!Schedule(both.of).start = <<6, 45>>
        /\ Slots!Schedule(both.of).brightness = Slots!Clamped(percent, 0, 100)
        /\ Slots!ReadSlot(Slots!Bytes(Slots!WithFade(Slots!Bytes(both.of), fade).of)).is = "value"

(* Nothing is written over what is no schedule, for every field.             *)
ASSUME NoSlotIsMadeUp ==
  \A v \in Values \cup {Slots!Bytes(s) : s \in (SlotsTried \ Schedules) \cup {<<1, 0>>}} :
    LET answers == {Slots!WithStart(v, 6, 45), Slots!WithEnd(v, 6, 45),
                    Slots!WithBrightness(v, 50), Slots!WithFade(v, 10)}
    IN  answers = {IF v = Slots!Missing THEN Slots!NotReported ELSE Slots!Unusable}

(* A clock is put right when it shows no date, and only then.                *)
ASSUME ClockIsPutRight ==
  \A s \in {<<7, y, mo, d, h, 0, 0>> : y \in {228, 229}, mo \in {0, 2, 4, 12, 13},
                                       d \in {0, 28, 29, 30, 31}, h \in {0, 23, 24}} :
    LET v == Slots!Bytes(s) IN
    /\ Slots!ClockIsNoDate(v) <=> Slots!DeviceTime(v) = Slots!Unusable
    /\ Slots!ClockIsNoDate(v) \/ Slots!EncodeTime(Slots!DeviceTime(v).of) = s

(* What a light shows, set again, is the level it has: a scene that is taken *)
(* and put back leaves the lamp as it was.  Any other brightness comes out   *)
(* within one of what was asked.                                             *)
ASSUME BrightnessComesBack ==
  /\ \A level \in Slots!Percent :
        Entities!LevelOf(Entities!ShownBrightness(Slots!Whole(level)).of) = level
  /\ \A b \in Entities!Bright :
        LET level == Entities!LightCommand(TRUE, Slots!Some(b))["brightness"]
            shown == Entities!ShownBrightness(level)
        IN  shown.is = "value" /\ shown.of - b \in -1..1

(* A light that is turned on or off says nothing of its brightness.          *)
ASSUME PowerAlone ==
  \A on \in BOOLEAN : DOMAIN Entities!LightCommand(on, Slots!NotReported) = {"power"}

(* Minutes that arrive a hair off, out of another unit, are the ones asked   *)
(* for, and read as such once they are written; a half goes up.              *)
ASSUME MinutesComeBack ==
  \A n \in 0..90, hair \in -4..4 : n > 0 \/ hair >= 0 =>
    LET asked == Entities!WholeMinutes(n * Entities!Fine + hair)
    IN  /\ asked = n
        /\ Slots!RampMinutes(Slots!Bytes(Slots!MinutesToBytes(asked))) = Slots!Some(n)
        /\ Entities!WholeMinutes(n * Entities!Fine + Entities!Fine \div 2 + hair) = n + 1

(* The presets of the G7.                                                    *)
G7 == [sun_sync |-> 1, before_sunrise |-> 2, sunrise_sync |-> 5, sunset_sync |-> 9,
       after_sunset |-> 16, two_phase |-> 18, balance |-> 19, enhanced_two_phase |-> 32]

(* A preset that is chosen is the one that is shown, whatever is remembered; *)
(* what the lamp reports outweighs it also where it is no preset; and it is  *)
(* shown only as a preset of the model there is.                             *)
ASSUME PresetIsTheOneChosen ==
  \A id \in {"C051", "C064"}, remembered \in DOMAIN G7 \cup {"of_another_model"} :
    LET modes == Entities!Resolved([C051 |-> G7], G7, id) IN
    /\ \A key \in DOMAIN modes :
          Entities!ShownPreset(modes, Slots!Whole(modes[key]), remembered) = Slots!Some(key)
    /\ \A v \in {Slots!Whole(n) : n \in (0..256) \ {modes[key] : key \in DOMAIN modes}}
               \cup {Slots!Odd, Slots!Flag(TRUE)} :
          Entities!ShownPreset(modes, v, remembered) = Slots!NotReported
    /\ Entities!ShownPreset(modes, Slots!Missing, remembered)
          = IF remembered \in DOMAIN G7 THEN Slots!Some(remembered) ELSE Slots!NotReported

(* What is remembered is shown while nothing was read, and never in place of *)
(* what was.                                                                 *)
ASSUME RememberedGivesWay ==
  \A v \in Values \cup {Slots!Bytes(s) : s \in SlotsTried} :
    LET remembered == Slots!Some(<<7, 7>>)
        start == Slots!ReadSchedule(v)
        read  == IF start.is = "value" THEN Slots!Some(start.of.start) ELSE start
        shown == Entities!OrRemembered(read, remembered)
    IN  /\ shown = remembered <=> v = Slots!Missing
        /\ shown.is = "none" <=> start = Slots!Unusable

(* One zero is a place, two are none.                                        *)
ASSUME HomeIsAPlace ==
  \A lat \in -1..1, lon \in -1..1 :
    LET command == Entities!LocationCommand(lat, lon) IN
    IF {lat, lon} = {0} THEN command.is = "none"
    ELSE /\ Slots!ReadDegrees(command.of.latitude, 90) = Slots!Some(lat)
         /\ Slots!ReadDegrees(command.of.longitude, 180) = Slots!Some(lon)
=============================================================================
