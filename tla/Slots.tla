------------------------------- MODULE Slots -------------------------------
(***************************************************************************)
(* What the properties of the lamp mean, and how the ones packed into      *)
(* bytes are written: protocol.py.  The lamp's state, as the mirror keeps  *)
(* it, has under each id nothing at all or a value of any kind, for it     *)
(* came off a radio.  A reader answers with the value's meaning, with      *)
(* NotReported where there is nothing, and with Unusable where the report  *)
(* is nothing the property can hold.  A writer returns bytes to send.      *)
(*                                                                         *)
(* Floats are whole numbers here; nan, the infinities, text, lists and     *)
(* null are all of the kind "odd".                                         *)
(***************************************************************************)
EXTENDS Integers, Sequences

Octet     == 0..255
Octets(n) == [1..n -> Octet]

(* What may stand under an id. *)
Missing  == [kind |-> "missing"]
Odd      == [kind |-> "odd"]
Flag(b)  == [kind |-> "flag", it |-> b]
Whole(n) == [kind |-> "whole", it |-> n]
Float(n) == [kind |-> "float", it |-> n]
Bytes(s) == [kind |-> "bytes", it |-> s]

(* What a reader answers: there are two answers that are no value. *)
NotReported == [is |-> "none"]
Unusable    == [is |-> "unusable"]
Some(x)     == [is |-> "value", of |-> x]

Reading(v, fits, meaning) ==
  IF v.kind = "missing" THEN NotReported ELSE IF fits THEN Some(meaning) ELSE Unusable

(***************************************************************************)
(* Flags, numbers, coordinates.                                            *)
(***************************************************************************)
ReadFlag(v)  == Reading(v, v.kind = "flag", v.it)

\* A level from 0 to 100, whole or not.
Percent == 0..100
ReadBrightness(v) == Reading(v, v.kind \in {"whole", "float"} /\ v.it \in Percent, v.it)

\* The index of a lighting mode: one byte.
ReadLighting(v) == Reading(v, v.kind = "whole" /\ v.it \in Octet, v.it)

ReadDegrees(v, limit) == Reading(v, v.kind = "float" /\ v.it \in -limit..limit, v.it)

(***************************************************************************)
(* Seconds in two bytes, or in four: the ramp, the fade, the offset.       *)
(***************************************************************************)
Longest     == 7200
MaxMinutes  == 1092
Number(hi, lo)     == 256 * hi + lo
TwoBytes(n)        == <<n \div 256, n % 256>>
Clamped(n, low, high) == IF n < low THEN low ELSE IF n > high THEN high ELSE n
MinutesToBytes(n)  == TwoBytes(60 * Clamped(n, 0, MaxMinutes))

IsBytes(v, n) == v.kind = "bytes" /\ Len(v.it) = n
IsRamp(r)     == Number(r[1], r[2]) <= Longest

ReportedRamp(v) == Reading(v, IsBytes(v, 2) /\ IsRamp(v.it), v.it)
RampMinutes(v)  == Reading(v, IsBytes(v, 2) /\ IsRamp(v.it), Number(v.it[1], v.it[2]) \div 60)

(***************************************************************************)
(* The schedule: eleven bytes, of which three are nobody's to read.        *)
(***************************************************************************)
StartAt == 5
EndAt   == 7
BrightnessAt == 9
FadeAt  == 10
SlotLength == 11

IsTime(h, m) == h \in 0..23 /\ m \in 0..59

Fade(s) == Number(s[FadeAt], s[FadeAt + 1])

IsSchedule(s) ==
  /\ s[1] \in {0, 1}
  /\ IsTime(s[StartAt], s[StartAt + 1])
  /\ IsTime(s[EndAt], s[EndAt + 1])
  /\ Fade(s) <= Longest
  /\ s[BrightnessAt] <= 100

Schedule(s) == [enabled |-> s[1] = 1, start |-> <<s[StartAt], s[StartAt + 1]>>,
                end |-> <<s[EndAt], s[EndAt + 1]>>, brightness |-> s[BrightnessAt],
                fade |-> Fade(s)]

ReadSlot(v)     == Reading(v, IsBytes(v, SlotLength) /\ IsSchedule(v.it), v.it)
ReadSchedule(v) == Reading(v, IsBytes(v, SlotLength) /\ IsSchedule(v.it), Schedule(v.it))

(* A field written into the slot, the rest as it came. *)
Put(s, at, field) ==
  [i \in DOMAIN s |-> IF i \in at..(at + Len(field) - 1) THEN field[i - at + 1] ELSE s[i]]

(* Nothing to write where there is no slot to carry the rest over from. *)
With(v, at, field) ==
  LET slot == ReadSlot(v) IN IF slot.is = "value" THEN Some(Put(slot.of, at, field)) ELSE slot

WithStart(v, h, m)   == With(v, StartAt, <<h, m>>)
WithEnd(v, h, m)     == With(v, EndAt, <<h, m>>)
WithBrightness(v, n) == With(v, BrightnessAt, <<Clamped(n, 0, 100)>>)
WithFade(v, minutes) == With(v, FadeAt, MinutesToBytes(minutes))

(***************************************************************************)
(* Daylight saving: a flag, then an offset that is not ours to change.     *)
(***************************************************************************)
Hour == <<0, 0, 14, 16>>

IsDst(s)     == s[1] \in {0, 1} /\ s[2] = 0 /\ s[3] = 0 /\ Number(s[4], s[5]) <= Longest
ReadDst(v)   == Reading(v, IsBytes(v, 5) /\ IsDst(v.it),
                        [enabled |-> v.it[1] = 1, offset |-> Number(v.it[4], v.it[5])])
WithDst(v, on) ==
  LET flag == IF on THEN 1 ELSE 0 IN
  IF ReadDst(v).is = "value" THEN Put(v.it, 1, <<flag>>) ELSE <<flag>> \o Hour

(***************************************************************************)
(* The clock: a year in two bytes, month, day, hour, minute, second.       *)
(***************************************************************************)
Leap(y)       == y % 4 = 0 /\ (y % 100 # 0 \/ y % 400 = 0)
DaysIn(y, mo) == IF mo = 2 THEN IF Leap(y) THEN 29 ELSE 28
                 ELSE IF mo \in {4, 6, 9, 11} THEN 30 ELSE 31

LastYear == 9999
Year     == 1..LastYear
Moment == [year : Year, month : 1..12, day : 1..31,
           hour : 0..23, minute : 0..59, second : 0..59]
IsMoment(t) == t \in Moment /\ t.day <= DaysIn(t.year, t.month)

EncodeTime(t) == <<t.year \div 256, t.year % 256, t.month, t.day,
                   t.hour, t.minute, t.second>>

ClockIn(s) == [year |-> Number(s[1], s[2]), month |-> s[3], day |-> s[4],
               hour |-> s[5], minute |-> s[6], second |-> s[7]]

DeviceTime(v) == Reading(v, IsBytes(v, 7) /\ IsMoment(ClockIn(v.it)), ClockIn(v.it))

\* A clock that is wrong, and may be put right; not a clock of another shape.
ClockIsNoDate(v) == IsBytes(v, 7) /\ ~IsMoment(ClockIn(v.it))

(***************************************************************************)
(* The operating mode, from the two flags.                                 *)
(***************************************************************************)
OperatingMode(circadian, scheduled) ==
  LET c == ReadFlag(circadian)
      s == ReadFlag(scheduled)
  IN  IF c = Some(TRUE) THEN Some("circadian")
      ELSE IF s = Some(TRUE) THEN Some("schedule")
      ELSE IF c = Some(FALSE) /\ s = Some(FALSE) THEN Some("manual")
      ELSE IF c = Unusable \/ s = Unusable THEN Unusable
      ELSE NotReported
=============================================================================
