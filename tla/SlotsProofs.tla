---------------------------- MODULE SlotsProofs ----------------------------
(***************************************************************************)
(* What the writers of packed properties promise, for every value: what is *)
(* written reads back as asked, and everything that was not asked for      *)
(* reads as it did.                                                        *)
(***************************************************************************)
EXTENDS Entities, TLAPS

(* A schedule is written that means `meant` and carries over from s the    *)
(* three bytes nobody has decoded.                                         *)
Rewrites(written, s, meant) ==
  \E t \in Octets(SlotLength) :
    /\ written = Some(t)
    /\ IsSchedule(t)
    /\ Schedule(t) = meant
    /\ \A i \in 2..4 : t[i] = s[i]

(* n octets are a sequence, and n is its length.                           *)
LEMMA OctetsAreASequence ==
  ASSUME NEW n \in Nat, NEW s \in Octets(n)
  PROVE  s \in Seq(Octet) /\ Len(s) = n /\ DOMAIN s = 1..n
  <1>1. s \in [1..n -> Octet]
    BY DEF Octets
  <1>2. s \in Seq(Octet)
    BY <1>1
  <1>3. DOMAIN s = 1..n /\ DOMAIN s = 1..Len(s) /\ Len(s) \in Nat
    BY <1>1, <1>2
  <1> QED BY <1>2, <1>3

(* A slot that reads as a schedule is what a writer builds on.             *)
LEMMA SlotIsRead ==
  ASSUME NEW s \in Octets(SlotLength), IsSchedule(s)
  PROVE  ReadSlot(Bytes(s)) = Some(s)
  <1>1. Len(s) = SlotLength
    BY OctetsAreASequence DEF SlotLength
  <1> QED BY <1>1 DEF ReadSlot, Reading, IsBytes, Bytes

(* A number of seconds below 65536 is read from the two bytes it is        *)
(* written to.                                                             *)
LEMMA TwoBytesReadBack ==
  ASSUME NEW n \in Nat, n < 65536, NEW b, b = TwoBytes(n)
  PROVE  b \in Octets(2) /\ Len(b) = 2 /\ Number(b[1], b[2]) = n
  <1>1. n \div 256 \in Octet /\ n % 256 \in Octet /\ (256 * (n \div 256)) + (n % 256) = n
    BY DEF Octet
  <1> QED BY <1>1 DEF TwoBytes, Number, Octets

(* Minutes within what the two bytes hold are written as their seconds,    *)
(* and any others as the nearest that are.                                 *)
LEMMA MinutesReadBack ==
  ASSUME NEW n \in Int, NEW b, b = MinutesToBytes(n)
  PROVE  b \in Octets(2) /\ Len(b) = 2 /\ Number(b[1], b[2]) = 60 * Clamped(n, 0, MaxMinutes)
  <1>1. PICK c \in Nat : c <= 1092 /\ c = Clamped(n, 0, MaxMinutes)
    <2>1. Clamped(n, 0, MaxMinutes) \in Nat /\ Clamped(n, 0, MaxMinutes) <= 1092
      BY DEF Clamped, MaxMinutes
    <2> QED BY <2>1
  <1>2. PICK k \in Nat : k < 65536 /\ k = 60 * c
    BY <1>1
  <1>3. b = TwoBytes(k)
    BY <1>1, <1>2 DEF MinutesToBytes
  <1>4. b \in Octets(2) /\ Len(b) = 2 /\ Number(b[1], b[2]) = k
    BY <1>2, <1>3, TwoBytesReadBack
  <1> QED BY <1>1, <1>2, <1>4

(* Two octets side by side.                                                *)
LEMMA PairOfOctets ==
  ASSUME NEW a \in Octet, NEW b \in Octet
  PROVE  <<a, b>> \in Octets(2) /\ <<a, b>>[1] = a /\ <<a, b>>[2] = b
BY DEF Octets

(* Put writes its field and nothing else, and a slot stays a slot.         *)
LEMMA PutIsLocal ==
  ASSUME NEW s \in Octets(SlotLength), NEW at \in 1..SlotLength, NEW n \in 1..2,
         NEW field \in Octets(n), at + n - 1 <= SlotLength
  PROVE  /\ Put(s, at, field) \in Octets(SlotLength)
         /\ \A i \in 1..SlotLength :
              Put(s, at, field)[i] = IF i \in at..(at + n - 1) THEN field[i - at + 1] ELSE s[i]
  <1>1. DOMAIN s = 1..SlotLength
    BY DEF Octets
  <1>2. Len(field) = n
    BY DEF Octets
  <1>3. ASSUME NEW i \in 1..SlotLength, i \in at..(at + n - 1)
        PROVE  field[i - at + 1] \in Octet
    <2>1. i - at + 1 \in 1..n
      BY <1>3 DEF SlotLength
    <2> QED BY <2>1 DEF Octets
  <1>4. \A i \in 1..SlotLength : s[i] \in Octet
    BY DEF Octets
  <1>5. Put(s, at, field) = [i \in 1..SlotLength |->
                              IF i \in at..(at + n - 1) THEN field[i - at + 1] ELSE s[i]]
    BY <1>1, <1>2 DEF Put
  <1> QED BY <1>3, <1>4, <1>5 DEF Octets

(* _slot_with builds on a slot that reads.                                 *)
LEMMA WithPuts ==
  ASSUME NEW s \in Octets(SlotLength), IsSchedule(s), NEW at, NEW field
  PROVE  With(Bytes(s), at, field) = Some(Put(s, at, field))
BY SlotIsRead DEF With, Some

(* with_schedule_start: a time of day set as the start is the start that   *)
(* is read back, and every other field reads as it did.                    *)
THEOREM StartIsSet ==
  ASSUME NEW s \in Octets(SlotLength), IsSchedule(s), NEW h \in 0..23, NEW m \in 0..59
  PROVE  Rewrites(WithStart(Bytes(s), h, m), s, [Schedule(s) EXCEPT !.start = <<h, m>>])
  <1> DEFINE f == <<h, m>>
             t == Put(s, StartAt, f)
  <1>1. f \in Octets(2) /\ f[1] = h /\ f[2] = m
    <2>1. h \in Octet /\ m \in Octet
      BY DEF Octet
    <2> QED BY <2>1, PairOfOctets
  <1>2. /\ t \in Octets(SlotLength)
        /\ \A i \in 1..SlotLength :
             t[i] = IF i \in StartAt..(StartAt + 2 - 1) THEN f[i - StartAt + 1] ELSE s[i]
    <2> HIDE DEF f
    <2> QED BY <1>1, PutIsLocal DEF StartAt, SlotLength
  <1>3. t[StartAt] = h /\ t[StartAt + 1] = m
    <2>1. t[5] = f[1] /\ t[6] = f[2]
      <3> HIDE DEF f, t
      <3> QED BY <1>2 DEF StartAt, SlotLength
    <2> QED BY <1>1, <2>1 DEF StartAt
  <1>4. \A i \in 1..SlotLength \ {5, 6} : t[i] = s[i]
    <2> HIDE DEF f, t
    <2> QED BY <1>2 DEF StartAt, SlotLength
  <1>5. IsSchedule(t) /\ Schedule(t) = [Schedule(s) EXCEPT !.start = <<h, m>>]
    <2> HIDE DEF t
    <2> QED BY <1>3, <1>4 DEF IsSchedule, Schedule, IsTime, Fade, Number,
            StartAt, EndAt, BrightnessAt, FadeAt, SlotLength
  <1>6. WithStart(Bytes(s), h, m) = Some(t)
    BY WithPuts DEF WithStart
  <1> QED
    <2> HIDE DEF t
    <2> QED BY <1>2, <1>4, <1>5, <1>6 DEF Rewrites, SlotLength

(* with_schedule_end: the same, of the end.                                *)
THEOREM EndIsSet ==
  ASSUME NEW s \in Octets(SlotLength), IsSchedule(s), NEW h \in 0..23, NEW m \in 0..59
  PROVE  Rewrites(WithEnd(Bytes(s), h, m), s, [Schedule(s) EXCEPT !.end = <<h, m>>])
  <1> DEFINE f == <<h, m>>
             t == Put(s, EndAt, f)
  <1>1. f \in Octets(2) /\ f[1] = h /\ f[2] = m
    <2>1. h \in Octet /\ m \in Octet
      BY DEF Octet
    <2> QED BY <2>1, PairOfOctets
  <1>2. /\ t \in Octets(SlotLength)
        /\ \A i \in 1..SlotLength :
             t[i] = IF i \in EndAt..(EndAt + 2 - 1) THEN f[i - EndAt + 1] ELSE s[i]
    <2> HIDE DEF f
    <2> QED BY <1>1, PutIsLocal DEF EndAt, SlotLength
  <1>3. t[EndAt] = h /\ t[EndAt + 1] = m
    <2>1. t[7] = f[1] /\ t[8] = f[2]
      <3> HIDE DEF f, t
      <3> QED BY <1>2 DEF EndAt, SlotLength
    <2> QED BY <1>1, <2>1 DEF EndAt
  <1>4. \A i \in 1..SlotLength \ {7, 8} : t[i] = s[i]
    <2> HIDE DEF f, t
    <2> QED BY <1>2 DEF EndAt, SlotLength
  <1>5. IsSchedule(t) /\ Schedule(t) = [Schedule(s) EXCEPT !.end = <<h, m>>]
    <2> HIDE DEF t
    <2> QED BY <1>3, <1>4 DEF IsSchedule, Schedule, IsTime, Fade, Number,
            StartAt, EndAt, BrightnessAt, FadeAt, SlotLength
  <1>6. WithEnd(Bytes(s), h, m) = Some(t)
    BY WithPuts DEF WithEnd
  <1> QED
    <2> HIDE DEF t
    <2> QED BY <1>2, <1>4, <1>5, <1>6 DEF Rewrites, SlotLength

(* with_schedule_brightness: any number at all is written as the level     *)
(* nearest to it, and every other field reads as it did.                   *)
THEOREM BrightnessIsSet ==
  ASSUME NEW s \in Octets(SlotLength), IsSchedule(s), NEW n \in Int
  PROVE  Rewrites(WithBrightness(Bytes(s), n), s,
                  [Schedule(s) EXCEPT !.brightness = Clamped(n, 0, 100)])
  <1> DEFINE c == Clamped(n, 0, 100)
             f == <<c>>
             t == Put(s, BrightnessAt, f)
  <1>1. c \in 0..100
    BY DEF Clamped
  <1>2. f \in Octets(1) /\ f[1] = c
    <2> HIDE DEF c
    <2>1. c \in Octet
      BY <1>1 DEF Octet
    <2> QED BY <2>1 DEF Octets
  <1>3. /\ t \in Octets(SlotLength)
        /\ \A i \in 1..SlotLength :
             t[i] = IF i \in BrightnessAt..(BrightnessAt + 1 - 1)
                    THEN f[i - BrightnessAt + 1] ELSE s[i]
    <2> HIDE DEF f
    <2> QED BY <1>2, PutIsLocal DEF BrightnessAt, SlotLength
  <1>4. t[BrightnessAt] = c
    <2>1. t[9] = f[1]
      <3> HIDE DEF f, t
      <3> QED BY <1>3 DEF BrightnessAt, SlotLength
    <2> QED BY <1>2, <2>1 DEF BrightnessAt
  <1>5. \A i \in 1..SlotLength \ {9} : t[i] = s[i]
    <2> HIDE DEF f, t
    <2> QED BY <1>3 DEF BrightnessAt, SlotLength
  <1>6. IsSchedule(t) /\ Schedule(t) = [Schedule(s) EXCEPT !.brightness = c]
    <2> HIDE DEF t, c
    <2> QED BY <1>1, <1>4, <1>5 DEF IsSchedule, Schedule, IsTime, Fade, Number,
            StartAt, EndAt, BrightnessAt, FadeAt, SlotLength
  <1>7. WithBrightness(Bytes(s), n) = Some(t)
    BY WithPuts DEF WithBrightness
  <1> QED
    <2> HIDE DEF t
    <2> QED BY <1>3, <1>5, <1>6, <1>7 DEF Rewrites, SlotLength

(* What with_schedule_gradual writes, for any number of minutes: their     *)
(* seconds, as far as two bytes hold them, and the rest as it came.        *)
LEMMA FadeIsWritten ==
  ASSUME NEW s \in Octets(SlotLength), IsSchedule(s), NEW n \in Int
  PROVE  LET t == Put(s, FadeAt, MinutesToBytes(n)) IN
         /\ WithFade(Bytes(s), n) = Some(t)
         /\ t \in Octets(SlotLength)
         /\ Fade(t) = 60 * Clamped(n, 0, MaxMinutes)
         /\ \A i \in 1..SlotLength \ {10, 11} : t[i] = s[i]
  <1> DEFINE f == MinutesToBytes(n)
             t == Put(s, FadeAt, f)
  <1>1. f \in Octets(2) /\ Number(f[1], f[2]) = 60 * Clamped(n, 0, MaxMinutes)
    BY MinutesReadBack
  <1>2. WithFade(Bytes(s), n) = Some(t)
    BY WithPuts DEF WithFade
  <1> HIDE DEF f
  <1>3. /\ t \in Octets(SlotLength)
        /\ \A i \in 1..SlotLength :
             t[i] = IF i \in FadeAt..(FadeAt + 2 - 1) THEN f[i - FadeAt + 1] ELSE s[i]
    BY <1>1, PutIsLocal DEF FadeAt, SlotLength
  <1> HIDE DEF t
  <1>4. t[10] = f[1] /\ t[11] = f[2]
    BY <1>3 DEF FadeAt, SlotLength
  <1>5. Fade(t) = Number(f[1], f[2])
    BY <1>4 DEF Fade, FadeAt
  <1>6. \A i \in 1..SlotLength \ {10, 11} : t[i] = s[i]
    BY <1>3 DEF FadeAt, SlotLength
  <1> QED BY <1>1, <1>2, <1>3, <1>5, <1>6 DEF f, t

(* with_schedule_gradual: up to two hours, which the number entity keeps   *)
(* to, the fade that is read back is the one asked for, and every other    *)
(* field reads as it did.                                                  *)
THEOREM FadeIsSet ==
  ASSUME NEW s \in Octets(SlotLength), IsSchedule(s), NEW n \in 0..120
  PROVE  Rewrites(WithFade(Bytes(s), n), s, [Schedule(s) EXCEPT !.fade = 60 * n])
  <1> DEFINE t == Put(s, FadeAt, MinutesToBytes(n))
  <1>1. Clamped(n, 0, MaxMinutes) = n
    BY DEF Clamped, MaxMinutes
  <1>2. /\ WithFade(Bytes(s), n) = Some(t)
        /\ t \in Octets(SlotLength)
        /\ Fade(t) = 60 * n
        /\ \A i \in 1..SlotLength \ {10, 11} : t[i] = s[i]
    BY <1>1, FadeIsWritten
  <1> HIDE DEF t
  <1>3. \A i \in 1..9 : t[i] = s[i]
    BY <1>2 DEF SlotLength
  <1>4. 60 * n <= 7200
    OBVIOUS
  <1>5. IsSchedule(t)
    BY <1>2, <1>3, <1>4 DEF IsSchedule, IsTime, Longest, StartAt, EndAt, BrightnessAt
  <1>6. Schedule(t) = [Schedule(s) EXCEPT !.fade = 60 * n]
    <2>1. [Schedule(s) EXCEPT !.fade = 60 * n] =
            [enabled |-> s[1] = 1, start |-> <<s[StartAt], s[StartAt + 1]>>,
             end |-> <<s[EndAt], s[EndAt + 1]>>, brightness |-> s[BrightnessAt],
             fade |-> 60 * n]
      BY DEF Schedule
    <2>2. /\ t[1] = s[1] /\ t[StartAt] = s[StartAt] /\ t[StartAt + 1] = s[StartAt + 1]
          /\ t[EndAt] = s[EndAt] /\ t[EndAt + 1] = s[EndAt + 1]
          /\ t[BrightnessAt] = s[BrightnessAt]
      BY <1>3 DEF StartAt, EndAt, BrightnessAt
    <2> QED BY <1>2, <2>1, <2>2 DEF Schedule
  <1> QED BY <1>2, <1>3, <1>5, <1>6 DEF Rewrites

(* be2_minutes_to_bytes clamps to what two bytes hold, and not to what     *)
(* the readers take: a fade longer than two hours would be written as a    *)
(* slot no reader takes for a schedule, and no later writer builds on.     *)
THEOREM LongFadeIsNoSchedule ==
  ASSUME NEW s \in Octets(SlotLength), IsSchedule(s), NEW n \in Int, n > 120
  PROVE  \E t \in Octets(SlotLength) :
           /\ WithFade(Bytes(s), n) = Some(t)
           /\ ReadSlot(Bytes(t)) = Unusable
  <1> DEFINE t == Put(s, FadeAt, MinutesToBytes(n))
             c == Clamped(n, 0, MaxMinutes)
  <1>1. c \in Nat /\ c > 120
    BY DEF Clamped, MaxMinutes
  <1>2. /\ WithFade(Bytes(s), n) = Some(t)
        /\ t \in Octets(SlotLength)
        /\ Fade(t) = 60 * c
    BY FadeIsWritten
  <1> HIDE DEF t, c
  <1>3. ~(60 * c <= 7200)
    BY <1>1
  <1>4. ~IsSchedule(t)
    BY <1>2, <1>3 DEF IsSchedule, Longest
  <1>5. ReadSlot(Bytes(t)) = Unusable
    BY <1>4 DEF ReadSlot, Reading, Bytes
  <1> QED BY <1>2, <1>5

(* The ramp: up to two hours, the minutes written are the minutes read.    *)
THEOREM RampReadsBack ==
  ASSUME NEW n \in Nat, n <= 120
  PROVE  RampMinutes(Bytes(MinutesToBytes(n))) = Some(n)
  <1>1. Clamped(n, 0, MaxMinutes) = n
    BY DEF Clamped, MaxMinutes
  <1>2. PICK b : b = MinutesToBytes(n)
    OBVIOUS
  <1>3. Len(b) = 2 /\ Number(b[1], b[2]) = 60 * n
    BY <1>1, <1>2, MinutesReadBack
  <1>4. 60 * n <= 7200 /\ (60 * n) \div 60 = n
    OBVIOUS
  <1>5. IsRamp(b) /\ Number(b[1], b[2]) \div 60 = n
    BY <1>3, <1>4 DEF IsRamp, Longest
  <1> QED BY <1>2, <1>3, <1>5 DEF RampMinutes, Reading, IsBytes, Bytes

(* with_dst, of a lamp whose slot reads: only the flag changes.            *)
THEOREM DstKeepsItsOffset ==
  ASSUME NEW s \in Octets(5), IsDst(s), NEW on \in BOOLEAN
  PROVE  LET t == WithDst(Bytes(s), on) IN
         /\ t \in Octets(5)
         /\ ReadDst(Bytes(t)) = Some([enabled |-> on, offset |-> Number(s[4], s[5])])
  <1> DEFINE flag == IF on THEN 1 ELSE 0
             t == Put(s, 1, <<flag>>)
  <1>1. Len(s) = 5 /\ DOMAIN s = 1..5
    BY OctetsAreASequence
  <1>2. ReadDst(Bytes(s)).is = "value"
    BY <1>1 DEF ReadDst, Reading, IsBytes, Bytes, Some
  <1>3. WithDst(Bytes(s), on) = t
    BY <1>2 DEF WithDst, Bytes
  <1>4. flag \in Octet /\ flag \in {0, 1} /\ (flag = 1) = on
    BY DEF Octet
  <1> HIDE DEF flag
  <1>5. t = [i \in 1..5 |-> IF i = 1 THEN flag ELSE s[i]]
    <2>1. \A i \in 1..5 : i \in 1..(1 + Len(<<flag>>) - 1) <=> i = 1
      OBVIOUS
    <2>2. <<flag>>[1 - 1 + 1] = flag
      OBVIOUS
    <2> QED BY <1>1, <2>1, <2>2 DEF Put
  <1> HIDE DEF t
  <1>6. t \in Octets(5)
    <2>1. \A i \in 1..5 : s[i] \in Octet
      BY DEF Octets
    <2> QED BY <1>4, <1>5, <2>1 DEF Octets
  <1>7. t[1] = flag /\ \A i \in 2..5 : t[i] = s[i]
    BY <1>5
  <1>8. Len(t) = 5
    BY <1>6, OctetsAreASequence
  <1>9. IsDst(t)
    BY <1>4, <1>7 DEF IsDst, Number
  <1>10. ReadDst(Bytes(t)) = Some([enabled |-> on, offset |-> Number(s[4], s[5])])
    <2>1. (t[1] = 1) = on /\ t[4] = s[4] /\ t[5] = s[5]
      BY <1>4, <1>7
    <2>2. ReadDst(Bytes(t)) = Some([enabled |-> t[1] = 1, offset |-> Number(t[4], t[5])])
      BY <1>8, <1>9 DEF ReadDst, Reading, IsBytes, Bytes
    <2> QED BY <2>1, <2>2
  <1> QED BY <1>3, <1>6, <1>10

(* encode_device_time and device_time: every moment there is reads back    *)
(* as itself, so a clock just written is never seen as wrong.              *)
THEOREM ClockReadsBack ==
  ASSUME NEW t, IsMoment(t)
  PROVE  /\ DeviceTime(Bytes(EncodeTime(t))) = Some(t)
         /\ ~ClockIsNoDate(Bytes(EncodeTime(t)))
  <1> DEFINE y == t.year
  <1>1. y \in Nat /\ y < 65536
    <2>1. y \in Year
      BY DEF IsMoment, Moment
    <2> HIDE DEF y
    <2>2. y \in Nat /\ y <= LastYear
      BY <2>1 DEF Year
    <2> QED BY <2>2 DEF LastYear
  <1> HIDE DEF y
  <1>2. 256 * (y \div 256) + (y % 256) = y
    BY <1>1
  <1>3. Number(y \div 256, y % 256) = y
    BY <1>2 DEF Number
  <1>4. EncodeTime(t) = <<y \div 256, y % 256, t.month, t.day, t.hour, t.minute, t.second>>
    BY DEF EncodeTime, y
  <1>5. ClockIn(EncodeTime(t)) =
          [year |-> y, month |-> t.month, day |-> t.day,
           hour |-> t.hour, minute |-> t.minute, second |-> t.second]
    BY <1>3, <1>4 DEF ClockIn
  <1>6. ClockIn(EncodeTime(t)) = t
    BY <1>5 DEF IsMoment, Moment, y
  <1>7. Len(EncodeTime(t)) = 7
    BY <1>4
  <1> QED BY <1>6, <1>7 DEF DeviceTime, ClockIsNoDate, Reading, IsBytes, Bytes

-----------------------------------------------------------------------------
(* Writers that refuse, and writers that meet.                             *)

(* Whatever may stand under an id.                                         *)
AnyValue == {Missing, Odd} \cup {Flag(b) : b \in BOOLEAN}
            \cup {Whole(n) : n \in Int} \cup {Float(n) : n \in Int}
            \cup {Bytes(s) : s \in Seq(Octet)}

(* _slot_with: where there is no schedule to build on - nothing at all, no *)
(* bytes, the wrong number of them, a time that is none - no writer makes  *)
(* one up, and each says which of the two it is.                           *)
THEOREM NoSlotIsMadeUp ==
  ASSUME NEW v \in AnyValue, ~(IsBytes(v, SlotLength) /\ IsSchedule(v.it)),
         NEW h, NEW m, NEW n
  PROVE  \A answer \in {WithStart(v, h, m), WithEnd(v, h, m),
                        WithBrightness(v, n), WithFade(v, n)} :
           answer = IF v = Missing THEN NotReported ELSE Unusable
  <1>1. v.kind = "missing" <=> v = Missing
    BY DEF AnyValue, Missing, Odd, Flag, Whole, Float, Bytes
  <1>2. ReadSlot(v) = IF v = Missing THEN NotReported ELSE Unusable
    BY <1>1 DEF ReadSlot, Reading
  <1>3. ReadSlot(v).is # "value"
    BY <1>2 DEF NotReported, Unusable
  <1>4. \A at, field : With(v, at, field) = ReadSlot(v)
    BY <1>3 DEF With
  <1> QED BY <1>2, <1>4 DEF WithStart, WithEnd, WithBrightness, WithFade

(* t is s with the n octets of field written at `at`.                      *)
IsPut(t, s, at, n, field) ==
  /\ t \in Octets(SlotLength)
  /\ \A i \in 1..SlotLength : t[i] = IF i \in at..(at + n - 1) THEN field[i - at + 1] ELSE s[i]

LEMMA PutIsPut ==
  ASSUME NEW s \in Octets(SlotLength), NEW at \in 1..SlotLength, NEW n \in 1..2,
         NEW field \in Octets(n), at + n - 1 <= SlotLength
  PROVE  IsPut(Put(s, at, field), s, at, n, field)
BY PutIsLocal DEF IsPut

(* Fields at places that do not meet are written in either order.          *)
LEMMA PutsMeet ==
  ASSUME NEW s \in Octets(SlotLength), NEW a \in 1..SlotLength, NEW b \in 1..SlotLength,
         NEW i \in 1..2, NEW j \in 1..2, NEW f \in Octets(i), NEW g \in Octets(j),
         a + i - 1 <= SlotLength, b + j - 1 <= SlotLength,
         a + i <= b \/ b + j <= a
  PROVE  Put(Put(s, a, f), b, g) = Put(Put(s, b, g), a, f)
  <1>1. PICK x : x = Put(s, a, f)
    OBVIOUS
  <1>2. PICK y : y = Put(s, b, g)
    OBVIOUS
  <1>3. PICK p : p = Put(x, b, g)
    OBVIOUS
  <1>4. PICK q : q = Put(y, a, f)
    OBVIOUS
  <1>5. IsPut(x, s, a, i, f) /\ IsPut(y, s, b, j, g)
    BY <1>1, <1>2, PutIsPut
  <1>6. x \in Octets(SlotLength) /\ y \in Octets(SlotLength)
    BY <1>5 DEF IsPut
  <1>7. IsPut(p, x, b, j, g) /\ IsPut(q, y, a, i, f)
    BY <1>3, <1>4, <1>6, PutIsPut
  <1>8. ASSUME NEW k \in 1..SlotLength PROVE p[k] = q[k]
    <2>1. ~(k \in a..(a + i - 1) /\ k \in b..(b + j - 1))
      BY DEF SlotLength
    <2> QED BY <1>5, <1>7, <2>1 DEF IsPut
  <1>9. p \in [1..SlotLength -> Octet] /\ q \in [1..SlotLength -> Octet]
    BY <1>7 DEF IsPut, Octets
  <1>10. p = q
    <2> DEFINE S == 1..SlotLength
    <2>1. p \in [S -> Octet] /\ q \in [S -> Octet] /\ \A k \in S : p[k] = q[k]
      BY <1>8, <1>9
    <2> HIDE DEF S
    <2> QED BY <2>1
  <1> QED BY <1>1, <1>2, <1>3, <1>4, <1>10

(* with_schedule_start, _end, _brightness: two that write different fields *)
(* of the slot, each on what the other wrote, write the same slot in       *)
(* either order, and neither refuses what the other wrote.                 *)
THEOREM WritersOfDifferentFieldsAgree ==
  ASSUME NEW s \in Octets(SlotLength), IsSchedule(s),
         NEW h \in 0..23, NEW m \in 0..59, NEW x \in 0..23, NEW y \in 0..59, NEW n \in Int
  PROVE  LET start == WithStart(Bytes(s), h, m)
             end   == WithEnd(Bytes(s), x, y)
             level == WithBrightness(Bytes(s), n)
         IN  /\ WithEnd(Bytes(start.of), x, y) = WithStart(Bytes(end.of), h, m)
             /\ WithBrightness(Bytes(start.of), n) = WithStart(Bytes(level.of), h, m)
             /\ WithBrightness(Bytes(end.of), n) = WithEnd(Bytes(level.of), x, y)
             /\ \A one \in {WithEnd(Bytes(start.of), x, y), WithBrightness(Bytes(start.of), n),
                            WithBrightness(Bytes(end.of), n)} :
                  ReadSlot(Bytes(one.of)) = one
  <1> DEFINE c == Clamped(n, 0, 100)
             start == WithStart(Bytes(s), h, m)
             end   == WithEnd(Bytes(s), x, y)
             level == WithBrightness(Bytes(s), n)
  <1>1. c \in Octet
    BY DEF Clamped, Octet
  <1>2. <<h, m>> \in Octets(2) /\ <<x, y>> \in Octets(2)
    <2>1. h \in Octet /\ m \in Octet /\ x \in Octet /\ y \in Octet
      BY DEF Octet
    <2> QED BY <2>1, PairOfOctets
  <1> HIDE DEF c
  <1>3. <<c>> \in Octets(1)
    BY <1>1 DEF Octets
  <1>4. /\ start = Some(Put(s, StartAt, <<h, m>>))
        /\ end   = Some(Put(s, EndAt, <<x, y>>))
        /\ level = Some(Put(s, BrightnessAt, <<c>>))
    BY WithPuts DEF WithStart, WithEnd, WithBrightness, c
  <1>5. \A one \in {start, end, level} :
          one.of \in Octets(SlotLength) /\ IsSchedule(one.of)
    <2>1. \A one \in {start, end, level} :
             \E t \in Octets(SlotLength) : one = Some(t) /\ IsSchedule(t)
      <3>1. Rewrites(start, s, [Schedule(s) EXCEPT !.start = <<h, m>>])
        BY StartIsSet, Zenon
      <3>2. Rewrites(end, s, [Schedule(s) EXCEPT !.end = <<x, y>>])
        BY EndIsSet, Zenon
      <3>3. Rewrites(level, s, [Schedule(s) EXCEPT !.brightness = Clamped(n, 0, 100)])
        BY BrightnessIsSet, Zenon
      <3> HIDE DEF start, end, level
      <3> QED BY <3>1, <3>2, <3>3 DEF Rewrites
    <2> HIDE DEF start, end, level
    <2> QED BY <2>1 DEF Some
  <1>6. /\ WithEnd(Bytes(start.of), x, y) = Some(Put(start.of, EndAt, <<x, y>>))
        /\ WithStart(Bytes(end.of), h, m) = Some(Put(end.of, StartAt, <<h, m>>))
        /\ WithBrightness(Bytes(start.of), n) = Some(Put(start.of, BrightnessAt, <<c>>))
        /\ WithStart(Bytes(level.of), h, m) = Some(Put(level.of, StartAt, <<h, m>>))
        /\ WithBrightness(Bytes(end.of), n) = Some(Put(end.of, BrightnessAt, <<c>>))
        /\ WithEnd(Bytes(level.of), x, y) = Some(Put(level.of, EndAt, <<x, y>>))
    BY <1>5, WithPuts DEF WithStart, WithEnd, WithBrightness, c
  <1>7. /\ start.of = Put(s, StartAt, <<h, m>>)
        /\ end.of   = Put(s, EndAt, <<x, y>>)
        /\ level.of = Put(s, BrightnessAt, <<c>>)
    BY <1>4 DEF Some
  <1> HIDE DEF start, end, level
  <1> DEFINE f == <<h, m>>
             g == <<x, y>>
             l == <<c>>
  <1>8. f \in Octets(2) /\ g \in Octets(2) /\ l \in Octets(1)
    BY <1>2, <1>3
  <1> HIDE DEF f, g, l
  <1>9. /\ Put(Put(s, StartAt, f), EndAt, g) = Put(Put(s, EndAt, g), StartAt, f)
        /\ Put(Put(s, StartAt, f), BrightnessAt, l) = Put(Put(s, BrightnessAt, l), StartAt, f)
        /\ Put(Put(s, EndAt, g), BrightnessAt, l) = Put(Put(s, BrightnessAt, l), EndAt, g)
    BY <1>8, PutsMeet DEF StartAt, EndAt, BrightnessAt, SlotLength
  <1>10. /\ WithEnd(Bytes(start.of), x, y) = WithStart(Bytes(end.of), h, m)
         /\ WithBrightness(Bytes(start.of), n) = WithStart(Bytes(level.of), h, m)
         /\ WithBrightness(Bytes(end.of), n) = WithEnd(Bytes(level.of), x, y)
    BY <1>6, <1>7, <1>9 DEF f, g, l
  <1>11. \A one \in {WithEnd(Bytes(start.of), x, y), WithBrightness(Bytes(start.of), n),
                     WithBrightness(Bytes(end.of), n)} :
           ReadSlot(Bytes(one.of)) = one
    <2>1. /\ start.of \in Octets(SlotLength) /\ IsSchedule(start.of)
          /\ end.of \in Octets(SlotLength) /\ IsSchedule(end.of)
      BY <1>5
    <2>2. Rewrites(WithEnd(Bytes(start.of), x, y), start.of,
                   [Schedule(start.of) EXCEPT !.end = <<x, y>>])
      BY <2>1, EndIsSet, Zenon
    <2>3. Rewrites(WithBrightness(Bytes(start.of), n), start.of,
                   [Schedule(start.of) EXCEPT !.brightness = Clamped(n, 0, 100)])
      BY <2>1, BrightnessIsSet, Zenon
    <2>4. Rewrites(WithBrightness(Bytes(end.of), n), end.of,
                   [Schedule(end.of) EXCEPT !.brightness = Clamped(n, 0, 100)])
      BY <2>1, BrightnessIsSet, Zenon
    <2>5. ASSUME NEW one, \E t \in Octets(SlotLength) : one = Some(t) /\ IsSchedule(t)
          PROVE  ReadSlot(Bytes(one.of)) = one
      BY <2>5, SlotIsRead DEF Some
    <2> QED BY <2>2, <2>3, <2>4, <2>5 DEF Rewrites
  <1> QED BY <1>10, <1>11 DEF start, end, level

-----------------------------------------------------------------------------
(* What is read together, and what is shown and set again.                 *)

(* operating_mode: Manual takes both flags, each saying no; a flag that    *)
(* says yes outweighs whatever stands under the other; what cannot be used *)
(* makes the mode unusable only where neither says yes; and a lamp is in   *)
(* no mode yet only while one of them was never reported.                  *)
THEOREM ModeFollowsTheFlags ==
  ASSUME NEW c \in AnyValue, NEW s \in AnyValue
  PROVE  LET mode == OperatingMode(c, s) IN
         /\ mode = Some("manual") <=> c = Flag(FALSE) /\ s = Flag(FALSE)
         /\ mode = Some("circadian") <=> c = Flag(TRUE)
         /\ mode = Some("schedule") <=> s = Flag(TRUE) /\ c # Flag(TRUE)
         /\ mode = Unusable <=> /\ Flag(TRUE) \notin {c, s}
                                /\ \E v \in {c, s} : v.kind \notin {"missing", "flag"}
         /\ mode = NotReported => Missing \in {c, s}
  <1>1. ASSUME NEW v \in AnyValue
        PROVE  /\ ReadFlag(v) = Some(TRUE) <=> v = Flag(TRUE)
               /\ ReadFlag(v) = Some(FALSE) <=> v = Flag(FALSE)
               /\ ReadFlag(v) = Unusable <=> v.kind \notin {"missing", "flag"}
               /\ ReadFlag(v) = NotReported <=> v = Missing
               /\ ReadFlag(v) \in {Some(TRUE), Some(FALSE), Unusable, NotReported}
    <2>1. CASE v = Missing
      BY <2>1 DEF ReadFlag, Reading, Missing, Some, Unusable, NotReported, Flag
    <2>2. ASSUME NEW b \in BOOLEAN, v = Flag(b)
          PROVE  ReadFlag(v) = Some(b) /\ v.kind = "flag" /\ v.it = b
      BY <2>2 DEF ReadFlag, Reading, Flag
    <2>3. CASE \E b \in BOOLEAN : v = Flag(b)
      <3>1. /\ Some(TRUE) # Some(FALSE) /\ Flag(TRUE) # Flag(FALSE)
            /\ \A b \in BOOLEAN : /\ Some(b) \notin {Unusable, NotReported}
                                  /\ Flag(b) # Missing
        BY DEF Missing, Some, Unusable, NotReported, Flag
      <3> QED BY <2>2, <2>3, <3>1
    <2>4. CASE v.kind \notin {"missing", "flag"}
      BY <2>4 DEF ReadFlag, Reading, Missing, Some, Unusable, NotReported, Flag
    <2>5. v = Missing \/ (\E b \in BOOLEAN : v = Flag(b)) \/ v.kind \notin {"missing", "flag"}
      BY DEF AnyValue, Odd, Whole, Float, Bytes
    <2> QED BY <2>1, <2>3, <2>4, <2>5
  <1>2. /\ Some("manual") # Some("circadian") /\ Some("manual") # Some("schedule")
        /\ Some("circadian") # Some("schedule")
        /\ \A w \in {"manual", "circadian", "schedule"} :
              Some(w) # Unusable /\ Some(w) # NotReported
        /\ Unusable # NotReported
    BY DEF Some, Unusable, NotReported
  <1>3. Some(TRUE) # Some(FALSE) /\ \A b \in BOOLEAN : Some(b) \notin {Unusable, NotReported}
    BY DEF Some, Unusable, NotReported
  <1> DEFINE C == ReadFlag(c)
             S == ReadFlag(s)
  <1>4. OperatingMode(c, s) =
           IF C = Some(TRUE) THEN Some("circadian")
           ELSE IF S = Some(TRUE) THEN Some("schedule")
           ELSE IF C = Some(FALSE) /\ S = Some(FALSE) THEN Some("manual")
           ELSE IF C = Unusable \/ S = Unusable THEN Unusable
           ELSE NotReported
    BY DEF OperatingMode
  <1> QED BY <1>1, <1>2, <1>3, <1>4

(* sync_clock: a clock is put right when it shows no date, and only then;  *)
(* one that shows a date is one that would be written as it stands.        *)
THEOREM ClockIsPutRight ==
  ASSUME NEW s \in Octets(7)
  PROVE  /\ ClockIsNoDate(Bytes(s)) <=> DeviceTime(Bytes(s)) = Unusable
         /\ ClockIsNoDate(Bytes(s)) \/ EncodeTime(DeviceTime(Bytes(s)).of) = s
  <1>1. Len(s) = 7 /\ s \in [1..7 -> Octet]
    BY OctetsAreASequence DEF Octets
  <1>2. DeviceTime(Bytes(s)) = IF IsMoment(ClockIn(s)) THEN Some(ClockIn(s)) ELSE Unusable
    BY <1>1 DEF DeviceTime, Reading, IsBytes, Bytes
  <1>3. ClockIsNoDate(Bytes(s)) <=> ~IsMoment(ClockIn(s))
    BY <1>1 DEF ClockIsNoDate, IsBytes, Bytes
  <1>4. EncodeTime(ClockIn(s)) = s
    <2>1. s[1] \in Octet /\ s[2] \in Octet
      BY <1>1
    <2>2. \A hi, lo \in Octet : Number(hi, lo) \div 256 = hi /\ Number(hi, lo) % 256 = lo
      BY DEF Number, Octet
    <2>3. EncodeTime(ClockIn(s)) = <<s[1], s[2], s[3], s[4], s[5], s[6], s[7]>>
      BY <2>1, <2>2 DEF EncodeTime, ClockIn
    <2> QED BY <1>1, <2>3
  <1> QED BY <1>2, <1>3, <1>4 DEF Some, Unusable

(* light.py: what a light shows of any level, set again, is that level, so *)
(* that a scene that is taken and put back leaves the lamp as it was; and  *)
(* any brightness that is set is shown within one of what was asked.       *)
THEOREM BrightnessComesBack ==
  /\ \A level \in Percent : LevelOf(ShownBrightness(Whole(level)).of) = level
  /\ \A b \in Bright :
        LevelOf(b) \in Percent /\ ShownBrightness(Whole(LevelOf(b))).of - b \in -1..1
  <1>1. \A level \in Percent : ShownBrightness(Whole(level)).of = Rounded(level * 255, 100)
    BY DEF ShownBrightness, Usable, ReadBrightness, Reading, Whole, Some, Unusable,
           NotReported
  <1>2. ASSUME NEW level \in Percent
        PROVE  LevelOf(Rounded(level * 255, 100)) = level
    BY DEF Rounded, LevelOf, Percent
  <1>3. ASSUME NEW b \in Bright
        PROVE  LevelOf(b) \in Percent /\ Rounded(LevelOf(b) * 255, 100) - b \in -1..1
    BY DEF Rounded, LevelOf, Percent, Bright
  <1> QED BY <1>1, <1>2, <1>3

(* _whole_minutes, be2_minutes_to_bytes: minutes that arrive a hair off,   *)
(* out of another unit, are the ones asked for however many they are, a    *)
(* half goes up, and what the lamp can hold is read back as it was asked.  *)
THEOREM MinutesComeBack ==
  ASSUME NEW n \in Nat, NEW hair \in -4..4
  PROVE  /\ WholeMinutes(n * Fine + hair) = n
         /\ WholeMinutes(n * Fine + Fine \div 2 + hair) = n + 1
         /\ n <= 120 => RampMinutes(Bytes(MinutesToBytes(WholeMinutes(n * Fine + hair)))) = Some(n)
  <1>1. WholeMinutes(n * Fine + hair) = n
    BY DEF WholeMinutes, Rounded, Fine, Micro
  <1>2. WholeMinutes(n * Fine + Fine \div 2 + hair) = n + 1
    BY DEF WholeMinutes, Rounded, Fine, Micro
  <1> QED BY <1>1, <1>2, RampReadsBack

(* select.py: of any model whose presets have indices of their own, the    *)
(* preset that is chosen is the one that is shown, whatever is remembered; *)
(* and a report that is no preset of the model is shown as none, however   *)
(* well a preset is remembered.                                            *)
THEOREM PresetIsTheOneChosen ==
  ASSUME NEW modes, \A key \in DOMAIN modes : modes[key] \in Octet,
         \A k, j \in DOMAIN modes : modes[k] = modes[j] => k = j,
         NEW remembered
  PROVE  /\ \A key \in DOMAIN modes :
               ShownPreset(modes, Whole(modes[key]), remembered) = Some(key)
         /\ \A v \in AnyValue \ ({Missing} \cup {Whole(modes[key]) : key \in DOMAIN modes}) :
               ShownPreset(modes, v, remembered) = NotReported
  <1>1. ASSUME NEW key \in DOMAIN modes
        PROVE  ShownPreset(modes, Whole(modes[key]), remembered) = Some(key)
    <2>1. ReadLighting(Whole(modes[key])) = Some(modes[key])
      BY DEF ReadLighting, Reading, Whole
    <2>2. Some(modes[key]) # NotReported /\ Some(modes[key]).is = "value"
          /\ Some(modes[key]).of = modes[key]
      BY DEF Some, NotReported
    <2>3. (CHOOSE k \in DOMAIN modes : modes[k] = modes[key]) = key
      OBVIOUS
    <2> QED BY <2>1, <2>2, <2>3 DEF ShownPreset
  <1>2. ASSUME NEW v \in AnyValue, v # Missing, \A key \in DOMAIN modes : v # Whole(modes[key])
        PROVE  ShownPreset(modes, v, remembered) = NotReported
    <2>1. CASE ReadLighting(v) = Unusable
      BY <2>1 DEF ShownPreset, Unusable, NotReported
    <2>2. CASE v.kind = "whole" /\ ReadLighting(v) = Some(v.it)
      <3>1. \A key \in DOMAIN modes : modes[key] # v.it
        BY <1>2, <2>2 DEF AnyValue, Missing, Odd, Flag, Whole, Float, Bytes
      <3> QED BY <2>2, <3>1 DEF ShownPreset, Some, NotReported
    <2>3. v.kind # "missing"
      BY <1>2 DEF AnyValue, Missing, Odd, Flag, Whole, Float, Bytes
    <2> QED BY <2>1, <2>2, <2>3 DEF ReadLighting, Reading
  <1> QED BY <1>1, <1>2
=============================================================================
