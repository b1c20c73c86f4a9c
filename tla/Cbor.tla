-------------------------------- MODULE Cbor --------------------------------
(***************************************************************************)
(* The codec of the lamp's frames: cbor.py.  A frame is a sequence of      *)
(* octets; an item is a pair of its kind and what it holds.  Text and      *)
(* floats are the octets they are made of, for nothing here looks into     *)
(* them, and a map is a function from property ids.  Heads of four and     *)
(* eight octets are modelled for the numbers TLC can count to.             *)
(*                                                                         *)
(* A decoder ends with an item, or because the octets ran out, or because  *)
(* what is there has no reading.  The outermost map of a device frame has  *)
(* two more ends: "short" keeps the pairs that arrived whole, "unreadable" *)
(* hands over the pairs ahead of the one that cannot be read.              *)
(***************************************************************************)
EXTENDS Integers, Sequences, SequencesExt

MaxDepth == 4

Read(item, at) == [end |-> "ok", item |-> item, at |-> at]
Short(item)    == [end |-> "short", item |-> item]
Unread(ahead)  == [end |-> "unreadable", item |-> ahead]
RanOut         == [end |-> "ran out"]
Malformed      == [end |-> "malformed"]
Trailing       == [end |-> "trailing"]

(***************************************************************************)
(* Octets, lengths, simple values.                                         *)
(***************************************************************************)
Take(b, i, n) ==
  IF i + n - 1 > Len(b) THEN RanOut ELSE Read(SubSeq(b, i, i + n - 1), i + n)

BigEndian(s) == FoldLeft(LAMBDA n, octet : 256 * n + octet, 0, s)

LenBytes == [ai \in 24..27 |-> CASE ai = 24 -> 1 [] ai = 25 -> 2 [] ai = 26 -> 4 [] ai = 27 -> 8]

Uint(b, i, ai) ==
  IF ai < 24 THEN Read(ai, i)
  ELSE IF ai \notin DOMAIN LenBytes THEN Malformed
  ELSE LET taken == Take(b, i, LenBytes[ai]) IN
       IF taken.end = "ok" THEN Read(BigEndian(taken.item), taken.at) ELSE taken

As(kind, r) == IF r.end = "ok" THEN Read(<<kind, r.item>>, r.at) ELSE r

Simple(b, i, ai) ==
  CASE ai = 20 -> Read(<<"flag", FALSE>>, i)
    [] ai = 21 -> Read(<<"flag", TRUE>>, i)
    [] ai = 22 -> Read(<<"null", "null">>, i)
    [] ai = 26 -> As("single", Take(b, i, 4))
    [] ai = 27 -> As("double", Take(b, i, 8))
    [] OTHER   -> Malformed

(* A key is an unsigned integer and nothing else. *)
Key(b, i) ==
  IF i > Len(b) THEN RanOut
  ELSE IF b[i] \div 32 # 0 THEN Malformed
  ELSE Uint(b, i + 1, b[i] % 32)

(***************************************************************************)
(* The decoder. `depth` counts the containers around the item.             *)
(***************************************************************************)
RECURSIVE Item(_, _, _, _), List(_, _, _, _, _), Map(_, _, _, _, _, _)

Item(b, i, depth, tolerant) ==
  LET major == b[i] \div 32
      ai    == b[i] % 32
      n     == Uint(b, i + 1, ai)
  IN  CASE i > Len(b) -> RanOut
        [] i <= Len(b) /\ major = 6 -> Malformed
        [] i <= Len(b) /\ major = 7 -> Simple(b, i + 1, ai)
        [] i <= Len(b) /\ major < 6 /\ n.end # "ok" -> n
        [] i <= Len(b) /\ major < 6 /\ n.end = "ok" ->
             CASE major = 0 -> As("whole", n)
               [] major = 1 -> Read(<<"whole", -1 - n.item>>, n.at)
               [] major = 2 -> As("bytes", Take(b, n.at, n.item))
               [] major = 3 -> As("text", Take(b, n.at, n.item))
               [] major \in {4, 5} /\ depth = MaxDepth -> Malformed
               [] major = 4 /\ depth # MaxDepth -> List(b, n.at, n.item, depth + 1, <<>>)
               [] major = 5 /\ depth # MaxDepth ->
                    Map(b, n.at, n.item, depth + 1, <<>>, tolerant /\ depth = 0)

List(b, i, left, depth, out) ==
  IF left = 0 THEN Read(<<"list", out>>, i)
  ELSE LET r == Item(b, i, depth, FALSE) IN
       IF r.end = "ok" THEN List(b, r.at, left - 1, depth, Append(out, r.item)) ELSE r

Map(b, i, left, depth, out, tolerant) ==
  IF left = 0 THEN Read(<<"map", out>>, i)
  ELSE LET key   == Key(b, i)
           value == IF key.end = "ok" THEN Item(b, key.at, depth, FALSE) ELSE key
       IN  CASE value.end = "ok" ->
                  Map(b, value.at, left - 1, depth, (key.item :> value.item) @@ out, tolerant)
             [] value.end # "ok" /\ ~tolerant -> value
             [] value.end = "ran out" /\ tolerant -> Short(<<"map", out>>)
             [] value.end = "malformed" /\ tolerant -> Unread(<<"map", out>>)

(* Nothing may be left over, but for the pair a short map stopped at. *)
Consumed(b, r) == IF r.end = "ok" /\ r.at # Len(b) + 1 THEN Trailing ELSE r

Decode(b)      == Consumed(b, Item(b, 1, 0, FALSE))
DecodeFrame(b) == Consumed(b, Item(b, 1, 0, TRUE))

(***************************************************************************)
(* The encoder.                                                            *)
(***************************************************************************)
Octets(n, width) == [k \in 1..width |-> (n \div 256^(width - k)) % 256]

HeadOf(major, n) ==
  LET base == 32 * major IN
  IF n < 24 THEN <<base + n>>
  ELSE IF n < 256 THEN <<base + 24>> \o Octets(n, 1)
  ELSE IF n < 65536 THEN <<base + 25>> \o Octets(n, 2)
  ELSE <<base + 26, n \div 16777216>> \o Octets(n, 3)

RECURSIVE Encode(_)
Encode(item) ==
  LET kind == item[1]
      held == item[2]
  IN  CASE kind = "flag"   -> IF held THEN <<245>> ELSE <<244>>
        [] kind = "whole"  -> IF held >= 0 THEN HeadOf(0, held) ELSE HeadOf(1, -1 - held)
        [] kind = "double" -> <<251>> \o held
        [] kind = "bytes"  -> HeadOf(2, Len(held)) \o held
        [] kind = "text"   -> HeadOf(3, Len(held)) \o held
        [] kind = "list"   ->
             HeadOf(4, Len(held)) \o FlattenSeq([k \in DOMAIN held |-> Encode(held[k])])
        [] kind = "map"    ->
             LET keys == SetToSortSeq(DOMAIN held, <) IN
             HeadOf(5, Len(keys)) \o FlattenSeq(
               [k \in DOMAIN keys |-> HeadOf(0, keys[k]) \o Encode(held[keys[k]])])
=============================================================================
