------------------------------ MODULE MCMirror ------------------------------
(* Mirror for TLC: two who ask, two ids of each kind, room for one.  The     *)
(* codec the frames come through is checked beside it, over bounded inputs.  *)
EXTENDS Mirror, TLC, Sequences, SequencesExt, FiniteSetsExt

Cbor == INSTANCE Cbor

\* Nothing tells one asker, one known id or one other id from the next.
Symmetry == Permutations(Waiter) \cup Permutations(Known) \cup Permutations(Other)

(* Values at the boundaries of the heads, and containers of them. *)
Scalars ==
  {<<"flag", TRUE>>, <<"flag", FALSE>>, <<"text", <<71, 55>>>>,
   <<"double", <<64, 9, 33, 251, 84, 68, 45, 24>>>>}
  \cup {<<"whole", n>> : n \in {0, 23, 24, 255, 256, 65535, 65536, 16777216, -1, -24, -25, -256}}
  \cup {<<"bytes", [k \in 1..n |-> k % 256]>> : n \in {0, 2, 23, 24, 256}}
Lists == {<<"list", s>> : s \in {<<>>} \cup {<<x>> : x \in Scalars}
                                       \cup {<<x, y>> : x, y \in Scalars}}
Frames == {<<"map", m>> : m \in [{6, 17} -> Scalars] \cup [{300} -> Lists]
                                \cup {(8 :> x) @@ (24 :> y) @@ (53 :> x) : x, y \in Scalars}}

RECURSIVE Nested(_)
Nested(n) == IF n = 0 THEN <<"whole", 7>> ELSE <<"list", <<Nested(n - 1)>>>>

(* What is encoded decodes to itself, on the strict path and on the device's. *)
ASSUME RoundTrip ==
  \A x \in Scalars \cup Lists \cup Frames :
    LET b == Cbor!Encode(x) IN
    /\ Cbor!Decode(b) = Cbor!Read(x, Len(b) + 1)
    /\ Cbor!DecodeFrame(b) = Cbor!Decode(b)

(* A frame cut anywhere behind its head yields every pair that arrived whole *)
(* and nothing else, and is called short; the strict path takes no part.     *)
ASSUME CutFrameKeepsWholePairs ==
  \A x \in Frames : LET b == Cbor!Encode(x) IN
    \A n \in 1..(Len(b) - 1) :
      LET r == Cbor!DecodeFrame(SubSeq(b, 1, n)) IN
      /\ r.end = "short" /\ r.item[1] = "map"
      /\ DOMAIN r.item[2] \subseteq DOMAIN x[2] /\ DOMAIN r.item[2] # DOMAIN x[2]
      /\ \A id \in DOMAIN r.item[2] : r.item[2][id] = x[2][id]
      /\ LET next == Min(DOMAIN x[2] \ DOMAIN r.item[2]) IN
         /\ Len(Cbor!Encode(r.item)) <= n
         /\ Len(Cbor!Encode(<<"map", (next :> x[2][next]) @@ r.item[2]>>)) > n
      /\ Cbor!Decode(SubSeq(b, 1, n)) = Cbor!RanOut

(* Octets behind a whole item are never passed over in silence.              *)
ASSUME NothingTrails ==
  \A x \in Scalars \cup Frames : \A octet \in {0, 160, 192, 255} :
    Cbor!DecodeFrame(Cbor!Encode(x) \o <<octet>>) = Cbor!Trailing

(* An item with no reading (a tag, an unknown simple value, a key that is    *)
(* no id, a container too deep) ends the frame, the pairs ahead handed over. *)
ASSUME PairsAheadAreHandedOver ==
  \A x \in Scalars :
    \A junk \in {<<9, 192, 1>>, <<9, 247>>, <<9, 28>>, <<64, 1>>, <<129, 1>>,
                 <<9>> \o Cbor!Encode(Nested(4))} :
      LET b == <<163, 6>> \o Cbor!Encode(x) \o junk \o <<8, 10>> IN
      /\ Cbor!DecodeFrame(b) = Cbor!Unread(<<"map", 6 :> x>>)
      /\ Cbor!Decode(b) = Cbor!Malformed

(* Four containers deep is read and five is not, wherever they stand.        *)
ASSUME DepthIsBounded ==
  \A n \in 0..6 :
    Cbor!Decode(Cbor!Encode(Nested(n))).end = IF n <= Cbor!MaxDepth THEN "ok" ELSE "malformed"
=============================================================================
