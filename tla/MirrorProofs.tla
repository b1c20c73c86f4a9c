---------------------------- MODULE MirrorProofs ----------------------------
(***************************************************************************)
(* What is proved of Mirror, for any ids, any room and any number of those *)
(* who ask: its room is counted right, nobody waits past a report, and the *)
(* one number it keeps for each id tells everybody what Freshness does.    *)
(***************************************************************************)
EXTENDS Mirror, FiniteSetTheorems, TLAPS

\* No report is numbered above the last.
Numbered == \A k \in Id : reportedAt[k] \in 0..reports

\* What is true of one who asks: what it heard is what its number tells it, and
\* it heard something if there was a report since.
Asking(w) ==
    /\ (at[w] = "off") = (asked[w] = None)
    /\ before[w] <= reports
    /\ at[w] = "off" => heard[w] = {}
    /\ at[w] # "off" => heard[w] = Since(before[w])
    /\ at[w] # "off" /\ reports > before[w] => heard[w] # {}
    /\ at[w] = "waiting" => looked[w] = reports

MInv ==
    /\ TypeOK
    /\ RoomIsCounted
    /\ Numbered
    /\ \A w \in Waiter : Asking(w)

-----------------------------------------------------------------------------
\* What is kept of a frame (_kept_of) is of the frame, and what of it takes up
\* room is new, has no name, and fits into what room there is.
LEMMA KeptFits ==
    ASSUME NEW K \in SUBSET Id, NEW kept \in Kept(K), others \in 0..Room
    PROVE  /\ kept \subseteq K
           /\ kept \cap Other \subseteq held \cup New(K)
           /\ kept \cap New(K) \subseteq Other \ held
           /\ IsFiniteSet(kept \cap New(K))
           /\ Cardinality(kept \cap New(K)) \in 0..(Room - others)
<1>1. PICK S \in SUBSET New(K) :
          /\ kept = (K \ New(K)) \cup S
          /\ Cardinality(S) = IF Cardinality(New(K)) < Room - others
                              THEN Cardinality(New(K)) ELSE Room - others
  BY DEF Kept
<1>2. New(K) \subseteq K /\ New(K) \subseteq Other \ held
  BY DEF New, Id
<1>3. kept \cap New(K) = S
  BY <1>1
<1>4. IsFiniteSet(New(K)) /\ IsFiniteSet(S)
  BY <1>2, MirrorAssumption, FS_Subset
<1>5. Cardinality(S) \in Nat
  BY <1>4, FS_CardinalityType
<1>6. Cardinality(S) \in 0..(Room - others)
  BY <1>1, <1>4, <1>5, FS_CardinalityType, MirrorAssumption
<1>7. kept \cap Other \subseteq held \cup New(K)
  BY <1>1, MirrorAssumption DEF New
<1>. QED  BY <1>1, <1>2, <1>3, <1>4, <1>6, <1>7

\* The mirror starts empty, nobody asking.
LEMMA MInvInit == Init => MInv
<1>. SUFFICES ASSUME Init PROVE MInv
  OBVIOUS
<1>1. TypeOK
  <2>1. 0 \in 0..Room /\ 0 \in 0..MaxReports
    BY MirrorAssumption
  <2>. QED  BY <2>1 DEF Init, TypeOK
<1>2. RoomIsCounted
  BY FS_EmptySet DEF Init, RoomIsCounted
<1>3. Numbered
  BY DEF Init, Numbered
<1>4. \A w \in Waiter : Asking(w)
  BY DEF Init, Asking
<1>. QED  BY <1>1, <1>2, <1>3, <1>4 DEF MInv

\* A frame: the room it takes is counted, who waits is woken, and everybody who
\* asks has heard what was kept of it.
LEMMA TakeKeepsMInv ==
    ASSUME MInv, NEW K \in SUBSET Id, Take(K)
    PROVE  MInv' /\ (F!Next \/ UNCHANGED F!fvars)
<1>1. PICK kept \in Kept(K) :
        /\ others' = others + Cardinality(kept \cap New(K))
        /\ turnedAway' = (turnedAway \/ kept # K)
        /\ IF kept = {}
           THEN UNCHANGED <<held, reports, reportedAt, waiters>>
           ELSE /\ reports < MaxReports
                /\ reports' = reports + 1
                /\ held' = held \cup kept
                /\ reportedAt' = [k \in Id |-> IF k \in kept THEN reports + 1
                                               ELSE reportedAt[k]]
                /\ at' = [w \in Waiter |-> IF Wake(w) THEN "woken" ELSE at[w]]
                /\ heard' = [w \in Waiter |-> IF at[w] = "off" THEN {}
                                              ELSE heard[w] \cup kept]
                /\ UNCHANGED <<asked, before, looked, answer>>
  BY DEF Take
<1>. USE MirrorAssumption
<1>2. /\ kept \subseteq K
      /\ kept \cap Other \subseteq held \cup New(K)
      /\ kept \cap New(K) \subseteq Other \ held
      /\ IsFiniteSet(kept \cap New(K))
      /\ Cardinality(kept \cap New(K)) \in 0..(Room - others)
  BY KeptFits DEF MInv, TypeOK
<1>3. CASE kept = {}
  <2>1. UNCHANGED <<held, others, reports, reportedAt, waiters>>
    BY <1>1, <1>3, FS_EmptySet DEF MInv, TypeOK
  <2>2. TypeOK'
    BY <1>1, <2>1 DEF MInv, TypeOK, waiters
  <2>3. RoomIsCounted' /\ Numbered'
    BY <2>1 DEF MInv, RoomIsCounted, Numbered
  <2>4. \A w \in Waiter : Asking(w)'
    BY <2>1 DEF MInv, Asking, Since, waiters
  <2>5. UNCHANGED F!fvars
    BY <2>1 DEF waiters, F!fvars, listening
  <2>. QED  BY <2>2, <2>3, <2>4, <2>5 DEF MInv
<1>4. CASE kept # {}
  <2>1. /\ reports < MaxReports
        /\ reports' = reports + 1
        /\ held' = held \cup kept
        /\ reportedAt' = [k \in Id |-> IF k \in kept THEN reports + 1
                                       ELSE reportedAt[k]]
        /\ at' = [w \in Waiter |-> IF Wake(w) THEN "woken" ELSE at[w]]
        /\ heard' = [w \in Waiter |-> IF at[w] = "off" THEN {} ELSE heard[w] \cup kept]
        /\ UNCHANGED <<asked, before, looked, answer>>
    BY <1>1, <1>4
  <2>2. TypeOK'
    BY <1>1, <1>2, <2>1 DEF MInv, TypeOK, Listening
  <2>3. RoomIsCounted'
    <3>1. held' \cap Other = (held \cap Other) \cup (kept \cap New(K))
      BY <1>2, <2>1 DEF New
    <3>2. (held \cap Other) \cap (kept \cap New(K)) = {}
      BY <1>2
    <3>3. IsFiniteSet(held \cap Other)
      BY FS_Subset DEF Id
    <3>4. Cardinality((held \cap Other) \cup (kept \cap New(K)))
            = Cardinality(held \cap Other) + Cardinality(kept \cap New(K))
                - Cardinality((held \cap Other) \cap (kept \cap New(K)))
      BY <1>2, <3>3, FS_Union
    <3>5. Cardinality((held \cap Other) \cap (kept \cap New(K))) = 0
      BY <3>2, FS_EmptySet
    <3>6. Cardinality(held' \cap Other) = others + Cardinality(kept \cap New(K))
      <4>1. others = Cardinality(held \cap Other) /\ others \in Nat
        BY DEF MInv, RoomIsCounted, TypeOK
      <4>2. Cardinality(kept \cap New(K)) \in Nat
        BY <1>2
      <4>3. Cardinality(held' \cap Other) = Cardinality((held \cap Other) \cup (kept \cap New(K)))
        BY <3>1
      <4>. QED  BY <3>4, <3>5, <4>1, <4>2, <4>3
    <3>. QED  BY <1>1, <3>6 DEF RoomIsCounted
  <2>4. Numbered'
    BY <2>1 DEF MInv, Numbered, TypeOK
  <2>5. ASSUME NEW w \in Waiter PROVE Asking(w)'
    <3>1. Asking(w) /\ TypeOK /\ Numbered
      BY DEF MInv
    <3>2. /\ (at'[w] = "off") = (at[w] = "off") /\ at'[w] # "waiting"
      BY <2>1, <3>1 DEF TypeOK, Wake
    <3>3. Since(before[w])' = Since(before[w]) \cup kept
      BY <1>2, <2>1, <3>1 DEF Since, TypeOK, Asking
    <3>. QED  BY <2>1, <3>1, <3>2, <3>3, <1>4 DEF Asking, TypeOK
  <2>6. F!Report(kept)
    <3>1. listening' = listening
      BY <2>1 DEF MInv, TypeOK, Wake, listening, Listening
    <3>. QED  BY <2>1, <3>1 DEF MInv, Asking, TypeOK, F!Report
  <2>. QED  BY <1>2, <1>4, <2>2, <2>3, <2>4, <2>5, <2>6 DEF MInv, F!Next
<1>. QED  BY <1>3, <1>4

\* An echo takes up no room, being of ids with a name, and tells nobody.
LEMMA EchoKeepsMInv ==
    ASSUME MInv, NEW K \in SUBSET Known, Echo(K)
    PROVE  MInv' /\ UNCHANGED F!fvars
<1>1. /\ held' = held \cup K
      /\ UNCHANGED <<others, turnedAway, reports, reportedAt, waiters>>
  BY DEF Echo
<1>2. TypeOK'
  BY <1>1 DEF MInv, TypeOK, waiters, Id
<1>3. RoomIsCounted'
  <2>1. held' \cap Other = held \cap Other
    BY <1>1, MirrorAssumption
  <2>. QED  BY <1>1, <2>1 DEF MInv, RoomIsCounted
<1>4. Numbered' /\ \A w \in Waiter : Asking(w)'
  BY <1>1 DEF MInv, Numbered, Asking, Since, waiters
<1>5. UNCHANGED F!fvars
  BY <1>1 DEF waiters, F!fvars, listening
<1>. QED  BY <1>2, <1>3, <1>4, <1>5 DEF MInv

\* What one who asks does is its own, and changes nothing the frames do.
LEMMA OthersUndisturbed ==
    ASSUME MInv, NEW w \in Waiter, UNCHANGED intake, TypeOK', Asking(w)',
           \A v \in Waiter \ {w} :
               /\ at'[v] = at[v] /\ asked'[v] = asked[v] /\ before'[v] = before[v]
               /\ heard'[v] = heard[v] /\ looked'[v] = looked[v]
    PROVE  MInv'
<1>1. RoomIsCounted' /\ Numbered'
  BY DEF MInv, RoomIsCounted, Numbered, intake
<1>2. ASSUME NEW v \in Waiter \ {w} PROVE Asking(v)'
  BY <1>2 DEF MInv, Asking, Since, intake
<1>. QED  BY <1>1, <1>2 DEF MInv

\* Who begins to ask has heard nothing.
LEMMA AsksKeepsMInv ==
    ASSUME MInv, NEW w \in Waiter, NEW q \in Question, Asks(w, q)
    PROVE  MInv' /\ F!Asks(w, q)
<1>. USE MirrorAssumption
<1>1. TypeOK /\ Asking(w) /\ Numbered
  BY DEF MInv
<1>2. TypeOK'
  BY <1>1 DEF TypeOK, Asks, intake
<1>3. /\ at'[w] = "writing" /\ asked'[w] = q /\ before'[w] = reports
      /\ heard'[w] = {} /\ UNCHANGED intake
  BY <1>1 DEF TypeOK, Asks
<1>4. Since(reports) = {}
  BY <1>1 DEF Since, Numbered, TypeOK
<1>5. Asking(w)'
  BY <1>1, <1>3, <1>4 DEF Asking, Since, intake, TypeOK
<1>6. MInv'
  <2>1. \A v \in Waiter \ {w} :
            /\ at'[v] = at[v] /\ asked'[v] = asked[v] /\ before'[v] = before[v]
            /\ heard'[v] = heard[v] /\ looked'[v] = looked[v]
    BY <1>1 DEF Asks, TypeOK
  <2>. QED  BY <1>2, <1>3, <1>5, <2>1, OthersUndisturbed
<1>7. F!Asks(w, q)
  <2>1. listening' = listening
    BY <1>1 DEF Asks, TypeOK, listening, Listening
  <2>. QED  BY <1>1, <2>1 DEF Asks, Asking, F!Asks
<1>. QED  BY <1>6, <1>7

\* Who is told asks no more.
LEMMA IsToldKeepsMInv ==
    ASSUME MInv, NEW w \in Waiter, NEW a \in {"none", "yes", "no"}, at[w] # "off", IsTold(w, a)
    PROVE  MInv' /\ F!Ends(w, a)
<1>1. TypeOK /\ Asking(w)
  BY DEF MInv
<1>2. TypeOK'
  BY <1>1, MirrorAssumption DEF TypeOK, IsTold, intake, Listening
<1>3. Asking(w)'
  BY <1>1 DEF IsTold, Asking, TypeOK, intake
<1>4. MInv'
  <2>1. UNCHANGED intake
    BY DEF IsTold
  <2>2. \A v \in Waiter \ {w} :
            /\ at'[v] = at[v] /\ asked'[v] = asked[v] /\ before'[v] = before[v]
            /\ heard'[v] = heard[v] /\ looked'[v] = looked[v]
    BY <1>1 DEF IsTold, TypeOK
  <2>. QED  BY <1>2, <1>3, <2>1, <2>2, OthersUndisturbed
<1>5. listening' = [listening EXCEPT ![w] = FALSE]
  <2>1. \A v \in Waiter : at'[v] = IF v = w THEN "off" ELSE at[v]
    BY <1>1 DEF IsTold, TypeOK
  <2>2. ASSUME NEW v \in Waiter
        PROVE  (at'[v] \in Listening) = (IF v = w THEN FALSE ELSE at[v] \in Listening)
    <3>1. CASE v = w
      <4>1. at'[v] = "off"
        BY <2>1, <3>1
      <4>2. (at'[v] \in Listening) = FALSE
        BY <4>1 DEF Listening
      <4>. QED  BY <3>1, <4>2, Zenon
    <3>2. CASE v # w
      BY <2>1, <3>2, Zenon
    <3>. QED  BY <3>1, <3>2
  <2>3. listening' = [v \in Waiter |-> IF v = w THEN FALSE ELSE at[v] \in Listening]
    BY <2>2, Zenon DEF listening
  <2>. QED  BY <2>3 DEF listening
<1>6. F!Ends(w, a)
  BY <1>1, <1>5 DEF IsTold, Asking, F!Ends
<1>. QED  BY <1>4, <1>6

\* Who finds its question answered has heard the answer.
LEMMA FindsKeepsMInv ==
    ASSUME MInv, NEW w \in Waiter, Finds(w)
    PROVE  MInv' /\ F!Yes(w)
<1>1. TypeOK /\ Asking(w) /\ at[w] # "off" /\ at[w] \in Listening /\ IsTold(w, "yes")
  BY DEF MInv, Finds, Listening
<1>2. MInv' /\ F!Ends(w, "yes")
  BY <1>1, IsToldKeepsMInv
<1>3. F!Answered(asked[w], heard[w])
  BY <1>1 DEF Finds, Asking, Answered, F!Answered
<1>. QED  BY <1>1, <1>2, <1>3 DEF listening, F!Yes

\* Who waits has looked at the last report.
LEMMA WaitsKeepsMInv ==
    ASSUME MInv, NEW w \in Waiter, Waits(w)
    PROVE  MInv' /\ UNCHANGED F!fvars
<1>1. TypeOK /\ Asking(w)
  BY DEF MInv
<1>2. TypeOK'
  BY <1>1 DEF TypeOK, Waits, intake, Listening
<1>3. Asking(w)'
  BY <1>1 DEF Waits, Asking, TypeOK, Since, intake
<1>4. MInv'
  <2>1. UNCHANGED intake
    BY DEF Waits
  <2>2. \A v \in Waiter \ {w} :
            /\ at'[v] = at[v] /\ asked'[v] = asked[v] /\ before'[v] = before[v]
            /\ heard'[v] = heard[v] /\ looked'[v] = looked[v]
    BY <1>1 DEF Waits, TypeOK
  <2>. QED  BY <1>2, <1>3, <2>1, <2>2, OthersUndisturbed
<1>5. listening' = listening
  BY <1>1 DEF Waits, TypeOK, listening, Listening
<1>. QED  BY <1>4, <1>5 DEF Waits, F!fvars

\* Who begins to listen has heard since it asked, and goes on hearing.
LEMMA ListensKeepsMInv ==
    ASSUME MInv, NEW w \in Waiter, Listens(w)
    PROVE  MInv' /\ F!Listens(w)
<1>1. TypeOK /\ Asking(w)
  BY DEF MInv
<1>2. TypeOK'
  BY <1>1 DEF TypeOK, Listens, intake, Listening
<1>3. Asking(w)'
  BY <1>1 DEF Listens, Asking, TypeOK, Since, intake
<1>4. MInv'
  <2>1. UNCHANGED intake
    BY DEF Listens
  <2>2. \A v \in Waiter \ {w} :
            /\ at'[v] = at[v] /\ asked'[v] = asked[v] /\ before'[v] = before[v]
            /\ heard'[v] = heard[v] /\ looked'[v] = looked[v]
    BY <1>1 DEF Listens, TypeOK
  <2>. QED  BY <1>2, <1>3, <2>1, <2>2, OthersUndisturbed
<1>5. listening' = [listening EXCEPT ![w] = TRUE]
  BY <1>1 DEF Listens, TypeOK, listening, Listening
<1>. QED  BY <1>1, <1>4, <1>5 DEF Listens, Asking, F!Listens

\* Who is not told is told neither.
LEMMA WithdrawsKeepsMInv ==
    ASSUME MInv, NEW w \in Waiter, Withdraws(w)
    PROVE  MInv' /\ F!Withdraws(w)
BY IsToldKeepsMInv DEF Withdraws, F!Withdraws

\* Whose deadline strikes was listening; it is told yes only if it heard something,
\* and no, having asked for all, only if it heard nothing.
LEMMA TimesOutKeepsMInv ==
    ASSUME MInv, NEW w \in Waiter, TimesOut(w)
    PROVE  MInv' /\ (F!Yes(w) \/ F!No(w))
<1>1. /\ TypeOK /\ Asking(w) /\ Numbered
      /\ at[w] \in Listening /\ at[w] # "off" /\ asked[w] # None
  BY DEF MInv, TimesOut, Asking, Listening
<1>2. CASE asked[w].all /\ reports > before[w]
  <2>1. IsTold(w, "yes")
    BY <1>2 DEF TimesOut
  <2>2. MInv' /\ F!Ends(w, "yes")
    BY <1>1, <2>1, IsToldKeepsMInv
  <2>. QED  BY <1>1, <1>2, <2>2 DEF Asking, listening, F!Yes
<1>3. CASE ~ (asked[w].all /\ reports > before[w])
  <2>1. IsTold(w, "no")
    BY <1>3 DEF TimesOut
  <2>2. MInv' /\ F!Ends(w, "no")
    BY <1>1, <2>1, IsToldKeepsMInv
  <2>3. asked[w].all => heard[w] = {}
    BY <1>1, <1>3 DEF Asking, Since, Numbered, TypeOK
  <2>. QED  BY <1>1, <2>2, <2>3 DEF listening, F!No
<1>. QED  BY <1>2, <1>3

-----------------------------------------------------------------------------
\* Every step keeps the invariant, and is a step of Freshness or none.
LEMMA NextKeepsMInv ==
    ASSUME MInv, [Next]_vars
    PROVE  MInv' /\ (F!Next \/ UNCHANGED F!fvars)
<1>1. ASSUME NEW K \in SUBSET Id, Take(K)
      PROVE  MInv' /\ (F!Next \/ UNCHANGED F!fvars)
  BY <1>1, TakeKeepsMInv
<1>2. ASSUME NEW K \in SUBSET Known, Echo(K)
      PROVE  MInv' /\ (F!Next \/ UNCHANGED F!fvars)
  BY <1>2, EchoKeepsMInv
<1>3. ASSUME NEW w \in Waiter, NEW q \in Question, Asks(w, q)
      PROVE  MInv' /\ (F!Next \/ UNCHANGED F!fvars)
  BY <1>3, AsksKeepsMInv DEF F!Next
<1>4. ASSUME NEW w \in Waiter, Finds(w)
      PROVE  MInv' /\ (F!Next \/ UNCHANGED F!fvars)
  BY <1>4, FindsKeepsMInv DEF F!Next
<1>5. ASSUME NEW w \in Waiter, Waits(w)
      PROVE  MInv' /\ (F!Next \/ UNCHANGED F!fvars)
  BY <1>5, WaitsKeepsMInv
<1>6. ASSUME NEW w \in Waiter, Listens(w)
      PROVE  MInv' /\ (F!Next \/ UNCHANGED F!fvars)
  BY <1>6, ListensKeepsMInv DEF F!Next
<1>7. ASSUME NEW w \in Waiter, TimesOut(w)
      PROVE  MInv' /\ (F!Next \/ UNCHANGED F!fvars)
  BY <1>7, TimesOutKeepsMInv DEF F!Next
<1>8. ASSUME NEW w \in Waiter, Withdraws(w)
      PROVE  MInv' /\ (F!Next \/ UNCHANGED F!fvars)
  BY <1>8, WithdrawsKeepsMInv DEF F!Next
<1>9. CASE UNCHANGED vars
  BY <1>9 DEF MInv, TypeOK, RoomIsCounted, Numbered, Asking, Since,
              vars, intake, waiters, listening, F!fvars
<1>. QED  BY <1>1, <1>2, <1>3, <1>4, <1>5, <1>6, <1>7, <1>8, <1>9 DEF Next

\* The inductive invariant holds of every state of the specification.
THEOREM MirrorInvariant == Spec => []MInv
<1>1. MInv /\ [Next]_vars => MInv'
  BY NextKeepsMInv
<1>. QED  BY MInvInit, <1>1, PTL DEF Spec

\* Types, and that the room is never exceeded (others in 0..Room).
THEOREM MirrorTypeCorrect == Spec => []TypeOK
<1>1. MInv => TypeOK
  BY DEF MInv
<1>. QED  BY <1>1, MirrorInvariant, PTL

\* The count of ids without a name is the number held, whatever frames came.
THEOREM RoomCounted == Spec => []RoomIsCounted
<1>1. MInv => RoomIsCounted
  BY DEF MInv
<1>. QED  BY <1>1, MirrorInvariant, PTL

\* Nobody waits past a report (next_report, _wake).
THEOREM NobodyWaitsPast == Spec => []NoReportMissed
<1>1. MInv => NoReportMissed
  BY DEF MInv, Asking, NoReportMissed
<1>. QED  BY <1>1, MirrorInvariant, PTL

\* The mirror implements Freshness: one number for each id tells everybody who
\* asks what frames have carried since it began to.
THEOREM MirrorIsFresh == Spec => CountsSince
<1>1. Init => F!Init
  <2>1. Init => \A w \in Waiter : (at[w] \in Listening) = FALSE
    BY DEF Init, Listening
  <2>. QED  BY <2>1 DEF Init, F!Init, listening
<1>2. MInv /\ [Next]_vars => [F!Next]_F!fvars
  BY NextKeepsMInv
<1>. QED  BY <1>1, <1>2, MirrorInvariant, PTL DEF Spec, CountsSince, F!Spec
=============================================================================
