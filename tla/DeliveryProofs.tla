--------------------------- MODULE DeliveryProofs ---------------------------
(***************************************************************************)
(* What Delivery promises, for any number of calls, properties and         *)
(* attempts: commands are at the lamp one at a time, the mirror shows what *)
(* the lamp was, and a command is called done on the lamp's word.          *)
(***************************************************************************)
EXTENDS Delivery, TLAPS

\* What a command is, and that there is none where a call is not at one.
LEMMA PayloadIsOne ==
    /\ \A p \in Payload : DOMAIN p \subseteq Key /\ \A k \in DOMAIN p : p[k] \in Value
    /\ DOMAIN <<>> = {}
<1>1. ASSUME NEW p \in Payload
      PROVE  DOMAIN p \subseteq Key /\ \A k \in DOMAIN p : p[k] \in Value
  <2>1. PICK K \in SUBSET Key : p \in [K -> Value]  BY <1>1 DEF Payload
  <2> QED  BY <2>1
<1>2. DOMAIN <<>> = {}  OBVIOUS
<1> QED  BY <1>1, <1>2

\* Whatever the lamp becomes, what is known of it stays sound: its new values go
\* into the histories with it.
LEMMA BecomesTyped ==
    ASSUME TypeOK, NEW m \in [Key -> Value], Becomes(m)
    PROVE  /\ lamp' \in [Key -> Value]
           /\ had'  \in [Caller -> SUBSET Key]
           /\ ever' \in [Key -> SUBSET Value]
<1>1. \A c \in Caller : Agree(payload[c], m) \subseteq Key
  BY PayloadIsOne DEF Agree, TypeOK
<1> QED  BY <1>1 DEF Becomes, TypeOK

\* A lamp that is told a command is a lamp still.
LEMMA ActedIsALamp ==
    ASSUME TypeOK, NEW c \in Caller
    PROVE  Acted(payload[c]) \in [Key -> Value]
BY PayloadIsOne, KeysAssumption DEF Acted, TypeOK

\* A call whose command is over is a call still.
LEMMA OverTyped ==
    ASSUME TypeOK, NEW c \in Caller, NEW t \in Rest, Over(c, t)
    PROVE  /\ task'    \in [Caller -> Busy \cup Rest]
           /\ payload' \in [Caller -> Payload \cup {<<>>}]
           /\ left'    \in [Caller -> 0..Attempts]
           /\ said'    \in [Caller -> BOOLEAN]
           /\ fresh'   \in [Caller -> SUBSET StateKeys]
<1>1. 0 \in 0..Attempts  BY KeysAssumption
<1> QED  BY <1>1 DEF TypeOK, Over, Goes

\* Its history may be forgotten then.
LEMMA ForgottenTyped ==
    ASSUME TypeOK, NEW c \in Caller, Forgotten(c)
    PROVE  had' \in [Caller -> SUBSET Key]
BY DEF TypeOK, Forgotten

\* The initial states are sound.
LEMMA InitIsSound == DInit => DInv
<1> SUFFICES ASSUME DInit PROVE DInv  OBVIOUS
<1>1. TypeOK  BY KeysAssumption DEF DInit, TypeOK, Rest
<1>2. \A c \in Caller : DOMAIN payload[c] = {}  BY PayloadIsOne DEF DInit
<1>3. \A c \in Caller, m \in {lamp, mirror} : Agree(payload[c], m) = {}
  BY <1>2 DEF Agree
<1>4. MirrorIsTheLamps  BY DEF DInit, MirrorIsTheLamps
<1>5. LockedWhileWritten  BY DEF DInit, LockedWhileWritten, Under
<1>6. \A k \in Key : lamp[k] \in ever[k]  BY DEF DInit
<1> QED  BY <1>1, <1>2, <1>3, <1>4, <1>5, <1>6 DEF DInv, DInit

\* Every step keeps the type.
LEMMA StepKeepsType == ASSUME TypeOK, DNext PROVE TypeOK'
<1> USE DEF Busy, Under, Rest, Goes, commands, histories
<1>1. ASSUME NEW c \in Caller, NEW p \in Payload, TakeUp(c, p) PROVE TypeOK'
  <2>1. Agree(p, lamp) \subseteq Key  BY PayloadIsOne DEF Agree
  <2> QED  BY <1>1, <2>1, KeysAssumption DEF TypeOK, TakeUp
<1>2. ASSUME NEW c \in Caller, Granted(c) PROVE TypeOK'
  BY <1>2 DEF TypeOK, Granted
<1>3. ASSUME NEW c \in Caller, Put(c) PROVE TypeOK'
  BY <1>3 DEF TypeOK, Put
<1>4. ASSUME NEW c \in Caller, Reaches(c) PROVE TypeOK'
  <2>1. Acted(payload[c]) \in [Key -> Value]  BY ActedIsALamp
  <2>2. /\ lamp' \in [Key -> Value]
        /\ had'  \in [Caller -> SUBSET Key]
        /\ ever' \in [Key -> SUBSET Value]
    BY <1>4, <2>1, BecomesTyped DEF Reaches
  <2> QED  BY <1>4, <2>2 DEF TypeOK, Reaches
<1>5. ASSUME NEW c \in Caller, Acked(c) PROVE TypeOK'
  <2>1. payload[c] \in Payload \cup {<<>>}  BY DEF TypeOK
  <2>2. mirror' \in [Key -> Value \cup {None}]
    BY <1>5, <2>1, PayloadIsOne DEF TypeOK, Acked, With
  <2>3. had' \in [Caller -> SUBSET Key]
    BY <1>5, <2>1, PayloadIsOne DEF TypeOK, Acked
  <2>4. lock' \in Caller \cup {None}  BY <1>5 DEF TypeOK, Acked, Unlock
  <2>5. Over(c, "done")  BY <1>5 DEF Acked
  <2> QED  BY <1>5, <2>2, <2>3, <2>4, <2>5, OverTyped DEF TypeOK, Acked
<1>6. ASSUME NEW c \in Caller, TriedAgain(c) PROVE TypeOK'
  BY <1>6, KeysAssumption DEF TypeOK, TriedAgain
<1>7. ASSUME NEW c \in Caller, WriteFails(c) PROVE TypeOK'
  <2>1. lock' \in Caller \cup {None}  BY <1>7 DEF TypeOK, WriteFails, Unlock
  <2>2. CASE said[c]
    BY <1>7, <2>1, <2>2 DEF TypeOK, WriteFails
  <2>3. CASE ~ said[c]
    <3>1. Over(c, "failed")  BY <1>7, <2>3 DEF WriteFails
    <3> QED  BY <1>7, <2>1, <3>1, OverTyped, ForgottenTyped DEF TypeOK, WriteFails
  <2> QED  BY <2>2, <2>3
<1>8. ASSUME NEW c \in Caller, Vouched(c) \/ NotVouched(c) PROVE TypeOK'
  <2>1. PICK t \in Rest : Over(c, t)  BY <1>8 DEF Vouched, NotVouched
  <2> QED  BY <1>8, <2>1, OverTyped, ForgottenTyped DEF TypeOK, Vouched, NotVouched
<1>9. CASE LampChanges
  <2>1. PICK k \in Key, v \in Value : Becomes([lamp EXCEPT ![k] = v])
    BY <1>9 DEF LampChanges
  <2>2. [lamp EXCEPT ![k] = v] \in [Key -> Value]  BY DEF TypeOK
  <2>3. /\ lamp' \in [Key -> Value]
        /\ had'  \in [Caller -> SUBSET Key]
        /\ ever' \in [Key -> SUBSET Value]
    BY <2>1, <2>2, BecomesTyped
  <2> QED  BY <1>9, <2>3 DEF TypeOK, LampChanges
<1>10. CASE Report
  BY <1>10, KeysAssumption DEF TypeOK, Report
<1> QED
  BY <1>1, <1>2, <1>3, <1>4, <1>5, <1>6, <1>7, <1>8, <1>9, <1>10
  DEF DNext, Sending, Outcome

\* Every step keeps the lock with whoever has put its write to a link.
LEMMA StepKeepsLock ==
    ASSUME TypeOK, LockedWhileWritten, DNext PROVE LockedWhileWritten'
<1> USE DEF LockedWhileWritten, Under, Rest, Goes, Unlock, TypeOK
<1>1. ASSUME NEW c \in Caller, NEW p \in Payload, TakeUp(c, p) PROVE LockedWhileWritten'
  BY <1>1 DEF TakeUp
<1>2. ASSUME NEW c \in Caller, Granted(c) PROVE LockedWhileWritten'
  BY <1>2, KeysAssumption DEF Granted
<1>3. ASSUME NEW c \in Caller, Put(c) \/ TriedAgain(c) PROVE LockedWhileWritten'
  BY <1>3 DEF Put, TriedAgain
<1>4. ASSUME NEW c \in Caller, Reaches(c) PROVE LockedWhileWritten'
  BY <1>4 DEF Reaches
<1>5. ASSUME NEW c \in Caller, Acked(c) PROVE LockedWhileWritten'
  BY <1>5 DEF Acked, Over
<1>6. ASSUME NEW c \in Caller, WriteFails(c) PROVE LockedWhileWritten'
  BY <1>6 DEF WriteFails, Over
<1>7. ASSUME NEW c \in Caller, Vouched(c) \/ NotVouched(c) PROVE LockedWhileWritten'
  BY <1>7 DEF Vouched, NotVouched, Over
<1>8. CASE LampChanges  BY <1>8 DEF LampChanges, commands
<1>9. CASE Report  BY <1>9 DEF Report
<1> QED
  BY <1>1, <1>2, <1>3, <1>4, <1>5, <1>6, <1>7, <1>8, <1>9 DEF DNext, Sending, Outcome

\* What is known of a call that is Over: it has no command, so nothing of it can
\* agree with anything.
LEMMA NothingAgrees == \A m : Agree(<<>>, m) = {}
BY PayloadIsOne DEF Agree

\* A step by which the lamp becomes m, and that leaves the mirror and every
\* command alone, keeps what is known sound.
LEMMA BecomingKeepsSound ==
    ASSUME DInv, NEW m \in [Key -> Value], Becomes(m),
           UNCHANGED <<mirror, payload, fresh>>
    PROVE  /\ MirrorIsTheLamps'
           /\ \A k \in Key : lamp'[k] \in ever'[k]
           /\ \A c \in Caller :
                 /\ had[c] \subseteq had'[c]
                 /\ Agree(payload[c], m) \subseteq had'[c]
                 /\ (Agree(payload[c], lamp) \subseteq had[c])'
                 /\ (fresh[c] \cap Agree(payload[c], mirror) \subseteq had[c])'
           /\ \A k \in Key : ever[k] \subseteq ever'[k]
<1>1. /\ \A k \in Key : ever'[k] = ever[k] \cup {m[k]}
      /\ \A c \in Caller : had'[c] = had[c] \cup Agree(payload[c], m)
      /\ lamp' = m
  BY DEF Becomes
<1>2. MirrorIsTheLamps'  BY <1>1 DEF DInv, MirrorIsTheLamps
<1>3. \A c \in Caller : fresh[c] \cap Agree(payload[c], mirror) \subseteq had[c]
  BY DEF DInv
<1>4. \A c \in Caller : /\ (Agree(payload[c], lamp) \subseteq had[c])'
                        /\ (fresh[c] \cap Agree(payload[c], mirror) \subseteq had[c])'
  BY <1>1, <1>3 DEF Agree
<1> QED  BY <1>1, <1>2, <1>4

\* What is known of call c: what it sets and the lamp has or had, was reported,
\* or was written.
Known(c) ==
    /\ Agree(payload[c], lamp) \subseteq had[c]
    /\ fresh[c] \cap Agree(payload[c], mirror) \subseteq had[c]
    /\ task[c] = "written" =>
          \A k \in DOMAIN payload[c] : k \in had[c] /\ payload[c][k] \in ever[k]

Remembered == MirrorIsTheLamps /\ \A k \in Key : lamp[k] \in ever[k]

\* A step that changes nothing of a call's command but where it is keeps what is
\* known of it, unless that is that it was written.
LEMMA KnownStays ==
    ASSUME NEW c \in Caller, Known(c),
           UNCHANGED <<lamp, mirror, ever>>, had'[c] = had[c],
           payload'[c] = payload[c], fresh'[c] = fresh[c],
           task'[c] = "written" => task[c] = "written"
    PROVE  Known(c)'
BY DEF Known, Agree

\* A call whose command is over has nothing to be known of.
LEMMA KnownOver ==
    ASSUME TypeOK, NEW c \in Caller, NEW t \in Rest, Over(c, t)
    PROVE  Known(c)'
<1>1. payload'[c] = <<>> /\ fresh'[c] = {} /\ task'[c] = t  BY DEF Over, Goes, TypeOK
<1>2. \A m : {k \in DOMAIN <<>> : m[k] = <<>>[k]} = {}  BY PayloadIsOne
<1> QED  BY <1>1, <1>2, PayloadIsOne DEF Known, Agree, Rest

\* The others are left alone by it.
LEMMA OthersLeftAlone ==
    ASSUME TypeOK, NEW c \in Caller, NEW t, Over(c, t), NEW d \in Caller, d # c
    PROVE  payload'[d] = payload[d] /\ fresh'[d] = fresh[d] /\ task'[d] = task[d]
BY DEF TypeOK, Over, Goes

\* An acknowledged command is echoed: by then the lamp had all of it, and the
\* other commands are told of what they have in common.
LEMMA AckedKeepsSound ==
    ASSUME DInv, NEW c \in Caller, Acked(c)
    PROVE  Remembered' /\ \A d \in Caller : Known(d)'
<1>1. /\ \A k \in Key : mirror'[k] = IF k \in DOMAIN payload[c] THEN payload[c][k]
                                     ELSE mirror[k]
      /\ \A d \in Caller \ {c} :
            had'[d] = had[d] \cup {k \in DOMAIN payload[c] \cap DOMAIN payload[d] :
                                      payload[c][k] = payload[d][k]}
      /\ lamp' = lamp /\ ever' = ever /\ Over(c, "done")
  BY DEF Acked, With
<1>2. \A k \in DOMAIN payload[c] : payload[c][k] \in ever[k]
  BY DEF DInv, Acked
<1>3. Remembered'  BY <1>1, <1>2 DEF Remembered, DInv, MirrorIsTheLamps
<1>4. Known(c)'  BY <1>1, KnownOver DEF DInv, Rest
<1>5. ASSUME NEW d \in Caller, d # c PROVE Known(d)'
  <2>1. payload'[d] = payload[d] /\ fresh'[d] = fresh[d] /\ task'[d] = task[d]
    BY <1>1, <1>5, OthersLeftAlone DEF DInv
  <2>2. payload[d] \in Payload \cup {<<>>}  BY DEF DInv, TypeOK
  <2>3. DOMAIN payload[d] \subseteq Key  BY <2>2, PayloadIsOne
  <2>4. Agree(payload[d], mirror') \subseteq
           Agree(payload[d], mirror)
             \cup {k \in DOMAIN payload[c] \cap DOMAIN payload[d] :
                      payload[c][k] = payload[d][k]}
    BY <1>1, <2>3 DEF Agree
  <2>5. fresh[d] \cap Agree(payload[d], mirror) \subseteq had[d]  BY DEF DInv
  <2>6. (fresh[d] \cap Agree(payload[d], mirror) \subseteq had[d])'
    BY <1>1, <1>5, <2>1, <2>4, <2>5 DEF Agree
  <2>7. (Agree(payload[d], lamp) \subseteq had[d])'
    BY <1>1, <1>5, <2>1 DEF DInv, Agree
  <2> QED  BY <1>1, <1>5, <2>1, <2>6, <2>7 DEF Known, DInv
<1> QED  BY <1>3, <1>4, <1>5

\* A report is the lamp's word on what it carries.
LEMMA ReportKeepsSound ==
    ASSUME DInv, Report
    PROVE  Remembered' /\ \A c \in Caller : Known(c)'
<1>1. PICK K \in Carried :
        /\ mirror' = [k \in Key |-> IF k \in K THEN lamp[k] ELSE mirror[k]]
        /\ fresh'  = [c \in Caller |-> IF task[c] \in Busy THEN fresh[c] \cup K ELSE {}]
  BY DEF Report
<1>2. UNCHANGED <<lamp, task, payload, histories>>  BY DEF Report
<1>3. Remembered'
  BY <1>1, <1>2 DEF Remembered, DInv, MirrorIsTheLamps, histories
<1>4. ASSUME NEW c \in Caller PROVE Known(c)'
  <2>1. payload[c] \in Payload \cup {<<>>}  BY DEF DInv, TypeOK
  <2>2. DOMAIN payload[c] \subseteq Key  BY <2>1, PayloadIsOne
  <2>3. ASSUME NEW k \in fresh'[c] \cap Agree(payload[c], mirror') PROVE k \in had[c]
    <3>1. k \in Key /\ payload[c][k] = mirror'[k] /\ k \in DOMAIN payload[c]
      BY <2>2, <2>3 DEF Agree
    <3>2. CASE k \in K  BY <1>1, <3>1, <3>2 DEF DInv, Agree
    <3>3. CASE k \notin K
      <4>1. k \in fresh[c] /\ mirror'[k] = mirror[k]  BY <1>1, <2>3, <3>1, <3>3
      <4> QED  BY <3>1, <4>1 DEF DInv, Agree
    <3> QED  BY <3>2, <3>3
  <2>4. (fresh[c] \cap Agree(payload[c], mirror) \subseteq had[c])'
    BY <1>2, <2>3 DEF histories, Agree
  <2> QED  BY <1>2, <2>4 DEF Known, DInv, Agree, histories
<1> QED  BY <1>3, <1>4

\* A command that is taken up is about the lamp as it is.
LEMMA TakeUpKeepsSound ==
    ASSUME DInv, NEW c \in Caller, NEW p \in Payload, TakeUp(c, p)
    PROVE  Remembered' /\ \A d \in Caller : Known(d)'
<1>1. Remembered'  BY DEF TakeUp, Remembered, DInv, MirrorIsTheLamps
<1>2. ASSUME NEW d \in Caller PROVE Known(d)'
  <2>1. CASE d = c
    <3>1. payload'[c] = p /\ task'[c] = "queued" /\ had'[c] = Agree(p, lamp)
      BY DEF TakeUp, Goes, DInv, TypeOK
    <3>2. fresh'[c] = {}  BY DEF TakeUp, DInv, TypeOK
    <3> QED  BY <2>1, <3>1, <3>2 DEF Known, TakeUp, Agree
  <2>2. CASE d # c
    <3>1. payload'[d] = payload[d] /\ task'[d] = task[d] /\ had'[d] = had[d]
      BY <2>2 DEF TakeUp, Goes, DInv, TypeOK
    <3> QED  BY <3>1 DEF Known, TakeUp, DInv, Agree
  <2> QED  BY <2>1, <2>2
<1> QED  BY <1>1, <1>2

\* Every step of DNext keeps DInv.
LEMMA StepKeepsInv == ASSUME DInv, DNext PROVE DInv'
<1>1. TypeOK'  BY StepKeepsType DEF DInv
<1>2. LockedWhileWritten'  BY StepKeepsLock DEF DInv
<1>3. Remembered' /\ \A c \in Caller : Known(c)'
  <2>0. Remembered /\ \A d \in Caller : Known(d)  BY DEF DInv, Remembered, Known
  <2> DEFINE Q == Remembered' /\ \A d \in Caller : Known(d)'
  <2> HIDE DEF Q
  <2>1. ASSUME NEW c \in Caller, NEW p \in Payload, TakeUp(c, p) PROVE Q
    BY <2>1, TakeUpKeepsSound DEF Q
  <2>2. ASSUME NEW c \in Caller, Granted(c) \/ Put(c) \/ TriedAgain(c) PROVE Q
    <3>1. UNCHANGED <<lamp, mirror, payload, fresh, had, ever>>
      BY <2>2 DEF Granted, Put, TriedAgain, histories
    <3>2. \A d \in Caller : task'[d] = "written" => task[d] = "written"
      BY <2>2 DEF Granted, Put, TriedAgain, Goes, DInv, TypeOK
    <3>3. \A d \in Caller : Known(d)'
      <4> TAKE d \in Caller
      <4> QED  BY <2>0, <3>1, <3>2, KnownStays
    <3>4. Remembered'  BY <2>0, <3>1 DEF Remembered, MirrorIsTheLamps
    <3> QED  BY <3>3, <3>4 DEF Q
  <2>3. ASSUME NEW c \in Caller, Reaches(c) PROVE Q
    <3> DEFINE m == Acted(payload[c])
    <3>1. m \in [Key -> Value]  BY ActedIsALamp DEF DInv
    <3>2. Becomes(m) /\ UNCHANGED <<mirror, payload, fresh>>  BY <2>3 DEF Reaches
    <3>3. payload[c] \in Payload \cup {<<>>}  BY DEF DInv, TypeOK
    <3>4. \A k \in DOMAIN payload[c] : k \in Key /\ m[k] = payload[c][k]
      BY <3>3, PayloadIsOne DEF Acted
    <3>5. \A k \in DOMAIN payload[c] : k \in had'[c] /\ payload[c][k] \in ever'[k]
      BY <3>2, <3>4 DEF Becomes, Agree
    <3> HIDE DEF m
    <3>6. /\ MirrorIsTheLamps'
          /\ \A k \in Key : lamp'[k] \in ever'[k] /\ ever[k] \subseteq ever'[k]
          /\ \A d \in Caller :
                /\ had[d] \subseteq had'[d]
                /\ (Agree(payload[d], lamp) \subseteq had[d])'
                /\ (fresh[d] \cap Agree(payload[d], mirror) \subseteq had[d])'
      BY <3>1, <3>2, BecomingKeepsSound
    <3>7. Known(c)'  BY <3>2, <3>5, <3>6 DEF Known
    <3>8. ASSUME NEW d \in Caller, d # c PROVE Known(d)'
      <4>1. task'[d] = task[d] /\ payload'[d] = payload[d]
        BY <2>3, <3>8 DEF Reaches, DInv, TypeOK
      <4>2. payload[d] \in Payload \cup {<<>>}  BY DEF DInv, TypeOK
      <4>3. \A k \in DOMAIN payload[d] : k \in Key  BY <4>2, PayloadIsOne
      <4> QED  BY <2>0, <3>6, <3>8, <4>1, <4>3 DEF Known
    <3> QED  BY <3>6, <3>7, <3>8 DEF Q, Remembered
  <2>4. ASSUME NEW c \in Caller, Acked(c) PROVE Q
    BY <2>4, AckedKeepsSound DEF Q
  <2>5. ASSUME NEW c \in Caller, WriteFails(c) \/ Vouched(c) \/ NotVouched(c) PROVE Q
    <3>1. UNCHANGED <<lamp, mirror, ever>>
      BY <2>5 DEF WriteFails, Vouched, NotVouched, histories
    <3>2. Remembered'  BY <2>0, <3>1 DEF Remembered, MirrorIsTheLamps
    <3>3. CASE \E t \in Rest : Over(c, t)
      <4>1. PICK t \in Rest : Over(c, t)  BY <3>3
      <4>2. ASSUME NEW d \in Caller PROVE Known(d)'
        <5>1. CASE d = c  BY <4>1, <5>1, KnownOver DEF DInv
        <5>2. CASE d # c
          <6>2. had'[d] = had[d]
            BY <2>5, <5>2 DEF WriteFails, Vouched, NotVouched, Forgotten, DInv, TypeOK
          <6>1. payload'[d] = payload[d] /\ fresh'[d] = fresh[d] /\ task'[d] = task[d]
            BY <4>1, <5>2, OthersLeftAlone DEF DInv
          <6> QED  BY <2>0, <3>1, <6>1, <6>2, KnownStays
        <5> QED  BY <5>1, <5>2
      <4> QED  BY <3>2, <4>2 DEF Q
    <3>4. CASE WriteFails(c) /\ said[c]
      <4>1. UNCHANGED <<payload, fresh, had>>  BY <3>4 DEF WriteFails
      <4>2. \A d \in Caller : task'[d] = "written" => task[d] = "written"
        BY <3>4 DEF WriteFails, Goes, DInv, TypeOK
      <4>3. \A d \in Caller : Known(d)'
        <5> TAKE d \in Caller
        <5> QED  BY <2>0, <3>1, <4>1, <4>2, KnownStays
      <4> QED  BY <3>2, <4>3 DEF Q
    <3> QED  BY <2>5, <3>3, <3>4 DEF WriteFails, Vouched, NotVouched, Rest
  <2>6. ASSUME LampChanges PROVE Q
    <3>1. PICK k \in Key, v \in Value : Becomes([lamp EXCEPT ![k] = v])
      BY <2>6 DEF LampChanges
    <3> DEFINE m == [lamp EXCEPT ![k] = v]
    <3>2. m \in [Key -> Value]  BY DEF DInv, TypeOK
    <3>3. UNCHANGED <<mirror, task, payload, fresh>>  BY <2>6 DEF LampChanges, commands
    <3> HIDE DEF m
    <3>4. /\ MirrorIsTheLamps'
          /\ \A j \in Key : lamp'[j] \in ever'[j] /\ ever[j] \subseteq ever'[j]
          /\ \A d \in Caller :
                /\ had[d] \subseteq had'[d]
                /\ (Agree(payload[d], lamp) \subseteq had[d])'
                /\ (fresh[d] \cap Agree(payload[d], mirror) \subseteq had[d])'
      BY <3>1, <3>2, <3>3, BecomingKeepsSound DEF m
    <3>5. ASSUME NEW d \in Caller PROVE Known(d)'
      <4>1. payload[d] \in Payload \cup {<<>>}  BY DEF DInv, TypeOK
      <4>2. \A j \in DOMAIN payload[d] : j \in Key  BY <4>1, PayloadIsOne
      <4> QED  BY <2>0, <3>3, <3>4, <4>2 DEF Known
    <3> QED  BY <3>4, <3>5 DEF Q, Remembered
  <2>7. ASSUME Report PROVE Q  BY <2>7, ReportKeepsSound DEF Q
  <2>8. Q
    <3>1. CASE \E c \in Caller, p \in Payload : TakeUp(c, p)  BY <3>1, <2>1
    <3>2. CASE \E c \in Caller : Sending(c)  BY <3>2, <2>2, <2>3 DEF Sending
    <3>3. CASE \E c \in Caller : Outcome(c)  BY <3>3, <2>4, <2>5 DEF Outcome
    <3> QED  BY <2>6, <2>7, <3>1, <3>2, <3>3 DEF DNext
  <2> QED  BY <2>8 DEF Q
<1> QED  BY <1>1, <1>2, <1>3 DEF DInv, Remembered, Known

\* The inductive invariant of Delivery.
THEOREM DeliveryInvariant == DSpec => []DInv
<1>1. DInit => DInv  BY InitIsSound
<1>2. DInv /\ [DNext]_dvars => DInv'
  <2>1. ASSUME DInv, UNCHANGED dvars PROVE DInv'
    BY <2>1 DEF DInv, TypeOK, MirrorIsTheLamps, LockedWhileWritten, Agree, dvars,
                commands, histories
  <2> QED  BY <2>1, StepKeepsInv
<1> QED  BY <1>1, <1>2, PTL DEF DSpec

\* Every variable of Delivery keeps to its type.
THEOREM DeliveryTypeCorrect == DSpec => []TypeOK
<1>1. DInv => TypeOK  BY DEF DInv
<1> QED  BY <1>1, DeliveryInvariant, PTL

\* The mirror never shows what only a command said (Mirror.echo comes after the
\* acknowledgement).
THEOREM MirrorFaithful == DSpec => []MirrorIsTheLamps
<1>1. DInv => MirrorIsTheLamps  BY DEF DInv
<1> QED  BY <1>1, DeliveryInvariant, PTL

\* No two commands are at the lamp at once, second attempts included (Link.send).
THEOREM OneAtTheLamp == DSpec => []LockedWhileWritten
<1>1. DInv => LockedWhileWritten  BY DEF DInv
<1> QED  BY <1>1, DeliveryInvariant, PTL

\* A command is called done only on the lamp's word (_async_device_confirms).
THEOREM DoneIsTrue == DSpec => DoneOnTheLampsWord
<1> DEFINE OnItsWord(c) ==
       task[c] \in Busy /\ task'[c] = "done" =>
              IF task[c] = "written" THEN DOMAIN payload[c] \subseteq had[c]
                                     ELSE Tracked(c) \cap had[c] # {}
<1>1. ASSUME DInv, [DNext]_dvars, NEW c \in Caller PROVE OnItsWord(c)
  <2> SUFFICES ASSUME task[c] \in Busy, task'[c] = "done"
               PROVE  IF task[c] = "written" THEN DOMAIN payload[c] \subseteq had[c]
                      ELSE Tracked(c) \cap had[c] # {}
    OBVIOUS
  <2>1. task[c] # "done"  BY DEF Busy, Under
  <2>2. Acked(c) \/ Vouched(c)
    <3>1. ASSUME NEW d \in Caller, \/ \E p \in Payload : TakeUp(d, p)
                                   \/ Granted(d) \/ Put(d) \/ Reaches(d) \/ TriedAgain(d)
                                   \/ WriteFails(d) \/ NotVouched(d)
          PROVE  FALSE
      BY <1>1, <2>1, <3>1 DEF TakeUp, Granted, Put, Reaches, TriedAgain, WriteFails,
                              NotVouched, Over, Goes, DInv, TypeOK
    <3>2. ASSUME NEW d \in Caller, d # c, Acked(d) \/ Vouched(d) PROVE FALSE
      BY <1>1, <2>1, <3>2 DEF Acked, Vouched, Over, Goes, DInv, TypeOK
    <3>3. ~ (LampChanges \/ Report \/ UNCHANGED dvars)
      BY <2>1 DEF LampChanges, Report, dvars, commands
    <3> QED  BY <1>1, <3>1, <3>2, <3>3 DEF DNext, Sending, Outcome
  <2>3. CASE Acked(c)
    BY <1>1, <2>3 DEF Acked, DInv
  <2>4. CASE Vouched(c)
    <3>1. PICK k \in Tracked(c) \cap fresh[c] : k \in Agree(payload[c], mirror)
      BY <2>4 DEF Vouched
    <3>2. k \in had[c]  BY <1>1, <3>1 DEF DInv
    <3> QED  BY <2>4, <3>1, <3>2 DEF Vouched
  <2> QED  BY <2>2, <2>3, <2>4
<1>2. DInv /\ [DNext]_dvars => \A c \in Caller : OnItsWord(c)  BY <1>1
<1>3. DInv /\ [DNext]_dvars => [\A c \in Caller : OnItsWord(c)]_dvars  BY <1>2
<1> QED  BY <1>3, DeliveryInvariant, PTL DEF DSpec, DoneOnTheLampsWord

-----------------------------------------------------------------------------
(* Every command has its turn: Delivery implements OneTurn. *)

\* A command that waits has all its attempts before it and has said nothing; one
\* that is under way has the attempt it makes left at least.
Counted == \A c \in Caller :
              /\ task[c] = "queued" => left[c] = Attempts /\ ~ said[c]
              /\ task[c] \in Under => left[c] \in 1..Attempts

\* What a step has to see to.
TurnStep == [Turn!Next]_(Turn!tvars) /\ Counted'

\* The command of c goes on to t, with n attempts left; no other goes on.
Moves(c, t, n) ==
    \A d \in Caller : /\ task'[d] = IF d = c THEN t ELSE task[d]
                      /\ left'[d] = IF d = c THEN n ELSE left[d]

\* A table of two ways in that differs at one place is one that was changed there.
IsTable(f, S, R) == f = [x \in S |-> [y \in R |-> f[x][y]]]
LEMMA ChangedAtOnePlace ==
    ASSUME NEW S, NEW R, NEW f, NEW g, NEW s \in S, NEW r \in R,
           IsTable(f, S, R), IsTable(g, S, R),
           \A x \in S, y \in R : ~ (x = s /\ y = r) => g[x][y] = f[x][y]
    PROVE  g = [f EXCEPT ![s][r] = g[s][r]]
<1> DEFINE h == [f EXCEPT ![s][r] = g[s][r]]
<1>1. \A x \in S : f[x] = [y \in R |-> f[x][y]] /\ g[x] = [y \in R |-> g[x][y]]
  BY DEF IsTable
<1>2. DOMAIN f = S /\ DOMAIN g = S  BY DEF IsTable
<1>3. h = [x \in S |-> IF x = s THEN [f[s] EXCEPT ![r] = g[s][r]] ELSE f[x]]  BY <1>2
<1>4. \A x \in S : x # s => g[x] = f[x]  BY <1>1
<1>5. DOMAIN f[s] = R /\ DOMAIN g[s] = R  BY <1>1
<1>6. g[s] = [f[s] EXCEPT ![r] = g[s][r]]  BY <1>1, <1>5
<1>7. g = [x \in S |-> g[x]]  BY DEF IsTable
<1>8. g = [x \in S |-> IF x = s THEN [f[s] EXCEPT ![r] = g[s][r]] ELSE f[x]]
  BY <1>4, <1>6, <1>7
<1> QED  BY <1>3, <1>8

\* The turn of a place, and the attempt that is made in it.
TurnAt(t)     == IF t \in Under THEN "has"
                 ELSE IF t = "queued" THEN "waits"
                 ELSE IF t = "unsure" THEN "unsure"
                 ELSE "out"
TriesAt(t, n) == IF t \in Under THEN Attempts + 1 - n ELSE 0

\* A command that goes on changes its own turn and no other.
LEMMA MoveMaps ==
    ASSUME NEW c \in Caller, NEW t, NEW n, Moves(c, t, n)
    PROVE  /\ Turn!Becomes(None, c, TurnAt(t), TriesAt(t, n))
           /\ turnOf[None][c]  = TurnAt(task[c])
           /\ triesOf[None][c] = TriesAt(task[c], left[c])
<1> DEFINE L == {None}
<1>0. None \in L  OBVIOUS
<1>1. /\ IsTable(turnOf, L, Caller)  /\ IsTable(turnOf, L, Caller)'
      /\ IsTable(triesOf, L, Caller) /\ IsTable(triesOf, L, Caller)'
  BY DEF IsTable, turnOf, triesOf
<1>2. \A l \in L, d \in Caller : ~ (l = None /\ d = c) =>
          turnOf'[l][d] = turnOf[l][d] /\ triesOf'[l][d] = triesOf[l][d]
  BY DEF Moves, turnOf, triesOf
<1> HIDE DEF L
<1>3. turnOf' = [turnOf EXCEPT ![None][c] = turnOf'[None][c]]
  BY <1>0, <1>1, <1>2, ChangedAtOnePlace
<1>4. triesOf' = [triesOf EXCEPT ![None][c] = triesOf'[None][c]]
  BY <1>0, <1>1, <1>2, ChangedAtOnePlace
<1>5. turnOf'[None][c] = TurnAt(t) /\ triesOf'[None][c] = TriesAt(t, n)
  BY DEF Moves, turnOf, triesOf, TurnAt, TriesAt
<1>6. turnOf[None][c] = TurnAt(task[c]) /\ triesOf[None][c] = TriesAt(task[c], left[c])
  BY DEF turnOf, triesOf, TurnAt, TriesAt
<1> QED  BY <1>3, <1>4, <1>5, <1>6 DEF Turn!Becomes

\* Where no command goes on, nothing becomes of any turn.
LEMMA NobodyMoves ==
    ASSUME UNCHANGED <<task, left>>, Counted, UNCHANGED said
    PROVE  TurnStep
<1>1. turnOf' = turnOf /\ triesOf' = triesOf  BY DEF turnOf, triesOf
<1> QED  BY <1>1 DEF TurnStep, Turn!tvars, Counted

\* Every step of Delivery is one of a turn, or none.
LEMMA StepTakesTurns == ASSUME DInv, Counted, DNext PROVE TurnStep
<1> USE DEF Under
<1>1. ASSUME NEW c \in Caller, NEW p \in Payload, TakeUp(c, p) PROVE TurnStep
  <2>1. Moves(c, "queued", Attempts)  BY <1>1 DEF Moves, TakeUp, Goes, DInv, TypeOK
  <2>2. Turn!Asks(None, c)
    BY <1>1, <2>1, MoveMaps DEF Turn!Asks, TakeUp, Rest, TurnAt, TriesAt
  <2>3. Counted'  BY <1>1 DEF Counted, TakeUp, Goes, DInv, TypeOK
  <2> QED  BY <2>2, <2>3 DEF TurnStep, Turn!Next
<1>2. ASSUME NEW c \in Caller, Granted(c) PROVE TurnStep
  <2>1. Moves(c, "trying", Attempts)
    BY <1>2 DEF Moves, Granted, Goes, DInv, TypeOK, Counted
  <2>2. \A d \in Caller : turnOf[None][d] # "has"
    BY <1>2, KeysAssumption DEF turnOf, DInv, LockedWhileWritten, Granted
  <2>3. Turn!Becomes(None, c, "has", 1)
    BY <2>1, MoveMaps, KeysAssumption DEF TurnAt, TriesAt
  <2>4. Turn!Takes(None, c)
    BY <1>2, <2>1, <2>2, <2>3, MoveMaps DEF Turn!Takes, Granted, TurnAt
  <2>5. Counted'
    BY <1>2, KeysAssumption DEF Counted, Granted, Goes, DInv, TypeOK
  <2> QED  BY <2>4, <2>5 DEF TurnStep, Turn!Next
<1>3. ASSUME NEW c \in Caller, Put(c) \/ Reaches(c) PROVE TurnStep
  <2>1. PICK t \in {"put", "written", "unsure"} :
           /\ Moves(c, t, left[c])
           /\ TurnAt(t) = TurnAt(task[c]) /\ TriesAt(t, left[c]) = TriesAt(task[c], left[c])
    BY <1>3 DEF Moves, Put, Reaches, Goes, DInv, TypeOK, TurnAt, TriesAt
  <2>2. UNCHANGED <<turnOf, triesOf>>
    BY <1>3, <2>1 DEF turnOf, triesOf, Moves, TurnAt, TriesAt
  <2>3. Counted'
    BY <1>3 DEF Counted, Put, Reaches, Goes, DInv, TypeOK
  <2> QED  BY <2>2, <2>3 DEF TurnStep, Turn!tvars
<1>4. ASSUME NEW c \in Caller, TriedAgain(c) PROVE TurnStep
  <2>1. left[c] \in 2..Attempts /\ task[c] \in Under
    BY <1>4, KeysAssumption DEF TriedAgain, Counted
  <2>2. Moves(c, "trying", left[c] - 1)
    BY <1>4 DEF Moves, TriedAgain, Goes, DInv, TypeOK
  <2>3. /\ TriesAt("trying", left[c] - 1) = TriesAt(task[c], left[c]) + 1
        /\ TriesAt(task[c], left[c]) < Attempts
    BY <2>1, KeysAssumption DEF TriesAt
  <2>4. Turn!TriesAgain(None, c)
    BY <2>1, <2>2, <2>3, MoveMaps DEF Turn!TriesAgain, TurnAt
  <2>5. Counted'
    BY <1>4, <2>1, KeysAssumption DEF Counted, TriedAgain, Goes, DInv, TypeOK
  <2> QED  BY <2>4, <2>5 DEF TurnStep, Turn!Next
<1>5. ASSUME NEW c \in Caller, NEW t \in Rest, Over(c, t), task[c] \in Busy
      PROVE  TurnStep
  <2>1. Moves(c, t, 0)  BY <1>5 DEF Moves, Over, Goes, DInv, TypeOK
  <2>2. Turn!Becomes(None, c, "out", 0)
    BY <2>1, MoveMaps DEF TurnAt, TriesAt, Rest
  <2>3. Turn!Leaves(None, c) \/ Turn!IsTold(None, c)
    BY <1>5, <2>1, <2>2, MoveMaps DEF Turn!Leaves, Turn!IsTold, TurnAt, Busy
  <2>4. Counted'
    BY <1>5 DEF Counted, Over, Goes, DInv, TypeOK, Rest
  <2> QED  BY <2>3, <2>4 DEF TurnStep, Turn!Next
<1>6. ASSUME NEW c \in Caller, WriteFails(c) PROVE TurnStep
  <2>1. CASE said[c]
    <3>1. Moves(c, "unsure", left[c]) /\ task[c] \in Under
      BY <1>6, <2>1 DEF Moves, WriteFails, Goes, DInv, TypeOK, Counted
    <3>2. Turn!BecomesUnsure(None, c)
      BY <3>1, MoveMaps DEF Turn!BecomesUnsure, TurnAt, TriesAt
    <3>3. Counted'
      BY <1>6, <2>1 DEF Counted, WriteFails, Goes, DInv, TypeOK
    <3> QED  BY <3>2, <3>3 DEF TurnStep, Turn!Next
  <2>2. CASE ~ said[c]
    BY <1>5, <1>6, <2>2 DEF WriteFails, Busy, Rest
  <2> QED  BY <2>1, <2>2
<1>7. ASSUME NEW c \in Caller, Acked(c) \/ Vouched(c) \/ NotVouched(c) PROVE TurnStep
  BY <1>5, <1>7 DEF Acked, Vouched, NotVouched, Busy, Rest
<1>8. CASE LampChanges \/ Report
  BY <1>8, NobodyMoves DEF LampChanges, Report, commands
<1> QED
  BY <1>1, <1>2, <1>3, <1>4, <1>6, <1>7, <1>8 DEF DNext, Sending, Outcome

\* Delivery implements OneTurn (Link.send): a command's second attempt is in the turn
\* of its first, it makes no more than it may, and waits for a report out of it.
THEOREM DeliversInTurn == DSpec => TakesTurns
<1>1. DInit => Turn!Init /\ Counted
  BY DEF DInit, Turn!Init, Counted, turnOf, triesOf, Under
<1>2. DInv /\ Counted /\ [DNext]_dvars => [Turn!Next]_(Turn!tvars) /\ Counted'
  <2> SUFFICES ASSUME DInv, Counted, [DNext]_dvars PROVE TurnStep  BY DEF TurnStep
  <2>1. CASE UNCHANGED dvars  BY <2>1, NobodyMoves DEF dvars, commands
  <2> QED  BY <2>1, StepTakesTurns
<1> QED  BY <1>1, <1>2, DeliveryInvariant, PTL DEF DSpec, TakesTurns, Turn!Spec
=============================================================================
