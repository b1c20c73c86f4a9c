----------------------------- MODULE EntryProofs -----------------------------
(***************************************************************************)
(* Theorems about Entry, for any number of entities, commands, values and  *)
(* models.                                                                 *)
(*                                                                         *)
(* Most of what the lamp and its callers do tells the listeners at its     *)
(* end.  What such a step preserves is proved once, of Tells; each action  *)
(* is shown to be one.  The steps that tell nobody are few, and are proved *)
(* one by one.                                                             *)
(***************************************************************************)
EXTENDS Entry, TLAPS

-----------------------------------------------------------------------------
(* The inductive invariant. *)

\* Who shows something listens, and nobody listens to an entry that is out.
Listening ==
    /\ \A e \in Entity : e \in listeners <=> shown[e] # "absent"
    /\ listeners # {} => Live

\* Every value that is read, shown, remembered or kept was the lamp's once.
LampsWords ==
    /\ mirror \in Value => mirror \in spoken
    /\ \A e \in Entity :
          /\ shown[e] \in Value => shown[e] \in spoken
          /\ restored[e] \in spoken \cup {None}
          /\ stored[e] \in spoken \cup {None}

\* The keeper watches while the entry is set up and Home Assistant runs.
Watching ==
    /\ ceased <=> ~ Live \/ home = "stopping"
    /\ begun = IF ceased THEN {} ELSE Watcher

\* Nothing is said of a model that is not known.
OfAModel == notice.up => data # None

EInv == /\ TypeOK
        /\ Listening
        /\ LampsWords
        /\ Watching
        /\ NothingOutlives
        /\ ShownIsTrue
        /\ NoticeIsTrue
        /\ OfAModel

\* The start satisfies it.
LEMMA InitEInv == Init => EInv
<1> SUFFICES ASSUME Init PROVE EInv
  OBVIOUS
<1> USE DEF Init
<1>1. TypeOK
  <2>1. begun \subseteq Watcher /\ registered \in [Callback -> 0..1] /\ spoken \subseteq Value
    OBVIOUS
  <2>2. listeners \subseteq Entity /\ failing \subseteq listeners
    OBVIOUS
  <2>3. /\ shown \in [Entity -> Value \cup NoValue]
        /\ restored \in [Entity -> Value \cup {None}]
        /\ stored \in [Entity -> Value \cup {None}]
    BY DEF Nobody, NoValue
  <2>4. task \in [Command -> {"none", "writing", "again", "unsure"}]
    BY DEF Idle
  <2>5. notice \in [up : BOOLEAN, ignored : BOOLEAN] /\ profiled \subseteq Model
    BY DEF NoNotice
  <2> QED
    BY <2>1, <2>2, <2>3, <2>4, <2>5 DEF TypeOK
<1>2. Listening /\ LampsWords
  BY EntryAssumption DEF Listening, LampsWords, Nobody, NoValue
<1>3. Watching /\ NothingOutlives
  BY DEF Watching, NothingOutlives, Live, Watcher, Callback
<1>4. ShownIsTrue /\ NoticeIsTrue /\ OfAModel
  BY DEF ShownIsTrue, NoticeIsTrue, OfAModel, Live, NoNotice
<1> QED
  BY <1>1, <1>2, <1>3, <1>4 DEF EInv

-----------------------------------------------------------------------------
(* A step that tells. *)

\* What is known of the lamp after a step: of its type, and no value that it
\* did not speak.
KnownOfLamp ==
    /\ present \in BOOLEAN
    /\ held \in {"none", "up", "down"}
    /\ task \in [Command -> {"none", "writing", "again", "unsure"}]
    /\ mirror \in Value \cup {None, Unusable}
    /\ allows \in BOOLEAN
    /\ spoken \subseteq Value
    /\ mirror \in Value => mirror \in spoken

\* A step of the lamp or of a caller at whose end the listeners are told.
Tells ==
    /\ Round
    /\ KnownOfLamp'
    /\ spoken \subseteq spoken'
    /\ UNCHANGED <<setup, watched, restored, presets>>

\* What an entity of a watched lamp shows when it is asked is true.
TrueOf(e, x) ==
    /\ x = "unavailable" <=> ~ InReach \/ (e \in Modal /\ ~ allows)
    /\ x \in Value => x \in spoken /\ mirror \in {None, x}
    /\ mirror \in Value => x \in {mirror, "unavailable"}

\* What an entity shows when it is asked after a step is of the type, is not
\* the state of one that is gone, and is true.
LEMMA ShowsTheTruth ==
  ASSUME NEW e \in Entity,
         KnownOfLamp',
         restored'[e] \in spoken' \cup {None}
  PROVE  /\ Shows(e)' \in Value \cup {"unavailable", "unknown"}
         /\ Shows(e)' # "absent"
         /\ TrueOf(e, Shows(e))'
<1>1. CASE ~ InReach' \/ (e \in Modal /\ ~ allows')
  BY <1>1, EntryAssumption DEF Shows, TrueOf, KnownOfLamp, InReach, NoValue
<1>2. CASE /\ ~ (~ InReach' \/ (e \in Modal /\ ~ allows'))
           /\ mirror' \in Value
  BY <1>2, EntryAssumption DEF Shows, TrueOf, KnownOfLamp, InReach, NoValue
<1>3. CASE /\ ~ (~ InReach' \/ (e \in Modal /\ ~ allows'))
           /\ mirror' \notin Value
  BY <1>3, EntryAssumption DEF Shows, TrueOf, KnownOfLamp, InReach, NoValue
<1> QED
  BY <1>1, <1>2, <1>3

\* What is kept of a state is the value it was, or nothing.
LEMMA KeptIsShown ==
  ASSUME NEW e, NEW x
  PROVE  Kept(e, x) \in {x, None} /\ (Kept(e, x) # None => x \in Value)
BY DEF Kept

\* A step that tells preserves the invariant.
LEMMA TellsKeeps == EInv /\ Tells => EInv'
<1> SUFFICES ASSUME EInv, Tells PROVE EInv'
  OBVIOUS
<1>1. /\ TypeOK /\ Listening /\ LampsWords /\ Watching
      /\ NothingOutlives /\ NoticeIsTrue /\ OfAModel
  BY DEF EInv
<1>2. /\ UNCHANGED <<setup, watched, restored, presets>>
      /\ KnownOfLamp'
      /\ spoken \subseteq spoken'
  BY DEF Tells
<1>3. Live' = Live
  BY <1>2 DEF Live, setup
<1>4. PICK R \in SUBSET listeners, G \in SUBSET listeners :
        /\ listeners' = listeners \ G
        /\ failing'   = Failed(R, G)
        /\ shown'     = [e \in Entity |-> IF e \in G THEN "absent"
                                          ELSE IF e \in listeners \ R THEN Shows(e)'
                                          ELSE shown[e]]
        /\ stored'    = [e \in Entity |-> IF e \in G THEN Kept(e, shown[e])
                                          ELSE stored[e]]
  BY DEF Tells, Round
<1>5. listeners \subseteq Entity /\ failing \subseteq listeners
  BY <1>1 DEF TypeOK
<1>6. listeners' \subseteq Entity /\ failing' \subseteq listeners'
  BY <1>4, <1>5 DEF Failed
<1>7. \A e \in Entity : restored'[e] \in spoken' \cup {None}
  BY <1>1, <1>2 DEF LampsWords
<1>8. \A e \in Entity : /\ Shows(e)' \in Value \cup {"unavailable", "unknown"}
                        /\ Shows(e)' # "absent"
                        /\ TrueOf(e, Shows(e))'
  BY <1>2, <1>7, ShowsTheTruth
<1>9. \A e \in Entity : /\ shown[e] \in Value \cup NoValue
                        /\ stored[e] \in Value \cup {None}
  BY <1>1 DEF TypeOK
<1>10. \A e \in Entity : Kept(e, shown[e]) \in {shown[e], None}
                         /\ (Kept(e, shown[e]) # None => shown[e] \in Value)
  BY KeptIsShown
<1>11. TypeOK'
  <2>1. shown' \in [Entity -> Value \cup NoValue]
    BY <1>4, <1>8, <1>9 DEF NoValue
  <2>2. stored' \in [Entity -> Value \cup {None}]
    BY <1>4, <1>9, <1>10
  <2>3. logged' \in BOOLEAN
    BY <1>1, <1>2 DEF Tells, Round, Logs, InReach, TypeOK, KnownOfLamp, watched
  <2> QED
    BY <1>1, <1>2, <1>6, <2>1, <2>2, <2>3
       DEF TypeOK, KnownOfLamp, setup, watched, presets
<1>12. Listening'
  <2>1. ASSUME NEW e \in Entity
        PROVE  e \in listeners' <=> shown'[e] # "absent"
    BY <1>1, <1>4, <1>8 DEF Listening
  <2> QED
    BY <1>1, <1>3, <1>4, <2>1 DEF Listening
<1>13. LampsWords'
  <2>1. ASSUME NEW e \in Entity
        PROVE  /\ shown'[e] \in Value => shown'[e] \in spoken'
               /\ stored'[e] \in spoken' \cup {None}
    <3>1. /\ shown[e] \in Value => shown[e] \in spoken'
          /\ stored[e] \in spoken' \cup {None}
      BY <1>1, <1>2 DEF LampsWords
    <3>2. Shows(e)' \in Value => Shows(e)' \in spoken'
      BY <1>8 DEF TrueOf
    <3>3. "absent" \notin Value
      BY EntryAssumption DEF NoValue
    <3> QED
      BY <1>4, <1>10, <3>1, <3>2, <3>3
  <2> QED
    BY <1>2, <1>7, <2>1 DEF LampsWords, KnownOfLamp
<1>14. Watching' /\ NothingOutlives'
  BY <1>1, <1>2, <1>3 DEF Watching, NothingOutlives, watched, setup
<1>15. ShownIsTrue'
  <2>1. ~ ceased' => logged' = InReach'
    BY DEF Tells, Round, Logs
  <2>2. ASSUME NEW e \in listeners' \ failing'
        PROVE  TrueOf(e, shown[e])'
    <3>1. e \in Entity /\ e \notin G /\ e \in listeners \ R
      BY <1>4, <1>6 DEF Failed
    <3>2. shown'[e] = Shows(e)'
      BY <1>4, <3>1
    <3> QED
      BY <1>8, <3>1, <3>2 DEF TrueOf
  <2> QED
    BY <2>1, <2>2 DEF ShownIsTrue, TrueOf
<1>16. NoticeIsTrue' /\ OfAModel'
  BY <1>1, <1>2, <1>3 DEF NoticeIsTrue, OfAModel, setup, watched, presets
<1> QED
  BY <1>11, <1>12, <1>13, <1>14, <1>15, <1>16 DEF EInv

-----------------------------------------------------------------------------
(* The steps of the lamp and of the callers. *)

\* The steps that tell, one by one.
LEMMA WhoTells ==
  ASSUME EInv
  PROVE  /\ Advertises => Tells \/ UNCHANGED vars
         /\ FallsSilent \/ Connects \/ Drops \/ Reports \/ News => Tells
         /\ \A k \in Command : Dials(k) \/ Acked(k) \/ Ends(k) => Tells
<1>1. TypeOK /\ LampsWords
  BY DEF EInv
<1>2. KnownOfLamp
  BY <1>1 DEF TypeOK, LampsWords, KnownOfLamp
<1>3. \A k \in Command, t \in {"none", "writing", "again", "unsure"} :
         Goes(k, t) => task' \in [Command -> {"none", "writing", "again", "unsure"}]
  BY <1>2 DEF KnownOfLamp, Goes
<1>4. Advertises => Tells \/ UNCHANGED vars
  BY <1>2 DEF Advertises, Tells, KnownOfLamp, seen, setup, watched, presets, told, link,
              vars
<1>5. FallsSilent => Tells
  BY <1>2 DEF FallsSilent, Tells, KnownOfLamp, seen
<1>6. Connects => Tells
  BY <1>2 DEF Connects, Takes, Tells, KnownOfLamp, seen
<1>7. Drops => Tells
  BY <1>2 DEF Drops, Tells, KnownOfLamp, seen
<1>8. Reports => Tells
  BY <1>2 DEF Reports, Tells, KnownOfLamp, link
<1>9. News => Tells
  BY <1>2 DEF News, Tells, KnownOfLamp, seen, link
<1>10. ASSUME NEW k \in Command, Dials(k)
       PROVE  Tells
  BY <1>2, <1>3, <1>10 DEF Dials, Takes, Tells, KnownOfLamp, seen
<1>11. ASSUME NEW k \in Command, Acked(k)
       PROVE  Tells
  BY <1>2, <1>3, <1>11 DEF Acked, Tells, KnownOfLamp
<1>12. ASSUME NEW k \in Command, Ends(k)
       PROVE  Tells
  BY <1>2, <1>3, <1>12 DEF Ends, Tells, KnownOfLamp, seen
<1> QED
  BY <1>4, <1>5, <1>6, <1>7, <1>8, <1>9, <1>10, <1>11, <1>12

\* A command that is put to the link, or fails on it: nobody is told, and after
\* a failure somebody will be.
LEMMA CommandsKeep ==
  ASSUME EInv, NEW k \in Command, Writes(k) \/ FailsOnce(k) \/ Fails(k)
  PROVE  EInv'
<1>1. /\ TypeOK /\ Listening /\ LampsWords /\ Watching
      /\ NothingOutlives /\ ShownIsTrue /\ NoticeIsTrue /\ OfAModel
  BY DEF EInv
<1>2. /\ UNCHANGED <<setup, watched, present, seen, told, restored, presets>>
      /\ held' \in {held, "none"}
      /\ task' \in [Command -> {"none", "writing", "again", "unsure"}]
  BY <1>1 DEF Writes, FailsOnce, Fails, Goes, TypeOK
<1>3. TypeOK' /\ Listening' /\ LampsWords'
  BY <1>1, <1>2 DEF TypeOK, Listening, LampsWords, Live, setup, watched, seen, told, presets
<1>4. Watching' /\ NothingOutlives' /\ NoticeIsTrue' /\ OfAModel'
  BY <1>1, <1>2 DEF Watching, NothingOutlives, NoticeIsTrue, OfAModel, Live, setup, watched,
                    presets
<1>5. ShownIsTrue'
  <2>1. CASE Writes(k)
    <3>1. held' = held /\ (Pending => Pending')
      BY <1>1, <2>1 DEF Writes, Pending, Goes, TypeOK
    <3> QED
      BY <1>1, <1>2, <3>1 DEF ShownIsTrue, InReach, Live, setup, watched, seen, told
  <2>2. CASE FailsOnce(k) \/ Fails(k)
    <3>1. Pending'
      BY <1>1, <2>2 DEF FailsOnce, Fails, Pending, Goes, TypeOK
    <3> QED
      BY <3>1 DEF ShownIsTrue
  <2> QED
    BY <2>1, <2>2
<1> QED
  BY <1>1, <1>3, <1>4, <1>5 DEF EInv

\* Every step of the lamp and of the callers preserves the invariant.
LEMMA LampKeeps ==
  ASSUME EInv, Lamp
  PROVE  EInv' \/ UNCHANGED vars
BY WhoTells, TellsKeeps, CommandsKeep DEF Lamp

-----------------------------------------------------------------------------
(* Setup and its end. *)

\* What the notice is after a review.
LEMMA ReviewedIs ==
  ASSUME TypeOK, NEW m \in Model \cup {None}
  PROVE  /\ Reviewed(m) \in [up : BOOLEAN, ignored : BOOLEAN]
         /\ m = None => Reviewed(m) = notice
         /\ m # None => (Reviewed(m).up <=> m \notin profiled)
BY EntryAssumption DEF Reviewed, NoNotice, TypeOK

LEMMA SetUpKeeps ==
  ASSUME EInv, SetUp
  PROVE  EInv'
<1>1. /\ TypeOK /\ Listening /\ LampsWords /\ Watching
      /\ NothingOutlives /\ NoticeIsTrue /\ OfAModel
  BY DEF EInv
<1>2. /\ home' = "up" /\ phase' = "up" /\ ceased' = FALSE /\ begun' = Watcher
      /\ registered' = [w \in Callback |-> registered[w] + 1]
      /\ held' = "none" /\ task' = Idle /\ mirror' = None /\ allows' = TRUE
      /\ present' \in BOOLEAN /\ logged' = present'
      /\ notice' = Reviewed(data)
      /\ UNCHANGED <<twice, spoken, listeners, failing, shown, stored, restored,
                     data, profiled>>
  BY DEF SetUp, Fresh
<1>3. phase = "out" /\ ~ Live /\ Live' /\ listeners = {}
  BY <1>1, <1>2 DEF SetUp, Live, Listening
<1>4. registered' = [w \in Callback |-> 1] /\ ~ twice'
  BY <1>1, <1>2, <1>3 DEF NothingOutlives, Callback
<1>5. data \in Model \cup {None}
  BY <1>1 DEF TypeOK
<1>6. TypeOK'
  <2>1. task' \in [Command -> {"none", "writing", "again", "unsure"}]
    BY <1>2 DEF Idle
  <2>2. registered' \in [Callback -> 0..1]
    BY <1>4
  <2>3. notice' \in [up : BOOLEAN, ignored : BOOLEAN]
    BY <1>1, <1>2, <1>5, ReviewedIs
  <2> QED
    BY <1>1, <1>2, <2>1, <2>2, <2>3 DEF TypeOK
<1>7. Listening' /\ LampsWords'
  BY <1>1, <1>2, <1>3, EntryAssumption DEF Listening, LampsWords
<1>8. Watching' /\ NothingOutlives'
  BY <1>2, <1>3, <1>4 DEF Watching, NothingOutlives, Callback
<1>9. ShownIsTrue'
  BY <1>2, <1>3 DEF ShownIsTrue, InReach
<1>10. NoticeIsTrue' /\ OfAModel'
  BY <1>1, <1>2, <1>5, ReviewedIs DEF NoticeIsTrue, OfAModel
<1> QED
  BY <1>6, <1>7, <1>8, <1>9, <1>10 DEF EInv

\* A setup that fails takes back what it had begun.
LEMMA SetUpFailsKeeps ==
  ASSUME EInv, SetUpFails
  PROVE  EInv'
<1>1. /\ TypeOK /\ Listening /\ LampsWords /\ Watching
      /\ NothingOutlives /\ NoticeIsTrue /\ OfAModel
  BY DEF EInv
<1>2. /\ notice' = Reviewed(data) /\ phase = "out"
      /\ UNCHANGED <<setup, ceased, begun, twice, link, seen, told, restored, data,
                     profiled>>
  BY DEF SetUpFails
<1>3. registered' = registered
  BY <1>1 DEF SetUpFails, KeptOf, TypeOK
<1>4. ~ Live /\ ~ Live'
  BY <1>2 DEF Live, setup
<1>5. data \in Model \cup {None}
  BY <1>1 DEF TypeOK
<1>6. TypeOK'
  <2>1. notice' \in [up : BOOLEAN, ignored : BOOLEAN]
    BY <1>1, <1>2, <1>5, ReviewedIs
  <2> QED
    BY <1>1, <1>2, <1>3, <2>1 DEF TypeOK, setup, link, seen, told
<1>7. Listening' /\ LampsWords' /\ Watching' /\ NothingOutlives'
  BY <1>1, <1>2, <1>3, <1>4
     DEF Listening, LampsWords, Watching, NothingOutlives, setup, seen, told
<1>8. ShownIsTrue' /\ NoticeIsTrue' /\ OfAModel'
  BY <1>1, <1>2, <1>4, <1>5, ReviewedIs
     DEF ShownIsTrue, NoticeIsTrue, OfAModel, setup
<1> QED
  BY <1>6, <1>7, <1>8 DEF EInv

LEMMA AddedKeeps ==
  ASSUME EInv, NEW e \in Entity, Added(e)
  PROVE  EInv'
<1>1. /\ TypeOK /\ Listening /\ LampsWords /\ Watching
      /\ NothingOutlives /\ ShownIsTrue /\ NoticeIsTrue /\ OfAModel
  BY DEF EInv
<1>2. /\ phase = "up" /\ home = "up"
      /\ listeners' = listeners \cup {e}
      /\ restored' = [restored EXCEPT ![e] = stored[e]]
      /\ shown' = [shown EXCEPT ![e] = Shows(e)']
      /\ UNCHANGED <<setup, watched, link, seen, failing, logged, stored, presets>>
  BY DEF Added
<1>3. KnownOfLamp'
  BY <1>1, <1>2 DEF KnownOfLamp, TypeOK, LampsWords, link, seen
<1>4. restored' \in [Entity -> Value \cup {None}] /\ restored'[e] = stored[e]
  BY <1>1, <1>2 DEF TypeOK
<1>5. /\ Shows(e)' \in Value \cup {"unavailable", "unknown"}
      /\ Shows(e)' # "absent"
      /\ TrueOf(e, Shows(e))'
  <2>1. restored'[e] \in spoken' \cup {None}
    BY <1>1, <1>2, <1>4 DEF LampsWords, seen
  <2> QED
    BY <1>3, <2>1, ShowsTheTruth
<1>6. shown' \in [Entity -> Value \cup NoValue] /\ shown'[e] = Shows(e)'
  BY <1>1, <1>2, <1>5 DEF TypeOK, NoValue
<1>7. \A f \in Entity \ {e} : shown'[f] = shown[f] /\ restored'[f] = restored[f]
  BY <1>1, <1>2 DEF TypeOK
<1>8. TypeOK'
  BY <1>1, <1>2, <1>4, <1>6 DEF TypeOK, setup, watched, link, seen, presets
<1>9. Listening'
  BY <1>1, <1>2, <1>5, <1>6, <1>7 DEF Listening, Live, setup
<1>10. LampsWords'
  BY <1>1, <1>2, <1>4, <1>5, <1>6, <1>7 DEF LampsWords, TrueOf, seen
<1>11. Watching' /\ NothingOutlives' /\ NoticeIsTrue' /\ OfAModel'
  BY <1>1, <1>2 DEF Watching, NothingOutlives, NoticeIsTrue, OfAModel, Live, setup, watched,
                    presets
<1>12. ShownIsTrue'
  <2>1. Pending' = Pending /\ InReach' = InReach /\ Live' = Live
    BY <1>2 DEF Pending, InReach, Live, link, setup
  <2>2. ASSUME Live, ~ ceased, ~ Pending, NEW f \in listeners' \ failing'
        PROVE  TrueOf(f, shown[f])'
    <3>1. CASE f = e
      BY <1>5, <1>6, <3>1 DEF TrueOf
    <3>2. CASE f # e
      <4>1. f \in listeners \ failing /\ f \in Entity
        BY <1>1, <1>2, <2>2, <3>2 DEF TypeOK
      <4> QED
        BY <1>1, <1>2, <1>7, <2>1, <2>2, <3>2, <4>1 DEF ShownIsTrue, TrueOf, seen
    <3> QED
      BY <3>1, <3>2
  <2> QED
    BY <1>1, <1>2, <2>1, <2>2 DEF ShownIsTrue, TrueOf, watched
<1> QED
  BY <1>8, <1>9, <1>10, <1>11, <1>12 DEF EInv

LEMMA RemovedKeeps ==
  ASSUME EInv, NEW e \in Entity, Removed(e)
  PROVE  EInv'
<1>1. /\ TypeOK /\ Listening /\ LampsWords /\ Watching
      /\ NothingOutlives /\ ShownIsTrue /\ NoticeIsTrue /\ OfAModel
  BY DEF EInv
<1>2. /\ phase = "leaving" /\ e \in listeners
      /\ listeners' = listeners \ {e}
      /\ failing'   = failing \ {e}
      /\ shown'     = [shown  EXCEPT ![e] = "absent"]
      /\ stored'    = [stored EXCEPT ![e] = Kept(e, shown[e])]
      /\ UNCHANGED <<setup, watched, link, seen, logged, restored, presets>>
  BY DEF Removed
<1>3. Kept(e, shown[e]) \in {shown[e], None} /\ (Kept(e, shown[e]) # None => shown[e] \in Value)
  BY KeptIsShown
<1>4. /\ shown' \in [Entity -> Value \cup NoValue] /\ shown'[e] = "absent"
      /\ stored' \in [Entity -> Value \cup {None}] /\ stored'[e] = Kept(e, shown[e])
      /\ \A f \in Entity \ {e} : shown'[f] = shown[f] /\ stored'[f] = stored[f]
  BY <1>1, <1>2, <1>3 DEF TypeOK, NoValue
<1>5. TypeOK'
  BY <1>1, <1>2, <1>4 DEF TypeOK, setup, watched, link, seen, presets
<1>6. Listening'
  BY <1>1, <1>2, <1>4 DEF Listening, Live, setup
<1>7. LampsWords'
  BY <1>1, <1>2, <1>3, <1>4, EntryAssumption DEF LampsWords, NoValue, seen
<1>8. Watching' /\ NothingOutlives' /\ NoticeIsTrue' /\ OfAModel'
  BY <1>1, <1>2 DEF Watching, NothingOutlives, NoticeIsTrue, OfAModel, Live, setup, watched,
                    presets
<1>9. ShownIsTrue'
  <2>1. Pending' = Pending /\ InReach' = InReach /\ Live' = Live
    BY <1>2 DEF Pending, InReach, Live, link, setup
  <2>2. \A f \in listeners' \ failing' : f \in listeners \ failing /\ shown'[f] = shown[f]
    BY <1>1, <1>2, <1>4 DEF TypeOK
  <2> QED
    BY <1>1, <1>2, <2>1, <2>2 DEF ShownIsTrue, watched, seen
<1> QED
  BY <1>5, <1>6, <1>7, <1>8, <1>9 DEF EInv

LEMMA LeavesKeeps ==
  ASSUME EInv, Leaves
  PROVE  EInv'
<1>1. /\ TypeOK /\ Listening /\ LampsWords /\ Watching
      /\ NothingOutlives /\ ShownIsTrue /\ NoticeIsTrue /\ OfAModel
  BY DEF EInv
<1>2. /\ phase = "up" /\ phase' = "leaving"
      /\ UNCHANGED <<home, watched, link, seen, told, restored, presets>>
  BY DEF Leaves
<1>3. Live /\ Live'
  BY <1>2 DEF Live
<1>4. TypeOK' /\ Listening' /\ LampsWords'
  BY <1>1, <1>2, <1>3
     DEF TypeOK, Listening, LampsWords, watched, link, seen, told, presets
<1>5. Watching' /\ NothingOutlives' /\ NoticeIsTrue' /\ OfAModel'
  BY <1>1, <1>2, <1>3 DEF Watching, NothingOutlives, NoticeIsTrue, OfAModel, watched, presets
<1>6. ShownIsTrue'
  BY <1>1, <1>2, <1>3 DEF ShownIsTrue, Pending, InReach, watched, link, seen, told
<1> QED
  BY <1>1, <1>4, <1>5, <1>6 DEF EInv

\* The end of the watching takes off every callback that is there, and none that
\* is not.
LEMMA CeasesOnce ==
  ASSUME EInv, Live, NEW B \in {{}, {"stop"}}, Ceases(B)
  PROVE  /\ ceased' = TRUE /\ begun' = {} /\ notice' = notice
         /\ registered' = [w \in Callback |-> IF w = "stop" /\ B = {} THEN 1 ELSE 0]
         /\ twice' = FALSE
<1>1. /\ begun = (IF ceased THEN {} ELSE Watcher)
      /\ \A w \in Watcher : registered[w] = IF ~ ceased THEN 1 ELSE 0
      /\ registered["stop"] = 1 /\ twice = FALSE
  BY DEF EInv, TypeOK, Watching, NothingOutlives
<1>2. Callback = Watcher \cup {"stop"} /\ "stop" \notin Watcher
  BY DEF Callback, Watcher
<1>3. \A w \in begun \cup B : registered[w] = 1
  BY <1>1
<1>4. twice' = FALSE
  <2>1. ~ \E w \in begun \cup B : registered[w] = 0
    BY <1>3
  <2>2. twice' = (twice \/ \E w \in begun \cup B : registered[w] = 0)
    BY DEF Ceases, Off
  <2> QED
    BY <1>1, <2>1, <2>2, Zenon
<1>5. registered' = [w \in Callback |-> IF w = "stop" /\ B = {} THEN 1 ELSE 0]
  <2>1. registered' = [w \in Callback |->
                         IF w \in begun \cup B /\ registered[w] > 0
                         THEN registered[w] - 1 ELSE registered[w]]
    BY DEF Ceases, Off
  <2>2. ASSUME NEW w \in Callback
        PROVE  (IF w \in begun \cup B /\ registered[w] > 0
                THEN registered[w] - 1 ELSE registered[w])
               = (IF w = "stop" /\ B = {} THEN 1 ELSE 0)
    <3>1. CASE w = "stop"
      BY <1>1, <1>2, <3>1
    <3>2. CASE w \in Watcher
      BY <1>1, <1>2, <3>2
    <3> QED
      BY <1>2, <3>1, <3>2
  <2> QED
    BY <2>1, <2>2
<1> QED
  BY <1>4, <1>5 DEF Ceases

LEMMA UnloadedKeeps ==
  ASSUME EInv, Unloaded
  PROVE  EInv'
<1>1. /\ TypeOK /\ Listening /\ LampsWords /\ Watching
      /\ NothingOutlives /\ NoticeIsTrue /\ OfAModel
  BY DEF EInv
<1>2. /\ phase = "leaving" /\ phase' = "out"
      /\ Ceases({"stop"})
      /\ present' = FALSE /\ held' = "none" /\ task' = Idle
      /\ mirror' = None /\ allows' = TRUE /\ logged' = TRUE
      /\ restored' = [e \in Entity |-> None]
      /\ UNCHANGED <<home, spoken, listeners, failing, shown, stored, data, profiled>>
      /\ listeners = {}
  BY DEF Unloaded, Fresh
<1>3. Live /\ ~ Live'
  BY <1>2 DEF Live
<1>4. /\ ceased' = TRUE /\ begun' = {} /\ notice' = notice
      /\ registered' = [w \in Callback |-> 0] /\ twice' = FALSE
  BY <1>2, <1>3, CeasesOnce
<1>5. TypeOK'
  <2>1. task' \in [Command -> {"none", "writing", "again", "unsure"}]
    BY <1>2 DEF Idle
  <2>2. registered' \in [Callback -> 0..1] /\ begun' \subseteq Watcher
    BY <1>4
  <2> QED
    BY <1>1, <1>2, <1>4, <2>1, <2>2 DEF TypeOK
<1>6. Listening' /\ LampsWords'
  BY <1>1, <1>2, <1>3, EntryAssumption DEF Listening, LampsWords
<1>7. Watching' /\ NothingOutlives'
  BY <1>3, <1>4 DEF Watching, NothingOutlives, Callback
<1>8. ShownIsTrue' /\ NoticeIsTrue' /\ OfAModel'
  BY <1>1, <1>2, <1>3, <1>4 DEF ShownIsTrue, NoticeIsTrue, OfAModel
<1> QED
  BY <1>5, <1>6, <1>7, <1>8 DEF EInv

LEMMA StopsKeeps ==
  ASSUME EInv, Stops
  PROVE  EInv'
<1>1. /\ TypeOK /\ Listening /\ LampsWords /\ Watching
      /\ NothingOutlives /\ NoticeIsTrue /\ OfAModel
  BY DEF EInv
<1>2. /\ home' = "stopping"
      /\ UNCHANGED <<phase, present, task, seen, told, restored, data, profiled>>
  BY DEF Stops
<1>3. Live' = Live
  BY <1>2 DEF Live
<1>4. ceased' = TRUE
  BY <1>1, CeasesOnce DEF Stops, Watching, TypeOK, Ceases
<1>5. /\ begun' = {} /\ notice' = notice /\ held' \in {"none", held} /\ twice' = FALSE
      /\ registered' \in [Callback -> 0..1]
      /\ NothingOutlives'
  <2>1. CASE Live
    <3>1. Ceases({}) /\ held' = "none"
      BY <2>1 DEF Stops
    <3>2. /\ ceased' = TRUE /\ begun' = {} /\ notice' = notice
          /\ registered' = [w \in Callback |-> IF w = "stop" THEN 1 ELSE 0]
          /\ twice' = FALSE
      BY <2>1, <3>1, CeasesOnce
    <3> QED
      BY <1>3, <2>1, <3>1, <3>2 DEF NothingOutlives, Callback, Watcher
  <2>2. CASE ~ Live
    <3>1. UNCHANGED <<ceased, begun, registered, twice, notice, held>>
      BY <2>2 DEF Stops
    <3> QED
      BY <1>1, <1>3, <2>2, <3>1 DEF Watching, NothingOutlives, TypeOK
  <2> QED
    BY <2>1, <2>2
<1>6. TypeOK'
  <2>1. /\ home' \in {"up", "stopping"} /\ ceased' \in BOOLEAN /\ twice' \in BOOLEAN
        /\ begun' \subseteq Watcher /\ held' \in {"none", "up", "down"}
    BY <1>1, <1>2, <1>4, <1>5 DEF TypeOK
  <2> QED
    BY <1>1, <1>2, <1>5, <2>1 DEF TypeOK, seen, told
<1>7. Listening' /\ LampsWords' /\ Watching'
  BY <1>1, <1>2, <1>3, <1>4, <1>5 DEF Listening, LampsWords, Watching, seen, told
<1>8. ShownIsTrue' /\ NoticeIsTrue' /\ OfAModel'
  BY <1>1, <1>2, <1>4, <1>5 DEF ShownIsTrue, NoticeIsTrue, OfAModel
<1> QED
  BY <1>5, <1>6, <1>7, <1>8 DEF EInv

LEMMA RestartsKeeps ==
  ASSUME EInv, Restarts
  PROVE  EInv'
<1>1. /\ TypeOK /\ LampsWords /\ NothingOutlives /\ NoticeIsTrue
  BY DEF EInv
<1>2. /\ home = "stopping" /\ home' = "up"
      /\ phase' = IF phase = "removed" THEN phase ELSE "out"
      /\ ceased' = TRUE /\ begun' = {}
      /\ registered' = [w \in Callback |-> 0]
      /\ present' = FALSE /\ held' = "none" /\ task' = Idle
      /\ mirror' = None /\ allows' = TRUE /\ logged' = TRUE
      /\ listeners' = {} /\ failing' = {} /\ shown' = Nobody
      /\ stored' = [e \in Entity |-> IF shown[e] = "absent" THEN stored[e]
                                     ELSE Kept(e, shown[e])]
      /\ restored' = [e \in Entity |-> None]
      /\ notice' = [notice EXCEPT !.up = FALSE]
      /\ profiled' \subseteq Model
      /\ UNCHANGED <<twice, spoken, data>>
  BY DEF Restarts, Fresh
<1>3. ~ Live'
  BY <1>2 DEF Live
<1>4. \A e \in Entity : Kept(e, shown[e]) \in {shown[e], None}
                        /\ (Kept(e, shown[e]) # None => shown[e] \in Value)
  BY KeptIsShown
<1>5. TypeOK'
  <2>1. task' \in [Command -> {"none", "writing", "again", "unsure"}]
    BY <1>2 DEF Idle
  <2>2. registered' \in [Callback -> 0..1] /\ begun' \subseteq Watcher
    BY <1>2
  <2>3. shown' \in [Entity -> Value \cup NoValue]
    BY <1>2 DEF Nobody, NoValue
  <2>4. /\ restored' \in [Entity -> Value \cup {None}]
        /\ stored' \in [Entity -> Value \cup {None}]
    BY <1>1, <1>2, <1>4 DEF TypeOK
  <2>5. notice' \in [up : BOOLEAN, ignored : BOOLEAN]
    BY <1>1, <1>2 DEF TypeOK
  <2>6. phase' \in {"out", "up", "leaving", "removed"}
    BY <1>2
  <2> QED
    BY <1>1, <1>2, <2>1, <2>2, <2>3, <2>4, <2>5, <2>6 DEF TypeOK
<1>6. Listening' /\ LampsWords'
  BY <1>1, <1>2, <1>4, EntryAssumption DEF Listening, LampsWords, Nobody, NoValue
<1>7. Watching' /\ NothingOutlives'
  BY <1>1, <1>2, <1>3 DEF Watching, NothingOutlives, Callback, TypeOK
<1>8. ShownIsTrue'
  BY <1>3 DEF ShownIsTrue
<1>9. NoticeIsTrue' /\ OfAModel'
  <2>1. notice'.up = FALSE /\ notice'.ignored = notice.ignored
    BY <1>1, <1>2 DEF TypeOK
  <2>2. ASSUME phase' = "removed"
        PROVE  notice' = NoNotice
    <3>1. notice = [up |-> FALSE, ignored |-> FALSE]
      BY <1>1, <1>2, <2>2 DEF NoticeIsTrue, NoNotice
    <3>2. notice' = [[up |-> FALSE, ignored |-> FALSE] EXCEPT !.up = FALSE]
      BY <1>2, <3>1
    <3> QED
      BY <3>2 DEF NoNotice
  <2> QED
    BY <1>3, <2>1, <2>2 DEF NoticeIsTrue, OfAModel
<1> QED
  BY <1>5, <1>6, <1>7, <1>8, <1>9 DEF EInv

LEMMA RemovesEntryKeeps ==
  ASSUME EInv, RemovesEntry
  PROVE  EInv'
<1>1. /\ TypeOK /\ Listening /\ LampsWords /\ Watching /\ NothingOutlives
  BY DEF EInv
<1>2. /\ phase = "out" /\ phase' = "removed" /\ notice' = NoNotice
      /\ UNCHANGED <<home, watched, link, seen, told, restored, data, profiled>>
  BY DEF RemovesEntry
<1>3. ~ Live /\ ~ Live'
  BY <1>2 DEF Live
<1>4. TypeOK'
  <2>1. notice' \in [up : BOOLEAN, ignored : BOOLEAN]
    BY <1>2 DEF NoNotice
  <2> QED
    BY <1>1, <1>2, <2>1 DEF TypeOK, watched, link, seen, told
<1>5. Listening' /\ LampsWords' /\ Watching' /\ NothingOutlives'
  BY <1>1, <1>2, <1>3 DEF Listening, LampsWords, Watching, NothingOutlives, watched, seen, told
<1>6. ShownIsTrue' /\ NoticeIsTrue' /\ OfAModel'
  BY <1>2, <1>3 DEF ShownIsTrue, NoticeIsTrue, OfAModel, NoNotice
<1> QED
  BY <1>4, <1>5, <1>6 DEF EInv

-----------------------------------------------------------------------------
(* The notice. *)

\* A step that only touches the notice, or what the entry knows of the model.
LEMMA PresetsKeep ==
  ASSUME EInv,
         UNCHANGED <<setup, watched, link, seen, told, restored, profiled>>,
         data' \in Model \cup {None},
         notice' \in [up : BOOLEAN, ignored : BOOLEAN],
         NoticeIsTrue', OfAModel'
  PROVE  EInv'
<1>1. /\ TypeOK /\ Listening /\ LampsWords /\ Watching
      /\ NothingOutlives /\ ShownIsTrue
  BY DEF EInv
<1>2. TypeOK'
  BY <1>1 DEF TypeOK, setup, watched, link, seen, told
<1>3. Listening' /\ LampsWords' /\ Watching' /\ NothingOutlives'
  BY <1>1 DEF Listening, LampsWords, Watching, NothingOutlives, Live, setup, watched, seen, told
<1>4. ShownIsTrue'
  BY <1>1 DEF ShownIsTrue, Pending, InReach, Live, setup, watched, link, seen, told
<1> QED
  BY <1>2, <1>3, <1>4 DEF EInv

LEMMA LampDescribedKeeps ==
  ASSUME EInv, NEW m \in Model \cup {None}, LampDescribed(m)
  PROVE  EInv'
<1>1. TypeOK /\ NoticeIsTrue /\ OfAModel
  BY DEF EInv
<1>2. /\ Live
      /\ data' = IF m = None THEN data ELSE m
      /\ notice' = IF ceased THEN notice ELSE Reviewed(data')
      /\ UNCHANGED <<setup, watched, link, seen, told, restored, profiled>>
  BY DEF LampDescribed
<1>3. data' \in Model \cup {None} /\ (data' = None => data = None)
  BY <1>1, <1>2 DEF TypeOK
<1>4. /\ Reviewed(data') \in [up : BOOLEAN, ignored : BOOLEAN]
      /\ data' = None => Reviewed(data') = notice
      /\ data' # None => (Reviewed(data').up <=> data' \notin profiled)
  BY <1>1, <1>3, ReviewedIs
<1>5. notice' \in [up : BOOLEAN, ignored : BOOLEAN]
  BY <1>1, <1>2, <1>4 DEF TypeOK
<1>6. OfAModel'
  BY <1>1, <1>2, <1>3, <1>4 DEF OfAModel
<1>7. NoticeIsTrue'
  BY <1>1, <1>2, <1>3, <1>4 DEF NoticeIsTrue, OfAModel, Live, setup, watched
<1> QED
  BY <1>2, <1>3, <1>5, <1>6, <1>7, PresetsKeep

LEMMA IgnoresKeeps ==
  ASSUME EInv, Ignores
  PROVE  EInv'
<1>1. TypeOK /\ NoticeIsTrue /\ OfAModel
  BY DEF EInv
<1>2. /\ notice.up /\ notice' = [notice EXCEPT !.ignored = TRUE]
      /\ UNCHANGED <<setup, watched, link, seen, told, restored, data, profiled>>
  BY DEF Ignores
<1>3. /\ notice' \in [up : BOOLEAN, ignored : BOOLEAN] /\ notice'.up = notice.up
      /\ data' \in Model \cup {None}
  BY <1>1, <1>2 DEF TypeOK
<1>4. phase # "removed"
  BY <1>1, <1>2 DEF NoticeIsTrue, NoNotice
<1>5. NoticeIsTrue' /\ OfAModel'
  BY <1>1, <1>2, <1>3, <1>4 DEF NoticeIsTrue, OfAModel, Live, setup, watched
<1> QED
  BY <1>2, <1>3, <1>5, PresetsKeep

-----------------------------------------------------------------------------
(* The theorems. *)

LEMMA StutterKeepsEInv ==
  ASSUME EInv, UNCHANGED vars
  PROVE  EInv'
<1>1. UNCHANGED <<home, phase, ceased, begun, registered, twice, present, held, task,
                  mirror, allows, spoken, listeners, failing, shown, logged, stored,
                  restored, data, profiled, notice>>
  BY DEF vars, setup, watched, link, seen, told, presets
<1>2. TypeOK' /\ Listening' /\ LampsWords'
  BY <1>1 DEF EInv, TypeOK, Listening, LampsWords, Live
<1>3. Watching' /\ NothingOutlives' /\ OfAModel' /\ NoticeIsTrue'
  BY <1>1 DEF EInv, Watching, NothingOutlives, OfAModel, NoticeIsTrue, Live
<1>4. ShownIsTrue'
  BY <1>1 DEF EInv, ShownIsTrue, Pending, InReach, Live
<1> QED
  BY <1>2, <1>3, <1>4 DEF EInv

LEMMA NextKeepsEInv == EInv /\ [Next]_vars => EInv'
<1> SUFFICES ASSUME EInv, [Next]_vars PROVE EInv'
  OBVIOUS
<1>1. CASE Lifetime
  BY <1>1, SetUpKeeps, SetUpFailsKeeps, AddedKeeps, RemovedKeeps, LeavesKeeps, UnloadedKeeps,
     StopsKeeps, RestartsKeeps, RemovesEntryKeeps DEF Lifetime
<1>2. CASE Lamp
  BY <1>2, LampKeeps, StutterKeepsEInv
<1>3. CASE Ignores
  BY <1>3, IgnoresKeeps
<1>4. CASE \E m \in Model \cup {None} : LampDescribed(m)
  BY <1>4, LampDescribedKeeps
<1>5. CASE UNCHANGED vars
  BY <1>5, StutterKeepsEInv
<1> QED
  BY <1>1, <1>2, <1>3, <1>4, <1>5 DEF Next

\* The invariant from which the others follow.
THEOREM EntryInvariant == Spec => []EInv
BY InitEInv, NextKeepsEInv, PTL DEF Spec

\* Every variable of Entry keeps to its type; only listeners are remembered to
\* have failed (coordinator.py, _async_notify_listeners).
THEOREM EntryTypeCorrect == Spec => []TypeOK
<1>1. EInv => TypeOK
  BY DEF EInv
<1> QED
  BY <1>1, EntryInvariant, PTL

\* What the entities of a watched lamp show, and what the log said of its reach,
\* is how things stand, unless a command is about to say so (entity.py,
\* link.py log_reach).
THEOREM ShownTruly == Spec => []ShownIsTrue
<1>1. EInv => ShownIsTrue
  BY DEF EInv
<1> QED
  BY <1>1, EntryInvariant, PTL

\* No callback outlives the setup that registered it, and none is taken off
\* twice (keeper.py, watch and unwatch).
THEOREM AllTakenBack == Spec => []NothingOutlives
<1>1. EInv => NothingOutlives
  BY DEF EInv
<1> QED
  BY <1>1, EntryInvariant, PTL

\* The notice about presets is up exactly for a model without a profile, and goes
\* with the entry (keeper.py, _review_presets_notice).
THEOREM NoticeTruthful == Spec => []NoticeIsTrue
<1>1. EInv => NoticeIsTrue
  BY DEF EInv
<1> QED
  BY <1>1, EntryInvariant, PTL

\* The ways a notice, or that it is ignored, comes to an end.
LEMMA NoticeEnds ==
  ASSUME EInv, [Next]_vars
  PROVE  /\ notice.ignored /\ ~ notice'.ignored => data' \in profiled \/ phase' = "removed"
         /\ notice.up /\ ~ notice'.up => \/ data' \in profiled
                                         \/ phase' = "removed"
                                         \/ home = "stopping" /\ home' = "up"
<1>1. TypeOK /\ Watching
  BY DEF EInv
<1>2. ASSUME NEW m, m \notin profiled
      PROVE  (notice.up => Reviewed(m).up) /\ (notice.ignored => Reviewed(m).ignored)
  BY <1>1, <1>2 DEF Reviewed, TypeOK
<1>3. CASE SetUp \/ SetUpFails
  <2>1. notice' = Reviewed(data) /\ data' = data
    BY <1>3 DEF SetUp, SetUpFails
  <2> QED
    BY <1>2, <2>1
<1>4. CASE RemovesEntry
  BY <1>4 DEF RemovesEntry
<1>5. CASE Restarts
  <2>1. /\ notice' = [notice EXCEPT !.up = FALSE]
        /\ home = "stopping" /\ home' = "up"
    BY <1>5 DEF Restarts
  <2> QED
    BY <1>1, <2>1 DEF TypeOK
<1>6. CASE \E m \in Model \cup {None} : LampDescribed(m)
  <2>1. notice' \in {notice, Reviewed(data')}
    BY <1>6 DEF LampDescribed
  <2> QED
    BY <1>2, <2>1
<1>7. CASE Ignores
  BY <1>1, <1>7 DEF Ignores, TypeOK
<1>8. CASE \/ Leaves \/ Unloaded \/ Stops
           \/ \E e \in Entity : Added(e) \/ Removed(e)
  <2>1. notice' = notice
    BY <1>8 DEF Leaves, Unloaded, Stops, Ceases, Added, Removed, presets
  <2> QED
    BY <2>1
<1>9. CASE Lamp \/ UNCHANGED vars
  <2>1. notice' = notice
    <3>1. Tells => notice' = notice
      BY DEF Tells, presets
    <3>2. UNCHANGED vars => notice' = notice
      BY DEF vars, presets
    <3>3. \A k \in Command : Writes(k) \/ FailsOnce(k) \/ Fails(k) => notice' = notice
      BY DEF Writes, FailsOnce, Fails, presets
    <3> QED
      BY <1>9, <3>1, <3>2, <3>3, WhoTells DEF Lamp
  <2> QED
    BY <2>1
<1> QED
  BY <1>3, <1>4, <1>5, <1>6, <1>7, <1>8, <1>9 DEF Next, Lifetime

\* What is ignored stays so, and a notice that is up stays up, over reloads and
\* failing setups (keeper.py, _review_presets_notice).
THEOREM NoticeLasts == Spec => NoticeStands
<1>1. EInv /\ [Next]_vars =>
        [/\ notice.ignored /\ ~ notice'.ignored => data' \in profiled \/ phase' = "removed"
         /\ notice.up /\ ~ notice'.up => \/ data' \in profiled
                                         \/ phase' = "removed"
                                         \/ home = "stopping" /\ home' = "up"]_vars
  BY NoticeEnds
<1> QED
  BY <1>1, EntryInvariant, PTL DEF Spec, NoticeStands

=============================================================================
