----------------------------- MODULE LinkProofs -----------------------------
(***************************************************************************)
(* Why no client is forgotten, whatever the number of sessions, clients    *)
(* and commands.  Nearly every step of Link has one shape, a Flow: one     *)
(* task moves on, its link lets go of some clients, and hang-ups begin.    *)
(* FlowKeepsIInv says once what such a step must see to for IInv to hold   *)
(* after it; the proof for an action says which Flow it is, and that it    *)
(* sees to that.  Five steps are of another shape and proved by hand.      *)
(*                                                                         *)
(* Link is then shown to implement OneDoor, and OneTurn: a step moves one  *)
(* task's turn (Moves), and those that are out of the lock are Ready to    *)
(* begin anew.  That nobody waits in vain follows with what is Awaited.    *)
(***************************************************************************)
EXTENDS Link, TLAPS

\* Task (s, r) goes on to wait at p, with c in hand; no other moves.
Turns(s, r, p, c) ==
    /\ pc'   \in [Session -> [Role -> Place]]
    /\ mine' \in [Session -> [Role -> Client \cup {None}]]
    /\ \A z \in Session, q \in Role :
          /\ pc'[z][q]   = IF z = s /\ q = r THEN p ELSE pc[z][q]
          /\ mine'[z][q] = IF z = s /\ q = r THEN c ELSE mine[z][q]

\* The link of s holds no client of D afterwards; no other link changes.
LetsGo(s, D) ==
    /\ held' \in [Session -> Client \cup {None}]
    /\ \A z \in Session : held'[z] = IF z = s /\ held[s] \in D THEN None ELSE held[z]

\* A hang-up of every client in C is under way, and no other began or ended.
HangsUp(C) ==
    /\ hangUps' \in SUBSET HangUp
    /\ \A x \in Client : Leaving(x)' <=> Leaving(x) \/ x \in C

\* Nothing else is any concern of IInv but its type.
RestTyped ==
    /\ phase'  \in [Session -> {"new", "running", "stopped", "down"}]
    /\ lock'   \in [Session -> Role \cup {None}]
    /\ primed' \in [Session -> Client \cup {None}]
    /\ doubt'  \in [Session -> Client \cup {None}]
    /\ tried'  \in [Session -> [Role -> 1..WriteAttempts]]
    /\ said'   \in [Session -> [Role -> BOOLEAN]]
    /\ awaits' \in [Session -> SUBSET HangUp]
    /\ up'     \in SUBSET Client

Flow(s, r, p, c, D, C) ==
    /\ Turns(s, r, p, c)
    /\ LetsGo(s, D)
    /\ HangsUp(C)
    /\ RestTyped
    /\ UNCHANGED <<open, kept>>
    /\ \A z \in Session : z # s => phase'[z] = phase[z] /\ lock'[z] = lock[z]
    /\ lock[s] \notin {r, None} => lock'[s] = lock[s]

\* What a Flow must see to.  The session: its turn is now, and once stopped it
\* holds nothing.
SessionSound(s, r, D) ==
    /\ phase'[s] # "new"
    /\ r = "stop" \/ phase'[s] # phase[s] =>
          phase[s] \in {"new", "running"} \/ pc[s]["stop"] # "idle"
    /\ phase[s] = "new" => \A z \in Session : z < s =>
                              phase[z] = "stopped" /\ pc[z]["stop"] = "idle"
    /\ pc'[s]["stop"] # "idle" => phase'[s] = "stopped"
    /\ Stopped(s)' /\ pc'[s]["stop"] # "lock" => held[s] \in D \cup {None}
    /\ \A z \in Session : held'[z] # None => held'[z] \in up'

\* The client c in hand, which is the one it was or the one the link holds, and
\* the clients let go of, which are hung up or in hand.
ClientSound(s, r, p, c, D, C) ==
    /\ p \in Inside => lock'[s] = r
    /\ c # None => p \in {"subscribe", "talk", "vouch"}
    /\ p \in {"subscribe", "talk"} => c # None
    /\ r = "stop" => c = None
    /\ \/ c \in {None, mine[s][r]}
       \/ p = "talk" /\ c = held[s] /\ lock[s] = None
    /\ p = "talk" /\ c # None => held[s] \in D \cup {None, c}
    /\ p \in Inside \ {"talk"} => held[s] \in D \cup {None}
    /\ pc[s][r] = "talk" /\ c # None => p = "talk" \/ c \in D
    /\ c # None /\ p # "talk" => c \notin C /\ Sound(c)
    /\ C \subseteq D \cup kept
    /\ C \subseteq {held[s], mine[s][r]} \cup kept
    /\ \A x \in D : x \in C \/ (x = c /\ p = "vouch")
    /\ mine[s][r] # None /\ pc[s][r] \in {"subscribe", "vouch"} =>
          \/ mine[s][r] \in C
          \/ c = mine[s][r] /\ p \in {"subscribe", "vouch"}

FlowSound(s, r, p, c, D, C) == SessionSound(s, r, D) /\ ClientSound(s, r, p, c, D, C)

-----------------------------------------------------------------------------
(* The operators the actions are made of. *)

\* At moves one task: it is the Turns of a Flow.
LEMMA AtTurns ==
    ASSUME TypeOK, NEW s \in Session, NEW r \in Role, NEW p \in Place,
           NEW c \in Client \cup {None}, At(s, r, p, c)
    PROVE  Turns(s, r, p, c)
  BY DEF TypeOK, At, Turns

\* A task that does not move is one that goes on waiting where it is.
LEMMA StillTurns ==
    ASSUME TypeOK, NEW s \in Session, NEW r \in Role, UNCHANGED <<pc, mine>>
    PROVE  Turns(s, r, pc[s][r], mine[s][r])
  BY DEF TypeOK, Turns

\* LetGoOf takes a client from one link at most, and keeps the types.
LEMMA LetGoOfLetsGo ==
    ASSUME TypeOK, NEW s \in Session, NEW D, LetGoOf(s, D)
    PROVE  LetsGo(s, D) /\ doubt' \in [Session -> Client \cup {None}]
  BY DEF TypeOK, LetGoOf, LetsGo

\* A step that leaves the links as they are lets go of nothing.
LEMMA StillLetsGo ==
    ASSUME TypeOK, NEW s \in Session, UNCHANGED held
    PROVE  LetsGo(s, {})
  BY DEF TypeOK, LetsGo

\* With begins a hang-up of each client of C and ends none.
LEMMA WithHangsUp ==
    ASSUME TypeOK, NEW C \in SUBSET Client, hangUps' = With(C)
    PROVE  HangsUp(C) /\ With(C) \in SUBSET HangUp
  <1>1. \A x \in Client : NewHangUp(x) \in {<<x, 1>>, <<x, 2>>}
    BY DEF NewHangUp
  <1>2. With(C) \in SUBSET HangUp
    BY <1>1 DEF TypeOK, With, HangUp
  <1>3. ASSUME NEW x \in Client
        PROVE  Leaving(x)' <=> Leaving(x) \/ x \in C
    BY <1>1 DEF Leaving, With
  <1> QED BY <1>2, <1>3 DEF HangsUp

\* A step that leaves the hang-ups as they are hangs nothing up.
LEMMA StillHangsUp ==
    ASSUME TypeOK, UNCHANGED hangUps
    PROVE  HangsUp({})
  BY DEF TypeOK, HangsUp, Leaving

-----------------------------------------------------------------------------
(* What a Flow keeps. *)

\* A step that is a Flow, and sees to what a Flow must, keeps the invariant.
LEMMA FlowKeepsIInv ==
    ASSUME IInv, NEW s \in Session, NEW r \in Role, NEW p \in Place,
           NEW c \in Client \cup {None},
           NEW D \in SUBSET Client, NEW C \in SUBSET Client,
           Flow(s, r, p, c, D, C), FlowSound(s, r, p, c, D, C)
    PROVE  IInv'
  <1> USE NamesAssumption
  <1> "stop" \in Role /\ Inside \subseteq Place
    BY DEF Role, Inside, Place
  <1>1. TypeOK'
    BY DEF IInv, TypeOK, Flow, Turns, LetsGo, HangsUp, RestTyped
  <1>2. LockHeld'
    BY DEF IInv, LockHeld, Flow, Turns, FlowSound, SessionSound, ClientSound
  <1>3. MineWhere'
    BY DEF IInv, MineWhere, Flow, Turns, FlowSound, SessionSound, ClientSound
  <1>4. ASSUME NEW z \in Session, NEW q \in Role, z # s \/ q # r,
               c # None, mine[z][q] = c
        PROVE  FALSE
    <2>1. CASE c = mine[s][r]
      BY <1>4, <2>1 DEF IInv, MineAlone
    <2>2. CASE c = held[s] /\ lock[s] = None
      <3>1. z = s /\ pc[z][q] = "talk"
        BY <1>4, <2>2 DEF IInv, HeldMine
      <3> QED BY <2>2, <3>1 DEF IInv, LockHeld, Inside
    <2> QED BY <1>4, <2>1, <2>2 DEF FlowSound, SessionSound, ClientSound
  <1>5. MineAlone'
    BY <1>4 DEF IInv, MineAlone, Flow, Turns
  <1>6. HeldInside'
    <2> SUFFICES ASSUME NEW y \in Session, NEW q \in Role
                 PROVE  /\ pc'[y][q] \in Inside \ {"talk"} => held'[y] = None
                        /\ pc'[y][q] = "talk" => held'[y] \in {None, mine'[y][q]}
      BY DEF HeldInside
    <2>1. held'[y] \in {held[y], None} /\ (y = s /\ held[s] \in D => held'[y] = None)
      BY DEF Flow, LetsGo
    <2>2. CASE y = s /\ q = r
      <3>1. pc'[y][q] = p /\ mine'[y][q] = c
        BY <2>2 DEF Flow, Turns
      <3> QED BY <2>1, <2>2, <3>1 DEF FlowSound, ClientSound, Inside
    <2>3. CASE y # s \/ q # r
      <3>1. pc'[y][q] = pc[y][q] /\ mine'[y][q] = mine[y][q]
        BY <2>3 DEF Flow, Turns
      <3> QED BY <2>1, <3>1 DEF IInv, HeldInside
    <2> QED BY <2>2, <2>3
  <1>7. HeldMine'
    <2> SUFFICES ASSUME NEW z \in Session, NEW y \in Session, NEW q \in Role,
                        held'[z] # None, held'[z] = mine'[y][q]
                 PROVE  z = y /\ pc'[y][q] = "talk"
      BY DEF HeldMine
    <2>1. held[z] = held'[z] /\ ~ (z = s /\ held[s] \in D)
      BY DEF Flow, LetsGo
    <2>2. CASE y # s \/ q # r
      BY <2>1, <2>2 DEF IInv, HeldMine, Flow, Turns
    <2>3. CASE y = s /\ q = r
      <3>1. mine'[s][r] = c /\ pc'[s][r] = p
        BY DEF Flow, Turns
      <3>2. CASE c = mine[s][r]
        BY <2>1, <2>3, <3>1, <3>2 DEF IInv, HeldMine, FlowSound, SessionSound, ClientSound
      <3>3. CASE p = "talk" /\ c = held[s]
        BY <2>1, <2>3, <3>1, <3>3 DEF IInv, HeldAlone
      <3> QED BY <2>1, <2>3, <3>1, <3>2, <3>3 DEF FlowSound, SessionSound, ClientSound
    <2> QED BY <2>2, <2>3
  <1>8. HeldAlone'
    BY DEF IInv, HeldAlone, Flow, LetsGo
  <1>9. ASSUME NEW x \in Client, NEW z \in Session, held'[z] = x
        PROVE  Sound(x)'
    <2>1. held[z] = x /\ ~ (z = s /\ x \in D) /\ Sound(x)
      BY <1>9 DEF IInv, HeldSound, Flow, LetsGo
    <2>2. x \notin C
      <3>1. x = held[s] => z = s
        BY <2>1 DEF IInv, HeldAlone
      <3>2. x = mine[s][r] => z = s
        BY <2>1 DEF IInv, HeldMine
      <3> QED BY <2>1, <3>1, <3>2 DEF FlowSound, SessionSound, ClientSound, Sound
    <2> QED BY <2>1, <2>2 DEF Flow, HangsUp, Sound
  <1>10. HeldSound'
    BY <1>9 DEF Flow, LetsGo, HeldSound, FlowSound, SessionSound, ClientSound
  <1>11. ASSUME NEW x \in Client, NEW z \in Session, NEW q \in Role,
                mine'[z][q] = x, pc'[z][q] # "talk"
         PROVE  Sound(x)'
    <2>1. CASE z = s /\ q = r
      BY <1>11, <2>1 DEF Flow, Turns, HangsUp, FlowSound, SessionSound, ClientSound, Sound
    <2>2. CASE z # s \/ q # r
      <3>1. mine[z][q] = x /\ pc[z][q] # "talk"
        BY <1>11, <2>2 DEF Flow, Turns
      <3>2. Sound(x) /\ x # held[s] /\ x # mine[s][r]
        BY <2>2, <3>1 DEF IInv, HandSound, HeldMine, MineAlone
      <3> QED BY <3>2 DEF Flow, HangsUp, FlowSound, SessionSound, ClientSound, Sound
    <2> QED BY <2>1, <2>2
  <1>12. HandSound'
    BY <1>11 DEF HandSound, Flow, Turns
  <1>13. StopsOnce'
    BY DEF IInv, StopsOnce, Stopped, Flow, Turns, LetsGo, FlowSound, SessionSound, ClientSound
  <1>14. NotYet'
    <2> SUFFICES ASSUME NEW z \in Session, phase'[z] = "new"
                 PROVE  held'[z] = None /\ \A q \in Role : pc'[z][q] = "idle"
      BY DEF NotYet
    <2>1. z # s /\ phase[z] = "new"
      BY DEF Flow, FlowSound, SessionSound, ClientSound
    <2>2. held[z] = None /\ \A q \in Role : pc[z][q] = "idle"
      BY <2>1 DEF IInv, NotYet
    <2>3. held'[z] = None
      BY <2>1, <2>2 DEF Flow, LetsGo
    <2>4. ASSUME NEW q \in Role
          PROVE  pc'[z][q] = "idle"
      BY <2>1, <2>2 DEF Flow, Turns
    <2> QED BY <2>3, <2>4
  <1>15. InTurn'
    BY DEF IInv, InTurn, Flow, Turns, FlowSound, SessionSound, ClientSound, Session
  <1>16. NothingForgotten'
    <2> SUFFICES ASSUME NEW x \in open
                 PROVE  \/ \E z \in Session : held'[z] = x
                        \/ InHand(x)'
                        \/ Leaving(x)'
                        \/ x \in kept
      BY DEF Flow, NothingForgotten
    <2> x \in Client
      BY DEF IInv, TypeOK
    <2>1. CASE \E z \in Session : held[z] = x
      BY <2>1 DEF Flow, Turns, LetsGo, HangsUp, FlowSound, SessionSound, ClientSound, InHand
    <2>2. CASE InHand(x)
      <3>1. PICK z \in Session, q \in Role :
                    mine[z][q] = x /\ pc[z][q] \in {"subscribe", "vouch"}
        BY <2>2 DEF InHand
      <3>2. CASE z = s /\ q = r
        BY <3>1, <3>2 DEF Flow, Turns, HangsUp, FlowSound, SessionSound, ClientSound, InHand
      <3>3. CASE z # s \/ q # r
        BY <3>1, <3>3 DEF Flow, Turns, InHand
      <3> QED BY <3>2, <3>3
    <2>3. CASE Leaving(x)
      BY <2>3 DEF Flow, HangsUp
    <2> QED BY <2>1, <2>2, <2>3 DEF IInv, NothingForgotten
  <1> QED
    BY <1>1, <1>2, <1>3, <1>5, <1>6, <1>7, <1>8, <1>10, <1>12, <1>13, <1>14,
       <1>15, <1>16 DEF IInv

\* What GiveUp and Open do to the lock, and that they keep the types.
Locks(s, r) ==
    /\ lock'   \in [Session -> Role \cup {None}]
    /\ tried'  \in [Session -> [Role -> 1..WriteAttempts]]
    /\ said'   \in [Session -> [Role -> BOOLEAN]]
    /\ awaits' \in [Session -> SUBSET HangUp]
    /\ \A z \in Session : z # s => lock'[z] = lock[z]
    /\ lock[s] \notin {r, None} => lock'[s] = lock[s]

\* A flow that gives up lets the lock go, and waits for the vouching or for
\* nothing.
LEMMA GiveUpTurns ==
    ASSUME TypeOK, NEW s \in Session, NEW r \in Role,
           NEW c \in Client \cup {None}, NEW b \in BOOLEAN, GiveUp(s, r, c, b)
    PROVE  /\ Turns(s, r, IF b THEN "vouch" ELSE "idle", IF b THEN c ELSE None)
           /\ Locks(s, r)
  <1>1. Turns(s, r, IF b THEN "vouch" ELSE "idle", IF b THEN c ELSE None)
    BY AtTurns DEF GiveUp, Place
  <1>2. 1 \in 1..WriteAttempts
    BY CountsAssumption
  <1>3. Locks(s, r)
    BY <1>2 DEF TypeOK, GiveUp, Attempt, LetLockGo, Await, Locks
  <1> QED BY <1>1, <1>3

\* Open goes on inside the lock, where what is to be dialled may be, or gives up.
LEMMA OpenTurns ==
    ASSUME TypeOK, NEW s \in Session, NEW r \in Role, NEW H \in SUBSET HangUp,
           NEW n \in 1..WriteAttempts, NEW b \in BOOLEAN, Open(s, r, H, n, b),
           lock[s] \in {None, r}
    PROVE  \E p \in {"hangups", "dial", "idle", "vouch"} :
              /\ Turns(s, r, p, None)
              /\ p \in Inside => lock'[s] = r
              /\ Locks(s, r)
  <1>1. CASE GiveUp(s, r, None, b)
    BY <1>1, GiveUpTurns DEF Inside
  <1>2. CASE /\ At(s, r, IF H = {} THEN "dial" ELSE "hangups", None)
             /\ Attempt(s, r, n, b)
             /\ TakeLock(s, r)
             /\ Await(s, H)
    <2>1. Turns(s, r, IF H = {} THEN "dial" ELSE "hangups", None)
      BY <1>2, AtTurns DEF Place
    <2>2. Locks(s, r) /\ lock'[s] = r
      BY <1>2 DEF TypeOK, Attempt, TakeLock, Await, Locks
    <2> QED BY <2>1, <2>2
  <1> QED BY <1>1, <1>2 DEF Open

\* A Flow that leaves the session, and the clients that are up, as they are.
LEMMA WithinTheTurn ==
    ASSUME IInv, NEW s \in Session, NEW r \in Role \ {"stop"}, NEW p \in Place,
           NEW c \in Client \cup {None},
           NEW D \in SUBSET Client, NEW C \in SUBSET Client,
           Flow(s, r, p, c, D, C), UNCHANGED <<phase, up>>, phase[s] # "new"
    PROVE  SessionSound(s, r, D)
  <1> "stop" \in Role
    BY DEF Role
  <1>1. /\ pc'[s]["stop"] # "idle" => phase'[s] = "stopped"
        /\ Stopped(s)' /\ pc'[s]["stop"] # "lock" => held[s] = None
    BY DEF IInv, StopsOnce, Stopped, Flow, Turns
  <1>2. \A z \in Session : held'[z] # None => held'[z] \in up'
    BY DEF IInv, HeldSound, Flow, LetsGo
  <1> QED BY <1>1, <1>2 DEF SessionSound

\* A flow within its session's turn.
LEMMA FlowsOn ==
    ASSUME IInv, NEW s \in Session, NEW r \in Role \ {"stop"}, NEW p \in Place,
           NEW c \in Client \cup {None},
           NEW D \in SUBSET Client, NEW C \in SUBSET Client,
           Turns(s, r, p, c), Locks(s, r), LetsGo(s, D), HangsUp(C),
           doubt' \in [Session -> Client \cup {None}],
           UNCHANGED <<phase, primed, bluez>>, phase[s] # "new",
           ClientSound(s, r, p, c, D, C)
    PROVE  IInv'
  <1>1. RestTyped
    BY DEF IInv, TypeOK, RestTyped, Locks, bluez
  <1>2. Flow(s, r, p, c, D, C)
    BY <1>1 DEF Flow, Locks, bluez
  <1>3. SessionSound(s, r, D)
    BY <1>2, WithinTheTurn DEF bluez
  <1> QED BY <1>2, <1>3, FlowKeepsIInv DEF FlowSound

\* A task that goes on with no client in hand: what it had is hung up.
LEMMA EmptyHanded ==
    ASSUME IInv, NEW s \in Session, NEW r \in Role \ {"stop"},
           NEW p \in {"idle", "lock", "vouch", "hangups", "dial", "closing"},
           NEW C \in SUBSET Client,
           Turns(s, r, p, None), Locks(s, r), LetsGo(s, C), HangsUp(C),
           doubt' \in [Session -> Client \cup {None}],
           UNCHANGED <<phase, primed, bluez>>, phase[s] # "new",
           p \in Inside => lock'[s] = r /\ held[s] \in C \cup {None},
           C \subseteq {held[s], mine[s][r]},
           pc[s][r] \in {"subscribe", "vouch"} => mine[s][r] \in C \cup {None}
    PROVE  IInv'
  <1>1. p \in Place
    BY DEF Place
  <1>2. ClientSound(s, r, p, None, C, C)
    BY NamesAssumption DEF ClientSound, Inside
  <1> QED BY <1>1, <1>2, FlowsOn

\* A flow that begins to speak on the client the link holds.
LEMMA Speaks ==
    ASSUME IInv, NEW s \in Session, NEW r \in Role \ {"stop"},
           pc[s][r] = "lock", lock[s] = None, held[s] # None,
           At(s, r, "talk", held[s]), lock'[s] = r, Locks(s, r),
           UNCHANGED <<phase, held, memory, hangUps, bluez>>
    PROVE  IInv'
  <1>1. held[s] \in Client /\ "talk" \in Place /\ phase[s] # "new"
    BY DEF IInv, TypeOK, NotYet, Place
  <1>2. Turns(s, r, "talk", held[s]) /\ LetsGo(s, {}) /\ HangsUp({})
    BY <1>1, AtTurns, StillLetsGo, StillHangsUp DEF IInv
  <1>3. ClientSound(s, r, "talk", held[s], {}, {})
    BY <1>1, NamesAssumption DEF ClientSound, Inside
  <1> QED BY <1>1, <1>2, <1>3, FlowsOn DEF memory, IInv, TypeOK

\* A command whose last attempt failed on c: the link does not hold it any more,
\* and it is vouched for.
LEMMA WaitsForVouching ==
    ASSUME IInv, NEW s \in Session, NEW r \in Role \ {"stop"},
           NEW c \in Client \cup {None}, c \in {None, mine[s][r]},
           pc[s][r] = "subscribe" \/ (pc[s][r] = "talk" /\ c = held[s]),
           pc[s][r] = "subscribe" => c # None,
           Turns(s, r, "vouch", c), Locks(s, r), LetsGo(s, {c} \ {None}),
           doubt' \in [Session -> Client \cup {None}],
           UNCHANGED <<phase, primed, hangUps, bluez>>
    PROVE  IInv'
  <1> USE NamesAssumption
  <1> DEFINE D == {c} \ {None}
  <1>1. "vouch" \in Place /\ phase[s] # "new" /\ D \in SUBSET Client
    BY DEF Place, IInv, NotYet
  <1>2. c # None => Sound(c)
    BY DEF IInv, HandSound, HeldSound
  <1>3. HangsUp({})
    BY StillHangsUp DEF IInv
  <1>4. ClientSound(s, r, "vouch", c, D, {})
    BY <1>2 DEF ClientSound, Inside
  <1> QED BY <1>1, <1>3, <1>4, FlowsOn

-----------------------------------------------------------------------------
(* The session's own steps. *)

\* A step in which no task moves, and the link lets go of what it holds at most.
LEMMA StandsStill ==
    ASSUME IInv, NEW s \in Session, NEW D \in SUBSET Client, NEW C \in SUBSET Client,
           UNCHANGED <<phase, lock, pc, mine, open, kept>>, phase[s] # "new",
           LetsGo(s, D), HangsUp(C), RestTyped,
           D \subseteq C, C \subseteq {held[s]} \cup kept, C \subseteq D \cup kept,
           \A z \in Session : held'[z] # None => held'[z] \in up'
    PROVE  IInv'
  <1> USE NamesAssumption
  <1> DEFINE p == pc[s]["probe"]
             c == mine[s]["probe"]
  <1>1. "probe" \in Role /\ "stop" \in Role /\ p \in Place /\ c \in Client \cup {None}
    BY DEF IInv, TypeOK, Role, Background
  <1>2. Turns(s, "probe", p, c)
    BY <1>1, StillTurns DEF IInv
  <1>3. Flow(s, "probe", p, c, D, C)
    BY <1>2 DEF Flow
  <1>4. c # None /\ p # "talk" => c \notin C /\ Sound(c)
    BY <1>1 DEF IInv, HandSound, HeldMine, Sound
  <1>5. /\ p \in Inside => lock'[s] = "probe"
        /\ c # None => p \in {"subscribe", "talk", "vouch"}
        /\ p \in {"subscribe", "talk"} => c # None
        /\ p = "talk" => held[s] \in {None, c}
        /\ p \in Inside \ {"talk"} => held[s] = None
    BY <1>1 DEF IInv, LockHeld, MineWhere, HeldInside
  <1>6. /\ pc'[s]["stop"] # "idle" => phase'[s] = "stopped"
        /\ Stopped(s)' /\ pc'[s]["stop"] # "lock" => held[s] = None
    BY DEF IInv, StopsOnce, Stopped
  <1>7. \A x \in D : x \in C
    OBVIOUS
  <1>8. FlowSound(s, "probe", p, c, D, C)
    BY <1>1, <1>4, <1>5, <1>6, <1>7 DEF FlowSound, SessionSound, ClientSound
  <1> QED BY <1>1, <1>3, <1>8, FlowKeepsIInv

\* A step in which the kept clients may be hung up again, and a piece of
\* background work begins or none does.
LEMMA SetsOff ==
    ASSUME IInv, NEW s \in Session, NEW r \in Background, NEW C \in SUBSET kept,
           phase[s] = "running", Spawn(s, r) \/ UNCHANGED <<pc, mine>>, HangsUp(C),
           UNCHANGED <<phase, lock, held, primed, doubt, tried, said, awaits, open, up, kept>>
    PROVE  IInv'
  <1> USE NamesAssumption
  <1> r \in Role /\ r # "stop" /\ "lock" \in Place /\ C \in SUBSET Client
    BY DEF Role, Background, Connecting, Place, IInv, TypeOK
  <1>1. LetsGo(s, {}) /\ RestTyped
    BY StillLetsGo DEF IInv, TypeOK, RestTyped
  <1>2. CASE UNCHANGED <<pc, mine>>
    <2>1. \A z \in Session : held'[z] # None => held'[z] \in up'
      BY DEF IInv, HeldSound
    <2> QED BY <1>1, <1>2, <2>1, StandsStill
  <1>3. CASE pc[s][r] = "idle" /\ At(s, r, "lock", None)
    <2>1. Flow(s, r, "lock", None, {}, C)
      BY <1>1, <1>3, AtTurns DEF Flow, IInv
    <2>2. FlowSound(s, r, "lock", None, {}, C)
      BY <1>3, <2>1, WithinTheTurn DEF FlowSound, SessionSound, ClientSound, Inside
    <2> QED BY <2>1, <2>2, FlowKeepsIInv
  <1> QED BY <1>2, <1>3 DEF Spawn

\* A session that is set up keeps the invariant: the ones before it are over.
LEMMA StartKeeps ==
    ASSUME IInv, NEW s \in Session, Start(s)
    PROVE  IInv'
  <1> "initial" \in Role /\ "stop" \in Role /\ "lock" \in Place
    BY DEF Role, Background, Connecting, Place
  <1>1. Turns(s, "initial", "lock", None)
    BY AtTurns DEF IInv, Start
  <1>2. Flow(s, "initial", "lock", None, {}, {})
    BY <1>1, StillLetsGo, StillHangsUp
    DEF IInv, TypeOK, Start, Flow, RestTyped, memory, locals, bluez
  <1>3. phase'[s] = "running" /\ phase[s] = "new"
    BY DEF IInv, TypeOK, Start
  <1>4. \A z \in Session : z < s => phase[z] = "stopped" /\ pc[z]["stop"] = "idle"
    BY DEF Start, Unloaded
  <1>5. /\ pc[s]["initial"] = "idle" /\ pc'[s]["stop"] = "idle"
        /\ \A z \in Session : held'[z] # None => held'[z] \in up'
    BY <1>1 DEF IInv, NotYet, HeldSound, Start, Turns, bluez
  <1>6. FlowSound(s, "initial", "lock", None, {}, {})
    BY <1>3, <1>4, <1>5 DEF FlowSound, SessionSound, ClientSound, Stopped, Inside
  <1> QED BY <1>2, <1>6, FlowKeepsIInv

\* An unload keeps the invariant: the link is left to let_go, if one is held.
LEMMA UnloadKeeps ==
    ASSUME IInv, NEW s \in Session, Unload(s)
    PROVE  IInv'
  <1> DEFINE p == IF held[s] = None THEN "idle" ELSE "lock"
  <1> "stop" \in Role /\ p \in Place
    BY DEF Role, Place
  <1>1. Turns(s, "stop", p, None)
    BY AtTurns DEF IInv, Unload
  <1>2. Flow(s, "stop", p, None, {}, {})
    BY <1>1, StillLetsGo, StillHangsUp
    DEF IInv, TypeOK, Unload, Flow, RestTyped, memory, locals, bluez
  <1>3. phase'[s] = "stopped" /\ phase[s] = "running" /\ pc'[s]["stop"] = p
    BY <1>1 DEF IInv, TypeOK, Unload, Turns
  <1>4. /\ mine[s]["stop"] = None
        /\ \A z \in Session : held'[z] # None => held'[z] \in up'
    BY DEF IInv, MineWhere, HeldSound, Unload, bluez
  <1>5. FlowSound(s, "stop", p, None, {}, {})
    BY <1>3, <1>4 DEF FlowSound, SessionSound, ClientSound, Inside
  <1> QED BY <1>2, <1>5, FlowKeepsIInv

\* let_go keeps the invariant, with the lock and without it.
LEMMA LetGoKeeps ==
    ASSUME IInv, NEW s \in Session, LetGo(s)
    PROVE  IInv'
  <1> USE NamesAssumption
  <1> DEFINE p == IF held[s] = None THEN "idle" ELSE "bye"
             C == {held[s]} \ {None}
  <1> "stop" \in Role /\ p \in Place /\ C \in SUBSET Client
    BY DEF Role, Place, IInv, TypeOK
  <1>1. /\ Turns(s, "stop", p, None)
        /\ LetsGo(s, C)
        /\ HangsUp(C)
        /\ doubt' \in [Session -> Client \cup {None}]
    BY AtTurns, LetGoOfLetsGo, WithHangsUp DEF IInv, LetGo, HangUpAll
  <1>6. /\ lock' \in [Session -> Role \cup {None}]
        /\ \A z \in Session : z # s => lock'[z] = lock[z]
        /\ lock[s] # None => lock'[s] = lock[s]
    <2>1. UNCHANGED lock \/ (lock[s] = None /\ TakeLock(s, "stop"))
      BY DEF LetGo
    <2>2. CASE UNCHANGED lock
      BY <2>2 DEF IInv, TypeOK
    <2>3. CASE lock[s] = None /\ TakeLock(s, "stop")
      BY <2>3 DEF IInv, TypeOK, TakeLock
    <2> QED BY <2>1, <2>2, <2>3
  <1>2. Flow(s, "stop", p, None, C, C)
    BY <1>1, <1>6 DEF IInv, TypeOK, LetGo, Flow, RestTyped, locals, bluez
  <1>3. phase'[s] = phase[s] /\ phase[s] = "stopped"
    BY DEF LetGo, IInv, StopsOnce
  <1>4. /\ mine[s]["stop"] = None
        /\ \A z \in Session : held'[z] # None => held'[z] \in up'
    BY <1>1 DEF IInv, MineWhere, HeldSound, LetGo, bluez, LetsGo
  <1>5. FlowSound(s, "stop", p, None, C, C)
    BY <1>3, <1>4 DEF FlowSound, SessionSound, ClientSound, Inside, LetGo
  <1> QED BY <1>2, <1>5, FlowKeepsIInv

\* The end of an unload keeps the invariant: nothing is held by then.
LEMMA LetGoEndsKeeps ==
    ASSUME IInv, NEW s \in Session, LetGoEnds(s)
    PROVE  IInv'
  <1> USE NamesAssumption
  <1> "stop" \in Role /\ "idle" \in Place
    BY DEF Role, Place
  <1>1. Turns(s, "stop", "idle", None) /\ LetsGo(s, {}) /\ HangsUp({})
    BY AtTurns, StillLetsGo, StillHangsUp DEF IInv, LetGoEnds
  <1>2. Flow(s, "stop", "idle", None, {}, {})
    BY <1>1 DEF IInv, TypeOK, LetGoEnds, LetLockGo, Flow, RestTyped, memory, locals, bluez
  <1>3. phase'[s] = phase[s] /\ phase[s] = "stopped"
    BY DEF LetGoEnds, IInv, StopsOnce
  <1>4. /\ mine[s]["stop"] = None
        /\ Stopped(s)' => held[s] = None
        /\ \A z \in Session : held'[z] # None => held'[z] \in up'
    BY DEF IInv, MineWhere, StopsOnce, HeldSound, Stopped, LetGoEnds, bluez
  <1>5. FlowSound(s, "stop", "idle", None, {}, {})
    BY <1>3, <1>4 DEF FlowSound, SessionSound, ClientSound, Inside, LetGoEnds
  <1> QED BY <1>2, <1>5, FlowKeepsIInv

\* The stop of Home Assistant keeps the invariant: the link is let go of at once.
LEMMA ShutDownKeeps ==
    ASSUME IInv, NEW s \in Session, ShutDown(s)
    PROVE  IInv'
  <1> USE NamesAssumption
  <1> DEFINE r == "probe"
             p == pc[s][r]
             c == mine[s][r]
             C == {held[s]} \ {None}
  <1>1. /\ r \in Role /\ "stop" \in Role /\ p \in Place /\ c \in Client \cup {None}
        /\ C \in SUBSET Client
    BY DEF Role, Background, IInv, TypeOK
  <1>2. Turns(s, r, p, c) /\ LetsGo(s, C) /\ HangsUp(C)
    BY <1>1, StillTurns, LetGoOfLetsGo, WithHangsUp DEF IInv, ShutDown, HangUpAll
  <1>3. Flow(s, r, p, c, C, C)
    BY <1>1, <1>2, LetGoOfLetsGo
    DEF IInv, TypeOK, ShutDown, HangUpAll, Flow, RestTyped, locals, bluez
  <1>4. phase'[s] = "down" /\ phase[s] = "running" /\ pc'[s]["stop"] = "idle"
    BY <1>1 DEF IInv, TypeOK, StopsOnce, ShutDown
  <1>5. /\ p \in Inside => lock'[s] = r
        /\ c # None => p \in {"subscribe", "talk", "vouch"}
        /\ p \in {"subscribe", "talk"} => c # None
        /\ p \in Inside \ {"talk"} => held[s] = None
        /\ \A z \in Session : held'[z] # None => held'[z] \in up'
    BY <1>1, <1>2 DEF IInv, LockHeld, MineWhere, HeldInside, HeldSound, ShutDown, bluez, LetsGo
  <1>6. c # None /\ p # "talk" => c \notin C /\ Sound(c)
    BY <1>1 DEF IInv, HandSound, HeldMine
  <1>7. FlowSound(s, r, p, c, C, C)
    BY <1>1, <1>4, <1>5, <1>6 DEF FlowSound, SessionSound, ClientSound
  <1> QED BY <1>1, <1>3, <1>7, FlowKeepsIInv

\* A tick keeps the invariant, whether or not it finds a link.
LEMMA TickKeeps ==
    ASSUME IInv, NEW s \in Session, Advertised(s) \/ Tick(s)
    PROVE  IInv'
  <1> USE NamesAssumption
  <1>1. kept \in SUBSET Client /\ {"reconnect", "prime", "probe"} \subseteq Background
    BY DEF IInv, TypeOK, Background, Connecting
  <1>2. CASE Advertised(s)
    BY <1>1, <1>2, StillHangsUp, SetsOff DEF Advertised, memory, locals, bluez, IInv
  <1>3. CASE TickDisconnected(s)
    BY <1>1, <1>3, WithHangsUp, SetsOff DEF TickDisconnected, memory, locals, bluez, IInv
  <1>4. CASE TickConnected(s)
    BY <1>1, <1>4, WithHangsUp, SetsOff DEF TickConnected, memory, locals, bluez, IInv
  <1>5. CASE TickDropsDoubted(s)
    <2> DEFINE C == kept \cup {held[s]}
    <2>1. C \in SUBSET Client /\ {held[s]} \in SUBSET Client
      BY <1>5 DEF TickDropsDoubted, Connected, IInv, TypeOK
    <2>2. held[s] \notin kept /\ held[s] # None
      BY <1>5, <2>1 DEF IInv, HeldSound, Sound
    <2>3. \A z \in Session : held[z] \notin kept
      BY <1>1 DEF IInv, HeldSound, Sound
    <2>4. /\ LetsGo(s, {held[s]})
          /\ HangsUp(C)
          /\ doubt' \in [Session -> Client \cup {None}]
      <3>1. /\ LetsGo(s, C)
            /\ HangsUp(C)
            /\ doubt' \in [Session -> Client \cup {None}]
        BY <1>5, <2>1, LetGoOfLetsGo, WithHangsUp DEF TickDropsDoubted, HangUpAll, IInv
      <3> QED BY <2>3, <3>1 DEF LetsGo
    <2>5. RestTyped /\ phase[s] # "new"
      BY <1>5, <2>4 DEF TickDropsDoubted, RestTyped, locals, bluez, IInv, TypeOK
    <2>6. \A z \in Session : held'[z] # None => held'[z] \in up'
      BY <1>5, <2>4 DEF TickDropsDoubted, bluez, LetsGo, IInv, HeldSound
    <2> QED BY <1>5, <2>1, <2>4, <2>5, <2>6, StandsStill DEF TickDropsDoubted, bluez
  <1> QED BY <1>2, <1>3, <1>4, <1>5 DEF Tick

\* What is remembered of a client changes, and nothing else.
LEMMA MemoryKeeps ==
    ASSUME IInv, NEW s \in Session,
           NoteAnswer(s) \/ \E r \in Role : InDoubt(s, r) \/ Answered(s, r)
    PROVE  IInv'
  <1>1. UNCHANGED <<phase, lock, held, pc, mine, locals, awaits, hangUps, bluez>>
    BY DEF NoteAnswer, InDoubt, Answered
  <1>2. /\ primed' \in [Session -> Client \cup {None}]
        /\ doubt'  \in [Session -> Client \cup {None}]
    <2>1. CASE NoteAnswer(s)
      BY <2>1 DEF IInv, TypeOK, NoteAnswer
    <2>2. ASSUME NEW r \in Role, InDoubt(s, r) PROVE <1>2!1 /\ <1>2!2
      BY <2>2 DEF IInv, TypeOK, InDoubt
    <2>3. ASSUME NEW r \in Role, Answered(s, r) PROVE <1>2!1 /\ <1>2!2
      BY <2>3 DEF IInv, TypeOK, Answered
    <2> QED BY <2>1, <2>2, <2>3
  <1>6. TypeOK'
    BY <1>1, <1>2 DEF IInv, TypeOK, locals, bluez
  <1>3. \A x : /\ Leaving(x)' = Leaving(x)
               /\ InHand(x)' = InHand(x)
    BY <1>1 DEF Leaving, InHand
  <1>4. HeldSound' /\ HandSound' /\ NothingForgotten'
    BY <1>1, <1>3 DEF IInv, HeldSound, HandSound, NothingForgotten, Sound, bluez
  <1>5. /\ LockHeld' /\ MineWhere' /\ MineAlone' /\ HeldInside' /\ HeldMine'
        /\ HeldAlone' /\ StopsOnce' /\ NotYet' /\ InTurn'
    BY <1>1 DEF IInv, LockHeld, MineWhere, MineAlone, HeldInside, HeldMine,
                HeldAlone, StopsOnce, NotYet, InTurn, Stopped
  <1> QED BY <1>4, <1>5, <1>6 DEF IInv

-----------------------------------------------------------------------------
(* The flows of the other tasks. *)

\* No role is None, and a command is neither background work nor the unload.
LEMMA Roles ==
    Background \cup Command \subseteq Role \ {"stop"} /\ Connecting \subseteq Background
  BY NamesAssumption DEF Role, Background, Connecting

\* A flow that lets go of the clients in C and gives up.
LEMMA GivesUp ==
    ASSUME IInv, NEW s \in Session, NEW r \in Role \ {"stop"}, NEW b \in BOOLEAN,
           NEW C \in SUBSET Client, GiveUp(s, r, None, b), pc[s][r] # "idle",
           LetsGo(s, C), HangsUp(C), C \subseteq {held[s], mine[s][r]},
           doubt' \in [Session -> Client \cup {None}],
           UNCHANGED <<phase, primed, bluez>>,
           pc[s][r] \in {"subscribe", "vouch"} => mine[s][r] \in C \cup {None}
    PROVE  IInv'
  <1>1. PICK p \in {"idle", "vouch"} : Turns(s, r, p, None) /\ Locks(s, r)
    BY GiveUpTurns DEF IInv
  <1>2. phase[s] # "new"
    BY DEF IInv, NotYet
  <1> QED BY <1>1, <1>2, EmptyHanded DEF Inside

\* A flow that lets go of the clients in C and opens a link, or gives up.
LEMMA Opens ==
    ASSUME IInv, NEW s \in Session, NEW r \in Role \ {"stop"}, NEW b \in BOOLEAN,
           NEW C \in SUBSET Client, NEW H \in SUBSET HangUp, NEW n \in 1..WriteAttempts,
           Open(s, r, H, n, b), lock[s] \in {None, r}, pc[s][r] # "idle",
           LetsGo(s, C), HangsUp(C), C \subseteq {held[s], mine[s][r]},
           held[s] \in C \cup {None},
           doubt' \in [Session -> Client \cup {None}],
           UNCHANGED <<phase, primed, bluez>>,
           pc[s][r] \in {"subscribe", "vouch"} => mine[s][r] \in C \cup {None}
    PROVE  IInv'
  <1>1. PICK p \in {"hangups", "dial", "idle", "vouch"} :
                /\ Turns(s, r, p, None)
                /\ p \in Inside => lock'[s] = r
                /\ Locks(s, r)
    BY OpenTurns DEF IInv
  <1>2. phase[s] # "new"
    BY DEF IInv, NotYet
  <1> QED BY <1>1, <1>2, EmptyHanded

\* A link that could not be had: nothing is let go of.
LEMMA NoLinkKeeps ==
    ASSUME IInv, NEW s \in Session, NEW r \in Role \ {"stop"},
           pc[s][r] \in {"dial", "closing"}, NoLink(s, r),
           UNCHANGED <<phase, held, memory, hangUps, bluez>>
    PROVE  IInv'
  <1>1. LetsGo(s, {}) /\ HangsUp({}) /\ doubt' \in [Session -> Client \cup {None}]
    BY StillLetsGo, StillHangsUp DEF IInv, TypeOK, memory
  <1>2. held[s] = None /\ lock[s] = r
    BY DEF IInv, HeldInside, LockHeld, Inside
  <1>3. /\ tried[s][r] < WriteAttempts => tried[s][r] + 1 \in 1..WriteAttempts
        /\ said[s][r] \in BOOLEAN /\ hangUps \in SUBSET HangUp
    BY CountsAssumption DEF IInv, TypeOK
  <1>4. CASE tried[s][r] < WriteAttempts /\ Open(s, r, hangUps, tried[s][r] + 1, said[s][r])
    BY <1>1, <1>2, <1>3, <1>4, Opens DEF memory
  <1>5. CASE GiveUp(s, r, None, said[s][r])
    BY <1>1, <1>3, <1>5, GivesUp DEF memory
  <1> QED BY <1>4, <1>5 DEF NoLink

\* A link lost under a command, whose client c is the one it speaks on, or the
\* one it has just subscribed on.
LEMMA LostUnderCommandKeeps ==
    ASSUME IInv, NEW s \in Session, NEW r \in Role \ {"stop"},
           NEW c \in Client \cup {None}, c \in {None, mine[s][r]},
           pc[s][r] = "subscribe" \/ (pc[s][r] = "talk" /\ c = held[s]),
           pc[s][r] = "subscribe" => c # None,
           LostUnderCommand(s, r, c), UNCHANGED <<phase, primed, bluez>>
    PROVE  IInv'
  <1> USE NamesAssumption
  <1> DEFINE C == {c} \ {None}
  <1>1. C \in SUBSET Client /\ pc[s][r] \in Inside
    BY DEF Inside
  <1>2. held[s] \in C \cup {None} /\ lock[s] = r
    BY <1>1 DEF IInv, HeldInside, LockHeld, Inside
  <1>3. CASE tried[s][r] < WriteAttempts
    <2>1. LetsGo(s, C) /\ HangsUp(C) /\ doubt' \in [Session -> Client \cup {None}]
      BY <1>1, <1>3, LetGoOfLetsGo, WithHangsUp DEF LostUnderCommand, HangUpAll, IInv
    <2>2. Open(s, r, With(C), tried[s][r] + 1, TRUE) /\ With(C) \in SUBSET HangUp
      BY <1>1, <1>3, WithHangsUp DEF LostUnderCommand, HangUpAll, IInv
    <2>3. tried[s][r] + 1 \in 1..WriteAttempts
      BY <1>3, CountsAssumption DEF IInv, TypeOK
    <2>4. C \subseteq {held[s], mine[s][r]} /\ pc[s][r] # "idle"
      OBVIOUS
    <2>5. pc[s][r] \in {"subscribe", "vouch"} => mine[s][r] \in C \cup {None}
      OBVIOUS
    <2> QED BY <1>1, <1>2, <2>1, <2>2, <2>3, <2>4, <2>5, Opens
  <1>4. CASE ~ (tried[s][r] < WriteAttempts)
    <2>1. LetsGo(s, C) /\ doubt' \in [Session -> Client \cup {None}]
      BY <1>1, <1>4, LetGoOfLetsGo DEF LostUnderCommand, IInv
    <2>2. Turns(s, r, "vouch", c) /\ Locks(s, r)
      BY <1>4, GiveUpTurns DEF LostUnderCommand, IInv
    <2>3. UNCHANGED hangUps
      BY <1>4 DEF LostUnderCommand
    <2> QED BY <2>1, <2>2, <2>3, WaitsForVouching
  <1> QED BY <1>3, <1>4

\* A command that begins keeps the invariant: it has nothing in hand yet.
LEMMA IssueKeeps ==
    ASSUME IInv, NEW s \in Session, NEW k \in Command, Issue(s, k)
    PROVE  IInv'
  <1>1. k \in Role \ {"stop"} /\ "lock" \in Place /\ None \in Client \cup {None}
    BY Roles DEF Place
  <1>2. Turns(s, k, "lock", None) /\ LetsGo(s, {}) /\ HangsUp({})
    BY <1>1, AtTurns, StillLetsGo, StillHangsUp DEF IInv, Issue
  <1>3. Locks(s, k) /\ doubt' \in [Session -> Client \cup {None}]
    BY DEF Issue, Locks, memory, locals, IInv, TypeOK
  <1> QED BY <1>1, <1>2, <1>3, EmptyHanded DEF Issue, Inside, memory, bluez

\* What each role does once it has the lock keeps the invariant.
LEMMA WithTheLock ==
    ASSUME IInv, NEW s \in Session, NEW r \in Background \cup Command,
           ConnectLocked(s, r) \/ AskHeld(s, r) \/ Send(s, r)
    PROVE  IInv'
  <1>1. r \in Role \ {"stop"} /\ pc[s][r] = "lock" /\ lock[s] = None
    BY Roles DEF ConnectLocked, AskHeld, Send, Granted
  <1>2. /\ LetsGo(s, {}) /\ HangsUp({}) /\ doubt' \in [Session -> Client \cup {None}]
        /\ UNCHANGED <<phase, held, primed, hangUps, bluez>>
    BY StillLetsGo, StillHangsUp DEF IInv, TypeOK, memory, ConnectLocked, AskHeld, Send
  <1>3. hangUps \in SUBSET HangUp /\ 1 \in 1..WriteAttempts
    BY CountsAssumption DEF IInv, TypeOK
  <1>4. held[s] # None => Connected(s)
    BY DEF IInv, HeldSound, Connected
  <1>5. CASE Open(s, r, hangUps, 1, FALSE) /\ ~ Connected(s)
    BY <1>1, <1>2, <1>3, <1>4, <1>5, Opens
  <1>6. CASE GiveUp(s, r, None, FALSE)
    BY <1>1, <1>2, <1>6, GivesUp
  <1>7. CASE AskHeld(s, r)
    <2>1. CASE held[s] # None /\ At(s, r, "talk", held[s]) /\ TakeLock(s, r)
      <3>1. Locks(s, r) /\ lock'[s] = r
        BY <1>1, <1>7, <2>1 DEF AskHeld, TakeLock, Locks, IInv, TypeOK, locals
      <3> QED BY <1>1, <1>7, <2>1, <3>1, Speaks DEF AskHeld
    <2>2. CASE At(s, r, "idle", None) /\ UNCHANGED lock
      <3>1. Turns(s, r, "idle", None) /\ Locks(s, r)
        BY <1>1, <1>7, <2>2, AtTurns DEF AskHeld, Locks, IInv, TypeOK, locals, Place
      <3> QED BY <1>1, <1>2, <3>1, EmptyHanded DEF Inside, IInv, NotYet
    <2> QED BY <1>7, <2>1, <2>2 DEF AskHeld
  <1>8. CASE Send(s, r) /\ Connected(s)
    <2>1. /\ At(s, r, "talk", held[s])
          /\ Attempt(s, r, 1, TRUE) /\ TakeLock(s, r) /\ UNCHANGED awaits
      BY <1>8 DEF Send
    <2>2. Locks(s, r) /\ lock'[s] = r
      BY <1>1, <1>3, <2>1 DEF Attempt, TakeLock, Locks, IInv, TypeOK
    <2>3. held[s] # None
      BY <1>8, NamesAssumption DEF Connected, IInv, TypeOK
    <2> QED BY <1>1, <1>8, <2>1, <2>2, <2>3, Speaks DEF Send
  <1> QED BY <1>5, <1>6, <1>7, <1>8 DEF ConnectLocked, Send

\* The steps of open that give up, or try again, keep the invariant.
LEMMA WithinOpen ==
    ASSUME IInv, NEW s \in Session, NEW r \in Background \cup Command,
           HangUpsEnded(s, r) \/ DialFails(s, r) \/ ClosedInOpen(s, r)
    PROVE  IInv'
  <1>1. r \in Role \ {"stop"}
    BY Roles
  <1>2. CASE HangUpsEnded(s, r)
    <2>1. /\ LetsGo(s, {}) /\ HangsUp({}) /\ doubt' \in [Session -> Client \cup {None}]
          /\ UNCHANGED <<phase, primed, bluez>>
      BY <1>2, StillLetsGo, StillHangsUp DEF HangUpsEnded, IInv, TypeOK, memory
    <2>2. pc[s][r] = "hangups" /\ held[s] = None /\ lock[s] = r
      BY <1>1, <1>2 DEF HangUpsEnded, IInv, HeldInside, LockHeld, Inside
    <2>3. tried[s][r] \in 1..WriteAttempts /\ said[s][r] \in BOOLEAN
      BY <1>1 DEF IInv, TypeOK
    <2>4. Open(s, r, {}, tried[s][r], said[s][r])
      BY <1>2 DEF HangUpsEnded
    <2> QED BY <1>1, <2>1, <2>2, <2>3, <2>4, Opens
  <1>3. CASE DialFails(s, r)
    BY <1>1, <1>3, NoLinkKeeps DEF DialFails
  <1>4. CASE ClosedInOpen(s, r)
    BY <1>1, <1>4, NoLinkKeeps DEF ClosedInOpen
  <1> QED BY <1>2, <1>3, <1>4

\* A client taken with its link gone keeps the invariant: it is let go of.
LEMMA TakenDeadKeeps ==
    ASSUME IInv, NEW s \in Session, NEW r \in Background \cup Command, TakenDead(s, r)
    PROVE  IInv'
  <1> USE NamesAssumption
  <1> DEFINE c == mine[s][r]
  <1>1. r \in Role \ {"stop"} /\ pc[s][r] = "subscribe" /\ c \in Client
    BY Roles DEF TakenDead, IInv, TypeOK, MineWhere
  <1>2. CASE LostUnderCommand(s, r, c)
    BY <1>1, <1>2, LostUnderCommandKeeps DEF TakenDead
  <1>3. CASE HangUpAll(s, {c}) /\ GiveUp(s, r, None, FALSE)
    <2>1. /\ LetsGo(s, {c}) /\ HangsUp({c})
          /\ doubt' \in [Session -> Client \cup {None}]
      BY <1>1, <1>3, LetGoOfLetsGo, WithHangsUp DEF HangUpAll, IInv
    <2> QED BY <1>1, <1>3, <2>1, GivesUp DEF TakenDead
  <1> QED BY <1>2, <1>3 DEF TakenDead

\* A client that is not taken keeps the invariant: it is being hung up.
LEMMA NotTakenKeeps ==
    ASSUME IInv, NEW s \in Session, NEW r \in Background \cup Command, NotTaken(s, r)
    PROVE  IInv'
  <1> USE NamesAssumption
  <1> DEFINE c == mine[s][r]
  <1>1. /\ r \in Role \ {"stop"} /\ pc[s][r] = "subscribe" /\ c \in Client
        /\ phase[s] # "new"
    BY Roles DEF NotTaken, IInv, TypeOK, MineWhere, NotYet
  <1>2. /\ LetsGo(s, {c}) /\ HangsUp({c})
        /\ doubt' \in [Session -> Client \cup {None}]
    BY <1>1, LetGoOfLetsGo, WithHangsUp DEF NotTaken, HangUpAll, IInv
  <1>3. Turns(s, r, "closing", None)
    BY <1>1, AtTurns DEF NotTaken, IInv, Place
  <1>4. NewHangUp(c) \in HangUp
    BY <1>1 DEF NewHangUp, HangUp
  <1>5. Locks(s, r) /\ lock'[s] = r /\ held[s] = None
    BY <1>1, <1>4 DEF NotTaken, Await, Locks, IInv, TypeOK, locals, LockHeld,
                      HeldInside, Inside
  <1> QED BY <1>1, <1>2, <1>3, <1>5, EmptyHanded DEF NotTaken

\* A flow whose speaking is over, or that is cut short: the clients in C, which
\* it spoke on or was subscribing on, are hung up.
LEMMA TalkOver ==
    ASSUME IInv, NEW s \in Session, NEW r \in Role \ {"stop"}, NEW b \in BOOLEAN,
           NEW C \in SUBSET Client, pc[s][r] \notin {"idle", "vouch"},
           GiveUp(s, r, None, b), HangUpAll(s, C), C \subseteq {mine[s][r]},
           UNCHANGED <<phase, primed, bluez>>,
           pc[s][r] = "subscribe" => mine[s][r] \in C \cup {None}
    PROVE  IInv'
  <1>1. /\ LetsGo(s, C) /\ HangsUp(C)
        /\ doubt' \in [Session -> Client \cup {None}]
    BY LetGoOfLetsGo, WithHangsUp DEF HangUpAll, IInv
  <1> QED BY <1>1, GivesUp

\* ... and nothing is.
LEMMA TalkOverHeld ==
    ASSUME IInv, NEW s \in Session, NEW r \in Role \ {"stop"},
           pc[s][r] = "talk", GiveUp(s, r, None, FALSE),
           UNCHANGED <<phase, held, memory, hangUps, bluez>>
    PROVE  IInv'
  <1>1. /\ LetsGo(s, {}) /\ HangsUp({})
        /\ doubt' \in [Session -> Client \cup {None}]
    BY StillLetsGo, StillHangsUp DEF memory, IInv, TypeOK
  <1> QED BY <1>1, GivesUp DEF memory

\* The ends of a first exchange keep the invariant, its deadline included.
LEMMA TalkKeeps ==
    ASSUME IInv, NEW s \in Session, NEW r \in Background \cup Command,
           \/ Greeted(s, r) \/ GreetRaises(s, r) \/ Delivered(s, r)
           \/ ExchangeCutShort(s, r) \/ CutShort(s, r)
    PROVE  IInv'
  <1>1. r \in Role \ {"stop"} /\ mine[s][r] \in Client \cup {None}
        /\ said[s][r] \in BOOLEAN
    BY Roles DEF IInv, TypeOK
  <1>2. pc[s][r] \in {"talk", "subscribe"} => mine[s][r] \in Client
    BY <1>1 DEF IInv, MineWhere
  <1>3. CASE Greeted(s, r)
    BY <1>1, <1>2, <1>3, TalkOver DEF Greeted
  <1>4. CASE GreetRaises(s, r) \/ Delivered(s, r) \/ ExchangeCutShort(s, r)
    BY <1>1, <1>4, TalkOverHeld DEF GreetRaises, Delivered, ExchangeCutShort
  <1>5. CASE CutShort(s, r)
    BY <1>1, <1>2, <1>5, TalkOver DEF CutShort
  <1> QED BY <1>3, <1>4, <1>5

\* The ends of a probe keep the invariant.
LEMMA ProbeKeeps ==
    ASSUME IInv, NEW s \in Session, pc[s]["probe"] = "talk",
           ProbeAnswered(s) \/ Unanswered(s)
    PROVE  IInv'
  <1>1. "probe" \in Role \ {"stop"} /\ mine[s]["probe"] \in Client
    BY Roles DEF Background, IInv, TypeOK, MineWhere
  <1>2. CASE ProbeAnswered(s)
    BY <1>1, <1>2, TalkOverHeld DEF ProbeAnswered
  <1>3. CASE Unanswered(s)
    BY <1>1, <1>3, TalkOver DEF Unanswered
  <1> QED BY <1>2, <1>3

\* The ends of a command's write keep the invariant, its deadline included.
LEMMA WriteKeeps ==
    ASSUME IInv, NEW s \in Session, NEW k \in Command,
           WriteFails(s, k) \/ WriteCutShort(s, k) \/ Vouched(s, k)
    PROVE  IInv'
  <1> USE NamesAssumption
  <1> DEFINE c == mine[s][k]
  <1>1. k \in Role \ {"stop"} /\ c \in Client \cup {None}
    BY Roles DEF IInv, TypeOK
  <1>2. pc[s][k] = "talk" => held[s] \in {None, c} /\ c \in Client
    BY <1>1 DEF IInv, HeldInside, MineWhere
  <1>3. CASE WriteFails(s, k)
    BY <1>1, <1>2, <1>3, LostUnderCommandKeeps DEF WriteFails
  <1>4. CASE WriteCutShort(s, k)
    <2> DEFINE d == IF held[s] = c THEN held[s] ELSE None
    <2>1. d = held[s] /\ d \in {None, c} /\ pc[s][k] = "talk"
      BY <1>2, <1>4 DEF WriteCutShort
    <2>2. LetsGo(s, {c}) /\ doubt' \in [Session -> Client \cup {None}]
      BY <1>4, LetGoOfLetsGo DEF WriteCutShort, IInv
    <2>3. LetsGo(s, {d} \ {None})
      BY <1>2, <2>1, <2>2 DEF LetsGo
    <2>4. GiveUp(s, k, d, TRUE)
      BY <1>4 DEF WriteCutShort
    <2>5. Turns(s, k, "vouch", d) /\ Locks(s, k)
      BY <1>1, <2>1, <2>4, GiveUpTurns DEF IInv
    <2> QED BY <1>1, <1>4, <2>1, <2>2, <2>3, <2>5, WaitsForVouching DEF WriteCutShort
  <1>5. CASE Vouched(s, k)
    <2>1. /\ LetsGo(s, {c} \ {None}) /\ HangsUp({c} \ {None})
          /\ doubt' \in [Session -> Client \cup {None}]
      BY <1>1, <1>5, LetGoOfLetsGo, WithHangsUp DEF Vouched, HangUpAll, IInv
    <2>2. Turns(s, k, "idle", None) /\ Locks(s, k)
      BY <1>1, <1>5, AtTurns DEF Vouched, Locks, locals, IInv, TypeOK, Place
    <2>3. phase[s] # "new" /\ pc[s][k] = "vouch"
      BY <1>1, <1>5 DEF Vouched, IInv, NotYet
    <2> QED BY <1>1, <1>5, <2>1, <2>2, <2>3, EmptyHanded DEF Vouched, Inside
  <1> QED BY <1>3, <1>4, <1>5

-----------------------------------------------------------------------------
(* The steps of another shape. *)

\* A dial that ends with a client keeps the invariant: the client is new to all.
LEMMA DialledKeeps ==
    ASSUME IInv, NEW s \in Session, NEW r \in Background \cup Command, Dialled(s, r)
    PROVE  IInv'
  <1> USE NamesAssumption
  <1>1. PICK c \in Client : /\ Fresh(c)
                            /\ At(s, r, "subscribe", c)
                            /\ open' = open \cup {c}
                            /\ up'   = up \cup {c}
    BY DEF Dialled
  <1>2. /\ r \in Role /\ r # "stop" /\ "stop" \in Role
        /\ pc[s][r] = "dial" /\ lock[s] = r /\ held[s] = None /\ phase[s] # "new"
    BY Roles DEF Role, Dialled, IInv, LockHeld, HeldInside, NotYet, Inside
  <1>3. /\ Turns(s, r, "subscribe", c)
        /\ UNCHANGED <<phase, lock, held, memory, locals, awaits, hangUps, kept>>
    BY <1>1, <1>2, AtTurns DEF IInv, Place, Dialled
  <1>4. /\ pc'[s][r] = "subscribe" /\ mine'[s][r] = c
        /\ \A z \in Session, q \in Role : z # s \/ q # r =>
              pc'[z][q] = pc[z][q] /\ mine'[z][q] = mine[z][q]
    BY <1>2, <1>3 DEF Turns
  <1>5. c \notin open /\ c \notin kept /\ ~ Leaving(c)
    BY <1>1 DEF Fresh
  <1>6. \A z \in Session : held[z] # c /\ \A q \in Role : mine[z][q] # c
    BY <1>1 DEF Fresh
  <1>7. \A x \in Client : /\ Leaving(x)' <=> Leaving(x)
                          /\ Sound(x)' <=> x = c \/ Sound(x)
    BY <1>1, <1>3, <1>5 DEF Leaving, Sound
  <1>8. TypeOK'
    BY <1>1, <1>3 DEF IInv, TypeOK, Turns, memory, locals
  <1>9. LockHeld'
    BY <1>2, <1>3, <1>4 DEF IInv, LockHeld
  <1>10. MineWhere'
    BY <1>2, <1>4 DEF IInv, MineWhere
  <1>11. MineAlone'
    BY <1>4, <1>6 DEF IInv, MineAlone
  <1>12. HeldInside'
    BY <1>2, <1>3, <1>4 DEF IInv, HeldInside
  <1>13. HeldMine'
    BY <1>3, <1>4, <1>6 DEF IInv, HeldMine
  <1>14. HeldAlone'
    BY <1>3 DEF IInv, HeldAlone
  <1>15. HeldSound'
    BY <1>1, <1>3, <1>7 DEF IInv, TypeOK, HeldSound
  <1>16. HandSound'
    <2> SUFFICES ASSUME NEW z \in Session, NEW q \in Role,
                        mine'[z][q] # None, pc'[z][q] # "talk"
                 PROVE  Sound(mine[z][q])'
      BY DEF HandSound
    <2>1. CASE z = s /\ q = r
      BY <1>4, <1>7, <2>1
    <2>2. CASE z # s \/ q # r
      <3>1. mine'[z][q] = mine[z][q] /\ pc[z][q] # "talk"
        BY <1>4, <2>2
      <3>2. mine[z][q] \in Client /\ Sound(mine[z][q])
        BY <3>1 DEF IInv, TypeOK, HandSound
      <3> QED BY <1>7, <3>1, <3>2
    <2> QED BY <2>1, <2>2
  <1>17. StopsOnce'
    BY <1>2, <1>3, <1>4 DEF IInv, StopsOnce, Stopped
  <1>18. NotYet'
    BY <1>2, <1>3, <1>4 DEF IInv, NotYet
  <1>19. InTurn'
    BY <1>2, <1>3, <1>4 DEF IInv, InTurn
  <1>20. NothingForgotten'
    <2>1. \A x : InHand(x) => InHand(x)'
      BY <1>2, <1>4 DEF InHand
    <2>2. InHand(c)'
      BY <1>2, <1>4 DEF InHand
    <2> QED BY <1>1, <1>3, <1>7, <2>1, <2>2 DEF IInv, TypeOK, NothingForgotten
  <1> QED
    BY <1>8, <1>9, <1>10, <1>11, <1>12, <1>13, <1>14, <1>15, <1>16, <1>17, <1>18,
       <1>19, <1>20 DEF IInv

\* A client that is taken keeps the invariant: no link holds another.
LEMMA TakenKeeps ==
    ASSUME IInv, NEW s \in Session, NEW r \in Background \cup Command, Taken(s, r)
    PROVE  IInv'
  <1> USE NamesAssumption
  <1> DEFINE c == mine[s][r]
  <1>1. /\ r \in Role /\ r # "stop" /\ "stop" \in Role
        /\ pc[s][r] = "subscribe" /\ lock[s] = r /\ held[s] = None
        /\ c \in Client /\ c \in up /\ Sound(c) /\ phase[s] # "new" /\ ~ Stopped(s)
    BY Roles DEF Role, Taken, IInv, TypeOK, LockHeld, HeldInside, Inside, MineWhere,
                 HandSound, NotYet
  <1>2. /\ Turns(s, r, "talk", c)
        /\ UNCHANGED <<phase, lock, memory, awaits, hangUps, open, up, kept>>
    BY <1>1, AtTurns DEF IInv, Place, Taken, bluez
  <1>3. /\ pc'[s][r] = "talk" /\ UNCHANGED mine
        /\ \A z \in Session, q \in Role : z # s \/ q # r => pc'[z][q] = pc[z][q]
    <2>1. mine' = mine
      BY DEF Taken, At, IInv, TypeOK
    <2> QED BY <1>1, <1>2, <2>1 DEF Turns
  <1>4. /\ held' \in [Session -> Client \cup {None}] /\ held'[s] = c
        /\ \A z \in Session : z # s => held'[z] = held[z]
    BY <1>1 DEF IInv, TypeOK, Taken
  <1>5. \A z \in Session, q \in Role : mine[z][q] = c => z = s /\ q = r
    BY <1>1 DEF IInv, MineAlone
  <1>6. \A z \in Session : held[z] # c
    BY <1>1 DEF IInv, HeldMine
  <1>7. \A x : Leaving(x)' = Leaving(x) /\ Sound(x)' = Sound(x)
    BY <1>2 DEF Leaving, Sound
  <1>8. TypeOK'
    <2>1. /\ tried' \in [Session -> [Role -> 1..WriteAttempts]]
          /\ said'  \in [Session -> [Role -> BOOLEAN]]
      BY <1>1 DEF Taken, Attempt, IInv, TypeOK
    <2> QED BY <1>2, <1>4, <2>1 DEF IInv, TypeOK, Turns, memory
  <1>9. LockHeld'
    BY <1>1, <1>2, <1>3 DEF IInv, LockHeld
  <1>10. MineWhere'
    BY <1>1, <1>3 DEF IInv, MineWhere
  <1>11. MineAlone'
    BY <1>3 DEF IInv, MineAlone
  <1>12. HeldInside'
    <2>1. \A q \in Role : q # r => pc[s][q] \notin Inside
      BY <1>1 DEF IInv, LockHeld
    <2> QED BY <1>1, <1>3, <1>4, <2>1 DEF IInv, HeldInside, Inside
  <1>13. HeldMine'
    BY <1>1, <1>3, <1>4, <1>5 DEF IInv, HeldMine
  <1>14. HeldAlone'
    BY <1>4, <1>6 DEF IInv, HeldAlone
  <1>15. HeldSound'
    BY <1>1, <1>2, <1>4, <1>7 DEF IInv, HeldSound
  <1>16. HandSound'
    BY <1>1, <1>3, <1>7 DEF IInv, HandSound
  <1>17. StopsOnce'
    BY <1>1, <1>2, <1>3, <1>4 DEF IInv, StopsOnce, Stopped
  <1>18. NotYet'
    BY <1>1, <1>2, <1>3, <1>4 DEF IInv, NotYet
  <1>19. InTurn'
    BY <1>1, <1>2, <1>3 DEF IInv, InTurn
  <1>20. NothingForgotten'
    <2> SUFFICES ASSUME NEW x \in open
                 PROVE  \/ \E z \in Session : held'[z] = x
                        \/ InHand(x)'
                        \/ Leaving(x)
                        \/ x \in kept
      BY <1>2, <1>7 DEF NothingForgotten
    <2>1. CASE \E z \in Session : held[z] = x
      BY <1>1, <1>4, <2>1, NamesAssumption DEF IInv, TypeOK
    <2>2. CASE InHand(x)
      BY <1>3, <1>4, <2>2 DEF InHand
    <2> QED BY <2>1, <2>2 DEF IInv, NothingForgotten
  <1> QED
    BY <1>8, <1>9, <1>10, <1>11, <1>12, <1>13, <1>14, <1>15, <1>16, <1>17, <1>18,
       <1>19, <1>20 DEF IInv

\* The loss of a link keeps the invariant, whether or not the client is held.
LEMMA LinkDownKeeps ==
    ASSUME IInv, NEW c \in Client, LinkDown(c)
    PROVE  IInv'
  <1> USE NamesAssumption
  <1> DEFINE S == {z \in Session : held[z] = c}
  <1>1. /\ up' \in SUBSET Client /\ up \ {c} \subseteq up'
        /\ UNCHANGED <<phase, lock, primed, pc, mine, locals, awaits, open, kept>>
    BY DEF LinkDown, IInv, TypeOK
  <1>2. /\ held'  = [z \in Session |-> IF z \in S THEN None ELSE held[z]]
        /\ doubt' = [z \in Session |-> IF z \in S THEN None ELSE doubt[z]]
        /\ hangUps' = IF S = {} THEN hangUps ELSE With({c})
    BY DEF LinkDown
  <1>3. CASE S = {}
    <2>1. UNCHANGED <<held, doubt, hangUps>>
      BY <1>2, <1>3 DEF IInv, TypeOK
    <2>2. \A x : (Leaving(x)' <=> Leaving(x)) /\ (InHand(x)' <=> InHand(x))
      BY <1>1, <2>1 DEF Leaving, InHand
    <2>3. TypeOK'
      BY <1>1, <2>1 DEF IInv, TypeOK, locals
    <2>4. HeldSound' /\ HandSound' /\ NothingForgotten'
      BY <1>1, <1>3, <2>1, <2>2 DEF IInv, HeldSound, HandSound, NothingForgotten, Sound
    <2>5. /\ LockHeld' /\ MineWhere' /\ MineAlone' /\ HeldInside' /\ HeldMine'
          /\ HeldAlone' /\ StopsOnce' /\ NotYet' /\ InTurn'
      BY <1>1, <2>1 DEF IInv, LockHeld, MineWhere, MineAlone, HeldInside, HeldMine,
                        HeldAlone, StopsOnce, NotYet, InTurn, Stopped
    <2> QED BY <2>3, <2>4, <2>5 DEF IInv
  <1>4. CASE S # {}
    <2>1. PICK s \in Session : held[s] = c
      BY <1>4
    <2>2. \A z \in Session : held[z] = c => z = s
      BY <2>1 DEF IInv, HeldAlone
    <2>3. LetsGo(s, {c})
      BY <1>2, <2>1, <2>2 DEF LetsGo, IInv, TypeOK
    <2>4. HangsUp({c})
      BY <1>2, <1>4, WithHangsUp DEF IInv
    <2>5. RestTyped
      BY <1>1, <1>2 DEF RestTyped, locals, IInv, TypeOK
    <2>6. \A z \in Session : held'[z] # None => held'[z] \in up'
      BY <1>1, <2>2, <2>3 DEF LetsGo, IInv, HeldSound
    <2>7. phase[s] # "new"
      BY <2>1 DEF IInv, NotYet
    <2> QED BY <1>1, <2>1, <2>3, <2>4, <2>5, <2>6, <2>7, StandsStill
  <1> QED BY <1>3, <1>4

\* A hang-up that ends keeps the invariant: its client is closed, or kept.
LEMMA HangUpEnds ==
    ASSUME IInv, NEW h \in hangUps, HangUpCloses(h) \/ HangUpKeeps(h)
    PROVE  IInv'
  <1> USE NamesAssumption
  <1> DEFINE x == h[1]
  <1>1. x \in Client /\ (h = <<x, 1>> \/ h = <<x, 2>>)
    <2>1. h \in Client \X {1, 2}
      BY DEF IInv, TypeOK, HangUp
    <2> QED BY <2>1
  <1>2. Leaving(x)
    BY <1>1 DEF Leaving
  <1>3. /\ hangUps' = hangUps \ {h}
        /\ awaits'  = [s \in Session |-> awaits[s] \ {h}]
        /\ UNCHANGED <<phase, lock, held, doubt, pc, mine, locals>>
    BY DEF HangUpCloses, HangUpKeeps, EndHangUp
  <1>4. \A y \in Client : /\ Leaving(y)' => Leaving(y)
                          /\ y # x => (Leaving(y)' <=> Leaving(y))
    BY <1>1, <1>3 DEF Leaving
  <1>5. \/ open' = open \ {x} /\ up' = up \ {x} /\ kept' = kept \ {x}
        \/ open' = open /\ up' = up /\ kept' = kept \cup {x}
    BY DEF HangUpCloses, HangUpKeeps
  <1>6. \A y \in Client : Sound(y) => Sound(y)' /\ y # x
    BY <1>1, <1>2, <1>4, <1>5 DEF Sound
  <1>7. TypeOK'
    <2>1. primed' \in [Session -> Client \cup {None}]
      BY DEF HangUpCloses, HangUpKeeps, Forget, IInv, TypeOK
    <2>2. open' \in SUBSET Client /\ up' \in SUBSET Client /\ kept' \in SUBSET Client
      BY <1>1, <1>5 DEF IInv, TypeOK
    <2> QED BY <1>3, <2>1, <2>2 DEF IInv, TypeOK, locals
  <1>8. HeldSound'
    <2> SUFFICES ASSUME NEW s \in Session, held[s] # None
                 PROVE  Sound(held[s])' /\ held[s] \in up'
      BY <1>3 DEF HeldSound
    <2>1. held[s] \in Client /\ Sound(held[s]) /\ held[s] \in up
      BY DEF IInv, TypeOK, HeldSound
    <2>2. Sound(held[s])' /\ held[s] # x
      BY <1>3, <1>6, <2>1
    <2> QED BY <1>5, <2>1, <2>2
  <1>9. HandSound'
    <2> SUFFICES ASSUME NEW s \in Session, NEW r \in Role,
                        mine[s][r] # None, pc[s][r] # "talk"
                 PROVE  Sound(mine[s][r])'
      BY <1>3 DEF HandSound
    <2>1. mine[s][r] \in Client /\ Sound(mine[s][r])
      BY DEF IInv, TypeOK, HandSound
    <2> QED BY <1>3, <1>6, <2>1
  <1>10. NothingForgotten'
    <2> SUFFICES ASSUME NEW y \in open'
                 PROVE  \/ \E s \in Session : held[s] = y
                        \/ InHand(y)'
                        \/ Leaving(y)'
                        \/ y \in kept'
      BY <1>3 DEF NothingForgotten
    <2>1. y \in open /\ y \in Client
      BY <1>5 DEF IInv, TypeOK
    <2>2. InHand(y) => InHand(y)'
      BY <1>3 DEF InHand
    <2>3. CASE y = x
      BY <1>5, <2>3
    <2>4. CASE y # x
      BY <1>4, <1>5, <2>1, <2>2, <2>4 DEF IInv, NothingForgotten
    <2> QED BY <2>3, <2>4
  <1>11. /\ LockHeld' /\ MineWhere' /\ MineAlone' /\ HeldInside' /\ HeldMine'
         /\ HeldAlone' /\ StopsOnce' /\ NotYet' /\ InTurn'
    BY <1>3 DEF IInv, LockHeld, MineWhere, MineAlone, HeldInside, HeldMine,
                HeldAlone, StopsOnce, NotYet, InTurn, Stopped
  <1> QED BY <1>7, <1>8, <1>9, <1>10, <1>11 DEF IInv

-----------------------------------------------------------------------------
(* The theorems. *)

\* The invariant holds before the first session is set up.
LEMMA InitIInv == Init => IInv
  <1> USE NamesAssumption
  <1> SUFFICES ASSUME Init PROVE IInv
    OBVIOUS
  <1>1. TypeOK
    <2>1. 1 \in 1..WriteAttempts
      BY CountsAssumption
    <2> QED BY <2>1 DEF Init, TypeOK, Place
  <1>2. /\ LockHeld /\ MineWhere /\ MineAlone /\ HeldInside /\ HeldMine
        /\ HeldAlone /\ HeldSound /\ HandSound
    BY DEF Init, LockHeld, MineWhere, MineAlone, HeldInside, HeldMine, HeldAlone,
           HeldSound, HandSound, Inside
  <1>3. StopsOnce /\ NotYet /\ InTurn /\ NothingForgotten
    BY DEF Init, StopsOnce, NotYet, InTurn, NothingForgotten, Stopped, Role
  <1> QED BY <1>1, <1>2, <1>3 DEF IInv

\* Every step of open keeps the invariant.
LEMMA OpeningKeeps ==
    ASSUME IInv, NEW s \in Session, NEW r \in Background \cup Command, Opening(s, r)
    PROVE  IInv'
  BY WithinOpen, DialledKeeps, TakenKeeps, TakenDeadKeeps, NotTakenKeeps DEF Opening

\* Every step keeps the invariant.
LEMMA NextIInv == IInv /\ [Next]_vars => IInv'
  <1> SUFFICES ASSUME IInv, [Next]_vars PROVE IInv'
    OBVIOUS
  <1>1. ASSUME NEW s \in Session, Start(s) \/ Advertised(s) \/ Tick(s) \/ Stop(s) \/ NoteAnswer(s)
        PROVE  IInv'
    BY <1>1, StartKeeps, TickKeeps, UnloadKeeps, LetGoKeeps, LetGoEndsKeeps,
       ShutDownKeeps, MemoryKeeps DEF Stop
  <1>2. ASSUME NEW s \in Session, NEW r \in Connecting \cup {"prime"},
               Greet(s, r) \/ AskHeld(s, r)
        PROVE  IInv'
    <2>1. r \in Background /\ r \in Role
      BY Roles DEF Background
    <2> QED BY <1>2, <2>1, WithTheLock, MemoryKeeps, TalkKeeps DEF Greet
  <1>3. ASSUME NEW s \in Session, NEW r \in Connecting, Connect(s, r)
        PROVE  IInv'
    BY <1>3, Roles, WithTheLock, OpeningKeeps DEF Connect
  <1>4. ASSUME NEW s \in Session, NEW r \in Background, InDoubt(s, r)
        PROVE  IInv'
    BY <1>4, Roles, MemoryKeeps
  <1>5. ASSUME NEW s \in Session, Probe(s)
        PROVE  IInv'
    <2>1. "probe" \in Background
      BY DEF Background
    <2> QED BY <1>5, <2>1, WithTheLock, ProbeKeeps DEF Probe, ProbeAnswered, ProbeSilent
  <1>6. ASSUME NEW s \in Session, NEW k \in Command, Deliver(s, k)
        PROVE  IInv'
    BY <1>6, IssueKeeps, WithTheLock, OpeningKeeps, TalkKeeps, WriteKeeps DEF Deliver
  <1>7. ASSUME NEW s \in Session, NEW r \in Background \cup Command,
               Deadline(s, r) \/ (r \in Background /\ Cancelled(s, r))
        PROVE  IInv'
    BY <1>7, TalkKeeps, ProbeKeeps, WriteKeeps DEF Deadline, Cancelled
  <1>8. CASE Stack
    BY <1>8, LinkDownKeeps, HangUpEnds DEF Stack
  <1>9. CASE UNCHANGED vars
    <2>1. UNCHANGED <<phase, lock, held, primed, doubt, pc, mine, tried, said, awaits,
                      open, up, hangUps, kept>>
      BY <1>9 DEF vars, memory, locals, bluez
    <2>2. \A x : Leaving(x)' = Leaving(x) /\ InHand(x)' = InHand(x)
      BY <2>1 DEF Leaving, InHand
    <2>3. TypeOK' /\ HeldSound' /\ HandSound' /\ NothingForgotten'
      BY <2>1, <2>2 DEF IInv, TypeOK, HeldSound, HandSound, NothingForgotten, Sound
    <2>4. /\ LockHeld' /\ MineWhere' /\ MineAlone' /\ HeldInside' /\ HeldMine'
          /\ HeldAlone' /\ StopsOnce' /\ NotYet' /\ InTurn'
      BY <2>1 DEF IInv, LockHeld, MineWhere, MineAlone, HeldInside, HeldMine,
                  HeldAlone, StopsOnce, NotYet, InTurn, Stopped
    <2> QED BY <2>3, <2>4 DEF IInv
  <1> QED
    <2>1. ASSUME NEW s \in Session, AskHeld(s, "prime") PROVE IInv'
      BY <1>2, <2>1
    <2>2. ASSUME NEW s \in Session, NEW r \in Background, Cancelled(s, r) PROVE IInv'
      BY <1>7, <2>2
    <2> QED
      BY <1>1, <1>2, <1>3, <1>4, <1>5, <1>6, <1>7, <1>8, <1>9, <2>1, <2>2 DEF Next

\* The invariant behind all of Link's promises holds of every run of it.
THEOREM Invariant == Spec => []IInv
  BY InitIInv, NextIInv, PTL DEF Spec

\* Every variable keeps to its type.
THEOREM TypeCorrect == Spec => []TypeOK
  <1>1. IInv => TypeOK
    BY DEF IInv
  <1> QED BY <1>1, Invariant, PTL

\* No client whose bus is open is forgotten (ADR 0003), however many sessions,
\* clients and commands there are.
THEOREM NeverForgotten == Spec => []NothingForgotten
  <1>1. IInv => NothingForgotten
    BY DEF IInv
  <1> QED BY <1>1, Invariant, PTL

\* What a link holds is a link that is up, that nobody hangs up and nobody else has.
THEOREM HeldSoundly == Spec => []HeldIsSound
  <1>1. IInv => HeldIsSound
    BY DEF IInv, HeldIsSound, HeldSound, HeldMine, HeldAlone, Sound, InHand
  <1> QED BY <1>1, Invariant, PTL

\* A session that is stopped holds no link, whatever outlives it.
THEOREM StopsForGood == Spec => []StoppedHoldsNothing
  <1>1. IInv => StoppedHoldsNothing
    BY DEF IInv, StoppedHoldsNothing, StopsOnce
  <1> QED BY <1>1, Invariant, PTL

\* The client a command is vouched for on is left as it is for that long.
THEOREM VouchingHeard == Spec => []VouchChannelStays
  <1>1. IInv => VouchChannelStays
    <2> SUFFICES ASSUME IInv, NEW s \in Session, NEW k \in Command,
                        pc[s][k] = "vouch", mine[s][k] # None
                 PROVE  mine[s][k] \in open \ kept /\ ~ Leaving(mine[s][k])
      BY DEF VouchChannelStays
    <2> QED BY Roles DEF IInv, HandSound, Sound
  <1> QED BY <1>1, Invariant, PTL

-----------------------------------------------------------------------------
(* A dial meets no link. *)

\* A dial begins only where MayDial says it may.
DialsWhereItMay ==
    \A z \in Session, q \in Role : DialBegins(z, q) => ~ Stopped(z)' /\ kept = {}

\* A step that moves no task into a dial begins none.
LEMMA NoDial ==
    ASSUME TypeOK, NEW s \in Session, NEW r \in Role, NEW p, NEW c,
           p # "dial", At(s, r, p, c)
    PROVE  DialsWhereItMay
  BY DEF TypeOK, At, DialBegins, DialsWhereItMay

\* A flow that gives up begins no dial.
LEMMA GiveUpNoDial ==
    ASSUME TypeOK, NEW s \in Session, NEW r \in Role, NEW c, NEW b, GiveUp(s, r, c, b)
    PROVE  DialsWhereItMay
  BY NoDial DEF GiveUp

\* open begins a dial only where nothing is kept and the link holds nothing.
LEMMA OpenDials ==
    ASSUME TypeOK, NEW s \in Session, NEW r \in Role, NEW H, NEW n, NEW b,
           Open(s, r, H, n, b), UNCHANGED phase
    PROVE  DialsWhereItMay
  <1>1. CASE GiveUp(s, r, None, b)
    BY <1>1, GiveUpNoDial
  <1>2. CASE MayDial(s) /\ At(s, r, IF H = {} THEN "dial" ELSE "hangups", None)
    BY <1>2 DEF TypeOK, At, DialBegins, DialsWhereItMay, MayDial, Stopped
  <1> QED BY <1>1, <1>2 DEF Open

\* A command that lost its link dials again only where a dial may begin.
LEMMA LostDials ==
    ASSUME TypeOK, NEW s \in Session, NEW r \in Role, NEW c,
           LostUnderCommand(s, r, c), UNCHANGED phase
    PROVE  DialsWhereItMay
  BY OpenDials, GiveUpNoDial DEF LostUnderCommand

\* Every step of open begins a dial only where one may begin.
LEMMA OpeningDials ==
    ASSUME TypeOK, NEW s \in Session, NEW r \in Role, Opening(s, r)
    PROVE  DialsWhereItMay
  <1>1. CASE HangUpsEnded(s, r)
    BY <1>1, OpenDials DEF HangUpsEnded
  <1>2. CASE Dialled(s, r)
    BY <1>2, NoDial DEF Dialled
  <1>3. CASE DialFails(s, r)
    BY <1>3, OpenDials, GiveUpNoDial DEF DialFails, NoLink
  <1>4. CASE Taken(s, r)
    BY <1>4, NoDial DEF Taken
  <1>5. CASE TakenDead(s, r)
    BY <1>5, LostDials, GiveUpNoDial DEF TakenDead
  <1>6. CASE NotTaken(s, r)
    BY <1>6, NoDial DEF NotTaken
  <1>7. CASE ClosedInOpen(s, r)
    BY <1>7, OpenDials, GiveUpNoDial DEF ClosedInOpen, NoLink
  <1> QED BY <1>1, <1>2, <1>3, <1>4, <1>5, <1>6, <1>7 DEF Opening

\* Every step begins a dial only where one may begin.
LEMMA NextDials ==
    ASSUME IInv, Next
    PROVE  DialsWhereItMay
  <1> TypeOK
    BY DEF IInv
  <1> "stop" \in Role
    BY DEF Role
  <1>1. ASSUME UNCHANGED pc
        PROVE  DialsWhereItMay
    BY <1>1 DEF DialBegins, DialsWhereItMay
  <1>2. ASSUME NEW s \in Session, NEW r \in Role, Spawn(s, r)
        PROVE  DialsWhereItMay
    BY <1>1, <1>2, NoDial DEF Spawn
  <1>3. ASSUME NEW s \in Session,
               Start(s) \/ Advertised(s) \/ Tick(s) \/ Stop(s) \/ NoteAnswer(s)
        PROVE  DialsWhereItMay
    <2>1. {"initial", "reconnect", "prime", "probe"} \subseteq Role
      BY DEF Role, Background, Connecting
    <2>2. CASE Start(s) \/ Stop(s) \/ NoteAnswer(s)
      BY <1>1, <2>1, <2>2, NoDial
      DEF Start, Stop, Unload, LetGo, LetGoEnds, ShutDown, NoteAnswer
    <2>3. CASE Advertised(s) \/ Tick(s)
      BY <1>1, <1>2, <2>1, <2>3
      DEF Advertised, Tick, TickDisconnected, TickDropsDoubted, TickConnected
    <2> QED BY <1>3, <2>2, <2>3
  <1>4. ASSUME NEW s \in Session, NEW r \in Role,
               \/ ConnectLocked(s, r) \/ AskHeld(s, r) \/ Greet(s, r) \/ InDoubt(s, r)
               \/ Send(s, r)
        PROVE  DialsWhereItMay
    <2>1. CASE ConnectLocked(s, r)
      BY <2>1, OpenDials, GiveUpNoDial DEF ConnectLocked
    <2>2. CASE AskHeld(s, r)
      BY <2>2, NoDial DEF AskHeld
    <2>3. CASE Greet(s, r) \/ InDoubt(s, r)
      BY <1>1, <2>3, GiveUpNoDial DEF Greet, Answered, Greeted, GreetRaises, InDoubt
    <2>4. CASE Send(s, r)
      BY <2>4, OpenDials, NoDial DEF Send
    <2> QED BY <1>4, <2>1, <2>2, <2>3, <2>4
  <1>5. ASSUME NEW s \in Session, NEW k \in Role,
               Issue(s, k) \/ Delivered(s, k) \/ WriteFails(s, k) \/ Vouched(s, k)
        PROVE  DialsWhereItMay
    BY <1>5, NoDial, GiveUpNoDial, LostDials DEF Issue, Delivered, WriteFails, Vouched
  <1>6. ASSUME NEW s \in Session, ProbeAnswered(s) \/ ProbeSilent(s) \/ Unanswered(s)
        PROVE  DialsWhereItMay
    <2>1. "probe" \in Role
      BY DEF Role, Background
    <2> QED BY <1>6, <2>1, GiveUpNoDial DEF ProbeAnswered, ProbeSilent, Unanswered
  <1>7. ASSUME NEW s \in Session, NEW r \in Role, Deadline(s, r) \/ Cancelled(s, r)
        PROVE  DialsWhereItMay
    BY <1>6, <1>7, GiveUpNoDial
    DEF Deadline, Cancelled, CutShort, ExchangeCutShort, WriteCutShort
  <1>8. CASE Stack
    BY <1>1, <1>8 DEF Stack, LinkDown, HangUpCloses, HangUpKeeps, EndHangUp
  <1>9. /\ Connecting \cup {"prime", "probe"} \subseteq Role
        /\ Background \cup Command \subseteq Role
    BY Roles DEF Role, Background
  <1>10. ASSUME NEW s \in Session, NEW r \in Role, Connect(s, r)
         PROVE  DialsWhereItMay
    BY <1>4, <1>10, OpeningDials DEF Connect
  <1>11. ASSUME NEW s \in Session, Probe(s)
         PROVE  DialsWhereItMay
    BY <1>4, <1>6, <1>9, <1>11 DEF Probe
  <1>12. ASSUME NEW s \in Session, NEW k \in Command, Deliver(s, k)
         PROVE  DialsWhereItMay
    BY <1>4, <1>5, <1>9, <1>12, OpeningDials DEF Deliver
  <1> QED
    BY <1>3, <1>4, <1>7, <1>8, <1>9, <1>10, <1>11, <1>12 DEF Next

\* A dial begins with nothing kept and no link held, in this session or another.
THEOREM DialsAlone == Spec => DialMeetsNoLink
  <1>1. ASSUME IInv, IInv', [Next]_vars
        PROVE  [\A s \in Session, r \in Role : DialBegins(s, r) =>
                   kept = {} /\ \A z \in Session : held'[z] = None]_vars
    <2> SUFFICES ASSUME Next, NEW s \in Session, NEW r \in Role, DialBegins(s, r),
                        NEW z \in Session
                 PROVE  kept = {} /\ held'[z] = None
      BY <1>1
    <2>1. kept = {} /\ ~ Stopped(s)' /\ pc'[s][r] = "dial"
      BY <1>1, NextDials DEF DialsWhereItMay, DialBegins
    <2>2. phase'[s] = "running" /\ held'[s] = None
      BY <1>1, <2>1 DEF IInv, TypeOK, NotYet, HeldInside, Stopped, Inside
    <2>3. CASE z < s
      <3>1. phase'[z] = "stopped" /\ pc'[z]["stop"] = "idle"
        BY <1>1, <2>2, <2>3 DEF IInv, InTurn
      <3> QED BY <1>1, <2>1, <3>1 DEF IInv, StopsOnce, Stopped
    <2>4. CASE s < z
      <3>1. phase'[z] = "new"
        BY <1>1, <2>2, <2>4 DEF IInv, InTurn
      <3> QED BY <1>1, <2>1, <3>1 DEF IInv, NotYet
    <2>5. z < s \/ s < z \/ z = s
      BY CountsAssumption DEF Session
    <2> QED BY <2>1, <2>2, <2>3, <2>4, <2>5
  <1> QED BY <1>1, Invariant, PTL DEF Spec, DialMeetsNoLink

-----------------------------------------------------------------------------
(* A live link is let go of by whoever speaks on it. *)

\* The step is one LiveLinkLetGoByItsUser allows.
LetGoByUser ==
    \A z \in Session : held[z] # None /\ held'[z] # held[z] /\ held[z] \in up' =>
        \/ \E r \in Role : /\ pc[z][r] = "talk" /\ mine[z][r] = held[z]
                           /\ pc'[z][r] # "talk"
        \/ doubt[z] = held[z] /\ UNCHANGED pc
        \/ Stopped(z)'

\* A task lets go of what it has in hand, and of nothing else.
LEMMA ItsOwn ==
    ASSUME IInv, NEW s \in Session, NEW r \in Role, NEW D, D \subseteq {mine[s][r]},
           LetGoOf(s, D), pc[s][r] = "talk" => pc'[s][r] # "talk"
    PROVE  LetGoByUser
  <1> USE NamesAssumption
  <1>1. LetsGo(s, D)
    BY LetGoOfLetsGo DEF IInv
  <1>2. ASSUME NEW z \in Session, held[z] # None, held'[z] # held[z]
        PROVE  z = s /\ held[s] = mine[s][r]
    BY <1>1, <1>2 DEF LetsGo
  <1>3. held[s] # None /\ held[s] = mine[s][r] => pc[s][r] = "talk"
    BY DEF IInv, HeldMine
  <1> QED BY <1>2, <1>3 DEF LetGoByUser

\* A flow that stops speaking may let go of the client it spoke on.
LEMMA OverAndDone ==
    ASSUME IInv, NEW s \in Session, NEW r \in Role, NEW b,
           GiveUp(s, r, None, b), NEW D, D \subseteq {mine[s][r]}, HangUpAll(s, D)
    PROVE  LetGoByUser
  <1>1. pc'[s][r] # "talk"
    BY DEF GiveUp, At, IInv, TypeOK
  <1> QED BY <1>1, ItsOwn DEF HangUpAll

\* A command that lost its link lets go of the client it spoke on.
LEMMA LostIsItsOwn ==
    ASSUME IInv, NEW s \in Session, NEW r \in Role, NEW c, c \in {None, mine[s][r]},
           LostUnderCommand(s, r, c)
    PROVE  LetGoByUser
  <1>1. pc'[s][r] # "talk"
    <2>1. \/ \E b \in BOOLEAN : GiveUp(s, r, None, b) \/ GiveUp(s, r, c, b)
          \/ At(s, r, "dial", None) \/ At(s, r, "hangups", None)
      BY DEF LostUnderCommand, Open
    <2>2. \E p, d : p # "talk" /\ At(s, r, p, d)
      BY <2>1 DEF GiveUp
    <2> QED BY <2>2 DEF At, IInv, TypeOK
  <1>2. LetGoOf(s, {c} \ {None})
    BY DEF LostUnderCommand, HangUpAll
  <1> QED BY <1>1, <1>2, ItsOwn

\* Every step lets go of a live link as its user, over a doubt, or at a stop.
LEMMA NextLetsGo ==
    ASSUME IInv, Next
    PROVE  LetGoByUser
  <1> USE NamesAssumption
  <1>1. ASSUME UNCHANGED held PROVE LetGoByUser
    BY <1>1 DEF LetGoByUser
  <1>2. /\ Connecting \cup {"prime", "probe", "stop"} \subseteq Role
        /\ Background \cup Command \subseteq Role
    BY Roles DEF Role, Background
  <1>3. ASSUME NEW s \in Session,
               Start(s) \/ Advertised(s) \/ NoteAnswer(s) \/ Unload(s) \/ LetGoEnds(s)
        PROVE  LetGoByUser
    BY <1>1, <1>3 DEF Start, Advertised, NoteAnswer, Unload, LetGoEnds
  <1>4. ASSUME NEW s \in Session, Tick(s)
        PROVE  LetGoByUser
    <2>1. CASE TickDisconnected(s) \/ TickConnected(s)
      BY <1>1, <2>1 DEF TickDisconnected, TickConnected
    <2>2. CASE TickDropsDoubted(s)
      <3>1. LetsGo(s, kept \cup {held[s]})
        BY <2>2, LetGoOfLetsGo DEF IInv, TickDropsDoubted, HangUpAll
      <3>2. \A z \in Session : held'[z] # held[z] => z = s
        BY <3>1 DEF LetsGo
      <3> QED BY <2>2, <3>2 DEF LetGoByUser, TickDropsDoubted
    <2> QED BY <1>4, <2>1, <2>2 DEF Tick
  <1>5. ASSUME NEW s \in Session, LetGo(s) \/ ShutDown(s)
        PROVE  LetGoByUser
    <2>1. LetsGo(s, {held[s]} \ {None})
      BY <1>5, LetGoOfLetsGo DEF LetGo, ShutDown, HangUpAll, IInv
    <2>2. Stopped(s)'
      BY <1>5 DEF LetGo, ShutDown, IInv, StopsOnce, TypeOK, Stopped
    <2> QED BY <2>1, <2>2 DEF LetsGo, LetGoByUser
  <1>6. ASSUME NEW s \in Session, NEW r \in Role,
               ConnectLocked(s, r) \/ AskHeld(s, r) \/ Send(s, r) \/ InDoubt(s, r)
        PROVE  LetGoByUser
    BY <1>1, <1>6 DEF ConnectLocked, AskHeld, Send, InDoubt
  <1>7. ASSUME NEW s \in Session, NEW r \in Background \cup Command, Opening(s, r)
        PROVE  LetGoByUser
    <2>1. CASE HangUpsEnded(s, r) \/ Dialled(s, r) \/ DialFails(s, r) \/ ClosedInOpen(s, r)
      BY <1>1, <2>1 DEF HangUpsEnded, Dialled, DialFails, ClosedInOpen
    <2>2. CASE Taken(s, r)
      <3>1. held[s] = None /\ held' = [held EXCEPT ![s] = mine[s][r]]
        BY <1>2, <2>2 DEF Taken, IInv, HeldInside, Inside
      <3> QED BY <3>1 DEF LetGoByUser, IInv, TypeOK
    <2>3. CASE TakenDead(s, r)
      BY <1>2, <2>3, LostIsItsOwn, OverAndDone DEF TakenDead
    <2>4. CASE NotTaken(s, r)
      <3>1. pc'[s][r] = "closing"
        BY <1>2, <2>4 DEF NotTaken, At, IInv, TypeOK
      <3> QED BY <1>2, <2>4, <3>1, ItsOwn DEF NotTaken, HangUpAll
    <2> QED BY <1>7, <2>1, <2>2, <2>3, <2>4 DEF Opening
  <1>8. ASSUME NEW s \in Session, NEW r \in Role, Greet(s, r)
        PROVE  LetGoByUser
    <2>1. CASE Answered(s, r) \/ GreetRaises(s, r)
      BY <1>1, <2>1 DEF Answered, GreetRaises
    <2>2. CASE Greeted(s, r)
      <3>1. GiveUp(s, r, None, FALSE)
        BY <2>2 DEF Greeted
      <3> QED BY <2>2, <3>1, OverAndDone DEF Greeted
    <2> QED BY <1>8, <2>1, <2>2 DEF Greet
  <1>9. ASSUME NEW s \in Session, Unanswered(s)
        PROVE  LetGoByUser
    <2>1. GiveUp(s, "probe", None, FALSE)
      BY <1>9 DEF Unanswered
    <2> QED BY <1>2, <1>9, <2>1, OverAndDone DEF Unanswered
  <1>10. ASSUME NEW s \in Session, Probe(s)
         PROVE  LetGoByUser
    BY <1>1, <1>2, <1>6, <1>9, <1>10 DEF Probe, ProbeAnswered, ProbeSilent
  <1>11. ASSUME NEW s \in Session, NEW k \in Command, Deliver(s, k)
         PROVE  LetGoByUser
    <2>1. CASE Issue(s, k) \/ Delivered(s, k)
      BY <1>1, <2>1 DEF Issue, Delivered
    <2>2. CASE WriteFails(s, k)
      <3>1. held[s] \in {None, mine[s][k]}
        BY <1>2, <2>2 DEF WriteFails, IInv, HeldInside
      <3> QED BY <1>2, <2>2, <3>1, LostIsItsOwn DEF WriteFails
    <2>3. CASE Vouched(s, k)
      <3>1. pc[s][k] # "talk"
        BY <2>3 DEF Vouched
      <3> QED BY <1>2, <2>3, <3>1, ItsOwn DEF Vouched, HangUpAll
    <2> QED BY <1>2, <1>6, <1>7, <1>11, <2>1, <2>2, <2>3 DEF Deliver
  <1>12. ASSUME NEW s \in Session, NEW r \in Role, Deadline(s, r) \/ Cancelled(s, r)
         PROVE  LetGoByUser
    <2>1. CASE CutShort(s, r)
      <3>1. GiveUp(s, r, None, said[s][r])
        BY <2>1 DEF CutShort
      <3> QED BY <2>1, <3>1, OverAndDone DEF CutShort
    <2>2. CASE ExchangeCutShort(s, r)
      BY <1>1, <2>2 DEF ExchangeCutShort
    <2>3. CASE WriteCutShort(s, r)
      <3>1. pc'[s][r] # "talk"
        BY <2>3 DEF WriteCutShort, GiveUp, At, IInv, TypeOK
      <3> QED BY <2>3, <3>1, ItsOwn DEF WriteCutShort
    <2> QED BY <1>9, <1>12, <2>1, <2>2, <2>3 DEF Deadline, Cancelled
  <1>13. CASE Stack
    <2>1. ASSUME NEW c \in Client, LinkDown(c)
          PROVE  LetGoByUser
      BY <2>1 DEF LinkDown, LetGoByUser
    <2>2. ASSUME NEW h \in hangUps, HangUpCloses(h) \/ HangUpKeeps(h)
          PROVE  LetGoByUser
      BY <1>1, <2>2 DEF HangUpCloses, HangUpKeeps, EndHangUp
    <2> QED BY <1>13, <2>1, <2>2 DEF Stack
  <1>14. ASSUME NEW s \in Session, NEW r \in Connecting, Connect(s, r)
         PROVE  LetGoByUser
    BY <1>2, <1>6, <1>7, <1>14, Roles DEF Connect
  <1> QED
    BY <1>2, <1>3, <1>4, <1>5, <1>6, <1>8, <1>10, <1>11, <1>12, <1>13, <1>14
    DEF Next, Stop

\* Nobody takes a live link from under another's hands: not the loss of a client
\* given up on, not the end of an exchange on one, not a tick.
THEOREM LetGoByItsUser == Spec => LiveLinkLetGoByItsUser
  <1>1. IInv /\ [Next]_vars =>
          [\A s \in Session :
              LET c == held[s] IN
              c # None /\ held'[s] # c /\ c \in up' =>
                  \/ \E r \in Role : /\ pc[s][r] = "talk" /\ mine[s][r] = c
                                     /\ pc'[s][r] # "talk"
                  \/ doubt[s] = c /\ UNCHANGED pc
                  \/ Stopped(s)']_vars
    BY NextLetsGo DEF LetGoByUser
  <1> QED BY <1>1, Invariant, PTL DEF Spec, LiveLinkLetGoByItsUser

-----------------------------------------------------------------------------
(* Every client goes through one door: Link implements OneDoor. *)

\* The step begins hang-ups, or does nothing to how any client is let go of.
BeginsHangUps == /\ UNCHANGED <<open, kept>>
                 /\ \E C \in SUBSET Client : HangsUp(C)

\* A step in which no hang-up begins or ends changes nothing of the door.
LEMMA StillBegins ==
    ASSUME TypeOK, UNCHANGED <<open, kept, hangUps>>
    PROVE  BeginsHangUps
  BY StillHangsUp DEF BeginsHangUps

\* A step that hangs up the clients in C, and changes no bus, begins hang-ups.
LEMMA AllBegin ==
    ASSUME TypeOK, NEW C \in SUBSET Client, hangUps' = With(C), UNCHANGED <<open, kept>>
    PROVE  BeginsHangUps
  BY WithHangsUp DEF BeginsHangUps

\* What a task has in hand is a client.
LEMMA HandIsClient ==
    ASSUME IInv, NEW s \in Session, NEW r \in Role, pc[s][r] \in {"subscribe", "talk"}
    PROVE  mine[s][r] \in Client
  BY DEF IInv, TypeOK, MineWhere

\* A command that lost its link begins the hang-up of its client, or nothing.
LEMMA LostBegins ==
    ASSUME TypeOK, NEW s \in Session, NEW r \in Role, NEW c \in Client \cup {None},
           LostUnderCommand(s, r, c), UNCHANGED <<open, kept>>
    PROVE  BeginsHangUps
  <1>1. {c} \ {None} \in SUBSET Client
    OBVIOUS
  <1> QED BY <1>1, StillBegins, AllBegin DEF LostUnderCommand, HangUpAll

\* Every step but a dial and the end of a hang-up begins hang-ups, at most.
LEMMA NextBegins ==
    ASSUME IInv, Next
    PROVE  \/ BeginsHangUps
           \/ \E s \in Session, r \in Background \cup Command : Dialled(s, r)
           \/ \E h \in hangUps : HangUpCloses(h) \/ HangUpKeeps(h)
  <1> USE NamesAssumption DEF bluez
  <1> TypeOK
    BY DEF IInv
  <1>1. /\ Connecting \cup {"prime", "probe", "stop"} \subseteq Role
        /\ Background \cup Command \subseteq Role /\ Connecting \subseteq Background
    BY Roles DEF Role, Background
  <1>2. ASSUME NEW s \in Session
        PROVE  {held[s]} \ {None} \in SUBSET Client /\ kept \in SUBSET Client
    BY DEF TypeOK
  <1>3. ASSUME NEW s \in Session,
               Start(s) \/ Advertised(s) \/ NoteAnswer(s) \/ Unload(s) \/ LetGoEnds(s)
        PROVE  BeginsHangUps
    BY <1>3, StillBegins DEF Start, Advertised, NoteAnswer, Unload, LetGoEnds
  <1>4. ASSUME NEW s \in Session, Tick(s)
        PROVE  BeginsHangUps
    <2>1. CASE TickDisconnected(s) \/ TickConnected(s)
      BY <1>2, <2>1, AllBegin DEF TickDisconnected, TickConnected
    <2>2. CASE TickDropsDoubted(s)
      <3>1. kept \cup {held[s]} \in SUBSET Client
        BY <1>2, <2>2 DEF TickDropsDoubted, Connected, TypeOK
      <3> QED BY <2>2, <3>1, AllBegin DEF TickDropsDoubted, HangUpAll
    <2> QED BY <1>4, <2>1, <2>2 DEF Tick
  <1>5. ASSUME NEW s \in Session, LetGo(s) \/ ShutDown(s)
        PROVE  BeginsHangUps
    BY <1>2, <1>5, AllBegin DEF LetGo, ShutDown, HangUpAll
  <1>6. ASSUME NEW s \in Session, NEW r \in Role,
               ConnectLocked(s, r) \/ AskHeld(s, r) \/ Send(s, r) \/ InDoubt(s, r)
        PROVE  BeginsHangUps
    BY <1>6, StillBegins DEF ConnectLocked, AskHeld, Send, InDoubt
  <1>7. ASSUME NEW s \in Session, NEW r \in Background \cup Command, Opening(s, r)
        PROVE  BeginsHangUps \/ Dialled(s, r)
    <2>1. CASE HangUpsEnded(s, r) \/ DialFails(s, r) \/ ClosedInOpen(s, r) \/ Taken(s, r)
      BY <2>1, StillBegins DEF HangUpsEnded, DialFails, ClosedInOpen, Taken
    <2>2. CASE TakenDead(s, r)
      <3>1. mine[s][r] \in Client
        BY <1>1, <2>2, HandIsClient DEF TakenDead
      <3> QED BY <1>1, <2>2, <3>1, LostBegins, AllBegin DEF TakenDead, HangUpAll
    <2>3. CASE NotTaken(s, r)
      <3>1. mine[s][r] \in Client
        BY <1>1, <2>3, HandIsClient DEF NotTaken
      <3> QED BY <2>3, <3>1, AllBegin DEF NotTaken, HangUpAll
    <2> QED BY <1>7, <2>1, <2>2, <2>3 DEF Opening
  <1>8. ASSUME NEW s \in Session, NEW r \in Role, Greet(s, r)
        PROVE  BeginsHangUps
    <2>1. CASE Answered(s, r) \/ GreetRaises(s, r)
      BY <2>1, StillBegins DEF Answered, GreetRaises
    <2>2. CASE Greeted(s, r)
      <3>1. mine[s][r] \in Client
        BY <2>2, HandIsClient DEF Greeted
      <3> QED BY <2>2, <3>1, AllBegin DEF Greeted, HangUpAll
    <2> QED BY <1>8, <2>1, <2>2 DEF Greet
  <1>9. ASSUME NEW s \in Session, pc[s]["probe"] = "talk", Unanswered(s)
        PROVE  BeginsHangUps
    <2>1. {mine[s]["probe"]} \cap {held[s]} \in SUBSET Client
      BY <1>1, <1>9, HandIsClient
    <2> QED BY <1>9, <2>1, AllBegin DEF Unanswered, HangUpAll
  <1>10. ASSUME NEW s \in Session, Probe(s)
         PROVE  BeginsHangUps
    BY <1>1, <1>6, <1>9, <1>10, StillBegins DEF Probe, ProbeAnswered, ProbeSilent
  <1>11. ASSUME NEW s \in Session, NEW k \in Command, Deliver(s, k)
         PROVE  BeginsHangUps \/ Dialled(s, k)
    <2>1. CASE Issue(s, k) \/ Delivered(s, k)
      BY <2>1, StillBegins DEF Issue, Delivered
    <2>2. CASE WriteFails(s, k)
      BY <1>1, <2>2, LostBegins DEF WriteFails, TypeOK
    <2>3. CASE Vouched(s, k)
      <3>1. {mine[s][k]} \ {None} \in SUBSET Client
        BY <1>1 DEF TypeOK
      <3> QED BY <2>3, <3>1, AllBegin DEF Vouched, HangUpAll
    <2> QED BY <1>1, <1>6, <1>7, <1>11, <2>1, <2>2, <2>3 DEF Deliver
  <1>12. ASSUME NEW s \in Session, NEW r \in Role, Deadline(s, r) \/ Cancelled(s, r)
         PROVE  BeginsHangUps
    <2>1. CASE CutShort(s, r)
      <3>1. pc[s][r] = "subscribe" => mine[s][r] \in Client
        BY HandIsClient
      <3> QED BY <2>1, <3>1, AllBegin DEF CutShort, HangUpAll
    <2>2. CASE ExchangeCutShort(s, r) \/ WriteCutShort(s, r)
      BY <2>2, StillBegins DEF ExchangeCutShort, WriteCutShort
    <2> QED BY <1>9, <1>12, <2>1, <2>2 DEF Deadline, Cancelled
  <1>13. ASSUME NEW c \in Client, LinkDown(c)
         PROVE  BeginsHangUps
    <2>1. \/ UNCHANGED hangUps
          \/ hangUps' = With({c})
      BY <1>13 DEF LinkDown
    <2> QED BY <1>13, <2>1, StillBegins, AllBegin DEF LinkDown
  <1>14. ASSUME NEW s \in Session, NEW r \in Connecting, Connect(s, r)
         PROVE  BeginsHangUps \/ Dialled(s, r)
    BY <1>1, <1>6, <1>7, <1>14 DEF Connect
  <1> QED
    BY <1>1, <1>3, <1>4, <1>5, <1>6, <1>8, <1>10, <1>11, <1>12, <1>13, <1>14
    DEF Next, Stop, Stack

\* Link implements OneDoor: a client whose bus is open is let go of through a
\* hang-up, never taken up again meanwhile, and closed or kept at its end.
THEOREM ThroughOneDoor == Spec => GoesThroughOneDoor
  <1>1. Init => Door!Init
    BY DEF Init, Door!Init, doorState
  <1>2. ASSUME IInv, [Next]_vars
        PROVE  [Door!Next]_doorState
    <2>1. CASE UNCHANGED vars
      BY <2>1 DEF vars, bluez, doorState, Leaving
    <2>2. CASE BeginsHangUps
      <3>1. PICK C \in SUBSET Client : HangsUp(C)
        BY <2>2 DEF BeginsHangUps
      <3> DEFINE E == {c \in C \cap open : ~ Leaving(c)}
      <3>2. doorState' = [c \in Client |-> IF c \in E THEN "leaving" ELSE doorState[c]]
        BY <2>2, <3>1 DEF BeginsHangUps, HangsUp, doorState
      <3>3. CASE E = {}
        BY <3>2, <3>3 DEF doorState
      <3>4. CASE E # {}
        <4>1. \A c \in E : doorState[c] \in {"open", "kept"}
          BY DEF doorState
        <4>2. E \in SUBSET Client
          OBVIOUS
        <4>3. Door!LetGo(E)
          BY <3>2, <3>4, <4>1 DEF Door!LetGo
        <4> QED BY <4>2, <4>3 DEF Door!Next
      <3> QED BY <3>3, <3>4
    <2>3. ASSUME NEW s \in Session, NEW r \in Background \cup Command, Dialled(s, r)
          PROVE  Door!Next
      <3>1. PICK c \in Client : Fresh(c) /\ open' = open \cup {c}
        BY <2>3 DEF Dialled
      <3>2. UNCHANGED <<hangUps, kept>>
        BY <2>3 DEF Dialled
      <3>3. Door!Take(c)
        BY <3>1, <3>2 DEF Door!Take, doorState, Fresh, Leaving
      <3> QED BY <3>3 DEF Door!Next
    <2>4. ASSUME NEW h \in hangUps, HangUpCloses(h) \/ HangUpKeeps(h)
          PROVE  [Door!Next]_doorState
      <3> DEFINE x == h[1]
      <3>1. h \in Client \X {1, 2}
        BY <1>2 DEF IInv, TypeOK, HangUp
      <3>2. x \in Client /\ (h = <<x, 1>> \/ h = <<x, 2>>)
        BY <3>1
      <3>3. hangUps' = hangUps \ {h}
        BY <2>4 DEF HangUpCloses, HangUpKeeps, EndHangUp
      <3>4. Leaving(x) /\ \A y \in Client : y # x => (Leaving(y)' <=> Leaving(y))
        BY <3>2, <3>3 DEF Leaving
      <3>5. CASE HangUpCloses(h)
        <4>1. open' = open \ {x} /\ kept' = kept \ {x}
          BY <3>5 DEF HangUpCloses
        <4>2. doorState' = [doorState EXCEPT ![x] = "closed"]
          BY <3>2, <3>4, <4>1 DEF doorState
        <4>3. CASE x \in open
          <5>1. Door!Close(x)
            BY <3>2, <3>4, <4>2, <4>3 DEF Door!Close, doorState
          <5> QED BY <3>2, <5>1 DEF Door!Next
        <4>4. CASE x \notin open
          <5>1. doorState[x] = "closed"
            BY <3>2, <4>4 DEF doorState
          <5> QED BY <4>2, <5>1 DEF doorState
        <4> QED BY <4>3, <4>4
      <3>6. CASE HangUpKeeps(h)
        <4>1. open' = open /\ kept' = kept \cup {x} /\ x \in open
          BY <3>6 DEF HangUpKeeps
        <4>2. doorState[x] = "leaving"
          BY <3>2, <3>4, <4>1 DEF doorState
        <4>3. CASE Leaving(x)'
          <5>1. doorState' = doorState
            BY <3>2, <3>4, <4>1, <4>3 DEF doorState
          <5> QED BY <5>1
        <4>4. CASE ~ Leaving(x)'
          <5>1. doorState' = [doorState EXCEPT ![x] = "kept"]
            BY <3>2, <3>4, <4>1, <4>4 DEF doorState
          <5> QED BY <3>2, <4>2, <5>1 DEF Door!Keep, Door!Next
        <4> QED BY <4>3, <4>4
      <3> QED BY <2>4, <3>5, <3>6
    <2> QED BY <1>2, <2>1, <2>2, <2>3, <2>4, NextBegins
  <1> QED BY <1>1, <1>2, Invariant, PTL DEF Spec, GoesThroughOneDoor, Door!Spec

-----------------------------------------------------------------------------
(* Every speaker has its turn: Link implements OneTurn. *)

\* Out of the lock every count of attempts begins anew, and nothing has been said;
\* only a command says anything that may have to be vouched for; and who holds the
\* lock is inside it, or is the unload that waits for its hang-up.
Ready == \A s \in Session, r \in Role :
            /\ pc[s][r] \notin Inside => tried[s][r] = 1 /\ ~ said[s][r]
            /\ said[s][r] => r \in Command
            /\ lock[s] = r => pc[s][r] \in Inside \cup {"bye"}

\* What a step has to see to.
TurnStep == [Turn!Next]_(Turn!tvars) /\ Ready'

\* Task (s, r) goes on to p, on its n-th attempt; to no other is the lock given, and
\* from no other is it taken.
Moves(s, r, p, n, b) ==
    /\ \A z \in Session, q \in Role :
          /\ pc'[z][q]    = IF z = s /\ q = r THEN p ELSE pc[z][q]
          /\ tried'[z][q] = IF z = s /\ q = r THEN n ELSE tried[z][q]
          /\ said'[z][q]  = IF z = s /\ q = r THEN b ELSE said[z][q]
          /\ ~ (z = s /\ q = r) => (lock'[z] = q <=> lock[z] = q)

\* A table of two ways in that differs at one place is one that was changed there.
IsTable(f, S, R) == f = [x \in S |-> [y \in R |-> f[x][y]]]
LEMMA ChangedAtOnePlace ==
    ASSUME NEW S, NEW R, NEW f, NEW g, NEW s \in S, NEW r \in R,
           IsTable(f, S, R), IsTable(g, S, R),
           \A x \in S, y \in R : ~ (x = s /\ y = r) => g[x][y] = f[x][y]
    PROVE  g = [f EXCEPT ![s][r] = g[s][r]]
  <1> DEFINE h == [f EXCEPT ![s][r] = g[s][r]]
  <1>1. \A x \in S : /\ f[x] = [y \in R |-> f[x][y]]
                     /\ g[x] = [y \in R |-> g[x][y]]
    BY DEF IsTable
  <1>2. DOMAIN f = S /\ DOMAIN g = S
    BY DEF IsTable
  <1>3. h = [x \in S |-> IF x = s THEN [f[s] EXCEPT ![r] = g[s][r]] ELSE f[x]]
    BY <1>2
  <1>4. \A x \in S : x # s => g[x] = f[x]
    BY <1>1
  <1>5. DOMAIN f[s] = R /\ DOMAIN g[s] = R
    BY <1>1
  <1>6. g[s] = [f[s] EXCEPT ![r] = g[s][r]]
    BY <1>1, <1>5
  <1>7. g = [x \in S |-> g[x]]
    BY DEF IsTable
  <1>8. g = [x \in S |-> IF x = s THEN [f[s] EXCEPT ![r] = g[s][r]] ELSE f[x]]
    BY <1>4, <1>6, <1>7
  <1> QED BY <1>3, <1>8

\* The turns are such a table, before a step and after it.
LEMMA TurnsAreTables ==
    /\ IsTable(turnOf, Session, Role)  /\ IsTable(turnOf, Session, Role)'
    /\ IsTable(triesOf, Session, Role) /\ IsTable(triesOf, Session, Role)'
  BY DEF IsTable, turnOf, triesOf

\* Where nobody moves, nothing becomes of any turn.
LEMMA NobodyMoves ==
    ASSUME Ready, UNCHANGED <<pc, lock, tried, said>>
    PROVE  TurnStep
  <1>1. turnOf' = turnOf /\ triesOf' = triesOf
    BY DEF turnOf, triesOf, HasTurn
  <1>2. Ready'
    BY DEF Ready
  <1> QED BY <1>1, <1>2 DEF TurnStep, Turn!tvars

\* What the parts of a step make of it.
LEMMA PartsMove ==
    ASSUME TypeOK, NEW s \in Session, NEW r \in Role, NEW p, NEW c, NEW n, NEW b,
           At(s, r, p, c),
           \/ Attempt(s, r, n, b)
           \/ UNCHANGED <<tried, said>> /\ n = tried[s][r] /\ b = said[s][r],
           \/ UNCHANGED lock
           \/ LetLockGo(s, r)
           \/ TakeLock(s, r) /\ lock[s] \in {None, r}
    PROVE  Moves(s, r, p, n, b)
  <1> USE NamesAssumption DEF TypeOK
  <1> SUFFICES ASSUME NEW z \in Session, NEW q \in Role
               PROVE  /\ pc'[z][q]    = IF z = s /\ q = r THEN p ELSE pc[z][q]
                      /\ tried'[z][q] = IF z = s /\ q = r THEN n ELSE tried[z][q]
                      /\ said'[z][q]  = IF z = s /\ q = r THEN b ELSE said[z][q]
                      /\ ~ (z = s /\ q = r) => (lock'[z] = q <=> lock[z] = q)
    BY DEF Moves
  <1>1. pc'[z][q] = IF z = s /\ q = r THEN p ELSE pc[z][q]
    BY DEF At
  <1>2. /\ tried'[z][q] = IF z = s /\ q = r THEN n ELSE tried[z][q]
        /\ said'[z][q]  = IF z = s /\ q = r THEN b ELSE said[z][q]
    BY DEF Attempt
  <1>3. ~ (z = s /\ q = r) => (lock'[z] = q <=> lock[z] = q)
    BY DEF LetLockGo, TakeLock
  <1> QED BY <1>1, <1>2, <1>3

\* What a move makes of the turns: that of (s, r) alone may change.
LEMMA MoveMaps ==
    ASSUME NEW s \in Session, NEW r \in Role, NEW p, NEW n, NEW b, Moves(s, r, p, n, b)
    PROVE  /\ Turn!Becomes(s, r, turnOf'[s][r], triesOf'[s][r])
           /\ turnOf'[s][r] = IF p \in Inside \/ (p = "bye" /\ lock'[s] = r) THEN "has"
                              ELSE IF p = "lock" THEN "waits"
                              ELSE IF p = "vouch" THEN "unsure"
                              ELSE "out"
           /\ triesOf'[s][r] = IF p \in Inside \/ (p = "bye" /\ lock'[s] = r) THEN n ELSE 0
  <1>1. \A z \in Session, q \in Role : ~ (z = s /\ q = r) =>
            turnOf'[z][q] = turnOf[z][q] /\ triesOf'[z][q] = triesOf[z][q]
    BY DEF Moves, turnOf, triesOf, HasTurn
  <1>2. /\ turnOf'  = [turnOf  EXCEPT ![s][r] = turnOf'[s][r]]
        /\ triesOf' = [triesOf EXCEPT ![s][r] = triesOf'[s][r]]
    <2>1. turnOf' = [turnOf EXCEPT ![s][r] = turnOf'[s][r]]
      BY <1>1, TurnsAreTables, ChangedAtOnePlace
    <2>2. triesOf' = [triesOf EXCEPT ![s][r] = triesOf'[s][r]]
      BY <1>1, TurnsAreTables, ChangedAtOnePlace
    <2> QED BY <2>1, <2>2
  <1>3. /\ turnOf'[s][r] = IF p \in Inside \/ (p = "bye" /\ lock'[s] = r) THEN "has"
                           ELSE IF p = "lock" THEN "waits"
                           ELSE IF p = "vouch" THEN "unsure"
                           ELSE "out"
        /\ triesOf'[s][r] = IF p \in Inside \/ (p = "bye" /\ lock'[s] = r) THEN n ELSE 0
    BY DEF Moves, turnOf, triesOf, HasTurn
  <1> QED BY <1>2, <1>3 DEF Turn!Becomes

\* Nothing becomes of a turn that stays what it is.
LEMMA StaysTurn ==
    ASSUME NEW s \in Session, NEW r \in Role,
           Turn!Becomes(s, r, turnOf'[s][r], triesOf'[s][r]),
           turnOf'[s][r] = turnOf[s][r], triesOf'[s][r] = triesOf[s][r]
    PROVE  turnOf' = turnOf /\ triesOf' = triesOf
  <1>1. turnOf = [turnOf EXCEPT ![s][r] = turnOf[s][r]]
    BY TurnsAreTables, ChangedAtOnePlace
  <1>2. triesOf = [triesOf EXCEPT ![s][r] = triesOf[s][r]]
    BY TurnsAreTables, ChangedAtOnePlace
  <1> QED BY <1>1, <1>2 DEF Turn!Becomes

\* A task that is out of its turn now begins anew.
LEMMA MoveMakesReady ==
    ASSUME Ready, NEW s \in Session, NEW r \in Role, NEW p, NEW n, NEW b,
           Moves(s, r, p, n, b), p \notin Inside => n = 1 /\ ~ b, b => r \in Command,
           lock'[s] = r => p \in Inside \cup {"bye"}
    PROVE  Ready'
  BY DEF Ready, Moves

\* A task that goes on as its turn allows.
LEMMA MoveTakesTurns ==
    ASSUME IInv, Ready, NEW s \in Session, NEW r \in Role, NEW p, NEW n, NEW b,
           Moves(s, r, p, n, b), pc[s][r] # "bye", p # "bye",
           p \notin Inside => n = 1 /\ ~ b /\ lock'[s] # r,
           b => r \in Command,
           \/ p = pc[s][r] /\ n = tried[s][r]
           \/ pc[s][r] = "idle" /\ p = "lock"
           \/ pc[s][r] = "lock" /\ p = "idle"
           \/ pc[s][r] = "lock" /\ p \in Inside /\ lock[s] = None /\ n = 1
           \/ pc[s][r] \in Inside /\ p \in Inside /\ n = tried[s][r]
           \/ /\ pc[s][r] \in Inside /\ p \in Inside /\ r \in Command
              /\ tried[s][r] < WriteAttempts /\ n = tried[s][r] + 1
           \/ pc[s][r] \in Inside /\ p = "idle"
           \/ pc[s][r] \in Inside /\ p = "vouch" /\ r \in Command
           \/ pc[s][r] = "vouch" /\ p = "idle"
    PROVE  TurnStep
  <1> DEFINE t == turnOf[s][r]
             k == triesOf[s][r]
  <1>1. Ready'
    BY MoveMakesReady
  <1>2. /\ Turn!Becomes(s, r, turnOf'[s][r], triesOf'[s][r])
        /\ turnOf'[s][r] = IF p \in Inside THEN "has"
                           ELSE IF p = "lock" THEN "waits"
                           ELSE IF p = "vouch" THEN "unsure"
                           ELSE "out"
        /\ triesOf'[s][r] = IF p \in Inside THEN n ELSE 0
    BY MoveMaps
  <1>3. /\ t = IF pc[s][r] \in Inside THEN "has"
               ELSE IF pc[s][r] = "lock" THEN "waits"
               ELSE IF pc[s][r] = "vouch" THEN "unsure"
               ELSE "out"
        /\ k = IF pc[s][r] \in Inside THEN tried[s][r] ELSE 0
    BY DEF turnOf, triesOf, HasTurn
  <1>4. /\ {"idle", "lock", "vouch"} \cap Inside = {}
        /\ turnOf[s][r] = t /\ triesOf[s][r] = k
    BY DEF Inside
  <1> HIDE DEF t, k
  <1>5. CASE p = pc[s][r] /\ n = tried[s][r]
    <2>1. turnOf'[s][r] = turnOf[s][r] /\ triesOf'[s][r] = triesOf[s][r]
      BY <1>2, <1>3, <1>4, <1>5
    <2>2. turnOf' = turnOf /\ triesOf' = triesOf
      BY <1>2, <2>1, StaysTurn
    <2> QED BY <1>1, <2>2 DEF TurnStep, Turn!tvars
  <1>6. CASE pc[s][r] = "idle" /\ p = "lock"
    <2>1. Turn!Asks(s, r)
      BY <1>2, <1>3, <1>4, <1>6 DEF Turn!Asks
    <2> QED BY <1>1, <2>1 DEF TurnStep, Turn!Next
  <1>7. CASE (pc[s][r] = "lock" \/ pc[s][r] \in Inside) /\ p = "idle"
    <2>1. Turn!Leaves(s, r)
      BY <1>2, <1>3, <1>4, <1>7 DEF Turn!Leaves
    <2> QED BY <1>1, <2>1 DEF TurnStep, Turn!Next
  <1>8. CASE pc[s][r] = "lock" /\ p \in Inside /\ lock[s] = None /\ n = 1
    <2>1. \A q \in Role : turnOf[s][q] # "has"
      BY <1>8, NamesAssumption DEF turnOf, HasTurn, IInv, LockHeld
    <2>2. Turn!Takes(s, r)
      BY <1>2, <1>3, <1>4, <1>8, <2>1 DEF Turn!Takes
    <2> QED BY <1>1, <2>2 DEF TurnStep, Turn!Next
  <1>9. CASE pc[s][r] \in Inside /\ p \in Inside /\ n = tried[s][r]
    <2>1. turnOf'[s][r] = turnOf[s][r] /\ triesOf'[s][r] = triesOf[s][r]
      BY <1>2, <1>3, <1>4, <1>9
    <2>2. turnOf' = turnOf /\ triesOf' = triesOf
      BY <1>2, <2>1, StaysTurn
    <2> QED BY <1>1, <2>2 DEF TurnStep, Turn!tvars
  <1>10. CASE /\ pc[s][r] \in Inside /\ p \in Inside /\ r \in Command
              /\ tried[s][r] < WriteAttempts /\ n = tried[s][r] + 1
    <2>1. Turn!TriesAgain(s, r)
      BY <1>2, <1>3, <1>4, <1>10 DEF Turn!TriesAgain
    <2> QED BY <1>1, <2>1 DEF TurnStep, Turn!Next
  <1>11. CASE pc[s][r] \in Inside /\ p = "vouch" /\ r \in Command
    <2>1. Turn!BecomesUnsure(s, r)
      BY <1>2, <1>3, <1>4, <1>11 DEF Turn!BecomesUnsure
    <2> QED BY <1>1, <2>1 DEF TurnStep, Turn!Next
  <1>12. CASE pc[s][r] = "vouch" /\ p = "idle"
    <2>1. Turn!IsTold(s, r)
      BY <1>2, <1>3, <1>4, <1>12 DEF Turn!IsTold
    <2> QED BY <1>1, <2>1 DEF TurnStep, Turn!Next
  <1> QED BY <1>5, <1>6, <1>7, <1>8, <1>9, <1>10, <1>11, <1>12

\* A flow that is over has let go of its turn, and what a command said is unsure.
LEMMA GiveUpTakesTurns ==
    ASSUME IInv, Ready, NEW s \in Session, NEW r \in Role, NEW c, NEW b \in BOOLEAN,
           GiveUp(s, r, c, b), pc[s][r] \in Inside \cup {"lock"},
           b => r \in Command /\ pc[s][r] \in Inside
    PROVE  TurnStep
  <1> DEFINE p == IF b THEN "vouch" ELSE "idle"
  <1>1. Moves(s, r, p, 1, FALSE)
    BY PartsMove DEF IInv, GiveUp
  <1>2. p \notin Inside /\ p # "bye" /\ pc[s][r] # "bye"
    BY DEF Inside
  <1>3. lock'[s] # r
    BY NamesAssumption DEF GiveUp, LetLockGo, IInv, TypeOK
  <1> QED BY <1>1, <1>2, <1>3, MoveTakesTurns

\* open takes the turn of a flow that waited for one, or goes on in the one it has.
LEMMA OpenTakesTurns ==
    ASSUME IInv, Ready, NEW s \in Session, NEW r \in Role, NEW H, NEW n,
           NEW b \in BOOLEAN, Open(s, r, H, n, b),
           \/ pc[s][r] = "lock" /\ lock[s] = None /\ n = 1 /\ ~ b
           \/ /\ pc[s][r] \in Inside
              /\ b => r \in Command
              /\ n = tried[s][r] \/ (r \in Command /\ tried[s][r] < WriteAttempts
                                                   /\ n = tried[s][r] + 1)
    PROVE  TurnStep
  <1>1. CASE GiveUp(s, r, None, b)
    BY <1>1, GiveUpTakesTurns
  <1>2. CASE ~ GiveUp(s, r, None, b)
    <2> DEFINE p == IF H = {} THEN "dial" ELSE "hangups"
    <2>1. lock[s] \in {None, r}
      BY DEF IInv, LockHeld
    <2>2. Moves(s, r, p, n, b)
      BY <1>2, <2>1, PartsMove DEF IInv, Open
    <2>3. p \in Inside /\ p # "bye" /\ pc[s][r] # "bye"
      BY DEF Inside
    <2> QED BY <2>2, <2>3, MoveTakesTurns
  <1> QED BY <1>1, <1>2

\* A flow that has no link tries again in its turn, or gives it up.
LEMMA NoLinkTakesTurns ==
    ASSUME IInv, Ready, NEW s \in Session, NEW r \in Role, NoLink(s, r), pc[s][r] \in Inside
    PROVE  TurnStep
  <1>1. said[s][r] \in BOOLEAN /\ (said[s][r] => r \in Command)
    BY DEF IInv, TypeOK, Ready
  <1> QED BY <1>1, OpenTakesTurns, GiveUpTakesTurns DEF NoLink

\* So does a command that lost its link.
LEMMA LostTakesTurns ==
    ASSUME IInv, Ready, NEW s \in Session, NEW r \in Command, NEW c,
           LostUnderCommand(s, r, c), pc[s][r] \in Inside
    PROVE  TurnStep
  <1> r \in Role
    BY Roles
  <1> QED BY OpenTakesTurns, GiveUpTakesTurns DEF LostUnderCommand

\* A flow that goes on in its turn, on the attempt it is on.
LEMMA GoesOnInTurn ==
    ASSUME IInv, Ready, NEW s \in Session, NEW r \in Role, NEW p \in Inside, NEW c,
           At(s, r, p, c), UNCHANGED lock, pc[s][r] \in Inside,
           \/ UNCHANGED <<tried, said>>
           \/ Attempt(s, r, tried[s][r], r \in Command)
    PROVE  TurnStep
  <1>1. pc[s][r] # "bye" /\ p # "bye"
    BY DEF Inside
  <1>2. said[s][r] => r \in Command
    BY DEF Ready
  <1>3. CASE UNCHANGED <<tried, said>>
    <2>1. Moves(s, r, p, tried[s][r], said[s][r])
      BY <1>3, PartsMove DEF IInv
    <2> QED BY <1>1, <1>2, <2>1, MoveTakesTurns
  <1>4. CASE Attempt(s, r, tried[s][r], r \in Command)
    <2>1. PICK b \in BOOLEAN : Attempt(s, r, tried[s][r], b) /\ (b => r \in Command)
      <3>1. CASE r \in Command
        <4>1. Attempt(s, r, tried[s][r], TRUE)
          BY <1>4, <3>1 DEF Attempt
        <4> QED BY <3>1, <4>1
      <3>2. CASE r \notin Command
        <4>1. (r \in Command) = FALSE
          BY <3>2
        <4>2. Attempt(s, r, tried[s][r], FALSE)
          BY <1>4, <4>1
        <4> QED BY <4>2
      <3> QED BY <3>1, <3>2
    <2>2. Moves(s, r, p, tried[s][r], b)
      BY <2>1, PartsMove DEF IInv
    <2> QED BY <1>1, <2>1, <2>2, MoveTakesTurns
  <1> QED BY <1>3, <1>4

\* Every step of open is one of a turn.
LEMMA OpeningTakesTurns ==
    ASSUME IInv, Ready, NEW s \in Session, NEW r \in Background \cup Command, Opening(s, r)
    PROVE  TurnStep
  <1> r \in Role
    BY Roles
  <1>1. said[s][r] \in BOOLEAN /\ (said[s][r] => r \in Command)
    BY DEF IInv, TypeOK, Ready
  <1>2. CASE HangUpsEnded(s, r)
    BY <1>1, <1>2, OpenTakesTurns DEF HangUpsEnded, Inside
  <1>3. CASE Dialled(s, r)
    BY <1>3, GoesOnInTurn DEF Dialled, Inside, locals
  <1>4. CASE DialFails(s, r) \/ ClosedInOpen(s, r)
    BY <1>4, NoLinkTakesTurns DEF DialFails, ClosedInOpen, Inside
  <1>5. CASE Taken(s, r)
    BY <1>5, GoesOnInTurn DEF Taken, Inside
  <1>6. CASE TakenDead(s, r)
    BY <1>6, LostTakesTurns, GiveUpTakesTurns DEF TakenDead, Inside
  <1>7. CASE NotTaken(s, r)
    BY <1>7, GoesOnInTurn DEF NotTaken, Inside, locals
  <1> QED BY <1>2, <1>3, <1>4, <1>5, <1>6, <1>7 DEF Opening

\* A task that waits for its turn from now on, or no longer.
LEMMA WaitsOrNot ==
    ASSUME IInv, Ready, NEW s \in Session, NEW r \in Role, NEW p, NEW c, At(s, r, p, c),
           UNCHANGED <<lock, tried, said>>,
           \/ pc[s][r] = "idle" /\ p \in {"lock", "idle"}
           \/ pc[s][r] \in {"lock", "vouch"} /\ p = "idle"
    PROVE  TurnStep
  <1>1. pc[s][r] \notin Inside /\ p \notin Inside /\ pc[s][r] # "bye" /\ p # "bye"
    BY DEF Inside
  <1>2. tried[s][r] = 1 /\ ~ said[s][r] /\ lock'[s] # r
    BY <1>1 DEF Ready
  <1>3. Moves(s, r, p, tried[s][r], said[s][r])
    BY PartsMove DEF IInv
  <1> QED BY <1>1, <1>2, <1>3, MoveTakesTurns

\* An unload lets go of its link in a turn, or without one.
LEMMA StopTakesTurns ==
    ASSUME IInv, Ready, NEW s \in Session, Stop(s)
    PROVE  TurnStep
  <1> "stop" \in Role
    BY DEF Role
  <1>1. CASE Unload(s)
    <2>1. pc[s]["stop"] = "idle"
      BY <1>1 DEF Unload, IInv, StopsOnce
    <2> QED BY <1>1, <2>1, WaitsOrNot DEF Unload, locals
  <1>2. CASE ShutDown(s)
    BY <1>2, NobodyMoves DEF ShutDown, locals
  <1> DEFINE n == tried[s]["stop"]
             b == said[s]["stop"]
  <1>3. ASSUME pc[s]["stop"] \in {"lock", "bye"}
        PROVE  pc[s]["stop"] \notin Inside /\ n = 1 /\ ~ b
    BY <1>3 DEF Ready, Inside
  <1>4. CASE LetGo(s)
    <2>1. CASE held[s] = None
      BY <1>4, <2>1, WaitsOrNot DEF LetGo, locals
    <2>2. CASE held[s] # None
      <3>1. Moves(s, "stop", "bye", n, b)
        <4>1. At(s, "stop", "bye", None) /\ UNCHANGED <<tried, said>>
          BY <1>4, <2>2 DEF LetGo, locals
        <4>2. UNCHANGED lock \/ (TakeLock(s, "stop") /\ lock[s] = None)
          BY <1>4, <2>2 DEF LetGo
        <4> QED BY <4>1, <4>2, PartsMove DEF IInv
      <3>2. n = 1 /\ ~ b /\ Ready'
        BY <1>3, <1>4, <3>1, MoveMakesReady DEF LetGo
      <3>3. turnOf[s]["stop"] = "waits" /\ triesOf[s]["stop"] = 0
        BY <1>4 DEF LetGo, turnOf, triesOf, HasTurn, Inside
      <3>4. /\ Turn!Becomes(s, "stop", turnOf'[s]["stop"], triesOf'[s]["stop"])
            /\ turnOf'[s]["stop"]  = IF lock'[s] = "stop" THEN "has" ELSE "out"
            /\ triesOf'[s]["stop"] = IF lock'[s] = "stop" THEN 1 ELSE 0
        BY <3>1, <3>2, MoveMaps DEF Inside
      <3>5. CASE lock'[s] = "stop"
        <4>1. lock[s] \in {None, "stop"}
          BY <1>4, <2>2, <3>5 DEF LetGo, TakeLock, IInv, TypeOK
        <4>2. \A q \in Role : turnOf[s][q] # "has"
          BY <1>3, <1>4, <4>1, NamesAssumption DEF turnOf, HasTurn, IInv, LockHeld, LetGo
        <4>3. Turn!Takes(s, "stop")
          BY <3>3, <3>4, <3>5, <4>2 DEF Turn!Takes
        <4> QED BY <3>2, <4>3 DEF TurnStep, Turn!Next
      <3>6. CASE lock'[s] # "stop"
        <4>1. Turn!Leaves(s, "stop")
          BY <3>3, <3>4, <3>6 DEF Turn!Leaves
        <4> QED BY <3>2, <4>1 DEF TurnStep, Turn!Next
      <3> QED BY <3>5, <3>6
    <2> QED BY <2>1, <2>2
  <1>5. CASE LetGoEnds(s)
    <2>1. Moves(s, "stop", "idle", n, b)
      BY <1>5, PartsMove DEF LetGoEnds, locals, IInv
    <2>2. n = 1 /\ ~ b /\ Ready'
      <3>1. lock'[s] # "stop"
        BY <1>5, NamesAssumption DEF LetGoEnds, LetLockGo, IInv, TypeOK
      <3> QED BY <1>3, <1>5, <2>1, <3>1, MoveMakesReady DEF LetGoEnds
    <2>3. /\ turnOf[s]["stop"]  = IF lock[s] = "stop" THEN "has" ELSE "out"
          /\ triesOf[s]["stop"] = IF lock[s] = "stop" THEN 1 ELSE 0
      BY <1>5, <2>2 DEF LetGoEnds, turnOf, triesOf, HasTurn, Inside
    <2>4. /\ Turn!Becomes(s, "stop", turnOf'[s]["stop"], triesOf'[s]["stop"])
          /\ turnOf'[s]["stop"] = "out" /\ triesOf'[s]["stop"] = 0
      BY <2>1, MoveMaps DEF Inside
    <2>5. CASE lock[s] = "stop"
      <3>1. Turn!Leaves(s, "stop")
        BY <2>3, <2>4, <2>5 DEF Turn!Leaves
      <3> QED BY <2>2, <3>1 DEF TurnStep, Turn!Next
    <2>6. CASE lock[s] # "stop"
      <3>1. turnOf' = turnOf /\ triesOf' = triesOf
        BY <2>3, <2>4, <2>6, StaysTurn
      <3> QED BY <2>2, <3>1 DEF TurnStep, Turn!tvars
    <2> QED BY <2>5, <2>6
  <1> QED BY <1>1, <1>2, <1>4, <1>5 DEF Stop

\* Every step of Link is one of a turn, or none.
LEMMA NextTakesTurns ==
    ASSUME IInv, Ready, Next
    PROVE  TurnStep
  <1>1. /\ Connecting \cup {"prime", "probe", "initial", "reconnect"} \subseteq Background
        /\ Background \cup Command \subseteq Role
    BY Roles DEF Background, Connecting
  <1>2. ASSUME NEW s \in Session, NEW r \in Background,
               Spawn(s, r) \/ UNCHANGED <<pc, mine>>, UNCHANGED <<lock, tried, said>>
        PROVE  TurnStep
    BY <1>1, <1>2, WaitsOrNot, NobodyMoves DEF Spawn
  <1>3. ASSUME NEW s \in Session, Start(s) \/ Advertised(s) \/ Tick(s)
        PROVE  TurnStep
    <2>1. CASE Start(s)
      <3>1. "initial" \in Role /\ pc[s]["initial"] = "idle"
        BY <1>1, <2>1 DEF Start, IInv, NotYet
      <3> QED BY <2>1, <3>1, WaitsOrNot DEF Start, locals
    <2>2. CASE Advertised(s) \/ TickDisconnected(s)
      BY <1>1, <1>2, <2>2 DEF Advertised, TickDisconnected, locals
    <2>3. CASE TickDropsDoubted(s)
      BY <2>3, NobodyMoves DEF TickDropsDoubted, locals
    <2>4. CASE TickConnected(s)
      BY <1>1, <1>2, <2>4 DEF TickConnected, locals
    <2> QED BY <1>3, <2>1, <2>2, <2>3, <2>4 DEF Tick
  <1>4. ASSUME NEW s \in Session, NEW r \in Role,
               ConnectLocked(s, r) \/ AskHeld(s, r) \/ (Send(s, r) /\ r \in Command)
        PROVE  TurnStep
    <2>1. /\ pc[s][r] = "lock" /\ lock[s] = None /\ pc[s][r] \notin Inside
          /\ tried[s][r] = 1 /\ ~ said[s][r]
      BY <1>4 DEF ConnectLocked, AskHeld, Send, Granted, Inside, Ready
    <2>2. CASE ConnectLocked(s, r)
      BY <2>1, <2>2, OpenTakesTurns, GiveUpTakesTurns DEF ConnectLocked
    <2>3. ASSUME NEW b \in BOOLEAN, Moves(s, r, "talk", 1, b), b => r \in Command
          PROVE  TurnStep
      BY <2>1, <2>3, MoveTakesTurns DEF Inside
    <2>4. CASE AskHeld(s, r)
      <3>1. CASE At(s, r, "talk", held[s]) /\ TakeLock(s, r)
        <4>1. UNCHANGED <<tried, said>> /\ 1 = tried[s][r] /\ FALSE = said[s][r]
          BY <2>1, <2>4 DEF AskHeld, locals, IInv, TypeOK
        <4>2. Moves(s, r, "talk", 1, FALSE)
          BY <2>1, <3>1, <4>1, PartsMove DEF IInv
        <4> QED BY <2>3, <4>2
      <3>2. CASE At(s, r, "idle", None) /\ UNCHANGED lock
        BY <2>1, <2>4, <3>2, WaitsOrNot DEF AskHeld, locals
      <3> QED BY <2>4, <3>1, <3>2 DEF AskHeld
    <2>5. CASE Send(s, r) /\ r \in Command
      <3>1. CASE Connected(s)
        <4>1. Moves(s, r, "talk", 1, TRUE)
          BY <2>1, <2>5, <3>1, PartsMove DEF IInv, Send
        <4> QED BY <2>3, <2>5, <4>1
      <3>2. CASE ~ Connected(s)
        BY <2>1, <2>5, <3>2, OpenTakesTurns DEF Send
      <3> QED BY <3>1, <3>2
    <2> QED BY <1>4, <2>2, <2>4, <2>5
  <1>5. ASSUME NEW s \in Session, NEW r \in Role, NEW c, NEW b \in BOOLEAN,
               GiveUp(s, r, c, b), pc[s][r] = "talk", b => r \in Command
        PROVE  TurnStep
    BY <1>5, GiveUpTakesTurns DEF Inside
  <1>6. ASSUME NEW s \in Session, NEW r \in Role, Greet(s, r) \/ InDoubt(s, r)
        PROVE  TurnStep
    BY <1>5, <1>6, NobodyMoves DEF Greet, Answered, Greeted, GreetRaises, InDoubt, locals
  <1>7. ASSUME NEW s \in Session, ProbeAnswered(s) \/ ProbeSilent(s)
        PROVE  TurnStep
    BY <1>1, <1>5, <1>7 DEF ProbeAnswered, ProbeSilent, Unanswered
  <1>8. ASSUME NEW s \in Session, NEW k \in Command,
               Issue(s, k) \/ Delivered(s, k) \/ WriteFails(s, k) \/ Vouched(s, k)
        PROVE  TurnStep
    <2>1. CASE Issue(s, k) \/ Vouched(s, k)
      BY <1>1, <2>1, WaitsOrNot DEF Issue, Vouched, locals
    <2>2. CASE Delivered(s, k)
      BY <1>1, <1>5, <2>2 DEF Delivered
    <2>3. CASE WriteFails(s, k)
      BY <2>3, LostTakesTurns DEF WriteFails, Inside
    <2> QED BY <1>8, <2>1, <2>2, <2>3
  <1>9. ASSUME NEW s \in Session, NEW r \in Role, CutShort(s, r)
        PROVE  TurnStep
    <2>1. /\ pc[s][r] \in Inside \cup {"lock"} /\ said[s][r] \in BOOLEAN
          /\ said[s][r] => r \in Command /\ pc[s][r] \in Inside
      BY <1>9 DEF CutShort, Inside, IInv, TypeOK, Ready
    <2> QED BY <1>9, <2>1, GiveUpTakesTurns DEF CutShort
  <1>10. ASSUME NEW s \in Session, NEW r \in Background \cup Command,
                Deadline(s, r) \/ Cancelled(s, r)
         PROVE  TurnStep
    BY <1>1, <1>5, <1>9, <1>10
    DEF Deadline, Cancelled, ExchangeCutShort, Unanswered, WriteCutShort
  <1>11. CASE Stack
    BY <1>11, NobodyMoves DEF Stack, LinkDown, HangUpCloses, HangUpKeeps, EndHangUp, locals
  <1>12. ASSUME NEW s \in Session, NEW r \in Connecting, Connect(s, r)
         PROVE  TurnStep
    BY <1>1, <1>4, <1>12, OpeningTakesTurns DEF Connect
  <1>13. ASSUME NEW s \in Session, Probe(s)
         PROVE  TurnStep
    BY <1>1, <1>4, <1>7, <1>13 DEF Probe
  <1>14. ASSUME NEW s \in Session, NEW k \in Command, Deliver(s, k)
         PROVE  TurnStep
    BY <1>1, <1>4, <1>8, <1>14, OpeningTakesTurns DEF Deliver
  <1>15. ASSUME NEW s \in Session, AskHeld(s, "prime")
         PROVE  TurnStep
    BY <1>1, <1>4, <1>15
  <1>16. ASSUME NEW s \in Session, NoteAnswer(s)
         PROVE  TurnStep
    BY <1>16, NobodyMoves DEF NoteAnswer, locals
  <1>17. ASSUME NEW s \in Session, NEW r \in Connecting \cup {"prime"}, Greet(s, r)
         PROVE  TurnStep
    BY <1>1, <1>6, <1>17
  <1>18. ASSUME NEW s \in Session, NEW r \in Background, InDoubt(s, r)
         PROVE  TurnStep
    BY <1>1, <1>6, <1>18
  <1> QED
    BY <1>3, <1>10, <1>11, <1>12, <1>13, <1>14, <1>15, <1>16, <1>17, <1>18, StopTakesTurns
    DEF Next

\* From the initial states on, every state is Ready, and every step is of a turn.
LEMMA ReadyAlways ==
    /\ Init => Turn!Init /\ Ready
    /\ IInv /\ Ready /\ [Next]_vars => [Turn!Next]_(Turn!tvars) /\ Ready'
  <1>1. Init => Turn!Init /\ Ready
    BY NamesAssumption DEF Init, Turn!Init, Ready, turnOf, triesOf, HasTurn, Inside
  <1>2. IInv /\ Ready /\ [Next]_vars => [Turn!Next]_(Turn!tvars) /\ Ready'
    <2> SUFFICES ASSUME IInv, Ready, [Next]_vars PROVE TurnStep
      BY DEF TurnStep
    <2>1. CASE UNCHANGED vars
      BY <2>1, NobodyMoves DEF vars, locals
    <2> QED BY <2>1, NextTakesTurns
  <1> QED BY <1>1, <1>2

\* Link implements OneTurn: one at a time dials for a link or speaks on it, a command
\* retries in the turn it has, at most so often, and is vouched for out of it.
THEOREM SpeaksInTurn == Spec => TakesTurns
  BY ReadyAlways, Invariant, PTL DEF Spec, TakesTurns, Turn!Spec

-----------------------------------------------------------------------------
(* Nobody waits for what will not come. *)

\* What is waited for inside open is under way.
Awaited == \A s \in Session : awaits[s] \subseteq hangUps

\* A step that ends no hang-up, and by which s alone may wait for others: for none,
\* for what it waited for, or for some that are under way.
LEMMA AwaitsWhatIsThere ==
    ASSUME TypeOK, Awaited, NEW s \in Session, NEW H, hangUps \subseteq hangUps',
           \/ UNCHANGED awaits
           \/ Await(s, H) /\ H \in {{}, awaits[s]}
           \/ Await(s, H) /\ H \subseteq hangUps'
    PROVE  Awaited'
  BY DEF TypeOK, Awaited, Await

\* Hang-ups begin, and none ends.
LEMMA NoneEnds ==
    ASSUME NEW s \in Session, NEW C,
           UNCHANGED hangUps \/ hangUps' = With(C) \/ HangUpAll(s, C)
    PROVE  hangUps \subseteq hangUps'
  BY DEF HangUpAll, With

\* A flow that gives up waits for nothing more.
LEMMA GiveUpAwaits ==
    ASSUME TypeOK, Awaited, NEW s \in Session, NEW r, NEW c, NEW b, GiveUp(s, r, c, b),
           hangUps \subseteq hangUps'
    PROVE  Awaited'
  BY AwaitsWhatIsThere DEF GiveUp

\* open waits for the hang-ups it is given.
LEMMA OpenAwaits ==
    ASSUME TypeOK, Awaited, NEW s \in Session, NEW r, NEW H, NEW n, NEW b, Open(s, r, H, n, b),
           H \subseteq hangUps', hangUps \subseteq hangUps'
    PROVE  Awaited'
  BY AwaitsWhatIsThere, GiveUpAwaits DEF Open

\* A command that lost its link.
LEMMA LostAwaits ==
    ASSUME TypeOK, Awaited, NEW s \in Session, NEW r, NEW c, LostUnderCommand(s, r, c)
    PROVE  Awaited'
  <1> DEFINE C == {c} \ {None}
  <1>1. CASE tried[s][r] < WriteAttempts
    <2>1. hangUps' = With(C) /\ hangUps \subseteq hangUps'
      BY <1>1, NoneEnds DEF LostUnderCommand, HangUpAll
    <2>2. Open(s, r, With(C), tried[s][r] + 1, TRUE)
      BY <1>1 DEF LostUnderCommand
    <2> HIDE DEF C
    <2> QED BY <2>1, <2>2, OpenAwaits
  <1>2. CASE ~ (tried[s][r] < WriteAttempts)
    BY <1>2, GiveUpAwaits DEF LostUnderCommand
  <1> QED BY <1>1, <1>2

\* A flow that has no link.
LEMMA NoLinkAwaits ==
    ASSUME TypeOK, Awaited, NEW s \in Session, NEW r, NoLink(s, r), UNCHANGED hangUps
    PROVE  Awaited'
  BY OpenAwaits, GiveUpAwaits DEF NoLink

\* Every step waits for what is under way only.
LEMMA NextAwaits ==
    ASSUME TypeOK, Awaited, Next
    PROVE  Awaited'
  <1>1. ASSUME UNCHANGED awaits, hangUps \subseteq hangUps'
        PROVE  Awaited'
    BY <1>1 DEF Awaited
  <1>2. ASSUME NEW s \in Session, NEW C,
               UNCHANGED hangUps \/ hangUps' = With(C) \/ HangUpAll(s, C)
        PROVE  hangUps \subseteq hangUps'
    BY <1>2, NoneEnds
  <1>3. ASSUME NEW s \in Session, Start(s) \/ Advertised(s) \/ Tick(s) \/ Stop(s) \/ NoteAnswer(s)
        PROVE  Awaited'
    BY <1>1, <1>2, <1>3
    DEF Start, Advertised, Tick, TickDisconnected, TickDropsDoubted, TickConnected, Stop,
        Unload, LetGo, LetGoEnds, ShutDown, NoteAnswer
  <1>4. ASSUME NEW s \in Session, NEW r, ConnectLocked(s, r) \/ Send(s, r) \/ AskHeld(s, r)
        PROVE  Awaited'
    BY <1>1, <1>4, OpenAwaits, GiveUpAwaits DEF ConnectLocked, Send, AskHeld
  <1>5. ASSUME NEW s \in Session, NEW r, Opening(s, r)
        PROVE  Awaited'
    <2>1. CASE HangUpsEnded(s, r)
      BY <2>1, OpenAwaits DEF HangUpsEnded
    <2>2. CASE Dialled(s, r) \/ Taken(s, r)
      BY <1>1, <2>2 DEF Dialled, Taken
    <2>3. CASE DialFails(s, r) \/ ClosedInOpen(s, r)
      BY <2>3, NoLinkAwaits DEF DialFails, ClosedInOpen
    <2>4. CASE TakenDead(s, r)
      BY <1>2, <2>4, LostAwaits, GiveUpAwaits DEF TakenDead
    <2>5. CASE NotTaken(s, r)
      <3>1. hangUps' = With({mine[s][r]}) /\ hangUps \subseteq hangUps'
        BY <1>2, <2>5 DEF NotTaken, HangUpAll
      <3>2. {NewHangUp(mine[s][r])} \subseteq hangUps'
        BY <3>1 DEF With
      <3> QED BY <2>5, <3>1, <3>2, AwaitsWhatIsThere DEF NotTaken
    <2> QED BY <1>5, <2>1, <2>2, <2>3, <2>4, <2>5 DEF Opening
  <1>6. ASSUME NEW s \in Session, NEW r, Greet(s, r) \/ InDoubt(s, r)
        PROVE  Awaited'
    BY <1>1, <1>2, <1>6, GiveUpAwaits DEF Greet, Answered, Greeted, GreetRaises, InDoubt
  <1>7. ASSUME NEW s \in Session, ProbeAnswered(s) \/ ProbeSilent(s) \/ Unanswered(s)
        PROVE  Awaited'
    BY <1>2, <1>7, GiveUpAwaits DEF ProbeAnswered, ProbeSilent, Unanswered
  <1>8. ASSUME NEW s \in Session, NEW k, Deliver(s, k)
        PROVE  Awaited'
    <2>1. CASE Issue(s, k) \/ Vouched(s, k)
      BY <1>1, <1>2, <2>1 DEF Issue, Vouched
    <2>2. CASE Delivered(s, k)
      BY <2>2, GiveUpAwaits DEF Delivered
    <2>3. CASE WriteFails(s, k)
      BY <2>3, LostAwaits DEF WriteFails
    <2> QED BY <1>4, <1>5, <1>8, <2>1, <2>2, <2>3 DEF Deliver
  <1>9. ASSUME NEW s \in Session, NEW r, Deadline(s, r) \/ Cancelled(s, r)
        PROVE  Awaited'
    <2>1. CASE CutShort(s, r)
      BY <1>2, <2>1, GiveUpAwaits DEF CutShort
    <2>2. CASE ExchangeCutShort(s, r) \/ WriteCutShort(s, r)
      BY <2>2, GiveUpAwaits DEF ExchangeCutShort, WriteCutShort
    <2> QED BY <1>7, <1>9, <2>1, <2>2 DEF Deadline, Cancelled
  <1>10. CASE Stack
    <2>1. ASSUME NEW c \in Client, LinkDown(c)
          PROVE  Awaited'
      BY <1>1, <2>1 DEF LinkDown, With
    <2>2. ASSUME NEW x, EndHangUp(x)
          PROVE  Awaited'
      BY <2>2 DEF EndHangUp, Awaited
    <2> QED BY <1>10, <2>1, <2>2 DEF Stack, HangUpCloses, HangUpKeeps
  <1> QED
    BY <1>3, <1>4, <1>5, <1>6, <1>7, <1>8, <1>9, <1>10 DEF Next, Connect, Probe

\* Whatever cut a task short, it leaves the lock with nobody, and nobody waits for a
\* hang-up that has ended (connect_locked, send, let_go, open).
THEOREM NobodyWaitsInVain == Spec => []WaitsForSomebody
  <1>1. Init => Awaited
    BY DEF Init, Awaited
  <1>2. IInv /\ Awaited /\ [Next]_vars => Awaited'
    BY NextAwaits DEF IInv, Awaited, vars
  <1>3. IInv /\ Ready /\ Awaited => WaitsForSomebody
    BY DEF IInv, TypeOK, Ready, Awaited, WaitsForSomebody
  <1> QED BY <1>1, <1>2, <1>3, ReadyAlways, Invariant, PTL DEF Spec

=============================================================================
