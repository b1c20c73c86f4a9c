--------------------------- MODULE ExchangeProofs ---------------------------
(***************************************************************************)
(* What is proved of Exchange, for any limit and any number of faults: a   *)
(* lamp is brought up whole or not at all, the question of its activation  *)
(* is settled only for a lamp that was activated, and a link is called one *)
(* that works only after the lamp has answered on it.                      *)
(***************************************************************************)
EXTENDS Exchange, TLAPS

\* The parts of the inductive invariant.

\* A lamp is asked only while it has not refused too often.
AskedWithinLimit == at = "ask" => refusals < Limit

\* How far the bring-up has got, on a link that the lamp has not been reset under:
\* what was written before is with the lamp.
HalfWay ==
    link = "live" => /\ at = "time" => "misc" \in done
                     /\ at = "flag" => {"misc", "time"} \subseteq done

\* Where a yes can come from.
YesIsTrue ==
    /\ "flag" \in done => was
    /\ seen.flag = "yes" => was
    /\ checked => was

\* The exchange is past its question only with an answer.
Spoken ==
    /\ primed => spoke
    /\ at \notin {"idle", "ask", "read"} => spoke
    /\ at \in {"ask", "read"} /\ (asked = "answered" \/ carried # {}) => spoke

XInv ==
    /\ TypeOK
    /\ BroughtUpWhole
    /\ AskedWithinLimit
    /\ HalfWay
    /\ YesIsTrue
    /\ Spoken

\* TypeOK, in four parts.
LampTyped == manner \in Manners /\ done \in SUBSET BringUps /\ was \in BOOLEAN

LinkTyped ==
    /\ link \in {"none", "live", "dead"}
    /\ doomed \in BOOLEAN /\ spoke \in BOOLEAN /\ primed \in BOOLEAN

TurnTyped ==
    /\ at \in {"idle", "ask", "wait", "read", "misc", "time", "flag", "sync", "info"}
    /\ kind \in {"greet", "probe"}
    /\ asked \in {"not", "lost", "answered"}
    /\ carried \in SUBSET Part

MemoryTyped ==
    /\ seen \in [flag : {"none", "no", "yes"}, clock : {"none", "right", "wrong"}]
    /\ refusals \in 0..Limit
    /\ checked \in BOOLEAN /\ info \in BOOLEAN
    /\ faults \in 0..MaxFaults

-----------------------------------------------------------------------------
\* Nothing is known of a lamp that nobody has dialled.
LEMMA XInvInit == Init => XInv
<1>. SUFFICES ASSUME Init PROVE XInv
  OBVIOUS
<1>. USE ExchangeAssumption DEF Init, Part, BringUps
<1>1. TypeOK
  <2>1. LampTyped
    BY DEF LampTyped
  <2>2. LinkTyped
    BY DEF LinkTyped
  <2>3. TurnTyped
    BY DEF TurnTyped
  <2>4. MemoryTyped
    <3>1. seen \in [flag : {"none", "no", "yes"}, clock : {"none", "right", "wrong"}]
      OBVIOUS
    <3>2. refusals \in 0..Limit /\ faults \in 0..MaxFaults
      OBVIOUS
    <3>3. checked \in BOOLEAN /\ info \in BOOLEAN
      OBVIOUS
    <3>. QED  BY <3>1, <3>2, <3>3 DEF MemoryTyped
  <2>. QED  BY <2>1, <2>2, <2>3, <2>4 DEF TypeOK, LampTyped, LinkTyped, TurnTyped,
                                          MemoryTyped
<1>2. BroughtUpWhole /\ AskedWithinLimit /\ HalfWay
  BY DEF BroughtUpWhole, AskedWithinLimit, HalfWay
<1>3. YesIsTrue
  BY DEF YesIsTrue
<1>4. Spoken
  BY DEF Spoken
<1>. QED  BY <1>1, <1>2, <1>3, <1>4 DEF XInv

\* What the lamp does, and who else has it in hand: its flag is reported as it is,
\* and a reset takes all of the bring-up and the link.
LEMMA LampKeepsXInv ==
    ASSUME XInv,
           \/ \E K \in SUBSET Part : K # {} /\ Report(K)
           \/ FactoryReset \/ AppActivates \/ ClockAges
    PROVE  XInv'
<1>. USE ExchangeAssumption
     DEF XInv, TypeOK, BroughtUpWhole, AskedWithinLimit, HalfWay, YesIsTrue, Spoken
<1>1. ASSUME NEW K \in SUBSET Part, Report(K) PROVE XInv'
  BY <1>1 DEF Report, Showing, lamp
<1>2. CASE FactoryReset
  <2>1. TypeOK'
    <3>1. LampTyped'
      BY <1>2 DEF FactoryReset, Fault, turn, memory, BringUps, LampTyped
    <3>2. LinkTyped'
      BY <1>2 DEF FactoryReset, Fault, turn, memory, BringUps, LinkTyped
    <3>3. TurnTyped'
      BY <1>2 DEF FactoryReset, Fault, turn, memory, BringUps, TurnTyped
    <3>4. MemoryTyped'
      BY <1>2 DEF FactoryReset, Fault, turn, memory, BringUps, MemoryTyped
    <3>. QED  BY <3>1, <3>2, <3>3, <3>4 DEF LampTyped, LinkTyped, TurnTyped, MemoryTyped
  <2>2. BroughtUpWhole' /\ AskedWithinLimit' /\ HalfWay'
    BY <1>2 DEF FactoryReset, Fault, turn, memory, BringUps
  <2>3. YesIsTrue' /\ Spoken'
    BY <1>2 DEF FactoryReset, Fault, turn, memory, BringUps
  <2>. QED  BY <2>1, <2>2, <2>3
<1>3. CASE AppActivates
  BY <1>3 DEF AppActivates, held, turn, memory, BringUps
<1>4. CASE ClockAges
  BY <1>4 DEF ClockAges, lamp, held, turn
<1>. QED  BY <1>1, <1>2, <1>3, <1>4

\* A new link is one on which nothing was said; what begins on it, or on the one
\* that is held, has got nowhere yet.
LEMMA LinkKeepsXInv ==
    ASSUME XInv,
           \/ Dial \/ CommandDials \/ PrimeHeld \/ ProbeHeld
           \/ LinkLost \/ DoomEnds
    PROVE  XInv'
<1>. USE ExchangeAssumption
     DEF XInv, TypeOK, BroughtUpWhole, AskedWithinLimit, HalfWay, YesIsTrue, Spoken
<1>1. CASE Dial
  <2>1. TypeOK'
    <3>1. LampTyped'
      BY <1>1 DEF Dial, Taken, Begins, Fault, lamp, memory, LampTyped
    <3>2. LinkTyped'
      BY <1>1 DEF Dial, Taken, Begins, Fault, lamp, memory, LinkTyped
    <3>3. TurnTyped'
      BY <1>1 DEF Dial, Taken, Begins, Fault, lamp, memory, TurnTyped
    <3>4. MemoryTyped'
      BY <1>1 DEF Dial, Taken, Begins, Fault, lamp, memory, MemoryTyped
    <3>. QED  BY <3>1, <3>2, <3>3, <3>4 DEF LampTyped, LinkTyped, TurnTyped, MemoryTyped
  <2>2. BroughtUpWhole' /\ AskedWithinLimit' /\ HalfWay'
    BY <1>1 DEF Dial, Taken, Begins, Fault, lamp, memory
  <2>3. YesIsTrue' /\ Spoken'
    BY <1>1 DEF Dial, Taken, Begins, Fault, lamp, memory
  <2>. QED  BY <2>1, <2>2, <2>3
<1>2. CASE CommandDials
  <2>1. TypeOK'
    <3>1. LampTyped'
      BY <1>2 DEF CommandDials, Taken, lamp, turn, memory, LampTyped
    <3>2. LinkTyped'
      BY <1>2 DEF CommandDials, Taken, lamp, turn, memory, LinkTyped
    <3>3. TurnTyped'
      BY <1>2 DEF CommandDials, Taken, lamp, turn, memory, TurnTyped
    <3>4. MemoryTyped'
      BY <1>2 DEF CommandDials, Taken, lamp, turn, memory, MemoryTyped
    <3>. QED  BY <3>1, <3>2, <3>3, <3>4 DEF LampTyped, LinkTyped, TurnTyped, MemoryTyped
  <2>2. BroughtUpWhole' /\ AskedWithinLimit' /\ HalfWay'
    BY <1>2 DEF CommandDials, Taken, lamp, turn, memory
  <2>3. YesIsTrue' /\ Spoken'
    BY <1>2 DEF CommandDials, Taken, lamp, turn, memory
  <2>. QED  BY <2>1, <2>2, <2>3
<1>3. CASE PrimeHeld
  BY <1>3 DEF PrimeHeld, Begins, lamp, held, memory
<1>4. CASE ProbeHeld
  BY <1>4 DEF ProbeHeld, Begins, lamp, held, memory
<1>5. CASE LinkLost
  <2>1. TypeOK'
    <3>1. LampTyped'
      BY <1>5 DEF LinkLost, Fault, lamp, turn, memory, LampTyped
    <3>2. LinkTyped'
      BY <1>5 DEF LinkLost, Fault, lamp, turn, memory, LinkTyped
    <3>3. TurnTyped'
      BY <1>5 DEF LinkLost, Fault, lamp, turn, memory, TurnTyped
    <3>4. MemoryTyped'
      BY <1>5 DEF LinkLost, Fault, lamp, turn, memory, MemoryTyped
    <3>. QED  BY <3>1, <3>2, <3>3, <3>4 DEF LampTyped, LinkTyped, TurnTyped, MemoryTyped
  <2>2. BroughtUpWhole' /\ AskedWithinLimit' /\ HalfWay'
    BY <1>5 DEF LinkLost, Fault, lamp, turn, memory
  <2>3. YesIsTrue' /\ Spoken'
    BY <1>5 DEF LinkLost, Fault, lamp, turn, memory
  <2>. QED  BY <2>1, <2>2, <2>3
<1>6. CASE DoomEnds
  <2>1. TypeOK'
    <3>1. LampTyped'
      BY <1>6 DEF DoomEnds, lamp, turn, memory, LampTyped
    <3>2. LinkTyped'
      BY <1>6 DEF DoomEnds, lamp, turn, memory, LinkTyped
    <3>3. TurnTyped'
      BY <1>6 DEF DoomEnds, lamp, turn, memory, TurnTyped
    <3>4. MemoryTyped'
      BY <1>6 DEF DoomEnds, lamp, turn, memory, MemoryTyped
    <3>. QED  BY <3>1, <3>2, <3>3, <3>4 DEF LampTyped, LinkTyped, TurnTyped, MemoryTyped
  <2>2. BroughtUpWhole' /\ AskedWithinLimit' /\ HalfWay'
    BY <1>6 DEF DoomEnds, lamp, turn, memory
  <2>3. YesIsTrue' /\ Spoken'
    BY <1>6 DEF DoomEnds, lamp, turn, memory
  <2>. QED  BY <2>1, <2>2, <2>3
<1>. QED  BY <1>1, <1>2, <1>3, <1>4, <1>5, <1>6

\* What the state request comes to: the exchange goes on past it only where the
\* lamp has spoken, and settles the question only on a yes.
LEMMA RequestKeepsXInv ==
    ASSUME XInv,
           \/ AskAccepted \/ AskRefused \/ AskLost \/ Reported \/ TimedOut
           \/ ReadDone \/ ReadLost
    PROVE  XInv'
<1>. USE ExchangeAssumption
     DEF XInv, TypeOK, BroughtUpWhole, AskedWithinLimit, HalfWay, YesIsTrue, Spoken
<1>1. CASE AskAccepted
  <2>1. TypeOK'
    <3>1. LampTyped'
      BY <1>1 DEF AskAccepted, lamp, LampTyped
    <3>2. LinkTyped'
      BY <1>1 DEF AskAccepted, lamp, LinkTyped
    <3>3. TurnTyped'
      BY <1>1 DEF AskAccepted, lamp, TurnTyped
    <3>4. MemoryTyped'
      BY <1>1 DEF AskAccepted, lamp, MemoryTyped
    <3>. QED  BY <3>1, <3>2, <3>3, <3>4 DEF LampTyped, LinkTyped, TurnTyped, MemoryTyped
  <2>2. BroughtUpWhole' /\ AskedWithinLimit' /\ HalfWay'
    BY <1>1 DEF AskAccepted, lamp
  <2>3. YesIsTrue' /\ Spoken'
    BY <1>1 DEF AskAccepted, lamp
  <2>. QED  BY <2>1, <2>2, <2>3
<1>2. CASE AskRefused
  BY <1>2, ExchangeAssumption DEF AskRefused, lamp
<1>3. CASE AskLost
  <2>1. TypeOK'
    <3>1. LampTyped'
      BY <1>3 DEF AskLost, CallFails, Fault, lamp, held, memory, LampTyped
    <3>2. LinkTyped'
      BY <1>3 DEF AskLost, CallFails, Fault, lamp, held, memory, LinkTyped
    <3>3. TurnTyped'
      BY <1>3 DEF AskLost, CallFails, Fault, lamp, held, memory, TurnTyped
    <3>4. MemoryTyped'
      BY <1>3 DEF AskLost, CallFails, Fault, lamp, held, memory, MemoryTyped
    <3>. QED  BY <3>1, <3>2, <3>3, <3>4 DEF LampTyped, LinkTyped, TurnTyped, MemoryTyped
  <2>2. BroughtUpWhole' /\ AskedWithinLimit' /\ HalfWay'
    BY <1>3 DEF AskLost, CallFails, Fault, lamp, held, memory
  <2>3. YesIsTrue' /\ Spoken'
    BY <1>3 DEF AskLost, CallFails, Fault, lamp, held, memory
  <2>. QED  BY <2>1, <2>2, <2>3
<1>4. CASE Reported
  <2>1. TypeOK'
    <3>1. LampTyped'
      BY <1>4 DEF Reported, Answers, Goes, AfterBringUp, Checks, lamp, LampTyped
    <3>2. LinkTyped'
      BY <1>4 DEF Reported, Answers, Goes, AfterBringUp, Checks, lamp, LinkTyped
    <3>3. TurnTyped'
      BY <1>4 DEF Reported, Answers, Goes, AfterBringUp, Checks, lamp, TurnTyped
    <3>4. MemoryTyped'
      BY <1>4 DEF Reported, Answers, Goes, AfterBringUp, Checks, lamp, MemoryTyped
    <3>. QED  BY <3>1, <3>2, <3>3, <3>4 DEF LampTyped, LinkTyped, TurnTyped, MemoryTyped
  <2>2. BroughtUpWhole' /\ AskedWithinLimit' /\ HalfWay'
    BY <1>4 DEF Reported, Answers, Goes, AfterBringUp, Checks, lamp
  <2>3. YesIsTrue' /\ Spoken'
    BY <1>4 DEF Reported, Answers, Goes, AfterBringUp, Checks, lamp
  <2>. QED  BY <2>1, <2>2, <2>3
<1>5. CASE TimedOut
  <2>1. TypeOK'
    <3>1. LampTyped'
      BY <1>5 DEF TimedOut, Answers, Goes, AfterBringUp, Checks, lamp, LampTyped
    <3>2. LinkTyped'
      BY <1>5 DEF TimedOut, Answers, Goes, AfterBringUp, Checks, lamp, LinkTyped
    <3>3. TurnTyped'
      BY <1>5 DEF TimedOut, Answers, Goes, AfterBringUp, Checks, lamp, TurnTyped
    <3>4. MemoryTyped'
      BY <1>5 DEF TimedOut, Answers, Goes, AfterBringUp, Checks, lamp, MemoryTyped
    <3>. QED  BY <3>1, <3>2, <3>3, <3>4 DEF LampTyped, LinkTyped, TurnTyped, MemoryTyped
  <2>2. BroughtUpWhole' /\ AskedWithinLimit' /\ HalfWay'
    BY <1>5 DEF TimedOut, Answers, Goes, AfterBringUp, Checks, lamp
  <2>3. YesIsTrue' /\ Spoken'
    BY <1>5 DEF TimedOut, Answers, Goes, AfterBringUp, Checks, lamp
  <2>. QED  BY <2>1, <2>2, <2>3
<1>6. CASE ReadDone
  <2>1. TypeOK'
    <3>1. LampTyped'
      BY <1>6 DEF ReadDone, Showing, Dooms, Answers, Goes, AfterBringUp, Checks, lamp,
                  LampTyped
    <3>2. LinkTyped'
      BY <1>6 DEF ReadDone, Showing, Dooms, Answers, Goes, AfterBringUp, Checks, lamp,
                  LinkTyped
    <3>3. TurnTyped'
      BY <1>6 DEF ReadDone, Showing, Dooms, Answers, Goes, AfterBringUp, Checks, lamp,
                  TurnTyped
    <3>4. MemoryTyped'
      BY <1>6 DEF ReadDone, Showing, Dooms, Answers, Goes, AfterBringUp, Checks, lamp,
                  MemoryTyped
    <3>. QED  BY <3>1, <3>2, <3>3, <3>4 DEF LampTyped, LinkTyped, TurnTyped, MemoryTyped
  <2>2. BroughtUpWhole' /\ AskedWithinLimit' /\ HalfWay'
    BY <1>6 DEF ReadDone, Showing, Dooms, Answers, Goes, AfterBringUp, Checks, lamp
  <2>3. YesIsTrue' /\ Spoken'
    BY <1>6 DEF ReadDone, Showing, Dooms, Answers, Goes, AfterBringUp, Checks, lamp
  <2>. QED  BY <2>1, <2>2, <2>3
<1>7. CASE ReadLost
  <2>1. TypeOK'
    <3>1. LampTyped'
      BY <1>7 DEF ReadLost, CallFails, Fault, Dooms, LetsGo, Answers, Goes,
                  AfterBringUp, Checks, lamp, LampTyped
    <3>2. LinkTyped'
      BY <1>7 DEF ReadLost, CallFails, Fault, Dooms, LetsGo, Answers, Goes,
                  AfterBringUp, Checks, lamp, LinkTyped
    <3>3. TurnTyped'
      BY <1>7 DEF ReadLost, CallFails, Fault, Dooms, LetsGo, Answers, Goes,
                  AfterBringUp, Checks, lamp, TurnTyped
    <3>4. MemoryTyped'
      BY <1>7 DEF ReadLost, CallFails, Fault, Dooms, LetsGo, Answers, Goes,
                  AfterBringUp, Checks, lamp, MemoryTyped
    <3>. QED  BY <3>1, <3>2, <3>3, <3>4 DEF LampTyped, LinkTyped, TurnTyped, MemoryTyped
  <2>2. BroughtUpWhole' /\ AskedWithinLimit' /\ HalfWay'
    BY <1>7 DEF ReadLost, CallFails, Fault, Dooms, LetsGo, Answers, Goes, AfterBringUp,
                Checks, lamp
  <2>3. YesIsTrue' /\ Spoken'
    BY <1>7 DEF ReadLost, CallFails, Fault, Dooms, LetsGo, Answers, Goes, AfterBringUp,
                Checks, lamp
  <2>. QED  BY <2>1, <2>2, <2>3
<1>. QED  BY <1>1, <1>2, <1>3, <1>4, <1>5, <1>6, <1>7

\* What is written, in its order, and what is read last.
LEMMA WritesKeepXInv ==
    ASSUME XInv,
           WriteAcked \/ WriteLost \/ InfoRead \/ InfoLost \/ CutShort
    PROVE  XInv'
<1>. USE ExchangeAssumption
     DEF XInv, TypeOK, BroughtUpWhole, AskedWithinLimit, HalfWay, YesIsTrue, Spoken
<1>1. CASE WriteAcked
  <2>1. TypeOK'
    <3>1. LampTyped'
      BY <1>1 DEF WriteAcked, Acts, After, Echoed, Goes, AfterBringUp, Checks, BringUps,
                  LampTyped
    <3>2. LinkTyped'
      BY <1>1 DEF WriteAcked, Acts, After, Echoed, Goes, AfterBringUp, Checks, BringUps,
                  LinkTyped
    <3>3. TurnTyped'
      BY <1>1 DEF WriteAcked, Acts, After, Echoed, Goes, AfterBringUp, Checks, BringUps,
                  TurnTyped
    <3>4. MemoryTyped'
      BY <1>1 DEF WriteAcked, Acts, After, Echoed, Goes, AfterBringUp, Checks, BringUps,
                  MemoryTyped
    <3>. QED  BY <3>1, <3>2, <3>3, <3>4 DEF LampTyped, LinkTyped, TurnTyped, MemoryTyped
  <2>2. BroughtUpWhole'
    BY <1>1 DEF WriteAcked, Acts, After, Echoed, Goes, AfterBringUp, Checks, BringUps
  <2>3. AskedWithinLimit'
    BY <1>1 DEF WriteAcked, Acts, After, Echoed, Goes, AfterBringUp, Checks, BringUps
  <2>4. HalfWay'
    <3>1. CASE at = "misc"
      BY <1>1, <3>1 DEF WriteAcked, Acts, After, Goes, BringUps
    <3>2. CASE at = "time"
      BY <1>1, <3>2 DEF WriteAcked, Acts, After, Goes, BringUps
    <3>3. CASE at \in {"flag", "sync"}
      BY <1>1, <3>3 DEF WriteAcked, Acts, After, Goes, AfterBringUp, BringUps
    <3>. QED  BY <1>1, <3>1, <3>2, <3>3 DEF WriteAcked, BringUps
  <2>5. YesIsTrue'
    BY <1>1 DEF WriteAcked, Acts, After, Echoed, Goes, AfterBringUp, Checks, BringUps
  <2>6. Spoken'
    BY <1>1 DEF WriteAcked, Acts, After, Echoed, Goes, AfterBringUp, Checks, BringUps
  <2>. QED  BY <2>1, <2>2, <2>3, <2>4, <2>5, <2>6
<1>2. CASE WriteLost
  <2>1. TypeOK'
    <3>1. LampTyped'
      BY <1>2 DEF WriteLost, Acts, CallFails, Fault, lamp, held, memory, BringUps,
                  LampTyped
    <3>2. LinkTyped'
      BY <1>2 DEF WriteLost, Acts, CallFails, Fault, lamp, held, memory, BringUps,
                  LinkTyped
    <3>3. TurnTyped'
      BY <1>2 DEF WriteLost, Acts, CallFails, Fault, lamp, held, memory, BringUps,
                  TurnTyped
    <3>4. MemoryTyped'
      BY <1>2 DEF WriteLost, Acts, CallFails, Fault, lamp, held, memory, BringUps,
                  MemoryTyped
    <3>. QED  BY <3>1, <3>2, <3>3, <3>4 DEF LampTyped, LinkTyped, TurnTyped, MemoryTyped
  <2>2. BroughtUpWhole' /\ AskedWithinLimit' /\ HalfWay'
    BY <1>2 DEF WriteLost, Acts, CallFails, Fault, lamp, held, memory, BringUps
  <2>3. YesIsTrue' /\ Spoken'
    BY <1>2 DEF WriteLost, Acts, CallFails, Fault, lamp, held, memory, BringUps
  <2>. QED  BY <2>1, <2>2, <2>3
<1>3. CASE InfoRead
  BY <1>3 DEF InfoRead, Dooms, lamp
<1>4. CASE InfoLost
  <2>1. TypeOK'
    <3>1. LampTyped'
      BY <1>4 DEF InfoLost, CallFails, Fault, Dooms, lamp, memory, LampTyped
    <3>2. LinkTyped'
      BY <1>4 DEF InfoLost, CallFails, Fault, Dooms, lamp, memory, LinkTyped
    <3>3. TurnTyped'
      BY <1>4 DEF InfoLost, CallFails, Fault, Dooms, lamp, memory, TurnTyped
    <3>4. MemoryTyped'
      BY <1>4 DEF InfoLost, CallFails, Fault, Dooms, lamp, memory, MemoryTyped
    <3>. QED  BY <3>1, <3>2, <3>3, <3>4 DEF LampTyped, LinkTyped, TurnTyped, MemoryTyped
  <2>2. BroughtUpWhole' /\ AskedWithinLimit' /\ HalfWay'
    BY <1>4 DEF InfoLost, CallFails, Fault, Dooms, lamp, memory
  <2>3. YesIsTrue' /\ Spoken'
    BY <1>4 DEF InfoLost, CallFails, Fault, Dooms, lamp, memory
  <2>. QED  BY <2>1, <2>2, <2>3
<1>5. CASE CutShort
  <2>1. TypeOK'
    <3>1. LampTyped'
      BY <1>5 DEF CutShort, Fault, Dooms, LetsGo, lamp, LampTyped
    <3>2. LinkTyped'
      BY <1>5 DEF CutShort, Fault, Dooms, LetsGo, lamp, LinkTyped
    <3>3. TurnTyped'
      BY <1>5 DEF CutShort, Fault, Dooms, LetsGo, lamp, TurnTyped
    <3>4. MemoryTyped'
      BY <1>5 DEF CutShort, Fault, Dooms, LetsGo, lamp, MemoryTyped
    <3>. QED  BY <3>1, <3>2, <3>3, <3>4 DEF LampTyped, LinkTyped, TurnTyped, MemoryTyped
  <2>2. BroughtUpWhole' /\ AskedWithinLimit' /\ HalfWay'
    BY <1>5 DEF CutShort, Fault, Dooms, LetsGo, lamp
  <2>3. YesIsTrue' /\ Spoken'
    BY <1>5 DEF CutShort, Fault, Dooms, LetsGo, lamp
  <2>. QED  BY <2>1, <2>2, <2>3
<1>. QED  BY <1>1, <1>2, <1>3, <1>4, <1>5

\* So does every step.
LEMMA NextKeepsXInv ==
    ASSUME XInv, [Next]_vars
    PROVE  XInv'
<1>1. CASE Next
  BY <1>1, LampKeepsXInv, LinkKeepsXInv, RequestKeepsXInv, WritesKeepXInv DEF Next,
                                                                              Awaits
<1>2. CASE UNCHANGED vars
  BY <1>2 DEF XInv, TypeOK, BroughtUpWhole, AskedWithinLimit, HalfWay, YesIsTrue,
              Spoken,
              vars, lamp, held, turn, memory
<1>. QED  BY <1>1, <1>2

\* The inductive invariant holds of every state of the specification.
THEOREM ExchangeInvariant == Spec => []XInv
<1>1. XInv /\ [Next]_vars => XInv'
  BY NextKeepsXInv
<1>. QED  BY XInvInit, <1>1, PTL DEF Spec

\* Types; with them, that a lamp is never asked once it has refused Limit times.
THEOREM ExchangeTypeCorrect == Spec => []TypeOK
<1>1. XInv => TypeOK
  BY DEF XInv
<1>. QED  BY <1>1, ExchangeInvariant, PTL

\* A lamp whose light works was told all of the bring-up (_async_activate).
THEOREM BroughtUp == Spec => []BroughtUpWhole
<1>1. XInv => BroughtUpWhole
  BY DEF XInv
<1>. QED  BY <1>1, ExchangeInvariant, PTL

\* The question is settled for a lamp that was activated only.
THEOREM SettledByAYes == Spec => []CheckedWasActive
<1>1. XInv => CheckedWasActive
  BY DEF XInv, YesIsTrue, CheckedWasActive
<1>. QED  BY <1>1, ExchangeInvariant, PTL

\* A link called one that works is one the lamp has answered on (_greet_on).
THEOREM PrimedByAnAnswer == Spec => []PrimedSpoke
<1>1. XInv => PrimedSpoke
  BY DEF XInv, Spoken, PrimedSpoke
<1>. QED  BY <1>1, ExchangeInvariant, PTL
=============================================================================
