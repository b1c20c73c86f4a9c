-------------------------- MODULE StackFaultProofs --------------------------
(***************************************************************************)
(* StackFault's safety, for any number of sessions and clients and for any *)
(* mark, gap and bound of the count.  That the repair is owned is inductive *)
(* only with what OneRuns adds: two sessions never watch the lamp at once,  *)
(* and one that has not begun, or has ended, has no episode.               *)
(***************************************************************************)
EXTENDS StackFault, TLAPS

\* A gap is a number of ticks no longer than the longest.
LEMMA GapTyped == ASSUME NEW n \in Nat PROVE Gap(n) \in 0..LongestGap
  BY FaultAssumption DEF Gap

\* The count that follows one more unanswered hang-up.
Counted(s) == IF stuck[s] < CountMax THEN stuck[s] + 1 ELSE CountMax

\* The count of a session is one up, to its bound, and its backoff is typed: an
\* episode begins at the mark, in a session that is not stopped, and only there.
LEMMA NoteStuckCounts ==
    ASSUME IInv, NEW s \in Session, NoteStuck(s)
    PROVE  /\ Counted(s) \in 1..CountMax
           /\ stuck' = [stuck EXCEPT ![s] = Counted(s)]
           /\ rest' \in [Session -> 0..LongestGap]
           /\ announced' \in [Session -> BOOLEAN]
           /\ \A z \in Session : z # s => rest'[z] = rest[z] /\ announced'[z] = announced[z]
           /\ IF Counted(s) < FaultAfter \/ Stopped(s)
              THEN UNCHANGED <<rest, announced, repair>>
              ELSE /\ announced'[s] <=> announced[s] \/ Counted(s) = FaultAfter
                   /\ repair' = (repair \/ Counted(s) = FaultAfter)
  <1> USE FaultAssumption
  <1>1. Counted(s) \in 1..CountMax
    BY DEF Counted, IInv, TypeOK
  <1>2. Counted(s) >= FaultAfter => Gap(Counted(s) - FaultAfter) \in 0..LongestGap
    BY <1>1, GapTyped
  <1>3. stuck' = [stuck EXCEPT ![s] = Counted(s)]
    BY DEF NoteStuck, Counted
  <1>4. CASE Counted(s) < FaultAfter \/ Stopped(s)
    <2>1. UNCHANGED <<rest, announced, repair>>
      BY <1>4 DEF NoteStuck, Counted, episode
    <2> QED BY <1>1, <1>3, <1>4, <2>1 DEF IInv, TypeOK
  <1>5. CASE ~ (Counted(s) < FaultAfter \/ Stopped(s))
    <2>1. /\ rest'      = [rest EXCEPT ![s] = Gap(Counted(s) - FaultAfter)]
          /\ announced' = [announced EXCEPT ![s] = @ \/ Counted(s) = FaultAfter]
          /\ repair'    = (repair \/ Counted(s) = FaultAfter)
      BY <1>5 DEF NoteStuck, Counted
    <2>2. Gap(Counted(s) - FaultAfter) \in 0..LongestGap
      BY <1>1, <1>2, <1>5
    <2> QED BY <1>1, <1>3, <1>5, <2>1, <2>2 DEF IInv, TypeOK
  <1> QED BY <1>4, <1>5

-----------------------------------------------------------------------------
(* What the actions keep. *)

\* Nothing has happened before the first session.
LEMMA InitIInv == Init => IInv
  <1> SUFFICES ASSUME Init PROVE IInv
    OBVIOUS
  <1> USE FaultAssumption DEF Init
  <1>1. 1 \in Session /\ 0 \in 0..CountMax /\ 0 \in 0..LongestGap /\ 0 \in 0..FaultAfter
    BY DEF Session
  <1>2. TypeOK
    BY <1>1 DEF TypeOK
  <1>3. RepairIsOwned /\ EpisodeIsTheFault /\ OneRuns
    BY DEF RepairIsOwned, EpisodeIsTheFault, OneRuns, Session
  <1> QED BY <1>2, <1>3 DEF IInv

\* A session that begins finds no repair, and has no count.
LEMMA StartKeeps ==
    ASSUME IInv, NEW s \in Session, Start(s)
    PROVE  IInv'
  <1> USE FaultAssumption DEF Start, counts, episode, IInv
  <1>1. TypeOK'
    BY DEF TypeOK
  <1>2. \A z \in Session : phase[z] # "running"
    BY DEF OneRuns, Session
  <1>3. ~ repair /\ \A z \in Session : ~ announced[z]
    BY <1>2 DEF RepairIsOwned, OneRuns
  <1>4. RepairIsOwned'
    BY <1>3 DEF RepairIsOwned
  <1>5. EpisodeIsTheFault'
    BY <1>3 DEF EpisodeIsTheFault, OneRuns, TypeOK
  <1>6. OneRuns'
    <2>1. phase' = [z \in Session |-> IF z = s THEN "running" ELSE phase[z]]
      BY DEF TypeOK
    <2>2. ASSUME NEW a \in Session, NEW z \in Session, z < a, phase'[a] # "new"
          PROVE  phase'[z] = "stopped"
      <3>1. CASE a = s
        BY <2>1, <2>2, <3>1 DEF Session
      <3>2. CASE a # s
        BY <2>1, <2>2, <3>2 DEF OneRuns
      <3> QED BY <3>1, <3>2
    <2>3. \A z \in Session : ~ announced'[z]
      BY <1>3
    <2>4. \A z \in Session : phase'[z] = "new" => phase[z] = "new"
      BY <2>1
    <2> QED BY <2>2, <2>3, <2>4 DEF OneRuns
  <1> QED BY <1>1, <1>4, <1>5, <1>6

\* A dial, a link that fails or is let go of and a tick change no count and no episode; a tick
\* runs down the backoff.
LEMMA DoorKeeps ==
    ASSUME IInv,
           \/ \E s \in Session : Dialled(s) \/ Tick(s)
           \/ \E c \in Client : CommandFails(c) \/ LetGo(c)
    PROVE  IInv'
  <1> USE FaultAssumption DEF counts, episode, IInv
  <1>1. CASE \E s \in Session : Dialled(s)
    <2> PICK s \in Session : Dialled(s)
      BY <1>1
    <2> QED BY DEF Dialled, TypeOK, RepairIsOwned, EpisodeIsTheFault, OneRuns
  <1>2. CASE \E s \in Session : Tick(s)
    <2> PICK s \in Session : Tick(s)
      BY <1>2
    <2>1. rest' \in [Session -> 0..LongestGap] /\ \A z \in Session : rest'[z] <= rest[z]
      BY DEF Tick, TypeOK
    <2>2. TypeOK'
      BY <2>1 DEF Tick, TypeOK
    <2>3. RepairIsOwned'
      BY DEF Tick, RepairIsOwned
    <2>4. EpisodeIsTheFault'
      BY <2>1 DEF Tick, EpisodeIsTheFault, TypeOK
    <2>5. OneRuns'
      BY DEF Tick, OneRuns, TypeOK
    <2> QED BY <2>2, <2>3, <2>4, <2>5
  <1>3. CASE \E c \in Client : CommandFails(c) \/ LetGo(c)
    <2> PICK c \in Client : CommandFails(c) \/ LetGo(c)
      BY <1>3
    <2> QED BY DEF CommandFails, LetGo, TypeOK, RepairIsOwned, EpisodeIsTheFault, OneRuns
  <1> QED BY <1>1, <1>2, <1>3

\* A hang-up that was answered, or owed no answer, leaves an episode as it is.
LEMMA AnsweredKeeps ==
    ASSUME IInv, NEW c \in Client, HungUp(c) \/ Refused(c) \/ Moot(c)
    PROVE  IInv'
  <1> USE FaultAssumption DEF counts, episode, IInv, Ends
  <1> of[c] \in Session
    BY DEF TypeOK
  <1>1. CASE HungUp(c)
    BY <1>1 DEF HungUp, TypeOK, RepairIsOwned, EpisodeIsTheFault, OneRuns
  <1>2. CASE Refused(c)
    BY <1>2 DEF Refused, TypeOK, RepairIsOwned, EpisodeIsTheFault, OneRuns
  <1>3. CASE Moot(c)
    BY <1>3 DEF Moot, TypeOK, RepairIsOwned, EpisodeIsTheFault, OneRuns
  <1> QED BY <1>1, <1>2, <1>3

\* One that was not makes an episode at the mark, in a session that still runs.
LEMMA UnansweredKeeps ==
    ASSUME IInv, NEW c \in Client, Unanswered(c)
    PROVE  IInv'
  <1> USE FaultAssumption DEF IInv
  <1> DEFINE s == of[c]
  <1>0. s \in Session /\ phase[s] # "new"
    BY DEF TypeOK, OneRuns, Unanswered, Ends
  <1>1. /\ Counted(s) \in 1..CountMax
        /\ stuck' = [stuck EXCEPT ![s] = Counted(s)]
        /\ rest' \in [Session -> 0..LongestGap]
        /\ announced' \in [Session -> BOOLEAN]
        /\ \A z \in Session : z # s => rest'[z] = rest[z] /\ announced'[z] = announced[z]
        /\ IF Counted(s) < FaultAfter \/ Stopped(s)
           THEN UNCHANGED <<rest, announced, repair>>
           ELSE /\ announced'[s] <=> announced[s] \/ Counted(s) = FaultAfter
                /\ repair' = (repair \/ Counted(s) = FaultAfter)
    BY <1>0, NoteStuckCounts DEF Unanswered
  <1>2. UNCHANGED <<phase, of>> /\ \A x \in Client : door'[x] = "closed" \/ door[x] # "closed"
    BY DEF Unanswered, Ends, TypeOK
  <1>3. Counted(s) >= stuck[s] /\ (Counted(s) >= FaultAfter <=>
                                      stuck[s] >= FaultAfter \/ Counted(s) = FaultAfter)
    BY <1>0 DEF Counted, TypeOK
  <1>4. TypeOK'
    <2>1. door' \in [Client -> {"closed", "held", "failed", "leaving", "kept"}]
      BY DEF Unanswered, Ends, TypeOK
    <2>2. silent' \in [Session -> 0..FaultAfter]
      BY <1>0 DEF Unanswered, TypeOK
    <2>3. stuck' \in [Session -> 0..CountMax] /\ repair' \in BOOLEAN
      BY <1>1 DEF TypeOK
    <2> QED BY <1>1, <1>2, <2>1, <2>2, <2>3 DEF TypeOK
  <1>5. phase[s] = "running" <=> ~ Stopped(s)
    BY <1>0 DEF Stopped, TypeOK
  <1>6. RepairIsOwned'
    BY <1>0, <1>1, <1>2, <1>5 DEF RepairIsOwned
  <1>7. EpisodeIsTheFault'
    <2> SUFFICES ASSUME NEW z \in Session
                 PROVE  /\ phase[z] = "running" => (announced'[z] <=> stuck'[z] >= FaultAfter)
                        /\ rest'[z] > 0 => stuck'[z] >= FaultAfter
      BY <1>2 DEF EpisodeIsTheFault
    <2>1. CASE z # s
      BY <1>1, <2>1 DEF EpisodeIsTheFault, TypeOK
    <2>2. CASE z = s
      <3>1. stuck'[z] = Counted(s)
        BY <1>0, <1>1, <2>2 DEF TypeOK
      <3> QED BY <1>1, <1>3, <1>5, <2>2, <3>1 DEF EpisodeIsTheFault, TypeOK
    <2> QED BY <2>1, <2>2
  <1>8. OneRuns'
    BY <1>0, <1>1, <1>2, <1>5 DEF OneRuns, TypeOK
  <1> QED BY <1>4, <1>6, <1>7, <1>8

\* The lamp's answer ends the episode of the session it is for, and no other's.
LEMMA NoteAnswerKeeps ==
    ASSUME IInv, NEW s \in Session, NoteAnswer(s)
    PROVE  IInv'
  <1> USE FaultAssumption DEF NoteAnswer, IInv
  <1>1. TypeOK'
    BY DEF TypeOK
  <1>2. announced[s] => \A z \in Session : announced[z] => z = s
    BY DEF OneRuns, Session
  <1>3. RepairIsOwned'
    <2>1. CASE announced[s]
      <3>1. ~ repair' /\ \A z \in Session : ~ announced'[z]
        BY <1>2, <2>1 DEF TypeOK
      <3> QED BY <3>1 DEF RepairIsOwned
    <2>2. CASE ~ announced[s]
      <3>1. /\ repair' <=> repair
            /\ UNCHANGED phase
            /\ \A z \in Session : announced'[z] <=> announced[z]
        BY <2>2 DEF TypeOK
      <3> QED BY <3>1 DEF RepairIsOwned
    <2> QED BY <2>1, <2>2
  <1>4. EpisodeIsTheFault'
    BY DEF EpisodeIsTheFault, TypeOK
  <1>5. OneRuns'
    BY DEF OneRuns, TypeOK
  <1> QED BY <1>1, <1>3, <1>4, <1>5

\* A stop leaves no repair behind.
LEMMA StopKeeps ==
    ASSUME IInv, NEW s \in Session, NEW p \in {"stopped", "down"}, Stop(s, p)
    PROVE  IInv'
  <1> USE FaultAssumption DEF Stop, counts, IInv
  <1>1. TypeOK'
    BY DEF TypeOK
  <1>2. \A z \in Session : phase[z] = "running" => z = s
    BY DEF OneRuns, Session
  <1>3. RepairIsOwned'
    BY <1>2 DEF RepairIsOwned, TypeOK
  <1>4. EpisodeIsTheFault'
    BY DEF EpisodeIsTheFault, TypeOK
  <1>5. OneRuns'
    <2>1. \A z \in Session : z > s => phase[z] = "new"
      BY DEF OneRuns, Session
    <2>2. phase' = [z \in Session |-> IF z = s THEN p ELSE phase[z]]
      BY DEF TypeOK
    <2>3. ASSUME NEW a \in Session, NEW z \in Session, z < a, phase'[a] # "new"
          PROVE  phase'[z] = "stopped"
      <3>1. CASE z = s
        BY <2>1, <2>2, <2>3, <3>1 DEF Session
      <3>2. CASE z # s
        BY <2>2, <2>3, <3>2 DEF OneRuns
      <3> QED BY <3>1, <3>2
    <2>4. \A z \in Session : announced'[z] => phase'[z] = "running"
      BY <2>2 DEF OneRuns, TypeOK
    <2>5. \A z \in Session : phase'[z] = "new" =>
              stuck'[z] = 0 /\ \A c \in Client : of'[c] = z => door'[c] = "closed"
      BY <2>2 DEF OneRuns, TypeOK
    <2> QED BY <2>3, <2>4, <2>5 DEF OneRuns
  <1> QED BY <1>1, <1>3, <1>4, <1>5

\* Every step keeps the invariant.
LEMMA NextIInv == IInv /\ [Next]_vars => IInv'
  <1> SUFFICES ASSUME IInv, [Next]_vars PROVE IInv'
    OBVIOUS
  <1>1. CASE UNCHANGED vars
    BY <1>1 DEF vars, counts, episode, IInv, TypeOK, RepairIsOwned, EpisodeIsTheFault, OneRuns
  <1>2. ASSUME NEW s \in Session, Start(s) PROVE IInv'
    BY <1>2, StartKeeps
  <1>3. ASSUME NEW s \in Session, BackgroundDials(s) \/ CommandDials(s) \/ Tick(s) PROVE IInv'
    BY <1>3, DoorKeeps DEF BackgroundDials, CommandDials
  <1>4. ASSUME NEW s \in Session, NoteAnswer(s) PROVE IInv'
    BY <1>4, NoteAnswerKeeps
  <1>5. ASSUME NEW s \in Session, NEW p \in {"stopped", "down"}, Stop(s, p) PROVE IInv'
    BY <1>5, StopKeeps
  <1>6. ASSUME NEW c \in Client, CommandFails(c) \/ LetGo(c) PROVE IInv'
    BY <1>6, DoorKeeps
  <1>7. ASSUME NEW c \in Client, HangUpEnds(c) PROVE IInv'
    BY <1>7, AnsweredKeeps, UnansweredKeeps DEF HangUpEnds
  <1> QED BY <1>1, <1>2, <1>3, <1>4, <1>5, <1>6, <1>7 DEF Next

-----------------------------------------------------------------------------
\* The invariant holds of every run.
THEOREM FaultInvariant == Spec => []IInv
  BY InitIInv, NextIInv, PTL DEF Spec

\* A repair stands only for a session that is there to take it down.
THEOREM RepairOwned == Spec => []RepairIsOwned
  BY FaultInvariant, PTL DEF IInv

\* An episode is the count at its mark, and the dials are held back only in one.
THEOREM EpisodeFaithful == Spec => []EpisodeIsTheFault
  BY FaultInvariant, PTL DEF IInv

\* Every variable keeps to its type.
THEOREM FaultTypeCorrect == Spec => []TypeOK
  BY FaultInvariant, PTL DEF IInv

\* An episode ends with the lamp's answer or with the session, and with nothing else.
THEOREM EndedByTheLamp == Spec => EndsWithTheLamp
  <1> DEFINE Ended == \A s \in Session :
                announced[s] /\ ~ announced'[s] =>
                    \/ phase[s] # phase'[s]
                    \/ /\ \E c \in Client : door[c] # "closed" /\ of[c] = s
                       /\ UNCHANGED door
                       /\ stuck'[s] = 0 /\ rest'[s] = 0
  <1>1. IInv /\ [Next]_vars => Ended
    <2> SUFFICES ASSUME IInv, [Next]_vars PROVE Ended
      OBVIOUS
    <2>1. CASE UNCHANGED announced
      BY <2>1
    <2>2. ASSUME NEW s \in Session, NoteAnswer(s) PROVE Ended
      BY <2>2 DEF NoteAnswer, IInv, TypeOK
    <2>3. ASSUME NEW s \in Session, NEW p \in {"stopped", "down"}, Stop(s, p) PROVE Ended
      BY <2>3 DEF Stop, IInv, TypeOK
    <2>4. ASSUME NEW c \in Client, Unanswered(c) PROVE Ended
      <3>1. of[c] \in Session
        BY DEF IInv, TypeOK
      <3>2. \A s \in Session : announced[s] => announced'[s]
        BY <2>4, <3>1, NoteStuckCounts DEF Unanswered
      <3> QED BY <3>2
    <2> QED
      BY <2>1, <2>2, <2>3, <2>4
         DEF Next, vars, episode, Start, BackgroundDials, CommandDials, Dialled, Tick,
             CommandFails, LetGo, HangUpEnds, HungUp, Refused, Moot
  <1> QED BY <1>1, FaultInvariant, PTL DEF Spec, EndsWithTheLamp
=============================================================================
