--------------------------- MODULE ScheduleProofs ---------------------------
(* Proofs about Schedule, for all intervals and all plant commands. *)
EXTENDS Schedule, TLAPS

Inv == TypeOK /\ ScheduleInv

\* A command that has ended, or a result that is pushed, is past the latest moment
\* at which it can run.
LEMMA Limits ==
  /\ Overdue \in Int /\ Overdue <= 0 /\ Overdue = 0 - Lag
  /\ Ended \in Int /\ Ended = Overdue - 1 /\ Ended < MaxExec
  /\ Pushed \in Int /\ Pushed < 0
  /\ Pushed \in Pushed .. MaxExec + Pause /\ MaxExec + Pause \in Pushed .. MaxExec + Pause
BY IntervalsAssumption DEF Overdue, Ended, Pushed

LEMMA InvInit == Init => Inv
<1> SUFFICES ASSUME Init PROVE Inv
  OBVIOUS
<1> USE IntervalsAssumption, Limits DEF Init
<1>1. cmd \in [Cmds -> Ended .. MaxExec] OBVIOUS
<1>2. age \in 0 .. PlantInterval + Lag OBVIOUS
<1>3. plantIn \in Overdue .. PlantInterval /\ checkIn \in Overdue .. CheckInterval
  OBVIOUS
<1>4. pushIn \in Pushed .. MaxExec + Pause
  OBVIOUS
<1>5. TypeOK
  BY <1>1, <1>2, <1>3, <1>4 DEF TypeOK
<1>6. \A c \in Cmds : cmd[c] = Ended
  OBVIOUS
<1>7. ScheduleInv
  BY <1>6 DEF ScheduleInv
<1> QED BY <1>5, <1>7 DEF Inv

LEMMA InvStep == Inv /\ [Next]_vars => Inv'
<1> SUFFICES ASSUME Inv, [Next]_vars PROVE Inv'
  OBVIOUS
<1> USE IntervalsAssumption, Limits DEF Inv, TypeOK, ScheduleInv
<1>1. CASE PlantFlags
  <2>1. cmd' \in [Cmds -> Ended .. MaxExec] /\ \A c \in Cmds : cmd'[c] = Ended
    BY <1>1 DEF PlantFlags
  <2>2. /\ age' = 0 /\ plantIn' = PlantInterval /\ checkIn' = checkIn /\ left' = Cmds
        /\ checked' = FALSE /\ pushIn' = Pushed
    BY <1>1 DEF PlantFlags
  <2>3. /\ age' \in 0 .. PlantInterval + Lag
        /\ plantIn' \in Overdue .. PlantInterval
        /\ checkIn' \in Overdue .. CheckInterval
    BY <2>2
  <2>4. left' \subseteq Cmds /\ checked' \in BOOLEAN /\ pushIn' \in Pushed .. MaxExec + Pause
    BY <2>2
  <2>5. TypeOK'
    BY <2>1, <2>3, <2>4
  <2>6. /\ age' + plantIn' = PlantInterval
        /\ age' <= MaxExec + (CheckInterval - checkIn')
        /\ age' <= SpawnTime
    BY <2>2
  <2>7. ScheduleInv'
    BY <2>1, <2>2, <2>6
  <2> QED BY <2>5, <2>7
<1>2. ASSUME NEW c \in Cmds, Spawn(c) PROVE Inv'
  <2>1. TypeOK'
    BY <1>2 DEF Spawn
  <2>2. \A d \in Cmds : cmd'[d] = IF d = c THEN MaxExec ELSE cmd[d]
    BY <1>2 DEF Spawn
  <2>3. age <= SpawnTime
    BY <1>2 DEF Spawn
  <2>4. /\ age' = age /\ plantIn' = plantIn /\ checkIn' = checkIn /\ checked' = checked
        /\ pushIn' = pushIn
    BY <1>2 DEF Spawn
  <2>5. \A d \in Cmds : cmd'[d] # Ended => cmd'[d] + age' <= MaxExec + SpawnTime
    BY <2>2, <2>3, <2>4
  <2>6. ScheduleInv'
    BY <2>3, <2>4, <2>5
  <2> QED BY <2>1, <2>6
<1>3. ASSUME NEW c \in Cmds, CommandEnds(c) PROVE Inv'
  BY <1>3 DEF CommandEnds
<1>4. CASE CheckFlags
  <2>1. /\ age' = age /\ plantIn' = plantIn /\ left' = left /\ cmd' = cmd
        /\ checkIn' = CheckInterval
        /\ left = {}
    BY <1>4 DEF CheckFlags
  <2>2. checked' = (checked \/ age > MaxExec)
    BY <1>4 DEF CheckFlags, OldEnough
  <2>3. checked' \in BOOLEAN /\ pushIn' \in Pushed .. MaxExec + Pause
    BY <1>4, <2>2 DEF CheckFlags, CheckTime
  <2>4. TypeOK'
    BY <2>1, <2>3
  <2>5. checked' \/ age' <= MaxExec + (CheckInterval - checkIn')
    <3>1. CASE age > MaxExec
      BY <2>2, <3>1, Zenon
    <3>2. CASE ~(age > MaxExec)
      BY <2>1, <3>2
    <3> QED BY <3>1, <3>2
  <2>6. pushIn' # Pushed => pushIn' + (CheckInterval - checkIn') <= MaxExec + Pause
    <3>1. CASE OldEnough
      BY <1>4, <2>1, <3>1 DEF CheckFlags, CheckTime
    <3>2. CASE ~OldEnough
      BY <1>4, <2>1, <3>2 DEF CheckFlags
    <3> QED BY <3>1, <3>2
  <2>7. ScheduleInv'
    BY <2>1, <2>5, <2>6
  <2> QED BY <2>4, <2>7
<1>5. CASE CheckPushed
  BY <1>5 DEF CheckPushed
<1>6. CASE Tick
  <2>1. /\ age' = age + 1 /\ plantIn' = plantIn - 1 /\ checkIn' = checkIn - 1
        /\ plantIn > Overdue /\ checkIn > Overdue
        /\ left' = left /\ checked' = checked
        /\ left # {} => age < SpawnTime
    BY <1>6 DEF Tick
  <2>2. ASSUME NEW c \in Cmds
        PROVE  /\ cmd'[c] = IF cmd[c] = Ended THEN Ended ELSE cmd[c] - 1
               /\ cmd'[c] \in Ended .. MaxExec
    BY <1>6 DEF Tick
  <2>3. cmd' \in [Cmds -> Ended .. MaxExec]
    BY <1>6, <2>2 DEF Tick
  <2>4. /\ pushIn' = IF pushIn = Pushed THEN Pushed ELSE pushIn - 1
        /\ pushIn' \in Pushed .. MaxExec + Pause
    BY <1>6 DEF Tick
  <2>5. TypeOK'
    BY <2>1, <2>3, <2>4
  <2>6. \A c \in Cmds : cmd'[c] # Ended => cmd'[c] + age' <= MaxExec + SpawnTime
    BY <2>1, <2>2
  <2>7. pushIn' # Pushed => pushIn' + (CheckInterval - checkIn') <= MaxExec + Pause
    BY <2>1, <2>4
  <2>8. age' + plantIn' = PlantInterval /\ (left' # {} => age' <= SpawnTime)
    BY <2>1
  <2>9. checked' \/ age' <= MaxExec + (CheckInterval - checkIn')
    BY <2>1
  <2>10. ScheduleInv'
    BY <2>6, <2>7, <2>8, <2>9
  <2> QED BY <2>5, <2>10
<1>7. CASE UNCHANGED vars
  BY <1>7 DEF vars
<1> QED BY <1>1, <1>2, <1>3, <1>4, <1>5, <1>6, <1>7 DEF Next

THEOREM ScheduleTypeCorrect == Spec => []TypeOK
<1>1. Inv => TypeOK BY DEF Inv
<1> QED BY InvInit, InvStep, <1>1, PTL DEF Spec

\* Whatever the intervals are, if they leave room for a check then no round is
\* replaced before its flags were looked at.
THEOREM RoundsAreChecked ==
  ASSUME RoomForCheck
  PROVE  Spec => EveryRoundChecked
<1>1. Inv => (PlantFlags => checked)
  BY IntervalsAssumption, RoomForCheck
     DEF Inv, TypeOK, ScheduleInv, PlantFlags, RoomForCheck, Overdue
<1>2. Inv /\ [Next]_vars => [PlantFlags => checked]_vars
  BY <1>1
<1> QED BY InvInit, InvStep, <1>2, PTL DEF Spec, EveryRoundChecked

\* Whatever the intervals are, if a check and the way of its result fit into the
\* check interval then no result is overtaken by that of a later check.
THEOREM ChecksStayInOrder ==
  ASSUME RoomToPush
  PROVE  Spec => ChecksInOrder
<1> DEFINE Due == CheckFlags /\ OldEnough
<1>1. Inv => (Due => pushIn = Pushed)
  BY IntervalsAssumption, Limits, RoomToPush
     DEF Inv, TypeOK, ScheduleInv, CheckFlags, RoomToPush, Pushed
<1>2. Inv /\ [Next]_vars => [Due => pushIn = Pushed]_vars
  BY <1>1
<1> QED BY InvInit, InvStep, <1>2, PTL DEF Spec, ChecksInOrder

\* A check late enough finds every plant command of the round decided.
THEOREM LateChecksFindSettled == Spec => LateCheckFindsSettled
<1> DEFINE Settled == \A c \in Cmds : cmd[c] = Ended
           Late == CheckFlags /\ age > MaxExec + SpawnTime + Lag
<1>1. Inv => (Late => Settled)
  BY IntervalsAssumption DEF Inv, TypeOK, ScheduleInv, Ended
<1>2. Inv /\ [Next]_vars => [Late => Settled]_vars
  BY <1>1
<1> QED BY InvInit, InvStep, <1>2, PTL DEF Spec, LateCheckFindsSettled
=============================================================================
