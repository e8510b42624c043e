------------------------------ MODULE Schedule ------------------------------
(***************************************************************************)
(* The two interval timers of the daemon (src/lib/ctfd.js, handler of      *)
(* `ready') and the age test at the head of checkFlags_, with the plant    *)
(* commands of a round and the time limit of the TimedExecuter.  CTFd lets *)
(* timers fire and commands end at any time; this module is about when.    *)
(* Clocks are kept as ages and countdowns, so that the daemon runs for     *)
(* ever in finitely many states.                                           *)
(***************************************************************************)
EXTENDS Integers

CONSTANTS
  PlantInterval,  \* this.plantIntervalTime
  CheckInterval,  \* this.checkIntervalTime
  MaxExec,        \* this.timedExecuter.max_time
  Lag,            \* bound: how late a timer of the event loop fires
  Cmds,           \* the plant commands of a round, one per service and team
  SpawnTime,      \* bound: how long plantFlags_ takes to start them all
  Pause,          \* from the end of a check to the $push of its result
  PushLag         \* bound: how late that is, database and timers together

ASSUME IntervalsAssumption ==
  /\ PlantInterval \in Nat \ {0}
  /\ CheckInterval \in Nat \ {0}
  /\ MaxExec \in Nat
  /\ Lag \in Nat
  /\ SpawnTime \in 0 .. Lag
  /\ Pause \in Nat
  /\ PushLag \in Nat

VARIABLES
  age,      \* time since latestPlantTime
  plantIn,  \* countdown of plantInterval
  checkIn,  \* countdown of checkInterval
  left,     \* commands plantFlags_ has yet to start, while it runs
  cmd,      \* what is left of the time limit of every plant command, or Ended
  checked,  \* has checkFlags_ looked at the flags of this round?
  pushIn    \* what is left until the last check of the round is pushed, or Pushed

vars == <<age, plantIn, checkIn, left, cmd, checked, pushIn>>

Ended == -1 - Lag
Overdue == -Lag
Pushed == -1 - PushLag

TypeOK ==
  /\ age \in 0 .. PlantInterval + Lag
  /\ plantIn \in Overdue .. PlantInterval
  /\ checkIn \in Overdue .. CheckInterval
  /\ left \subseteq Cmds
  /\ cmd \in [Cmds -> Ended .. MaxExec]
  /\ checked \in BOOLEAN
  /\ pushIn \in Pushed .. MaxExec + Pause

\* The handler of `ready' sets both timers and calls plantFlags_.
Init ==
  /\ age = 0
  /\ plantIn = PlantInterval
  /\ checkIn = CheckInterval
  /\ left = Cmds
  /\ cmd = [c \in Cmds |-> Ended]
  /\ checked = FALSE
  /\ pushIn = Pushed

\* plantFlags_ takes the time of the round once and then starts a command for
\* every service and team; the commands of the round before have their own
\* limits, and its checks are pushed to other flags (neither is followed further).
PlantFlags ==
  /\ left = {}
  /\ plantIn <= 0
  /\ age' = 0
  /\ plantIn' = PlantInterval
  /\ left' = Cmds
  /\ cmd' = [c \in Cmds |-> Ended]
  /\ checked' = FALSE
  /\ pushIn' = Pushed
  /\ UNCHANGED checkIn

\* Faulty: the limit is counted from the time of the next tick.
Spawn_Longer(c) ==
  /\ c \in left
  /\ left' = left \ {c}
  /\ cmd' = [cmd EXCEPT ![c] = MaxExec + 1]
  /\ UNCHANGED <<age, plantIn, checkIn, checked, pushIn>>

\* execute: child_process.exec with { timeout : max_time }.
Spawn(c) ==
  /\ c \in left
  /\ left' = left \ {c}
  /\ cmd' = [cmd EXCEPT ![c] = MaxExec]
  /\ UNCHANGED <<age, plantIn, checkIn, checked, pushIn>>

\* The command ends by itself or is killed, and its callback runs.
CommandEnds(c) ==
  /\ left = {}
  /\ cmd[c] # Ended
  /\ cmd' = [cmd EXCEPT ![c] = Ended]
  /\ UNCHANGED <<age, plantIn, checkIn, left, checked, pushIn>>

\* Faulty: compared with the wrong interval.
OldEnough_Late == age > PlantInterval - CheckInterval

\* +this.latestPlantTime < (+time) - this.timedExecuter.max_time
OldEnough == age > MaxExec

\* Faulty: the modified flags are tried when the command with the flag has ended.
CheckTime_InTurn == 2 * MaxExec + Pause

\* The commands of a check all start at once, and end within their limit; then the
\* handler of `check' waits (500 ms in the code) and pushes the result.
CheckTime == MaxExec + Pause

CheckFlags ==
  /\ left = {}
  /\ checkIn <= 0
  /\ checkIn' = CheckInterval
  /\ checked' = (checked \/ OldEnough)
  /\ pushIn' = IF OldEnough THEN CheckTime ELSE pushIn
  /\ UNCHANGED <<age, plantIn, left, cmd>>

CheckPushed ==
  /\ left = {}
  /\ pushIn # Pushed
  /\ pushIn <= MaxExec
  /\ pushIn' = Pushed
  /\ UNCHANGED <<age, plantIn, checkIn, left, cmd, checked>>

\* Time passes; nothing is later than Lag, starting the commands included.
Tick ==
  /\ plantIn > Overdue
  /\ checkIn > Overdue
  /\ \A c \in Cmds : cmd[c] # Overdue
  /\ pushIn # -PushLag
  /\ left # {} => age < SpawnTime
  /\ age' = age + 1
  /\ plantIn' = plantIn - 1
  /\ checkIn' = checkIn - 1
  /\ cmd' = [c \in Cmds |-> IF cmd[c] = Ended THEN Ended ELSE cmd[c] - 1]
  /\ pushIn' = IF pushIn = Pushed THEN Pushed ELSE pushIn - 1
  /\ UNCHANGED <<left, checked>>

Next ==
  \/ PlantFlags
  \/ \E c \in Cmds : Spawn(c) \/ CommandEnds(c)
  \/ CheckFlags
  \/ CheckPushed
  \/ Tick

Spec == Init /\ [][Next]_vars

-----------------------------------------------------------------------------
(***************************************************************************)
(* Properties.                                                             *)
(***************************************************************************)

\* A round leaves room for a check when the next one is further away than the
\* age test, the check interval and the lateness of the timer together.
RoomForCheck == PlantInterval > MaxExec + CheckInterval + Lag

\* The flags of every round are looked at before the next round replaces them.
EveryRoundChecked == [][PlantFlags => checked]_vars

\* A command that is given up after max_time cannot outlive the time it takes to
\* start the commands, its limit and the lateness of its timer: a check later
\* than that finds every plant command of the round decided.
LateCheckFindsSettled ==
  [][CheckFlags /\ age > MaxExec + SpawnTime + Lag => \A c \in Cmds : cmd[c] = Ended]_vars

\* A check interval longer than a check and the way of its result to the database.
RoomToPush == CheckInterval > MaxExec + Pause + PushLag

\* The results of the checks of a flag are pushed in the order of the checks (the
\* status page shows the last one pushed): none is under way when the next begins.
ChecksInOrder == [][CheckFlags /\ OldEnough => pushIn = Pushed]_vars

\* The inductive invariant of the three: a round that has not been looked at was too
\* young at the last tick of the check timer, and what a command has left of its
\* time is what the round has left, give or take the time to start it, and a check
\* has left of its time what the check interval has left of its own.
ScheduleInv ==
  /\ age + plantIn = PlantInterval
  /\ checked \/ age <= MaxExec + (CheckInterval - checkIn)
  /\ left # {} => age <= SpawnTime
  /\ \A c \in Cmds : cmd[c] # Ended => cmd[c] + age <= MaxExec + SpawnTime
  /\ pushIn # Pushed => pushIn + (CheckInterval - checkIn) <= MaxExec + Pause
=============================================================================
