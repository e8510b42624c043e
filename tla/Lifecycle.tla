------------------------------ MODULE Lifecycle ------------------------------
(***************************************************************************)
(* How a daemon is made, started and stopped (src/lib/ctfd.js), from the   *)
(* configuration or at the prompt of src/bin/ctfd.js.  start() adds its    *)
(* listeners every time it is called, so that a second call multiplies     *)
(* what the events `restored' and `ready' do.                              *)
(***************************************************************************)
EXTENDS Naturals

CONSTANTS
  MaxStarts, \* bound: calls of start()
  Teams      \* the teams that may be added

VARIABLES
  conf,      \* the configuration: [web, start]
  alive,     \* does the process run?
  listeners, \* how often start() has added its listeners
  restoring, \* counts of the flags in the database that are under way
  pairs,     \* pairs of interval timers that run
  stored,    \* is the last pair, the one the daemon knows, among them?
  teams,     \* this.teams
  vizTeams,  \* the teams that the first datavizwebpage was given
  planted,   \* the teams that flags were planted for
  late       \* was a team added after start()?

vars == <<conf, alive, listeners, restoring, pairs, stored, teams, vizTeams, planted, late>>

\* createDaemon
Init ==
  /\ conf \in [web : BOOLEAN, start : BOOLEAN]
  /\ teams \in SUBSET Teams
  /\ alive = TRUE /\ pairs = 0 /\ stored = FALSE
  /\ listeners = (IF conf.start THEN 1 ELSE 0)
  /\ restoring = listeners
  /\ vizTeams = (IF conf.start /\ conf.web THEN teams ELSE {})
  /\ planted = {} /\ late = FALSE

AddTeam(t) ==
  /\ alive
  /\ teams' = teams \cup {t}
  /\ late' = (late \/ (t \notin teams /\ listeners > 0))
  /\ UNCHANGED <<conf, alive, listeners, restoring, pairs, stored, vizTeams, planted>>

\* start(), at the prompt.  The pages of the first call stay first among the
\* routes; a second server for them finds its port taken, which ends the process
\* unless the prompt catches the exception.
Start ==
  /\ alive
  /\ listeners < MaxStarts
  /\ listeners' = listeners + 1
  /\ restoring' = restoring + 1
  /\ vizTeams' = IF conf.web /\ listeners = 0 THEN teams ELSE vizTeams
  /\ alive' \in IF conf.web /\ listeners > 0 THEN BOOLEAN ELSE {TRUE}
  /\ UNCHANGED <<conf, pairs, stored, teams, planted, late>>

\* `restored': onRestore_ runs once for every call of start(), makes a receiver each
\* time (the port of which may be taken, as above) and emits `ready', which sets two
\* timers and plants, for every call again.
Restored ==
  /\ alive
  /\ restoring > 0
  /\ restoring' = restoring - 1
  /\ pairs' = pairs + listeners * listeners
  /\ stored' = TRUE
  /\ planted' = planted \cup teams
  /\ alive' \in IF listeners > 1 THEN BOOLEAN ELSE {TRUE}
  /\ UNCHANGED <<conf, listeners, teams, vizTeams, late>>

\* One of the timers fires.
PlantFlags ==
  /\ alive
  /\ pairs > 0
  /\ planted' = planted \cup teams
  /\ UNCHANGED <<conf, alive, listeners, restoring, pairs, stored, teams, vizTeams, late>>

\* Faulty: only one of the two timers is cleared.
StopFlags_Half ==
  /\ alive
  /\ stored' = FALSE
  /\ UNCHANGED <<conf, alive, listeners, restoring, pairs, teams, vizTeams, planted, late>>

\* stopFlags(): only the last pair is known, and none before `ready'.
StopFlags ==
  /\ alive
  /\ stored' = FALSE
  /\ pairs' = IF stored THEN pairs - 1 ELSE pairs
  /\ UNCHANGED <<conf, alive, listeners, restoring, teams, vizTeams, planted, late>>

Next ==
  \/ \E t \in Teams : AddTeam(t)
  \/ Start
  \/ Restored
  \/ PlantFlags
  \/ StopFlags

Spec == Init /\ [][Next]_vars

-----------------------------------------------------------------------------
\* A daemon that was started once runs no timer but those stopFlags() can stop, and
\* the visualisation knows every team that flags are planted for, unless one was
\* added after start().  (Nothing keeps start() from being called again: then a
\* daemon that survives runs timers that nothing stops.)
DaemonInHand ==
  /\ listeners <= 1 => pairs = (IF stored THEN 1 ELSE 0)
  /\ conf.web /\ ~late => planted \subseteq vizTeams

TypeOK ==
  /\ conf \in [web : BOOLEAN, start : BOOLEAN]
  /\ alive \in BOOLEAN /\ stored \in BOOLEAN /\ late \in BOOLEAN
  /\ listeners \in Nat /\ restoring \in Nat /\ pairs \in Nat
  /\ teams \subseteq Teams /\ vizTeams \subseteq Teams /\ planted \subseteq Teams

\* Why: the one call of start() counts the flags once, and until then nothing runs.
LifecycleInv ==
  /\ listeners = 0 => restoring = 0 /\ pairs = 0 /\ ~stored /\ ~late /\ planted = {}
  /\ listeners = 1 => /\ restoring \in {0, 1}
                      /\ restoring = 1 => pairs = 0 /\ ~stored
                      /\ pairs = (IF stored THEN 1 ELSE 0)
  /\ stored => pairs > 0
  /\ planted \subseteq teams
  /\ conf.web /\ ~late /\ listeners > 0 => teams \subseteq vizTeams
=============================================================================
