-------------------------------- MODULE CTFd --------------------------------
(***************************************************************************)
(* The CTF daemon (src/lib/ctfd.js): it plants a flag in every service of  *)
(* every team, checks later on that the flag is still there, and receives  *)
(* the flags that teams have stolen from each other.  All it remembers of  *)
(* a flag is a document of a MongoDB collection, which it reads and writes *)
(* with asynchronous calls, so every operation is split where the code     *)
(* waits: the request leaves, the database answers, the callback runs.     *)
(*                                                                         *)
(* A flag is 64 random digits (flagfactory.js); what identifies it here is *)
(* the team and the service it is planted at and the time of its round.    *)
(***************************************************************************)
EXTENDS Integers, Sequences, FiniteSets

CONSTANTS
  Teams,       \* names of the teams of the configuration
  Services,    \* names of the services of the configuration
  Conns,       \* TCP connections teams hold open to the daemon
  Reqs,        \* bound: FLAG requests the daemon handles at the same time
  NoTeam,      \* the `null' a connection starts with
  MaxExec,     \* max_time of the TimedExecuter
  MaxTime,     \* bound of the clock
  PlantTimes,  \* bound: when rounds may be planted
  CheckTimes,  \* bound: when the check timer may fire
  MaxCrashes,  \* bound of the number of crashes of the daemon
  PlantResults, \* bound: do plant commands succeed? (none: they hang)
  CheckResults, \* bound: do check commands succeed?
  DbMayFail,   \* may the database answer a call with an error?
  DbReorders   \* may it apply a write to a document before the document's save?

ASSUME ConstantsAssumption ==
  /\ MaxExec \in Nat
  /\ MaxTime \in Nat
  /\ PlantTimes \subseteq 0 .. MaxTime
  /\ CheckTimes \subseteq 0 .. MaxTime
  /\ MaxCrashes \in Nat
  /\ PlantResults \subseteq BOOLEAN
  /\ CheckResults \subseteq BOOLEAN
  /\ DbMayFail \in BOOLEAN
  /\ DbReorders \in BOOLEAN
  /\ NoTeam \notin Teams

Time == 0 .. MaxTime
Never == -1

Flag == [team : Teams, service : Services, time : PlantTimes]

Capture == [team : Teams, time : Time]
Check   == [time : Time, result : BOOLEAN]

\* A document of the collection `flags'.
Doc == [delivered : BOOLEAN, captures : Seq(Capture), checks : Seq(Check)]
NoDoc == [missing |-> TRUE]
NewDoc_NoChecks == [delivered |-> FALSE, captures |-> << >>] \* faulty: no `checks'
NewDoc == [delivered |-> FALSE, captures |-> << >>, checks |-> << >>]

Codes == {0, 3, 6, 7, 8, 9}

\* A FLAG request: waiting for findOne, its answer, waiting for the update,
\* its answer, replied to.
Request ==
  [phase : {"idle"}]
    \cup [phase : {"find", "missing", "update", "updated"}, flag : Flag, team : Teams]
    \cup [phase : {"found"}, flag : Flag, team : Teams, listed : BOOLEAN]
    \cup [phase : {"replied"}, code : Codes]

VARIABLES
  now,              \* the clock
  up,               \* is the daemon running?
  crashes,          \* how often it has crashed
  latestPlantTime,  \* this.latestPlantTime
  lastTick,         \* when checkFlags_ last passed its guard
  planting,         \* flags whose plant_flag command is running
  planted,          \* flags whose plant_flag command has exited with status 0
  scans,            \* finds of checkFlags_ the database has not answered
  checking,         \* check_flag commands that run, or wait for their 500 ms timer
  teamOf,           \* the variable `team' of every connection
  req,              \* the FLAG requests
  acked,            \* replies `0: Flag captured' that have been written
  flags,            \* the collection `flags'
  saves, outcomes, pushes, stores \* writes the database has not applied

clockVars  == <<now, crashes>>
memoryVars == <<up, latestPlantTime, lastTick>>
jobVars    == <<planting, planted, scans, checking>>
clientVars == <<teamOf, req, acked>>
dbVars     == <<flags, saves, outcomes, pushes, stores>>
vars == <<clockVars, memoryVars, jobVars, clientVars, dbVars>>

Exists(f) == flags[f] # NoDoc
Capturers(f) ==
  IF Exists(f) THEN {flags[f].captures[i].team : i \in DOMAIN flags[f].captures} ELSE {}

\* The flags one call of plantFlags_ at time t creates.
Round(t) == {f \in Flag : f.time = t}

TypeOK ==
  /\ now \in Time
  /\ up \in BOOLEAN
  /\ crashes \in 0 .. MaxCrashes
  /\ latestPlantTime \in Time \cup {Never}
  /\ up => latestPlantTime \in Time
  /\ lastTick \in Time \cup {Never}
  /\ planting \subseteq Flag
  /\ planted \subseteq Flag
  /\ scans \subseteq [round : Time, time : Time]
  /\ checking \subseteq [flag : Flag, time : Time]
  /\ teamOf \in [Conns -> Teams \cup {NoTeam}]
  /\ req \in [Reqs -> Request]
  /\ acked \subseteq [flag : Flag, team : Teams, time : Time]
  /\ flags \in [Flag -> Doc \cup {NoDoc}]
  /\ saves \subseteq Flag
  /\ outcomes \subseteq [flag : Flag, delivered : BOOLEAN]
  /\ pushes \subseteq [flag : Flag, check : Check]
  /\ stores \subseteq [flag : Flag, capture : Capture, req : Reqs]

Init ==
  /\ now = 0
  /\ up = FALSE
  /\ crashes = 0
  /\ latestPlantTime = Never
  /\ lastTick = Never
  /\ planting = {}
  /\ planted = {}
  /\ scans = {}
  /\ checking = {}
  /\ teamOf = [c \in Conns |-> NoTeam]
  /\ req = [r \in Reqs |-> [phase |-> "idle"]]
  /\ acked = {}
  /\ flags = [f \in Flag |-> NoDoc]
  /\ saves = {}
  /\ outcomes = {}
  /\ pushes = {}
  /\ stores = {}

-----------------------------------------------------------------------------
(***************************************************************************)
(* Planting.                                                               *)
(***************************************************************************)

\* plantFlags_: one flag for each service and team.  createFlag emits `flag',
\* and onFlag_ sends the save, before the command is started.
PlantFlags ==
  /\ now \in PlantTimes
  /\ latestPlantTime' = now
  /\ saves' = saves \cup Round(now)
  /\ planting' = planting \cup Round(now)

\* start: ensureIndex and count have been answered, onRestore_ listens for
\* connections and emits `ready', and the handler of `ready' plants at once.
Start ==
  /\ ~up
  /\ up' = TRUE
  /\ PlantFlags
  /\ UNCHANGED <<clockVars, lastTick, planted, scans, checking, clientVars,
                 flags, outcomes, pushes, stores>>

\* The interval timer of plantFlags_; intervals are longer than a clock tick.
PlantTimer ==
  /\ up
  /\ latestPlantTime < now
  /\ PlantFlags
  /\ UNCHANGED <<clockVars, up, lastTick, planted, scans, checking, clientVars,
                 flags, outcomes, pushes, stores>>

\* Faulty: delivered when the status is not 0.
PlantDone_Inverted(f, ok) ==
  /\ f \in planting
  /\ planting' = planting \ {f}
  /\ planted' = IF ok THEN planted \cup {f} ELSE planted
  /\ outcomes' = outcomes \cup {[flag |-> f, delivered |-> ~ok]}
  /\ UNCHANGED <<clockVars, memoryVars, scans, checking, clientVars,
                 flags, saves, pushes, stores>>

\* A plant_flag command ends, is killed after max_time or cannot be run; the
\* handler of `plant' sends { $set : { delivered : status === 0 } }.
PlantDone(f, ok) ==
  /\ f \in planting
  /\ planting' = planting \ {f}
  /\ planted' = IF ok THEN planted \cup {f} ELSE planted
  /\ outcomes' = outcomes \cup {[flag |-> f, delivered |-> ok]}
  /\ UNCHANGED <<clockVars, memoryVars, scans, checking, clientVars,
                 flags, saves, pushes, stores>>

-----------------------------------------------------------------------------
(***************************************************************************)
(* Checking.                                                               *)
(***************************************************************************)

\* The interval timer of checkFlags_ when the latest round is old enough:
\* find({ time : latestPlantTime, captures : { $size : 0 } }).
CheckTimer ==
  /\ up
  /\ now \in CheckTimes
  /\ lastTick < now
  /\ latestPlantTime < now - MaxExec
  /\ lastTick' = now
  /\ scans' = scans \cup {[round |-> latestPlantTime, time |-> now]}
  /\ UNCHANGED <<clockVars, up, latestPlantTime, planting, planted, checking,
                 clientVars, dbVars>>

\* Faulty: flags of every round; captured flags as well.
Uncaptured_AnyRound(t) == {f \in Flag : Exists(f) /\ flags[f].captures = << >>}
Uncaptured_Captured(t) == {f \in Round(t) : Exists(f)}

Uncaptured(t) == {f \in Round(t) : Exists(f) /\ flags[f].captures = << >>}

\* The database answers: every uncaptured flag of the round gets its check
\* commands, whose result is tagged with the time of the tick.
Scan(s) ==
  /\ s \in scans
  /\ scans' = scans \ {s}
  /\ checking' = checking \cup {[flag |-> f, time |-> s.time] : f \in Uncaptured(s.round)}
  /\ UNCHANGED <<clockVars, memoryVars, planting, planted, clientVars, dbVars>>

\* Faulty: a result that comes after the flag was captured is dropped.
CheckDone_Uncaptured(k, ok) ==
  /\ k \in checking
  /\ checking' = checking \ {k}
  /\ pushes' = IF Capturers(k.flag) = {}
               THEN pushes \cup {[flag |-> k.flag, check |-> [time |-> k.time, result |-> ok]]}
               ELSE pushes
  /\ UNCHANGED <<clockVars, memoryVars, planting, planted, scans, clientVars,
                 flags, saves, outcomes, stores>>

\* The combined status of the commands is known (CheckFlag models how) and the
\* 500 ms timer set by the handler of `check' has fired: $push to `checks'.
CheckDone(k, ok) ==
  /\ k \in checking
  /\ checking' = checking \ {k}
  /\ pushes' = pushes \cup {[flag |-> k.flag, check |-> [time |-> k.time, result |-> ok]]}
  /\ UNCHANGED <<clockVars, memoryVars, planting, planted, scans, clientVars,
                 flags, saves, outcomes, stores>>

-----------------------------------------------------------------------------
(***************************************************************************)
(* Receiving stolen flags.                                                 *)
(***************************************************************************)

\* A connection is closed and another one takes its place; requests already
\* sent on the old one go on for the team that one had named.
Reconnect(c) ==
  /\ up
  /\ teamOf[c] # NoTeam
  /\ teamOf' = [teamOf EXCEPT ![c] = NoTeam]
  /\ UNCHANGED <<clockVars, memoryVars, jobVars, req, acked, dbVars>>

\* TEAM with the name of a team.  An unknown name (reply 2) and a second TEAM
\* (reply 1) change nothing.
NameTeam(c, t) ==
  /\ up
  /\ teamOf[c] = NoTeam
  /\ teamOf' = [teamOf EXCEPT ![c] = t]
  /\ UNCHANGED <<clockVars, memoryVars, jobVars, req, acked, dbVars>>

Free(r) ==
  /\ req[r].phase \in {"idle", "replied"}
  /\ \A w \in stores : w.req # r

\* FLAG on a connection: reply 3 when no team has been named, else findOne.
\* Flags are too long to guess: f is one that has been created.
SubmitFlag(c, r, f) ==
  /\ up
  /\ Free(r)
  /\ f \in saves \/ Exists(f)
  /\ req' = [req EXCEPT ![r] =
       IF teamOf[c] = NoTeam THEN [phase |-> "replied", code |-> 3]
       ELSE [phase |-> "find", flag |-> f, team |-> teamOf[c]]]
  /\ UNCHANGED <<clockVars, memoryVars, jobVars, teamOf, acked, dbVars>>

\* The database answers findOne: all the callback reads of the document is
\* its team, its time and whether the thief is among its captures.
FindOne(r) ==
  /\ req[r].phase = "find"
  /\ LET f == req[r].flag
         t == req[r].team
     IN  req' = [req EXCEPT ![r] =
           IF Exists(f)
           THEN [phase |-> "found", flag |-> f, team |-> t, listed |-> t \in Capturers(f)]
           ELSE [phase |-> "missing", flag |-> f, team |-> t]]
  /\ UNCHANGED <<clockVars, memoryVars, jobVars, teamOf, acked, dbVars>>

\* Faulty: own flags, listed flags, flags of earlier rounds are accepted.
Refusal_Own(q) ==
  IF q.phase = "missing" THEN 6
  ELSE IF q.listed THEN 8
  ELSE IF q.flag.time # latestPlantTime THEN 7
  ELSE 0
Refusal_Listed(q) ==
  IF q.phase = "missing" THEN 6
  ELSE IF q.flag.team = q.team THEN 9
  ELSE IF q.flag.time # latestPlantTime THEN 7
  ELSE 0
Refusal_Inactive(q) ==
  IF q.phase = "missing" THEN 6
  ELSE IF q.flag.team = q.team THEN 9
  ELSE IF q.listed THEN 8
  ELSE 0

\* The reply the callback of findOne writes instead of recording a capture.
Refusal(q) ==
  IF q.phase = "missing" THEN 6
  ELSE IF q.flag.team = q.team THEN 9
  ELSE IF q.listed THEN 8
  ELSE IF q.flag.time # latestPlantTime THEN 7
  ELSE 0

\* The callback of findOne, on the document as it was when it was read.
Decide(r) ==
  /\ up
  /\ req[r].phase \in {"missing", "found"}
  /\ LET q == req[r]
     IN  IF Refusal(q) # 0
         THEN /\ req' = [req EXCEPT ![r] = [phase |-> "replied", code |-> Refusal(q)]]
              /\ UNCHANGED stores
         ELSE /\ req' = [req EXCEPT ![r] =
                   [phase |-> "update", flag |-> q.flag, team |-> q.team]]
              /\ stores' = stores \cup
                   {[flag |-> q.flag, capture |-> [team |-> q.team, time |-> now], req |-> r]}
  /\ UNCHANGED <<clockVars, memoryVars, jobVars, teamOf, acked,
                 flags, saves, outcomes, pushes>>

\* Faulty: the reply is written without waiting for the update.
Acknowledge_AtOnce(r) ==
  /\ req[r].phase \in {"update", "updated"}
  /\ req' = [req EXCEPT ![r] = [phase |-> "replied", code |-> 0]]
  /\ acked' = acked \cup {[flag |-> req[r].flag, team |-> req[r].team, time |-> now]}
  /\ UNCHANGED <<clockVars, memoryVars, jobVars, teamOf, dbVars>>

\* The callback of the update, which looks at no error: `0: Flag captured'.
Acknowledge(r) ==
  /\ req[r].phase = "updated"
  /\ req' = [req EXCEPT ![r] = [phase |-> "replied", code |-> 0]]
  /\ acked' = acked \cup {[flag |-> req[r].flag, team |-> req[r].team, time |-> now]}
  /\ UNCHANGED <<clockVars, memoryVars, jobVars, teamOf, dbVars>>

-----------------------------------------------------------------------------
(***************************************************************************)
(* The database: it applies a write, or answers it with an error.          *)
(***************************************************************************)

InOrder_Always(f) == TRUE  \* faulty: a write may overtake the save
InOrder(f) == DbReorders \/ f \notin saves

\* save replaces the whole document; an update of a document that does not
\* exist changes nothing.
ApplySave(f) ==
  /\ f \in saves
  /\ saves' = saves \ {f}
  /\ flags' = [flags EXCEPT ![f] = NewDoc]
  /\ UNCHANGED <<clockVars, memoryVars, jobVars, clientVars, outcomes, pushes, stores>>

ApplyOutcome(w) ==
  /\ w \in outcomes
  /\ InOrder(w.flag)
  /\ outcomes' = outcomes \ {w}
  /\ flags' = IF Exists(w.flag)
              THEN [flags EXCEPT ![w.flag].delivered = w.delivered] ELSE flags
  /\ UNCHANGED <<clockVars, memoryVars, jobVars, clientVars, saves, pushes, stores>>

ApplyPush(w) ==
  /\ w \in pushes
  /\ pushes' = pushes \ {w}
  /\ flags' = IF Exists(w.flag)
              THEN [flags EXCEPT ![w.flag].checks = Append(@, w.check)] ELSE flags
  /\ UNCHANGED <<clockVars, memoryVars, jobVars, clientVars, saves, outcomes, stores>>

\* The request that waits for the update of a capture has its answer.
Answered(w) ==
  req' = IF req[w.req].phase = "update"
         THEN [req EXCEPT ![w.req].phase = "updated"] ELSE req

ApplyStore(w) ==
  /\ w \in stores
  /\ stores' = stores \ {w}
  /\ flags' = IF Exists(w.flag)
              THEN [flags EXCEPT ![w.flag].captures = Append(@, w.capture)] ELSE flags
  /\ Answered(w)
  /\ UNCHANGED <<clockVars, memoryVars, jobVars, teamOf, acked, saves, outcomes, pushes>>

\* A call that fails: no handler of the code does more than log the error,
\* and findOne's takes it for a flag that does not exist.
DbError ==
  /\ DbMayFail
  /\ \/ /\ \E f \in saves : saves' = saves \ {f}
        /\ UNCHANGED <<outcomes, pushes, stores, req, scans>>
     \/ /\ \E w \in outcomes : outcomes' = outcomes \ {w}
        /\ UNCHANGED <<saves, pushes, stores, req, scans>>
     \/ /\ \E w \in pushes : pushes' = pushes \ {w}
        /\ UNCHANGED <<saves, outcomes, stores, req, scans>>
     \/ /\ \E w \in stores : stores' = stores \ {w} /\ Answered(w)
        /\ UNCHANGED <<saves, outcomes, pushes, scans>>
     \/ /\ \E r \in Reqs : /\ req[r].phase = "find"
                           /\ req' = [req EXCEPT ![r].phase = "missing"]
        /\ UNCHANGED <<saves, outcomes, pushes, stores, scans>>
     \/ /\ \E s \in scans : scans' = scans \ {s}
        /\ UNCHANGED <<saves, outcomes, pushes, stores, req>>
  /\ UNCHANGED <<clockVars, memoryVars, planting, planted, checking, teamOf, acked, flags>>

-----------------------------------------------------------------------------
(***************************************************************************)
(* Time and crashes.                                                       *)
(***************************************************************************)

Tick ==
  /\ now < MaxTime
  /\ now' = now + 1
  /\ UNCHANGED <<crashes, memoryVars, jobVars, clientVars, dbVars>>

\* The process dies with everything that is not in the database.  Commands it
\* had started may still do their work, writes it had sent may still arrive.
\* It takes longer than a clock tick to start it again.
Crash ==
  /\ up
  /\ crashes < MaxCrashes
  /\ now < MaxTime
  /\ crashes' = crashes + 1
  /\ now' = now + 1
  /\ up' = FALSE
  /\ latestPlantTime' = Never
  /\ planting' = {}
  /\ \E done \in SUBSET planting : planted' = planted \cup done
  /\ scans' = {}
  /\ checking' = {}
  /\ teamOf' = [c \in Conns |-> NoTeam]
  /\ req' = [r \in Reqs |-> [phase |-> "idle"]]
  /\ UNCHANGED <<lastTick, acked, dbVars>>

\* A write the daemon had not got out of its buffers when it died.
LoseWrite ==
  /\ ~up
  /\ \/ /\ \E f \in saves : saves' = saves \ {f}
        /\ UNCHANGED <<outcomes, pushes, stores>>
     \/ /\ \E w \in outcomes : outcomes' = outcomes \ {w}
        /\ UNCHANGED <<saves, pushes, stores>>
     \/ /\ \E w \in pushes : pushes' = pushes \ {w}
        /\ UNCHANGED <<saves, outcomes, stores>>
     \/ /\ \E w \in stores : stores' = stores \ {w}
        /\ UNCHANGED <<saves, outcomes, pushes>>
  /\ UNCHANGED <<clockVars, memoryVars, jobVars, clientVars, flags>>

-----------------------------------------------------------------------------
DaemonStep ==
  \/ Start
  \/ PlantTimer
  \/ CheckTimer
  \/ \E f \in planting, ok \in PlantResults : PlantDone(f, ok)
  \/ \E k \in checking, ok \in CheckResults : CheckDone(k, ok)
  \/ \E r \in Reqs : Decide(r) \/ Acknowledge(r)

ClientStep ==
  \/ \E c \in Conns : Reconnect(c)
  \/ \E c \in Conns, t \in Teams : NameTeam(c, t)
  \/ \E c \in Conns, r \in Reqs, f \in Flag : SubmitFlag(c, r, f)

DbStep ==
  \/ \E s \in scans : Scan(s)
  \/ \E r \in Reqs : FindOne(r)
  \/ \E f \in saves : ApplySave(f)
  \/ \E w \in outcomes : ApplyOutcome(w)
  \/ \E w \in pushes : ApplyPush(w)
  \/ \E w \in stores : ApplyStore(w)
  \/ DbError

Next == DaemonStep \/ ClientStep \/ DbStep \/ Tick \/ Crash \/ LoseWrite

Spec == Init /\ [][Next]_vars

\* Commands end (TimedExecuter kills them), the database answers, callbacks run
\* and the process dispatches them in turn.  Nothing makes a team send anything,
\* and the timers need no fairness: a round may be the last.
Fairness ==
  /\ \A f \in Flag :
       /\ WF_vars(\E ok \in PlantResults : PlantDone(f, ok))
       /\ WF_vars(ApplySave(f))
       /\ WF_vars(\E w \in outcomes : w.flag = f /\ ApplyOutcome(w))
       /\ \A t \in CheckTimes :
            /\ WF_vars(\E ok \in CheckResults : CheckDone([flag |-> f, time |-> t], ok))
            /\ WF_vars(\E w \in pushes : w.flag = f /\ w.check.time = t /\ ApplyPush(w))
  /\ \A r \in Reqs :
       /\ WF_vars(FindOne(r))
       /\ WF_vars(Decide(r))
       /\ WF_vars(\E w \in stores : w.req = r /\ ApplyStore(w))
       /\ WF_vars(Acknowledge(r))

LiveSpec == Spec /\ Fairness
-----------------------------------------------------------------------------
(***************************************************************************)
(* Properties.                                                             *)
(***************************************************************************)

Known(f) == Exists(f) \/ f \in saves

\* No flag that is known was planted between the times s and t.
SameRound(s, t) == \A g \in Flag : Known(g) => ~(s < g.time /\ g.time < t)

\* The two inductive invariants behind the properties: CTFdProofs proves them.
\* Dates: everything known is of the past, and every capture and check, done or
\* under way, is dated within the round of its flag.
InRound(s, t) == t <= now /\ SameRound(s, t)
Dates ==
  /\ up => latestPlantTime <= now
  /\ \A f \in Flag : Known(f) =>
       IF up THEN f.time <= latestPlantTime ELSE f.time < now
  /\ \A w \in stores : InRound(w.flag.time, w.capture.time)
  /\ \A f \in Flag : Exists(f) =>
       \A i \in DOMAIN flags[f].captures : InRound(f.time, flags[f].captures[i].time)
  /\ \A s \in scans : s.round + MaxExec < s.time /\ InRound(s.round, s.time)
  /\ \A k \in checking : k.flag.time + MaxExec < k.time /\ InRound(k.flag.time, k.time)
  /\ \A w \in pushes :
       w.flag.time + MaxExec < w.check.time /\ InRound(w.flag.time, w.check.time)
  /\ \A f \in Flag : Exists(f) =>
       \A i \in DOMAIN flags[f].checks :
         f.time + MaxExec < flags[f].checks[i].time /\ InRound(f.time, flags[f].checks[i].time)

\* Books: no save can wipe a document, every update under way belongs to at most
\* one request and names its flag and team, and what has been answered is stored.
FreshSaves == \A f \in saves : ~Exists(f)
UpdatesOwned ==
  \A w \in stores :
    /\ Exists(w.flag)
    /\ req[w.req].phase \in {"idle", "update"}
    /\ req[w.req].phase = "update" =>
         req[w.req].flag = w.flag /\ req[w.req].team = w.capture.team
    /\ \A v \in stores : v.req = w.req => v = w
AnswersHold ==
  \A r \in Reqs :
    /\ req[r].phase = "found" => Exists(req[r].flag)
    /\ req[r].phase = "updated" => req[r].team \in Capturers(req[r].flag)
NoCheckAfter(f, t) ==
  /\ \A k \in checking : k.flag = f => k.time <= t
  /\ \A w \in pushes : w.flag = f => w.check.time <= t
  /\ \A i \in DOMAIN flags[f].checks : flags[f].checks[i].time <= t
AckedHold ==
  \A a \in acked : a.team \in Capturers(a.flag) /\ NoCheckAfter(a.flag, a.time)
Books == FreshSaves /\ UpdatesOwned /\ AnswersHold /\ AckedHold
IndBooks == ~DbMayFail => Books

\* A capture is dated within the round of its flag, also when the next round
\* is planted between findOne and the update, or the daemon was restarted:
\* the `flag.time !== latestPlantTime' test and the `new Date()' of the update
\* belong to one callback.
CapturesInRound ==
  \A f \in Flag : Exists(f) =>
    \A i \in DOMAIN flags[f].captures : SameRound(f.time, flags[f].captures[i].time)

\* A check result is dated within the round of its flag and more than max_time
\* after it began, however late the commands end and the result is pushed.
ChecksInRound ==
  \A f \in Flag : Exists(f) =>
    \A i \in DOMAIN flags[f].checks :
      /\ f.time + MaxExec < flags[f].checks[i].time
      /\ SameRound(f.time, flags[f].checks[i].time)

\* `0: Flag captured' is never written for a capture the database does not
\* hold, unless the database answered the update with an error.
AckedIsRecorded ==
  ~DbMayFail => \A a \in acked : a.team \in Capturers(a.flag)

\* Once a thief has been told that it captured a flag, no check that starts
\* later counts for the owner of that flag any more.
NoCheckAfterLoss ==
  ~DbMayFail =>
    \A a \in acked : Exists(a.flag) =>
      \A i \in DOMAIN flags[a.flag].checks : flags[a.flag].checks[i].time <= a.time

\* A team is listed at most once among the captures of a flag.
CapturedOnce ==
  \A f \in Flag : Exists(f) =>
    \A i, j \in DOMAIN flags[f].captures :
      flags[f].captures[i].team = flags[f].captures[j].team => i = j

\* The result of a plant command that succeeded is in the database or on its
\* way there.
NothingLost ==
  \A f \in planted :
    \/ [flag |-> f, delivered |-> TRUE] \in outcomes
    \/ Exists(f) /\ flags[f].delivered

\* The collection implements FlagLedger.
Ledger == INSTANCE FlagLedger WITH
  Flags <- Flag,
  Owner <- [f \in Flag |-> f.team],
  Times <- CheckTimes,
  registered <- {f \in Flag : Exists(f)},
  delivered <- {f \in Flag : Exists(f) /\ flags[f].delivered},
  captors <- [f \in Flag |-> Capturers(f)],
  results <- [f \in Flag |-> IF Exists(f)
                THEN {flags[f].checks[i] : i \in DOMAIN flags[f].checks} ELSE {}]

\* Whatever the database does with the daemon's writes, and however often the
\* daemon dies: documents stay, captures, deliveries and check results are
\* never taken back, no owner captures and a check tick has one result.
LedgerKept == Ledger!Spec

\* In the end, and for good, a flag that was created has its document, and that
\* document says `delivered' exactly when the plant command succeeded.
DeliverySettles ==
  \A f \in Flag :
    f \in saves ~> [](Exists(f) /\ (flags[f].delivered <=> f \in planted))

\* Every check that was started ends up as a result in the flag's document.
CheckResultArrives ==
  \A f \in Flag, t \in CheckTimes :
    [flag |-> f, time |-> t] \in checking
      ~> Exists(f) /\ \E i \in DOMAIN flags[f].checks : flags[f].checks[i].time = t
=============================================================================
