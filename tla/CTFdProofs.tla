---------------------------- MODULE CTFdProofs ----------------------------
(***************************************************************************)
(* Proofs about CTFd, for every set of teams, services, connections and    *)
(* requests, every bound, and whatever the database does.                  *)
(***************************************************************************)
EXTENDS CTFd, SequenceTheorems, TLAPS

\* Facts about the records, so that the steps below need not open them.
LEMMA TypeFacts ==
  /\ NewDoc \in Doc
  /\ NoDoc \notin Doc
  /\ \A d \in Doc, b \in BOOLEAN : [d EXCEPT !.delivered = b] \in Doc
  /\ \A d \in Doc, c \in Capture : [d EXCEPT !.captures = Append(@, c)] \in Doc
  /\ \A d \in Doc, k \in Check : [d EXCEPT !.checks = Append(@, k)] \in Doc
<1>1. NewDoc \in Doc BY DEF NewDoc, Doc
<1>2. NoDoc \notin Doc BY DEF NoDoc, Doc
<1>3. ASSUME NEW d \in Doc, NEW b \in BOOLEAN
      PROVE  [d EXCEPT !.delivered = b] \in Doc
  BY DEF Doc
<1>4. ASSUME NEW d \in Doc, NEW c \in Capture
      PROVE  [d EXCEPT !.captures = Append(@, c)] \in Doc
  <2>1. Append(d.captures, c) \in Seq(Capture) BY AppendProperties DEF Doc
  <2> QED BY <2>1 DEF Doc
<1>5. ASSUME NEW d \in Doc, NEW k \in Check
      PROVE  [d EXCEPT !.checks = Append(@, k)] \in Doc
  <2>1. Append(d.checks, k) \in Seq(Check) BY AppendProperties DEF Doc
  <2> QED BY <2>1 DEF Doc
<1> QED BY <1>1, <1>2, <1>3, <1>4, <1>5

LEMMA RequestFacts ==
  /\ [phase |-> "idle"] \in Request
  /\ \A c \in Codes : [phase |-> "replied", code |-> c] \in Request
  /\ \A f \in Flag, t \in Teams, p \in {"find", "missing", "update", "updated"} :
       [phase |-> p, flag |-> f, team |-> t] \in Request
  /\ \A f \in Flag, t \in Teams, b \in BOOLEAN :
       [phase |-> "found", flag |-> f, team |-> t, listed |-> b] \in Request
  /\ \A q \in Request :
       /\ q.phase \in {"find", "missing", "found", "update", "updated"}
            => q.flag \in Flag /\ q.team \in Teams
       /\ q.phase = "find" => [q EXCEPT !.phase = "missing"] \in Request
       /\ q.phase = "update" => [q EXCEPT !.phase = "updated"] \in Request
BY DEF Request, Codes
-----------------------------------------------------------------------------
(***************************************************************************)
(* Type correctness, one step per action.                                  *)
(***************************************************************************)

LEMMA TypeInit == Init => TypeOK
<1> SUFFICES ASSUME Init PROVE TypeOK
  OBVIOUS
<1> USE ConstantsAssumption DEF Init
<1>1. req \in [Reqs -> Request] BY RequestFacts
<1>2. flags \in [Flag -> Doc \cup {NoDoc}] OBVIOUS
<1>3. now \in Time /\ crashes \in 0 .. MaxCrashes BY DEF Time
<1> QED BY <1>1, <1>2, <1>3 DEF TypeOK

LEMMA AnsweredType ==
  ASSUME TypeOK, NEW w \in stores, Answered(w)
  PROVE  req' \in [Reqs -> Request]
<1>1. w.req \in Reqs BY DEF TypeOK
<1>2. CASE req[w.req].phase = "update"
  <2>1. [req[w.req] EXCEPT !.phase = "updated"] \in Request
    BY <1>1, <1>2, RequestFacts DEF TypeOK
  <2>2. req' = [req EXCEPT ![w.req].phase = "updated"]
    BY <1>2 DEF Answered
  <2> QED BY <1>1, <2>1, <2>2 DEF TypeOK
<1>3. CASE req[w.req].phase # "update"
  BY <1>3 DEF Answered, TypeOK
<1> QED BY <1>2, <1>3

LEMMA TypeStep == TypeOK /\ [Next]_vars => TypeOK'
<1> SUFFICES ASSUME TypeOK, [Next]_vars PROVE TypeOK'
  OBVIOUS
<1> USE ConstantsAssumption DEF TypeOK, vars, clockVars, memoryVars, jobVars, clientVars, dbVars
<1>1. CASE Start
  BY <1>1 DEF Start, PlantFlags, Round
<1>2. CASE PlantTimer
  BY <1>2 DEF PlantTimer, PlantFlags, Round
<1>3. CASE CheckTimer
  BY <1>3 DEF CheckTimer
<1>4. ASSUME NEW f \in planting, NEW ok \in PlantResults, PlantDone(f, ok) PROVE TypeOK'
  BY <1>4 DEF PlantDone
<1>5. ASSUME NEW k \in checking, NEW ok \in CheckResults, CheckDone(k, ok) PROVE TypeOK'
  BY <1>5 DEF CheckDone, Check
<1>6. ASSUME NEW r \in Reqs, Decide(r) PROVE TypeOK'
  <2> DEFINE q == req[r]
  <2>1. q \in Request /\ q.flag \in Flag /\ q.team \in Teams
    BY <1>6, RequestFacts DEF Decide
  <2>2. Refusal(q) \in Codes
    BY DEF Refusal, Codes
  <2>3. CASE Refusal(q) # 0
    <3>1. /\ req' = [req EXCEPT ![r] = [phase |-> "replied", code |-> Refusal(q)]]
          /\ UNCHANGED stores
      BY <1>6, <2>3 DEF Decide
    <3>2. req' \in [Reqs -> Request]
      BY <2>2, <3>1, RequestFacts
    <3> QED BY <1>6, <3>1, <3>2 DEF Decide
  <2>4. CASE Refusal(q) = 0
    <3>1. /\ req' = [req EXCEPT ![r] = [phase |-> "update", flag |-> q.flag, team |-> q.team]]
          /\ stores' = stores \cup
               {[flag |-> q.flag, capture |-> [team |-> q.team, time |-> now], req |-> r]}
      BY <1>6, <2>4 DEF Decide
    <3>2. req' \in [Reqs -> Request]
      BY <2>1, <3>1, RequestFacts
    <3>3. [team |-> q.team, time |-> now] \in Capture
      BY <2>1 DEF Capture
    <3> QED BY <1>6, <2>1, <3>1, <3>2, <3>3 DEF Decide
  <2> QED BY <2>3, <2>4
<1>7. ASSUME NEW r \in Reqs, Acknowledge(r) PROVE TypeOK'
  <2>1. req[r].flag \in Flag /\ req[r].team \in Teams
    BY <1>7, RequestFacts DEF Acknowledge
  <2>2. req' \in [Reqs -> Request]
    BY <1>7, RequestFacts DEF Acknowledge, Codes
  <2> QED BY <1>7, <2>1, <2>2 DEF Acknowledge
<1>8. ASSUME NEW c \in Conns, Reconnect(c) PROVE TypeOK'
  BY <1>8 DEF Reconnect
<1>9. ASSUME NEW c \in Conns, NEW t \in Teams, NameTeam(c, t) PROVE TypeOK'
  BY <1>9 DEF NameTeam
<1>10. ASSUME NEW c \in Conns, NEW r \in Reqs, NEW f \in Flag, SubmitFlag(c, r, f)
       PROVE TypeOK'
  BY <1>10, RequestFacts DEF SubmitFlag, Codes
<1>11. ASSUME NEW s \in scans, Scan(s) PROVE TypeOK'
  BY <1>11 DEF Scan, Uncaptured, Round
<1>12. ASSUME NEW r \in Reqs, FindOne(r) PROVE TypeOK'
  <2>1. req[r].flag \in Flag /\ req[r].team \in Teams
    BY <1>12, RequestFacts DEF FindOne
  <2>2. req' \in [Reqs -> Request]
    <3> DEFINE f == req[r].flag
               t == req[r].team
               found == [phase |-> "found", flag |-> f, team |-> t, listed |-> t \in Capturers(f)]
               missing == [phase |-> "missing", flag |-> f, team |-> t]
    <3>1. (t \in Capturers(f)) \in BOOLEAN
      OBVIOUS
    <3>2. found \in Request /\ missing \in Request
      BY <2>1, <3>1, RequestFacts
    <3>3. req' = [req EXCEPT ![r] = IF Exists(f) THEN found ELSE missing]
      BY <1>12 DEF FindOne
    <3> QED BY <3>2, <3>3
  <2> QED BY <1>12, <2>2 DEF FindOne
<1>13. ASSUME NEW f \in saves, ApplySave(f) PROVE TypeOK'
  BY <1>13, TypeFacts DEF ApplySave
<1>14. ASSUME NEW w \in outcomes, ApplyOutcome(w) PROVE TypeOK'
  BY <1>14, TypeFacts DEF ApplyOutcome, Exists
<1>15. ASSUME NEW w \in pushes, ApplyPush(w) PROVE TypeOK'
  BY <1>15, TypeFacts DEF ApplyPush, Exists
<1>16. ASSUME NEW w \in stores, ApplyStore(w) PROVE TypeOK'
  <2>1. req' \in [Reqs -> Request]
    BY <1>16, AnsweredType DEF ApplyStore
  <2> QED BY <1>16, <2>1, TypeFacts DEF ApplyStore, Exists
<1>17. CASE DbError
  <2>1. req' \in [Reqs -> Request]
    <3>1. \/ UNCHANGED req
          \/ \E r \in Reqs : /\ req[r].phase = "find"
                             /\ req' = [req EXCEPT ![r].phase = "missing"]
          \/ \E w \in stores : Answered(w)
      BY <1>17 DEF DbError
    <3>2. ASSUME NEW r \in Reqs, req[r].phase = "find",
                 req' = [req EXCEPT ![r].phase = "missing"]
          PROVE  req' \in [Reqs -> Request]
      <4>1. [req[r] EXCEPT !.phase = "missing"] \in Request
        BY <3>2, RequestFacts
      <4> QED BY <3>2, <4>1
    <3>3. ASSUME NEW w \in stores, Answered(w) PROVE req' \in [Reqs -> Request]
      BY <3>3, AnsweredType
    <3> QED BY <3>1, <3>2, <3>3
  <2>2. /\ scans' \subseteq scans /\ saves' \subseteq saves /\ outcomes' \subseteq outcomes
        /\ pushes' \subseteq pushes /\ stores' \subseteq stores
    BY <1>17 DEF DbError
  <2> QED BY <1>17, <2>1, <2>2 DEF DbError
<1>18. CASE Tick
  BY <1>18 DEF Tick, Time
<1>19. CASE Crash
  <2>1. req' \in [Reqs -> Request]
    BY <1>19, RequestFacts DEF Crash
  <2>2. planted' \subseteq Flag
    BY <1>19 DEF Crash
  <2>3. now' \in Time /\ crashes' \in 0 .. MaxCrashes
    BY <1>19 DEF Crash, Time
  <2> QED BY <1>19, <2>1, <2>2, <2>3 DEF Crash
<1>20. CASE LoseWrite
  BY <1>20 DEF LoseWrite
<1>21. CASE UNCHANGED vars
  BY <1>21
<1> QED BY <1>1, <1>2, <1>3, <1>4, <1>5, <1>6, <1>7, <1>8, <1>9, <1>10, <1>11, <1>12,
           <1>13, <1>14, <1>15, <1>16, <1>17, <1>18, <1>19, <1>20, <1>21
        DEF Next, DaemonStep, ClientStep, DbStep

\* Every variable keeps its type: the documents stay documents, requests requests.
THEOREM TypeCorrect == Spec => []TypeOK
<1>1. TypeOK /\ [Next]_vars => TypeOK' BY TypeStep
<1> QED BY TypeInit, <1>1, PTL DEF Spec
-----------------------------------------------------------------------------
(***************************************************************************)
(* Dates.  A new round begins after everything dated so far, and only the  *)
(* latest round gets new captures and check ticks.                         *)
(***************************************************************************)

LEMMA DatesInit == Init => Dates
BY DEF Init, Dates, Known, Exists, InRound

\* Everything the invariant compares is an integer.
LEMMA TimesAreIntegers ==
  ASSUME TypeOK
  PROVE  /\ now \in Int /\ latestPlantTime \in Int
         /\ \A f \in Flag : f.time \in Int
         /\ \A w \in stores : w.flag \in Flag /\ w.capture.time \in Int
         /\ \A s \in scans : s.round \in Int /\ s.time \in Int
         /\ \A k \in checking : k.flag \in Flag /\ k.time \in Int
         /\ \A w \in pushes : w.flag \in Flag /\ w.check.time \in Int
         /\ \A f \in Flag : Exists(f) =>
              /\ \A i \in DOMAIN flags[f].captures : flags[f].captures[i].time \in Int
              /\ \A i \in DOMAIN flags[f].checks : flags[f].checks[i].time \in Int
<1> USE ConstantsAssumption DEF Time
<1>1. now \in Int /\ latestPlantTime \in Int BY DEF TypeOK, Never
<1>2. \A f \in Flag : f.time \in Int
  <2>1. \A t \in PlantTimes : t \in Int OBVIOUS
  <2> QED BY <2>1 DEF Flag
<1>3. \A w \in stores : w.flag \in Flag /\ w.capture.time \in Int BY DEF TypeOK, Capture
<1>4. \A s \in scans : s.round \in Int /\ s.time \in Int BY DEF TypeOK
<1>5. \A k \in checking : k.flag \in Flag /\ k.time \in Int BY DEF TypeOK
<1>6. \A w \in pushes : w.flag \in Flag /\ w.check.time \in Int BY DEF TypeOK, Check
<1>7. ASSUME NEW f \in Flag, Exists(f)
      PROVE  /\ \A i \in DOMAIN flags[f].captures : flags[f].captures[i].time \in Int
             /\ \A i \in DOMAIN flags[f].checks : flags[f].checks[i].time \in Int
  <2>1. flags[f] \in Doc BY <1>7 DEF TypeOK, Exists
  <2>2. /\ flags[f].captures \in Seq(Capture)
        /\ flags[f].checks \in Seq(Check)
    BY <2>1 DEF Doc
  <2>3. ASSUME NEW i \in DOMAIN flags[f].captures PROVE flags[f].captures[i] \in Capture
    BY <2>2
  <2>4. ASSUME NEW i \in DOMAIN flags[f].checks PROVE flags[f].checks[i] \in Check
    BY <2>2
  <2> QED BY <2>3, <2>4 DEF Capture, Check
<1> QED BY <1>1, <1>2, <1>3, <1>4, <1>5, <1>6, <1>7

\* What was dated stays dated when all that becomes known is of the present.
LEMMA StaysInRound ==
  ASSUME TypeOK, now' \in Int, now <= now',
         \A f \in Flag : Known(f)' => Known(f) \/ f.time = now,
         NEW s \in Int, NEW t \in Int, InRound(s, t)
  PROVE  InRound(s, t)'
BY TimesAreIntegers DEF InRound, SameRound

LEMMA DatesPlant ==
  ASSUME TypeOK, Dates, PlantFlags, up',
         UNCHANGED <<now, scans, checking, flags, outcomes, pushes, stores>>
  PROVE  Dates'
<1> USE TimesAreIntegers
<1>1. \A f \in Flag : Known(f)' => Known(f) \/ f.time = now
  BY DEF PlantFlags, Known, Exists, Round
<1>2. now' \in Int /\ now <= now' /\ \A f \in Flag : Exists(f)' <=> Exists(f)
  BY DEF Exists
<1>3. \A s, t \in Int : InRound(s, t) => InRound(s, t)'
  BY <1>1, <1>2, StaysInRound
<1>4. \A f \in Flag : Known(f) => f.time <= now
  BY DEF Dates
<1>5. /\ latestPlantTime' = now
      /\ \A f \in Flag : Known(f)' => f.time <= latestPlantTime'
  BY <1>1, <1>4 DEF PlantFlags
<1> QED BY <1>2, <1>3, <1>5 DEF Dates

\* What an element of a sequence with one more element is.
LEMMA AppendedElements ==
  ASSUME NEW S, NEW s \in Seq(S), NEW e \in S, NEW i \in DOMAIN Append(s, e)
  PROVE  Append(s, e)[i] = e \/ (i \in DOMAIN s /\ Append(s, e)[i] = s[i])
BY AppendProperties

\* What an update of a document leaves as it was.
LEMMA OutcomeUpdates ==
  ASSUME TypeOK, NEW w \in outcomes, ApplyOutcome(w), NEW g \in Flag
  PROVE  /\ Exists(g)' <=> Exists(g)
         /\ Exists(g) => /\ flags'[g].captures = flags[g].captures
                         /\ flags'[g].checks = flags[g].checks
<1>1. CASE Exists(w.flag)
  <2>1. flags' = [flags EXCEPT ![w.flag] = [@ EXCEPT !.delivered = w.delivered]]
    BY <1>1 DEF ApplyOutcome
  <2>2. flags[w.flag] \in Doc /\ w.flag \in Flag /\ w.delivered \in BOOLEAN
    BY <1>1 DEF TypeOK, Exists
  <2>3. [flags[w.flag] EXCEPT !.delivered = w.delivered] \in Doc
    BY <2>2, TypeFacts
  <2> QED BY <1>1, <2>1, <2>2, <2>3, TypeFacts DEF TypeOK, Exists, Doc
<1>2. CASE ~Exists(w.flag)
  BY <1>2 DEF ApplyOutcome, Exists
<1> QED BY <1>1, <1>2

LEMMA PushUpdates ==
  ASSUME TypeOK, NEW w \in pushes, ApplyPush(w), NEW g \in Flag
  PROVE  /\ Exists(g)' <=> Exists(g)
         /\ Exists(g) =>
              /\ flags[g].checks \in Seq(Check) /\ w.check \in Check
              /\ flags'[g].captures = flags[g].captures
              /\ flags'[g].checks = IF g = w.flag THEN Append(flags[g].checks, w.check)
                                    ELSE flags[g].checks
<1>1. CASE Exists(w.flag)
  <2> DEFINE d == flags[w.flag]
  <2>1. flags' = [flags EXCEPT ![w.flag] = [d EXCEPT !.checks = Append(d.checks, w.check)]]
    BY <1>1 DEF ApplyPush
  <2>2. flags[w.flag] \in Doc /\ w.flag \in Flag /\ w.check \in Check
    BY <1>1 DEF TypeOK, Exists
  <2>3. [d EXCEPT !.checks = Append(d.checks, w.check)] \in Doc
    BY <2>2, TypeFacts
  <2>4. CASE g = w.flag
    <3>1. flags'[g] = [d EXCEPT !.checks = Append(d.checks, w.check)]
      BY <2>1, <2>4 DEF TypeOK
    <3>2. Exists(g) /\ Exists(g)'
      BY <1>1, <2>3, <2>4, <3>1, TypeFacts DEF Exists
    <3> QED BY <2>2, <2>4, <3>1, <3>2 DEF Doc
  <2>5. CASE g # w.flag
    <3>1. flags'[g] = flags[g]
      BY <2>1, <2>5 DEF TypeOK
    <3> QED BY <2>2, <2>5, <3>1 DEF TypeOK, Exists, Doc
  <2> QED BY <2>4, <2>5
<1>2. CASE ~Exists(w.flag)
  BY <1>2 DEF ApplyPush, Exists, TypeOK, Doc
<1> QED BY <1>1, <1>2

LEMMA StoreUpdates ==
  ASSUME TypeOK, NEW w \in stores, ApplyStore(w), NEW g \in Flag
  PROVE  /\ Exists(g)' <=> Exists(g)
         /\ Exists(g) =>
              /\ flags[g].captures \in Seq(Capture) /\ w.capture \in Capture
              /\ flags'[g].checks = flags[g].checks
              /\ flags'[g].captures = IF g = w.flag THEN Append(flags[g].captures, w.capture)
                                      ELSE flags[g].captures
<1>1. CASE Exists(w.flag)
  <2> DEFINE d == flags[w.flag]
  <2>1. flags' = [flags EXCEPT ![w.flag] = [d EXCEPT !.captures = Append(d.captures, w.capture)]]
    BY <1>1 DEF ApplyStore
  <2>2. flags[w.flag] \in Doc /\ w.flag \in Flag /\ w.capture \in Capture
    BY <1>1 DEF TypeOK, Exists
  <2>3. [d EXCEPT !.captures = Append(d.captures, w.capture)] \in Doc
    BY <2>2, TypeFacts
  <2>4. CASE g = w.flag
    <3>1. flags'[g] = [d EXCEPT !.captures = Append(d.captures, w.capture)]
      BY <2>1, <2>4 DEF TypeOK
    <3>2. Exists(g) /\ Exists(g)'
      BY <1>1, <2>3, <2>4, <3>1, TypeFacts DEF Exists
    <3> QED BY <2>2, <2>4, <3>1, <3>2 DEF Doc
  <2>5. CASE g # w.flag
    <3>1. flags'[g] = flags[g]
      BY <2>1, <2>5 DEF TypeOK
    <3> QED BY <2>2, <2>5, <3>1 DEF TypeOK, Exists, Doc
  <2> QED BY <2>4, <2>5
<1>2. CASE ~Exists(w.flag)
  BY <1>2 DEF ApplyStore, Exists, TypeOK, Doc
<1> QED BY <1>1, <1>2

\* The bounds of a check tick, as the scan, the command and the push carry them.
Timely(s, t) == s + MaxExec < t /\ InRound(s, t)

\* A step within a tick of the clock after which nothing new is known.
LEMMA DatesKept ==
  ASSUME TypeOK, Dates, UNCHANGED <<now, up, latestPlantTime>>,
         \A f \in Flag : Known(f)' => Known(f),
         \A w \in stores' : w \in stores \/ InRound(w.flag.time, w.capture.time),
         \A s \in scans' : s \in scans \/ Timely(s.round, s.time),
         \A k \in checking' : k \in checking \/ Timely(k.flag.time, k.time),
         \A w \in pushes' : w \in pushes \/ Timely(w.flag.time, w.check.time),
         \A f \in Flag : Exists(f)' =>
           \A i \in DOMAIN flags'[f].captures : InRound(f.time, flags'[f].captures[i].time),
         \A f \in Flag : Exists(f)' =>
           \A i \in DOMAIN flags'[f].checks : Timely(f.time, flags'[f].checks[i].time)
  PROVE  Dates'
<1>1. \A s, t : InRound(s, t) => InRound(s, t)'
  BY DEF InRound, SameRound
<1>2. \A f \in Flag : Known(f)' =>
        IF up' THEN f.time <= latestPlantTime' ELSE f.time < now'
  BY DEF Dates
<1>3. \A w \in stores' : InRound(w.flag.time, w.capture.time)'
  BY <1>1 DEF Dates
<1>4. \A s \in scans' : s.round + MaxExec < s.time /\ InRound(s.round, s.time)'
  BY <1>1 DEF Dates, Timely
<1>5. \A k \in checking' : k.flag.time + MaxExec < k.time /\ InRound(k.flag.time, k.time)'
  BY <1>1 DEF Dates, Timely
<1>6. \A w \in pushes' :
        w.flag.time + MaxExec < w.check.time /\ InRound(w.flag.time, w.check.time)'
  BY <1>1 DEF Dates, Timely
<1>7. (up => latestPlantTime <= now)'
  BY DEF Dates
<1>8. \A f \in Flag : Exists(f)' =>
        \A i \in DOMAIN flags'[f].captures : InRound(f.time, flags[f].captures[i].time)'
  BY <1>1
<1>9. \A f \in Flag : Exists(f)' =>
        \A i \in DOMAIN flags'[f].checks :
          f.time + MaxExec < flags'[f].checks[i].time /\ InRound(f.time, flags[f].checks[i].time)'
  BY <1>1 DEF Timely
<1> QED BY <1>2, <1>3, <1>4, <1>5, <1>6, <1>7, <1>8, <1>9 DEF Dates

LEMMA DatesKeptInMemory ==
  ASSUME TypeOK, Dates, UNCHANGED <<now, up, latestPlantTime, flags>>, saves' \subseteq saves,
         \A w \in stores' : w \in stores \/ InRound(w.flag.time, w.capture.time),
         \A s \in scans' : s \in scans \/ Timely(s.round, s.time),
         \A k \in checking' : k \in checking \/ Timely(k.flag.time, k.time),
         \A w \in pushes' : w \in pushes \/ Timely(w.flag.time, w.check.time)
  PROVE  Dates'
<1>1. \A f \in Flag : Known(f)' => Known(f)
  BY DEF Known, Exists
<1>2. \A f \in Flag : Exists(f)' =>
        \A i \in DOMAIN flags'[f].captures : InRound(f.time, flags'[f].captures[i].time)
  BY DEF Dates, Exists
<1>3. \A f \in Flag : Exists(f)' =>
        \A i \in DOMAIN flags'[f].checks : Timely(f.time, flags'[f].checks[i].time)
  BY DEF Dates, Exists, Timely
<1> QED BY <1>1, <1>2, <1>3, DatesKept

LEMMA DatesStep == TypeOK /\ Dates /\ [Next]_vars => Dates'
<1> SUFFICES ASSUME TypeOK, Dates, [Next]_vars PROVE Dates'
  OBVIOUS
<1> USE TimesAreIntegers DEF vars, clockVars, memoryVars, jobVars, clientVars, dbVars
<1>1. CASE Start
  BY <1>1, DatesPlant DEF Start
<1>2. CASE PlantTimer
  BY <1>2, DatesPlant DEF PlantTimer
<1>3. CASE CheckTimer
  <2>1. Timely(latestPlantTime, now)
    BY <1>3, ConstantsAssumption DEF CheckTimer, Timely, InRound, SameRound, Dates
  <2> QED BY <1>3, <2>1, DatesKeptInMemory DEF CheckTimer
<1>4. ASSUME NEW f \in planting, NEW ok \in PlantResults, PlantDone(f, ok) PROVE Dates'
  BY <1>4, DatesKeptInMemory DEF PlantDone
<1>5. ASSUME NEW k \in checking, NEW ok \in CheckResults, CheckDone(k, ok) PROVE Dates'
  <2>1. Timely(k.flag.time, k.time)
    BY DEF Dates, Timely
  <2> QED BY <1>5, <2>1, DatesKeptInMemory DEF CheckDone
<1>6. ASSUME NEW r \in Reqs, Decide(r) PROVE Dates'
  <2>1. CASE UNCHANGED stores
    BY <1>6, <2>1, DatesKeptInMemory DEF Decide
  <2>2. CASE stores' # stores
    <3> DEFINE w == [flag |-> req[r].flag, capture |-> [team |-> req[r].team, time |-> now],
                     req |-> r]
    <3>1. Refusal(req[r]) = 0 /\ stores' = stores \cup {w}
      BY <1>6, <2>2 DEF Decide
    <3>2. req[r].flag \in Flag
      BY <1>6, RequestFacts DEF Decide, TypeOK
    <3>3. req[r].phase = "found" /\ req[r].flag.time = latestPlantTime
      BY <1>6, <3>1 DEF Decide, Refusal
    <3>4. up
      BY <1>6 DEF Decide
    <3>5. InRound(w.flag.time, w.capture.time)
      BY <3>2, <3>3, <3>4 DEF InRound, SameRound, Dates
    <3> QED BY <1>6, <3>1, <3>5, DatesKeptInMemory DEF Decide
  <2> QED BY <2>1, <2>2
<1>7. ASSUME NEW r \in Reqs, Acknowledge(r) PROVE Dates'
  BY <1>7, DatesKeptInMemory DEF Acknowledge
<1>8. ASSUME NEW c \in Conns, Reconnect(c) PROVE Dates'
  BY <1>8, DatesKeptInMemory DEF Reconnect
<1>9. ASSUME NEW c \in Conns, NEW t \in Teams, NameTeam(c, t) PROVE Dates'
  BY <1>9, DatesKeptInMemory DEF NameTeam
<1>10. ASSUME NEW c \in Conns, NEW r \in Reqs, NEW f \in Flag, SubmitFlag(c, r, f)
       PROVE Dates'
  BY <1>10, DatesKeptInMemory DEF SubmitFlag
<1>11. ASSUME NEW s \in scans, Scan(s) PROVE Dates'
  <2>1. Timely(s.round, s.time)
    BY DEF Dates, Timely
  <2>2. \A k \in checking' : k \in checking \/ (k.flag.time = s.round /\ k.time = s.time)
    BY <1>11 DEF Scan, Uncaptured, Round
  <2> QED BY <1>11, <2>1, <2>2, DatesKeptInMemory DEF Scan
<1>12. ASSUME NEW r \in Reqs, FindOne(r) PROVE Dates'
  BY <1>12, DatesKeptInMemory DEF FindOne
<1>13. ASSUME NEW f \in saves, ApplySave(f) PROVE Dates'
  <2>1. \A g \in Flag : flags'[g] = IF g = f THEN NewDoc ELSE flags[g]
    BY <1>13 DEF ApplySave, TypeOK
  <2>2. \A g \in Flag : Known(g)' => Known(g)
    BY <1>13, <2>1 DEF ApplySave, Known, Exists
  <2>3. \A g \in Flag : Exists(g)' =>
          \A i \in DOMAIN flags'[g].captures : InRound(g.time, flags'[g].captures[i].time)
    BY <2>1 DEF NewDoc, Dates, Exists
  <2>4. \A g \in Flag : Exists(g)' =>
          \A i \in DOMAIN flags'[g].checks : Timely(g.time, flags'[g].checks[i].time)
    BY <2>1 DEF NewDoc, Dates, Exists, Timely
  <2> QED BY <1>13, <2>2, <2>3, <2>4, DatesKept DEF ApplySave
<1>14. ASSUME NEW w \in outcomes, ApplyOutcome(w) PROVE Dates'
  <2>1. \A g \in Flag :
          /\ Exists(g)' => Exists(g)
          /\ Exists(g)' => /\ flags'[g].captures = flags[g].captures
                           /\ flags'[g].checks = flags[g].checks
    BY <1>14, OutcomeUpdates
  <2>2. \A g \in Flag : Known(g)' => Known(g)
    BY <1>14, <2>1 DEF ApplyOutcome, Known
  <2>3. \A g \in Flag : Exists(g)' =>
          \A i \in DOMAIN flags'[g].captures : InRound(g.time, flags'[g].captures[i].time)
    BY <2>1 DEF Dates
  <2>4. \A g \in Flag : Exists(g)' =>
          \A i \in DOMAIN flags'[g].checks : Timely(g.time, flags'[g].checks[i].time)
    BY <2>1 DEF Dates, Timely
  <2> QED BY <1>14, <2>2, <2>3, <2>4, DatesKept DEF ApplyOutcome
<1>15. ASSUME NEW w \in pushes, ApplyPush(w) PROVE Dates'
  <2>1. \A g \in Flag :
          /\ Exists(g)' => Exists(g)
          /\ Exists(g)' => /\ flags'[g].captures = flags[g].captures
                           /\ flags'[g].checks = IF g = w.flag THEN Append(flags[g].checks, w.check)
                                                 ELSE flags[g].checks
    BY <1>15, PushUpdates
  <2>2. \A g \in Flag : Known(g)' => Known(g)
    BY <1>15, <2>1 DEF ApplyPush, Known
  <2>3. \A g \in Flag : Exists(g)' =>
          \A i \in DOMAIN flags'[g].captures : InRound(g.time, flags'[g].captures[i].time)
    BY <2>1 DEF Dates
  <2>4. ASSUME NEW g \in Flag, Exists(g)', NEW i \in DOMAIN flags'[g].checks
        PROVE  Timely(g.time, flags'[g].checks[i].time)
    <3>1. Exists(g) BY <2>1, <2>4
    <3>2. flags[g].checks \in Seq(Check)
      BY <3>1 DEF TypeOK, Exists, Doc
    <3>3. \A j \in DOMAIN flags[g].checks : Timely(g.time, flags[g].checks[j].time)
      BY <3>1 DEF Dates, Timely
    <3>4. Timely(w.flag.time, w.check.time)
      BY DEF Dates, Timely
    <3>5. w.check \in Check
      BY DEF TypeOK
    <3>6. CASE g = w.flag
      <4>1. flags'[g].checks = Append(flags[g].checks, w.check)
        BY <2>1, <2>4, <3>6
      <4>2. \/ flags'[g].checks[i] = w.check
            \/ i \in DOMAIN flags[g].checks /\ flags'[g].checks[i] = flags[g].checks[i]
        BY <2>4, <3>2, <3>5, <4>1, AppendedElements
      <4> QED BY <3>3, <3>4, <3>6, <4>2
    <3>7. CASE g # w.flag
      BY <2>1, <2>4, <3>3, <3>7
    <3> QED BY <3>6, <3>7
  <2> QED BY <1>15, <2>2, <2>3, <2>4, DatesKept DEF ApplyPush
<1>16. ASSUME NEW w \in stores, ApplyStore(w) PROVE Dates'
  <2>1. \A g \in Flag :
          /\ Exists(g)' => Exists(g)
          /\ Exists(g)' => /\ flags'[g].checks = flags[g].checks
                           /\ flags'[g].captures = IF g = w.flag
                                                   THEN Append(flags[g].captures, w.capture)
                                                   ELSE flags[g].captures
    BY <1>16, StoreUpdates
  <2>2. \A g \in Flag : Known(g)' => Known(g)
    BY <1>16, <2>1 DEF ApplyStore, Known
  <2>3. \A g \in Flag : Exists(g)' =>
          \A i \in DOMAIN flags'[g].checks : Timely(g.time, flags'[g].checks[i].time)
    BY <2>1 DEF Dates, Timely
  <2>4. ASSUME NEW g \in Flag, Exists(g)', NEW i \in DOMAIN flags'[g].captures
        PROVE  InRound(g.time, flags'[g].captures[i].time)
    <3>1. Exists(g) BY <2>1, <2>4
    <3>2. flags[g].captures \in Seq(Capture)
      BY <3>1 DEF TypeOK, Exists, Doc
    <3>3. \A j \in DOMAIN flags[g].captures : InRound(g.time, flags[g].captures[j].time)
      BY <3>1 DEF Dates
    <3>4. InRound(w.flag.time, w.capture.time)
      BY DEF Dates
    <3>5. w.capture \in Capture
      BY DEF TypeOK
    <3>6. CASE g = w.flag
      <4>1. flags'[g].captures = Append(flags[g].captures, w.capture)
        BY <2>1, <2>4, <3>6
      <4>2. \/ flags'[g].captures[i] = w.capture
            \/ i \in DOMAIN flags[g].captures /\ flags'[g].captures[i] = flags[g].captures[i]
        BY <2>4, <3>2, <3>5, <4>1, AppendedElements
      <4> QED BY <3>3, <3>4, <3>6, <4>2
    <3>7. CASE g # w.flag
      BY <2>1, <2>4, <3>3, <3>7
    <3> QED BY <3>6, <3>7
  <2> QED BY <1>16, <2>2, <2>3, <2>4, DatesKept DEF ApplyStore
<1>17. CASE DbError
  <2>1. /\ scans' \subseteq scans /\ saves' \subseteq saves
        /\ pushes' \subseteq pushes /\ stores' \subseteq stores
    BY <1>17 DEF DbError
  <2> QED BY <1>17, <2>1, DatesKeptInMemory DEF DbError
<1>18. CASE Tick \/ Crash
  <2>1. /\ now' = now + 1
        /\ UNCHANGED <<flags, saves, stores, pushes>>
        /\ scans' \subseteq scans /\ checking' \subseteq checking
        /\ UNCHANGED <<up, latestPlantTime>> \/ ~up'
    BY <1>18 DEF Tick, Crash
  <2>2. \A f \in Flag : (Known(f)' <=> Known(f)) /\ (Exists(f)' <=> Exists(f))
    BY <2>1 DEF Known, Exists
  <2>3. \A s, t \in Int : InRound(s, t) => InRound(s, t)'
    BY <2>1, <2>2, StaysInRound
  <2>4. /\ (up => latestPlantTime <= now)'
        /\ \A f \in Flag : Known(f)' =>
             IF up' THEN f.time <= latestPlantTime' ELSE f.time < now'
    BY <1>18, <2>1, <2>2 DEF Dates, Tick, Crash
  <2> QED BY <2>1, <2>2, <2>3, <2>4 DEF Dates
<1>19. CASE LoseWrite
  <2>1. saves' \subseteq saves /\ pushes' \subseteq pushes /\ stores' \subseteq stores
    BY <1>19 DEF LoseWrite
  <2> QED BY <1>19, <2>1, DatesKeptInMemory DEF LoseWrite
<1>20. CASE UNCHANGED vars
  BY <1>20, DatesKeptInMemory
<1> QED BY <1>1, <1>2, <1>3, <1>4, <1>5, <1>6, <1>7, <1>8, <1>9, <1>10, <1>11, <1>12,
           <1>13, <1>14, <1>15, <1>16, <1>17, <1>18, <1>19, <1>20
        DEF Next, DaemonStep, ClientStep, DbStep

\* A capture is dated within the round of its flag.
THEOREM CapturesDated == Spec => []CapturesInRound
<1>1. Init => TypeOK /\ Dates BY TypeInit, DatesInit
<1>2. TypeOK /\ Dates /\ [Next]_vars => (TypeOK /\ Dates)' BY TypeStep, DatesStep
<1>3. Dates => CapturesInRound BY DEF Dates, InRound, CapturesInRound
<1> QED BY <1>1, <1>2, <1>3, PTL DEF Spec

\* A check result is dated within the round of its flag, after max_time.
THEOREM ChecksDated == Spec => []ChecksInRound
<1>1. Init => TypeOK /\ Dates BY TypeInit, DatesInit
<1>2. TypeOK /\ Dates /\ [Next]_vars => (TypeOK /\ Dates)' BY TypeStep, DatesStep
<1>3. Dates => ChecksInRound BY DEF Dates, InRound, ChecksInRound
<1> QED BY <1>1, <1>2, <1>3, PTL DEF Spec
-----------------------------------------------------------------------------
(***************************************************************************)
(* Books.  The replies tell the truth as long as the database answers no   *)
(* call with an error, also when it applies writes out of order and the    *)
(* daemon crashes.                                                         *)
(***************************************************************************)

LEMMA BooksInit == Init => Books
BY DEF Init, Books, FreshSaves, UpdatesOwned, AnswersHold, AckedHold

\* A new round has no document yet: all that is known is older.
LEMMA FreshRound ==
  ASSUME TypeOK, Dates, IF up THEN latestPlantTime < now ELSE TRUE, NEW f \in Round(now)
  PROVE  ~Exists(f)
<1>1. f \in Flag /\ f.time = now
  BY DEF Round
<1> QED BY <1>1, TimesAreIntegers DEF Dates, Known

\* What a capture appended to a document adds to its captors.
LEMMA CapturersOfStored ==
  ASSUME TypeOK, NEW w \in stores, ApplyStore(w), NEW g \in Flag
  PROVE  /\ Capturers(g) \subseteq Capturers(g)'
         /\ Exists(g) /\ g = w.flag => w.capture.team \in Capturers(g)'
<1>1. CASE ~Exists(g)
  BY <1>1 DEF Capturers
<1>2. CASE Exists(g)
  <2>1. /\ Exists(g)'
        /\ flags[g].captures \in Seq(Capture) /\ w.capture \in Capture
        /\ flags'[g].captures = IF g = w.flag THEN Append(flags[g].captures, w.capture)
                                ELSE flags[g].captures
    BY <1>2, StoreUpdates
  <2> DEFINE s == flags[g].captures
  <2>2. /\ \A i \in DOMAIN s : i \in DOMAIN Append(s, w.capture) /\ Append(s, w.capture)[i] = s[i]
        /\ Len(s) + 1 \in DOMAIN Append(s, w.capture)
        /\ Append(s, w.capture)[Len(s) + 1] = w.capture
    BY <2>1, AppendProperties
  <2>3. CASE g = w.flag
    BY <1>2, <2>1, <2>2, <2>3 DEF Capturers
  <2>4. CASE g # w.flag
    BY <1>2, <2>1, <2>4 DEF Capturers
  <2> QED BY <2>3, <2>4
<1> QED BY <1>1, <1>2

\* No step takes a document or a captor away.
LEMMA CapturersGrow ==
  ASSUME TypeOK, FreshSaves, [Next]_vars, NEW g \in Flag
  PROVE  (Exists(g) => Exists(g)') /\ Capturers(g) \subseteq Capturers(g)'
<1>1. CASE UNCHANGED flags
  BY <1>1 DEF Exists, Capturers
<1>2. ASSUME NEW f \in saves, ApplySave(f)
      PROVE  (Exists(g) => Exists(g)') /\ Capturers(g) \subseteq Capturers(g)'
  <2>1. CASE g = f
    BY <2>1 DEF FreshSaves, Capturers
  <2>2. CASE g # f
    <3>1. flags'[g] = flags[g]
      BY <1>2, <2>2 DEF ApplySave, TypeOK
    <3> QED BY <3>1 DEF Exists, Capturers
  <2> QED BY <2>1, <2>2
<1>3. ASSUME NEW w \in outcomes, ApplyOutcome(w)
      PROVE  (Exists(g) => Exists(g)') /\ Capturers(g) \subseteq Capturers(g)'
  BY <1>3, OutcomeUpdates DEF Capturers
<1>4. ASSUME NEW w \in pushes, ApplyPush(w)
      PROVE  (Exists(g) => Exists(g)') /\ Capturers(g) \subseteq Capturers(g)'
  BY <1>4, PushUpdates DEF Capturers
<1>5. ASSUME NEW w \in stores, ApplyStore(w)
      PROVE  (Exists(g) => Exists(g)') /\ Capturers(g) \subseteq Capturers(g)'
  BY <1>5, StoreUpdates, CapturersOfStored
<1>6. \/ UNCHANGED flags
      \/ \E f \in saves : ApplySave(f)
      \/ \E w \in outcomes : ApplyOutcome(w)
      \/ \E w \in pushes : ApplyPush(w)
      \/ \E w \in stores : ApplyStore(w)
  BY DEF Next, DaemonStep, ClientStep, DbStep, Start, PlantTimer, CheckTimer, PlantDone,
         CheckDone, Decide, Acknowledge, Reconnect, NameTeam, SubmitFlag, Scan, FindOne,
         DbError, Tick, Crash, LoseWrite, vars, dbVars
<1> QED BY <1>1, <1>2, <1>3, <1>4, <1>5, <1>6

\* The checks of a flag that was acknowledged: what the step adds to them was
\* under way already, or is of a flag nobody had captured.
LEMMA AckedKept ==
  ASSUME TypeOK, AckedHold, UNCHANGED acked,
         \A f \in Flag : Capturers(f) \subseteq Capturers(f)',
         \A k \in checking' : k \in checking \/ Capturers(k.flag) = {},
         \A w \in pushes' : \/ w \in pushes
                            \/ \E k \in checking : k.flag = w.flag /\ k.time = w.check.time,
         \A f \in Flag : Exists(f) => \A i \in DOMAIN flags'[f].checks :
           \/ i \in DOMAIN flags[f].checks /\ flags'[f].checks[i] = flags[f].checks[i]
           \/ \E w \in pushes : w.flag = f /\ w.check = flags'[f].checks[i]
  PROVE  AckedHold'
<1> SUFFICES ASSUME NEW a \in acked
             PROVE  a.team \in Capturers(a.flag)' /\ NoCheckAfter(a.flag, a.time)'
  BY DEF AckedHold
<1>1. a.flag \in Flag /\ a.team \in Capturers(a.flag) /\ NoCheckAfter(a.flag, a.time)
  BY DEF TypeOK, AckedHold
<1>2. Exists(a.flag)
  BY <1>1 DEF Capturers
<1>3. a.team \in Capturers(a.flag)'
  BY <1>1
<1>4. \A k \in checking' : k.flag = a.flag => k.time <= a.time
  BY <1>1 DEF NoCheckAfter
<1>5. \A w \in pushes' : w.flag = a.flag => w.check.time <= a.time
  BY <1>1 DEF NoCheckAfter
<1>6. \A i \in DOMAIN flags'[a.flag].checks : flags'[a.flag].checks[i].time <= a.time
  BY <1>1, <1>2 DEF NoCheckAfter
<1> QED BY <1>3, <1>4, <1>5, <1>6 DEF NoCheckAfter

\* What the actions that are not about a document do to flags and saves.
LEMMA FreshStep == TypeOK /\ Dates /\ FreshSaves /\ [Next]_vars => FreshSaves'
<1> SUFFICES ASSUME TypeOK, Dates, FreshSaves, [Next]_vars PROVE FreshSaves'
  OBVIOUS
<1>1. CASE PlantFlags /\ UNCHANGED flags /\ (IF up THEN latestPlantTime < now ELSE TRUE)
  BY <1>1, FreshRound DEF PlantFlags, FreshSaves, Exists
<1>2. CASE saves' \subseteq saves /\ UNCHANGED flags
  BY <1>2 DEF FreshSaves, Exists
<1>3. ASSUME NEW f \in saves, ApplySave(f) PROVE FreshSaves'
  <2>1. \A g \in saves' : g \in saves /\ g \in Flag /\ g # f
    BY <1>3 DEF ApplySave, TypeOK
  <2>2. \A g \in saves' : flags'[g] = flags[g]
    BY <1>3, <2>1 DEF ApplySave, TypeOK
  <2> QED BY <2>1, <2>2 DEF FreshSaves, Exists
<1>4. ASSUME NEW w \in outcomes, ApplyOutcome(w) PROVE FreshSaves'
  BY <1>4, OutcomeUpdates DEF ApplyOutcome, FreshSaves, TypeOK
<1>5. ASSUME NEW w \in pushes, ApplyPush(w) PROVE FreshSaves'
  BY <1>5, PushUpdates DEF ApplyPush, FreshSaves, TypeOK
<1>6. ASSUME NEW w \in stores, ApplyStore(w) PROVE FreshSaves'
  BY <1>6, StoreUpdates DEF ApplyStore, FreshSaves, TypeOK
<1>7. CASE Start \/ PlantTimer
  BY <1>1, <1>7 DEF Start, PlantTimer
<1>8. \/ saves' \subseteq saves /\ UNCHANGED flags
      \/ Start \/ PlantTimer
      \/ \E f \in saves : ApplySave(f)
      \/ \E w \in outcomes : ApplyOutcome(w)
      \/ \E w \in pushes : ApplyPush(w)
      \/ \E w \in stores : ApplyStore(w)
  BY DEF Next, DaemonStep, ClientStep, DbStep, CheckTimer, PlantDone,
         CheckDone, Decide, Acknowledge, Reconnect, NameTeam, SubmitFlag, Scan, FindOne,
         DbError, Tick, Crash, LoseWrite, vars, dbVars
<1> QED BY <1>2, <1>3, <1>4, <1>5, <1>6, <1>7, <1>8

\* No update is sent, and no request that waits for one is given another task.
LEMMA UpdatesKept ==
  ASSUME TypeOK, UpdatesOwned, stores' \subseteq stores,
         \A f \in Flag : Exists(f) => Exists(f)',
         \A w \in stores' : req'[w.req] = req[w.req] \/ req'[w.req].phase = "idle"
  PROVE  UpdatesOwned'
BY DEF UpdatesOwned, TypeOK

LEMMA AnswersKept ==
  ASSUME TypeOK, AnswersHold,
         \A f \in Flag : (Exists(f) => Exists(f)') /\ Capturers(f) \subseteq Capturers(f)',
         \A r \in Reqs : req'[r] = req[r] \/ req'[r].phase \notin {"found", "updated"}
  PROVE  AnswersHold'
<1> SUFFICES ASSUME NEW r \in Reqs
             PROVE  /\ req'[r].phase = "found" => Exists(req[r].flag)'
                    /\ req'[r].phase = "updated" => req'[r].team \in Capturers(req[r].flag)'
  BY DEF AnswersHold
<1>1. CASE req'[r] = req[r] /\ req[r].phase \in {"found", "updated"}
  <2>1. req[r].flag \in Flag
    BY <1>1, RequestFacts DEF TypeOK
  <2>2. req'[r].flag = req[r].flag
    BY <1>1
  <2>3. /\ req[r].phase = "found" => Exists(req[r].flag)
        /\ req[r].phase = "updated" => req[r].team \in Capturers(req[r].flag)
    BY DEF AnswersHold
  <2> QED BY <1>1, <2>1, <2>2, <2>3 DEF Exists, Capturers
<1>2. CASE req'[r].phase \notin {"found", "updated"}
  BY <1>2
<1> QED BY <1>1, <1>2

LEMMA UpdatesStep == ~DbMayFail /\ TypeOK /\ Books /\ [Next]_vars => UpdatesOwned'
<1> SUFFICES ASSUME ~DbMayFail, TypeOK, Books, [Next]_vars PROVE UpdatesOwned'
  OBVIOUS
<1> USE DEF Books, vars, clientVars, dbVars
<1>1. \A f \in Flag : Exists(f) => Exists(f)'
  BY CapturersGrow
<1>2. CASE stores' \subseteq stores /\ UNCHANGED req
  BY <1>1, <1>2, UpdatesKept
<1>3. ASSUME NEW r \in Reqs, Decide(r) PROVE UpdatesOwned'
  <2> DEFINE q == req[r]
             u == [flag |-> q.flag, capture |-> [team |-> q.team, time |-> now], req |-> r]
  <2>1. \A w \in stores : w.req # r
    BY <1>3 DEF Decide, UpdatesOwned
  <2>2. \A x \in Reqs : x # r => req'[x] = req[x]
    BY <1>3 DEF Decide, TypeOK
  <2>3. CASE UNCHANGED stores
    <3>1. \A w \in stores' : req'[w.req] = req[w.req]
      BY <2>1, <2>2, <2>3 DEF TypeOK
    <3> QED BY <1>1, <2>3, <3>1, UpdatesKept
  <2>4. CASE stores' # stores
    <3>1. /\ Refusal(q) = 0 /\ stores' = stores \cup {u}
          /\ req' = [req EXCEPT ![r] = [phase |-> "update", flag |-> q.flag, team |-> q.team]]
      BY <1>3, <2>4 DEF Decide
    <3>2. q.phase = "found"
      BY <1>3, <3>1 DEF Decide, Refusal
    <3>3. q.flag \in Flag /\ Exists(q.flag)
      BY <3>2, RequestFacts DEF AnswersHold, TypeOK
    <3>4. /\ Exists(u.flag)' /\ req'[r].phase = "update"
          /\ req'[r].flag = u.flag /\ req'[r].team = u.capture.team
      BY <1>1, <3>1, <3>3 DEF TypeOK
    <3>5. ASSUME NEW w \in stores
          PROVE  /\ Exists(w.flag)' /\ req'[w.req].phase \in {"idle", "update"}
                 /\ req'[w.req].phase = "update" =>
                      req'[w.req].flag = w.flag /\ req'[w.req].team = w.capture.team
                 /\ \A v \in stores : v.req = w.req => v = w
                 /\ u.req # w.req
      BY <1>1, <2>1, <2>2 DEF UpdatesOwned, TypeOK
    <3> QED BY <2>1, <3>1, <3>4, <3>5 DEF UpdatesOwned
  <2> QED BY <2>3, <2>4
<1>4. ASSUME NEW r \in Reqs, Acknowledge(r) \/ FindOne(r) PROVE UpdatesOwned'
  <2>1. \A w \in stores : w.req # r
    BY <1>4 DEF Acknowledge, FindOne, UpdatesOwned
  <2>2. UNCHANGED stores /\ \A x \in Reqs : x # r => req'[x] = req[x]
    BY <1>4 DEF Acknowledge, FindOne, TypeOK
  <2> QED BY <1>1, <2>1, <2>2, UpdatesKept DEF TypeOK
<1>5. ASSUME NEW c \in Conns, NEW r \in Reqs, NEW f \in Flag, SubmitFlag(c, r, f)
      PROVE  UpdatesOwned'
  <2>1. \A w \in stores : w.req # r
    BY <1>5 DEF SubmitFlag, Free
  <2>2. UNCHANGED stores /\ \A x \in Reqs : x # r => req'[x] = req[x]
    BY <1>5 DEF SubmitFlag, TypeOK
  <2> QED BY <1>1, <2>1, <2>2, UpdatesKept DEF TypeOK
<1>6. ASSUME NEW w \in stores, ApplyStore(w) PROVE UpdatesOwned'
  <2>1. stores' = stores \ {w} /\ \A v \in stores' : v.req # w.req
    BY <1>6 DEF ApplyStore, UpdatesOwned
  <2>2. \A x \in Reqs : x # w.req => req'[x] = req[x]
    BY <1>6 DEF ApplyStore, Answered, TypeOK
  <2> QED BY <1>1, <2>1, <2>2, UpdatesKept DEF TypeOK
<1>7. CASE Crash
  <2>1. stores' = stores /\ \A x \in Reqs : req'[x].phase = "idle"
    BY <1>7 DEF Crash
  <2> QED BY <1>1, <2>1, UpdatesKept DEF TypeOK
<1>8. \/ stores' \subseteq stores /\ UNCHANGED req
      \/ \E r \in Reqs : Decide(r) \/ Acknowledge(r) \/ FindOne(r)
      \/ \E c \in Conns, r \in Reqs, f \in Flag : SubmitFlag(c, r, f)
      \/ \E w \in stores : ApplyStore(w)
      \/ Crash
  BY DEF Next, DaemonStep, ClientStep, DbStep, Start, PlantTimer, PlantFlags, CheckTimer,
         PlantDone, CheckDone, Reconnect, NameTeam, Scan, ApplySave, ApplyOutcome, ApplyPush,
         DbError, Tick, LoseWrite
<1> QED BY <1>2, <1>3, <1>4, <1>5, <1>6, <1>7, <1>8

LEMMA AnswersStep == ~DbMayFail /\ TypeOK /\ Books /\ [Next]_vars => AnswersHold'
<1> SUFFICES ASSUME ~DbMayFail, TypeOK, Books, [Next]_vars PROVE AnswersHold'
  OBVIOUS
<1> USE DEF Books, vars, clientVars
<1> DEFINE Quiet == \A r \in Reqs : req'[r] = req[r] \/ req'[r].phase \notin {"found", "updated"}
<1>1. \A f \in Flag : (Exists(f) => Exists(f)') /\ Capturers(f) \subseteq Capturers(f)'
  BY CapturersGrow
<1>2. CASE Quiet
  BY <1>1, <1>2, AnswersKept
<1>3. ASSUME NEW r \in Reqs, FindOne(r) PROVE AnswersHold'
  <2>1. /\ \A x \in Reqs : x # r => req'[x] = req[x]
        /\ req'[r].phase = "found" => req'[r].flag = req[r].flag /\ Exists(req[r].flag)
        /\ req'[r].phase # "updated"
    BY <1>3 DEF FindOne, TypeOK
  <2>2. UNCHANGED flags
    BY <1>3 DEF FindOne, dbVars
  <2>3. ASSUME NEW x \in Reqs
        PROVE  /\ req'[x].phase = "found" => Exists(req[x].flag)'
               /\ req'[x].phase = "updated" => req'[x].team \in Capturers(req[x].flag)'
    <3>1. CASE x = r
      BY <2>1, <2>2, <3>1 DEF Exists
    <3>2. CASE x # r
      <4>1. req'[x] = req[x]
        BY <2>1, <3>2
      <4>2. /\ req[x].phase = "found" => Exists(req[x].flag)
            /\ req[x].phase = "updated" => req[x].team \in Capturers(req[x].flag)
        BY DEF AnswersHold
      <4> QED BY <2>2, <4>1, <4>2 DEF Exists, Capturers
    <3> QED BY <3>1, <3>2
  <2> QED BY <2>3 DEF AnswersHold
<1>4. ASSUME NEW w \in stores, ApplyStore(w) PROVE AnswersHold'
  <2> DEFINE x == w.req
  <2>1. x \in Reqs /\ w.flag \in Flag
    BY DEF TypeOK
  <2>2. CASE req[x].phase = "update"
    <3>1. req' = [req EXCEPT ![x].phase = "updated"]
      BY <1>4, <2>2 DEF ApplyStore, Answered
    <3>2. /\ req'[x].phase = "updated" /\ req'[x].flag = w.flag
          /\ req'[x].team = w.capture.team /\ Exists(w.flag)
      BY <2>1, <2>2, <3>1 DEF UpdatesOwned, TypeOK, Request
    <3>3. req'[x].team \in Capturers(w.flag)'
      BY <1>4, <2>1, <3>2, CapturersOfStored
    <3>4. /\ req'[x].phase = "found" => Exists(req[x].flag)'
          /\ req'[x].phase = "updated" => req'[x].team \in Capturers(req[x].flag)'
      BY <3>2, <3>3 DEF Exists, Capturers
    <3>5. ASSUME NEW r \in Reqs, r # x
          PROVE  /\ req'[r].phase = "found" => Exists(req[r].flag)'
                 /\ req'[r].phase = "updated" => req'[r].team \in Capturers(req[r].flag)'
      <4>1. req'[r] = req[r]
        BY <3>1, <3>5 DEF TypeOK
      <4>2. req[r].phase \in {"found", "updated"} => req[r].flag \in Flag
        BY RequestFacts DEF TypeOK
      <4>3. /\ req[r].phase = "found" => Exists(req[r].flag)
            /\ req[r].phase = "updated" => req[r].team \in Capturers(req[r].flag)
        BY DEF AnswersHold
      <4> QED BY <1>1, <4>1, <4>2, <4>3 DEF Exists, Capturers
    <3> QED BY <3>4, <3>5 DEF AnswersHold
  <2>3. CASE req[x].phase # "update"
    BY <1>2, <1>4, <2>3 DEF ApplyStore, Answered
  <2> QED BY <2>2, <2>3
<1>5. ASSUME NEW r \in Reqs, Decide(r) \/ Acknowledge(r) PROVE Quiet
  BY <1>5 DEF Decide, Acknowledge, TypeOK
<1>6. ASSUME NEW c \in Conns, NEW r \in Reqs, NEW f \in Flag, SubmitFlag(c, r, f) PROVE Quiet
  BY <1>6 DEF SubmitFlag, TypeOK
<1>7. CASE Crash
  BY <1>2, <1>7 DEF Crash
<1>8. \/ UNCHANGED req
      \/ \E r \in Reqs : FindOne(r)
      \/ \E w \in stores : ApplyStore(w)
      \/ \E r \in Reqs : Decide(r) \/ Acknowledge(r)
      \/ \E c \in Conns, r \in Reqs, f \in Flag : SubmitFlag(c, r, f)
      \/ Crash
  BY DEF Next, DaemonStep, ClientStep, DbStep, Start, PlantTimer, CheckTimer,
         PlantDone, CheckDone, Reconnect, NameTeam, Scan, ApplySave, ApplyOutcome, ApplyPush,
         DbError, Tick, LoseWrite
<1> QED BY <1>2, <1>3, <1>4, <1>5, <1>6, <1>7, <1>8

LEMMA AckedStep ==
  ~DbMayFail /\ TypeOK /\ Dates /\ Books /\ [Next]_vars => AckedHold'
<1> SUFFICES ASSUME ~DbMayFail, TypeOK, Dates, Books, [Next]_vars PROVE AckedHold'
  OBVIOUS
<1> USE DEF Books, vars, clientVars, jobVars, dbVars
<1> DEFINE Grow == \A f \in Flag : Capturers(f) \subseteq Capturers(f)'
           Commands == \A k \in checking' : k \in checking \/ Capturers(k.flag) = {}
           Results == \A w \in pushes' :
             \/ w \in pushes
             \/ \E k \in checking : k.flag = w.flag /\ k.time = w.check.time
           Docs == \A f \in Flag : Exists(f) => \A i \in DOMAIN flags'[f].checks :
             \/ i \in DOMAIN flags[f].checks /\ flags'[f].checks[i] = flags[f].checks[i]
             \/ \E w \in pushes : w.flag = f /\ w.check = flags'[f].checks[i]
<1>1. Grow
  BY CapturersGrow
<1>2. UNCHANGED flags => Docs
  BY DEF Exists
<1>3. CASE UNCHANGED <<flags, acked>> /\ checking' \subseteq checking /\ pushes' \subseteq pushes
  BY <1>1, <1>2, <1>3, AckedKept
<1>4. ASSUME NEW r \in Reqs, Acknowledge(r) PROVE AckedHold'
  <2> DEFINE b == [flag |-> req[r].flag, team |-> req[r].team, time |-> now]
  <2>1. /\ req[r].phase = "updated" /\ acked' = acked \cup {b}
        /\ UNCHANGED <<flags, checking, pushes>>
    BY <1>4 DEF Acknowledge
  <2>2. b.flag \in Flag /\ b.team \in Capturers(b.flag)
    BY <2>1, RequestFacts DEF AnswersHold, TypeOK
  <2>3. Exists(b.flag)
    BY <2>2 DEF Capturers
  <2>4. NoCheckAfter(b.flag, b.time)
    BY <2>2, <2>3 DEF NoCheckAfter, Dates, InRound
  <2>5. \A a \in acked' : a.team \in Capturers(a.flag) /\ NoCheckAfter(a.flag, a.time)
    BY <2>1, <2>2, <2>4 DEF AckedHold
  <2> QED BY <2>1, <2>5 DEF AckedHold, Capturers, Exists, NoCheckAfter
<1>5. ASSUME NEW s \in scans, Scan(s) PROVE AckedHold'
  <2>1. Commands
    BY <1>5 DEF Scan, Uncaptured, Capturers, Round
  <2> QED BY <1>1, <1>2, <1>5, <2>1, AckedKept DEF Scan
<1>6. ASSUME NEW k \in checking, NEW ok \in CheckResults, CheckDone(k, ok) PROVE AckedHold'
  <2>1. Results
    BY <1>6 DEF CheckDone
  <2> QED BY <1>1, <1>2, <1>6, <2>1, AckedKept DEF CheckDone
<1>7. ASSUME NEW f \in saves, ApplySave(f) PROVE AckedHold'
  <2>1. \A g \in Flag : Exists(g) => flags'[g] = flags[g]
    BY <1>7 DEF ApplySave, FreshSaves, TypeOK
  <2>2. Docs
    BY <2>1
  <2> QED BY <1>1, <1>7, <2>2, AckedKept DEF ApplySave
<1>8. ASSUME NEW w \in outcomes, ApplyOutcome(w) PROVE AckedHold'
  <2>1. Docs
    BY <1>8, OutcomeUpdates
  <2> QED BY <1>1, <1>8, <2>1, AckedKept DEF ApplyOutcome
<1>9. ASSUME NEW w \in stores, ApplyStore(w) PROVE AckedHold'
  <2>1. Docs
    BY <1>9, StoreUpdates
  <2> QED BY <1>1, <1>9, <2>1, AckedKept DEF ApplyStore
<1>10. ASSUME NEW w \in pushes, ApplyPush(w) PROVE AckedHold'
  <2>1. Docs
    <3> SUFFICES ASSUME NEW g \in Flag, Exists(g), NEW i \in DOMAIN flags'[g].checks
                 PROVE  \/ i \in DOMAIN flags[g].checks /\ flags'[g].checks[i] = flags[g].checks[i]
                        \/ \E v \in pushes : v.flag = g /\ v.check = flags'[g].checks[i]
      OBVIOUS
    <3>1. /\ flags[g].checks \in Seq(Check) /\ w.check \in Check
          /\ flags'[g].checks = IF g = w.flag THEN Append(flags[g].checks, w.check)
                                ELSE flags[g].checks
      BY <1>10, PushUpdates
    <3>2. CASE g = w.flag
      BY <3>1, <3>2, AppendedElements
    <3>3. CASE g # w.flag
      BY <3>1, <3>3
    <3> QED BY <3>2, <3>3
  <2> QED BY <1>1, <1>10, <2>1, AckedKept DEF ApplyPush
<1>11. \/ UNCHANGED <<flags, acked>> /\ checking' \subseteq checking /\ pushes' \subseteq pushes
       \/ \E r \in Reqs : Acknowledge(r)
       \/ \E s \in scans : Scan(s)
       \/ \E k \in checking, ok \in CheckResults : CheckDone(k, ok)
       \/ \E f \in saves : ApplySave(f)
       \/ \E w \in outcomes : ApplyOutcome(w)
       \/ \E w \in stores : ApplyStore(w)
       \/ \E w \in pushes : ApplyPush(w)
  BY DEF Next, DaemonStep, ClientStep, DbStep, Start, PlantTimer, PlantFlags, CheckTimer,
         PlantDone, Decide, Reconnect, NameTeam, SubmitFlag, FindOne, DbError, Tick, Crash,
         LoseWrite
<1> QED BY <1>3, <1>4, <1>5, <1>6, <1>7, <1>8, <1>9, <1>10, <1>11

LEMMA BooksStep == TypeOK /\ Dates /\ IndBooks /\ [Next]_vars => IndBooks'
BY FreshStep, UpdatesStep, AnswersStep, AckedStep DEF IndBooks, Books

LEMMA BooksKept == Spec => [](TypeOK /\ Dates /\ IndBooks)
<1>1. Init => TypeOK /\ Dates /\ IndBooks
  BY TypeInit, DatesInit, BooksInit DEF IndBooks
<1>2. TypeOK /\ Dates /\ IndBooks /\ [Next]_vars => (TypeOK /\ Dates /\ IndBooks)'
  BY TypeStep, DatesStep, BooksStep
<1> QED BY <1>1, <1>2, PTL DEF Spec

\* Unless a call of the database fails, a capture that was acknowledged is in
\* the database, whatever the order of the writes and wherever the daemon dies.
THEOREM AcksRecorded == Spec => []AckedIsRecorded
<1>1. IndBooks => AckedIsRecorded BY DEF IndBooks, Books, AckedHold, AckedIsRecorded
<1> QED BY <1>1, BooksKept, PTL

\* Unless a call of the database fails, a captured flag earns nothing by checks
\* that start after the thief was told.
THEOREM LossIsFinal == Spec => []NoCheckAfterLoss
<1>1. IndBooks => NoCheckAfterLoss
  BY DEF IndBooks, Books, AckedHold, NoCheckAfter, NoCheckAfterLoss
<1> QED BY <1>1, BooksKept, PTL

-----------------------------------------------------------------------------
(***************************************************************************)
(* What the collection of flags promises: that CTFd implements FlagLedger, *)
(* that a capture is listed once unless two requests overlap, and that no  *)
(* successful delivery is lost before the daemon first dies.               *)
(***************************************************************************)

(***************************************************************************)
(* The invariants, beside TypeOK, Dates and FreshSaves of CTFd.            *)
(***************************************************************************)

Sent(f, ok) == [flag |-> f, delivered |-> ok] \in outcomes
Held(f) == Exists(f) /\ flags[f].delivered
Past(f) == IF up THEN f.time <= latestPlantTime ELSE f.time < now

\* Outcomes: a plant command has one outcome, which is of a round that has begun:
\* it is running, or its outcome is on its way, or it has arrived.
Outcomes ==
  \A f \in Flag :
    /\ f \in planting \/ Sent(f, TRUE) \/ Sent(f, FALSE) => Past(f)
    /\ f \in planting => ~Sent(f, TRUE) /\ ~Sent(f, FALSE) /\ ~Held(f)
    /\ Sent(f, FALSE) => ~Sent(f, TRUE) /\ ~Held(f)

\* Ticks: a check of a flag is in one place only, and so is a scan for checks.
Dated(t) == t \in CheckTimes /\ t <= lastTick
NotScanned(t) == \A s \in scans : s.time # t
NotRun(f, t) == \A k \in checking : k.flag = f => k.time # t
Recorded(f) == IF Exists(f) THEN {flags[f].checks[i] : i \in DOMAIN flags[f].checks} ELSE {}
NotPushed(f, t) == \A w \in pushes : w.flag = f => w.check.time # t
Ticks ==
  /\ \A s \in scans : Dated(s.time) /\ \A z \in scans : z.time = s.time => z = s
  /\ \A k \in checking : Dated(k.time) /\ NotScanned(k.time)
  /\ \A w \in pushes :
       /\ Dated(w.check.time) /\ NotScanned(w.check.time) /\ NotRun(w.flag, w.check.time)
       /\ \A v \in pushes : v.flag = w.flag /\ v.check.time = w.check.time => v = w
  /\ \A f \in Flag : \A c \in Recorded(f) :
       Dated(c.time) /\ NotScanned(c.time) /\ NotRun(f, c.time) /\ NotPushed(f, c.time)

\* Thieves: no owner captures.
Thieves == \A w \in stores : w.capture.team # w.flag.team

LedgerInv == TypeOK /\ Dates /\ FreshSaves /\ Outcomes /\ Ticks /\ Thieves

\* Two requests of one team for one flag, both of which have read the document and
\* neither of which has written to it.
Racing(r, q) ==
  /\ r # q
  /\ req[r].phase \in {"found", "update"}
  /\ req[q].phase \in {"found", "update"}
  /\ req[r].flag = req[q].flag
  /\ req[r].team = req[q].team
NoRace == \A r, q \in Reqs : ~Racing(r, q)

\* An update belongs to the request that waits for it, or was left behind by a
\* daemon that died, and is of an earlier round then.
Waited(w) ==
  /\ req[w.req].phase = "update"
  /\ req[w.req].flag = w.flag
  /\ req[w.req].team = w.capture.team
LeftBehind(w) ==
  /\ req[w.req].phase = "idle"
  /\ IF up THEN w.flag.time < latestPlantTime ELSE w.flag.time < now
Quiescent == ~up => \A r \in Reqs : req[r].phase = "idle"
Owned(w) ==
  /\ w.flag.time <= now
  /\ Waited(w) \/ LeftBehind(w)
  /\ w.capture.team \notin Capturers(w.flag)
Single(w, v) == v.req = w.req \/ (v.flag = w.flag /\ v.capture.team = w.capture.team) => v = w
Findings ==
  \A r \in Reqs :
    req[r].phase = "found" /\ ~req[r].listed /\ latestPlantTime <= req[r].flag.time
      => req[r].team \notin Capturers(req[r].flag)

\* Listings: no two updates list the same capture or answer the same request, and
\* what an update will list, or a request has found unlisted, is not listed yet.
Listings ==
  /\ Quiescent
  /\ \A w \in stores : Owned(w) /\ \A v \in stores : Single(w, v)
  /\ Findings
  /\ CapturedOnce

\* Until the daemon dies for the first time.
Deliveries ==
  crashes = 0 =>
    /\ ~up => saves = {} /\ outcomes = {} /\ planting = {}
    /\ \A f \in planting \cup planted : Known(f)
    /\ NothingLost
-----------------------------------------------------------------------------
(***************************************************************************)
(* Outcomes.                                                               *)
(***************************************************************************)

\* A flag of a round that has begun stays one.
LEMMA PastKept ==
  ASSUME TypeOK, Dates, [Next]_vars, NEW f \in Flag, Past(f)
  PROVE  Past(f)'
<1> USE TimesAreIntegers DEF Past, vars, clockVars, memoryVars
<1>1. CASE UNCHANGED <<now, up, latestPlantTime>>
  BY <1>1
<1>2. CASE Start
  BY <1>2 DEF Start, PlantFlags
<1>3. CASE PlantTimer
  BY <1>3 DEF PlantTimer, PlantFlags
<1>4. CASE Tick
  BY <1>4 DEF Tick
<1>5. CASE Crash
  BY <1>5 DEF Crash, Dates
<1>6. UNCHANGED <<now, up, latestPlantTime>> \/ Start \/ PlantTimer \/ Tick \/ Crash
  BY DEF Next, DaemonStep, ClientStep, DbStep, CheckTimer, PlantDone, CheckDone, Decide,
         Acknowledge, Reconnect, NameTeam, SubmitFlag, Scan, FindOne, ApplySave, ApplyOutcome,
         ApplyPush, ApplyStore, DbError, LoseWrite
<1> QED BY <1>1, <1>2, <1>3, <1>4, <1>5, <1>6

\* What the writes do to `delivered'.
LEMMA OutcomeHeld ==
  ASSUME TypeOK, NEW w \in outcomes, ApplyOutcome(w), NEW g \in Flag
  PROVE  Held(g)' <=> Exists(g) /\ IF g = w.flag THEN w.delivered ELSE Held(g)
<1>1. CASE Exists(w.flag)
  <2>1. flags' = [flags EXCEPT ![w.flag] = [@ EXCEPT !.delivered = w.delivered]]
    BY <1>1 DEF ApplyOutcome
  <2>2. flags[w.flag] \in Doc /\ w.flag \in Flag /\ w.delivered \in BOOLEAN
    BY <1>1 DEF TypeOK, Exists
  <2>3. CASE g = w.flag
    <3>1. flags'[g] = [flags[g] EXCEPT !.delivered = w.delivered]
      BY <2>1, <2>3 DEF TypeOK
    <3>2. flags'[g].delivered = w.delivered
      BY <2>2, <2>3, <3>1 DEF Doc
    <3> QED BY <1>1, <2>3, <3>2, OutcomeUpdates DEF Held
  <2>4. CASE g # w.flag
    <3>1. flags'[g] = flags[g]
      BY <2>1, <2>4 DEF TypeOK
    <3> QED BY <2>4, <3>1 DEF Held, Exists
  <2> QED BY <2>3, <2>4
<1>2. CASE ~Exists(w.flag)
  BY <1>2 DEF ApplyOutcome, Held, Exists
<1> QED BY <1>1, <1>2

LEMMA PushHeld ==
  ASSUME TypeOK, NEW w \in pushes, ApplyPush(w), NEW g \in Flag
  PROVE  Held(g)' <=> Held(g)
<1>1. CASE Exists(w.flag) /\ g = w.flag
  <2>1. flags'[g] = [flags[g] EXCEPT !.checks = Append(@, w.check)]
    BY <1>1 DEF ApplyPush, TypeOK
  <2>2. flags'[g].delivered = flags[g].delivered
    BY <1>1, <2>1 DEF TypeOK, Exists, Doc
  <2> QED BY <2>2, PushUpdates DEF Held
<1>2. CASE ~(Exists(w.flag) /\ g = w.flag)
  <2>1. flags'[g] = flags[g]
    BY <1>2 DEF ApplyPush, TypeOK
  <2> QED BY <2>1 DEF Held, Exists
<1> QED BY <1>1, <1>2

LEMMA StoreHeld ==
  ASSUME TypeOK, NEW w \in stores, ApplyStore(w), NEW g \in Flag
  PROVE  Held(g)' <=> Held(g)
<1>1. CASE Exists(w.flag) /\ g = w.flag
  <2>1. flags'[g] = [flags[g] EXCEPT !.captures = Append(@, w.capture)]
    BY <1>1 DEF ApplyStore, TypeOK
  <2>2. flags'[g].delivered = flags[g].delivered
    BY <1>1, <2>1 DEF TypeOK, Exists, Doc
  <2> QED BY <2>2, StoreUpdates DEF Held
<1>2. CASE ~(Exists(w.flag) /\ g = w.flag)
  <2>1. flags'[g] = flags[g]
    BY <1>2 DEF ApplyStore, TypeOK
  <2> QED BY <2>1 DEF Held, Exists
<1> QED BY <1>1, <1>2

\* A document that is saved says it has not been delivered.
LEMMA SaveHeld ==
  ASSUME TypeOK, NEW f \in saves, ApplySave(f), NEW g \in Flag
  PROVE  Held(g)' => Held(g)
<1>1. CASE g = f
  <2>1. flags'[g] = NewDoc
    BY <1>1 DEF ApplySave, TypeOK
  <2> QED BY <2>1 DEF Held, NewDoc
<1>2. CASE g # f
  <2>1. flags'[g] = flags[g]
    BY <1>2 DEF ApplySave, TypeOK
  <2> QED BY <2>1 DEF Held, Exists
<1> QED BY <1>1, <1>2

\* A step that starts no command and delivers nothing.
LEMMA OutcomesKept ==
  ASSUME Outcomes, planting' \subseteq planting, outcomes' \subseteq outcomes,
         \A f \in Flag : (Past(f) => Past(f)') /\ (Held(f)' => Held(f))
  PROVE  Outcomes'
BY DEF Outcomes, Sent

\* The flags of a new round have no outcome yet.
LEMMA OutcomesPlant ==
  ASSUME TypeOK, Dates, Outcomes, PlantFlags, UNCHANGED <<now, flags, outcomes>>, up',
         IF up THEN latestPlantTime < now ELSE TRUE,
         \A f \in Flag : Past(f) => Past(f)'
  PROVE  Outcomes'
<1>1. \A f \in Round(now) : f \in Flag /\ ~Past(f) /\ Past(f)' /\ ~Held(f)
  <2>1. \A f \in Round(now) : f \in Flag /\ f.time = now /\ ~Exists(f)
    BY FreshRound DEF Round
  <2> QED BY <2>1, TimesAreIntegers DEF PlantFlags, Past, Held
<1>2. \A f \in Flag : (Held(f)' <=> Held(f)) /\ Sent(f, TRUE)' = Sent(f, TRUE)
                      /\ Sent(f, FALSE)' = Sent(f, FALSE)
  BY DEF Held, Exists, Sent
<1>3. planting' = planting \cup Round(now)
  BY DEF PlantFlags
<1> QED BY <1>1, <1>2, <1>3 DEF Outcomes

LEMMA OutcomesStep ==
  TypeOK /\ Dates /\ FreshSaves /\ Outcomes /\ [Next]_vars => Outcomes'
<1> SUFFICES ASSUME TypeOK, Dates, FreshSaves, Outcomes, [Next]_vars PROVE Outcomes'
  OBVIOUS
<1>1. \A f \in Flag : Past(f) => Past(f)'
  BY PastKept
<1>2. CASE planting' \subseteq planting /\ outcomes' \subseteq outcomes /\ UNCHANGED flags
  BY <1>1, <1>2, OutcomesKept DEF Held, Exists
<1>3. CASE Start
  BY <1>1, <1>3, OutcomesPlant DEF Start, clockVars
<1>4. CASE PlantTimer
  BY <1>1, <1>4, OutcomesPlant DEF PlantTimer, clockVars
<1>5. ASSUME NEW f \in planting, NEW ok \in PlantResults, PlantDone(f, ok) PROVE Outcomes'
  <2>1. f \in Flag /\ ok \in BOOLEAN
    BY ConstantsAssumption DEF TypeOK
  <2>2. /\ planting' = planting \ {f} /\ UNCHANGED flags
        /\ outcomes' = outcomes \cup {[flag |-> f, delivered |-> ok]}
    BY <1>5 DEF PlantDone
  <2>3. \A g \in Flag : Held(g)' <=> Held(g)
    BY <2>2 DEF Held, Exists
  <2>4. \A g \in Flag, b \in BOOLEAN : Sent(g, b)' => Sent(g, b) \/ (g = f /\ b = ok)
    BY <2>2 DEF Sent
  <2>5. ASSUME NEW g \in Flag
        PROVE  /\ g \in planting' \/ Sent(g, TRUE)' \/ Sent(g, FALSE)' => Past(g)'
               /\ g \in planting' => ~Sent(g, TRUE)' /\ ~Sent(g, FALSE)' /\ ~Held(g)'
               /\ Sent(g, FALSE)' => ~Sent(g, TRUE)' /\ ~Held(g)'
    <3>1. CASE g = f
      BY <1>1, <2>1, <2>2, <2>3, <2>4, <3>1 DEF Outcomes
    <3>2. CASE g # f
      BY <1>1, <2>2, <2>3, <2>4, <3>2 DEF Outcomes
    <3> QED BY <3>1, <3>2
  <2> QED BY <2>5 DEF Outcomes
<1>6. ASSUME NEW f \in saves, ApplySave(f) PROVE Outcomes'
  BY <1>1, <1>6, SaveHeld, OutcomesKept DEF ApplySave, jobVars
<1>7. ASSUME NEW w \in outcomes, ApplyOutcome(w) PROVE Outcomes'
  <2>1. w.flag \in Flag /\ w.delivered \in BOOLEAN /\ Sent(w.flag, w.delivered)
    BY DEF TypeOK, Sent
  <2>2. outcomes' = outcomes \ {w} /\ UNCHANGED planting
    BY <1>7 DEF ApplyOutcome, jobVars
  <2>3. \A g \in Flag : Held(g)' => Held(g) \/ (g = w.flag /\ w.delivered)
    BY <1>7, OutcomeHeld
  <2>4. \A g \in Flag, b \in BOOLEAN : Sent(g, b)' => Sent(g, b)
    BY <2>2 DEF Sent
  <2> QED BY <1>1, <2>1, <2>2, <2>3, <2>4 DEF Outcomes
<1>8. ASSUME NEW w \in pushes, ApplyPush(w) PROVE Outcomes'
  BY <1>1, <1>8, PushHeld, OutcomesKept DEF ApplyPush, jobVars
<1>9. ASSUME NEW w \in stores, ApplyStore(w) PROVE Outcomes'
  BY <1>1, <1>9, StoreHeld, OutcomesKept DEF ApplyStore, jobVars
<1>10. \/ planting' \subseteq planting /\ outcomes' \subseteq outcomes /\ UNCHANGED flags
       \/ Start \/ PlantTimer
       \/ \E f \in planting, ok \in PlantResults : PlantDone(f, ok)
       \/ \E f \in saves : ApplySave(f)
       \/ \E w \in outcomes : ApplyOutcome(w)
       \/ \E w \in pushes : ApplyPush(w)
       \/ \E w \in stores : ApplyStore(w)
  BY DEF Next, DaemonStep, ClientStep, DbStep, CheckTimer, CheckDone, Decide, Acknowledge,
         Reconnect, NameTeam, SubmitFlag, Scan, FindOne, DbError, Tick, Crash, LoseWrite,
         vars, jobVars, dbVars
<1> QED BY <1>2, <1>3, <1>4, <1>5, <1>6, <1>7, <1>8, <1>9, <1>10
-----------------------------------------------------------------------------
(***************************************************************************)
(* Ticks.                                                                  *)
(***************************************************************************)

\* What the steps record.
LEMMA RecordedKept ==
  ASSUME TypeOK, [Next]_vars, NEW g \in Flag,
         ~\E w \in pushes : ApplyPush(w)
  PROVE  Recorded(g)' \subseteq Recorded(g)
<1>1. CASE UNCHANGED flags
  BY <1>1 DEF Recorded, Exists
<1>2. ASSUME NEW f \in saves, ApplySave(f) PROVE Recorded(g)' \subseteq Recorded(g)
  <2>1. CASE g = f
    <3>1. flags'[g] = NewDoc
      BY <1>2, <2>1 DEF ApplySave, TypeOK
    <3> QED BY <3>1 DEF Recorded, NewDoc
  <2>2. CASE g # f
    <3>1. flags'[g] = flags[g]
      BY <1>2, <2>2 DEF ApplySave, TypeOK
    <3> QED BY <3>1 DEF Recorded, Exists
  <2> QED BY <2>1, <2>2
<1>3. ASSUME NEW w \in outcomes, ApplyOutcome(w) PROVE Recorded(g)' \subseteq Recorded(g)
  BY <1>3, OutcomeUpdates DEF Recorded
<1>4. ASSUME NEW w \in stores, ApplyStore(w) PROVE Recorded(g)' \subseteq Recorded(g)
  BY <1>4, StoreUpdates DEF Recorded
<1>5. \/ UNCHANGED flags
      \/ \E f \in saves : ApplySave(f)
      \/ \E w \in outcomes : ApplyOutcome(w)
      \/ \E w \in stores : ApplyStore(w)
  BY DEF Next, DaemonStep, ClientStep, DbStep, Start, PlantTimer, CheckTimer, PlantDone,
         CheckDone, Decide, Acknowledge, Reconnect, NameTeam, SubmitFlag, Scan, FindOne,
         DbError, Tick, Crash, LoseWrite, vars, dbVars
<1> QED BY <1>1, <1>2, <1>3, <1>4, <1>5

LEMMA RecordedPushed ==
  ASSUME TypeOK, NEW w \in pushes, ApplyPush(w), NEW g \in Flag
  PROVE  Recorded(g)' = IF Exists(g) /\ g = w.flag THEN Recorded(g) \cup {w.check} ELSE Recorded(g)
<1>1. CASE ~Exists(g)
  BY <1>1, PushUpdates DEF Recorded
<1>2. CASE Exists(g) /\ g # w.flag
  BY <1>2, PushUpdates DEF Recorded
<1>3. CASE Exists(g) /\ g = w.flag
  <2> DEFINE s == flags[g].checks
  <2>1. /\ Exists(g)' /\ s \in Seq(Check) /\ w.check \in Check
        /\ flags'[g].checks = Append(s, w.check)
    BY <1>3, PushUpdates
  <2>2. /\ DOMAIN Append(s, w.check) = DOMAIN s \cup {Len(s) + 1}
        /\ \A i \in DOMAIN s : Append(s, w.check)[i] = s[i]
        /\ Append(s, w.check)[Len(s) + 1] = w.check
    BY <2>1, AppendProperties
  <2>3. {Append(s, w.check)[i] : i \in DOMAIN Append(s, w.check)}
          = {s[i] : i \in DOMAIN s} \cup {w.check}
    <3>1. Len(s) + 1 \notin DOMAIN s
      BY <2>1
    <3> QED BY <2>2, <3>1
  <2> QED BY <1>3, <2>1, <2>3 DEF Recorded
<1> QED BY <1>1, <1>2, <1>3

\* A step that begins and records nothing.
LEMMA TicksKept ==
  ASSUME Ticks, UNCHANGED lastTick,
         scans' \subseteq scans, checking' \subseteq checking, pushes' \subseteq pushes,
         \A f \in Flag : Recorded(f)' \subseteq Recorded(f)
  PROVE  Ticks'
BY DEF Ticks, Dated, NotScanned, NotRun, NotPushed

LEMMA TicksStep == TypeOK /\ Ticks /\ [Next]_vars => Ticks'
<1> SUFFICES ASSUME TypeOK, Ticks, [Next]_vars PROVE Ticks'
  OBVIOUS
<1>1. CASE CheckTimer
  <2> DEFINE new == [round |-> latestPlantTime, time |-> now]
  <2>1. /\ lastTick < now /\ lastTick' = now /\ now \in CheckTimes
        /\ scans' = scans \cup {new} /\ UNCHANGED <<now, checking, pushes, flags>>
    BY <1>1 DEF CheckTimer, clockVars, dbVars
  <2>2. \A f \in Flag : Recorded(f)' = Recorded(f)
    BY <2>1 DEF Recorded, Exists
  <2>3. lastTick \in Int /\ now \in Int /\ CheckTimes \subseteq Int
    BY ConstantsAssumption DEF TypeOK, Time, Never
  <2>4. ASSUME NEW t, Dated(t) PROVE Dated(t)' /\ t # now
    <3>1. t \in Int /\ t \in CheckTimes /\ t <= lastTick
      BY <2>3, <2>4 DEF Dated
    <3> QED BY <2>1, <2>3, <3>1 DEF Dated
  <2>5. Dated(now)'
    BY <2>1, <2>3 DEF Dated
  <2>6. \A t : Dated(t) /\ NotScanned(t) => NotScanned(t)'
    BY <2>1, <2>4 DEF NotScanned
  <2>7. \A s \in scans' : Dated(s.time)' /\ \A z \in scans' : z.time = s.time => z = s
    <3>1. \A s \in scans : Dated(s.time) /\ s.time # now
      BY <2>4 DEF Ticks
    <3> QED BY <2>1, <2>4, <2>5, <3>1 DEF Ticks
  <2>8. \A f, t : (NotRun(f, t)' <=> NotRun(f, t)) /\ (NotPushed(f, t)' <=> NotPushed(f, t))
    BY <2>1 DEF NotRun, NotPushed
  <2>9. \A k \in checking' : Dated(k.time)' /\ NotScanned(k.time)'
    BY <2>1, <2>4, <2>6 DEF Ticks
  <2>10. \A w \in pushes' :
           /\ Dated(w.check.time)' /\ NotScanned(w.check.time)' /\ NotRun(w.flag, w.check.time)'
           /\ \A v \in pushes' : v.flag = w.flag /\ v.check.time = w.check.time => v = w
    BY <2>1, <2>4, <2>6, <2>8 DEF Ticks
  <2>11. \A f \in Flag : \A c \in Recorded(f)' :
           Dated(c.time)' /\ NotScanned(c.time)' /\ NotRun(f, c.time)' /\ NotPushed(f, c.time)'
    BY <2>2, <2>4, <2>6, <2>8 DEF Ticks
  <2> QED BY <2>7, <2>9, <2>10, <2>11 DEF Ticks
<1>2. ASSUME NEW s \in scans, Scan(s) PROVE Ticks'
  <2>1. /\ scans' = scans \ {s} /\ UNCHANGED <<lastTick, pushes, flags>>
        /\ \A k \in checking' : k \in checking \/ k.time = s.time
    BY <1>2 DEF Scan, memoryVars, dbVars
  <2>2. \A f \in Flag : Recorded(f)' = Recorded(f)
    BY <2>1 DEF Recorded, Exists
  <2>3. /\ \A t : (Dated(t)' <=> Dated(t)) /\ (NotScanned(t) => NotScanned(t)')
        /\ \A f, t : NotPushed(f, t) <=> NotPushed(f, t)'
    BY <2>1 DEF Dated, NotScanned, NotPushed
  <2>4. \A f, t : NotScanned(t) /\ NotRun(f, t) => NotRun(f, t)'
    BY <2>1 DEF NotRun, NotScanned
  <2>5. Dated(s.time) /\ NotScanned(s.time)'
    BY <2>1 DEF Ticks, NotScanned
  <2>6. \A k \in checking' : Dated(k.time)' /\ NotScanned(k.time)'
    BY <2>1, <2>3, <2>5 DEF Ticks
  <2>7. \A z \in scans' : Dated(z.time)' /\ \A y \in scans' : y.time = z.time => y = z
    BY <2>1, <2>3 DEF Ticks
  <2>8. \A w \in pushes' :
          /\ Dated(w.check.time)' /\ NotScanned(w.check.time)' /\ NotRun(w.flag, w.check.time)'
          /\ \A v \in pushes' : v.flag = w.flag /\ v.check.time = w.check.time => v = w
    BY <2>1, <2>3, <2>4 DEF Ticks
  <2>9. \A f \in Flag : \A c \in Recorded(f)' :
          Dated(c.time)' /\ NotScanned(c.time)' /\ NotRun(f, c.time)' /\ NotPushed(f, c.time)'
    BY <2>2, <2>3, <2>4 DEF Ticks
  <2> QED BY <2>6, <2>7, <2>8, <2>9 DEF Ticks
<1>3. ASSUME NEW k \in checking, NEW ok \in CheckResults, CheckDone(k, ok) PROVE Ticks'
  <2> DEFINE new == [flag |-> k.flag, check |-> [time |-> k.time, result |-> ok]]
  <2>1. /\ checking' = checking \ {k} /\ pushes' = pushes \cup {new}
        /\ UNCHANGED <<lastTick, scans, flags>>
    BY <1>3 DEF CheckDone, memoryVars
  <2>2. \A f \in Flag : Recorded(f)' = Recorded(f)
    BY <2>1 DEF Recorded, Exists
  <2>3. new.flag = k.flag /\ new.check.time = k.time
    OBVIOUS
  <2>4. /\ \A t : (Dated(t)' <=> Dated(t)) /\ (NotScanned(t)' <=> NotScanned(t))
        /\ \A f, t : NotRun(f, t) => NotRun(f, t)'
        /\ \A f, t : NotRun(f, t) /\ NotPushed(f, t) => NotPushed(f, t)'
    BY <2>1, <2>3 DEF Dated, NotScanned, NotRun, NotPushed
  <2>5. NotRun(k.flag, k.time)'
    <3>1. \A j \in checking : j.flag = k.flag /\ j.time = k.time => j = k
      BY DEF TypeOK
    <3> QED BY <2>1, <3>1 DEF NotRun
  <2>6. \A w \in pushes : ~(w.flag = k.flag /\ w.check.time = k.time)
    BY DEF Ticks, NotRun
  <2>7. Dated(k.time) /\ NotScanned(k.time)
    BY DEF Ticks
  <2>8. \A w \in pushes' :
          Dated(w.check.time)' /\ NotScanned(w.check.time)' /\ NotRun(w.flag, w.check.time)'
    BY <2>1, <2>3, <2>4, <2>5, <2>7 DEF Ticks
  <2>9. \A w, v \in pushes' : v.flag = w.flag /\ v.check.time = w.check.time => v = w
    BY <2>1, <2>3, <2>6 DEF Ticks
  <2>10. \A s \in scans' : Dated(s.time)' /\ \A z \in scans' : z.time = s.time => z = s
    BY <2>1, <2>4 DEF Ticks
  <2>11. \A j \in checking' : Dated(j.time)' /\ NotScanned(j.time)'
    BY <2>1, <2>4 DEF Ticks
  <2>12. \A f \in Flag : \A c \in Recorded(f)' :
           Dated(c.time)' /\ NotScanned(c.time)' /\ NotRun(f, c.time)' /\ NotPushed(f, c.time)'
    BY <2>2, <2>4 DEF Ticks
  <2> QED BY <2>8, <2>9, <2>10, <2>11, <2>12 DEF Ticks
<1>4. ASSUME NEW w \in pushes, ApplyPush(w) PROVE Ticks'
  <2>1. /\ pushes' = pushes \ {w} /\ UNCHANGED <<lastTick, scans, checking>>
    BY <1>4 DEF ApplyPush, memoryVars, jobVars
  <2>2. \A f \in Flag : \A c \in Recorded(f)' : c \in Recorded(f) \/ (f = w.flag /\ c = w.check)
    BY <1>4, RecordedPushed
  <2>3. /\ \A t : (Dated(t)' <=> Dated(t)) /\ (NotScanned(t)' <=> NotScanned(t))
        /\ \A f, t : (NotRun(f, t)' <=> NotRun(f, t)) /\ (NotPushed(f, t) => NotPushed(f, t)')
    BY <2>1 DEF Dated, NotScanned, NotRun, NotPushed
  <2>4. /\ Dated(w.check.time) /\ NotScanned(w.check.time) /\ NotRun(w.flag, w.check.time)
        /\ NotPushed(w.flag, w.check.time)'
    BY <2>1 DEF Ticks, NotPushed
  <2>5. \A f \in Flag : \A c \in Recorded(f)' :
          Dated(c.time)' /\ NotScanned(c.time)' /\ NotRun(f, c.time)' /\ NotPushed(f, c.time)'
    BY <2>2, <2>3, <2>4 DEF Ticks
  <2>6. \A v \in pushes' :
          /\ Dated(v.check.time)' /\ NotScanned(v.check.time)' /\ NotRun(v.flag, v.check.time)'
          /\ \A u \in pushes' : u.flag = v.flag /\ u.check.time = v.check.time => u = v
    BY <2>1, <2>3 DEF Ticks
  <2>7. \A s \in scans' : Dated(s.time)' /\ \A z \in scans' : z.time = s.time => z = s
    BY <2>1, <2>3 DEF Ticks
  <2>8. \A k \in checking' : Dated(k.time)' /\ NotScanned(k.time)'
    BY <2>1, <2>3 DEF Ticks
  <2> QED BY <2>5, <2>6, <2>7, <2>8 DEF Ticks
<1>5. ASSUME ~\E w \in pushes : ApplyPush(w), ~CheckTimer,
             ~\E s \in scans : Scan(s),
             ~\E k \in checking, ok \in CheckResults : CheckDone(k, ok)
      PROVE  Ticks'
  <2>1. /\ UNCHANGED lastTick /\ scans' \subseteq scans
        /\ checking' \subseteq checking /\ pushes' \subseteq pushes
    BY <1>5 DEF Next, DaemonStep, ClientStep, DbStep, Start, PlantTimer, PlantFlags, PlantDone,
         Decide, Acknowledge, Reconnect, NameTeam, SubmitFlag, FindOne, ApplySave, ApplyOutcome,
         ApplyStore, DbError, Tick, Crash, LoseWrite, vars, memoryVars, jobVars, dbVars
  <2>2. \A f \in Flag : Recorded(f)' \subseteq Recorded(f)
    BY <1>5, RecordedKept
  <2> QED BY <2>1, <2>2, TicksKept
<1> QED BY <1>1, <1>2, <1>3, <1>4, <1>5
-----------------------------------------------------------------------------
(***************************************************************************)
(* The daemon implements the ledger.                                       *)
(***************************************************************************)

LEMMA ThievesStep == TypeOK /\ Thieves /\ [Next]_vars => Thieves'
<1> SUFFICES ASSUME TypeOK, Thieves, [Next]_vars PROVE Thieves'
  OBVIOUS
<1>1. CASE stores' \subseteq stores
  BY <1>1 DEF Thieves
<1>2. ASSUME NEW r \in Reqs, Decide(r), stores' # stores PROVE Thieves'
  <2> DEFINE q == req[r]
             u == [flag |-> q.flag, capture |-> [team |-> q.team, time |-> now], req |-> r]
  <2>1. Refusal(q) = 0 /\ stores' = stores \cup {u}
    BY <1>2 DEF Decide
  <2>2. q.flag.team # q.team
    BY <2>1 DEF Refusal
  <2> QED BY <2>1, <2>2 DEF Thieves
<1>3. stores' \subseteq stores \/ \E r \in Reqs : Decide(r)
  BY DEF Next, DaemonStep, ClientStep, DbStep, Start, PlantTimer, PlantFlags, CheckTimer,
         PlantDone, CheckDone, Acknowledge, Reconnect, NameTeam, SubmitFlag, Scan, FindOne,
         ApplySave, ApplyOutcome, ApplyPush, ApplyStore, DbError, Tick, Crash, LoseWrite,
         vars, dbVars
<1> QED BY <1>1, <1>2, <1>3

LEMMA LedgerInvInit == Init => LedgerInv
<1> SUFFICES ASSUME Init PROVE LedgerInv
  OBVIOUS
<1>1. FreshSaves
  BY DEF Init, FreshSaves
<1>2. \A f \in Flag : Recorded(f) = {}
  BY DEF Init, Recorded, Exists
<1>3. Ticks
  BY <1>2 DEF Init, Ticks
<1>4. Outcomes
  BY DEF Init, Outcomes, Sent
<1>5. Thieves
  BY DEF Init, Thieves
<1> QED BY <1>1, <1>3, <1>4, <1>5, TypeInit, DatesInit DEF LedgerInv

LEMMA LedgerInvStep == LedgerInv /\ [Next]_vars => LedgerInv'
BY TypeStep, DatesStep, FreshStep, OutcomesStep, TicksStep, ThievesStep DEF LedgerInv

\* The captors an update adds.
LEMMA CapturersStored ==
  ASSUME TypeOK, NEW w \in stores, ApplyStore(w), NEW g \in Flag
  PROVE  Capturers(g)' = IF Exists(g) /\ g = w.flag THEN Capturers(g) \cup {w.capture.team}
                         ELSE Capturers(g)
<1>1. CASE ~Exists(g)
  BY <1>1, StoreUpdates DEF Capturers
<1>2. CASE Exists(g) /\ g # w.flag
  BY <1>2, StoreUpdates DEF Capturers
<1>3. CASE Exists(g) /\ g = w.flag
  <2> DEFINE s == flags[g].captures
  <2>1. /\ Exists(g)' /\ s \in Seq(Capture) /\ w.capture \in Capture
        /\ flags'[g].captures = Append(s, w.capture)
    BY <1>3, StoreUpdates
  <2>2. /\ DOMAIN Append(s, w.capture) = DOMAIN s \cup {Len(s) + 1}
        /\ Len(s) + 1 \notin DOMAIN s
        /\ \A i \in DOMAIN s : Append(s, w.capture)[i] = s[i]
        /\ Append(s, w.capture)[Len(s) + 1] = w.capture
    BY <2>1, AppendProperties
  <2>3. {Append(s, w.capture)[i].team : i \in DOMAIN Append(s, w.capture)}
          = {s[i].team : i \in DOMAIN s} \cup {w.capture.team}
    <3> DEFINE e == Append(s, w.capture)
    <3>1. \A i \in DOMAIN e : \/ i \in DOMAIN s /\ e[i] = s[i]
                              \/ e[i] = w.capture
      BY <2>2
    <3>2. \A i \in DOMAIN s : i \in DOMAIN e /\ e[i] = s[i]
      BY <2>2
    <3>3. \E i \in DOMAIN e : e[i] = w.capture
      BY <2>2
    <3> HIDE DEF e, s
    <3>4. ASSUME NEW t
          PROVE  (\E i \in DOMAIN e : t = e[i].team)
                   <=> (\E i \in DOMAIN s : t = s[i].team) \/ t = w.capture.team
      BY <3>1, <3>2, <3>3
    <3>5. \A t : t \in {e[i].team : i \in DOMAIN e}
                   <=> t \in {s[i].team : i \in DOMAIN s} \cup {w.capture.team}
      BY <3>4
    <3>6. {e[i].team : i \in DOMAIN e} = {s[i].team : i \in DOMAIN s} \cup {w.capture.team}
      BY <3>5, Zenon
    <3> QED BY <3>6 DEF e
  <2>4. Capturers(g) = {s[i].team : i \in DOMAIN s}
    BY <1>3 DEF Capturers
  <2>5. Capturers(g)' = {Append(s, w.capture)[i].team : i \in DOMAIN Append(s, w.capture)}
    BY <2>1 DEF Capturers
  <2> QED BY <1>3, <2>3, <2>4, <2>5
<1> QED BY <1>1, <1>2, <1>3

\* What the collection says of a flag, as a reader of the ledger sees it.
LEMMA SaveRegisters ==
  ASSUME LedgerInv, NEW f \in saves, ApplySave(f)
  PROVE  Ledger!Register(f)
<1>1. f \in Flag /\ ~Exists(f)
  BY DEF LedgerInv, TypeOK, FreshSaves
<1>2. /\ flags'[f] = NewDoc
      /\ \A g \in Flag : g # f => flags'[g] = flags[g]
  BY <1>1 DEF ApplySave, LedgerInv, TypeOK
<1>3. NewDoc # NoDoc
  BY TypeFacts
<1>4. \A g \in Flag : Exists(g)' <=> Exists(g) \/ g = f
  BY <1>2, <1>3 DEF Exists
<1>5. \A g \in Flag : Held(g)' <=> Held(g)
  BY <1>1, <1>2, <1>4 DEF Held, NewDoc
<1>6. ASSUME NEW g \in Flag
      PROVE  Capturers(g)' = Capturers(g) /\ Recorded(g)' = Recorded(g)
  <2>1. CASE g = f
    <3>1. Capturers(g) = {} /\ Recorded(g) = {}
      BY <1>1, <2>1 DEF Capturers, Recorded
    <3>2. flags'[g].captures = << >> /\ flags'[g].checks = << >>
      BY <1>2, <2>1 DEF NewDoc
    <3>3. Capturers(g)' \subseteq {} /\ Recorded(g)' \subseteq {}
      BY <3>2 DEF Capturers, Recorded
    <3> QED BY <3>1, <3>3
  <2>2. CASE g # f
    BY <1>2, <2>2 DEF Capturers, Recorded, Exists
  <2> QED BY <2>1, <2>2
<1>8. {g \in Flag : Exists(g)}' = {g \in Flag : Exists(g)} \cup {f}
  BY <1>1, <1>4
<1>9. UNCHANGED {g \in Flag : Exists(g) /\ flags[g].delivered}
  BY <1>5 DEF Held
<1>10. UNCHANGED [g \in Flag |-> Capturers(g)]
  BY <1>6
<1>11. UNCHANGED [g \in Flag |-> IF Exists(g)
                   THEN {flags[g].checks[i] : i \in DOMAIN flags[g].checks} ELSE {}]
  BY <1>6 DEF Recorded
<1> QED BY <1>1, <1>8, <1>9, <1>10, <1>11 DEF Ledger!Register

LEMMA OutcomeDelivers ==
  ASSUME LedgerInv, NEW w \in outcomes, ApplyOutcome(w)
  PROVE  Ledger!Deliver(w.flag) \/ UNCHANGED Ledger!ledger
<1>1. TypeOK /\ w.flag \in Flag /\ w.delivered \in BOOLEAN /\ Sent(w.flag, w.delivered)
  BY DEF LedgerInv, TypeOK, Sent
<1>2. \A g \in Flag : /\ Exists(g)' <=> Exists(g)
                      /\ Capturers(g)' = Capturers(g)
                      /\ Recorded(g)' = Recorded(g)
  BY <1>1, OutcomeUpdates DEF Capturers, Recorded
<1>3. \A g \in Flag : Held(g)' <=> Exists(g) /\ IF g = w.flag THEN w.delivered ELSE Held(g)
  BY <1>1, OutcomeHeld
<1>4. /\ UNCHANGED {g \in Flag : Exists(g)}
      /\ UNCHANGED [g \in Flag |-> Capturers(g)]
      /\ UNCHANGED [g \in Flag |-> IF Exists(g)
                     THEN {flags[g].checks[i] : i \in DOMAIN flags[g].checks} ELSE {}]
  BY <1>2 DEF Recorded
<1>5. \A g \in Flag : Held(g) => Exists(g)
  BY DEF Held
<1>6. CASE Exists(w.flag) /\ w.delivered
  <2>1. \A g \in Flag : Held(g)' <=> Held(g) \/ g = w.flag
    BY <1>3, <1>5, <1>6
  <2>2. {g \in Flag : Exists(g) /\ flags[g].delivered}'
          = {g \in Flag : Exists(g) /\ flags[g].delivered} \cup {w.flag}
    BY <1>1, <2>1 DEF Held
  <2> QED BY <1>1, <1>4, <1>6, <2>2 DEF Ledger!Deliver
<1>7. CASE ~(Exists(w.flag) /\ w.delivered)
  <2>1. ~Held(w.flag)
    <3>1. CASE ~Exists(w.flag)
      BY <3>1 DEF Held
    <3>2. CASE ~w.delivered
      <4>1. Sent(w.flag, FALSE)
        BY <1>1, <3>2
      <4> QED BY <1>1, <4>1 DEF LedgerInv, Outcomes
    <3> QED BY <1>7, <3>1, <3>2
  <2>2. \A g \in Flag : Held(g)' <=> Held(g)
    BY <1>3, <1>5, <1>7, <2>1
  <2>3. UNCHANGED {g \in Flag : Exists(g) /\ flags[g].delivered}
    BY <2>2 DEF Held
  <2> QED BY <1>4, <2>3 DEF Ledger!ledger
<1> QED BY <1>6, <1>7

LEMMA PushJudges ==
  ASSUME LedgerInv, NEW w \in pushes, ApplyPush(w)
  PROVE  \/ Ledger!Judge(w.flag, w.check.time, w.check.result)
         \/ UNCHANGED Ledger!ledger
<1>1. TypeOK /\ w.flag \in Flag /\ w.check \in Check
  BY DEF LedgerInv, TypeOK
<1>2. w.check = [time |-> w.check.time, result |-> w.check.result]
  BY <1>1 DEF Check
<1>3. ASSUME NEW g \in Flag
      PROVE  /\ Exists(g)' <=> Exists(g)
             /\ Held(g)' <=> Held(g)
             /\ Capturers(g)' = Capturers(g)
  <2>1. /\ Exists(g)' <=> Exists(g)
        /\ Exists(g) => flags'[g].captures = flags[g].captures
    BY <1>1, PushUpdates
  <2> QED BY <1>1, <2>1, PushHeld DEF Capturers
<1>4. /\ UNCHANGED {g \in Flag : Exists(g)}
      /\ UNCHANGED {g \in Flag : Exists(g) /\ flags[g].delivered}
      /\ UNCHANGED [g \in Flag |-> Capturers(g)]
  BY <1>3 DEF Held
<1>5. \A g \in Flag : Recorded(g)' = IF Exists(g) /\ g = w.flag THEN Recorded(g) \cup {w.check}
                                     ELSE Recorded(g)
  BY <1>1, RecordedPushed
<1>6. CASE Exists(w.flag)
  <2> DEFINE results == [g \in Flag |-> Recorded(g)]
  <2>1. \A c \in Recorded(w.flag) : c.time # w.check.time
    BY <1>1 DEF LedgerInv, Ticks, NotPushed
  <2>2. results' = [results EXCEPT ![w.flag] =
                      @ \cup {[time |-> w.check.time, result |-> w.check.result]}]
    BY <1>1, <1>2, <1>5, <1>6
  <2>3. w.flag \in {g \in Flag : Exists(g)} /\ results[w.flag] = Recorded(w.flag)
    BY <1>1, <1>6
  <2> QED BY <1>4, <2>1, <2>2, <2>3 DEF Ledger!Judge, Recorded
<1>7. CASE ~Exists(w.flag)
  <2>1. UNCHANGED [g \in Flag |-> Recorded(g)]
    BY <1>5, <1>7
  <2> QED BY <1>4, <2>1 DEF Ledger!ledger, Recorded
<1> QED BY <1>6, <1>7

LEMMA StoreCaptures ==
  ASSUME LedgerInv, NEW w \in stores, ApplyStore(w)
  PROVE  Ledger!Capture(w.flag, w.capture.team) \/ UNCHANGED Ledger!ledger
<1>1. TypeOK /\ w.flag \in Flag /\ w.capture.team \in Teams
  BY DEF LedgerInv, TypeOK, Capture
<1>2. ASSUME NEW g \in Flag
      PROVE  /\ Exists(g)' <=> Exists(g)
             /\ Held(g)' <=> Held(g)
             /\ Recorded(g)' = Recorded(g)
  <2>1. /\ Exists(g)' <=> Exists(g)
        /\ Exists(g) => flags'[g].checks = flags[g].checks
    BY <1>1, StoreUpdates
  <2> QED BY <1>1, <2>1, StoreHeld DEF Recorded
<1>3. /\ UNCHANGED {g \in Flag : Exists(g)}
      /\ UNCHANGED {g \in Flag : Exists(g) /\ flags[g].delivered}
      /\ UNCHANGED [g \in Flag |-> IF Exists(g)
                     THEN {flags[g].checks[i] : i \in DOMAIN flags[g].checks} ELSE {}]
  BY <1>2 DEF Held, Recorded
<1>4. \A g \in Flag : Capturers(g)' = IF Exists(g) /\ g = w.flag
                                      THEN Capturers(g) \cup {w.capture.team} ELSE Capturers(g)
  BY <1>1, CapturersStored
<1>5. CASE Exists(w.flag)
  <2> DEFINE captors == [g \in Flag |-> Capturers(g)]
  <2>1. captors' = [captors EXCEPT ![w.flag] = @ \cup {w.capture.team}]
    BY <1>1, <1>4, <1>5
  <2>2. w.capture.team # [f \in Flag |-> f.team][w.flag]
    BY <1>1 DEF LedgerInv, Thieves
  <2>3. w.flag \in {g \in Flag : Exists(g)}
    BY <1>1, <1>5
  <2> QED BY <1>3, <2>1, <2>2, <2>3 DEF Ledger!Capture
<1>6. CASE ~Exists(w.flag)
  <2>1. UNCHANGED [g \in Flag |-> Capturers(g)]
    BY <1>4, <1>6
  <2> QED BY <1>3, <2>1 DEF Ledger!ledger
<1> QED BY <1>5, <1>6

LEMMA LedgerStep == LedgerInv /\ [Next]_vars => [Ledger!Next]_(Ledger!ledger)
<1> SUFFICES ASSUME LedgerInv, [Next]_vars PROVE [Ledger!Next]_(Ledger!ledger)
  OBVIOUS
<1>1. ASSUME NEW f \in saves, ApplySave(f) PROVE Ledger!Next
  BY <1>1, SaveRegisters DEF Ledger!Next, LedgerInv, TypeOK
<1>2. ASSUME NEW w \in outcomes, ApplyOutcome(w) PROVE Ledger!Next \/ UNCHANGED Ledger!ledger
  <2>1. w.flag \in Flag
    BY DEF LedgerInv, TypeOK
  <2> QED BY <1>2, <2>1, OutcomeDelivers DEF Ledger!Next
<1>3. ASSUME NEW w \in pushes, ApplyPush(w) PROVE Ledger!Next \/ UNCHANGED Ledger!ledger
  <2>1. w.flag \in Flag /\ w.check.time \in CheckTimes /\ w.check.result \in BOOLEAN
    BY DEF LedgerInv, TypeOK, Ticks, Dated, Check
  <2> QED BY <1>3, <2>1, PushJudges DEF Ledger!Next
<1>4. ASSUME NEW w \in stores, ApplyStore(w) PROVE Ledger!Next \/ UNCHANGED Ledger!ledger
  <2>1. w.flag \in Flag /\ w.capture.team \in Teams
    BY DEF LedgerInv, TypeOK, Capture
  <2> QED BY <1>4, <2>1, StoreCaptures DEF Ledger!Next
<1>5. CASE UNCHANGED flags
  BY <1>5 DEF Ledger!ledger, Exists, Capturers
<1>6. \/ UNCHANGED flags
      \/ \E f \in saves : ApplySave(f)
      \/ \E w \in outcomes : ApplyOutcome(w)
      \/ \E w \in pushes : ApplyPush(w)
      \/ \E w \in stores : ApplyStore(w)
  BY DEF Next, DaemonStep, ClientStep, DbStep, Start, PlantTimer, CheckTimer, PlantDone,
         CheckDone, Decide, Acknowledge, Reconnect, NameTeam, SubmitFlag, Scan, FindOne,
         DbError, Tick, Crash, LoseWrite, vars, dbVars
<1> QED BY <1>1, <1>2, <1>3, <1>4, <1>5, <1>6

\* The collection implements FlagLedger, through reordered and failing writes and
\* any number of crashes: documents stay, deliveries, captures and check results
\* are never taken back, no owner captures and a check of a flag has one result.
THEOREM LedgerImplemented == Spec => LedgerKept
<1>1. Init => Ledger!Init
  BY DEF Init, Ledger!Init, Exists, Capturers
<1> QED BY <1>1, LedgerInvInit, LedgerInvStep, LedgerStep, PTL
        DEF Spec, LedgerKept, Ledger!Spec
-----------------------------------------------------------------------------
(***************************************************************************)
(* A capture is listed once.                                               *)
(***************************************************************************)

\* A step that keeps the captures and adds no update: it may let time pass, begin
\* a round or answer requests that no update belongs to.
LEMMA ListingsKept ==
  ASSUME TypeOK, Listings,
         \A f \in Flag : Capturers(f)' = Capturers(f), CapturedOnce', Quiescent',
         stores' \subseteq stores,
         now' \in Int, now <= now', latestPlantTime' \in Int,
         \A w \in stores' : Owned(w) => (Waited(w) \/ LeftBehind(w))',
         \A r \in Reqs : req'[r].phase = "found" =>
           \/ req'[r] = req[r] /\ latestPlantTime <= latestPlantTime'
           \/ /\ req'[r].flag \in Flag
              /\ req'[r].listed <=> req'[r].team \in Capturers(req'[r].flag)
  PROVE  Listings'
<1> USE TimesAreIntegers
<1>1. ASSUME NEW w \in stores' PROVE Owned(w)'
  <2>1. w \in stores /\ w.flag \in Flag /\ Owned(w)
    BY DEF Listings
  <2>2. w.flag.time <= now'
    BY <2>1 DEF Owned
  <2>3. (Waited(w) \/ LeftBehind(w))'
    BY <2>1
  <2>4. w.capture.team \notin Capturers(w.flag)'
    BY <2>1 DEF Owned
  <2> QED BY <2>2, <2>3, <2>4 DEF Owned
<1>2. ASSUME NEW r \in Reqs, req'[r].phase = "found", ~req'[r].listed,
             latestPlantTime' <= req'[r].flag.time,
             NEW f \in Flag, f = req'[r].flag
      PROVE  req'[r].team \notin Capturers(f)'
  <2>1. CASE req'[r] = req[r] /\ latestPlantTime <= latestPlantTime'
    <3>1. latestPlantTime <= req[r].flag.time
      BY <1>2, <2>1
    <3>2. req[r].team \notin Capturers(f)
      BY <1>2, <2>1, <3>1 DEF Listings, Findings
    <3> QED BY <2>1, <3>2
  <2>2. CASE req'[r].listed <=> req'[r].team \in Capturers(req'[r].flag)
    BY <1>2, <2>2
  <2> QED BY <1>2, <2>1, <2>2
<1>4. ASSUME NEW r \in Reqs, req'[r].phase = "found" PROVE req'[r].flag \in Flag
  BY <1>4, RequestFacts DEF TypeOK
<1>5. Findings'
  BY <1>2, <1>4 DEF Findings, Capturers, Exists
<1>3. \A w, v \in stores' : Single(w, v)
  BY DEF Listings
<1> QED BY <1>1, <1>3, <1>5 DEF Listings, Single

\* Only updates list captures.
LEMMA CapturesUntouched ==
  ASSUME TypeOK, FreshSaves, CapturedOnce, [Next]_vars, ~\E w \in stores : ApplyStore(w)
  PROVE  CapturedOnce' /\ \A g \in Flag : Capturers(g)' = Capturers(g)
<1>1. CASE UNCHANGED flags
  BY <1>1 DEF CapturedOnce, Capturers, Exists
<1>2. ASSUME NEW f \in saves, ApplySave(f), NEW g \in Flag
      PROVE  Capturers(g)' = Capturers(g) /\ (flags'[g] = flags[g] \/ flags'[g].captures = << >>)
  <2>1. CASE g = f
    <3>1. Capturers(g) = {}
      BY <2>1 DEF FreshSaves, Capturers
    <3>2. flags'[g].captures = << >>
      BY <1>2, <2>1 DEF ApplySave, TypeOK, NewDoc
    <3>3. Capturers(g)' \subseteq {}
      BY <3>2 DEF Capturers
    <3> QED BY <3>1, <3>2, <3>3
  <2>2. CASE g # f
    <3>1. flags'[g] = flags[g]
      BY <1>2, <2>2 DEF ApplySave, TypeOK
    <3> QED BY <3>1 DEF Capturers, Exists
  <2> QED BY <2>1, <2>2
<1>3. ASSUME NEW f \in saves, ApplySave(f) PROVE CapturedOnce'
  <2>1. \A g \in Flag : flags'[g] = flags[g] \/ flags'[g].captures = << >>
    BY <1>2, <1>3
  <2>2. \A g \in Flag : flags'[g].captures = << >> => DOMAIN flags'[g].captures = {}
    OBVIOUS
  <2> QED BY <2>1, <2>2 DEF CapturedOnce, Exists
<1>4. ASSUME NEW w \in outcomes, ApplyOutcome(w), NEW g \in Flag
      PROVE  /\ Exists(g)' <=> Exists(g)
             /\ Exists(g) => flags'[g].captures = flags[g].captures
  BY <1>4, OutcomeUpdates
<1>5. ASSUME NEW w \in pushes, ApplyPush(w), NEW g \in Flag
      PROVE  /\ Exists(g)' <=> Exists(g)
             /\ Exists(g) => flags'[g].captures = flags[g].captures
  BY <1>5, PushUpdates
<1>6. CASE \A g \in Flag : /\ Exists(g)' <=> Exists(g)
                           /\ Exists(g) => flags'[g].captures = flags[g].captures
  BY <1>6 DEF CapturedOnce, Capturers
<1>7. \/ UNCHANGED flags
      \/ \E f \in saves : ApplySave(f)
      \/ \E w \in outcomes : ApplyOutcome(w)
      \/ \E w \in pushes : ApplyPush(w)
  BY DEF Next, DaemonStep, ClientStep, DbStep, Start, PlantTimer, CheckTimer, PlantDone,
         CheckDone, Decide, Acknowledge, Reconnect, NameTeam, SubmitFlag, Scan, FindOne,
         DbError, Tick, Crash, LoseWrite, vars, dbVars
<1> QED BY <1>1, <1>2, <1>3, <1>4, <1>5, <1>6, <1>7

\* A request sends one update, of a capture that is neither listed nor on its way.
LEMMA DecideListings ==
  ASSUME TypeOK, Dates, Listings, NoRace, NEW r \in Reqs, Decide(r)
  PROVE  Listings'
<1> DEFINE q == req[r]
<1> USE TimesAreIntegers DEF vars, clockVars, memoryVars
<1>1. up /\ r \in Reqs /\ q \in Request /\ q.phase \in {"missing", "found"}
  BY DEF Decide, TypeOK
<1>2. \A w \in stores : w.req # r
  BY <1>1 DEF Listings, Owned, Waited, LeftBehind
<1>3. UNCHANGED <<now, up, latestPlantTime, flags>>
  BY DEF Decide
<1>4. \A x \in Reqs : x # r => req'[x] = req[x]
  BY DEF Decide, TypeOK
<1>5. /\ \A g \in Flag : Capturers(g)' = Capturers(g)
      /\ CapturedOnce' /\ Quiescent'
  BY <1>1, <1>3 DEF Capturers, Exists, CapturedOnce, Listings, Quiescent
<1>6. CASE UNCHANGED stores
  <2>1. \A w \in stores' : Owned(w) => (Waited(w) \/ LeftBehind(w))'
    BY <1>2, <1>3, <1>4, <1>6 DEF Owned, Waited, LeftBehind, TypeOK
  <2>2. req'[r].phase # "found"
    BY DEF Decide, TypeOK
  <2> QED BY <1>3, <1>4, <1>5, <1>6, <2>1, <2>2, ListingsKept
<1>7. CASE ~UNCHANGED stores
  <2>1. /\ Refusal(q) = 0
        /\ stores' = stores \cup
             {[flag |-> q.flag, capture |-> [team |-> q.team, time |-> now], req |-> r]}
        /\ req' = [req EXCEPT ![r] = [phase |-> "update", flag |-> q.flag, team |-> q.team]]
    BY <1>7 DEF Decide
  <2>2. q.phase = "found" /\ ~q.listed /\ q.flag.time = latestPlantTime
    BY <1>1, <2>1 DEF Refusal
  <2>3. PICK f \in Flag, t \in Teams : f = q.flag /\ t = q.team
    BY <1>1, <2>2, RequestFacts
  <2>4. PICK u : /\ stores' = stores \cup {u}
                 /\ u.flag = f /\ u.capture.team = t /\ u.req = r
    <3> DEFINE d == [flag |-> f, capture |-> [team |-> t, time |-> now], req |-> r]
    <3>1. stores' = stores \cup {d}
      BY <2>1, <2>3
    <3>2. d.flag = f /\ d.capture.team = t /\ d.req = r
      OBVIOUS
    <3> HIDE DEF d
    <3> QED BY <3>1, <3>2
  <2>5. req'[r] = [phase |-> "update", flag |-> f, team |-> t]
    BY <2>1, <2>3 DEF TypeOK
  <2>6. Owned(u)'
    <3>1. f.time <= now
      BY <1>1, <2>2, <2>3 DEF Dates
    <3>2. t \notin Capturers(f)
      BY <2>2, <2>3 DEF Listings, Findings
    <3>3. t \notin Capturers(f)'
      BY <1>5, <3>2
    <3>4. Waited(u)'
      BY <2>4, <2>5 DEF Waited
    <3> QED BY <1>3, <2>4, <3>1, <3>3, <3>4 DEF Owned
  <2>7. ASSUME NEW w \in stores PROVE Owned(w)' /\ Single(w, u) /\ Single(u, w)
    <3>1. w.req \in Reqs /\ w.req # r /\ w.flag \in Flag /\ Owned(w)
      BY <1>2 DEF Listings, TypeOK
    <3>2. Owned(w)'
      BY <1>3, <1>4, <1>5, <3>1 DEF Owned, Waited, LeftBehind
    <3>3. ~(w.flag = f /\ w.capture.team = t)
      BY <1>1, <2>2, <2>3, <3>1 DEF Owned, Waited, LeftBehind, NoRace, Racing
    <3> QED BY <2>4, <3>1, <3>2, <3>3 DEF Single
  <2>8. \A w, v \in stores' : Owned(w)' /\ Single(w, v)
    BY <2>4, <2>6, <2>7 DEF Listings, Single
  <2>9. ASSUME NEW x \in Reqs, req'[x].phase = "found", ~req'[x].listed,
               latestPlantTime' <= req'[x].flag.time, NEW g \in Flag, g = req'[x].flag
        PROVE  req'[x].team \notin Capturers(g)'
    <3>1. req'[x] = req[x]
      BY <1>4, <2>5, <2>9
    <3>2. req[x].team \notin Capturers(g)
      BY <1>3, <2>9, <3>1 DEF Listings, Findings
    <3> QED BY <1>5, <3>1, <3>2
  <2>10. ASSUME NEW x \in Reqs, req'[x].phase = "found" PROVE req'[x].flag \in Flag
    <3>1. req'[x] = req[x]
      BY <1>4, <2>5, <2>10
    <3> QED BY <2>10, <3>1, RequestFacts DEF TypeOK
  <2>11. Findings'
    BY <2>9, <2>10 DEF Findings, Capturers, Exists
  <2> QED BY <1>5, <2>8, <2>11 DEF Listings, Single
<1> QED BY <1>6, <1>7

\* An update is applied: nobody else is about to list this capture.
LEMMA StoreListings ==
  ASSUME TypeOK, Listings, NoRace, NEW w \in stores, ApplyStore(w)
  PROVE  Listings'
<1> USE TimesAreIntegers DEF vars, clockVars, memoryVars
<1> DEFINE f == w.flag
           t == w.capture.team
<1>1. /\ f \in Flag /\ t \in Teams /\ w.req \in Reqs /\ Owned(w)
      /\ \A v \in stores : Single(w, v) /\ Single(v, w)
  BY DEF TypeOK, Capture, Listings
<1>2. UNCHANGED <<now, up, latestPlantTime>> /\ stores' = stores \ {w}
  BY DEF ApplyStore
<1>3. \A r \in Reqs : \/ req'[r] = req[r]
                      \/ r = w.req /\ req[r].phase = "update" /\ req'[r].phase = "updated"
  BY <1>1 DEF ApplyStore, Answered, TypeOK, Request
<1>4. \A g \in Flag : Capturers(g)' \subseteq IF g = f THEN Capturers(g) \cup {t} ELSE Capturers(g)
  BY CapturersStored
<1>5. ASSUME NEW v \in stores' PROVE Owned(v)'
  <2>1. v \in stores /\ v # w /\ v.flag \in Flag /\ v.req \in Reqs /\ Owned(v)
    BY <1>2 DEF Listings, TypeOK
  <2>2. v.req # w.req /\ ~(v.flag = f /\ v.capture.team = t)
    BY <1>1, <2>1 DEF Single
  <2>3. req'[v.req] = req[v.req]
    BY <1>3, <2>1, <2>2
  <2>4. v.capture.team \notin Capturers(v.flag)'
    BY <1>4, <2>1, <2>2 DEF Owned
  <2> QED BY <1>2, <2>1, <2>3, <2>4 DEF Owned, Waited, LeftBehind
<1>6. ASSUME NEW x \in Reqs, req'[x].phase = "found", ~req'[x].listed,
             latestPlantTime' <= req'[x].flag.time, NEW g \in Flag, g = req'[x].flag
      PROVE  req'[x].team \notin Capturers(g)'
  <2>1. req'[x] = req[x] /\ latestPlantTime <= g.time
    BY <1>2, <1>3, <1>6
  <2>2. req[x].team \notin Capturers(g)
    BY <1>6, <2>1 DEF Listings, Findings
  <2>3. ~(g = f /\ req[x].team = t)
    <3>1. ~Waited(w) \/ ~(g = f /\ req[x].team = t)
      BY <1>1, <1>6, <2>1 DEF Waited, NoRace, Racing
    <3>2. up
      BY <1>6, <2>1 DEF Listings, Quiescent
    <3>3. ~LeftBehind(w) \/ g # f
      BY <2>1, <3>2 DEF LeftBehind
    <3> QED BY <1>1, <3>1, <3>3 DEF Owned
  <2> QED BY <1>4, <2>1, <2>2, <2>3
<1>7. ASSUME NEW x \in Reqs, req'[x].phase = "found" PROVE req'[x].flag \in Flag
  <2>1. req'[x] = req[x]
    BY <1>3, <1>7
  <2> QED BY <1>7, <2>1, RequestFacts DEF TypeOK
<1>8. Findings'
  BY <1>6, <1>7 DEF Findings, Capturers, Exists
<1>9. ASSUME NEW g \in Flag, Exists(g)',
             NEW i \in DOMAIN flags'[g].captures, NEW j \in DOMAIN flags'[g].captures,
             flags'[g].captures[i].team = flags'[g].captures[j].team
      PROVE  i = j
  <2> DEFINE s == flags[g].captures
             e == flags'[g].captures
  <2>1. /\ Exists(g) /\ s \in Seq(Capture) /\ w.capture \in Capture
        /\ e = IF g = f THEN Append(s, w.capture) ELSE s
    BY <1>9, StoreUpdates
  <2>2. \A k, l \in DOMAIN s : s[k].team = s[l].team => k = l
    BY <2>1 DEF Listings, CapturedOnce
  <2>3. CASE g # f
    BY <1>9, <2>1, <2>2, <2>3
  <2>4. CASE g = f
    <3>1. \A k \in DOMAIN s : s[k].team # t
      BY <1>1, <2>1, <2>4 DEF Owned, Capturers
    <3>2. \A k \in DOMAIN e : \/ k \in DOMAIN s /\ e[k] = s[k]
                              \/ k = Len(s) + 1 /\ e[k] = w.capture
      BY <2>1, <2>4, AppendProperties
    <3> HIDE DEF s, e
    <3> QED BY <1>9, <2>2, <3>1, <3>2 DEF e
  <2> QED BY <2>3, <2>4
<1>10. CapturedOnce'
  BY <1>9 DEF CapturedOnce
<1>11. Quiescent'
  BY <1>2, <1>3 DEF Listings, Quiescent
<1>12. \A u, v \in stores' : Single(u, v)
  BY <1>2 DEF Listings
<1> QED BY <1>5, <1>8, <1>10, <1>11, <1>12 DEF Listings, Single

LEMMA ListingsStep ==
  TypeOK /\ Dates /\ FreshSaves /\ Listings /\ NoRace /\ [Next]_vars => Listings'
<1> SUFFICES ASSUME TypeOK, Dates, FreshSaves, Listings, NoRace, [Next]_vars PROVE Listings'
  OBVIOUS
<1> USE TimesAreIntegers DEF vars, clockVars, memoryVars, clientVars, dbVars
<1>1. ASSUME NEW r \in Reqs, Decide(r) PROVE Listings'
  BY <1>1, DecideListings
<1>2. ASSUME NEW w \in stores, ApplyStore(w) PROVE Listings'
  BY <1>2, StoreListings
<1>3. CASE ~\E w \in stores : ApplyStore(w)
  <2> DEFINE Quiet ==
               /\ Quiescent' /\ stores' \subseteq stores
               /\ now' \in Int /\ now <= now' /\ latestPlantTime' \in Int
               /\ \A w \in stores' : Owned(w) => (Waited(w) \/ LeftBehind(w))'
               /\ \A r \in Reqs : req'[r].phase = "found" =>
                    \/ req'[r] = req[r] /\ latestPlantTime <= latestPlantTime'
                    \/ /\ req'[r].flag \in Flag
                       /\ req'[r].listed <=> req'[r].team \in Capturers(req'[r].flag)
  <2>1. CASE Quiet
    BY <1>3, <2>1, CapturesUntouched, ListingsKept DEF Listings
  <2>2. CASE UNCHANGED <<now, up, latestPlantTime, req>> /\ stores' \subseteq stores
    <3>1. Quiescent'
      BY <2>2 DEF Listings, Quiescent
    <3>2. \A w \in stores' : Owned(w) => (Waited(w) \/ LeftBehind(w))'
      BY <2>2 DEF Owned, Waited, LeftBehind
    <3> QED BY <2>1, <2>2, <3>1, <3>2
  <2>3. CASE Start \/ PlantTimer
    BY <2>1, <2>3 DEF Start, PlantTimer, PlantFlags, Listings, Quiescent, Owned, Waited, LeftBehind
  <2>4. CASE Tick
    BY <2>1, <2>4 DEF Tick, Listings, Quiescent, Owned, Waited, LeftBehind
  <2>5. CASE Crash
    <3>1. /\ \A r \in Reqs : req'[r].phase = "idle"
          /\ UNCHANGED stores /\ now' = now + 1 /\ ~up' /\ latestPlantTime' \in Int
      BY <2>5 DEF Crash, Never
    <3>2. ASSUME NEW w \in stores', Owned(w) PROVE LeftBehind(w)'
      BY <3>1, <3>2 DEF Owned, LeftBehind, TypeOK
    <3> QED BY <2>1, <3>1, <3>2 DEF Quiescent
  <2>6. ASSUME NEW r \in Reqs, ~\E w \in stores : w.req = r, \A x \in Reqs \ {r} : req'[x] = req[x],
               UNCHANGED <<now, up, latestPlantTime, stores>>, up \/ req'[r].phase = "idle",
               req'[r].phase = "found" =>
                 /\ req'[r].flag \in Flag
                 /\ req'[r].listed <=> req'[r].team \in Capturers(req'[r].flag)
        PROVE  Quiet
    <3>1. \A w \in stores : w.req \in Reqs /\ req'[w.req] = req[w.req]
      BY <2>6 DEF TypeOK
    <3>2. \A w \in stores' : Owned(w) => (Waited(w) \/ LeftBehind(w))'
      BY <2>6, <3>1 DEF Owned, Waited, LeftBehind
    <3>3. Quiescent'
      BY <2>6 DEF Listings, Quiescent
    <3>4. \A x \in Reqs : x = r \/ req'[x] = req[x]
      BY <2>6
    <3>5. ASSUME NEW x \in Reqs, req'[x].phase = "found"
          PROVE  \/ req'[x] = req[x] /\ latestPlantTime <= latestPlantTime'
                 \/ /\ req'[x].flag \in Flag
                    /\ req'[x].listed <=> req'[x].team \in Capturers(req'[x].flag)
      <4>1. CASE x = r
        BY <2>6, <3>5, <4>1
      <4>2. CASE x # r
        BY <2>6, <3>4, <4>2
      <4> QED BY <4>1, <4>2
    <3> QED BY <2>6, <3>2, <3>3, <3>5
  <2>7. ASSUME NEW r \in Reqs, FindOne(r) PROVE Quiet
    BY <2>6, <2>7, RequestFacts DEF FindOne, Listings, Owned, Waited, LeftBehind, Quiescent, TypeOK
  <2>8. ASSUME NEW r \in Reqs, Acknowledge(r) PROVE Quiet
    BY <2>6, <2>8 DEF Acknowledge, Listings, Owned, Waited, LeftBehind, Quiescent, TypeOK
  <2>9. ASSUME NEW c \in Conns, NEW r \in Reqs, NEW f \in Flag, SubmitFlag(c, r, f) PROVE Quiet
    BY <2>6, <2>9 DEF SubmitFlag, Free, TypeOK
  <2>10. ASSUME NEW w \in stores, DbError, stores' = stores \ {w}, Answered(w) PROVE Quiet
    <3>1. UNCHANGED <<now, up, latestPlantTime>>
      BY <2>10 DEF DbError
    <3>2. \A r \in Reqs : \/ req'[r] = req[r]
                          \/ r = w.req /\ req[r].phase = "update" /\ req'[r].phase = "updated"
      BY <2>10 DEF Answered, TypeOK, Request
    <3>3. \A v \in stores' : v.req \in Reqs /\ v.req # w.req
      BY <2>10 DEF Listings, Single, TypeOK
    <3>4. \A v \in stores' : Owned(v) => (Waited(v) \/ LeftBehind(v))'
      BY <3>1, <3>2, <3>3 DEF Owned, Waited, LeftBehind
    <3>5. Quiescent'
      BY <3>1, <3>2 DEF Listings, Quiescent
    <3> QED BY <2>10, <3>1, <3>2, <3>4, <3>5
  <2>11. ASSUME NEW r \in Reqs, DbError, req[r].phase = "find",
                req' = [req EXCEPT ![r].phase = "missing"], UNCHANGED stores
         PROVE Quiet
    BY <2>6, <2>11 DEF DbError, Listings, Owned, Waited, LeftBehind, Quiescent, TypeOK
  <2>12. \/ UNCHANGED <<now, up, latestPlantTime, req>> /\ stores' \subseteq stores
         \/ Start \/ PlantTimer \/ Tick \/ Crash
         \/ \E r \in Reqs : Decide(r) \/ FindOne(r) \/ Acknowledge(r)
         \/ \E c \in Conns, r \in Reqs, f \in Flag : SubmitFlag(c, r, f)
         \/ DbError /\ \E w \in stores : stores' = stores \ {w} /\ Answered(w)
         \/ /\ DbError /\ UNCHANGED stores
            /\ \E r \in Reqs : req[r].phase = "find" /\ req' = [req EXCEPT ![r].phase = "missing"]
    <3>1. DbError => \/ UNCHANGED <<now, up, latestPlantTime, req>> /\ stores' \subseteq stores
                     \/ \E w \in stores : stores' = stores \ {w} /\ Answered(w)
                     \/ /\ UNCHANGED stores
                        /\ \E r \in Reqs : /\ req[r].phase = "find"
                                           /\ req' = [req EXCEPT ![r].phase = "missing"]
      BY DEF DbError
    <3> QED BY <1>3, <3>1 DEF Next, DaemonStep, ClientStep, DbStep, CheckTimer, PlantDone, CheckDone,
              Reconnect, NameTeam, Scan, ApplySave, ApplyOutcome, ApplyPush, LoseWrite
  <2> HIDE DEF Quiet
  <2> QED BY <1>1, <2>1, <2>2, <2>3, <2>4, <2>5, <2>7, <2>8, <2>9, <2>10, <2>11, <2>12
<1> QED BY <1>2, <1>3

LEMMA ListingsInit == Init => Listings
BY DEF Init, Listings, Quiescent, Findings, CapturedOnce, Exists

\* A team is listed twice among the captures of a flag only when two requests of
\* that team for that flag have both read the document before either wrote to it:
\* neither late updates of a dead daemon nor failing writes list a capture again.
THEOREM CapturedOnceUnlessRaced == Spec /\ []NoRace => []CapturedOnce
<1> DEFINE I == TypeOK /\ Dates /\ FreshSaves /\ Listings
<1>1. Init => I
  BY TypeInit, DatesInit, BooksInit, ListingsInit DEF Books
<1>2. I /\ NoRace /\ [Next]_vars => I'
  BY TypeStep, DatesStep, FreshStep, ListingsStep
<1>3. I => CapturedOnce
  BY DEF Listings
<1> QED BY <1>1, <1>2, <1>3, PTL DEF Spec

\* While the daemon handles one FLAG request at a time, every capture is listed once.
COROLLARY CapturedOnceInTurn ==
  ASSUME \A r, q \in Reqs : r = q
  PROVE  Spec => []CapturedOnce
<1>1. NoRace
  BY DEF NoRace, Racing
<1> QED BY <1>1, CapturedOnceUnlessRaced, PTL
-----------------------------------------------------------------------------
(***************************************************************************)
(* Before the daemon dies for the first time, no delivery is lost.         *)
(***************************************************************************)

LEMMA DeliveriesStep ==
  ~DbMayFail /\ ~DbReorders /\ LedgerInv /\ Deliveries /\ [Next]_vars => Deliveries'
<1> SUFFICES ASSUME ~DbMayFail, ~DbReorders, LedgerInv, Deliveries, [Next]_vars, crashes' = 0
             PROVE  Deliveries'
  BY DEF Deliveries
<1> USE DEF vars, clockVars, memoryVars, jobVars, dbVars
<1>1. TypeOK /\ TypeOK' /\ FreshSaves /\ Outcomes
  BY LedgerInvStep DEF LedgerInv
<1>2. ~Crash /\ crashes = 0
  <2>1. crashes \in Int /\ crashes >= 0
    BY <1>1, ConstantsAssumption DEF TypeOK
  <2>2. ~Crash
    BY <2>1 DEF Crash
  <2>3. UNCHANGED crashes
    BY <2>2 DEF Next, DaemonStep, ClientStep, DbStep, Start, PlantTimer, PlantFlags, CheckTimer,
         PlantDone, CheckDone, Decide, Acknowledge, Reconnect, NameTeam, SubmitFlag, Scan,
         FindOne, ApplySave, ApplyOutcome, ApplyPush, ApplyStore, DbError, Tick, LoseWrite
  <2> QED BY <2>2, <2>3
<1>3. /\ ~up => saves = {} /\ outcomes = {} /\ planting = {}
      /\ \A f \in planting \cup planted : f \in Flag /\ Known(f)
      /\ \A f \in planted : Sent(f, TRUE) \/ Held(f)
  BY <1>1, <1>2 DEF Deliveries, NothingLost, Sent, Held, TypeOK
<1>4. CASE UNCHANGED <<up, planting, planted, flags, saves, outcomes>>
  BY <1>2, <1>4 DEF Deliveries, NothingLost, Known, Exists
<1>5. CASE Start \/ PlantTimer
  <2>1. /\ up' /\ UNCHANGED <<planted, flags, outcomes>>
        /\ saves' = saves \cup Round(now) /\ planting' = planting \cup Round(now)
    BY <1>5 DEF Start, PlantTimer, PlantFlags
  <2>2. \A f \in planting' \cup planted : Known(f)'
    BY <1>3, <2>1 DEF Known, Exists
  <2>3. \A f \in planted : Sent(f, TRUE)' \/ Held(f)'
    BY <1>3, <2>1 DEF Sent, Held, Exists
  <2> QED BY <2>1, <2>2, <2>3 DEF Deliveries, NothingLost, Sent, Held
<1>6. ASSUME NEW f \in planting, NEW ok \in PlantResults, PlantDone(f, ok) PROVE Deliveries'
  <2>1. /\ up /\ UNCHANGED <<up, flags, saves>>
        /\ planting' \subseteq planting /\ planted' \subseteq planted \cup {f}
        /\ outcomes \subseteq outcomes'
        /\ f \in planted' => f \in planted \/ [flag |-> f, delivered |-> TRUE] \in outcomes'
    BY <1>3, <1>6 DEF PlantDone
  <2>2. \A g \in planting' \cup planted' : Known(g)'
    BY <1>3, <2>1 DEF Known, Exists
  <2>3. \A g \in planted' : Sent(g, TRUE)' \/ Held(g)'
    BY <1>3, <2>1 DEF Sent, Held, Exists
  <2> QED BY <2>1, <2>2, <2>3 DEF Deliveries, NothingLost, Sent, Held
<1>7. ASSUME NEW f \in saves, ApplySave(f) PROVE Deliveries'
  <2>1. /\ up /\ UNCHANGED <<up, planting, planted, outcomes>> /\ saves' = saves \ {f}
        /\ f \in Flag /\ ~Exists(f) /\ flags'[f] = NewDoc
        /\ \A g \in Flag : g # f => flags'[g] = flags[g]
    BY <1>1, <1>3, <1>7 DEF ApplySave, FreshSaves, TypeOK
  <2>2. \A g \in Flag : Known(g) => Known(g)'
    BY <2>1, TypeFacts DEF Known, Exists
  <2>3. \A g \in planted : Sent(g, TRUE)' \/ Held(g)'
    BY <1>3, <2>1 DEF Sent, Held, Exists
  <2> QED BY <1>3, <2>1, <2>2, <2>3 DEF Deliveries, NothingLost, Sent, Held
<1>8. ASSUME NEW w \in outcomes, ApplyOutcome(w) PROVE Deliveries'
  <2>1. /\ up /\ UNCHANGED <<up, planting, planted, saves>> /\ outcomes' = outcomes \ {w}
        /\ w.flag \notin saves
        /\ w.flag \in Flag /\ w.delivered \in BOOLEAN /\ w = [flag |-> w.flag, delivered |-> w.delivered]
    BY <1>1, <1>3, <1>8 DEF ApplyOutcome, InOrder, TypeOK
  <2>2. \A g \in Flag : /\ Exists(g)' <=> Exists(g)
                        /\ Held(g)' <=> Exists(g) /\ IF g = w.flag THEN w.delivered ELSE Held(g)
    BY <1>1, <1>8, OutcomeUpdates, OutcomeHeld
  <2>3. ASSUME NEW g \in planted PROVE Sent(g, TRUE)' \/ Held(g)'
    <3>1. g \in Flag /\ Known(g) /\ (Sent(g, TRUE) \/ Held(g))
      BY <1>3
    <3>2. CASE g # w.flag
      <4>1. Sent(g, TRUE) => Sent(g, TRUE)'
        BY <2>1, <3>2 DEF Sent
      <4>2. Held(g) => Held(g)'
        BY <2>2, <3>1, <3>2 DEF Held
      <4> QED BY <3>1, <4>1, <4>2
    <3>3. CASE g = w.flag
      <4>1. ~Sent(g, FALSE)
        BY <1>1, <3>1 DEF Outcomes
      <4>2. w.delivered
        BY <2>1, <3>3, <4>1 DEF Sent
      <4>3. Exists(g)
        BY <2>1, <3>1, <3>3 DEF Known
      <4> QED BY <2>2, <3>1, <3>3, <4>2, <4>3
    <3> QED BY <3>2, <3>3
  <2>4. \A g \in Flag : Known(g) => Known(g)'
    BY <2>1, <2>2 DEF Known
  <2> QED BY <1>3, <2>1, <2>3, <2>4 DEF Deliveries, NothingLost, Sent, Held
<1>9. ASSUME \A g \in Flag : (Exists(g)' <=> Exists(g)) /\ (Held(g)' <=> Held(g)),
             UNCHANGED <<up, planting, planted, saves, outcomes>>
      PROVE  Deliveries'
  BY <1>3, <1>9 DEF Deliveries, NothingLost, Known, Sent, Held
<1>10. ASSUME NEW w \in pushes, ApplyPush(w) PROVE Deliveries'
  <2>1. \A g \in Flag : (Exists(g)' <=> Exists(g)) /\ (Held(g)' <=> Held(g))
    BY <1>1, <1>10, PushUpdates, PushHeld
  <2> QED BY <1>9, <1>10, <2>1 DEF ApplyPush
<1>11. ASSUME NEW w \in stores, ApplyStore(w) PROVE Deliveries'
  <2>1. \A g \in Flag : (Exists(g)' <=> Exists(g)) /\ (Held(g)' <=> Held(g))
    BY <1>1, <1>11, StoreUpdates, StoreHeld
  <2> QED BY <1>9, <1>11, <2>1 DEF ApplyStore
<1>12. \/ UNCHANGED <<up, planting, planted, flags, saves, outcomes>>
       \/ Start \/ PlantTimer
       \/ \E f \in planting, ok \in PlantResults : PlantDone(f, ok)
       \/ \E f \in saves : ApplySave(f)
       \/ \E w \in outcomes : ApplyOutcome(w)
       \/ \E w \in pushes : ApplyPush(w)
       \/ \E w \in stores : ApplyStore(w)
  BY <1>2, <1>3 DEF Next, DaemonStep, ClientStep, DbStep, CheckTimer, CheckDone, Decide,
       Acknowledge, Reconnect, NameTeam, SubmitFlag, Scan, FindOne, DbError, Tick, LoseWrite
<1> QED BY <1>4, <1>5, <1>6, <1>7, <1>8, <1>10, <1>11, <1>12

\* When the database applies the writes to a document in order and without errors,
\* every successful plant command is in the collection, or its outcome on its way
\* there, until the daemon dies for the first time.
THEOREM DeliveriesSafe ==
  ASSUME ~DbMayFail, ~DbReorders
  PROVE  Spec => [](crashes = 0 => NothingLost)
<1>1. Init => LedgerInv /\ Deliveries
  BY LedgerInvInit DEF Init, Deliveries, NothingLost
<1>2. LedgerInv /\ Deliveries /\ [Next]_vars => (LedgerInv /\ Deliveries)'
  BY LedgerInvStep, DeliveriesStep
<1>3. Deliveries => (crashes = 0 => NothingLost)
  BY DEF Deliveries
<1> QED BY <1>1, <1>2, <1>3, PTL DEF Spec
=============================================================================
