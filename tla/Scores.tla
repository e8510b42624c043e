-------------------------------- MODULE Scores --------------------------------
(***************************************************************************)
(* The score board of src/lib/scoreswebpage.js as a function of the        *)
(* documents it is made from.  Every observer has an operation `flag' that *)
(* is handed one document after the other (here Add...), and an operation  *)
(* `data' that turns what it gathered into what is drawn.  A bar is one    *)
(* wide and drawn from its position to the right.  A document is a record  *)
(* with the fields team, service, time, delivered, captures and checks.    *)
(***************************************************************************)
EXTENDS Integers, Sequences, SequencesExt, FiniteSetsExt

CONSTANTS
  Points  \* points: what deliver, capture, defend and check are worth

ASSUME PointsAssumption ==
  Points \in [deliver : Nat, capture : Nat, defend : Nat, check : Nat]

\* d[k] as JavaScript code uses it: with a value for keys not there yet.
At(d, k, zero) == IF k \in DOMAIN d THEN d[k] ELSE zero

Thieves(doc) == {doc.captures[i].team : i \in DOMAIN doc.captures}

\* The entries of a list whose field has a value, in their order.
With(list, field, value) ==
  LET kept[i \in 0 .. Len(list)] ==
        IF i = 0 THEN << >>
        ELSE IF list[i][field] = value THEN Append(kept[i - 1], list[i])
        ELSE kept[i - 1]
  IN  kept[Len(list)]

CapturesBy(doc, t) == With(doc.captures, "team", t)
Successes(doc) == With(doc.checks, "result", TRUE)

\* sort: the i-th of the numbers in a sequence.
Sorted(s) ==
  [i \in DOMAIN s |-> CHOOSE x \in Range(s) :
     /\ Cardinality({j \in DOMAIN s : s[j] < x}) < i
     /\ i <= Cardinality({j \in DOMAIN s : s[j] <= x})]

One(condition) == IF condition THEN 1 ELSE 0

-----------------------------------------------------------------------------
(* ScoreOverTime: the table and the points over time. *)

EmptyRow ==
  [deliver |-> 0, capture |-> 0, defend |-> 0, check |-> 0, challenge |-> 0, points |-> 0]

\* Defence is paid as soon as a flag has been delivered, for as long as nobody
\* has captured it.
OwnPoints(doc) ==
  IF ~doc.delivered THEN 0
  ELSE Points.deliver + (IF doc.captures = << >> THEN Points.defend ELSE 0)

\* Faulty: the points of the owner are dropped when somebody captured the flag.
Earned_Owner(doc, t) ==
  (IF t = doc.team /\ doc.captures = << >> /\ OwnPoints(doc) > 0
   THEN <<[time |-> doc.time, points |-> OwnPoints(doc)]>> ELSE << >>)
  \o (IF t = doc.team
      THEN [i \in DOMAIN Successes(doc) |->
              [time |-> Successes(doc)[i].time, points |-> Points.check]]
      ELSE << >>)
  \o [i \in DOMAIN CapturesBy(doc, t) |->
        [time |-> CapturesBy(doc, t)[i].time, points |-> Points.capture]]

\* What a document adds to the points over time of a team.
Earned(doc, t) ==
  (IF t = doc.team /\ OwnPoints(doc) > 0
   THEN <<[time |-> doc.time, points |-> OwnPoints(doc)]>> ELSE << >>)
  \o (IF t = doc.team
      THEN [i \in DOMAIN Successes(doc) |->
              [time |-> Successes(doc)[i].time, points |-> Points.check]]
      ELSE << >>)
  \o [i \in DOMAIN CapturesBy(doc, t) |->
        [time |-> CapturesBy(doc, t)[i].time, points |-> Points.capture]]

\* What it adds to the row of a team.
Counted(doc, t, row) ==
  LET own == t = doc.team
  IN  [row EXCEPT !.deliver = @ + One(own /\ doc.delivered),
                  !.defend  = @ + One(own /\ doc.delivered /\ doc.captures = << >>),
                  !.check   = @ + (IF own THEN Len(Successes(doc)) ELSE 0),
                  !.capture = @ + Len(CapturesBy(doc, t))]

DatesOf(doc) ==
  {doc.time} \cup {doc.checks[i].time : i \in DOMAIN doc.checks}
             \cup {doc.captures[i].time : i \in DOMAIN doc.captures}

ScoresStart == [table |-> << >>, data |-> << >>, dates |-> {}]

ScoresFlag(doc, s) ==
  LET teams == DOMAIN s.table \cup {doc.team} \cup Thieves(doc)
  IN  [table |-> [t \in teams |-> Counted(doc, t, At(s.table, t, EmptyRow))],
       data  |-> [t \in teams |-> At(s.data, t, << >>) \o Earned(doc, t)],
       dates |-> s.dates \cup DatesOf(doc)]

\* `challenge': one entry of the rank of a challenge.
ScoresChallenge(rank, s) ==
  LET teams == DOMAIN s.table \cup {rank.team}
  IN  [table |-> [t \in teams |->
         [At(s.table, t, EmptyRow) EXCEPT
            !.challenge = @ + (IF t = rank.team THEN rank.points ELSE 0)]],
       data |-> [t \in teams |->
         At(s.data, t, << >>) \o
           (IF t = rank.team THEN <<[time |-> rank.time, points |-> rank.points]>> ELSE << >>)],
       dates |-> s.dates \cup {rank.time}]

\* data: sorted by time, with one point for everything that has the same time,
\* from the lowest date there is to the highest.
Curve(earned, dates) ==
  LET times == Sorted(SetToSeq({earned[i].time : i \in DOMAIN earned}))
      sum(S) == MapThenSumSet(LAMBDA i : earned[i].points, S)
  IN  <<[time |-> Min(dates), total |-> 0]>>
      \o [i \in DOMAIN times |->
            [time |-> times[i], total |-> sum({j \in DOMAIN earned : earned[j].time <= times[i]})]]
      \o <<[time |-> Max(dates), total |-> sum(DOMAIN earned)]>>

ScoreOverTime(s) == [t \in DOMAIN s.data |-> Curve(s.data[t], s.dates)]

\* table: the points of a row.
TablePoints(row) ==
  row.deliver * Points.deliver + row.capture * Points.capture
    + row.defend * Points.defend + row.check * Points.check + row.challenge

-----------------------------------------------------------------------------
(* The graphs of captures. *)

\* CumulativeSteals: the dates of what a team has stolen (the two points that
\* stretch its curve over the graph are left out).
CumulativeFlag(doc, d) ==
  [t \in DOMAIN d \cup {doc.team} \cup Thieves(doc) |->
     At(d, t, << >>) \o [i \in DOMAIN CapturesBy(doc, t) |-> CapturesBy(doc, t)[i].time]]

CumulativeSteals(d) ==
  [t \in DOMAIN d |-> [i \in DOMAIN d[t] |-> [time |-> Sorted(d[t])[i], total |-> i]]]

\* A matrix of teams and services to which a document adds n(t) in the column
\* of its service; teams and services come in as they are met.
AddColumn(doc, d, n(_)) ==
  LET services == d.services \cup {doc.service}
      teams    == DOMAIN d.bars \cup {doc.team} \cup Thieves(doc)
  IN  [services |-> services,
       bars |-> [t \in teams |-> [s \in services |->
                  At(At(d.bars, t, << >>), s, 0) + (IF s = doc.service THEN n(t) ELSE 0)]]]

NoBars == [services |-> {}, bars |-> << >>]

LossesFlag(doc, d) ==
  AddColumn(doc, d, LAMBDA t : IF t = doc.team THEN Len(doc.captures) ELSE 0)

\* Faulty: a capture is not counted for a thief no document was seen of yet.
StealsFlag_Known(doc, d) ==
  AddColumn(doc, d, LAMBDA t : IF t \in DOMAIN d.bars THEN Len(CapturesBy(doc, t)) ELSE 0)

StealsFlag(doc, d) ==
  AddColumn(doc, d, LAMBDA t : Len(CapturesBy(doc, t)))

\* The bars of a group next to each other, groups `gap' apart, the keys of an object
\* in any order; a tick is twice its position, which need not be whole.
Grouped(groups, parts, gap, height(_, _), tick) ==
  LET g == SetToSeq(groups)
      width == Len(parts) + gap
  IN  [bars |-> {[group |-> g[i], part |-> parts[j], at |-> (i - 1) * width + j - 1,
                  height |-> height(g[i], parts[j])] : i \in DOMAIN g, j \in DOMAIN parts},
       ticks |-> {[group |-> g[i], twice |-> 2 * (i - 1) * width + tick] : i \in DOMAIN g}]

\* data of StealsPerTeam and of LossesPerTeam: (serviceCount - 2) / 2
PerTeamData(d) ==
  Grouped(DOMAIN d.bars, SetToSeq(d.services), 2, LAMBDA t, s : d.bars[t][s], Cardinality(d.services))

\* StealsLossesPerTeam
BothFlag(doc, d) ==
  [t \in DOMAIN d \cup {doc.team} \cup Thieves(doc) |->
     LET both == At(d, t, [stolen |-> 0, lost |-> 0])
     IN  [stolen |-> both.stolen + Len(CapturesBy(doc, t)),
          lost |-> both.lost + (IF t = doc.team THEN Len(doc.captures) ELSE 0)]]

BothData(d) == Grouped(DOMAIN d, <<"stolen", "lost">>, 1, LAMBDA t, what : d[t][what], 2)

\* StealsPerService
ServiceFlag(doc, d) ==
  [s \in DOMAIN d \cup {doc.service} |->
     At(d, s, 0) + (IF s = doc.service THEN Len(doc.captures) ELSE 0)]

ServiceData(d) == Grouped(DOMAIN d, <<"captures">>, 0, LAMBDA s, what : d[s], 1)

-----------------------------------------------------------------------------
\* DoGenerate: every observer is handed every document, the first one every
\* challenge as well, and then asked for its data.
Gathered(docs, ranks) ==
  FoldSet(ScoresChallenge, FoldSet(ScoresFlag, ScoresStart, docs), ranks)

Board(docs, ranks) ==
  LET scores == Gathered(docs, ranks)
  IN  [table |-> [t \in DOMAIN scores.table |->
                    [scores.table[t] EXCEPT !.points = TablePoints(scores.table[t])]],
       score_over_time        |-> ScoreOverTime(scores),
       cumulative_steals      |-> CumulativeSteals(FoldSet(CumulativeFlag, << >>, docs)),
       losses_per_team        |-> PerTeamData(FoldSet(LossesFlag, NoBars, docs)),
       steals_per_team        |-> PerTeamData(FoldSet(StealsFlag, NoBars, docs)),
       steals_losses_per_team |-> BothData(FoldSet(BothFlag, << >>, docs)),
       steals_per_service     |-> ServiceData(FoldSet(ServiceFlag, << >>, docs))]

-----------------------------------------------------------------------------
(***************************************************************************)
(* What a board promises to its readers.                                   *)
(***************************************************************************)

\* The curve of a team ends at the points the table gives it, though one sums
\* dated points and the other counts events.
GraphEndsAtTable(b) ==
  /\ DOMAIN b.score_over_time = DOMAIN b.table
  /\ \A t \in DOMAIN b.table : Last(b.score_over_time[t]).total = b.table[t].points

\* What some bars stand for together.
Height(bars) == MapThenSumSet(LAMBDA b : b.height, bars)
OfGroup(chart, t) == {b \in chart.bars : b.group = t}
OfPart(chart, what) == {b \in chart.bars : b.part = what}

\* No bar hides another, and a tick is in the middle of the bars of its group.
Readable(chart) ==
  /\ \A b, c \in chart.bars : b.at = c.at => b = c
  /\ \A tick \in chart.ticks :
       LET at == {b.at : b \in {c \in chart.bars : c.group = tick.group}}
       IN  tick.twice = Min(at) + Max(at) + 1

\* All graphs of a board tell of the same captures: for every team what the
\* table, the curve and the bars say, and as many were lost as were stolen.
GraphsAgree(b) ==
  LET both == b.steals_losses_per_team
      teams == {tick.group : tick \in both.ticks}
      stolen(t) == Height(OfGroup(both, t) \cap OfPart(both, "stolen"))
      lost(t) == Height(OfGroup(both, t) \cap OfPart(both, "lost"))
  IN  /\ \A t \in teams :
           /\ b.table[t].capture = stolen(t)
           /\ Len(b.cumulative_steals[t]) = stolen(t)
           /\ Height(OfGroup(b.steals_per_team, t)) = stolen(t)
           /\ Height(OfGroup(b.losses_per_team, t)) = lost(t)
      /\ Height(OfPart(both, "stolen")) = Height(OfPart(both, "lost"))
      /\ Height(b.steals_per_service.bars) = Height(OfPart(both, "lost"))
      /\ \A chart \in {both, b.steals_per_team, b.losses_per_team, b.steals_per_service} :
           Readable(chart)
=============================================================================
