------------------------------- MODULE Replay --------------------------------
(***************************************************************************)
(* The visualisation: the feed of src/lib/datavizwebpage.js and the page   *)
(* that replays it (src/html/viz.js), with the buttons that start the      *)
(* replay, change its speed or play a single event.  What a team or a      *)
(* service looks like and where it stands is left out; a frame of an event *)
(* counts as shown when a repaint falls into its time.  Times are counted  *)
(* in seconds.                                                             *)
(***************************************************************************)
EXTENDS Integers, Sequences, SequencesExt

CONSTANTS
  Docs,     \* the collection: [team, time, captures ([team, time]), checks (times)]
  VizTeams, \* the teams datavizwebpage was given when the daemon was started
  Gap,      \* bound: seconds from one repaint to the next
  MaxSpeed, \* bound: clicks on `Faster'
  MaxNow,   \* bound: the clock
  Null      \* no time

VARIABLES
  page,      \* "loading", "ready" or "dead" (an exception before the buttons work)
  events,    \* the events of the page's own timeline
  now,       \* the clock
  wait,      \* seconds since the last repaint
  again,     \* the repaints: "none" yet, "asked" for one after the other, or "failed"
  timeline,  \* the timeline of the Vizualizer: "none", "main" or "demo"
  drawables, \* the timelines that are drawn
  transform, \* timeTransform of the main timeline
  anchor,    \* replayBeginTime * timeTransform of the drawn timeline, or Null
  demo,      \* the event of the demo
  shown,     \* the frames shown since the timeline was started
  over       \* has the timeline come to its end?

vars == <<page, events, now, wait, again, timeline, drawables, transform, anchor, demo, shown, over>>

\* The response of /viz.json: every flag is a delivery, its captures and its
\* checks, sorted by time.
Feed(docs) ==
  UNION { {[type |-> "deliver", time |-> d.time, team |-> d.team]}
          \cup {[type |-> "capture", time |-> c.time, team |-> c.team, victim |-> d.team] : c \in d.captures}
          \cup {[type |-> "check", time |-> t, team |-> d.team] : t \in d.checks} : d \in docs }

Init ==
  /\ page = "loading" /\ events = {} /\ now = 0 /\ wait = 0 /\ again = "none"
  /\ timeline = "none" /\ drawables = <<>> /\ transform = 1 /\ anchor = Null
  /\ demo = "none" /\ shown = {} /\ over = FALSE

\* The handler of `data': without an event, or with one at a team that joined
\* after the daemon was started, it ends before the buttons get their handlers.
Data(docs) ==
  /\ page = "loading"
  /\ events' = Feed(docs)
  /\ page' = IF docs # {} /\ \A d \in docs : d.team \in VizTeams THEN "ready" ELSE "dead"
  /\ UNCHANGED <<now, wait, again, timeline, drawables, transform, anchor, demo, shown, over>>

-----------------------------------------------------------------------------
\* The ends of the frames of an event, which follow one another in a TimeSequence.
Ends(type) ==
  CASE type = "deliver" -> <<0, 2, 4>>
    [] type = "capture" -> <<0, 2, 6, 8>>
    [] type = "check"   -> <<0, 2, 4, 6>>

\* buildTimeLine: the frames of the events.
Frames(es) ==
  UNION { {[event |-> e, from |-> e.time + Ends(e.type)[k], to |-> e.time + Ends(e.type)[k + 1]]
             : k \in 1 .. Len(Ends(e.type)) - 1} : e \in es }

Drawn == IF timeline = "main" THEN events ELSE {[type |-> demo, time |-> 0]}
BeginTime == Min({f.from : f \in Frames(Drawn)})
EndTime == Max({f.to : f \in Frames(Drawn)})
Speed == IF timeline = "main" THEN transform ELSE 1

\* (now - replayBeginTime) * timeTransform + getBeginTime()
Time == now * Speed - anchor + BeginTime

-----------------------------------------------------------------------------
\* Faulty: replayBeginTime stays as it is.
SetTimeTransform_Jumps(speed) ==
  /\ transform' = speed
  /\ anchor' = IF timeline = "main" /\ anchor # Null THEN (anchor * speed) \div transform ELSE anchor

\* Moves the beginning of a replay that is under way, so that its place stays.
SetTimeTransform(speed) ==
  /\ transform' = speed
  /\ anchor' = IF timeline = "main" /\ anchor # Null
               THEN now * speed - (now * transform - anchor)
               ELSE anchor

\* The buttons `Faster' and `Slower' turn to the main timeline, drawn or not.
ChangeSpeed ==
  /\ page = "ready"
  /\ \E speed \in {transform + 1, transform - 1} :
       speed > 0 /\ speed <= MaxSpeed /\ SetTimeTransform(speed)
  /\ UNCHANGED <<page, events, now, wait, again, timeline, drawables, demo, shown, over>>

SetTimeline(tl) ==
  /\ timeline' = tl
  /\ drawables' = Append(RemoveFirst(drawables, timeline), tl)

\* Vizualizer.start and Timeline.start: the repaints are asked for once.
Begin(speed) ==
  /\ wait' = IF again = "none" THEN 0 ELSE wait
  /\ again' = IF again = "none" THEN "asked" ELSE again
  /\ anchor' = now * speed
  /\ shown' = {}
  /\ over' = FALSE
  /\ UNCHANGED <<page, events, now, transform>>

\* `Start' and `Start over', which also disable the buttons of the demos.
Start ==
  /\ page = "ready"
  /\ SetTimeline("main")
  /\ Begin(transform)
  /\ UNCHANGED demo

Demo(type) ==
  /\ page = "ready"
  /\ timeline # "main"
  /\ SetTimeline("demo")
  /\ demo' = type
  /\ Begin(1)

\* Draws the frames of this time, or ends the replay.  A shot of a team that the
\* page does not know cannot be drawn, and no repaint is asked for any more.
Repaint ==
  /\ again = "asked"
  /\ wait' = 0
  /\ IF anchor = Null \/ Time > EndTime
     THEN anchor' = Null /\ over' = (over \/ anchor # Null) /\ UNCHANGED <<again, shown>>
     ELSE LET frames == {f \in Frames(Drawn) : f.from <= Time /\ Time <= f.to}
          IN  /\ IF \E f \in frames : timeline = "main" /\ f.event.team \notin VizTeams
                 THEN again' = "failed" /\ UNCHANGED shown
                 ELSE shown' = shown \cup frames /\ UNCHANGED again
              /\ UNCHANGED <<anchor, over>>
  /\ UNCHANGED <<page, events, now, timeline, drawables, transform, demo>>

\* Time passes; the page is visible, so that repaints keep coming.
Tick ==
  /\ page = "ready"
  /\ now < MaxNow
  /\ again = "asked" => wait < Gap
  /\ now' = now + 1
  /\ wait' = IF again = "asked" THEN wait + 1 ELSE 0
  /\ UNCHANGED <<page, events, again, timeline, drawables, transform, anchor, demo, shown, over>>

Next ==
  \/ \E docs \in SUBSET Docs : Data(docs)
  \/ ChangeSpeed
  \/ Start
  \/ \E type \in {"deliver", "capture", "check"} : Demo(type)
  \/ Repaint
  \/ Tick

-----------------------------------------------------------------------------
\* One timeline is drawn at a time, and when it is over every frame of every event
\* has been shown, whatever the speed was on the way: a change of speed leaves the
\* replay where it is.  (Holds while the speed times the time between two repaints
\* is no longer than a frame; nothing in the page bounds the speed.  A replay whose
\* repaints have failed is never over, and cannot be started over.)
ReplayShowsAll ==
  /\ timeline # "none" => drawables = <<timeline>>
  /\ over => shown = Frames(Drawn)
=============================================================================
