-------------------------------- MODULE Parts ---------------------------------
(***************************************************************************)
(* The parts that work by themselves: the check and the page of JabbaChat, *)
(* HighLow, the visualisation, the pages that ask a server, and how a      *)
(* daemon is started and stopped.  One of them is chosen in the first      *)
(* state: they do not interact, and one search through them takes less     *)
(* than many.  The variables of the others stay at NoPart.                 *)
(***************************************************************************)
EXTENDS Lifecycle, Integers, Sequences, FiniteSets

CONSTANTS
  NoPart,
  \* JabbaChat
  Me, Others, Known, MaxMoves,
  \* HighLow
  Peers, Slots, Users, Veterans, NoUser, Script,
  \* JabbaRoom
  Visitors, Nameless, MaxStanzas,
  \* Replay
  Docs, VizTeams, Gap, MaxSpeed, MaxNow, Null,
  \* Pages
  MaxRequests, MaxClicks,
  \* Directory
  Letters, MaxPings, MaxConnects

ASSUME PartsAssumption ==
  /\ IsFiniteSet(Others) /\ IsFiniteSet(Peers) /\ IsFiniteSet(Slots)
  /\ Slots \cap {"new", "waiting", "gone", "server"} = {}
  /\ Veterans \subseteq Users /\ NoUser \notin Users
  /\ Script \in [Peers -> Seq([type : {"auth"}, user : Users, own : BOOLEAN]
                               \cup [type : {"new_game", "dummy"}]
                               \cup [type : {"guess"}, right : BOOLEAN])]
  /\ IsFiniteSet(Visitors) /\ \A c \in Visitors : c = <<c[1], c[2]>>
  /\ LET times == UNION {{d.time} \cup {c.time : c \in d.captures} \cup d.checks : d \in Docs}
     IN  times \subseteq Nat /\ IsFiniteSet(times)
  /\ Gap \in Nat /\ MaxSpeed \in Nat \ {0} /\ Null \notin Int
  /\ Letters \in Nat \ {0}

VARIABLES
  which,
  \* JabbaChat
  phase, verdict, handlers, inbox, chatters, nextId, info, met, room, directory,
  queries, lost, moves,
  \* HighLow
  place, unread, hungUp, free, client, batch, reading, buffer, toSend, users,
  created, won, begun, twice,
  \* JabbaRoom
  dialog, there, updated, stanzas, deaf, roomChatters, chatterInfo, asked,
  pendingChats, roomUsers,
  \* Replay
  page, events, now, wait, again, timeline, drawables, transform, anchor, demo,
  shown, over,
  \* Pages
  site, data, session, board, serving, ajax, user, monday, fades, view, mine, clicks,
  clear,
  \* Directory
  online, timers, indices, issued, pings

-----------------------------------------------------------------------------
Jabba == INSTANCE JabbaChat
High == INSTANCE HighLow
Room == INSTANCE JabbaRoom WITH chatters <- roomChatters, users <- roomUsers
Viz == INSTANCE Replay
Page == INSTANCE Pages WITH MaxMoves <- MaxClicks, moves <- clicks
Dir == INSTANCE Directory

jabbaVars ==
  <<phase, verdict, handlers, inbox, chatters, nextId, info, met, room,
    directory, queries, lost, moves>>
highVars ==
  <<place, unread, hungUp, free, client, batch, reading, buffer, toSend, users,
    created, won, begun, twice>>
roomVars ==
  <<dialog, there, updated, stanzas, deaf, roomChatters, chatterInfo, asked,
    pendingChats, roomUsers>>
vizVars ==
  <<page, events, now, wait, again, timeline, drawables, transform, anchor, demo,
    shown, over>>
pageVars ==
  <<site, data, session, board, serving, ajax, user, monday, fades, view, mine, clicks, clear>>
dirVars ==
  <<online, timers, indices, issued, pings>>
partVars == <<which, jabbaVars, highVars, roomVars, vizVars, pageVars, vars, dirVars>>

NoJabba ==
  /\ phase = NoPart /\ verdict = NoPart /\ handlers = NoPart /\ inbox = NoPart
  /\ chatters = NoPart /\ nextId = NoPart /\ info = NoPart /\ met = NoPart
  /\ room = NoPart /\ directory = NoPart /\ queries = NoPart /\ lost = NoPart
  /\ moves = NoPart

NoHigh ==
  /\ place = NoPart /\ unread = NoPart /\ hungUp = NoPart /\ free = NoPart
  /\ client = NoPart /\ batch = NoPart /\ reading = NoPart /\ buffer = NoPart
  /\ toSend = NoPart /\ users = NoPart /\ created = NoPart /\ won = NoPart
  /\ begun = NoPart /\ twice = NoPart

NoRoom ==
  /\ dialog = NoPart /\ there = NoPart /\ updated = NoPart /\ stanzas = NoPart
  /\ deaf = NoPart /\ roomChatters = NoPart /\ chatterInfo = NoPart /\ asked = NoPart
  /\ pendingChats = NoPart /\ roomUsers = NoPart

NoViz ==
  /\ page = NoPart /\ events = NoPart /\ now = NoPart /\ wait = NoPart
  /\ again = NoPart /\ timeline = NoPart /\ drawables = NoPart /\ transform = NoPart
  /\ anchor = NoPart /\ demo = NoPart /\ shown = NoPart /\ over = NoPart

NoPage ==
  /\ site = NoPart /\ data = NoPart /\ session = NoPart /\ ajax = NoPart
  /\ board = NoPart /\ serving = NoPart /\ fades = NoPart
  /\ user = NoPart /\ monday = NoPart /\ view = NoPart /\ mine = NoPart
  /\ clicks = NoPart /\ clear = NoPart

\* Lifecycle is the module that this one extends: its daemon has not been started.
NoLife ==
  /\ conf = [web |-> FALSE, start |-> FALSE]
  /\ alive = TRUE /\ listeners = 0 /\ restoring = 0 /\ pairs = 0 /\ stored = FALSE
  /\ teams = {} /\ vizTeams = {} /\ planted = {} /\ late = FALSE

NoDir ==
  /\ online = NoPart /\ timers = NoPart /\ indices = NoPart /\ issued = NoPart
  /\ pings = NoPart

PartsInit ==
  \/ which = "JabbaChat" /\ Jabba!Init /\ NoHigh /\ NoRoom /\ NoViz /\ NoPage /\ NoLife /\ NoDir
  \/ which = "HighLow" /\ High!Init /\ NoJabba /\ NoRoom /\ NoViz /\ NoPage /\ NoLife /\ NoDir
  \/ which = "JabbaRoom" /\ Room!Init /\ NoJabba /\ NoHigh /\ NoViz /\ NoPage /\ NoLife /\ NoDir
  \/ which = "Replay" /\ Viz!Init /\ NoJabba /\ NoHigh /\ NoRoom /\ NoPage /\ NoLife /\ NoDir
  \/ which = "Pages" /\ Page!Init /\ NoJabba /\ NoHigh /\ NoRoom /\ NoViz /\ NoLife /\ NoDir
  \/ which = "Lifecycle" /\ Init /\ NoJabba /\ NoHigh /\ NoRoom /\ NoViz /\ NoPage /\ NoDir
  \/ which = "Directory" /\ Dir!Init /\ NoJabba /\ NoHigh /\ NoRoom /\ NoViz /\ NoPage /\ NoLife

PartsNext ==
  /\ UNCHANGED which
  /\ \/ /\ which = "JabbaChat" /\ Jabba!Next
        /\ UNCHANGED <<highVars, roomVars, vizVars, pageVars, vars, dirVars>>
     \/ /\ which = "HighLow" /\ High!Next
        /\ UNCHANGED <<jabbaVars, roomVars, vizVars, pageVars, vars, dirVars>>
     \/ /\ which = "JabbaRoom" /\ Room!Next
        /\ UNCHANGED <<jabbaVars, highVars, vizVars, pageVars, vars, dirVars>>
     \/ /\ which = "Replay" /\ Viz!Next
        /\ UNCHANGED <<jabbaVars, highVars, roomVars, pageVars, vars, dirVars>>
     \/ /\ which = "Pages" /\ Page!Next
        /\ UNCHANGED <<jabbaVars, highVars, roomVars, vizVars, vars, dirVars>>
     \/ /\ which = "Lifecycle" /\ Next
        /\ UNCHANGED <<jabbaVars, highVars, roomVars, vizVars, pageVars, dirVars>>
     \/ /\ which = "Directory" /\ Dir!Next
        /\ UNCHANGED <<jabbaVars, highVars, roomVars, vizVars, pageVars, vars>>

Fairness ==
  /\ WF_jabbaVars(which = "JabbaChat" /\ Jabba!ClientSteps)
  /\ WF_jabbaVars(which = "JabbaChat" /\ Jabba!DirectoryAnswers)
  /\ WF_pageVars(which = "Pages" /\ Page!Timer)
  /\ WF_pageVars(which = "Pages" /\ Page!Serve(1))
  /\ WF_pageVars(which = "Pages" /\ Page!Expire)
  /\ WF_pageVars(which = "Pages" /\ Page!Answer(1))

PartsSpec == PartsInit /\ [][PartsNext]_partVars /\ Fairness
-----------------------------------------------------------------------------
\* The properties of the parts, each of its own.

\* JabbaChat: nothing is said before everybody who was met has been looked up.
InformedOfAll == which = "JabbaChat" => Jabba!InformedOfAll

\* JabbaChat: a service is not found broken without a reason.
BlamedWithReason == [][which = "JabbaChat" => Jabba!Blamed]_partVars

\* JabbaChat: a check comes to a verdict.
CheckEnds == which = "JabbaChat" => Jabba!CheckEnds

\* HighLow: clients, connections and events fit.
ClientsAccounted == which = "HighLow" => High!ClientsAccounted

\* HighLow: the table holds everybody's best round, and all games but those of
\* users that are logged in twice.
TableRight == which = "HighLow" => High!TableRight

\* JabbaRoom: the list and the messages of the page fit the room.
RoomAgrees == which = "JabbaRoom" => Room!RoomAgrees

\* Replay: a replay shows all there is to show.
ReplayShowsAll == which = "Replay" => Viz!ReplayShowsAll

\* Pages: a page shows its user's own changes.
ShowsOwn == which = "Pages" => Page!ShowsOwn

\* Pages: a page that polls catches up.
PollersCatchUp == which = "Pages" => Page!PollersCatchUp

\* Directory: pings are told apart by their ids.
PingsDistinct == which = "Directory" => Dir!PingsDistinct
=============================================================================
