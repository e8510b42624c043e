------------------------------ MODULE JabbaChat ------------------------------
(***************************************************************************)
(* The program client/client.js of the service JabbaChat, by which the     *)
(* daemon plants and checks.  To plant is to create a user at the web      *)
(* site, as which the check comes back: it logs in at the web              *)
(* site and the chat server, joins the room, asks the user directory       *)
(* (component/server.js) for everybody it met there, says something and    *)
(* leaves.  Everything it waits for is a handler in a HandlerList, and     *)
(* handlers come and go while a stanza is handed to them.                  *)
(*                                                                         *)
(* The chat server is external: it keeps the stanzas for a client in order,*)
(* sends who enters a room the presence of everybody there, its own last,  *)
(* and answers a query itself, with an error, if there is no directory.    *)
(***************************************************************************)
EXTENDS Naturals, Sequences, SequencesExt

CONSTANTS
  Me,        \* the user the check was made for, also its nick
  Others,    \* nicks of people who may be in the room
  Known,     \* users of the directory
  MaxMoves   \* bound: entries and departures of others

VARIABLES
  phase,     \* how far the check has come
  verdict,   \* the exit status, or Running
  handlers,  \* handlers.list of the Connection
  inbox,     \* stanzas the chat server has for the client, oldest first
  chatters,  \* names join has collected and lookup not yet asked for
  nextId,    \* nextId of lookup
  info,      \* users lookup has information about
  room,      \* who is in the room
  directory, \* "up", or "down" after an exception
  queries,   \* queries the directory's database has not answered
  lost,      \* queries the directory took with it
  moves,     \* entries and departures so far
  met        \* everybody join has collected: the names lookup was called with

clientVars == <<phase, verdict, handlers, chatters, nextId, info, met>>
serverVars == <<room, directory, queries, lost, moves>>
vars == <<clientVars, inbox, serverVars>>

Running == 2

Init ==
  /\ phase \in {"create", "website"}
  /\ verdict = Running
  /\ handlers = << >>
  /\ inbox = << >>
  /\ chatters = << >>
  /\ nextId = 1000
  /\ info = {}
  /\ room \in SUBSET Others
  /\ directory = "up"
  /\ queries = {}
  /\ lost = {}
  /\ moves = 0
  /\ met = {}

-----------------------------------------------------------------------------
(***************************************************************************)
(* HandlerList.                                                            *)
(***************************************************************************)

JoinHandler == [name |-> "presence", type |-> "any", id |-> 0]
SuccessHandler(id) == [name |-> "iq", type |-> "result", id |-> id]
ErrorHandler(id) == [name |-> "iq", type |-> "error", id |-> id]
ChatHandler == [name |-> "message", type |-> "groupchat", id |-> 0]

\* Faulty: the type is not looked at.
IsMatch_AnyType(h, s) == h.name = s.name /\ h.id \in {0, s.id}

\* isMatch: what a handler does not name it does not care about.
IsMatch(h, s) == h.name = s.name /\ h.type \in {"any", s.type} /\ h.id \in {0, s.id}

Without(list, h) ==
  LET left[i \in 0 .. Len(list)] ==
        IF i = 0 THEN << >>
        ELSE IF list[i] = h THEN left[i - 1] ELSE Append(left[i - 1], list[i])
  IN  left[Len(list)]

\* What the client knows, as one record the callbacks change in turn.
Client ==
  [handlers |-> handlers, chatters |-> chatters, nextId |-> nextId, info |-> info,
   phase |-> phase, verdict |-> verdict, met |-> met, sent |-> {}]

-----------------------------------------------------------------------------
(***************************************************************************)
(* The callbacks.                                                          *)
(***************************************************************************)

\* CheckNext: the next name is asked for, or the lookup is over.
CheckNext(c) ==
  IF c.chatters = << >>
  THEN [c EXCEPT !.phase = "informed"]
  ELSE [c EXCEPT !.chatters = Tail(@),
                 !.nextId = @ + 1,
                 !.handlers = @ \o <<SuccessHandler(c.nextId), ErrorHandler(c.nextId)>>,
                 !.sent = @ \cup {[id |-> c.nextId, user |-> Head(c.chatters)]}]

\* Faulty: the name is added after the callback.
Joining_Late(c, s) ==
  IF s.from = Me
  THEN LET d == CheckNext([c EXCEPT !.phase = "lookup"])
       IN  [d EXCEPT !.chatters = Append(@, s.from), !.met = @ \cup {s.from},
                     !.handlers = Without(@, JoinHandler)]
  ELSE [c EXCEPT !.chatters = Append(@, s.from), !.met = @ \cup {s.from}]

\* The handler of join: it has seen everybody when it sees its own name.
Joining(c, s) ==
  LET d == [c EXCEPT !.chatters = Append(@, s.from), !.met = @ \cup {s.from}]
  IN  IF s.from = Me
      THEN [CheckNext([d EXCEPT !.phase = "lookup"]) EXCEPT
              !.handlers = Without(@, JoinHandler)]
      ELSE d

\* successFunction and errorFunction.  Each returns nothing, and so its own
\* handler goes as well.
Succeeded(c, s) ==
  CheckNext([c EXCEPT !.info = @ \cup {s.from},
                      !.handlers = Without(Without(@, ErrorHandler(s.id)), SuccessHandler(s.id))])

\* Faulty: the callback is forgotten.
Failed_Silent(c, s) == [c EXCEPT !.handlers = Without(@, SuccessHandler(s.id))]
Failed(c, s) ==
  [c EXCEPT !.handlers = Without(Without(@, SuccessHandler(s.id)), ErrorHandler(s.id)),
            !.phase = "done", !.verdict = 1]

Callback(h, c, s) ==
  CASE h.name = "presence" -> Joining(c, s)
    [] h.name = "iq" /\ h.type = "result" -> Succeeded(c, s)
    [] h.name = "iq" /\ h.type = "error" -> Failed(c, s)
    [] OTHER -> c

\* handle: the handlers that match now are called one after the other, those
\* that are added meanwhile are not.  The process may exit on the way.
Handle(s) ==
  LET after[i \in 0 .. Len(handlers)] ==
        IF i = 0 THEN Client
        ELSE IF IsMatch(handlers[i], s) /\ after[i - 1].verdict = Running
        THEN Callback(handlers[i], after[i - 1], s)
        ELSE after[i - 1]
  IN  after[Len(handlers)]

-----------------------------------------------------------------------------
(***************************************************************************)
(* The check.                                                              *)
(***************************************************************************)

Exit(status) ==
  /\ verdict' = status
  /\ phase' = "done"
  /\ UNCHANGED <<handlers, inbox, chatters, nextId, info, met, serverVars>>

Step(from, to) ==
  /\ phase = from
  /\ phase' = to
  /\ UNCHANGED <<verdict, chatters, nextId, info, met, directory, queries, lost, moves>>

\* --plant: WebSite.create is answered with 200 or something else, or not at all.
Created ==
  /\ phase = "create"
  /\ \E status \in {0, 1} : Exit(status)

\* --check: WebSite.login is answered with 200 or something else, or not at all.
WebsiteAnswers ==
  \/ Step("website", "connecting") /\ UNCHANGED <<handlers, inbox, room>>
  \/ phase = "website" /\ Exit(1)

\* `online': the presence is sent and the room joined.
Online ==
  /\ Step("connecting", "joining")
  /\ handlers' = Append(handlers, JoinHandler)
  /\ UNCHANGED <<inbox, room>>

\* `error' of the chat connection, at any time after the login began.
ConnectionFails ==
  /\ phase \notin {"create", "website", "done"}
  /\ Exit(1)

\* The room receives the presence of join.
Presence(p, type) == [name |-> "presence", type |-> type, from |-> p, id |-> 0]
Enter ==
  /\ phase = "joining"
  /\ Me \notin room
  /\ room' = room \cup {Me}
  /\ \E order \in SetToSeqs(room) :
       inbox' = inbox \o [i \in DOMAIN order |-> Presence(order[i], "available")]
                      \o <<Presence(Me, "available")>>
  /\ UNCHANGED <<clientVars, directory, queries, lost, moves>>

Reply(q, type) == [name |-> "iq", type |-> type, from |-> q.user, id |-> q.id]

\* The client hears a stanza; a query it sends reaches the directory or comes
\* back from the chat server.
Hear ==
  /\ verdict = Running
  /\ inbox # << >>
  /\ LET c == Handle(Head(inbox))
     IN  /\ IF directory = "up"
            THEN queries' = queries \cup c.sent /\ inbox' = Tail(inbox)
            ELSE /\ inbox' = Tail(inbox) \o SetToSeq({Reply(q, "error") : q \in c.sent})
                 /\ UNCHANGED queries
         /\ handlers' = c.handlers
         /\ chatters' = c.chatters
         /\ nextId' = c.nextId
         /\ info' = c.info
         /\ phase' = c.phase
         /\ verdict' = c.verdict
         /\ met' = c.met
  /\ UNCHANGED <<room, directory, lost, moves>>

\* The timers of SayInRoom: chat, leave, done.
Chat ==
  /\ Step("informed", "chatting")
  /\ handlers' = Append(handlers, ChatHandler)
  /\ inbox' = Append(inbox, [name |-> "message", type |-> "groupchat", from |-> Me, id |-> 0])
  /\ UNCHANGED room
Leave ==
  /\ Step("chatting", "left")
  /\ room' = room \ {Me}
  /\ UNCHANGED <<handlers, inbox>>
Succeed ==
  /\ phase = "left"
  /\ Exit(0)

-----------------------------------------------------------------------------
(***************************************************************************)
(* Everybody else.                                                         *)
(***************************************************************************)

\* The directory: an answer with the id of the query, whichever is found.
Answer(q) ==
  /\ q \in queries
  /\ queries' = queries \ {q}
  /\ inbox' = Append(inbox, Reply(q, IF q.user \in Known THEN "result" ELSE "error"))
  /\ UNCHANGED <<clientVars, room, directory, lost, moves>>

\* An error of its database: `doc' is neither null nor a user, and the process
\* ends with an exception.  Nothing starts it again.
DirectoryFails ==
  /\ queries # {}
  /\ directory' = "down"
  /\ lost' = lost \cup queries
  /\ queries' = {}
  /\ UNCHANGED <<clientVars, inbox, room, moves>>

Move(p) ==
  /\ moves < MaxMoves
  /\ moves' = moves + 1
  /\ room' = IF p \in room THEN room \ {p} ELSE room \cup {p}
  /\ inbox' = IF Me \in room
              THEN Append(inbox, Presence(p, IF p \in room THEN "unavailable" ELSE "available"))
              ELSE inbox
  /\ UNCHANGED <<clientVars, directory, queries, lost>>

ClientSteps == Created \/ WebsiteAnswers \/ Online \/ Enter \/ Hear \/ Chat \/ Leave \/ Succeed
DirectoryAnswers == \E q \in queries : Answer(q)

Next ==
  \/ ClientSteps
  \/ ConnectionFails
  \/ DirectoryAnswers
  \/ DirectoryFails
  \/ \E p \in Others : Move(p)

\* The servers answer and timers fire.
Fairness == WF_vars(ClientSteps) /\ WF_vars(DirectoryAnswers)

Spec == Init /\ [][Next]_vars /\ Fairness
-----------------------------------------------------------------------------
(***************************************************************************)
(* Properties.                                                             *)
(***************************************************************************)

\* There are handlers for the query under way and for no other, whatever was
\* added and deleted while stanzas were handled.
HandlersFit ==
  verdict = Running =>
    handlers = CASE phase = "joining" -> <<JoinHandler>>
                 [] phase = "lookup" -> <<SuccessHandler(nextId - 1), ErrorHandler(nextId - 1)>>
                 [] phase \in {"chatting", "left"} -> <<ChatHandler>>
                 [] OTHER -> << >>

\* The check waits for what it has asked and for nothing else, and says nothing
\* before it has information about everybody it met, although the list of names is
\* emptied by the lookup while it grows.
InformedOfAll ==
  /\ HandlersFit
  /\ phase \in {"informed", "chatting", "left"} => info = met /\ Me \in met

\* The service is found to be broken only if something went wrong, or somebody
\* was in the room whom the directory does not know.
Blamed ==
  verdict = Running /\ verdict' = 1 /\ ~ConnectionFails /\ phase \notin {"create", "website"}
    => met \ Known # {} \/ directory = "down"
BlamedWithReason == [][Blamed]_vars

\* The check comes to a verdict unless the directory has taken a query with it:
\* nothing in the client waits for a limited time only.
CheckEnds == <>(verdict # Running \/ lost # {})
=============================================================================
