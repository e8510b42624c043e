-------------------------------- MODULE Pages --------------------------------
(***************************************************************************)
(* The pages that show what a server keeps and ask for it with $.ajax:     *)
(* the status and the score page of the daemon, which poll, and those of   *)
(* LeetPhorum, MyStatus and Barbershop, which load again after a change of *)
(* their own, and the yellow pages of WebServer, with a form to search and *)
(* a form to add; and what their servers make of the requests.  What is    *)
(* kept is the number of changes made to it; answers may come in any       *)
(* order, and not at all.                                                  *)
(***************************************************************************)
EXTENDS Naturals, Sequences

CONSTANTS
  MaxRequests, \* bound: requests of a page that are under way
  MaxMoves     \* bound: changes by others, clicks of the user and failures

Unread == 0

VARIABLES
  site,    \* "status", "scores", "phorum", "mystatus", "barbershop" or "yp"
  data,    \* what the server keeps
  session, \* $_SESSION['me']: is the user logged in, for the server?
  board,   \* `cached' of the score page: the board that is served until it expires
  serving, \* FALSE once an error of the cursor has left the score page `generating'
  ajax,    \* the requests under way, in their order: [what, week, reply, ok]
  user,    \* is the user logged in, for the page?
  monday,  \* currentMonday, the week over the table of Barbershop; the form of "yp"
  fades,   \* the forms of "yp" that were chosen and are shown when a fade has ended
  view,    \* what the page shows: [week, data]
  mine,    \* what the server kept after the user's latest acknowledged change
  moves,
  clear    \* no request failed, and no two of a kind were under way together

serverVars == <<data, session, board, serving>>
vars == <<site, serverVars, ajax, user, monday, fades, view, mine, moves, clear>>

Logins == {"login", "create", "logout"}

\* $.ajax: one more request under way.
Sent(requests, what, week) ==
  Append(requests, [what |-> what, week |-> week, reply |-> Unread, ok |-> FALSE])
Alone(requests, whats) == \A i \in DOMAIN requests : requests[i].what \notin whats
Without(i) == SubSeq(ajax, 1, i - 1) \o SubSeq(ajax, i + 1, Len(ajax))

\* Request i is answered, and its handler sends what is in `more' (at most one).
Answered(i, what, more) ==
  /\ ajax[i].what = what
  /\ ajax[i].reply # Unread
  /\ ajax' = IF more = "none" THEN Without(i) ELSE Sent(Without(i), more, monday)
  /\ clear' = (clear /\ (more = "none" \/ Alone(Without(i), {more})))
  /\ UNCHANGED <<site, serverVars, monday, fades, moves>>

Show(i) == view' = [week |-> ajax[i].week, data |-> ajax[i].reply]

\* A click or a timer sends a request.
Asks(what, week) ==
  /\ Len(ajax) < MaxRequests
  /\ ajax' = Sent(ajax, what, week)
  /\ clear' = (clear /\ Alone(ajax, IF what \in Logins THEN Logins ELSE {what}) /\ fades = <<>>)
  /\ UNCHANGED <<site, serverVars, fades, user, mine>>

Sends(what, week) == Asks(what, week) /\ UNCHANGED view

Click == moves < MaxMoves /\ moves' = moves + 1

Init ==
  /\ site \in {"status", "scores", "phorum", "mystatus", "barbershop", "yp"}
  /\ data = 1 /\ mine = 0 /\ moves = 0 /\ clear = TRUE /\ monday = 1
  /\ session \in IF site \in {"phorum", "mystatus"} THEN BOOLEAN ELSE {FALSE}
  /\ user = session
  /\ board = Unread /\ serving = TRUE /\ fades = <<>>
  /\ view = [week |-> 1, data |-> 0]
  /\ ajax = IF site = "yp" \/ (site = "mystatus" /\ ~user) THEN <<>> ELSE Sent(<<>>, "load", 1)

-----------------------------------------------------------------------------
(***************************************************************************)
(* The servers, the network and other users.                               *)
(***************************************************************************)
Reply(i, what, reply, ok) ==
  /\ i \in DOMAIN ajax /\ ajax[i].reply = Unread /\ ajax[i].what = what
  /\ ajax' = [ajax EXCEPT ![i].reply = reply, ![i].ok = ok]
  /\ UNCHANGED <<site, serving, user, monday, fades, view, mine, moves, clear>>

\* /status.json.
ServeStatus(i) ==
  /\ site = "status"
  /\ Reply(i, "load", data, TRUE)
  /\ UNCHANGED <<data, session, board>>

\* /scores.json: the board that is kept, or a new one.
ServeScores(i) ==
  /\ site = "scores" /\ serving
  /\ board' = IF board = Unread THEN data ELSE board
  /\ Reply(i, "load", board', TRUE)
  /\ UNCHANGED <<data, session>>

\* The timer of the board.
Expire ==
  /\ site = "scores" /\ board # Unread
  /\ board' = Unread
  /\ UNCHANGED <<site, data, session, serving, ajax, user, monday, fades, view, mine, moves, clear>>

\* An error of the cursor ends the generation without a result: `generating' stays
\* TRUE, and nobody is answered any more.
CursorError(i) ==
  /\ site = "scores" /\ serving /\ board = Unread
  /\ i \in DOMAIN ajax /\ ajax[i].reply = Unread
  /\ serving' = FALSE
  /\ UNCHANGED <<site, data, session, board, ajax, user, monday, fades, view, mine, moves, clear>>

Reads(i) == Reply(i, "load", data, TRUE) /\ UNCHANGED <<data, session, board>>

\* A change is refused for a wrong password, a missing field, an hour that is taken.
Writes(i, may) ==
  /\ data' \in IF may THEN {data, data + 1} ELSE {data}
  /\ Reply(i, "write", data', TRUE)
  /\ UNCHANGED <<session, board>>

SetsSession(i, what, is, ok) ==
  /\ session' = is
  /\ Reply(i, what, data, ok)
  /\ UNCHANGED <<data, board>>

\* LeetPhorum: check_authentication looks at name and password before anything else,
\* so the right ones log in whatever they are sent for: creating that very user fails,
\* and the session is his.
ServePhorum(i) ==
  /\ site = "phorum"
  /\ \/ Reads(i)
     \/ Writes(i, session)
     \/ \E right \in BOOLEAN, what \in {"login", "create"} :
          SetsSession(i, what, session \/ right, session \/ right)
     \/ SetsSession(i, "logout", FALSE, TRUE)

\* MyStatus: wrong credentials end a session, a name that is taken does not.
ServeMyStatus(i) ==
  /\ site = "mystatus"
  /\ \/ Reads(i)
     \/ Writes(i, session)
     \/ \E right \in BOOLEAN : SetsSession(i, "login", right, right)
     \/ \E new \in BOOLEAN : SetsSession(i, "create", session \/ new, new)

\* Barbershop and the yellow pages have no sessions.
ServeBarbershop(i) == site = "barbershop" /\ (Reads(i) \/ Writes(i, TRUE))
ServeYellowPages(i) == site = "yp" /\ (Reads(i) \/ Writes(i, TRUE))

Serve(i) ==
  \/ ServeStatus(i) \/ ServeScores(i) \/ ServePhorum(i) \/ ServeMyStatus(i)
  \/ ServeBarbershop(i) \/ ServeYellowPages(i)

\* A request fails, or is not answered for so long that its connection is closed:
\* the status page does that when the cursor fails.
Lose(i) ==
  /\ i \in DOMAIN ajax
  /\ Click
  /\ ajax' = Without(i)
  /\ clear' = FALSE
  /\ UNCHANGED <<site, serverVars, user, monday, fades, view, mine>>

Change ==
  /\ Click
  /\ data' = data + 1
  /\ UNCHANGED <<site, session, board, serving, ajax, user, monday, fades, view, mine, clear>>

-----------------------------------------------------------------------------
\* Faulty: without `cache: false' the browser keeps the first answer.
SetData_Cached(i) ==
  /\ site = "status" /\ Answered(i, "load", "none")
  /\ view' = IF view.data = 0 THEN [week |-> 1, data |-> ajax[i].reply] ELSE view
  /\ UNCHANGED <<user, mine>>

\* The status page: UpdateTables every second, SetData for every answer.
StatusTimer == site = "status" /\ Sends("load", 1) /\ UNCHANGED <<monday, moves>>
SetData(i) == site = "status" /\ Answered(i, "load", "none") /\ Show(i) /\ UNCHANGED <<user, mine>>

\* The score page: Update every 30 seconds, ShowData.
ScoresTimer == site = "scores" /\ Sends("load", 1) /\ UNCHANGED <<monday, moves>>
ShowData(i) == site = "scores" /\ Answered(i, "load", "none") /\ Show(i) /\ UNCHANGED <<user, mine>>

-----------------------------------------------------------------------------
\* LeetPhorum: the form for a post is there for those who are logged in.
NewPost == site = "phorum" /\ user /\ Click /\ Sends("write", 1) /\ UNCHANGED monday
LogIn == site = "phorum" /\ ~user /\ Click /\ Sends("login", 1) /\ UNCHANGED monday
CreateUser == site = "phorum" /\ ~user /\ Click /\ Sends("create", 1) /\ UNCHANGED monday
LogOut == site = "phorum" /\ user /\ Click /\ Sends("logout", 1) /\ UNCHANGED monday

LoadPhorum(i) == site = "phorum" /\ Answered(i, "load", "none") /\ Show(i) /\ UNCHANGED <<user, mine>>

\* Wrong credentials are an alert and nothing else.
LoggedIn(i) ==
  /\ site = "phorum"
  /\ Answered(i, "login", "none")
  /\ user' = (user \/ ajax[i].ok)
  /\ UNCHANGED <<view, mine>>

\* A new user is asked to log in.
UserCreated(i) == site = "phorum" /\ Answered(i, "create", "none") /\ UNCHANGED <<user, view, mine>>

NotLoggedIn(i) ==
  /\ site = "phorum"
  /\ Answered(i, "logout", "none")
  /\ user' = FALSE
  /\ UNCHANGED <<view, mine>>

\* The answer to a post loads the posts again.
Posted(i) ==
  /\ site = "phorum"
  /\ Answered(i, "write", "load")
  /\ mine' = ajax[i].reply
  /\ UNCHANGED <<user, view>>

-----------------------------------------------------------------------------
\* MyStatus: the form to log in or to become a user, and the form for a status.
Authenticate ==
  /\ site = "mystatus" /\ ~user
  /\ Click
  /\ \E what \in {"login", "create"} : Sends(what, 1)
  /\ UNCHANGED monday

NewStatus == site = "mystatus" /\ user /\ Click /\ Sends("write", 1) /\ UNCHANGED monday

\* Faulty: the list is not asked for.
EnterStatuses_Empty(i) ==
  /\ site = "mystatus"
  /\ \E what \in {"login", "create"} : Answered(i, what, "none")
  /\ ajax[i].ok
  /\ user' = TRUE
  /\ view' = [week |-> 1, data |-> 0]
  /\ UNCHANGED mine

\* LoggedIn: the page is built anew, with an empty list, which is loaded.
EnterStatuses(i) ==
  /\ site = "mystatus"
  /\ \E what \in {"login", "create"} : Answered(i, what, "load")
  /\ ajax[i].ok
  /\ user' = TRUE
  /\ view' = [week |-> 1, data |-> 0]
  /\ UNCHANGED mine

\* Wrong credentials, or a name that is taken: an alert.
Refused(i) ==
  /\ site = "mystatus"
  /\ \E what \in {"login", "create"} : Answered(i, what, "none")
  /\ ~ajax[i].ok
  /\ UNCHANGED <<user, view, mine>>

LoadStatuses(i) == site = "mystatus" /\ Answered(i, "load", "none") /\ Show(i) /\ UNCHANGED <<user, mine>>

StatusChanged(i) ==
  /\ site = "mystatus"
  /\ Answered(i, "write", "load")
  /\ mine' = ajax[i].reply
  /\ UNCHANGED <<user, view>>

-----------------------------------------------------------------------------
\* Barbershop: the dates over the table change at once, the table with the answer,
\* which does not say what week it is about.
ChangeWeek ==
  /\ site = "barbershop"
  /\ Click
  /\ monday' \in {1, 2} \ {monday}
  /\ Sends("load", monday')

HandleWeekData(i) == site = "barbershop" /\ Answered(i, "load", "none") /\ Show(i) /\ UNCHANGED <<user, mine>>

\* A click on a free hour, and the dialog that it opens.
MakeAppointment == site = "barbershop" /\ Click /\ Sends("write", monday) /\ UNCHANGED monday

\* The week that is shown by then is loaded again.
Appointed(i) ==
  /\ site = "barbershop"
  /\ Answered(i, "write", "load")
  /\ mine' = ajax[i].reply
  /\ UNCHANGED <<user, view>>

-----------------------------------------------------------------------------
\* The yellow pages: one place for results, which a new search and the buttons that
\* choose between the forms hide.
Hides == view' = [view EXCEPT !.data = 0]

Search == site = "yp" /\ monday = 1 /\ Click /\ Asks("load", 1) /\ Hides /\ UNCHANGED monday
Add == site = "yp" /\ monday = 2 /\ Click /\ Sends("write", 2) /\ UNCHANGED monday

\* Each button fades the other's form out; the form may be used until that is done.
Choose ==
  /\ site = "yp"
  /\ Click
  /\ \E form \in {1, 2} : fades' = Append(fades, form)
  /\ Hides
  /\ clear' = (clear /\ ajax = <<>> /\ fades = <<>>)
  /\ UNCHANGED <<site, serverVars, ajax, user, monday, mine>>

\* The callback of fadeTo.  Each form has a queue of its own: of two fades either may
\* end first.
Faded(i) ==
  /\ i \in DOMAIN fades
  /\ monday' = fades[i]
  /\ fades' = SubSeq(fades, 1, i - 1) \o SubSeq(fades, i + 1, Len(fades))
  /\ UNCHANGED <<site, serverVars, ajax, user, view, mine, moves, clear>>

Result(i) ==
  /\ site = "yp"
  /\ \E what \in {"load", "write"} : Answered(i, what, "none")
  /\ Show(i)
  /\ UNCHANGED <<user, mine>>

-----------------------------------------------------------------------------
Timer == StatusTimer \/ ScoresTimer
Answer(i) ==
  /\ i \in DOMAIN ajax
  /\ \/ SetData(i) \/ ShowData(i)
     \/ LoadPhorum(i) \/ LoggedIn(i) \/ UserCreated(i) \/ NotLoggedIn(i) \/ Posted(i)
     \/ EnterStatuses(i) \/ Refused(i) \/ LoadStatuses(i) \/ StatusChanged(i)
     \/ HandleWeekData(i) \/ Appointed(i)
     \/ Result(i)

Next ==
  \/ Timer
  \/ NewPost \/ LogIn \/ CreateUser \/ LogOut
  \/ Authenticate \/ NewStatus
  \/ ChangeWeek \/ MakeAppointment
  \/ Search \/ Add \/ Choose
  \/ Change \/ Expire
  \/ \E i \in 1 .. MaxRequests : Serve(i) \/ CursorError(i) \/ Lose(i) \/ Answer(i)
  \/ \E i \in 1 .. MaxMoves : Faded(i)

-----------------------------------------------------------------------------
\* When nothing is under way, a page shows the week it says it shows, what the user
\* has written, and the server's idea of who is logged in, provided that no request
\* failed and no two of a kind overlapped: of two that overlap the older may answer
\* last, and nothing in the pages looks at that.  A result of the yellow pages belongs
\* to the form above it, provided that nothing was under way when the form was chosen
\* and that it was not asked for during the fade.  LeetPhorum may have logged a user
\* in whom its page asks to log in, never the other way round.
ShowsOwn ==
  clear /\ ajax = <<>> /\ fades = <<>> =>
    /\ user => session
    /\ site # "phorum" => user = session
    /\ view.data > 0 => view.week = monday
    /\ site = "yp" \/ (site = "mystatus" /\ ~user) \/ (view.data > 0 /\ view.data >= mine)

\* A page that polls shows in the end what the server keeps, whatever was lost or
\* overtaken, once nothing changes any more, unless an error of the cursor has silenced
\* the score page for good.
PollersCatchUp == <>[](site \in {"status", "scores"} => ~serving \/ view.data = data)
=============================================================================
