------------------------------ MODULE TicTacToe ------------------------------
(***************************************************************************)
(* The service TicTacToe: tttd.rb, whose main thread serves the players,   *)
(* userd.rb, which knows the accounts, and the directories they exchange   *)
(* files through.  A create_user or login command becomes a file for userd *)
(* and the answer a file for tttd, where a second thread hands it to the   *)
(* client.  The two threads share the clients without a lock.              *)
(*                                                                         *)
(* Which accounts exist is userd's business: it may accept or refuse.      *)
(* Commands that are answered with a message and nothing else are left out.*)
(***************************************************************************)
EXTENDS Integers, Sequences, FiniteSets

CONSTANTS
  Clients,  \* connections, each with the TTTClient made for it
  Names,    \* user names
  NoName,
  Nobody,   \* no game, no file, no event: nil
  Unreadable,  \* a name or password that is empty or holds a `='
  Moves,    \* bound: the coordinates players try
  Waits     \* do players await the answer to a login before their next line?

Free == "free"  \* an empty square

\* The answer of userd to a login names the user; all others name nobody.
Answer == [client : Clients, user : Names \cup {NoName}]

\* What the second thread does next with the answer it has in hand.
Event == [client : Clients, user : Names \cup {NoName}, step : {"name", "state", "greet"}]

ASSUME TicTacToeAssumption ==
  /\ NoName \notin Names
  /\ Nobody \notin Clients \cup Names \cup {NoName, Unreadable}
  /\ Unreadable \notin Names \cup {NoName}
  /\ Nobody \notin Answer \cup Event
  /\ Free \notin Clients
  /\ Waits \in BOOLEAN

VARIABLES
  clients,  \* @clients of the server, in order of arrival
  state,    \* @state of every client
  name,     \* @user_name
  game,     \* @game: the place in `games' of the TTTGame
  games,    \* the TTTGames some client has
  closed,   \* clients whose peer is known to have closed the connection
  leaving,  \* the client that cleanup has removed and not yet taken leave of
  userdIn,  \* files in userd_in, by their names
  userdQ,   \* inotify events of userd
  tttdIn,   \* files in tttd_in
  tttdQ,    \* inotify events of the second thread
  event,    \* the result that thread is handing to a client
  awaits,   \* what the player has sent last and not been answered to
  torn,     \* history: clients the two threads have disagreed about
  alive     \* {"userd", "events"}: the loops no exception has ended

serverVars == <<clients, state, name, game, games, closed, leaving>>
fileVars == <<userdIn, userdQ, tttdIn, tttdQ, event, alive>>
vars == <<serverVars, fileVars, awaits, torn>>

-----------------------------------------------------------------------------
(***************************************************************************)
(* TTTGame.                                                                *)
(***************************************************************************)

Squares == (1 .. 3) \X (1 .. 3)
Match ==
  [player1 : Clients, player2 : Clients, current : Clients,
   grid : [Squares -> Clients \cup {Free}]]
NewGame(p, q) ==
  [player1 |-> p, player2 |-> q, current |-> p, grid |-> [s \in Squares |-> Free]]

Players(g) == {g.player1, g.player2}
Opponent(g, p) == CHOOSE q \in Players(g) : q # p

\* The tokens of a player: O for player1 and X for player2 in the code.
Tokens(g, p) == {s \in Squares : g.grid[s] = p}

Rows ==
  {{<<i, j>> : j \in 1 .. 3} : i \in 1 .. 3} \cup {{<<j, i>> : j \in 1 .. 3} : i \in 1 .. 3}
    \cup {{<<i, i>> : i \in 1 .. 3}, {<<4 - i, i>> : i \in 1 .. 3}}

\* Faulty: the diagonals are forgotten.
HasWon_Straight(g, p) ==
  \E r \in Rows : Cardinality({s[1] : s \in r}) * Cardinality({s[2] : s \in r}) = 3 /\ r \subseteq Tokens(g, p)
HasWon(g, p) == \E r \in Rows : r \subseteq Tokens(g, p)

-----------------------------------------------------------------------------
Listed(c) == \E i \in DOMAIN clients : clients[i] = c

\* client_by_name: the first that came.
Named(n) == {i \in DOMAIN clients : name[clients[i]] = n}
ClientByName(n) == clients[CHOOSE i \in Named(n) : \A j \in Named(n) : i <= j]

\* Files are named after the command and the client; the same name is used in
\* both directories.
FileNames == {"create", "login"} \X Clients

\* What an unreadable name or password makes of a file is seen by userd only.
\* What the account is called that is to be created makes no difference.
Content(kind) == (IF kind = "login" THEN Names ELSE {NoName}) \cup {Unreadable}

\* A login or create_user of the client is on its way somewhere.
Pending(c) ==
  \/ \E kind \in {"create", "login"} :
       userdIn[<<kind, c>>] # Nobody \/ tttdIn[<<kind, c>>] # Nobody
  \/ event # Nobody /\ event.client = c

\* The main thread reads a line of the client.
Reads(c) ==
  /\ leaving = Nobody
  /\ Listed(c)
  /\ c \notin closed
  /\ Waits => awaits[c] = Nobody

Init ==
  /\ clients = << >>
  /\ state = [c \in Clients |-> "none"]
  /\ name = [c \in Clients |-> NoName]
  /\ game = [c \in Clients |-> Nobody]
  /\ games = [c \in Clients |-> Nobody]
  /\ closed = {}
  /\ leaving = Nobody
  /\ userdIn = [f \in FileNames |-> Nobody]
  /\ userdQ = << >>
  /\ tttdIn = [f \in FileNames |-> Nobody]
  /\ tttdQ = << >>
  /\ event = Nobody
  /\ alive = {"userd", "events"}
  /\ awaits = [c \in Clients |-> Nobody]
  /\ torn = {}

-----------------------------------------------------------------------------
(***************************************************************************)
(* The main thread.                                                        *)
(***************************************************************************)

Accept(c) ==
  /\ leaving = Nobody
  /\ state[c] = "none"
  /\ state' = [state EXCEPT ![c] = "connected"]
  /\ clients' = Append(clients, c)
  /\ UNCHANGED <<name, game, games, closed, leaving, fileVars, awaits, torn>>

\* inotify does not repeat the event it has queued last.
Notified(q, f) == IF q # << >> /\ q[Len(q)] = f THEN q ELSE Append(q, f)

\* Faulty: who has logged in may do so again.
MayLogIn_Always(c) == TRUE
MayLogIn(c) == state[c] = "connected"

\* create_user and login write a file; an older one of that name is overwritten.
Ask(c, kind, n) ==
  /\ Reads(c)
  /\ MayLogIn(c)
  /\ userdIn' = [userdIn EXCEPT ![<<kind, c>>] = n]
  /\ userdQ' = Notified(userdQ, <<kind, c>>)
  /\ awaits' = [awaits EXCEPT ![c] = n]
  /\ UNCHANGED <<serverVars, tttdIn, tttdQ, event, alive, torn>>

Quit(c) ==
  /\ Reads(c)
  /\ state' = [state EXCEPT ![c] = "disconnecting"]
  /\ UNCHANGED <<clients, name, game, games, closed, leaving, fileVars, awaits, torn>>

\* Faulty: whether the opponent plays already is not asked.
Available_Always(c) == TRUE
Available(c) == game[c] = Nobody

\* Ruby keeps a game as long as somebody has it.
Kept(now) == [k \in Clients |-> IF \E c \in Clients : now[c] = k THEN games[k] ELSE Nobody]

\* A new game takes the place of its player1 in `games', or else any free one.
Unused(k) == \A c \in Clients : game[c] # k
Places(c) == IF Unused(c) THEN {c} ELSE {k \in Clients : Unused(k)}

\* play: who quits in the same breath is not `connected' either.
Play(c, n) ==
  /\ Reads(c)
  /\ state[c] # "connected"
  /\ game[c] = Nobody
  /\ name[c] # n
  /\ Named(n) # {}
  /\ Available(ClientByName(n))
  /\ LET other == ClientByName(n)
     IN  \E k \in Places(c) :
           /\ games' = [games EXCEPT ![k] = NewGame(c, other)]
           /\ game' = [game EXCEPT ![c] = k, ![other] = k]
  /\ UNCHANGED <<clients, state, name, closed, leaving, fileVars, awaits, torn>>

\* The guards of place and remove in handle_command.
HasTurn(c) ==
  /\ Reads(c)
  /\ state[c] # "connected"
  /\ game[c] # Nobody
  /\ games[game[c]].current = c

MustRemove(g, c) == Cardinality(Tokens(g, c)) = 3

Ended(g) == [game EXCEPT ![g.player1] = Nobody, ![g.player2] = Nobody]

Place(c, s) ==
  /\ HasTurn(c)
  /\ s \in Squares
  /\ LET g == games[game[c]]
         h == [g EXCEPT !.grid[s] = c]
     IN  /\ ~MustRemove(g, c)
         /\ g.grid[s] = Free
         /\ IF HasWon(h, c)
            THEN game' = Ended(h) /\ games' = Kept(game')
            ELSE /\ games' = [games EXCEPT ![game[c]] = [h EXCEPT !.current = Opponent(h, c)]]
                 /\ UNCHANGED game
  /\ UNCHANGED <<clients, state, name, closed, leaving, fileVars, awaits, torn>>

\* The player that removed a token moves again.
Remove(c, s) ==
  /\ HasTurn(c)
  /\ s \in Squares
  /\ MustRemove(games[game[c]], c)
  /\ games[game[c]].grid[s] = c
  /\ games' = [games EXCEPT ![game[c]].grid[s] = Free]
  /\ UNCHANGED <<clients, state, name, game, closed, leaving, fileVars, awaits, torn>>

\* The peer has closed the connection: drain meets the end of the stream.
Drain(c) ==
  /\ leaving = Nobody
  /\ Listed(c)
  /\ closed' = closed \cup {c}
  /\ state' = [state EXCEPT ![c] = "disconnecting"]
  /\ UNCHANGED <<clients, name, game, games, leaving, fileVars, awaits, torn>>

\* A send fails, the peer being gone: its rescue marks the client.
SendFails(c) ==
  /\ leaving = Nobody
  /\ Listed(c)
  /\ state' = [state EXCEPT ![c] = "disconnecting"]
  /\ UNCHANGED <<clients, name, game, games, closed, leaving, fileVars, awaits, torn>>

Without(c) ==
  LET k == CHOOSE i \in DOMAIN clients : clients[i] = c
  IN  [i \in 1 .. Len(clients) - 1 |-> IF i < k THEN clients[i] ELSE clients[i + 1]]

\* After every select: clients that are leaving are removed ...
Cleanup(c) ==
  /\ leaving = Nobody
  /\ Listed(c)
  /\ state[c] = "disconnecting"
  /\ clients' = Without(c)
  /\ state' = [state EXCEPT ![c] = "disconnected"]
  /\ closed' = closed \ {c}
  /\ leaving' = c
  /\ UNCHANGED <<name, game, games, fileVars, awaits, torn>>

\* disconnected of TTTGame: the other player has no game any more.
Other(c) == Opponent(games[game[c]], c)
Forsaken(c) == [game EXCEPT ![Other(c)] = Nobody]

\* What a client remembers that is gone matters to nobody but the second thread.
InHand(c) == event # Nobody /\ event.client = c

\* ... and set_state looks at @state, which it has just set, to see what to do:
\* if the second thread has set it since, the other player is not told.
TakeLeave ==
  /\ leaving # Nobody
  /\ leaving' = Nobody
  /\ IF game[leaving] = Nobody
     THEN UNCHANGED <<game, games, torn>>
     ELSE IF state[leaving] = "disconnected"
     THEN /\ game' = IF InHand(leaving) THEN Forsaken(leaving)
                    ELSE [Forsaken(leaving) EXCEPT ![leaving] = Nobody]
          /\ games' = Kept(game')
          /\ UNCHANGED torn
     ELSE torn' = torn \cup {leaving} /\ UNCHANGED <<game, games>>
  /\ name' = [name EXCEPT ![leaving] = NoName]
  /\ UNCHANGED <<clients, state, closed, fileVars, awaits>>

-----------------------------------------------------------------------------
(***************************************************************************)
(* userd and the second thread of tttd.  A file that is not there any more *)
(* raises an exception nobody catches.                                     *)
(***************************************************************************)

\* The answer names the user who is logged in now; all others are a message to
\* the player and nothing else.  An account may exist or not.
Answers(f, n) == {[client |-> f[2], user |-> u] : u \in {NoName, n}}

\* Faulty: the file is read and not deleted.
Taken_Kept(f) == userdIn
Taken(f) == [userdIn EXCEPT ![f] = Nobody]

\* userd takes a file, runs helper/user.rb, and writes its answer.  A file whose
\* lines do not split into two parts each is deleted and nothing is answered.
Userd ==
  /\ "userd" \in alive
  /\ userdQ # << >>
  /\ LET f == Head(userdQ)
         n == userdIn[f]
     IN  /\ userdQ' = Tail(userdQ)
         /\ userdIn' = Taken(f)
         /\ alive' = IF n = Nobody THEN alive \ {"userd"} ELSE alive
         /\ IF n \notin {Nobody, Unreadable}
            THEN \E answer \in Answers(f, n) :
                   /\ tttdIn' = [tttdIn EXCEPT ![f] = answer]
                   /\ tttdQ' = Notified(tttdQ, f)
            ELSE UNCHANGED <<tttdIn, tttdQ>>
  /\ UNCHANGED <<serverVars, event, awaits, torn>>

\* The second thread takes an answer and looks its client up ...
LookUp ==
  /\ "events" \in alive
  /\ event = Nobody
  /\ tttdQ # << >>
  /\ LET f == Head(tttdQ)
         answer == tttdIn[f]
     IN  /\ tttdQ' = Tail(tttdQ)
         /\ tttdIn' = [tttdIn EXCEPT ![f] = Nobody]
         /\ alive' = IF answer = Nobody THEN alive \ {"events"} ELSE alive
         /\ event' = IF answer # Nobody /\ Listed(f[2])
                     THEN [client |-> f[2], user |-> answer.user,
                           step |-> IF answer.user = NoName THEN "greet" ELSE "name"]
                     ELSE Nobody
  /\ UNCHANGED <<serverVars, userdIn, userdQ, awaits, torn>>

Handing(step) == event # Nobody /\ event.step = step
Then(step) == event' = [event EXCEPT !.step = step]

\* ... and calls its `event', wherever the main thread is by then.  It sets
\* @user_name,
SetName ==
  /\ Handing("name")
  /\ name' = [name EXCEPT ![event.client] = event.user]
  /\ Then("state")
  /\ UNCHANGED <<clients, state, game, games, closed, leaving,
                 userdIn, userdQ, tttdIn, tttdQ, alive, awaits, torn>>

\* then @state, and then
SetState ==
  /\ Handing("state")
  /\ state' = [state EXCEPT ![event.client] = "authenticated"]
  /\ Then("greet")
  /\ UNCHANGED <<clients, name, game, games, closed, leaving,
                 userdIn, userdQ, tttdIn, tttdQ, alive, awaits, torn>>

Answered ==
  /\ event' = Nobody
  /\ awaits' = [awaits EXCEPT ![event.client] = Nobody]
  /\ UNCHANGED <<clients, name, closed, leaving, userdIn, userdQ, tttdIn, tttdQ, alive>>

\* looks at @state again.  Mostly it greets: a send that fails marks the client,
\* even one that is disconnected by now.
Greet ==
  /\ Handing("greet")
  /\ event.user # NoName => state[event.client] # "disconnected"
  /\ \/ UNCHANGED state
     \/ state' = [state EXCEPT ![event.client] = "disconnecting"]
  /\ UNCHANGED <<game, games, torn>>
  /\ Answered

\* If the main thread has found the client disconnected since, it takes leave
\* of the client's game as well, which the other player may have left for good.
GreetGone ==
  /\ Handing("greet")
  /\ event.user # NoName
  /\ LET c == event.client
     IN  /\ state[c] = "disconnected"
         /\ IF game[c] = Nobody
            THEN UNCHANGED <<game, games, torn>>
            ELSE /\ game' = Forsaken(c)
                 /\ games' = Kept(game')
                 /\ torn' = IF leaving = c THEN torn ELSE torn \cup {Other(c)}
  /\ UNCHANGED state
  /\ Answered

-----------------------------------------------------------------------------
MainThread ==
  \E c \in Clients :
    \/ Accept(c)
    \/ \E kind \in {"create", "login"} : \E n \in Content(kind) : Ask(c, kind, n)
    \/ Quit(c)
    \/ \E n \in Names : Play(c, n)
    \/ \E s \in Moves : Place(c, s) \/ Remove(c, s)
    \/ Drain(c)
    \/ SendFails(c)
    \/ Cleanup(c)

SecondThread == LookUp \/ SetName \/ SetState \/ Greet \/ GreetGone

Next == MainThread \/ TakeLeave \/ Userd \/ SecondThread

Spec == Init /\ [][Next]_vars
-----------------------------------------------------------------------------
(***************************************************************************)
(* Properties.                                                             *)
(***************************************************************************)

States == {"none", "connected", "authenticated", "disconnecting", "disconnected"}

TypeOK ==
  /\ clients \in Seq(Clients)
  /\ \A i, j \in DOMAIN clients : clients[i] = clients[j] => i = j
  /\ state \in [Clients -> States]
  /\ name \in [Clients -> Names \cup {NoName}]
  /\ game \in [Clients -> Clients \cup {Nobody}]
  /\ games \in [Clients -> Match \cup {Nobody}]
  /\ \A c \in Clients : Listed(c) => state[c] \in {"connected", "authenticated", "disconnecting"}
  /\ closed \subseteq Clients
  /\ leaving \in Clients \cup {Nobody}
  /\ userdIn \in [FileNames -> Names \cup {NoName, Unreadable, Nobody}]
  /\ userdQ \in Seq(FileNames)
  /\ tttdIn \in [FileNames -> Answer \cup {Nobody}]
  /\ \A f \in FileNames : tttdIn[f] # Nobody => tttdIn[f].client = f[2]
  /\ tttdQ \in Seq(FileNames)
  /\ event \in Event \cup {Nobody}
  /\ alive \subseteq {"userd", "events"}
  /\ awaits \in [Clients -> Names \cup {NoName, Unreadable, Nobody}]
  /\ torn \subseteq Clients

\* Who plays, plays against somebody who plays the same game, is there to make
\* the next move and is told when the other leaves.  Excepted are opponents that
\* the second thread has torn away: one that leaves in the middle of being logged
\* in, and that the main thread then takes no leave of, and one that is told twice
\* of that, and loses the next game it has begun with somebody else.
GamesPaired ==
  leaving = Nobody =>
    \A c \in Clients : Listed(c) /\ game[c] # Nobody =>
      LET g == games[game[c]]
      IN  /\ c \in Players(g)
          /\ Cardinality(Players(g)) = 2
          /\ Opponent(g, c) \notin torn =>
               Listed(Opponent(g, c)) /\ game[Opponent(g, c)] = game[c]

\* The squares numbered as in the old puzzle: three of them are in a row if and
\* only if their numbers add up to 15.
Magic == << <<4, 9, 2>>, <<3, 5, 7>>, <<8, 1, 6>> >>
InARow(T) ==
  \E r, s, t \in T : /\ r # s /\ s # t /\ t # r
                     /\ Magic[r[1]][r[2]] + Magic[s[1]][s[2]] + Magic[t[1]][t[2]] = 15

\* The rules, whoever comes and goes: three tokens at most, no more than one
\* ahead, and no game goes on after it has been won.
RulesKept ==
  \A c \in Clients : Listed(c) /\ game[c] # Nobody /\ games[game[c]].player1 = c =>
    LET g == games[game[c]]
        mine == Tokens(g, g.player1)
        yours == Tokens(g, g.player2)
    IN  /\ Cardinality(mine) <= 3 /\ Cardinality(yours) <= 3
        /\ ~InARow(mine) /\ ~InARow(yours)
        /\ Cardinality(mine) - Cardinality(yours) \in -1 .. 1

\* A user stays who it is: `You can not do that after having logged in.'
NamesStay == [][\A c \in Clients : Listed(c) /\ name[c] # NoName => name'[c] = name[c]]_vars

\* No login or create_user is lost between the files and the events, and neither
\* loop is ended by a file that has gone: who has sent one is still being served
\* or has been answered, unless userd can make nothing of the name or password.
LoginsUnderWay ==
  /\ alive = {"userd", "events"}
  /\ \A f \in FileNames :
       /\ userdIn[f] # Nobody <=> \E i \in DOMAIN userdQ : userdQ[i] = f
       /\ tttdIn[f] # Nobody <=> \E i \in DOMAIN tttdQ : tttdQ[i] = f
  /\ \A c \in Clients : Listed(c) /\ awaits[c] \notin {Nobody, Unreadable} => Pending(c)
=============================================================================
