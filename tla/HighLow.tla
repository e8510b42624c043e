------------------------------- MODULE HighLow -------------------------------
(***************************************************************************)
(* The server of the service HighLow: one thread, an epoll loop over a     *)
(* fixed array of clients with a free list, and a database of users that   *)
(* outlives the process.  A player may be logged in over several           *)
(* connections, and log in again in the middle of a game.                  *)
(*                                                                         *)
(* The kernel is external: what a peer has sent is read in one go, and     *)
(* epoll_wait tells of everything that is ready.  A guess carries whether  *)
(* it will turn out right: the numbers are drawn at random after it.       *)
(* Packets that only ask (high scores, details) change nothing and are left*)
(* out.                                                                    *)
(***************************************************************************)
EXTENDS Naturals, Sequences, SequencesExt, FiniteSets

CONSTANTS
  Peers,       \* connections peers make
  Slots,       \* the array clients
  Users,
  Veterans,    \* users the database has from an earlier day: a game of three rounds each
  NoUser,      \* the empty name
  Script       \* bound: the packets every peer sends, in order: [type |-> "auth", user, own]
               \* (own: is the password the user's?), [type |-> "new_game"],
               \* [type |-> "guess", right] or [type |-> "dummy"]

VARIABLES
  place,    \* where a connection is: "new", "waiting", "gone" or a slot
  unread,   \* packets a peer has sent that have not been read
  hungUp,   \* connections the peer has closed
  free,     \* the list available
  client,   \* the Client in every slot
  batch,    \* events of the last epoll_wait not handled yet
  reading,  \* is the client of the first event being handled?
  buffer,   \* the packets read from it that have not been handled
  users,    \* the table of users; a user that is not there has no games and no score
  created,  \* names in the table
  toSend,   \* what is left of the script of a peer, while it is connected
  won,      \* the highest round a user has reached (for the properties)
  begun,    \* games a user has begun (for the properties)
  twice     \* users that have been logged in twice at once (for the properties)

peerVars == <<unread, hungUp, toSend>>
dbVars == <<users, created, won, begun, twice>>
vars == <<place, free, client, batch, reading, buffer, peerVars, dbVars>>

Server == "server"

\* client_init.
Fresh == [user |-> NoUser, games |-> 0, round |-> 0, playing |-> FALSE, closing |-> FALSE]

Init ==
  /\ free = SetToSeq(Slots)
  /\ client = [s \in Slots |-> Fresh]
  /\ batch = << >>
  /\ reading = FALSE
  /\ buffer = << >>
  /\ place = [p \in Peers |-> "new"]
  /\ unread = [p \in Peers |-> << >>]
  /\ hungUp = {}
  /\ toSend = Script
  /\ users = [u \in Users |-> IF u \in Veterans THEN [score |-> 3, games |-> 1]
                                                  ELSE [score |-> 0, games |-> 0]]
  /\ created = Veterans
  /\ won = [u \in Users |-> users[u].score]
  /\ begun = [u \in Users |-> users[u].games]
  /\ twice = {}

InUse == {s \in Slots : \E p \in Peers : place[p] = s}
Waiting == {p \in Peers : place[p] = "waiting"}
Holder(s) == CHOOSE p \in Peers : place[p] = s
Ready ==
  {s \in InUse : unread[Holder(s)] # << >> \/ Holder(s) \in hungUp}
    \cup (IF Waiting = {} THEN {} ELSE {Server})

\* epoll_wait.
Wait ==
  /\ batch = << >>
  /\ Ready # {}
  /\ batch' \in SetToSeqs(Ready)
  /\ UNCHANGED <<place, free, client, reading, buffer, peerVars, dbVars>>

\* handle_server: everybody that waits, in the order they came in (any order
\* here), gets a client or is sent away.
HandleServer ==
  /\ batch # << >>
  /\ Head(batch) = Server
  /\ batch' = Tail(batch)
  /\ \E order \in SetToSeqs(Waiting) :
       LET Seat(i) == IF i <= Len(free) THEN free[i] ELSE "gone"
           seated == {free[i] : i \in 1 .. Len(order)  \cap DOMAIN free}
       IN  /\ place' = [p \in Peers |-> IF p \in Waiting
                                        THEN Seat(CHOOSE i \in DOMAIN order : order[i] = p)
                                        ELSE place[p]]
           /\ client' = [s \in Slots |-> IF s \in seated THEN Fresh ELSE client[s]]
           /\ free' = SubSeq(free, Cardinality(seated) + 1, Len(free))
  /\ UNCHANGED <<reading, buffer, peerVars, dbVars>>

\* Faulty: a client in a game is kept from the list.
Returned_Leaks(s) == IF client[s].playing THEN free ELSE <<s>> \o free
\* client_push.
Returned(s) == <<s>> \o free

Close(s) ==
  /\ place' = [place EXCEPT ![Holder(s)] = "gone"]
  /\ free' = Returned(s)
  /\ toSend' = [toSend EXCEPT ![Holder(s)] = << >>]

\* handle_client: everything the peer has sent is read; who has hung up is not
\* listened to any more.
HandleClient ==
  /\ batch # << >>
  /\ Head(batch) \in Slots
  /\ ~reading
  /\ LET s == Head(batch)
         p == Holder(s)
     IN  /\ unread' = [unread EXCEPT ![p] = << >>]
         /\ IF p \in hungUp
            THEN Close(s) /\ batch' = Tail(batch) /\ UNCHANGED <<reading, buffer>>
            ELSE /\ reading' = TRUE
                 /\ buffer' = unread[p]
                 /\ UNCHANGED <<place, free, batch, toSend>>
  /\ UNCHANGED <<client, hungUp, dbVars>>

\* handle_client_data: the first packet of the buffer goes to its handler.
Packet(s, type) ==
  /\ reading
  /\ s = Head(batch)
  /\ buffer # << >>
  /\ Head(buffer).type = type
  /\ buffer' = Tail(buffer)
  /\ UNCHANGED <<place, free, batch, reading, peerVars>>

IsAuthenticated(s) == client[s].user # NoUser

\* Who is logged in over another connection.
Elsewhere(s) == {client[t].user : t \in InUse \ {s}}

\* db_auth: an unknown name is entered; a known one needs its password.
HandleAuth(s) ==
  /\ Packet(s, "auth")
  /\ LET p == Head(buffer)
     IN  IF p.own \/ p.user \notin created
         THEN /\ client' = [client EXCEPT ![s].user = p.user, ![s].games = users[p.user].games]
              /\ created' = created \cup {p.user}
              /\ twice' = twice \cup ({p.user} \cap Elsewhere(s))
         ELSE /\ client' = [client EXCEPT ![s].user = NoUser, ![s].closing = TRUE]
              /\ UNCHANGED <<created, twice>>
  /\ UNCHANGED <<users, won, begun>>

\* Faulty: the number of games is not stored.
StoredGames_Not(u, games) == users[u].games
\* db_update_num_games.
StoredGames(u, games) == games

HandleNewGame(s) ==
  /\ Packet(s, "new_game")
  /\ IsAuthenticated(s)
  /\ ~client[s].playing
  /\ LET u == client[s].user
         games == client[s].games + 1
     IN  /\ client' = [client EXCEPT ![s].games = games, ![s].playing = TRUE, ![s].round = 1]
         /\ users' = [users EXCEPT ![u].games = StoredGames(u, games)]
         /\ begun' = [begun EXCEPT ![u] = @ + 1]
  /\ UNCHANGED <<created, won, twice>>

\* db_update_score: `and score<%d'.
BetterScore(old, round) == IF old < round THEN round ELSE old

HandleGuess(s) ==
  /\ Packet(s, "guess")
  /\ IsAuthenticated(s)
  /\ client[s].playing
  /\ LET u == client[s].user
         round == client[s].round + 1
     IN  IF Head(buffer).right
         THEN /\ client' = [client EXCEPT ![s].round = round]
              /\ users' = [users EXCEPT ![u].score = BetterScore(@, round)]
              /\ won' = [won EXCEPT ![u] = IF round > @ THEN round ELSE @]
         ELSE /\ client' = [client EXCEPT ![s].playing = FALSE]
              /\ UNCHANGED <<users, won>>
  /\ UNCHANGED <<created, begun, twice>>

HandleDummy(s) ==
  /\ Packet(s, "dummy")
  /\ IsAuthenticated(s)
  /\ client' = [client EXCEPT ![s].closing = TRUE]
  /\ UNCHANGED dbVars

\* MSG_TYPE_NEED_AUTH, a new game during a game and a guess without one.
Ignore(s, type) ==
  /\ Packet(s, type)
  /\ IsAuthenticated(s) => type # "dummy" /\ client[s].playing = (type = "new_game")
  /\ UNCHANGED <<client, dbVars>>

\* The end of handle_client.
Handled ==
  /\ reading
  /\ buffer = << >>
  /\ reading' = FALSE
  /\ batch' = Tail(batch)
  /\ IF client[Head(batch)].closing THEN Close(Head(batch)) ELSE UNCHANGED <<place, free, toSend>>
  /\ UNCHANGED <<client, buffer, unread, hungUp, dbVars>>

\* The child process ends and the parent starts another.
Restart ==
  /\ free' = SetToSeq(Slots)
  /\ client' = [s \in Slots |-> Fresh]
  /\ batch' = << >>
  /\ reading' = FALSE
  /\ buffer' = << >>
  /\ place' = [p \in Peers |-> IF place[p] = "new" THEN "new" ELSE "gone"]
  /\ unread' = [p \in Peers |-> << >>]
  /\ toSend' = [p \in Peers |-> IF place[p] = "new" THEN toSend[p] ELSE << >>]
  /\ UNCHANGED <<hungUp, dbVars>>

-----------------------------------------------------------------------------
(***************************************************************************)
(* The peers.                                                              *)
(***************************************************************************)

Connect(p) ==
  /\ place[p] = "new"
  /\ place' = [place EXCEPT ![p] = "waiting"]
  /\ UNCHANGED <<free, client, batch, reading, buffer, peerVars, dbVars>>

Connected(p) == place[p] \in {"waiting"} \cup Slots /\ p \notin hungUp

Send(p) ==
  /\ Connected(p)
  /\ toSend[p] # << >>
  /\ toSend' = [toSend EXCEPT ![p] = Tail(@)]
  /\ unread' = [unread EXCEPT ![p] = Append(@, Head(toSend[p]))]
  /\ UNCHANGED <<place, free, client, batch, reading, buffer, hungUp, dbVars>>

HangUp(p) ==
  /\ Connected(p)
  /\ hungUp' = hungUp \cup {p}
  /\ toSend' = [toSend EXCEPT ![p] = << >>]
  /\ UNCHANGED <<place, free, client, batch, reading, buffer, unread, dbVars>>

Loop ==
  \/ Wait
  \/ HandleServer
  \/ HandleClient
  \/ \E s \in Slots :
       \/ HandleAuth(s) \/ HandleNewGame(s) \/ HandleGuess(s) \/ HandleDummy(s)
       \/ \E type \in {"new_game", "guess", "dummy"} : Ignore(s, type)
  \/ Handled

Next ==
  \/ Loop
  \/ Restart
  \/ \E p \in Peers : Connect(p) \/ Send(p) \/ HangUp(p)

Spec == Init /\ [][Next]_vars
-----------------------------------------------------------------------------
(***************************************************************************)
(* Properties.                                                             *)
(***************************************************************************)

\* Every client is in the free list once or serves one connection, and an event
\* of the batch that is not handled yet is about a connection that still has
\* its client: a client that is freed and given away in one batch is not taken
\* for the one before.
ClientsAccounted ==
  /\ \A i, j \in DOMAIN free : free[i] = free[j] => i = j
  /\ \A s \in Slots : (\E i \in DOMAIN free : free[i] = s) <=> s \notin InUse
  /\ \A p, q \in Peers : place[p] = place[q] /\ place[p] \in Slots => p = q
  /\ \A i \in DOMAIN batch : batch[i] \in Slots =>
       /\ batch[i] \in InUse
       /\ batch[i] \in Ready \/ (i = 1 /\ reading)
       /\ \A j \in DOMAIN batch : batch[j] = batch[i] => i = j

\* The high score of a user is the highest round it has reached, over all its
\* connections and whatever crashes.
ScoreIsBest == \A u \in Users : users[u].score = won[u]

\* The games of a user are counted, unless it was logged in twice: each
\* connection counts from the number it read when it logged in.
GamesCounted == \A u \in Users : u \notin twice => users[u].games = begun[u]

\* The table of users tells of everybody's best round and of all games.
TableRight == ScoreIsBest /\ GamesCounted
=============================================================================
