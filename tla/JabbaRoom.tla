----------------------------- MODULE JabbaRoom ------------------------------
(***************************************************************************)
(* The page of JabbaChat (src/services/JabbaChat/www/js/jabba.js): the     *)
(* login, who is in the room, what is said, and the queries to the         *)
(* directory that hold both up.  The room sends its stanzas in order; the  *)
(* directory answers whenever it likes.  A person may be connected more    *)
(* than once under one name.                                               *)
(***************************************************************************)
EXTENDS Naturals, SequencesExt

CONSTANTS
  Visitors,  \* those who may come: pairs of a name and a jid
  Nameless,  \* those whose real name in the directory is empty
  MaxStanzas \* bound: stanzas of the room

VARIABLES
  dialog,       \* "login", "create", "connecting", "room" or "failed"
  there,        \* external: the connections in the room, pairs of name and jid
  updated,      \* names that sent another presence while they were there
  stanzas,      \* the stanzas of the room up to now
  deaf,         \* "OnUser", "OnChat": has Strophe dropped it after an exception?
  chatters,     \* name -> [id, connections (how often each jid was pushed)]
  chatterInfo,  \* the names whose data are known
  asked,        \* queries under way, by name
  pendingChats, \* messages that wait for the data of their speakers
  users         \* the list beside the chat: pairs of id and name

roomVars == <<there, updated, stanzas, deaf, chatters, chatterInfo, asked, pendingChats, users>>
vars == <<dialog, roomVars>>

Persons == {c[1] : c \in Visitors}
JidsOf(n) == {c[2] : c \in {d \in Visitors : d[1] = n}}

None == [x \in {} |-> x]

Init ==
  /\ dialog = "login"
  /\ there = {} /\ updated = {} /\ stanzas = 0 /\ deaf = {}
  /\ chatters = None /\ chatterInfo = {} /\ asked = {}
  /\ pendingChats = <<>> /\ users = {}

\* The dialogs: auth.php logs in or creates the user, or its refusal is shown and
\* the dialog stays open.
LogIn ==
  /\ \/ dialog = "login" /\ dialog' \in {"create", "connecting"}
     \/ dialog = "create" /\ dialog' = "connecting"
  /\ UNCHANGED roomVars

\* Strophe is connected, or an error is shown; a refused password is neither.
Connected ==
  /\ dialog = "connecting"
  /\ dialog' \in {"room", "failed"}
  /\ UNCHANGED roomVars

-----------------------------------------------------------------------------
Stanza ==
  /\ dialog = "room"
  /\ stanzas < MaxStanzas
  /\ stanzas' = stanzas + 1
  /\ UNCHANGED dialog

FreeId == Min((0 .. Cardinality(Persons)) \ {chatters[n].id : n \in DOMAIN chatters})

\* An available presence: somebody new is looked up, and every presence counts as
\* a connection, the news of one that is there already included.
UserConnect(n, j) ==
  /\ Stanza
  /\ there' = there \cup {<<n, j>>}
  /\ updated' = IF <<n, j>> \in there THEN updated \cup {n} ELSE updated
  /\ IF "OnUser" \in deaf
     THEN UNCHANGED <<chatters, asked>>
     ELSE LET usr == IF n \in DOMAIN chatters THEN chatters[n]
                     ELSE [id |-> FreeId, connections |-> [k \in JidsOf(n) |-> 0]]
          IN /\ chatters' = [m \in DOMAIN chatters \cup {n} |->
                               IF m = n THEN [usr EXCEPT !.connections[j] = @ + 1] ELSE chatters[m]]
             /\ asked' = IF n \in DOMAIN chatters THEN asked ELSE asked \cup {n}
  /\ UNCHANGED <<deaf, chatterInfo, pendingChats, users>>

\* An unavailable presence takes one connection away, and with the last one the
\* person, unless `user-off' fails because the person's data are not there yet:
\* then Strophe drops OnUser for good.
UserDisconnect(n, j) ==
  /\ Stanza
  /\ <<n, j>> \in there
  /\ there' = there \ {<<n, j>>}
  /\ IF "OnUser" \in deaf \/ n \notin DOMAIN chatters
     THEN UNCHANGED <<deaf, chatters, chatterInfo, users>>
     ELSE LET left == [chatters[n].connections EXCEPT ![j] = IF @ > 0 THEN @ - 1 ELSE 0]
              gone == \A k \in JidsOf(n) : left[k] = 0
              known == n \in chatterInfo
          IN /\ users' = IF gone THEN users \ {<<chatters[n].id, n>>} ELSE users
             /\ deaf' = IF gone /\ ~known THEN deaf \cup {"OnUser"} ELSE deaf
             /\ chatterInfo' = IF gone THEN chatterInfo \ {n} ELSE chatterInfo
             /\ chatters' = IF gone /\ known
                            THEN [m \in DOMAIN chatters \ {n} |-> chatters[m]]
                            ELSE [chatters EXCEPT ![n].connections = left]
  /\ UNCHANGED <<updated, asked, pendingChats>>

\* Something is said; what the room repeats from before may be by somebody who
\* has gone.
Chat(n) ==
  /\ Stanza
  /\ pendingChats' = IF "OnChat" \in deaf \/ n \in chatterInfo THEN pendingChats
                     ELSE Append(pendingChats, n)
  /\ UNCHANGED <<there, updated, deaf, chatters, chatterInfo, asked, users>>

\* The form sends nothing at all as readily: a body without a text is an exception in
\* OnChat.
ChatOfNothing ==
  /\ Stanza
  /\ deaf' = deaf \cup {"OnChat"}
  /\ UNCHANGED <<there, updated, chatters, chatterInfo, asked, pendingChats, users>>

\* Faulty: one message for every answer.
Flushed_One(known) ==
  IF pendingChats # <<>> /\ Head(pendingChats) \in known THEN Tail(pendingChats) ELSE pendingChats

\* while (pendingChats.length > 0 && chatterInfo[pendingChats[0].name] !== undefined)
Flushed(known) ==
  LET first == SelectInSeq(pendingChats, LAMBDA n : n \notin known)
  IN IF first = 0 THEN <<>> ELSE SubSeq(pendingChats, first, Len(pendingChats))

\* The answer of the directory, or an error, for which data are made up.  The
\* list is built anew from the data of everybody in the room: when somebody's are
\* missing this fails, and list and messages are left to a later answer.
LookedUp(n) ==
  LET known == chatterInfo \cup {n}
  IN /\ n \in asked \ Nameless
     /\ asked' = asked \ {n}
     /\ chatterInfo' = known
     /\ IF DOMAIN chatters \subseteq known
        THEN /\ users' = {<<chatters[m].id, m>> : m \in DOMAIN chatters}
             /\ pendingChats' = Flushed(known)
        ELSE UNCHANGED <<users, pendingChats>>
     /\ UNCHANGED <<dialog, there, updated, stanzas, deaf, chatters>>

\* An empty element has no firstChild: the handler of the answer ends with an exception
\* before anything is noted.
LookUpFails(n) ==
  /\ n \in asked \cap Nameless
  /\ asked' = asked \ {n}
  /\ UNCHANGED <<dialog, there, updated, stanzas, deaf, chatters, chatterInfo, pendingChats, users>>

Next ==
  \/ LogIn
  \/ Connected
  \/ \E c \in Visitors : UserConnect(c[1], c[2]) \/ UserDisconnect(c[1], c[2])
  \/ \E n \in Persons : Chat(n) \/ LookedUp(n) \/ LookUpFails(n)
  \/ ChatOfNothing

-----------------------------------------------------------------------------
\* Once the directory has answered every query the page agrees with the room.  Nobody
\* is listed who has gone, and no two under one number.  The list shows all who are
\* there, and what still waits waits behind a message of somebody who is not there,
\* unless somebody is there whose real name is empty: then there is no list any more.
\* Not so after somebody left before having been looked up (presences are not heard
\* from then on), and not for those who sent a second presence, who stay in the list
\* when they go.
RoomAgrees ==
  dialog = "room" /\ asked = {} /\ "OnUser" \notin deaf =>
    /\ \A n \in Persons \ updated :
         (\E u \in users : u[2] = n) => \E c \in there : c[1] = n
    /\ \A u, v \in users : u[1] = v[1] <=> u[2] = v[2]
    /\ DOMAIN chatters \cap Nameless = {} =>
         /\ \A c \in there : c[1] \in updated \/ \E u \in users : u[2] = c[1]
         /\ pendingChats # <<>> => Head(pendingChats) \notin DOMAIN chatters
=============================================================================
