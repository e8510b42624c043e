-------------------------- MODULE TicTacToeProofs --------------------------
(***************************************************************************)
(* Proofs about TicTacToe: games are paired and keep to the rules, logins  *)
(* arrive and names stay, for any number of players.                       *)
(***************************************************************************)
EXTENDS TicTacToe, FiniteSetTheorems, SequenceTheorems, WellFoundedInduction, TLAPS

(***************************************************************************)
(* The invariants.                                                         *)
(***************************************************************************)

\* Whose move it is tells how many tokens there are: the players take turns, but
\* for the token that is removed from three.
Fair(g) ==
  LET mine == Cardinality(Tokens(g, g.player1))
      yours == Cardinality(Tokens(g, g.player2))
  IN  /\ mine \in 0 .. 3 /\ yours \in 0 .. 3
      /\ IF g.current = g.player1
         THEN mine = yours \/ (mine = 2 /\ yours = 3)
         ELSE mine = yours + 1 \/ (mine = 3 /\ yours = 3)
      /\ \A p \in Players(g) : ~HasWon(g, p)

\* Matches: who plays is one of the two players of a game that is not over.
Playing(c, g) ==
  /\ g \in Match
  /\ g.player2 # g.player1
  /\ c \in Players(g) /\ g.current \in Players(g)
  /\ Fair(g)
Matches == \A c \in Clients : game[c] # Nobody => Playing(c, games[game[c]])

\* Pairs: the opponent plays the same game and is there or just leaving, and who
\* is just leaving has an opponent that plays the same game or none any more.
Paired(c, o) ==
  /\ Listed(c) => game[o] = game[c] /\ (Listed(o) \/ leaving = o)
  /\ leaving = c => game[o] \in {Nobody, game[c]}
Pairs ==
  /\ \A c \in Clients : game[c] # Nobody /\ Other(c) \notin torn => Paired(c, Other(c))
  /\ leaving # Nobody => ~Listed(leaving)
  /\ \A c \in Clients : state[c] = "none" => game[c] = Nobody

\* Files: a queue has one event for each file that is there, and a client has one
\* file or result under way, the one its player awaits the answer to.
Queued(q, f) == \E i \in DOMAIN q : q[i] = f
Distinct(q) == \A i, j \in DOMAIN q : q[i] = q[j] => i = j
OneAtATime(f, g) ==
  f[2] = g[2] =>
    /\ userdIn[f] # Nobody /\ userdIn[g] # Nobody => f = g
    /\ tttdIn[f] # Nobody /\ tttdIn[g] # Nobody => f = g
    /\ userdIn[f] = Nobody \/ tttdIn[g] = Nobody
Files ==
  /\ LoginsUnderWay
  /\ Distinct(userdQ) /\ Distinct(tttdQ)
  /\ \A f, g \in FileNames : OneAtATime(f, g)
  /\ \A f \in FileNames :
       /\ userdIn[f] # Nobody => awaits[f[2]] = userdIn[f]
       /\ InHand(f[2]) => userdIn[f] = Nobody /\ tttdIn[f] = Nobody
  /\ \A c \in Clients :
       /\ Pending(c) => awaits[c] # Nobody
       /\ state[c] = "none" => awaits[c] = Nobody

\* Logins: who awaits the answer to a login has no name yet, but while the second
\* thread is at it, which makes the client `authenticated' before it greets.
Naming(c) == InHand(c) /\ event.step # "name" /\ event.user # NoName
Logins ==
  \A c \in Clients :
    /\ ~Naming(c) /\ (Pending(c) \/ state[c] \in {"none", "connected"}) => name[c] = NoName
    /\ Naming(c) /\ event.step = "greet" => state[c] \notin {"none", "connected"}
-----------------------------------------------------------------------------
(***************************************************************************)
(* Clients and queues.                                                     *)
(***************************************************************************)

\* A set of positions has a first one.
LEMMA FirstPosition ==
  ASSUME NEW S \in SUBSET Nat, S # {}
  PROVE  \E i \in S : \A j \in S : i <= j
<1> DEFINE R == OpToRel(<, Nat)
<1>1. \E i \in S : \A j \in S : ~(<<j, i>> \in R)
  BY NatLessThanWellFounded, WFMin
<1>2. \A i, j \in Nat : j < i => <<j, i>> \in R
  BY DEF OpToRel
<1> HIDE DEF R
<1>3. PICK i \in S : \A j \in S : ~(<<j, i>> \in R)
  BY <1>1
<1>4. \A j \in S : ~(j < i)
  BY <1>2, <1>3
<1>5. i \in Int /\ \A j \in S : j \in Int
  OBVIOUS
<1> QED BY <1>4, <1>5

LEMMA ClientNamed ==
  ASSUME TypeOK, NEW n, Named(n) # {}
  PROVE  /\ ClientByName(n) \in Clients
         /\ Listed(ClientByName(n))
         /\ name[ClientByName(n)] = n
<1>1. clients \in Seq(Clients) /\ Named(n) \in SUBSET Nat
  BY DEF TypeOK, Named
<1>2. \E i \in Named(n) : \A j \in Named(n) : i <= j
  BY <1>1, FirstPosition
<1>3. PICK i \in Named(n) : ClientByName(n) = clients[i]
  BY <1>2 DEF ClientByName
<1> QED BY <1>1, <1>3 DEF Named, Listed

\* The clients without one of them.
LEMMA WithoutClient ==
  ASSUME TypeOK, NEW c \in Clients, Listed(c)
  PROVE  /\ Without(c) \in Seq(Clients)
         /\ \A i, j \in DOMAIN Without(c) : Without(c)[i] = Without(c)[j] => i = j
         /\ \A d \in Clients :
              (\E i \in DOMAIN Without(c) : Without(c)[i] = d) <=> Listed(d) /\ d # c
<1> DEFINE k == CHOOSE i \in DOMAIN clients : clients[i] = c
           n == Len(clients)
<1>1. k \in DOMAIN clients /\ clients[k] = c
  BY DEF Listed
<1>2. clients \in Seq(Clients) /\ DOMAIN clients = 1 .. n /\ n \in Nat
  BY DEF TypeOK
<1>3. \A i, j \in 1 .. n : clients[i] = clients[j] => i = j
  BY <1>2 DEF TypeOK
<1>4. Without(c) = [i \in 1 .. n - 1 |-> IF i < k THEN clients[i] ELSE clients[i + 1]]
  BY DEF Without
<1> HIDE DEF k, n
<1>5. k \in 1 .. n /\ n \in Nat /\ n - 1 \in Nat
  BY <1>1, <1>2
<1>6. DOMAIN Without(c) = 1 .. n - 1
  BY <1>4
<1>7. \A i \in 1 .. n - 1 : Without(c)[i] = IF i < k THEN clients[i] ELSE clients[i + 1]
  BY <1>4
<1>8. \A i \in 1 .. n : clients[i] \in Clients
  BY <1>2
<1>9. Without(c) \in Seq(Clients)
  BY <1>4, <1>5, <1>8
<1>10. \A i, j \in DOMAIN Without(c) : Without(c)[i] = Without(c)[j] => i = j
  BY <1>3, <1>5, <1>6, <1>7
<1>11. ASSUME NEW d \in Clients
       PROVE  (\E i \in DOMAIN Without(c) : Without(c)[i] = d) <=> Listed(d) /\ d # c
  <2>1. ASSUME NEW i \in DOMAIN Without(c), Without(c)[i] = d PROVE Listed(d) /\ d # c
    <3>1. i \in 1 .. n - 1 /\ (d = IF i < k THEN clients[i] ELSE clients[i + 1])
      BY <1>6, <1>7, <2>1
    <3>2. CASE i < k
      <4>1. i \in 1 .. n /\ i # k
        BY <1>5, <3>1, <3>2
      <4> QED BY <1>1, <1>2, <1>3, <1>5, <3>1, <3>2, <4>1 DEF Listed
    <3>3. CASE ~(i < k)
      <4>1. i + 1 \in 1 .. n /\ i + 1 # k
        BY <1>5, <3>1, <3>3
      <4> QED BY <1>1, <1>2, <1>3, <1>5, <3>1, <3>3, <4>1 DEF Listed
    <3> QED BY <3>2, <3>3
  <2>2. ASSUME NEW i \in 1 .. n, clients[i] = d, d # c
        PROVE  \E j \in DOMAIN Without(c) : Without(c)[j] = d
    <3>1. i # k
      BY <1>1, <2>2
    <3>2. CASE i < k
      <4>1. i \in 1 .. n - 1 /\ Without(c)[i] = d
        BY <1>5, <1>7, <2>2, <3>2
      <4> QED BY <1>6, <4>1
    <3>3. CASE i > k
      <4>1. i - 1 \in 1 .. n - 1 /\ ~(i - 1 < k) /\ (i - 1) + 1 = i
        BY <1>5, <3>3
      <4>2. Without(c)[i - 1] = d
        BY <1>7, <2>2, <4>1
      <4> QED BY <1>6, <4>1, <4>2
    <3> QED BY <1>5, <3>1, <3>2, <3>3
  <2> QED BY <1>2, <2>1, <2>2 DEF Listed
<1> QED BY <1>9, <1>10, <1>11

\* An event that is not in the queue joins it.
LEMMA Enqueued ==
  ASSUME NEW q \in Seq(FileNames), NEW f \in FileNames
  PROVE  /\ Notified(q, f) \in Seq(FileNames)
         /\ \A g : Queued(Notified(q, f), g) <=> Queued(q, g) \/ g = f
         /\ Distinct(q) /\ ~Queued(q, f) => Distinct(Notified(q, f))
<1>1. CASE q # << >> /\ q[Len(q)] = f
  <2>1. Notified(q, f) = q /\ Len(q) \in DOMAIN q
    BY <1>1, EmptySeq DEF Notified
  <2> QED BY <1>1, <2>1 DEF Queued
<1>2. CASE ~(q # << >> /\ q[Len(q)] = f)
  <2> DEFINE e == Append(q, f)
  <2>1. Notified(q, f) = e
    BY <1>2 DEF Notified
  <2>2. /\ e \in Seq(FileNames) /\ DOMAIN e = 1 .. Len(q) + 1 /\ DOMAIN q = 1 .. Len(q)
        /\ \A i \in 1 .. Len(q) : e[i] = q[i]
        /\ e[Len(q) + 1] = f /\ Len(q) \in Nat
    BY AppendProperties
  <2> HIDE DEF e
  <2>3. \A i \in DOMAIN e : (i \in DOMAIN q /\ e[i] = q[i]) \/ (i = Len(q) + 1 /\ e[i] = f)
    BY <2>2
  <2>4. Len(q) + 1 \in DOMAIN e /\ \A i \in DOMAIN q : i \in DOMAIN e /\ e[i] = q[i]
    BY <2>2
  <2>5. \A g : Queued(e, g) <=> Queued(q, g) \/ g = f
    BY <2>2, <2>3, <2>4 DEF Queued
  <2>6. Distinct(q) /\ ~Queued(q, f) => Distinct(e)
    BY <2>3 DEF Queued, Distinct
  <2> QED BY <2>1, <2>2, <2>5, <2>6
<1> QED BY <1>1, <1>2

\* The first event leaves the queue, and no other is the same.
LEMMA Dequeued ==
  ASSUME NEW q \in Seq(FileNames), q # << >>
  PROVE  /\ Head(q) \in FileNames /\ Queued(q, Head(q))
         /\ Tail(q) \in Seq(FileNames)
         /\ \A g : Queued(Tail(q), g) => Queued(q, g)
         /\ Distinct(q) => /\ Distinct(Tail(q))
                           /\ \A g : Queued(Tail(q), g) <=> Queued(q, g) /\ g # Head(q)
<1> DEFINE t == Tail(q)
<1>1. /\ t \in Seq(FileNames) /\ Len(t) = Len(q) - 1 /\ Head(q) \in FileNames
      /\ \A i \in 1 .. Len(t) : t[i] = q[i + 1]
      /\ Head(q) = q[1] /\ Len(q) \in Nat /\ Len(q) # 0
  BY HeadTailProperties, EmptySeq
<1>2. DOMAIN t = 1 .. Len(t) /\ DOMAIN q = 1 .. Len(q)
  BY <1>1
<1> HIDE DEF t
<1>3. \A i \in DOMAIN t : i + 1 \in DOMAIN q /\ i + 1 # 1 /\ t[i] = q[i + 1]
  BY <1>1, <1>2
<1>4. \A i \in DOMAIN q : i # 1 => i - 1 \in DOMAIN t /\ t[i - 1] = q[i]
  BY <1>1, <1>2
<1>5. 1 \in DOMAIN q /\ \A i \in DOMAIN t : i \in Int
  BY <1>1, <1>2
<1>6. \A g : Queued(t, g) => Queued(q, g)
  BY <1>3 DEF Queued
<1>7. ASSUME Distinct(q) PROVE Distinct(t)
  BY <1>3, <1>5, <1>7 DEF Distinct
<1>8. ASSUME Distinct(q), NEW g PROVE Queued(t, g) <=> Queued(q, g) /\ g # Head(q)
  <2>1. Queued(t, g) => g # Head(q)
    BY <1>1, <1>3, <1>5, <1>8 DEF Distinct, Queued
  <2>2. Queued(q, g) /\ g # Head(q) => Queued(t, g)
    BY <1>1, <1>4, <1>8 DEF Queued
  <2> QED BY <1>6, <2>1, <2>2
<1> QED BY <1>1, <1>5, <1>6, <1>7, <1>8 DEF Queued, t
-----------------------------------------------------------------------------
(***************************************************************************)
(* One game.                                                               *)
(***************************************************************************)

LEMMA RowsHaveSquares == \A r \in Rows : r # {}
<1>1. 1 \in 1 .. 3
  OBVIOUS
<1>2. ASSUME NEW i \in 1 .. 3
      PROVE  {<<i, j>> : j \in 1 .. 3} # {} /\ {<<j, i>> : j \in 1 .. 3} # {}
  BY <1>1
<1>3. {<<i, i>> : i \in 1 .. 3} # {} /\ {<<4 - i, i>> : i \in 1 .. 3} # {}
  BY <1>1
<1> QED BY <1>2, <1>3 DEF Rows

LEMMA TokensFinite ==
  \A g, p : /\ IsFiniteSet(Tokens(g, p)) /\ Cardinality(Tokens(g, p)) \in Nat
            /\ Tokens(g, p) = {} <=> Cardinality(Tokens(g, p)) = 0
<1>1. IsFiniteSet(1 .. 3)
  <2>1. 1 \in Int /\ 3 \in Int
    OBVIOUS
  <2> QED BY <2>1, FS_Interval, Zenon
<1>2. IsFiniteSet(Squares)
  BY <1>1, FS_Product DEF Squares
<1>3. \A g, p : Tokens(g, p) \subseteq Squares
  BY DEF Tokens
<1>4. \A g, p : IsFiniteSet(Tokens(g, p))
  BY <1>2, <1>3, FS_Subset
<1> QED BY <1>4, FS_CardinalityType, FS_EmptySet

\* What a match is made of.
LEMMA MatchFields ==
  ASSUME NEW g \in Match
  PROVE  /\ g.player1 \in Clients /\ g.player2 \in Clients /\ g.current \in Clients
         /\ g.grid \in [Squares -> Clients \cup {Free}]
         /\ Players(g) \subseteq Clients
BY DEF Match, Players

\* The opponent is another player, and of two players the only one.
LEMMA Opponents ==
  \A m, p : (\E q \in Players(m) : q # p) => Opponent(m, p) \in Players(m) /\ Opponent(m, p) # p
BY DEF Opponent

LEMMA TwoPlayers ==
  ASSUME NEW m, NEW p \in Players(m), NEW q \in Players(m), p # q
  PROVE  Players(m) = {p, q} /\ Opponent(m, p) = q
<1>1. Opponent(m, p) \in Players(m) /\ Opponent(m, p) # p
  BY Opponents
<1> QED BY <1>1 DEF Players

LEMMA NewMatch ==
  ASSUME NEW p \in Clients, NEW q \in Clients, p # q
  PROVE  /\ NewGame(p, q) \in Match
         /\ NewGame(p, q).player1 = p /\ NewGame(p, q).player2 = q
         /\ NewGame(p, q).current = p
         /\ Fair(NewGame(p, q))
<1> DEFINE g == NewGame(p, q)
<1>1. /\ g \in Match /\ g.player1 = p /\ g.player2 = q /\ g.current = p
      /\ g.grid = [s \in Squares |-> Free]
  BY DEF NewGame, Match
<1>2. \A c \in Clients : Tokens(g, c) = {}
  BY <1>1, TicTacToeAssumption DEF Tokens
<1>3. \A c \in Clients : Cardinality(Tokens(g, c)) = 0
  BY <1>2, FS_EmptySet
<1>4. \A c \in Clients : ~HasWon(g, c)
  BY <1>2, RowsHaveSquares DEF HasWon
<1> QED BY <1>1, <1>3, <1>4 DEF Fair, Players

\* A token more.
LEMMA Placed ==
  ASSUME NEW g \in Match, NEW c \in Clients, NEW s \in Squares, g.grid[s] = Free,
         NEW h, h = [g EXCEPT !.grid[s] = c]
  PROVE  /\ h \in Match
         /\ h.player1 = g.player1 /\ h.player2 = g.player2 /\ h.current = g.current
         /\ Cardinality(Tokens(h, c)) = Cardinality(Tokens(g, c)) + 1
         /\ \A p \in Clients : p # c => Tokens(h, p) = Tokens(g, p)
<1>1. h = [g EXCEPT !.grid = [g.grid EXCEPT ![s] = c]]
  OBVIOUS
<1>2. [g.grid EXCEPT ![s] = c] \in [Squares -> Clients \cup {Free}]
  BY MatchFields
<1>3. /\ h.player1 = g.player1 /\ h.player2 = g.player2 /\ h.current = g.current
      /\ h.grid = [g.grid EXCEPT ![s] = c]
  BY <1>1 DEF Match
<1>4. h \in Match
  BY <1>1, <1>2 DEF Match
<1>5. \A z \in Squares : h.grid[z] = IF z = s THEN c ELSE g.grid[z]
  BY <1>3, MatchFields
<1>6. Tokens(h, c) = Tokens(g, c) \cup {s} /\ s \notin Tokens(g, c)
  BY <1>5, TicTacToeAssumption DEF Tokens
<1>7. \A p \in Clients : p # c => Tokens(h, p) = Tokens(g, p)
  BY <1>5, TicTacToeAssumption DEF Tokens
<1>8. Cardinality(Tokens(h, c)) = Cardinality(Tokens(g, c)) + 1
  <2>1. IsFiniteSet(Tokens(g, c))
    BY TokensFinite
  <2> QED BY <1>6, <2>1, FS_AddElement
<1> QED BY <1>3, <1>4, <1>7, <1>8

\* A token less.
LEMMA Removed ==
  ASSUME NEW g \in Match, NEW c \in Clients, NEW s \in Squares, g.grid[s] = c,
         NEW h, h = [g EXCEPT !.grid[s] = Free]
  PROVE  /\ h \in Match
         /\ h.player1 = g.player1 /\ h.player2 = g.player2 /\ h.current = g.current
         /\ Cardinality(Tokens(h, c)) = Cardinality(Tokens(g, c)) - 1
         /\ \A p \in Clients : Tokens(h, p) \subseteq Tokens(g, p)
         /\ \A p \in Clients : p # c => Tokens(h, p) = Tokens(g, p)
<1>1. h = [g EXCEPT !.grid = [g.grid EXCEPT ![s] = Free]]
  OBVIOUS
<1>2. [g.grid EXCEPT ![s] = Free] \in [Squares -> Clients \cup {Free}]
  BY MatchFields
<1>3. /\ h.player1 = g.player1 /\ h.player2 = g.player2 /\ h.current = g.current
      /\ h.grid = [g.grid EXCEPT ![s] = Free]
  BY <1>1 DEF Match
<1>4. h \in Match
  BY <1>1, <1>2 DEF Match
<1>5. \A z \in Squares : h.grid[z] = IF z = s THEN Free ELSE g.grid[z]
  BY <1>3, MatchFields
<1>6. Tokens(h, c) = Tokens(g, c) \ {s} /\ s \in Tokens(g, c)
  BY <1>5, TicTacToeAssumption DEF Tokens
<1>7. \A p \in Clients : p # c => Tokens(h, p) = Tokens(g, p)
  BY <1>5, TicTacToeAssumption DEF Tokens
<1>8. Cardinality(Tokens(h, c)) = Cardinality(Tokens(g, c)) - 1
  <2>1. IsFiniteSet(Tokens(g, c))
    BY TokensFinite
  <2> QED BY <1>6, <2>1, FS_RemoveElement
<1> QED BY <1>3, <1>4, <1>6, <1>7, <1>8

Moved(g, s, c) == [g EXCEPT !.grid[s] = c]
Passed(g, d) == [g EXCEPT !.current = d]

\* A move that does not win, and the removal of a token, keep to the rules.
LEMMA FairMove ==
  ASSUME NEW g \in Match, g.player1 # g.player2, g.current \in Players(g), Fair(g),
         NEW s \in Squares, g.grid[s] = Free, ~MustRemove(g, g.current),
         NEW h, h = Moved(g, s, g.current), ~HasWon(h, g.current),
         NEW d \in Players(g), d # g.current,
         NEW k, k = Passed(h, d)
  PROVE  /\ k \in Match /\ Fair(k)
         /\ k.player1 = g.player1 /\ k.player2 = g.player2 /\ k.current \in Players(k)
<1> DEFINE c == g.current
<1>1. /\ h \in Match
      /\ h.player1 = g.player1 /\ h.player2 = g.player2
      /\ Cardinality(Tokens(h, c)) = Cardinality(Tokens(g, c)) + 1
      /\ \A p \in Clients : p # c => Tokens(h, p) = Tokens(g, p)
  BY Placed, MatchFields DEF Moved
<1>2. c \in Players(h) /\ Players(h) = Players(g)
  BY <1>1 DEF Players
<1>3. d \in Players(h) /\ \A p \in Players(h) : p = c \/ p = d
  BY <1>2 DEF Players
<1>4. d \in Clients /\ c \in Clients
  BY <1>1, <1>3, MatchFields
<1>5. /\ k \in Match /\ k.current = d /\ k.grid = h.grid
      /\ k.player1 = g.player1 /\ k.player2 = g.player2
  BY <1>1, <1>4 DEF Match, Passed
<1>6. Players(k) = Players(g) /\ \A p : Tokens(k, p) = Tokens(h, p)
  BY <1>1, <1>5 DEF Players, Tokens
<1>7. \A p \in Players(k) : ~HasWon(k, p)
  <2>1. ~HasWon(k, c)
    BY <1>6 DEF HasWon
  <2>2. ~HasWon(g, d)
    BY <1>2, <1>3 DEF Fair
  <2>3. ~HasWon(k, d)
    BY <1>1, <1>3, <1>4, <1>6, <2>2 DEF HasWon
  <2> QED BY <1>2, <1>3, <1>6, <2>1, <2>3
<1>8. Cardinality(Tokens(g, c)) # 3
  BY DEF MustRemove
<1>9. /\ Cardinality(Tokens(k, c)) = Cardinality(Tokens(g, c)) + 1
      /\ Cardinality(Tokens(k, d)) = Cardinality(Tokens(g, d))
  BY <1>1, <1>3, <1>4, <1>6
<1>10. (c = g.player1 /\ d = g.player2) \/ (c = g.player2 /\ d = g.player1)
  BY <1>2, <1>3 DEF Players
<1> HIDE DEF c
<1>11. Fair(k)
  <2>1. CASE c = g.player1 /\ d = g.player2
    BY <1>5, <1>7, <1>8, <1>9, <2>1 DEF Fair, c
  <2>2. CASE c = g.player2 /\ d = g.player1
    BY <1>5, <1>7, <1>8, <1>9, <2>2 DEF Fair, c
  <2> QED BY <1>10, <2>1, <2>2
<1> QED BY <1>3, <1>5, <1>6, <1>11, <1>2

LEMMA FairRemoval ==
  ASSUME NEW g \in Match, g.player1 # g.player2, g.current \in Players(g), Fair(g),
         NEW s \in Squares, g.grid[s] = g.current, MustRemove(g, g.current),
         NEW h, h = [g EXCEPT !.grid[s] = Free]
  PROVE  /\ h \in Match /\ Fair(h)
         /\ h.player1 = g.player1 /\ h.player2 = g.player2 /\ h.current = g.current
<1> DEFINE c == g.current
<1>1. /\ h \in Match
      /\ h.player1 = g.player1 /\ h.player2 = g.player2 /\ h.current = c
      /\ Cardinality(Tokens(h, c)) = Cardinality(Tokens(g, c)) - 1
      /\ \A p \in Clients : Tokens(h, p) \subseteq Tokens(g, p)
      /\ \A p \in Clients : p # c => Tokens(h, p) = Tokens(g, p)
  BY Removed, MatchFields
<1>2. Players(h) = Players(g) /\ Players(g) \subseteq Clients
  BY <1>1, MatchFields DEF Players
<1>3. \A p \in Players(h) : ~HasWon(h, p)
  BY <1>1, <1>2 DEF Fair, HasWon
<1>4. Cardinality(Tokens(g, c)) = 3
  BY DEF MustRemove
<1>5. \A p \in Players(g) : p # c => Cardinality(Tokens(h, p)) = Cardinality(Tokens(g, p))
  BY <1>1, <1>2
<1> HIDE DEF c
<1>6. CASE c = g.player1
  BY <1>1, <1>3, <1>4, <1>5, <1>6 DEF Fair, Players, c
<1>7. CASE c = g.player2
  BY <1>1, <1>3, <1>4, <1>5, <1>7 DEF Fair, Players, c
<1> QED BY <1>1, <1>6, <1>7 DEF Players, c

\* The numbers of the squares, and which three of them add up to 15.
LEMMA Numbers ==
  \A i, j \in 1 .. 3 :
    Magic[i][j] = IF i = 1 THEN IF j = 1 THEN 4 ELSE IF j = 2 THEN 9 ELSE 2
                  ELSE IF i = 2 THEN IF j = 1 THEN 3 ELSE IF j = 2 THEN 5 ELSE 7
                  ELSE IF j = 1 THEN 8 ELSE IF j = 2 THEN 1 ELSE 6
<1>1. /\ Magic[1] = <<4, 9, 2>> /\ Magic[2] = <<3, 5, 7>> /\ Magic[3] = <<8, 1, 6>>
  BY DEF Magic
<1>2. \A i \in 1 .. 3 : i = 1 \/ i = 2 \/ i = 3
  OBVIOUS
<1> QED BY <1>1, <1>2

LEMMA Fifteen ==
  ASSUME NEW a \in 1 .. 3, NEW b \in 1 .. 3, NEW c \in 1 .. 3, NEW d \in 1 .. 3,
         NEW e \in 1 .. 3, NEW f \in 1 .. 3,
         a # c \/ b # d, c # e \/ d # f, e # a \/ f # b,
         Magic[a][b] + Magic[c][d] + Magic[e][f] = 15
  PROVE  \/ a = c /\ c = e /\ b # d /\ d # f /\ f # b
         \/ b = d /\ d = f /\ a # c /\ c # e /\ e # a
         \/ a = b /\ c = d /\ e = f /\ a # c /\ c # e /\ e # a
         \/ a = 4 - b /\ c = 4 - d /\ e = 4 - f /\ b # d /\ d # f /\ f # b
BY Numbers

\* The puzzle is right about rows.
LEMMA RowsOfFifteen ==
  ASSUME NEW T \in SUBSET Squares, InARow(T)
  PROVE  \E r \in Rows : r \subseteq T
<1>1. PICK r \in T, s \in T, t \in T :
        /\ r # s /\ s # t /\ t # r
        /\ Magic[r[1]][r[2]] + Magic[s[1]][s[2]] + Magic[t[1]][t[2]] = 15
  BY DEF InARow
<1>2. PICK a \in 1 .. 3, b \in 1 .. 3 : r = <<a, b>>
  BY DEF Squares
<1>3. PICK c \in 1 .. 3, d \in 1 .. 3 : s = <<c, d>>
  BY DEF Squares
<1>4. PICK e \in 1 .. 3, f \in 1 .. 3 : t = <<e, f>>
  BY DEF Squares
<1>5. /\ a # c \/ b # d
      /\ c # e \/ d # f
      /\ e # a \/ f # b
      /\ Magic[a][b] + Magic[c][d] + Magic[e][f] = 15
  BY <1>1, <1>2, <1>3, <1>4
<1>6. <<a, b>> \in T /\ <<c, d>> \in T /\ <<e, f>> \in T
  BY <1>2, <1>3, <1>4
<1>7. CASE a = c /\ c = e /\ b # d /\ d # f /\ f # b
  <2>1. \A j \in 1 .. 3 : j = b \/ j = d \/ j = f
    BY <1>7
  <2>2. {<<a, j>> : j \in 1 .. 3} \subseteq T
    BY <1>6, <1>7, <2>1
  <2>3. {<<a, j>> : j \in 1 .. 3} \in {{<<i, j>> : j \in 1 .. 3} : i \in 1 .. 3}
    OBVIOUS
  <2> QED BY <2>2, <2>3 DEF Rows
<1>8. CASE b = d /\ d = f /\ a # c /\ c # e /\ e # a
  <2>1. \A i \in 1 .. 3 : i = a \/ i = c \/ i = e
    BY <1>8
  <2>2. {<<j, b>> : j \in 1 .. 3} \subseteq T
    BY <1>6, <1>8, <2>1
  <2>3. {<<j, b>> : j \in 1 .. 3} \in {{<<j, i>> : j \in 1 .. 3} : i \in 1 .. 3}
    OBVIOUS
  <2> QED BY <2>2, <2>3 DEF Rows
<1>9. CASE a = b /\ c = d /\ e = f /\ a # c /\ c # e /\ e # a
  <2>1. \A i \in 1 .. 3 : i = a \/ i = c \/ i = e
    BY <1>9
  <2>2. {<<i, i>> : i \in 1 .. 3} \subseteq T
    BY <1>6, <1>9, <2>1
  <2> QED BY <2>2 DEF Rows
<1>10. CASE a = 4 - b /\ c = 4 - d /\ e = 4 - f /\ b # d /\ d # f /\ f # b
  <2>1. \A i \in 1 .. 3 : i = b \/ i = d \/ i = f
    BY <1>10
  <2>2. {<<4 - i, i>> : i \in 1 .. 3} \subseteq T
    BY <1>6, <1>10, <2>1
  <2> QED BY <2>2 DEF Rows
<1> QED BY <1>5, <1>7, <1>8, <1>9, <1>10, Fifteen

\* Rules that hold for the rows hold for the puzzle.
LEMMA FairKeepsRules ==
  ASSUME NEW g \in Match, g.player1 # g.player2, g.current \in Players(g), Fair(g)
  PROVE  /\ Cardinality(Tokens(g, g.player1)) <= 3 /\ Cardinality(Tokens(g, g.player2)) <= 3
         /\ ~InARow(Tokens(g, g.player1)) /\ ~InARow(Tokens(g, g.player2))
         /\ Cardinality(Tokens(g, g.player1)) - Cardinality(Tokens(g, g.player2)) \in -1 .. 1
<1>1. \A p \in Players(g) : ~InARow(Tokens(g, p))
  <2>1. \A p : Tokens(g, p) \in SUBSET Squares
    BY DEF Tokens
  <2> QED BY <2>1, RowsOfFifteen DEF Fair, HasWon
<1>2. /\ Cardinality(Tokens(g, g.player1)) \in 0 .. 3
      /\ Cardinality(Tokens(g, g.player2)) \in 0 .. 3
      /\ Cardinality(Tokens(g, g.player1)) - Cardinality(Tokens(g, g.player2)) \in -1 .. 1
  BY DEF Fair
<1> QED BY <1>1, <1>2 DEF Players
-----------------------------------------------------------------------------
(***************************************************************************)
(* Types and matches: every state has the one because of the other.        *)
(***************************************************************************)

\* The match of a client that plays.
LEMMA MatchesFields ==
  ASSUME TypeOK, Matches, NEW c \in Clients, game[c] # Nobody
  PROVE  /\ game[c] \in Clients
         /\ games[game[c]] \in Match
         /\ games[game[c]].player1 # games[game[c]].player2
         /\ c \in Players(games[game[c]])
         /\ games[game[c]].current \in Players(games[game[c]])
         /\ Players(games[game[c]]) \subseteq Clients
         /\ Fair(games[game[c]])
<1>1. game[c] \in Clients
  BY DEF TypeOK
<1>2. Playing(c, games[game[c]])
  BY DEF Matches
<1> QED BY <1>1, <1>2, MatchFields DEF Playing

\* A move leaves a match between the same two.
LEMMA MoveOnBoard ==
  ASSUME TypeOK, Matches, NEW c \in Clients, HasTurn(c), NEW s \in Squares,
         ~MustRemove(games[game[c]], c), games[game[c]].grid[s] = Free,
         NEW h, h = [games[game[c]] EXCEPT !.grid[s] = c]
  PROVE  /\ h.player1 = games[game[c]].player1 /\ h.player2 = games[game[c]].player2
         /\ ~HasWon(h, c) =>
              LET k == [h EXCEPT !.current = Opponent(h, c)]
              IN  /\ k \in Match /\ Fair(k)
                  /\ k.player1 = games[game[c]].player1 /\ k.player2 = games[game[c]].player2
                  /\ k.current \in Players(k)
<1> PICK g \in Match : g = games[game[c]]
  BY MatchesFields DEF HasTurn
<1>1. /\ g.player1 # g.player2 /\ c \in Players(g) /\ Fair(g) /\ g.current = c
  BY MatchesFields DEF HasTurn
<1>2. h.player1 = g.player1 /\ h.player2 = g.player2
  BY Placed
<1>3. Players(h) = Players(g) /\ h.player1 # h.player2
  BY <1>1, <1>2 DEF Players
<1>4. Opponent(h, c) \in Players(h) /\ Opponent(h, c) # c
  <2>1. \E q \in Players(h) : q # c
    BY <1>3 DEF Players
  <2> QED BY <2>1, Opponents
<1>5. PICK d \in Players(g) : d # c /\ d = Opponent(h, c)
  BY <1>3, <1>4
<1>6. /\ h = Moved(g, s, g.current) /\ ~MustRemove(g, g.current)
      /\ g.grid[s] = Free /\ g.current \in Players(g) /\ d # g.current
  BY <1>1, <1>5 DEF Moved
<1>7. ASSUME ~HasWon(h, c), NEW k, k = Passed(h, d)
      PROVE  /\ k \in Match /\ Fair(k)
             /\ k.player1 = g.player1 /\ k.player2 = g.player2 /\ k.current \in Players(k)
  <2>1. ~HasWon(h, g.current)
    BY <1>1, <1>7
  <2> QED BY <1>1, <1>5, <1>6, <1>7, <2>1, FairMove
<1> QED BY <1>2, <1>5, <1>7 DEF Passed

\* The two of a match that somebody plays.
LEMMA Others ==
  ASSUME TypeOK, Matches, NEW c \in Clients, game[c] # Nobody
  PROVE  /\ Other(c) \in Clients /\ Other(c) # c
         /\ Players(games[game[c]]) = {c, Other(c)}
<1>1. /\ c \in Players(games[game[c]])
      /\ \E q \in Players(games[game[c]]) : q # c
      /\ Players(games[game[c]]) \subseteq Clients
  BY MatchesFields DEF Players
<1>2. Other(c) \in Players(games[game[c]]) /\ Other(c) # c
  BY <1>1, Opponents DEF Other
<1> QED BY <1>1, <1>2, TwoPlayers

\* Games that somebody has stay as they are.
LEMMA GamesKept ==
  ASSUME TypeOK, NEW now
  PROVE  /\ Kept(now) \in [Clients -> Match \cup {Nobody}]
         /\ \A k \in Clients : (\E c \in Clients : now[c] = k) => Kept(now)[k] = games[k]
<1>1. \A k \in Clients : games[k] \in Match \cup {Nobody}
  BY DEF TypeOK
<1> QED BY <1>1 DEF Kept

LEMMA TypeStep == TypeOK /\ Matches /\ [Next]_vars => TypeOK'
<1> SUFFICES ASSUME TypeOK, Matches, [Next]_vars PROVE TypeOK'
  OBVIOUS
<1>1. ASSUME NEW c \in Clients, Accept(c) PROVE TypeOK'
  <2>1. /\ clients' \in Seq(Clients)
        /\ \A i \in DOMAIN clients' :
             (i \in DOMAIN clients /\ clients'[i] = clients[i]) \/ (i = Len(clients) + 1 /\ clients'[i] = c)
    BY <1>1, AppendProperties DEF TypeOK, Accept
  <2>2. ~Listed(c)
    BY <1>1 DEF TypeOK, Accept
  <2>3. \A i, j \in DOMAIN clients' : clients'[i] = clients'[j] => i = j
    BY <2>1, <2>2 DEF TypeOK, Listed
  <2>4. \A d \in Clients : Listed(d)' => Listed(d) \/ d = c
    BY <2>1 DEF Listed
  <2>5. state' \in [Clients -> States] /\ state'[c] = "connected"
        /\ \A d \in Clients : d # c => state'[d] = state[d]
    BY <1>1 DEF TypeOK, Accept, States
  <2>6. \A d \in Clients : Listed(d)' => state'[d] \in {"connected", "authenticated", "disconnecting"}
    BY <2>4, <2>5 DEF TypeOK
  <2> QED BY <1>1, <2>1, <2>3, <2>5, <2>6 DEF TypeOK, Accept, fileVars
<1>2. ASSUME NEW c \in Clients, NEW kind \in {"create", "login"}, NEW n \in Content(kind), Ask(c, kind, n)
      PROVE  TypeOK'
  <2>1. <<kind, c>> \in FileNames /\ n \in Names \cup {NoName, Unreadable}
    BY DEF FileNames, Content
  <2>2. userdQ' \in Seq(FileNames)
    BY <1>2, <2>1, Enqueued DEF TypeOK, Ask
  <2>3. userdIn' \in [FileNames -> Names \cup {NoName, Unreadable, Nobody}]
    BY <1>2, <2>1 DEF TypeOK, Ask
  <2>4. awaits' \in [Clients -> Names \cup {NoName, Unreadable, Nobody}]
    BY <1>2, <2>1 DEF TypeOK, Ask
  <2> QED BY <1>2, <2>2, <2>3, <2>4 DEF TypeOK, Ask, serverVars, Listed
<1>3. ASSUME NEW c \in Clients, Quit(c) PROVE TypeOK'
  BY <1>3 DEF TypeOK, Quit, fileVars, Listed, States
<1>4. ASSUME NEW c \in Clients, NEW n \in Names, Play(c, n) PROVE TypeOK'
  <2>1. ClientByName(n) \in Clients
    BY <1>4, ClientNamed DEF Play
  <2>2. NewGame(c, ClientByName(n)) \in Match
    BY <2>1 DEF NewGame, Match
  <2>5. PICK k \in Places(c) :
          /\ games' = [games EXCEPT ![k] = NewGame(c, ClientByName(n))]
          /\ game' = [game EXCEPT ![c] = k, ![ClientByName(n)] = k]
    BY <1>4 DEF Play
  <2>6. k \in Clients
    BY DEF Places
  <2>3. game' \in [Clients -> Clients \cup {Nobody}]
    BY <2>5, <2>6 DEF TypeOK
  <2>4. games' \in [Clients -> Match \cup {Nobody}]
    BY <2>2, <2>5 DEF TypeOK
  <2> QED BY <1>4, <2>3, <2>4 DEF TypeOK, Play, fileVars, Listed
<1>5. ASSUME NEW c \in Clients, NEW s \in Moves, Place(c, s) PROVE TypeOK'
  <2> DEFINE h == [games[game[c]] EXCEPT !.grid[s] = c]
  <2>1. game[c] \in Clients /\ HasTurn(c) /\ s \in Squares
    BY <1>5, MatchesFields DEF Place, HasTurn
  <2>2. ~HasWon(h, c) => [h EXCEPT !.current = Opponent(h, c)] \in Match
    <3>1. ~MustRemove(games[game[c]], c) /\ games[game[c]].grid[s] = Free
      BY <1>5 DEF Place
    <3> HIDE DEF h
    <3>2. h = [games[game[c]] EXCEPT !.grid[s] = c]
      BY DEF h
    <3> QED BY <2>1, <3>1, <3>2, MoveOnBoard
  <2>3. games' \in [Clients -> Match \cup {Nobody}]
    <3>1. CASE HasWon(h, c)
      BY <1>5, <3>1, GamesKept DEF Place
    <3>2. CASE ~HasWon(h, c)
      BY <1>5, <2>2, <3>2 DEF TypeOK, Place
    <3> QED BY <3>1, <3>2
  <2>4. game' \in [Clients -> Clients \cup {Nobody}]
    BY <1>5 DEF TypeOK, Place, Ended
  <2> QED BY <1>5, <2>3, <2>4 DEF TypeOK, Place, fileVars, Listed
<1>6. ASSUME NEW c \in Clients, NEW s \in Moves, Remove(c, s) PROVE TypeOK'
  <2>1. games[game[c]] \in Match /\ s \in Squares
    BY <1>6, MatchesFields DEF Remove, HasTurn
  <2>2. PICK h : h = [games[game[c]] EXCEPT !.grid[s] = Free]
    OBVIOUS
  <2>3. h \in Match
    BY <1>6, <2>1, <2>2, Removed DEF Remove
  <2>4. games' = [games EXCEPT ![game[c]] = h]
    BY <1>6, <2>2 DEF Remove
  <2>5. games' \in [Clients -> Match \cup {Nobody}]
    BY <2>3, <2>4 DEF TypeOK
  <2> QED BY <1>6, <2>5 DEF TypeOK, Remove, fileVars, Listed
<1>7. ASSUME NEW c \in Clients, Drain(c) \/ SendFails(c) PROVE TypeOK'
  BY <1>7 DEF TypeOK, Drain, SendFails, fileVars, Listed, States
<1>8. ASSUME NEW c \in Clients, Cleanup(c) PROVE TypeOK'
  <2>1. /\ clients' \in Seq(Clients)
        /\ \A i, j \in DOMAIN clients' : clients'[i] = clients'[j] => i = j
        /\ \A d \in Clients : Listed(d)' => Listed(d) /\ d # c
    BY <1>8, WithoutClient DEF Cleanup, Listed
  <2>2. state' \in [Clients -> States] /\ \A d \in Clients : d # c => state'[d] = state[d]
    BY <1>8 DEF TypeOK, Cleanup, States
  <2>3. \A d \in Clients : Listed(d)' => state'[d] \in {"connected", "authenticated", "disconnecting"}
    BY <2>1, <2>2 DEF TypeOK
  <2> QED BY <1>8, <2>1, <2>2, <2>3 DEF TypeOK, Cleanup, fileVars
<1>9. CASE TakeLeave
  <2>1. game' \in [Clients -> Clients \cup {Nobody}]
    BY <1>9 DEF TypeOK, TakeLeave, Forsaken
  <2>2. games' \in [Clients -> Match \cup {Nobody}]
    <3>1. games' = games \/ games' = Kept(game')
      BY <1>9 DEF TakeLeave
    <3> QED BY <3>1, GamesKept DEF TypeOK
  <2>3. name' \in [Clients -> Names \cup {NoName}]
    BY <1>9 DEF TypeOK, TakeLeave
  <2>4. torn' \subseteq Clients
    BY <1>9 DEF TypeOK, TakeLeave
  <2> QED BY <1>9, <2>1, <2>2, <2>3, <2>4 DEF TypeOK, TakeLeave, fileVars, Listed
<1>10. CASE Userd
  <2> DEFINE f == Head(userdQ)
  <2>1. f \in FileNames /\ userdQ' \in Seq(FileNames)
    BY <1>10, Dequeued DEF TypeOK, Userd
  <2>2. /\ userdIn' \in [FileNames -> Names \cup {NoName, Unreadable, Nobody}]
        /\ alive' \subseteq {"userd", "events"}
    BY <1>10 DEF TypeOK, Userd, Taken
  <2>3. CASE userdIn[f] \in {Nobody, Unreadable}
    BY <1>10, <2>1, <2>2, <2>3 DEF TypeOK, Userd, serverVars, Listed
  <2>4. CASE userdIn[f] \notin {Nobody, Unreadable}
    <3>1. PICK answer \in Answers(f, userdIn[f]) :
            tttdIn' = [tttdIn EXCEPT ![f] = answer] /\ tttdQ' = Notified(tttdQ, f)
      BY <1>10, <2>4 DEF Userd
    <3>2. userdIn[f] \in Names \cup {NoName} /\ f[2] \in Clients
      BY <2>1, <2>4 DEF TypeOK, FileNames
    <3>3. answer \in Answer /\ answer.client = f[2]
      BY <3>1, <3>2 DEF Answers, Answer
    <3>4. /\ tttdIn' \in [FileNames -> Answer \cup {Nobody}]
          /\ \A g \in FileNames : tttdIn'[g] # Nobody => tttdIn'[g].client = g[2]
      BY <2>1, <3>1, <3>3 DEF TypeOK
    <3>5. tttdQ' \in Seq(FileNames)
      BY <2>1, <3>1, Enqueued DEF TypeOK
    <3> QED BY <1>10, <2>1, <2>2, <3>4, <3>5 DEF TypeOK, Userd, serverVars, Listed
  <2> QED BY <2>3, <2>4
<1>11. CASE LookUp
  <2> DEFINE f == Head(tttdQ)
  <2>1. f \in FileNames /\ tttdQ' \in Seq(FileNames)
    BY <1>11, Dequeued DEF TypeOK, LookUp
  <2>2. /\ tttdIn' \in [FileNames -> Answer \cup {Nobody}]
        /\ \A g \in FileNames : tttdIn'[g] # Nobody => tttdIn'[g].client = g[2]
    BY <1>11 DEF TypeOK, LookUp
  <2>3. alive' \subseteq {"userd", "events"}
    BY <1>11 DEF TypeOK, LookUp
  <2>4. event' \in Event \cup {Nobody}
    <3>1. CASE tttdIn[f] # Nobody /\ Listed(f[2])
      <4>1. tttdIn[f].user \in Names \cup {NoName} /\ f[2] \in Clients
        BY <2>1, <3>1 DEF TypeOK, Answer, FileNames
      <4>2. event' = [client |-> f[2], user |-> tttdIn[f].user,
                      step |-> IF tttdIn[f].user = NoName THEN "greet" ELSE "name"]
        BY <1>11, <3>1 DEF LookUp
      <4> QED BY <4>1, <4>2 DEF Event
    <3>2. CASE ~(tttdIn[f] # Nobody /\ Listed(f[2]))
      BY <1>11, <3>2 DEF LookUp
    <3> QED BY <3>1, <3>2
  <2> QED BY <1>11, <2>1, <2>2, <2>3, <2>4 DEF TypeOK, LookUp, serverVars, Listed
<1>12. CASE SetName \/ SetState
  <2>1. /\ event \in Event /\ event.client \in Clients /\ event.user \in Names \cup {NoName}
        /\ event' \in Event
    BY <1>12 DEF TypeOK, SetName, SetState, Handing, Then, Event
  <2>2. name' \in [Clients -> Names \cup {NoName}] /\ state' \in [Clients -> States]
    BY <1>12, <2>1 DEF TypeOK, SetName, SetState, States
  <2>3. \A c \in Clients : Listed(c)' => state'[c] \in {"connected", "authenticated", "disconnecting"}
    BY <1>12, <2>1 DEF TypeOK, SetName, SetState, Listed
  <2> QED BY <1>12, <2>1, <2>2, <2>3 DEF TypeOK, SetName, SetState
<1>14. CASE Greet \/ GreetGone
  <2>1. event \in Event /\ event.client \in Clients /\ event' = Nobody
    BY <1>14 DEF TypeOK, Greet, GreetGone, Handing, Answered, Event
  <2>2. awaits' \in [Clients -> Names \cup {NoName, Unreadable, Nobody}]
    BY <1>14, <2>1 DEF TypeOK, Greet, GreetGone, Answered
  <2>3. state' \in [Clients -> States]
    BY <1>14, <2>1 DEF TypeOK, Greet, GreetGone, States
  <2>4. \A c \in Clients : Listed(c)' => state'[c] \in {"connected", "authenticated", "disconnecting"}
    BY <1>14, <2>1 DEF TypeOK, Greet, GreetGone, Answered, Listed
  <2>5. game' \in [Clients -> Clients \cup {Nobody}]
    BY <1>14, <2>1 DEF TypeOK, Greet, GreetGone, Forsaken
  <2>6. games' \in [Clients -> Match \cup {Nobody}]
    <3>1. games' = games \/ games' = Kept(game')
      BY <1>14 DEF Greet, GreetGone
    <3> QED BY <3>1, GamesKept DEF TypeOK
  <2>7. torn' \subseteq Clients
    <3>1. CASE UNCHANGED torn
      BY <3>1 DEF TypeOK
    <3>2. CASE game[event.client] # Nobody /\ torn' = torn \cup {Other(event.client)}
      BY <2>1, <3>2, Others DEF TypeOK
    <3> QED BY <1>14, <3>1, <3>2 DEF Greet, GreetGone
  <2> QED BY <1>14, <2>1, <2>2, <2>3, <2>4, <2>5, <2>6, <2>7 DEF TypeOK, Greet, GreetGone, Answered
<1>13. CASE UNCHANGED vars
  BY <1>13 DEF TypeOK, vars, serverVars, fileVars, Listed
<1> QED BY <1>1, <1>2, <1>3, <1>4, <1>5, <1>6, <1>7, <1>8, <1>9, <1>10, <1>11, <1>12, <1>13,
        <1>14 DEF Next, MainThread, SecondThread

\* A move changes one match and nobody's.
LEMMA MatchGoesOn ==
  ASSUME TypeOK, Matches, NEW c \in Clients, game[c] # Nobody,
         NEW k \in Match, Fair(k), k.current \in Players(k),
         k.player1 = games[game[c]].player1, k.player2 = games[game[c]].player2,
         games' = [games EXCEPT ![game[c]] = k], game' = game
  PROVE  Matches'
<1>1. PICK m \in Clients : m = game[c]
  BY MatchesFields
<1>2. Players(k) = Players(games[m]) /\ k.player2 # k.player1
  BY <1>1, MatchesFields DEF Players
<1>3. games'[m] = k /\ \A n \in Clients : n # m => games'[n] = games[n]
  BY <1>1 DEF TypeOK
<1>4. ASSUME NEW d \in Clients, game'[d] # Nobody PROVE Playing(d, games[game[d]])'
  <2>1. CASE game[d] = m
    <3>1. d \in Players(k)
      BY <1>1, <1>2, <1>4, <2>1, MatchesFields
    <3> QED BY <1>2, <1>3, <2>1, <3>1 DEF Playing
  <2>2. CASE game[d] # m
    <3>1. games'[game'[d]] = games[game[d]] /\ game' = game
      BY <1>3, <1>4, <2>2, MatchesFields
    <3>2. Playing(d, games[game[d]])
      BY <1>4, <3>1 DEF Matches
    <3> QED BY <3>1, <3>2 DEF Playing
  <2> QED BY <2>1, <2>2
<1> QED BY <1>4 DEF Matches

\* Players that have no game any more leave the games of the others alone.
LEMMA MatchesLeft ==
  ASSUME TypeOK, Matches,
         \A p \in Clients : game'[p] \in {game[p], Nobody},
         games' = Kept(game')
  PROVE  /\ Matches'
         /\ \A d \in Clients : game'[d] # Nobody =>
              game'[d] = game[d] /\ games'[game'[d]] = games[game[d]]
<1>1. ASSUME NEW d \in Clients, game'[d] # Nobody
      PROVE  game'[d] = game[d] /\ games'[game'[d]] = games[game[d]]
  <2>1. PICK k \in Clients : k = game[d] /\ game'[d] = k
    BY <1>1, MatchesFields
  <2>2. Kept(game')[k] = games[k]
    BY <2>1, GamesKept
  <2> QED BY <2>1, <2>2
<1>2. ASSUME NEW d \in Clients, game'[d] # Nobody PROVE Playing(d, games[game[d]])'
  <2>1. game'[d] = game[d] /\ games'[game'[d]] = games[game[d]]
    BY <1>1, <1>2
  <2>2. Playing(d, games[game[d]])
    BY <1>2, <2>1 DEF Matches
  <2> QED BY <2>1, <2>2 DEF Playing
<1> QED BY <1>1, <1>2 DEF Matches

\* Who starts a match with another that plays none is in it with the other one.
LEMMA MatchBegins ==
  ASSUME TypeOK, Matches, NEW c \in Clients, NEW o \in Clients, c # o,
         game[c] = Nobody, game[o] = Nobody, NEW m \in Clients, Unused(m),
         games' = [games EXCEPT ![m] = NewGame(c, o)],
         game' = [game EXCEPT ![c] = m, ![o] = m]
  PROVE  /\ Matches'
         /\ Players(games'[m]) = {c, o}
         /\ \A d \in Clients : d # c /\ d # o /\ game'[d] # Nobody =>
              game'[d] = game[d] /\ games'[game'[d]] = games[game[d]]
<1>1. PICK k \in Match : /\ k = NewGame(c, o) /\ Fair(k)
                         /\ k.player1 = c /\ k.player2 = o /\ k.current = c
  BY NewMatch
<1>2. games'[m] = k /\ \A n \in Clients : n # m => games'[n] = games[n]
  BY <1>1 DEF TypeOK
<1>3. /\ game'[c] = m /\ game'[o] = m
      /\ \A p \in Clients : p # c /\ p # o => game'[p] = game[p]
  BY DEF TypeOK
<1>4. ASSUME NEW d \in Clients, d # c, d # o, game'[d] # Nobody
      PROVE  game'[d] = game[d] /\ games'[game'[d]] = games[game[d]]
  <2>1. game'[d] = game[d] /\ game[d] \in Clients
    BY <1>3, <1>4, MatchesFields
  <2>2. game[d] # m
    BY DEF Unused
  <2> QED BY <1>2, <2>1, <2>2
<1>5. ASSUME NEW d \in Clients, game'[d] # Nobody PROVE Playing(d, games[game[d]])'
  <2>1. CASE d = c \/ d = o
    BY <1>1, <1>2, <1>3, <2>1 DEF Playing, Players
  <2>2. CASE d # c /\ d # o
    <3>1. game'[d] = game[d] /\ games'[game'[d]] = games[game[d]]
      BY <1>4, <1>5, <2>2
    <3>2. Playing(d, games[game[d]])
      BY <1>5, <3>1 DEF Matches
    <3> QED BY <3>1, <3>2 DEF Playing
  <2> QED BY <2>1, <2>2
<1> QED BY <1>1, <1>2, <1>4, <1>5 DEF Matches, Players

\* The other player of a match begun by c.
LEMMA PlayStarts ==
  ASSUME TypeOK, NEW c \in Clients, NEW n \in Names, Play(c, n)
  PROVE  \E o, m \in Clients :
           /\ c # o /\ game[c] = Nobody /\ game[o] = Nobody /\ Unused(m)
           /\ Listed(c) /\ Listed(o)
           /\ games' = [games EXCEPT ![m] = NewGame(c, o)]
           /\ game' = [game EXCEPT ![c] = m, ![o] = m]
<1>1. PICK o \in Clients : o = ClientByName(n) /\ name[o] = n /\ Listed(o)
  BY ClientNamed DEF Play
<1>2. c # o /\ game[c] = Nobody /\ game[o] = Nobody /\ Listed(c)
  BY <1>1 DEF Play, Available, Reads
<1>3. PICK m \in Places(c) : /\ games' = [games EXCEPT ![m] = NewGame(c, o)]
                             /\ game' = [game EXCEPT ![c] = m, ![o] = m]
  BY <1>1 DEF Play
<1>4. m \in Clients /\ Unused(m)
  BY DEF Places
<1> QED BY <1>1, <1>2, <1>3, <1>4

\* What a move does to its game.
LEMMA PlaceMoves ==
  ASSUME TypeOK, Matches, NEW c \in Clients, NEW s \in Moves, Place(c, s)
  PROVE  \/ /\ game' = [game EXCEPT ![c] = Nobody, ![Other(c)] = Nobody]
            /\ games' = Kept(game')
         \/ \E k \in Match :
              /\ games' = [games EXCEPT ![game[c]] = k] /\ game' = game
              /\ Fair(k) /\ k.current \in Players(k)
              /\ k.player1 = games[game[c]].player1 /\ k.player2 = games[game[c]].player2
<1>1. PICK h : h = [games[game[c]] EXCEPT !.grid[s] = c]
  OBVIOUS
<1>2. /\ HasTurn(c) /\ s \in Squares /\ game[c] # Nobody
      /\ ~MustRemove(games[game[c]], c) /\ games[game[c]].grid[s] = Free
  BY DEF Place, HasTurn
<1>3. h.player1 = games[game[c]].player1 /\ h.player2 = games[game[c]].player2
  BY <1>1, <1>2, MoveOnBoard
<1>4. CASE HasWon(h, c)
  <2>1. game' = Ended(h) /\ games' = Kept(game')
    BY <1>1, <1>4 DEF Place
  <2>2. game' = [game EXCEPT ![h.player1] = Nobody, ![h.player2] = Nobody]
    BY <2>1 DEF Ended
  <2>3. {h.player1, h.player2} = {c, Other(c)}
    BY <1>2, <1>3, Others DEF Players
  <2>4. \/ h.player1 = c /\ h.player2 = Other(c)
        \/ h.player1 = Other(c) /\ h.player2 = c
    BY <1>2, <2>3, Others
  <2>5. game' = [game EXCEPT ![c] = Nobody, ![Other(c)] = Nobody]
    BY <2>2, <2>4 DEF TypeOK
  <2> QED BY <2>1, <2>5
<1>5. CASE ~HasWon(h, c)
  <2>1. PICK k : k = [h EXCEPT !.current = Opponent(h, c)]
    OBVIOUS
  <2>2. games' = [games EXCEPT ![game[c]] = k] /\ game' = game
    BY <1>1, <1>5, <2>1 DEF Place
  <2>3. /\ k \in Match /\ Fair(k) /\ k.current \in Players(k)
        /\ k.player1 = games[game[c]].player1 /\ k.player2 = games[game[c]].player2
    BY <1>1, <1>2, <1>5, <2>1, MoveOnBoard
  <2> QED BY <2>2, <2>3
<1> QED BY <1>4, <1>5

LEMMA RemoveMoves ==
  ASSUME TypeOK, Matches, NEW c \in Clients, NEW s \in Moves, Remove(c, s)
  PROVE  \E k \in Match :
           /\ games' = [games EXCEPT ![game[c]] = k] /\ game' = game
           /\ Fair(k) /\ k.current \in Players(k)
           /\ k.player1 = games[game[c]].player1 /\ k.player2 = games[game[c]].player2
<1>1. /\ HasTurn(c) /\ s \in Squares /\ game[c] # Nobody
      /\ MustRemove(games[game[c]], c) /\ games[game[c]].grid[s] = c
  BY DEF Remove, HasTurn
<1>2. PICK h : h = [games[game[c]] EXCEPT !.grid[s] = Free]
  OBVIOUS
<1>3. games' = [games EXCEPT ![game[c]] = h] /\ game' = game
  BY <1>2 DEF Remove
<1>4. /\ h \in Match /\ Fair(h) /\ h.current = c
      /\ h.player1 = games[game[c]].player1 /\ h.player2 = games[game[c]].player2
  <2>1. PICK g \in Match : g = games[game[c]]
    BY <1>1, MatchesFields
  <2>2. g.player1 # g.player2 /\ c \in Players(g) /\ Fair(g) /\ g.current = c
    BY <1>1, <2>1, MatchesFields DEF HasTurn
  <2>3. g.grid[s] = g.current /\ MustRemove(g, g.current) /\ h = [g EXCEPT !.grid[s] = Free]
    BY <1>1, <1>2, <2>1, <2>2
  <2>4. g.current \in Players(g)
    BY <2>2
  <2> QED BY <1>1, <2>1, <2>2, <2>3, <2>4, FairRemoval
<1>5. h.current \in Players(h)
  BY <1>1, <1>4, MatchesFields DEF Players
<1> QED BY <1>3, <1>4, <1>5

\* Who takes leave of a game leaves no game to the other player.
LEMMA Forsakes ==
  ASSUME TypeOK, Matches, TakeLeave \/ GreetGone
  PROVE  \/ UNCHANGED <<game, games>>
         \/ /\ \A p \in Clients : game'[p] \in {game[p], Nobody}
            /\ games' = Kept(game')
<1>1. CASE TakeLeave
  BY <1>1 DEF TakeLeave, Forsaken, TypeOK
<1>2. CASE GreetGone
  BY <1>2 DEF GreetGone, Forsaken, TypeOK
<1> QED BY <1>1, <1>2

LEMMA MatchStep == TypeOK /\ Matches /\ [Next]_vars => Matches'
<1> SUFFICES ASSUME TypeOK, Matches, [Next]_vars PROVE Matches'
  OBVIOUS
<1>1. ASSUME UNCHANGED <<game, games>> PROVE Matches'
  BY <1>1 DEF Matches, Playing
<1>2. ASSUME NEW c \in Clients, NEW n \in Names, Play(c, n) PROVE Matches'
  BY <1>2, PlayStarts, MatchBegins
<1>3. ASSUME NEW c \in Clients, NEW s \in Moves, Place(c, s) \/ Remove(c, s) PROVE Matches'
  <2>1. game[c] # Nobody
    BY <1>3 DEF Place, Remove, HasTurn
  <2>2. CASE /\ game' = [game EXCEPT ![c] = Nobody, ![Other(c)] = Nobody]
             /\ games' = Kept(game')
    <3>1. \A p \in Clients : game'[p] \in {game[p], Nobody}
      BY <2>2 DEF TypeOK
    <3> QED BY <2>2, <3>1, MatchesLeft
  <2>3. ASSUME NEW k \in Match,
               games' = [games EXCEPT ![game[c]] = k], game' = game,
               Fair(k), k.current \in Players(k),
               k.player1 = games[game[c]].player1, k.player2 = games[game[c]].player2
        PROVE  Matches'
    BY <2>1, <2>3, MatchGoesOn
  <2> QED BY <1>3, <2>2, <2>3, PlaceMoves, RemoveMoves
<1>4. CASE TakeLeave \/ GreetGone
  BY <1>1, <1>4, Forsakes, MatchesLeft
<1>5. ASSUME NEW c \in Clients,
             Accept(c) \/ Quit(c) \/ Drain(c) \/ SendFails(c) \/ Cleanup(c)
               \/ \E kind \in {"create", "login"} : \E n \in Content(kind) : Ask(c, kind, n)
      PROVE  Matches'
  BY <1>1, <1>5 DEF Accept, Quit, Drain, SendFails, Cleanup, Ask, serverVars
<1>6. CASE Userd \/ LookUp \/ SetName \/ SetState \/ Greet \/ UNCHANGED vars
  BY <1>1, <1>6 DEF Userd, LookUp, SetName, SetState, Greet, vars, serverVars
<1> QED BY <1>2, <1>3, <1>4, <1>5, <1>6 DEF Next, MainThread, SecondThread

LEMMA MatchesHold == Spec => [](TypeOK /\ Matches)
<1>1. Init => TypeOK /\ Matches
  BY EmptySeq DEF Init, TypeOK, States, Listed, FileNames, Matches
<1>2. TypeOK /\ Matches /\ [Next]_vars => (TypeOK /\ Matches)'
  BY TypeStep, MatchStep
<1> QED BY <1>1, <1>2, PTL DEF Spec

THEOREM TypeCorrect == Spec => []TypeOK
BY MatchesHold, PTL

\* The rules of the game hold in every game, between any number of players, whoever
\* comes and goes and whether or not players await the answer to a login.
THEOREM RulesAreKept == Spec => []RulesKept
<1>1. TypeOK /\ Matches => RulesKept
  <2> SUFFICES ASSUME TypeOK, Matches, NEW c \in Clients, game[c] # Nobody,
                      NEW g, g = games[game[c]]
               PROVE  /\ Cardinality(Tokens(g, g.player1)) <= 3
                      /\ Cardinality(Tokens(g, g.player2)) <= 3
                      /\ ~InARow(Tokens(g, g.player1)) /\ ~InARow(Tokens(g, g.player2))
                      /\ Cardinality(Tokens(g, g.player1)) - Cardinality(Tokens(g, g.player2)) \in -1 .. 1
    BY DEF RulesKept
  <2>1. /\ g \in Match /\ g.player1 # g.player2 /\ g.current \in Players(g) /\ Fair(g)
    BY MatchesFields
  <2> QED BY <2>1, FairKeepsRules
<1> QED BY <1>1, MatchesHold, PTL
-----------------------------------------------------------------------------
(***************************************************************************)
(* Who plays with whom.                                                    *)
(***************************************************************************)

\* Somebody keeps the opponent while the game is between the same two.
LEMMA SameOpponent ==
  ASSUME TypeOK, Matches, TypeOK', Matches', NEW c \in Clients,
         game[c] # Nobody, game'[c] # Nobody,
         Players(games'[game'[c]]) = Players(games[game[c]])
  PROVE  Other(c)' = Other(c)
<1>1. Other(c) # c /\ Players(games[game[c]]) = {c, Other(c)}
  BY Others
<1>2. Other(c)' = Opponent(games'[game'[c]], c)
  BY DEF Other
<1>3. Opponent(games'[game'[c]], c) = Other(c)
  BY <1>1, TwoPlayers
<1> QED BY <1>2, <1>3

\* Of two who play the same game each is the other one's opponent.
LEMMA Mutual ==
  ASSUME TypeOK, Matches, NEW c \in Clients, NEW d \in Clients, c # d,
         game[c] # Nobody, game[d] = game[c]
  PROVE  Other(c) = d /\ Other(d) = c
<1>1. Players(games[game[c]]) = {c, Other(c)} /\ Players(games[game[d]]) = {d, Other(d)}
  BY Others
<1> QED BY <1>1

\* What a player that loses the game does to the pairs.
LEMMA PairsLeft ==
  ASSUME TypeOK, Matches, TypeOK', Matches', Pairs,
         \A p \in Clients : game'[p] \in {game[p], Nobody},
         games' = Kept(game'), clients' = clients, torn \subseteq torn',
         state' = state, leaving' = leaving \/ leaving' = Nobody,
         \* who still plays, plays with somebody who does, unless torn or taking leave
         \A d \in Clients :
           game'[d] # Nobody /\ Other(d) \notin torn' /\ Listed(d) =>
             /\ game'[Other(d)] = game[Other(d)]
             /\ leaving = Other(d) => leaving' = leaving
  PROVE  Pairs'
<1>1. \A d \in Clients : game'[d] # Nobody =>
        game'[d] = game[d] /\ games'[game'[d]] = games[game[d]] /\ Other(d)' = Other(d)
  BY MatchesLeft DEF Other
<1>2. \A d : Listed(d)' <=> Listed(d)
  BY DEF Listed
<1>3. ASSUME NEW d \in Clients, game'[d] # Nobody, Other(d)' \notin torn'
      PROVE  Paired(d, Other(d))'
  <2>1. PICK o \in Clients : o = Other(d) /\ Other(d)' = o /\ game'[d] = game[d] /\ o \notin torn'
    BY <1>1, <1>3, Others
  <2>2. Paired(d, o)
    BY <1>3, <2>1 DEF Pairs
  <2>3. Listed(d)' => game'[o] = game'[d] /\ (Listed(o)' \/ leaving' = o)
    BY <1>2, <1>3, <2>1, <2>2 DEF Paired
  <2>4. leaving' = d => game'[o] \in {Nobody, game'[d]}
    <3>1. leaving' = d => leaving = d
      BY TicTacToeAssumption
    <3> QED BY <2>1, <2>2, <3>1 DEF Paired
  <2>5. Paired(d, o)'
    BY <2>3, <2>4 DEF Paired
  <2> QED BY <2>1, <2>5
<1>4. (leaving # Nobody => ~Listed(leaving))'
  BY <1>2 DEF Pairs
<1>5. \A d \in Clients : state'[d] = "none" => game'[d] = Nobody
  BY DEF Pairs
<1> QED BY <1>3, <1>4, <1>5 DEF Pairs

\* Nobody's game is changed, or one is by a move.
LEMMA PairsGoOn ==
  ASSUME TypeOK, Matches, TypeOK', Matches', Pairs,
         game' = game, torn \subseteq torn',
         \A d \in Clients : game[d] # Nobody => Players(games'[game[d]]) = Players(games[game[d]]),
         \A d \in Clients : Listed(d)' => Listed(d) \/ game[d] = Nobody,
         \A d \in Clients : Listed(d) => Listed(d)' \/ leaving' = d,
         leaving' = leaving \/ (leaving = Nobody /\ Listed(leaving')),
         leaving' # Nobody => ~Listed(leaving)',
         \A d \in Clients : state'[d] = "none" => state[d] = "none"
  PROVE  Pairs'
<1>1. ASSUME NEW d \in Clients, game'[d] # Nobody, Other(d)' \notin torn'
      PROVE  Paired(d, Other(d))'
  <2>1. PICK o \in Clients : o = Other(d) /\ Other(d)' = o /\ o \notin torn'
    BY <1>1, Others, SameOpponent
  <2>2. Paired(d, o)
    BY <1>1, <2>1 DEF Pairs
  <2>3. Listed(d)' => game'[o] = game'[d] /\ (Listed(o)' \/ leaving' = o)
    <3>1. Listed(d)' => game[o] = game[d] /\ (Listed(o) \/ leaving = o)
      BY <1>1, <2>2 DEF Paired
    <3>2. leaving = o => leaving' = o
      BY TicTacToeAssumption
    <3> QED BY <3>1, <3>2
  <2>4. leaving' = d => game'[o] \in {Nobody, game'[d]}
    BY <2>2 DEF Paired
  <2>5. Paired(d, o)'
    BY <2>3, <2>4 DEF Paired
  <2> QED BY <2>1, <2>5
<1>2. (leaving # Nobody => ~Listed(leaving))'
  OBVIOUS
<1>3. \A d \in Clients : state'[d] = "none" => game'[d] = Nobody
  BY DEF Pairs
<1> QED BY <1>1, <1>2, <1>3 DEF Pairs

LEMMA PairsStep == TypeOK /\ Matches /\ Pairs /\ [Next]_vars => Pairs'
<1> SUFFICES ASSUME TypeOK, Matches, Pairs, [Next]_vars PROVE Pairs'
  OBVIOUS
<1>t. TypeOK' /\ Matches'
  BY TypeStep, MatchStep
<1>d. ASSUME UNCHANGED clients
      PROVE  \A c : Listed(c)' <=> Listed(c)
  BY <1>d DEF Listed
<1>u. ASSUME UNCHANGED <<clients, game, games, leaving, torn>>,
             \A d \in Clients : state'[d] = "none" => state[d] = "none"
      PROVE  Pairs'
  <2>1. \A d \in Clients : Listed(d)' <=> Listed(d)
    BY <1>d, <1>u
  <2>2. leaving' # Nobody => ~Listed(leaving)'
    BY <1>u DEF Pairs, Listed
  <2> QED BY <1>t, <1>u, <2>1, <2>2, PairsGoOn
<1>1. ASSUME NEW c \in Clients, Accept(c) PROVE Pairs'
  <2>1. /\ DOMAIN clients' = 1 .. Len(clients) + 1 /\ DOMAIN clients = 1 .. Len(clients)
        /\ \A i \in 1 .. Len(clients) : clients'[i] = clients[i]
        /\ clients'[Len(clients) + 1] = c /\ Len(clients) \in Nat
    BY <1>1, AppendProperties DEF Accept, TypeOK
  <2>2. \A i \in DOMAIN clients : i \in DOMAIN clients' /\ clients'[i] = clients[i]
    BY <2>1
  <2>3. \A i \in DOMAIN clients' : (i \in DOMAIN clients /\ clients'[i] = clients[i]) \/ clients'[i] = c
    BY <2>1
  <2>4. game[c] = Nobody
    BY <1>1 DEF Pairs, Accept
  <2>5. /\ \A d \in Clients : Listed(d)' => Listed(d) \/ game[d] = Nobody
        /\ \A d \in Clients : Listed(d) => Listed(d)'
    BY <2>2, <2>3, <2>4 DEF Listed
  <2>6. /\ game' = game /\ games' = games /\ torn' = torn /\ leaving' = leaving /\ leaving = Nobody
        /\ \A d \in Clients : state'[d] = "none" => state[d] = "none"
    BY <1>1 DEF Accept, TypeOK
  <2> QED BY <1>t, <2>5, <2>6, PairsGoOn
<1>2. ASSUME NEW c \in Clients, NEW n \in Names, Play(c, n) PROVE Pairs'
  <2>1. PICK o \in Clients, m \in Clients :
           /\ c # o /\ game[c] = Nobody /\ game[o] = Nobody /\ Unused(m)
           /\ Listed(c) /\ Listed(o)
           /\ games' = [games EXCEPT ![m] = NewGame(c, o)]
           /\ game' = [game EXCEPT ![c] = m, ![o] = m]
    BY <1>2, PlayStarts
  <2>2. /\ clients' = clients /\ torn' = torn /\ leaving' = Nobody /\ leaving = Nobody /\ state' = state
    BY <1>2 DEF Play, Reads
  <2>3. /\ game'[c] = m /\ game'[o] = m /\ m # Nobody
        /\ \A d \in Clients : d # c /\ d # o => game'[d] = game[d]
    BY <2>1, TicTacToeAssumption DEF TypeOK
  <2>4. /\ Players(games'[m]) = {c, o}
        /\ \A d \in Clients : d # c /\ d # o /\ game'[d] # Nobody =>
              game'[d] = game[d] /\ games'[game'[d]] = games[game[d]]
    BY <2>1, MatchBegins
  <2>5. Other(c)' = o /\ Other(o)' = c
    <3>1. Opponent(games'[m], c) = o /\ Opponent(games'[m], o) = c
      BY <2>1, <2>4, TwoPlayers
    <3> QED BY <2>3, <3>1 DEF Other
  <2>6. ASSUME NEW d \in Clients, game'[d] # Nobody, Other(d)' \notin torn'
        PROVE  Paired(d, Other(d))'
    <3>1. CASE d = c \/ d = o
      BY <1>d, <2>1, <2>2, <2>3, <2>5, <3>1, TicTacToeAssumption DEF Paired
    <3>2. CASE d # c /\ d # o
      <4>1. Other(d)' = Other(d) /\ game'[d] = game[d]
        BY <2>4, <2>6, <3>2 DEF Other
      <4>2. PICK e \in Clients : e = Other(d) /\ Other(d)' = e
        BY <2>6, <4>1, Others
      <4>3. Paired(d, e)
        BY <2>2, <2>6, <4>1, <4>2 DEF Pairs
      <4>4. Listed(d) => game'[e] = game[e]
        <5>1. Listed(d) => game[e] # Nobody
          BY <2>6, <4>1, <4>3 DEF Paired
        <5> QED BY <2>1, <2>3, <5>1
      <4>5. Paired(d, e)'
        BY <1>d, <2>2, <4>1, <4>3, <4>4, TicTacToeAssumption DEF Paired
      <4> QED BY <4>2, <4>5
    <3> QED BY <3>1, <3>2
  <2>7. \A d \in Clients : state'[d] = "none" => game'[d] = Nobody
    <3>1. state[c] # "none" /\ state[o] # "none"
      BY <2>1 DEF TypeOK
    <3> QED BY <2>2, <2>3, <3>1 DEF Pairs
  <2> QED BY <2>2, <2>6, <2>7 DEF Pairs
<1>3. ASSUME NEW c \in Clients, NEW s \in Moves, Place(c, s) \/ Remove(c, s) PROVE Pairs'
  <2>1. /\ clients' = clients /\ torn' = torn /\ leaving' = leaving /\ leaving = Nobody /\ state' = state
        /\ game[c] # Nobody /\ Listed(c)
    BY <1>3 DEF Place, Remove, HasTurn, Reads
  <2>2. CASE /\ game' = [game EXCEPT ![c] = Nobody, ![Other(c)] = Nobody]
             /\ games' = Kept(game')
    <3>1. PICK o \in Clients : o = Other(c) /\ o # c
      BY <2>1, Others
    <3>2. /\ \A p \in Clients : p # c /\ p # o => game'[p] = game[p]
          /\ game'[c] = Nobody /\ game'[o] = Nobody
      BY <2>2, <3>1 DEF TypeOK
    <3>3. ASSUME NEW d \in Clients, game'[d] # Nobody, Other(d) \notin torn', Listed(d)
          PROVE  game'[Other(d)] = game[Other(d)]
      <4>1. PICK e \in Clients : e = Other(d)
        BY <3>2, <3>3, Others
      <4>2. d # c /\ d # o /\ game'[d] = game[d] /\ game[e] = game[d]
        BY <2>1, <3>2, <3>3, <4>1 DEF Pairs, Paired
      <4>3. e # c
        <5>1. ASSUME e = c PROVE FALSE
          <6>1. Other(c) = d
            BY <2>1, <4>2, <5>1, Mutual
          <6> QED BY <3>1, <4>2, <6>1
        <5> QED BY <5>1
      <4>4. CASE e # o
        BY <3>2, <4>1, <4>3, <4>4
      <4>5. CASE e = o
        <5>1. Paired(c, o)
          BY <2>1, <3>1, <3>3, <4>1, <4>5 DEF Pairs
        <5>2. game[o] = game[c]
          BY <2>1, <5>1 DEF Paired
        <5>3. Other(c) = d
          BY <2>1, <4>2, <4>5, <5>2, Mutual
        <5> QED BY <3>1, <4>2, <5>3
      <4> QED BY <4>4, <4>5
    <3>4. \A p \in Clients : game'[p] \in {game[p], Nobody}
      BY <3>2
    <3> QED BY <1>t, <2>1, <2>2, <3>3, <3>4, PairsLeft
  <2>3. ASSUME NEW k \in Match,
               games' = [games EXCEPT ![game[c]] = k], game' = game,
               k.player1 = games[game[c]].player1, k.player2 = games[game[c]].player2
        PROVE  Pairs'
    <3>1. Players(k) = Players(games[game[c]]) /\ game[c] \in Clients
      BY <2>1, <2>3, MatchesFields DEF Players
    <3>2. \A d \in Clients : game[d] # Nobody => Players(games'[game[d]]) = Players(games[game[d]])
      BY <2>3, <3>1, MatchesFields DEF TypeOK
    <3> QED BY <1>t, <1>d, <2>1, <2>3, <3>2, PairsGoOn
  <2> QED BY <1>3, <2>1, <2>2, <2>3, PlaceMoves, RemoveMoves
<1>4. ASSUME NEW c \in Clients, Cleanup(c) PROVE Pairs'
  <2>1. \A d \in Clients : Listed(d)' <=> Listed(d) /\ d # c
    BY <1>4, WithoutClient DEF Cleanup, Listed
  <2>2. /\ game' = game /\ games' = games /\ torn' = torn /\ leaving' = c /\ leaving = Nobody /\ Listed(c)
        /\ \A d \in Clients : state'[d] = "none" => state[d] = "none"
    BY <1>4 DEF Cleanup, TypeOK
  <2>3. leaving' # Nobody => ~Listed(leaving)'
    BY <2>1, <2>2 DEF Listed
  <2> QED BY <1>t, <2>1, <2>2, <2>3, PairsGoOn
<1>5. CASE TakeLeave
  <2>1. PICK c \in Clients : c = leaving /\ leaving' = Nobody /\ ~Listed(c) /\ c # Nobody
    BY <1>5 DEF TakeLeave, TypeOK, Pairs
  <2>2. clients' = clients /\ state' = state /\ torn \subseteq torn'
    BY <1>5 DEF TakeLeave
  <2>3. CASE game[c] = Nobody \/ state[c] # "disconnected"
    <3>1. UNCHANGED <<game, games>> /\ (game[c] # Nobody => c \in torn')
      BY <1>5, <2>1, <2>3 DEF TakeLeave
    <3>2. ASSUME NEW d \in Clients, game'[d] # Nobody, Other(d)' \notin torn'
          PROVE  Paired(d, Other(d))'
      <4>1. PICK o \in Clients : o = Other(d) /\ Other(d)' = o /\ o \notin torn'
        BY <3>1, <3>2, Others DEF Other
      <4>2. Paired(d, o) /\ game[d] # Nobody
        BY <2>2, <3>1, <3>2, <4>1 DEF Pairs
      <4>3. o = c => ~Listed(d)
        BY <3>1, <4>1, <4>2 DEF Paired
      <4>4. Paired(d, o)'
        BY <1>d, <2>1, <2>2, <3>1, <4>2, <4>3, TicTacToeAssumption DEF Paired
      <4> QED BY <4>1, <4>4
    <3>3. \A d \in Clients : state'[d] = "none" => game'[d] = Nobody
      BY <2>2, <3>1 DEF Pairs
    <3> QED BY <2>1, <3>2, <3>3 DEF Pairs
  <2>4. CASE game[c] # Nobody /\ state[c] = "disconnected"
    <3>1. PICK o \in Clients : o = Other(c) /\ o # c
      BY <2>4, Others
    <3>2. /\ game'[o] = Nobody /\ torn' = torn /\ games' = Kept(game')
          /\ \A p \in Clients : p # o /\ p # c => game'[p] = game[p]
          /\ game'[c] \in {game[c], Nobody}
      BY <1>5, <2>1, <2>4, <3>1 DEF TakeLeave, Forsaken, TypeOK
    <3>3. ASSUME NEW d \in Clients, game'[d] # Nobody, Other(d) \notin torn', Listed(d)
          PROVE  game'[Other(d)] = game[Other(d)] /\ leaving # Other(d)
      <4>1. PICK e \in Clients : e = Other(d) /\ game[d] # Nobody
        BY <3>2, <3>3, Others
      <4>2. d # c /\ d # o /\ game'[d] = game[d] /\ game[e] = game[d]
        BY <2>1, <3>2, <3>3, <4>1 DEF Pairs, Paired
      <4>3. e # c
        <5>1. ASSUME e = c PROVE FALSE
          <6>1. Other(c) = d
            BY <4>1, <4>2, <5>1, Mutual
          <6> QED BY <3>1, <4>2, <6>1
        <5> QED BY <5>1
      <4>4. CASE e # o
        BY <2>1, <3>2, <4>1, <4>3, <4>4
      <4>5. CASE e = o
        <5>1. Paired(c, o)
          BY <2>4, <3>1, <3>2, <3>3, <4>1, <4>5 DEF Pairs
        <5>2. game[o] = game[c]
          BY <2>1, <4>1, <4>2, <4>5, <5>1 DEF Paired
        <5>3. Other(c) = d
          BY <2>4, <4>2, <4>5, <5>2, Mutual
        <5> QED BY <3>1, <4>2, <5>3
      <4> QED BY <4>4, <4>5
    <3>4. \A p \in Clients : game'[p] \in {game[p], Nobody}
      BY <3>2
    <3> QED BY <1>t, <2>1, <2>2, <3>2, <3>3, <3>4, PairsLeft
  <2> QED BY <2>3, <2>4
<1>6. CASE GreetGone
  <2>1. PICK c \in Clients : c = event.client /\ state[c] = "disconnected" /\ ~Listed(c)
    BY <1>6 DEF GreetGone, Handing, TypeOK, Event
  <2>2. clients' = clients /\ state' = state /\ leaving' = leaving
    BY <1>6 DEF GreetGone, Answered
  <2>3. CASE game[c] = Nobody
    <3>1. UNCHANGED <<game, games, torn>>
      BY <1>6, <2>1, <2>3 DEF GreetGone
    <3> QED BY <1>u, <2>2, <3>1
  <2>4. CASE game[c] # Nobody
    <3>1. PICK o \in Clients : o = Other(c) /\ o # c
      BY <2>4, Others
    <3>2. /\ game'[o] = Nobody /\ games' = Kept(game')
          /\ \A p \in Clients : p # o => game'[p] = game[p]
          /\ leaving # c => o \in torn'
          /\ torn \subseteq torn'
      BY <1>6, <2>1, <2>4, <3>1 DEF GreetGone, Forsaken, TypeOK
    <3>3. ASSUME NEW d \in Clients, game'[d] # Nobody, Other(d) \notin torn', Listed(d)
          PROVE  game'[Other(d)] = game[Other(d)]
      <4>1. PICK e \in Clients : e = Other(d) /\ game[d] # Nobody /\ e \notin torn
        BY <3>2, <3>3, Others
      <4>2. d # c /\ d # o /\ game'[d] = game[d] /\ game[e] = game[d]
        BY <2>1, <3>2, <3>3, <4>1 DEF Pairs, Paired
      <4>3. CASE e # o
        BY <3>2, <4>1, <4>3
      <4>4. CASE e = o
        <5>1. leaving = c
          BY <3>2, <3>3, <4>1, <4>4
        <5>2. Paired(c, o)
          BY <2>4, <3>1, <4>1, <4>4 DEF Pairs
        <5>3. game[o] = game[c]
          BY <4>1, <4>2, <4>4, <5>1, <5>2 DEF Paired
        <5>4. Other(c) = d
          BY <2>4, <4>2, <4>4, <5>3, Mutual
        <5> QED BY <3>1, <4>2, <5>4
      <4> QED BY <4>3, <4>4
    <3>4. \A p \in Clients : game'[p] \in {game[p], Nobody}
      BY <3>2
    <3> QED BY <1>t, <2>2, <3>2, <3>3, <3>4, PairsLeft
  <2> QED BY <2>3, <2>4
<1>7. ASSUME NEW c \in Clients,
             Quit(c) \/ Drain(c) \/ SendFails(c)
               \/ \E kind \in {"create", "login"} : \E n \in Content(kind) : Ask(c, kind, n)
      PROVE  Pairs'
  BY <1>u, <1>7 DEF Quit, Drain, SendFails, Ask, serverVars, TypeOK
<1>8. CASE Userd \/ LookUp \/ SetName \/ SetState \/ Greet \/ UNCHANGED vars
  BY <1>u, <1>8 DEF Userd, LookUp, SetName, SetState, Greet, Answered, vars, serverVars, TypeOK
<1> QED BY <1>1, <1>2, <1>3, <1>4, <1>5, <1>6, <1>7, <1>8 DEF Next, MainThread, SecondThread

LEMMA PairsHold == Spec => []Pairs
<1>1. Init => Pairs
  BY DEF Init, Pairs
<1>2. TypeOK /\ Matches /\ Pairs /\ [Next]_vars => Pairs'
  BY PairsStep
<1> QED BY <1>1, <1>2, MatchesHold, PTL DEF Spec

\* Who plays, plays against somebody who plays the same game and is there, unless
\* that one has been torn away by the second thread; for any number of players and
\* names, and whether or not players await the answer to a login.
THEOREM GamesArePaired == Spec => []GamesPaired
<1>1. TypeOK /\ Matches /\ Pairs => GamesPaired
  <2> SUFFICES ASSUME TypeOK, Matches, Pairs, leaving = Nobody,
                      NEW c \in Clients, Listed(c), game[c] # Nobody, NEW g, g = games[game[c]]
               PROVE  /\ c \in Players(g)
                      /\ Cardinality(Players(g)) = 2
                      /\ Opponent(g, c) \notin torn =>
                           Listed(Opponent(g, c)) /\ game[Opponent(g, c)] = game[c]
    BY DEF GamesPaired
  <2>1. PICK o \in Clients : o = Opponent(g, c) /\ o = Other(c) /\ o # c /\ Players(g) = {c, o}
    BY Others DEF Other
  <2>2. o \notin torn => Listed(o) /\ game[o] = game[c]
    BY <2>1, TicTacToeAssumption DEF Pairs, Paired
  <2>3. Cardinality(Players(g)) = 2
    <3>1. IsFiniteSet({c}) /\ Cardinality({c}) = 1
      BY FS_Singleton
    <3>2. {c, o} = {c} \cup {o} /\ o \notin {c}
      BY <2>1
    <3> QED BY <2>1, <3>1, <3>2, FS_AddElement
  <2> QED BY <2>1, <2>2, <2>3
<1> QED BY <1>1, MatchesHold, PairsHold, PTL
-----------------------------------------------------------------------------
(***************************************************************************)
(* The way of a login through the files, when players await the answer.    *)
(***************************************************************************)

InStep(files, q) == \A f \in FileNames : files[f] # Nobody <=> Queued(q, f)

\* What the files say of a client.
OfClient(c) ==
  /\ Pending(c) => awaits[c] # Nobody
  /\ state[c] = "none" => awaits[c] = Nobody
  /\ Listed(c) /\ awaits[c] \notin {Nobody, Unreadable} => Pending(c)
OfFile(f) ==
  /\ userdIn[f] # Nobody => awaits[f[2]] = userdIn[f]
  /\ InHand(f[2]) => userdIn[f] = Nobody /\ tttdIn[f] = Nobody

\* Files, read for one client at a time.
LEMMA FilesRead ==
  ASSUME Files
  PROVE  /\ alive = {"userd", "events"}
         /\ InStep(userdIn, userdQ) /\ InStep(tttdIn, tttdQ)
         /\ Distinct(userdQ) /\ Distinct(tttdQ)
         /\ \A f, g \in FileNames : OneAtATime(f, g)
         /\ \A f \in FileNames : OfFile(f)
         /\ \A c \in Clients : OfClient(c)
BY DEF Files, LoginsUnderWay, InStep, Queued, OfFile, OfClient

LEMMA FilesMade ==
  ASSUME alive' = {"userd", "events"},
         InStep(userdIn, userdQ)', InStep(tttdIn, tttdQ)',
         Distinct(userdQ)', Distinct(tttdQ)',
         \A f, g \in FileNames : OneAtATime(f, g)',
         \A f \in FileNames : OfFile(f)',
         \A c \in Clients : OfClient(c)'
  PROVE  Files'
<1>1. /\ \A f \in FileNames : (userdIn[f] # Nobody <=> \E i \in DOMAIN userdQ : userdQ[i] = f)'
      /\ \A f \in FileNames : (tttdIn[f] # Nobody <=> \E i \in DOMAIN tttdQ : tttdQ[i] = f)'
  BY DEF InStep, Queued
<1>2. LoginsUnderWay'
  BY <1>1 DEF LoginsUnderWay, OfClient
<1> QED BY <1>2 DEF Files, OfFile, OfClient

\* Pending, file by file.
LEMMA PendingRead ==
  ASSUME NEW c \in Clients
  PROVE  Pending(c) <=> \/ \E f \in FileNames : f[2] = c /\ (userdIn[f] # Nobody \/ tttdIn[f] # Nobody)
                        \/ InHand(c)
<1>1. \A f \in FileNames : f[2] = c => f = <<f[1], c>> /\ f[1] \in {"create", "login"}
  BY DEF FileNames
<1>2. \A kind \in {"create", "login"} : <<kind, c>> \in FileNames /\ <<kind, c>>[2] = c
  BY DEF FileNames
<1> QED BY <1>1, <1>2 DEF Pending, InHand

\* Who reads the next line of a player that awaits nothing sees nothing of it pending.
LEMMA NothingPending ==
  ASSUME Waits, Files, NEW c \in Clients, Reads(c)
  PROVE  /\ awaits[c] = Nobody /\ ~Pending(c) /\ ~InHand(c)
         /\ \A f \in FileNames : f[2] = c => userdIn[f] = Nobody /\ tttdIn[f] = Nobody
BY FilesRead, PendingRead DEF Reads, OfClient

LEMMA FilesStep ==
  ASSUME Waits
  PROVE  TypeOK /\ Files /\ [Next]_vars => Files'
<1> SUFFICES ASSUME TypeOK, Files, [Next]_vars PROVE Files'
  OBVIOUS
<1>p. /\ \A c \in Clients : Pending(c) <=>
           \/ \E f \in FileNames : f[2] = c /\ (userdIn[f] # Nobody \/ tttdIn[f] # Nobody)
           \/ InHand(c)
      /\ \A c \in Clients : Pending(c)' <=>
           \/ \E f \in FileNames : f[2] = c /\ (userdIn'[f] # Nobody \/ tttdIn'[f] # Nobody)
           \/ InHand(c)'
  <2>1. \A c \in Clients : Pending(c) <=>
           \/ \E f \in FileNames : f[2] = c /\ (userdIn[f] # Nobody \/ tttdIn[f] # Nobody)
           \/ InHand(c)
    BY PendingRead
  <2>2. ASSUME NEW c \in Clients
        PROVE  Pending(c)' <=>
                 \/ \E f \in FileNames : f[2] = c /\ (userdIn'[f] # Nobody \/ tttdIn'[f] # Nobody)
                 \/ InHand(c)'
    <3>1. \A f \in FileNames : f[2] = c => f = <<f[1], c>> /\ f[1] \in {"create", "login"}
      BY DEF FileNames
    <3>2. \A kind \in {"create", "login"} : <<kind, c>> \in FileNames /\ <<kind, c>>[2] = c
      BY DEF FileNames
    <3> QED BY <3>1, <3>2 DEF Pending, InHand
  <2> QED BY <2>1, <2>2
<1>f. \A f \in FileNames : f[2] \in Clients
  BY DEF FileNames
\* Whatever leaves the files and what is awaited alone, and accepts nobody.
<1>1. ASSUME UNCHANGED <<fileVars, awaits>>,
             \A c \in Clients : state'[c] = "none" => state[c] = "none",
             \A c \in Clients : Listed(c)' => Listed(c) \/ awaits[c] = Nobody
      PROVE  Files'
  <2>1. \A c \in Clients : Pending(c)' <=> Pending(c)
    BY <1>1 DEF Pending, fileVars
  <2>2. \A c \in Clients : OfClient(c)'
    BY <1>1, <2>1, FilesRead DEF OfClient
  <2>3. \A f \in FileNames : OfFile(f)'
    BY <1>1, FilesRead DEF OfFile, InHand, fileVars
  <2>4. /\ alive' = {"userd", "events"}
        /\ InStep(userdIn, userdQ)' /\ InStep(tttdIn, tttdQ)'
        /\ Distinct(userdQ)' /\ Distinct(tttdQ)'
        /\ \A f, g \in FileNames : OneAtATime(f, g)'
    BY <1>1, FilesRead DEF InStep, Queued, Distinct, OneAtATime, fileVars
  <2> QED BY <2>2, <2>3, <2>4, FilesMade
<1>2. ASSUME NEW c \in Clients, NEW kind \in {"create", "login"}, NEW n \in Content(kind), Ask(c, kind, n)
      PROVE  Files'
  <2>0. <<kind, c>> \in FileNames /\ <<kind, c>>[2] = c
    BY DEF FileNames
  <2>1. PICK a \in FileNames : a = <<kind, c>> /\ a[2] = c
    BY <2>0
  <2>2. n # Nobody
    BY TicTacToeAssumption DEF Content
  <2>3. /\ \A f \in FileNames : f[2] = c => userdIn[f] = Nobody /\ tttdIn[f] = Nobody
        /\ ~InHand(c)
    BY <1>2, NothingPending DEF Ask
  <2>4. /\ userdQ' = Notified(userdQ, a)
        /\ tttdIn' = tttdIn /\ tttdQ' = tttdQ /\ event' = event /\ alive' = alive
        /\ clients' = clients /\ state' = state
    BY <1>2, <2>1 DEF Ask, serverVars
  <2>5. /\ \A f \in FileNames : userdIn'[f] = IF f = a THEN n ELSE userdIn[f]
        /\ awaits'[c] = n /\ \A d \in Clients : d # c => awaits'[d] = awaits[d]
    BY <1>2, <2>1 DEF Ask, TypeOK
  <2>6. userdIn[a] = Nobody /\ ~Queued(userdQ, a)
    BY <2>1, <2>3, FilesRead DEF InStep
  <2>7. Distinct(userdQ') /\ \A f \in FileNames : Queued(userdQ', f) <=> Queued(userdQ, f) \/ f = a
    BY <2>4, <2>6, Enqueued, FilesRead DEF TypeOK
  <2>8. InStep(userdIn, userdQ)'
    BY <2>2, <2>5, <2>7, FilesRead DEF InStep
  <2>9. ASSUME NEW f \in FileNames, NEW g \in FileNames PROVE OneAtATime(f, g)'
    <3>1. OneAtATime(f, g)
      BY FilesRead
    <3> QED BY <2>1, <2>3, <2>4, <2>5, <3>1 DEF OneAtATime
  <2>10. ASSUME NEW f \in FileNames PROVE OfFile(f)'
    <3>1. OfFile(f) /\ f[2] \in Clients
      BY <1>f, FilesRead
    <3>2. CASE f[2] = c
      BY <2>1, <2>3, <2>4, <2>5, <3>1, <3>2 DEF OfFile, InHand
    <3>3. CASE f[2] # c
      BY <2>1, <2>4, <2>5, <3>1, <3>3 DEF OfFile, InHand
    <3> QED BY <3>2, <3>3
  <2>11. alive' = {"userd", "events"} /\ InStep(tttdIn, tttdQ)' /\ Distinct(tttdQ)'
    BY <2>4, FilesRead DEF InStep
  <2>12. ASSUME NEW d \in Clients PROVE OfClient(d)'
    <3>1. OfClient(d) /\ (Listed(d)' <=> Listed(d)) /\ (InHand(d)' <=> InHand(d))
      BY <2>4, FilesRead DEF Listed, InHand
    <3>2. CASE d = c
      <4>1. Pending(c)'
        BY <1>p, <2>1, <2>2, <2>5
      <4>2. state[c] # "none"
        BY <1>2 DEF Ask, Reads, TypeOK
      <4> QED BY <2>2, <2>4, <2>5, <3>2, <4>1, <4>2 DEF OfClient
    <3>3. CASE d # c
      <4>1. Pending(d)' <=> Pending(d)
        BY <1>p, <2>1, <2>4, <2>5, <3>1, <3>3
      <4> QED BY <2>4, <2>5, <3>1, <3>3, <4>1 DEF OfClient
    <3> QED BY <3>2, <3>3
  <2> QED BY <2>7, <2>8, <2>9, <2>10, <2>11, <2>12, FilesMade
<1>3. CASE Userd
  <2>1. PICK a \in FileNames : a = Head(userdQ) /\ Queued(userdQ, a)
    BY <1>3, Dequeued DEF Userd, TypeOK
  <2>2. userdIn[a] # Nobody /\ a[2] \in Clients /\ awaits[a[2]] = userdIn[a] /\ ~InHand(a[2])
    BY <2>1, <1>f, FilesRead DEF InStep, OfFile
  <2>5. /\ userdQ' = Tail(userdQ) /\ alive' = alive /\ event' = event
        /\ awaits' = awaits /\ clients' = clients /\ state' = state
        /\ \A f \in FileNames : userdIn'[f] = IF f = a THEN Nobody ELSE userdIn[f]
    BY <1>3, <2>1, <2>2 DEF Userd, Taken, TypeOK, serverVars
  <2>7. \A f \in FileNames : f[2] = a[2] => (userdIn[f] # Nobody => f = a) /\ tttdIn[f] = Nobody
    BY <2>2, FilesRead DEF OneAtATime
  <2>9. Distinct(userdQ') /\ \A f \in FileNames : Queued(userdQ', f) <=> Queued(userdQ, f) /\ f # a
    BY <1>3, <2>1, <2>5, Dequeued, FilesRead DEF TypeOK, Userd
  <2>a. /\ alive' = {"userd", "events"} /\ InStep(userdIn, userdQ)'
        /\ \A c \in Clients : (Listed(c)' <=> Listed(c)) /\ (InHand(c)' <=> InHand(c))
    BY <2>5, <2>9, FilesRead DEF InStep, Listed, InHand
  <2>3. CASE userdIn[a] = Unreadable
    <3>1. tttdIn' = tttdIn /\ tttdQ' = tttdQ
      BY <1>3, <2>1, <2>3 DEF Userd
    <3>2. ASSUME NEW f \in FileNames, NEW g \in FileNames PROVE OneAtATime(f, g)'
      <4>1. OneAtATime(f, g)
        BY FilesRead
      <4> QED BY <2>5, <3>1, <4>1 DEF OneAtATime
    <3>3. ASSUME NEW f \in FileNames PROVE OfFile(f)'
      BY <1>f, <2>5, <2>a, <3>1, FilesRead DEF OfFile
    <3>4. ASSUME NEW c \in Clients PROVE OfClient(c)'
      <4>1. OfClient(c)
        BY FilesRead
      <4>2. CASE c = a[2]
        BY <1>p, <2>2, <2>3, <2>5, <2>7, <2>a, <3>1, <4>1, <4>2, TicTacToeAssumption DEF OfClient
      <4>3. CASE c # a[2]
        <5>1. Pending(c)' <=> Pending(c)
          BY <1>p, <2>5, <2>a, <3>1, <4>3
        <5> QED BY <2>5, <2>a, <4>1, <5>1 DEF OfClient
      <4> QED BY <4>2, <4>3
    <3>5. InStep(tttdIn, tttdQ)' /\ Distinct(tttdQ)'
      BY <3>1, FilesRead DEF InStep
    <3> QED BY <2>9, <2>a, <3>2, <3>3, <3>4, <3>5, FilesMade
  <2>4. CASE userdIn[a] # Unreadable
    <3>1. PICK answer \in Answers(a, userdIn[a]) :
            tttdIn' = [tttdIn EXCEPT ![a] = answer] /\ tttdQ' = Notified(tttdQ, a)
      BY <1>3, <2>1, <2>2, <2>4 DEF Userd
    <3>2. answer # Nobody
      <4>1. userdIn[a] \in Names \cup {NoName}
        BY <2>1, <2>2, <2>4 DEF TypeOK
      <4>2. answer \in Answer
        BY <2>2, <3>1, <4>1 DEF Answer, Answers
      <4> QED BY <4>2, TicTacToeAssumption
    <3>3. \A f \in FileNames : tttdIn'[f] = IF f = a THEN answer ELSE tttdIn[f]
      BY <3>1 DEF TypeOK
    <3>4. Distinct(tttdQ') /\ \A f \in FileNames : Queued(tttdQ', f) <=> Queued(tttdQ, f) \/ f = a
      <4>1. ~Queued(tttdQ, a)
        BY <2>1, <2>7, FilesRead DEF InStep
      <4> QED BY <3>1, <4>1, Enqueued, FilesRead DEF TypeOK
    <3>5. InStep(tttdIn, tttdQ)'
      BY <3>2, <3>3, <3>4, FilesRead DEF InStep
    <3>6. ASSUME NEW f \in FileNames, NEW g \in FileNames PROVE OneAtATime(f, g)'
      <4>1. OneAtATime(f, g)
        BY FilesRead
      <4> QED BY <2>5, <2>7, <3>3, <4>1 DEF OneAtATime
    <3>7. ASSUME NEW f \in FileNames PROVE OfFile(f)'
      <4>1. OfFile(f) /\ f[2] \in Clients
        BY <1>f, FilesRead
      <4> QED BY <2>2, <2>5, <2>a, <3>3, <4>1 DEF OfFile
    <3>8. ASSUME NEW c \in Clients PROVE OfClient(c)'
      <4>1. Pending(c)' <=> Pending(c)
        <5>1. CASE c = a[2]
          BY <1>p, <2>2, <3>2, <3>3, <5>1
        <5>2. CASE c # a[2]
          BY <1>p, <2>5, <2>a, <3>3, <5>2
        <5> QED BY <5>1, <5>2
      <4> QED BY <2>5, <2>a, <4>1, FilesRead DEF OfClient
    <3> QED BY <2>9, <2>a, <3>4, <3>5, <3>6, <3>7, <3>8, FilesMade
  <2> QED BY <2>3, <2>4
<1>4. CASE LookUp
  <2>1. PICK a \in FileNames : a = Head(tttdQ) /\ Queued(tttdQ, a)
    BY <1>4, Dequeued DEF LookUp, TypeOK
  <2>2. tttdIn[a] # Nobody /\ a[2] \in Clients /\ event = Nobody
    BY <1>4, <1>f, <2>1, FilesRead DEF InStep, LookUp
  <2>3. /\ tttdQ' = Tail(tttdQ) /\ alive' = alive /\ userdIn' = userdIn /\ userdQ' = userdQ
        /\ awaits' = awaits /\ clients' = clients /\ state' = state
        /\ \A f \in FileNames : tttdIn'[f] = IF f = a THEN Nobody ELSE tttdIn[f]
    BY <1>4, <2>1, <2>2 DEF LookUp, TypeOK, serverVars
  <2>b. \A c \in Clients : ~InHand(c) /\ (InHand(c)' <=> c = a[2] /\ Listed(c))
    <3>1. \A c \in Clients : ~InHand(c)
      BY <2>2 DEF InHand
    <3>2. CASE Listed(a[2])
      <4>1. \E u, step : event' = [client |-> a[2], user |-> u, step |-> step] /\ event' \in Event
        <5>1. tttdIn[a].user \in Names \cup {NoName}
          BY <2>2 DEF TypeOK, Answer
        <5>2. event' = [client |-> a[2], user |-> tttdIn[a].user,
                        step |-> IF tttdIn[a].user = NoName THEN "greet" ELSE "name"]
          BY <1>4, <2>1, <2>2, <3>2 DEF LookUp
        <5> QED BY <2>2, <5>1, <5>2 DEF Event
      <4>2. event' # Nobody /\ event'.client = a[2]
        BY <4>1, TicTacToeAssumption
      <4> QED BY <3>1, <3>2, <4>2 DEF InHand
    <3>3. CASE ~Listed(a[2])
      <4>1. event' = Nobody
        BY <1>4, <2>1, <3>3 DEF LookUp
      <4> QED BY <3>1, <3>3, <4>1 DEF InHand
    <3> QED BY <3>2, <3>3
  <2>4. \A f \in FileNames : f[2] = a[2] => userdIn[f] = Nobody /\ (tttdIn[f] # Nobody => f = a)
    BY <2>2, FilesRead DEF OneAtATime
  <2>5. Distinct(tttdQ') /\ \A f \in FileNames : Queued(tttdQ', f) <=> Queued(tttdQ, f) /\ f # a
    BY <1>4, <2>1, <2>3, Dequeued, FilesRead DEF TypeOK, LookUp
  <2>6. InStep(userdIn, userdQ)' /\ InStep(tttdIn, tttdQ)' /\ Distinct(userdQ)' /\ alive' = {"userd", "events"}
    BY <2>3, <2>5, FilesRead DEF InStep
  <2>7. ASSUME NEW f \in FileNames, NEW g \in FileNames PROVE OneAtATime(f, g)'
    <3>1. OneAtATime(f, g)
      BY FilesRead
    <3> QED BY <2>3, <3>1 DEF OneAtATime
  <2>8. ASSUME NEW f \in FileNames PROVE OfFile(f)'
    <3>1. OfFile(f) /\ f[2] \in Clients
      BY <1>f, FilesRead
    <3> QED BY <2>3, <2>4, <2>b, <3>1 DEF OfFile
  <2>9. ASSUME NEW c \in Clients PROVE OfClient(c)'
    <3>1. OfClient(c) /\ (Listed(c)' <=> Listed(c))
      BY <2>3, FilesRead DEF Listed
    <3>2. CASE c = a[2]
      <4>1. Pending(c) /\ (Listed(c) => Pending(c)')
        BY <1>p, <2>1, <2>2, <2>b, <3>2
      <4> QED BY <2>3, <3>1, <4>1 DEF OfClient
    <3>3. CASE c # a[2]
      <4>1. Pending(c)' <=> Pending(c)
        BY <1>p, <2>3, <2>b, <3>3
      <4> QED BY <2>3, <3>1, <4>1 DEF OfClient
    <3> QED BY <3>2, <3>3
  <2> QED BY <2>5, <2>6, <2>7, <2>8, <2>9, FilesMade
<1>5. CASE SetName \/ SetState
  <2>1. /\ userdIn' = userdIn /\ userdQ' = userdQ /\ tttdIn' = tttdIn /\ tttdQ' = tttdQ
        /\ alive' = alive /\ awaits' = awaits /\ clients' = clients
        /\ \A c \in Clients : state'[c] = "none" => state[c] = "none"
    BY <1>5 DEF SetName, SetState, TypeOK
  <2>2. event' # Nobody /\ event # Nobody /\ event'.client = event.client
    <3>1. event \in Event
      BY <1>5 DEF SetName, SetState, Handing, TypeOK
    <3>2. event' \in Event /\ event'.client = event.client
      BY <1>5, <3>1 DEF SetName, SetState, Then, Event
    <3> QED BY <3>1, <3>2, TicTacToeAssumption
  <2>3. \A c \in Clients : /\ InHand(c)' <=> InHand(c)
                           /\ Listed(c)' <=> Listed(c)
    BY <2>1, <2>2 DEF InHand, Listed
  <2>4. \A c \in Clients : Pending(c)' <=> Pending(c)
    BY <1>p, <2>1, <2>3
  <2>5. \A c \in Clients : OfClient(c)'
    BY <2>1, <2>3, <2>4, FilesRead DEF OfClient
  <2>6. \A f \in FileNames : OfFile(f)'
    BY <1>f, <2>1, <2>3, FilesRead DEF OfFile
  <2>7. /\ alive' = {"userd", "events"}
        /\ InStep(userdIn, userdQ)' /\ InStep(tttdIn, tttdQ)'
        /\ Distinct(userdQ)' /\ Distinct(tttdQ)'
        /\ \A f, g \in FileNames : OneAtATime(f, g)'
    BY <2>1, FilesRead DEF InStep, Queued, Distinct, OneAtATime
  <2> QED BY <2>5, <2>6, <2>7, FilesMade
<1>6. CASE Greet \/ GreetGone
  <2>1. PICK c \in Clients : c = event.client /\ InHand(c)
    BY <1>6 DEF Greet, GreetGone, Handing, InHand, TypeOK, Event
  <2>2. /\ userdIn' = userdIn /\ userdQ' = userdQ /\ tttdIn' = tttdIn /\ tttdQ' = tttdQ
        /\ alive' = alive /\ clients' = clients /\ event' = Nobody
        /\ awaits'[c] = Nobody /\ \A d \in Clients : d # c => awaits'[d] = awaits[d]
        /\ \A d \in Clients : state'[d] = "none" => state[d] = "none"
    BY <1>6, <2>1 DEF Greet, GreetGone, Answered, TypeOK
  <2>3. \A d \in Clients : ~InHand(d)' /\ (Listed(d)' <=> Listed(d)) /\ (InHand(d) <=> d = c)
    BY <2>1, <2>2 DEF InHand, Listed
  <2>4. ASSUME NEW f \in FileNames PROVE OfFile(f)'
    <3>1. OfFile(f) /\ f[2] \in Clients
      BY <1>f, FilesRead
    <3> QED BY <2>1, <2>2, <2>3, <3>1 DEF OfFile
  <2>5. ASSUME NEW d \in Clients PROVE OfClient(d)'
    <3>1. OfClient(d) /\ \A f \in FileNames : OfFile(f)
      BY FilesRead
    <3>2. CASE d = c
      <4>1. ~Pending(c)'
        BY <1>p, <2>1, <2>2, <2>3, <3>1 DEF OfFile
      <4> QED BY <2>2, <3>2, <4>1 DEF OfClient
    <3>3. CASE d # c
      <4>1. Pending(d)' <=> Pending(d)
        BY <1>p, <2>2, <2>3, <3>3
      <4> QED BY <2>2, <2>3, <3>1, <3>3, <4>1 DEF OfClient
    <3> QED BY <3>2, <3>3
  <2>6. /\ alive' = {"userd", "events"}
        /\ InStep(userdIn, userdQ)' /\ InStep(tttdIn, tttdQ)'
        /\ Distinct(userdQ)' /\ Distinct(tttdQ)'
        /\ \A f, g \in FileNames : OneAtATime(f, g)'
    BY <2>2, FilesRead DEF InStep, Queued, Distinct, OneAtATime
  <2> QED BY <2>4, <2>5, <2>6, FilesMade
<1>7. ASSUME NEW c \in Clients, Accept(c) PROVE Files'
  <2>1. /\ DOMAIN clients' = 1 .. Len(clients) + 1 /\ DOMAIN clients = 1 .. Len(clients)
        /\ \A i \in 1 .. Len(clients) : clients'[i] = clients[i]
        /\ clients'[Len(clients) + 1] = c /\ Len(clients) \in Nat
    BY <1>7, AppendProperties DEF Accept, TypeOK
  <2>2. \A i \in DOMAIN clients' : (i \in DOMAIN clients /\ clients'[i] = clients[i]) \/ clients'[i] = c
    BY <2>1
  <2>3. awaits[c] = Nobody
    BY <1>7, FilesRead DEF OfClient, Accept
  <2>4. \A d \in Clients : Listed(d)' => Listed(d) \/ awaits[d] = Nobody
    BY <2>2, <2>3 DEF Listed
  <2>5. /\ UNCHANGED <<fileVars, awaits>>
        /\ \A d \in Clients : state'[d] = "none" => state[d] = "none"
    BY <1>7 DEF Accept, TypeOK
  <2> QED BY <1>1, <2>4, <2>5
<1>8. ASSUME NEW c \in Clients, Cleanup(c) PROVE Files'
  <2>1. \A d \in Clients : Listed(d)' => Listed(d)
    BY <1>8, WithoutClient DEF Cleanup, Listed
  <2>2. /\ UNCHANGED <<fileVars, awaits>>
        /\ \A d \in Clients : state'[d] = "none" => state[d] = "none"
    BY <1>8 DEF Cleanup, TypeOK
  <2> QED BY <1>1, <2>1, <2>2
<1>9. ASSUME NEW c \in Clients,
             Quit(c) \/ Drain(c) \/ SendFails(c)
               \/ (\E n \in Names : Play(c, n))
               \/ (\E s \in Moves : Place(c, s) \/ Remove(c, s))
      PROVE  Files'
  <2>1. /\ UNCHANGED <<fileVars, awaits, clients>>
        /\ \A d \in Clients : state'[d] = "none" => state[d] = "none"
    BY <1>9 DEF Quit, Drain, SendFails, Play, Place, Remove, TypeOK
  <2>2. \A d \in Clients : Listed(d)' <=> Listed(d)
    BY <2>1 DEF Listed
  <2> QED BY <1>1, <2>1, <2>2
<1>10. CASE TakeLeave \/ UNCHANGED vars
  <2>1. UNCHANGED <<fileVars, awaits, clients, state>>
    BY <1>10 DEF TakeLeave, vars, serverVars
  <2>2. \A d \in Clients : Listed(d)' <=> Listed(d)
    BY <2>1 DEF Listed
  <2> QED BY <1>1, <2>1, <2>2
<1> QED BY <1>2, <1>3, <1>4, <1>5, <1>6, <1>7, <1>8, <1>9, <1>10 DEF Next, MainThread, SecondThread

LEMMA FilesHold ==
  ASSUME Waits
  PROVE  Spec => []Files
<1>1. Init => Files
  <2> SUFFICES ASSUME Init PROVE Files
    OBVIOUS
  <2>1. \A c \in Clients : ~Listed(c) /\ ~InHand(c)
    BY DEF Init, Listed, InHand
  <2>2. /\ \A f \in FileNames : userdIn[f] = Nobody /\ tttdIn[f] = Nobody /\ f[2] \in Clients
        /\ userdQ = << >> /\ tttdQ = << >> /\ alive = {"userd", "events"} /\ event = Nobody
        /\ \A c \in Clients : awaits[c] = Nobody
    BY DEF Init, FileNames
  <2>3. \A c \in Clients : ~Pending(c)
    BY <2>1, <2>2, PendingRead
  <2> QED BY <2>1, <2>2, <2>3 DEF Files, LoginsUnderWay, Distinct, OneAtATime
<1>2. TypeOK /\ Files /\ [Next]_vars => Files'
  BY FilesStep
<1> QED BY <1>1, <1>2, MatchesHold, PTL DEF Spec

\* While players await the answers, no login is lost between the files and the
\* events, and no loop is ended by a file that has gone; who has sent one that userd
\* can read is being served; for any number of players.
THEOREM LoginsArrive ==
  ASSUME Waits
  PROVE  Spec => []LoginsUnderWay
<1>1. Files => LoginsUnderWay
  BY DEF Files
<1> QED BY <1>1, FilesHold, PTL
-----------------------------------------------------------------------------
(***************************************************************************)
(* Names, when players await the answer.                                   *)
(***************************************************************************)

\* Logins, one client at a time.
LoginOf(c) ==
  /\ ~Naming(c) /\ (Pending(c) \/ state[c] \in {"none", "connected"}) => name[c] = NoName
  /\ Naming(c) /\ event.step = "greet" => state[c] \notin {"none", "connected"}

LEMMA LoginsStep ==
  ASSUME Waits
  PROVE  TypeOK /\ Files /\ Logins /\ [Next]_vars => Logins'
<1> SUFFICES ASSUME TypeOK, Files, Logins, [Next]_vars, NEW c \in Clients PROVE LoginOf(c)'
  BY DEF Logins, LoginOf
<1>a. LoginOf(c)
  BY DEF Logins, LoginOf
\* Whatever happens to others, or takes something away from the client.
<1>1. ASSUME event' = event, Pending(c)' => Pending(c),
             name'[c] = name[c] \/ name'[c] = NoName,
             state'[c] \in {"none", "connected"} => state[c] \in {"none", "connected"}
      PROVE  LoginOf(c)'
  <2>1. Naming(c)' <=> Naming(c)
    BY <1>1 DEF Naming, InHand
  <2> QED BY <1>1, <1>a, <2>1 DEF LoginOf
<1>2. ASSUME UNCHANGED <<fileVars, name>>,
             state'[c] \in {"none", "connected"} => state[c] \in {"none", "connected"}
      PROVE  LoginOf(c)'
  <2>1. Pending(c)' <=> Pending(c)
    BY <1>2 DEF Pending, fileVars
  <2> QED BY <1>1, <1>2, <2>1 DEF fileVars
<1>3. ASSUME NEW d \in Clients,
             Accept(d) \/ Quit(d) \/ Drain(d) \/ SendFails(d) \/ Cleanup(d)
               \/ (\E n \in Names : Play(d, n))
               \/ (\E s \in Moves : Place(d, s) \/ Remove(d, s))
      PROVE  LoginOf(c)'
  <2>1. /\ UNCHANGED <<fileVars, name>>
        /\ state'[c] \in {"none", "connected"} => state[c] \in {"none", "connected"}
    BY <1>3 DEF Accept, Quit, Drain, SendFails, Cleanup, Play, Place, Remove, TypeOK
  <2> QED BY <1>2, <2>1
<1>4. ASSUME NEW d \in Clients, NEW kind \in {"create", "login"}, NEW n \in Content(kind), Ask(d, kind, n)
      PROVE  LoginOf(c)'
  <2>1. /\ event' = event /\ tttdIn' = tttdIn /\ name' = name /\ state' = state
        /\ state[d] = "connected" /\ Reads(d)
    BY <1>4 DEF Ask, MayLogIn, serverVars
  <2>2. CASE c = d
    <3>1. ~InHand(c) /\ name[c] = NoName
      BY <1>a, <2>1, <2>2, NothingPending DEF LoginOf, Naming
    <3>2. ~Naming(c)'
      BY <2>1, <3>1 DEF Naming, InHand
    <3> QED BY <2>1, <3>1, <3>2 DEF LoginOf
  <2>3. CASE c # d
    <3>1. \A k \in {"create", "login"} : <<k, c>> \in FileNames /\ <<k, c>> # <<kind, d>>
      BY <2>3 DEF FileNames
    <3>2. \A k \in {"create", "login"} : userdIn'[<<k, c>>] = userdIn[<<k, c>>]
      BY <1>4, <3>1 DEF Ask, TypeOK
    <3>3. Pending(c)' => Pending(c)
      BY <2>1, <3>2 DEF Pending
    <3> QED BY <1>1, <2>1, <3>3
  <2> QED BY <2>2, <2>3
<1>5. CASE TakeLeave
  <2>1. /\ UNCHANGED fileVars /\ state' = state
        /\ name'[c] = name[c] \/ name'[c] = NoName
    BY <1>5 DEF TakeLeave, TypeOK
  <2>2. Pending(c)' <=> Pending(c)
    BY <2>1 DEF Pending, fileVars
  <2> QED BY <1>1, <2>1, <2>2 DEF fileVars
<1>6. CASE Userd
  <2>1. PICK a \in FileNames : a = Head(userdQ)
    BY <1>6, Dequeued DEF Userd, TypeOK
  <2>2. /\ event' = event /\ name' = name /\ state' = state
        /\ \A f \in FileNames : userdIn'[f] # Nobody => userdIn[f] # Nobody
        /\ \A f \in FileNames : tttdIn'[f] # Nobody =>
             tttdIn[f] # Nobody \/ (f = a /\ userdIn[f] # Nobody)
    BY <1>6, <2>1 DEF Userd, Taken, TypeOK, serverVars
  <2>3. \A k \in {"create", "login"} : <<k, c>> \in FileNames
    BY DEF FileNames
  <2>4. Pending(c)' => Pending(c)
    BY <2>2, <2>3 DEF Pending
  <2> QED BY <1>1, <2>2, <2>4
<1>7. CASE LookUp
  <2>1. PICK a \in FileNames : a = Head(tttdQ) /\ Queued(tttdQ, a)
    BY <1>7, Dequeued DEF LookUp, TypeOK
  <2>2. tttdIn[a] # Nobody /\ a[2] \in Clients /\ event = Nobody /\ name' = name /\ state' = state
    BY <1>7, <2>1, FilesRead DEF InStep, LookUp, FileNames, serverVars
  <2>3. \/ event' = Nobody
        \/ /\ event' # Nobody /\ event'.client = a[2]
           /\ event'.step = "name" \/ event'.user = NoName
    <3>1. CASE Listed(a[2])
      <4>1. event' = [client |-> a[2], user |-> tttdIn[a].user,
                      step |-> IF tttdIn[a].user = NoName THEN "greet" ELSE "name"]
        BY <1>7, <2>1, <2>2, <3>1 DEF LookUp
      <4>2. event' \in Event
        BY <2>2, <4>1 DEF Event, TypeOK, Answer
      <4> QED BY <4>1, <4>2, TicTacToeAssumption
    <3>2. CASE ~Listed(a[2])
      BY <1>7, <2>1, <3>2 DEF LookUp
    <3> QED BY <3>1, <3>2
  <2>4. ~Naming(c)' /\ ~Naming(c)
    BY <2>2, <2>3 DEF Naming, InHand
  <2>5. Pending(c)' => Pending(c)
    <3>1. a[1] \in {"create", "login"} /\ a = <<a[1], a[2]>>
      BY <2>1 DEF FileNames
    <3>2. \A k \in {"create", "login"} : <<k, c>> \in FileNames
      BY DEF FileNames
    <3>3. /\ userdIn' = userdIn
          /\ \A f \in FileNames : tttdIn'[f] # Nobody => tttdIn[f] # Nobody
      BY <1>7, <2>1 DEF LookUp, TypeOK
    <3>4. event' # Nobody /\ event'.client = c => tttdIn[<<a[1], c>>] # Nobody
      BY <2>2, <2>3, <3>1
    <3> QED BY <3>1, <3>2, <3>3, <3>4 DEF Pending
  <2> QED BY <1>a, <2>2, <2>4, <2>5 DEF LoginOf
<1>8. CASE SetName \/ SetState
  <2>1. /\ event \in Event /\ event.client \in Clients /\ event' \in Event
        /\ event'.client = event.client /\ event'.user = event.user
        /\ event'.step = IF event.step = "name" THEN "state" ELSE "greet"
        /\ event.step \in {"name", "state"}
    BY <1>8 DEF SetName, SetState, Handing, Then, TypeOK, Event
  <2>2. event # Nobody /\ event' # Nobody
    BY <2>1, TicTacToeAssumption
  <2>3. userdIn' = userdIn /\ tttdIn' = tttdIn
    BY <1>8 DEF SetName, SetState
  <2>4. CASE c # event.client
    <3>1. name'[c] = name[c] /\ state'[c] = state[c]
      BY <1>8, <2>1, <2>4 DEF SetName, SetState, TypeOK
    <3>2. /\ Pending(c)' <=> Pending(c)
          /\ ~Naming(c) /\ ~Naming(c)'
      BY <2>1, <2>2, <2>3, <2>4 DEF Pending, Naming, InHand
    <3> QED BY <1>a, <3>1, <3>2 DEF LoginOf
  <2>5. CASE c = event.client /\ event.step = "name"
    <3>1. name'[c] = event.user /\ state' = state
      BY <1>8, <2>1, <2>5 DEF SetName, SetState, Handing, TypeOK
    <3>2. Naming(c)' <=> event.user # NoName
      BY <2>1, <2>2, <2>5 DEF Naming, InHand
    <3>3. event'.step = "state"
      BY <2>1, <2>5
    <3> QED BY <3>1, <3>2, <3>3 DEF LoginOf
  <2>6. CASE c = event.client /\ event.step = "state"
    <3>1. name' = name /\ state'[c] = "authenticated"
      BY <1>8, <2>1, <2>6 DEF SetName, SetState, Handing, TypeOK
    <3>2. /\ Naming(c)' <=> Naming(c)
          /\ Pending(c)
      BY <2>1, <2>2, <2>6 DEF Naming, InHand, Pending
    <3> QED BY <1>a, <3>1, <3>2 DEF LoginOf
  <2> QED BY <2>1, <2>4, <2>5, <2>6
<1>9. CASE Greet \/ GreetGone
  <2>1. PICK d \in Clients : d = event.client /\ InHand(d) /\ event.step = "greet"
    BY <1>9 DEF Greet, GreetGone, Handing, InHand, TypeOK, Event
  <2>2. /\ userdIn' = userdIn /\ tttdIn' = tttdIn /\ event' = Nobody /\ name' = name
        /\ state'[c] \in {"none", "connected"} => state[c] \in {"none", "connected"}
    BY <1>9 DEF Greet, GreetGone, Answered, TypeOK
  <2>3. ~Naming(c)' /\ (Pending(c)' => Pending(c))
    BY <2>2 DEF Naming, InHand, Pending
  <2>4. CASE c # d
    <3>1. ~Naming(c)
      BY <2>1, <2>4 DEF Naming, InHand
    <3> QED BY <1>a, <2>2, <2>3, <3>1 DEF LoginOf
  <2>5. CASE c = d
    <3>1. ~Pending(c)'
      <4>1. \A k \in {"create", "login"} : <<k, c>> \in FileNames /\ <<k, c>>[2] = c
        BY DEF FileNames
      <4>2. \A f \in FileNames : OfFile(f)
        BY FilesRead
      <4>3. \A k \in {"create", "login"} : userdIn[<<k, c>>] = Nobody /\ tttdIn[<<k, c>>] = Nobody
        BY <2>1, <2>5, <4>1, <4>2 DEF OfFile
      <4> QED BY <2>2, <4>3 DEF Pending
    <3>2. state'[c] \in {"none", "connected"} => name[c] = NoName
      BY <1>a, <2>1, <2>2, <2>5 DEF LoginOf
    <3> QED BY <2>2, <2>3, <3>1, <3>2 DEF LoginOf
  <2> QED BY <2>4, <2>5
<1>10. CASE UNCHANGED vars
  BY <1>2, <1>10 DEF vars, serverVars
<1> QED BY <1>3, <1>4, <1>5, <1>6, <1>7, <1>8, <1>9, <1>10 DEF Next, MainThread, SecondThread

LEMMA LoginsHold ==
  ASSUME Waits
  PROVE  Spec => []Logins
<1>1. Init => Logins
  BY DEF Init, Logins, Naming, InHand
<1>2. TypeOK /\ Files /\ Logins /\ [Next]_vars => Logins'
  BY LoginsStep
<1> QED BY <1>1, <1>2, MatchesHold, FilesHold, PTL DEF Spec

\* While players await the answers, nobody who has logged in becomes somebody else.
THEOREM NamesDoStay ==
  ASSUME Waits
  PROVE  Spec => NamesStay
<1> DEFINE Stays == \A c \in Clients : Listed(c) /\ name[c] # NoName => name'[c] = name[c]
<1>1. TypeOK /\ Pairs /\ Logins /\ [Next]_vars => [Stays]_vars
  <2> SUFFICES ASSUME TypeOK, Pairs, Logins, Next PROVE Stays
    BY DEF vars
  <2>1. CASE TakeLeave
    <3>1. ~Listed(leaving) /\ \A c \in Clients : c # leaving => name'[c] = name[c]
      BY <2>1 DEF TakeLeave, Pairs, TypeOK
    <3> QED BY <3>1
  <2>2. CASE SetName
    <3>1. event # Nobody /\ event.client \in Clients /\ event.step = "name"
      BY <2>2 DEF SetName, Handing, TypeOK, Event
    <3>2. name[event.client] = NoName
      BY <3>1 DEF Logins, Pending, Naming
    <3>3. \A c \in Clients : c # event.client => name'[c] = name[c]
      BY <2>2, <3>1 DEF SetName, TypeOK
    <3> QED BY <3>2, <3>3
  <2>3. CASE MainThread \/ Userd \/ LookUp \/ SetState \/ Greet \/ GreetGone
    <3>1. name' = name
      BY <2>3 DEF MainThread, Userd, LookUp, SetState, Greet, GreetGone, Answered, Accept, Ask, Quit, Play,
                  Place, Remove, Drain, SendFails, Cleanup, serverVars
    <3> QED BY <3>1
  <2> QED BY <2>1, <2>2, <2>3 DEF Next, SecondThread
<1> QED BY <1>1, MatchesHold, PairsHold, LoginsHold, PTL DEF Spec, NamesStay
=============================================================================
