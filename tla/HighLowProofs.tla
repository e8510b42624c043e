---------------------------- MODULE HighLowProofs -----------------------------
(***************************************************************************)
(* Proofs about HighLow, as it is composed in Parts: the array of clients  *)
(* and the table of users are right for any number of connections, slots,  *)
(* users and packets.                                                      *)
(***************************************************************************)
EXTENDS Parts, FiniteSetTheorems, SequenceTheorems, TLAPS

(***************************************************************************)
(* The invariants.                                                         *)
(***************************************************************************)

Packets ==
  [type : {"auth"}, user : Users, own : BOOLEAN]
    \cup [type : {"new_game", "dummy"}] \cup [type : {"guess"}, right : BOOLEAN]

Places == {"new", "waiting", "gone"} \cup Slots

HighTypes ==
  /\ place \in [Peers -> Places]
  /\ unread \in [Peers -> Seq(Packets)] /\ toSend \in [Peers -> Seq(Packets)]
  /\ hungUp \subseteq Peers
  /\ free \in Seq(Slots)
  /\ client \in [Slots -> [user : Users \cup {NoUser}, games : Nat, round : Nat,
                           playing : BOOLEAN, closing : BOOLEAN]]
  /\ batch \in Seq(Slots \cup {High!Server})
  /\ reading \in BOOLEAN
  /\ buffer \in Seq(Packets)
  /\ users \in [Users -> [score : Nat, games : Nat]]
  /\ created \subseteq Users /\ twice \subseteq Users
  /\ won \in [Users -> Nat] /\ begun \in [Users -> Nat]

\* A slot is free or the place of one connection.
Seats ==
  /\ \A i, j \in DOMAIN free : free[i] = free[j] => i = j
  /\ \A s \in Slots : (\E i \in DOMAIN free : free[i] = s) <=> s \notin High!InUse
  /\ \A p, q \in Peers : place[p] = place[q] /\ place[p] \in Slots => p = q

\* There is something to be read in every slot of the batch, but for the one that is
\* being read.
Due(s) == \A p \in Peers : place[p] = s => unread[p] # << >> \/ p \in hungUp
Batched ==
  /\ \A i \in DOMAIN batch : batch[i] \in Slots =>
       /\ batch[i] \in High!InUse
       /\ Due(batch[i]) \/ (i = 1 /\ reading)
       /\ \A j \in DOMAIN batch : batch[j] = batch[i] => i = j
  /\ reading => batch # << >> /\ batch[1] \in Slots

\* A client whose user is logged in once has the number of games in the table.
Books ==
  /\ High!TableRight
  /\ \A s \in High!InUse : client[s].user \in Users \ twice =>
       /\ client[s].games = users[client[s].user].games
       /\ \A t \in High!InUse : client[t].user = client[s].user => t = s

HighInv == HighTypes /\ Seats /\ Batched /\ Books
-----------------------------------------------------------------------------
(***************************************************************************)
(* Sequences of all elements of a set.                                     *)
(***************************************************************************)

LEMMA SameCardinality == \A S : High!Cardinality(S) = Cardinality(S)
BY DEF High!Cardinality, Cardinality

LEMMA Enumerated ==
  ASSUME NEW S, IsFiniteSet(S), NEW f \in [1 .. Cardinality(S) -> S],
         \A i, j \in 1 .. Cardinality(S) : f[i] = f[j] => i = j
  PROVE  /\ f \in Seq(S) /\ Len(f) = Cardinality(S) /\ Len(f) \in Nat
         /\ DOMAIN f = 1 .. Len(f)
         /\ \A s \in S : \E i \in DOMAIN f : f[i] = s
<1>1. Cardinality(S) \in Nat
  BY FS_CardinalityType
<1>2. f \in Seq(S) /\ Len(f) = Cardinality(S) /\ DOMAIN f = 1 .. Cardinality(S)
  BY <1>1
<1>3. f \in Injection(1 .. Cardinality(S), S)
  BY DEF Injection, IsInjective
<1>4. 1 \in Int /\ Cardinality(S) \in Int
  BY <1>1
<1>5. Cardinality(1 .. Cardinality(S)) = Cardinality(S)
  BY <1>1, <1>4, FS_Interval
<1>6. f \in Surjection(1 .. Cardinality(S), S)
  BY <1>3, <1>5, FS_Injection
<1>7. \A s \in S : \E i \in 1 .. Cardinality(S) : f[i] = s
  BY <1>6 DEF Surjection
<1> QED BY <1>1, <1>2, <1>7

LEMMA Orders ==
  ASSUME NEW S, IsFiniteSet(S), NEW f \in High!SetToSeqs(S)
  PROVE  /\ f \in Seq(S) /\ Len(f) = Cardinality(S) /\ Len(f) \in Nat
         /\ DOMAIN f = 1 .. Len(f)
         /\ \A i, j \in DOMAIN f : f[i] = f[j] => i = j
         /\ \A s \in S : \E i \in DOMAIN f : f[i] = s
<1>1. /\ f \in [1 .. Cardinality(S) -> S]
      /\ \A i, j \in 1 .. Cardinality(S) : f[i] = f[j] => i = j
  BY SameCardinality DEF High!SetToSeqs
<1> QED BY <1>1, Enumerated

LEMMA AllInARow ==
  ASSUME NEW S, IsFiniteSet(S), NEW f, f = High!SetToSeq(S)
  PROVE  /\ f \in Seq(S) /\ DOMAIN f = 1 .. Len(f)
         /\ \A i, j \in DOMAIN f : f[i] = f[j] => i = j
         /\ \A s \in S : \E i \in DOMAIN f : f[i] = s
<1>1. ExistsBijection(1 .. Cardinality(S), S)
  BY FS_CardinalityType
<1>2. \E g \in [1 .. Cardinality(S) -> S] : High!IsInjective(g)
  BY <1>1 DEF ExistsBijection, Bijection, Injection, IsInjective, High!IsInjective
<1>3. f \in [1 .. Cardinality(S) -> S] /\ High!IsInjective(f)
  BY <1>2, SameCardinality DEF High!SetToSeq
<1>4. \A i, j \in 1 .. Cardinality(S) : f[i] = f[j] => i = j
  BY <1>3 DEF High!IsInjective
<1> QED BY <1>3, <1>4, Enumerated
-----------------------------------------------------------------------------
(***************************************************************************)
(* Slots and the batch.                                                    *)
(***************************************************************************)

LEMMA NoSlots == /\ "new" \notin Slots /\ "waiting" \notin Slots /\ "gone" \notin Slots
                 /\ High!Server \notin Slots
BY PartsAssumption DEF High!Server

LEMMA Held ==
  ASSUME HighTypes, Seats, NEW s \in High!InUse
  PROVE  /\ s \in Slots /\ High!Holder(s) \in Peers /\ place[High!Holder(s)] = s
         /\ \A p \in Peers : place[p] = s => p = High!Holder(s)
<1>1. s \in Slots /\ \E p \in Peers : place[p] = s
  BY DEF High!InUse
<1>2. High!Holder(s) \in Peers /\ place[High!Holder(s)] = s
  BY <1>1 DEF High!Holder
<1> QED BY <1>1, <1>2 DEF Seats

\* A slot has something to be read exactly if epoll_wait tells of it.
LEMMA ReadyIsDue ==
  ASSUME HighTypes, Seats, NEW s \in Slots
  PROVE  s \in High!Ready <=> s \in High!InUse /\ Due(s)
<1>1. s \in High!Ready <=>
        s \in High!InUse /\ (unread[High!Holder(s)] # << >> \/ High!Holder(s) \in hungUp)
  BY NoSlots DEF High!Ready
<1>2. ASSUME s \in High!InUse
      PROVE  Due(s) <=> unread[High!Holder(s)] # << >> \/ High!Holder(s) \in hungUp
  BY <1>2, Held DEF Due
<1> QED BY <1>1, <1>2

\* What happens to the first of the batch leaves the others due.
LEMMA NextInBatch ==
  ASSUME HighTypes, Batched, batch # << >>, batch' = Tail(batch), reading' = FALSE,
         \A s \in Slots : s \in High!InUse /\ s # batch[1] =>
                            s \in (High!InUse)' /\ (Due(s) => Due(s)')
  PROVE  Batched'
<1> PICK b : b = batch'
  OBVIOUS
<1>1. /\ b \in Seq(Slots \cup {High!Server}) /\ Len(b) = Len(batch) - 1
      /\ \A i \in 1 .. Len(b) : b[i] = batch[i + 1]
      /\ Len(batch) \in Nat /\ Len(batch) # 0
  BY HeadTailProperties, EmptySeq DEF HighTypes
<1>2. DOMAIN b = 1 .. Len(b) /\ DOMAIN batch = 1 .. Len(batch)
  BY <1>1 DEF HighTypes
<1>3. \A i \in DOMAIN b : i + 1 \in DOMAIN batch /\ i + 1 # 1 /\ i \in Int /\ b[i] = batch[i + 1]
  BY <1>1, <1>2
<1>4. 1 \in DOMAIN batch
  BY <1>1, <1>2
<1>5. ASSUME NEW i \in DOMAIN b, b[i] \in Slots
      PROVE  /\ b[i] \in (High!InUse)' /\ Due(b[i])'
             /\ \A j \in DOMAIN b : b[j] = b[i] => i = j
  <2>1. PICK s \in Slots : s = b[i] /\ s = batch[i + 1]
    BY <1>3, <1>5
  <2>2. /\ s \in High!InUse /\ Due(s)
        /\ \A j \in DOMAIN batch : batch[j] = s => i + 1 = j
    BY <1>3, <2>1 DEF Batched
  <2>3. s # batch[1]
    BY <1>3, <1>4, <2>2
  <2>4. s \in (High!InUse)' /\ Due(s)'
    BY <2>2, <2>3
  <2>5. \A j \in DOMAIN b : b[j] = b[i] => i = j
    BY <1>3, <2>1, <2>2
  <2> QED BY <2>1, <2>4, <2>5
<1> QED BY <1>5 DEF Batched

\* The end of a connection: its slot is free, and no other.
LEMMA Closed ==
  ASSUME HighTypes, Seats, NEW s \in High!InUse, High!Close(s)
  PROVE  /\ free' \in Seq(Slots) /\ place' \in [Peers -> Places]
         /\ toSend' \in [Peers -> Seq(Packets)]
         /\ \A p \in Peers : place'[p] = IF place[p] = s THEN "gone" ELSE place[p]
         /\ \A t \in Slots : t \in (High!InUse)' <=> t \in High!InUse /\ t # s
         /\ Seats'
<1> PICK h \in Peers : h = High!Holder(s) /\ place[h] = s
  BY Held
<1>1. s \in Slots /\ \A p \in Peers : place[p] = s => p = h
  BY Held
<1>2. /\ place' = [place EXCEPT ![h] = "gone"]
      /\ toSend' = [toSend EXCEPT ![h] = << >>]
      /\ free' = <<s>> \o free
  BY DEF High!Close, High!Returned
<1>3. place' \in [Peers -> Places] /\ toSend' \in [Peers -> Seq(Packets)]
  BY <1>2, EmptySeq DEF HighTypes, Places
<1>4. \A p \in Peers : place'[p] = IF place[p] = s THEN "gone" ELSE place[p]
  BY <1>1, <1>2 DEF HighTypes
<1>5. \A t \in Slots : t \in (High!InUse)' <=> t \in High!InUse /\ t # s
  BY <1>4, NoSlots DEF High!InUse
<1>6. /\ free' \in Seq(Slots) /\ Len(free') = Len(free) + 1 /\ Len(free) \in Nat
      /\ free'[1] = s
      /\ \A i \in 2 .. Len(free) + 1 : free'[i] = free[i - 1]
  <2>1. <<s>> \in Seq(Slots) /\ Len(<<s>>) = 1 /\ <<s>>[1] = s
    BY <1>1
  <2>2. free \in Seq(Slots) /\ Len(free) \in Nat
    BY DEF HighTypes
  <2> QED BY <1>2, <2>1, <2>2, ConcatProperties
<1> PICK f : f = free'
  OBVIOUS
<1>7. DOMAIN f = 1 .. Len(free) + 1 /\ DOMAIN free = 1 .. Len(free)
  BY <1>6 DEF HighTypes
<1>8. \A i \in DOMAIN f : (i = 1 /\ f[i] = s) \/ (i - 1 \in DOMAIN free /\ i \in Int /\ f[i] = free[i - 1])
  BY <1>6, <1>7
<1>9. 1 \in DOMAIN f /\ \A i \in DOMAIN free : i + 1 \in DOMAIN f /\ f[i + 1] = free[i]
  BY <1>6, <1>7
<1>10. \A i \in DOMAIN free : free[i] # s
  <2>1. (\E i \in DOMAIN free : free[i] = s) <=> s \notin High!InUse
    BY <1>1 DEF Seats
  <2> QED BY <2>1
<1>11. \A i, j \in DOMAIN f : f[i] = f[j] => i = j
  BY <1>8, <1>10 DEF Seats
<1>12. \A t \in Slots : (\E i \in DOMAIN f : f[i] = t) <=> t \notin (High!InUse)'
  <2>1. \A t \in Slots : (\E i \in DOMAIN f : f[i] = t) <=> t = s \/ \E i \in DOMAIN free : free[i] = t
    BY <1>6, <1>8, <1>9
  <2> QED BY <1>5, <2>1 DEF Seats
<1>13. \A p, q \in Peers : place'[p] = place'[q] /\ place'[p] \in Slots => p = q
  BY <1>4, NoSlots DEF Seats
<1> QED BY <1>3, <1>4, <1>5, <1>6, <1>11, <1>12, <1>13 DEF Seats

\* The table does not change, nor who is logged in.
LEMMA BooksKept ==
  ASSUME Books, (High!InUse)' \subseteq High!InUse, UNCHANGED <<client, High!dbVars>>
  PROVE  Books'
BY DEF Books, High!dbVars, High!TableRight, High!ScoreIsBest, High!GamesCounted
-----------------------------------------------------------------------------
(***************************************************************************)
(* The steps of the loop.                                                  *)
(***************************************************************************)

\* Who is where, and what there is to be read, does not change.
LEMMA Stays ==
  ASSUME HighInv, UNCHANGED <<place, unread, hungUp, free>>
  PROVE  /\ (High!InUse)' = High!InUse
         /\ \A s \in Slots : Due(s)' <=> Due(s)
         /\ Seats'
BY DEF HighInv, Seats, High!InUse, Due

LEMMA ReadyFinite == IsFiniteSet(High!Ready) /\ High!Ready \subseteq Slots \cup {High!Server}
<1>1. High!Ready \subseteq Slots \cup {High!Server}
  BY DEF High!Ready, High!InUse
<1>2. IsFiniteSet(Slots \cup {High!Server})
  BY PartsAssumption, FS_AddElement
<1> QED BY <1>1, <1>2, FS_Subset

LEMMA WaitKeeps ==
  ASSUME HighInv, High!Wait
  PROVE  HighInv'
<1> USE DEF HighInv
<1>1. batch = << >> /\ batch' \in High!SetToSeqs(High!Ready)
  BY DEF High!Wait
<1>2. UNCHANGED <<place, free, client, reading, buffer, unread, hungUp, toSend,
                  users, created, won, begun, twice>>
  BY DEF High!Wait, High!peerVars, High!dbVars
<1> PICK b : b = batch'
  OBVIOUS
<1>3. /\ b \in Seq(High!Ready) /\ DOMAIN b = 1 .. Len(b)
      /\ \A i, j \in DOMAIN b : b[i] = b[j] => i = j
  BY <1>1, ReadyFinite, Orders
<1>4. b \in Seq(Slots \cup {High!Server})
  BY <1>3, ReadyFinite
<1>5. \A i \in DOMAIN b : b[i] \in High!Ready
  BY <1>3
<1>6. ~reading
  BY <1>1 DEF Batched
<1>7. HighTypes'
  BY <1>2, <1>4 DEF HighTypes
<1>8. Seats'
  BY <1>2, Stays
<1>9. Batched'
  <2>1. ASSUME NEW i \in DOMAIN b, b[i] \in Slots
        PROVE  b[i] \in (High!InUse)' /\ Due(b[i])'
    <3>1. b[i] \in High!InUse /\ Due(b[i])
      BY <1>5, <2>1, ReadyIsDue
    <3> QED BY <1>2, <2>1, <3>1, Stays
  <2> QED BY <1>2, <1>3, <1>6, <2>1 DEF Batched
<1>10. Books'
  BY <1>2, Stays, BooksKept DEF High!dbVars
<1> QED BY <1>7, <1>8, <1>9, <1>10

LEMMA HandleClientKeeps ==
  ASSUME HighInv, High!HandleClient
  PROVE  HighInv'
<1> USE DEF HighInv
<1>1. batch # << >> /\ Head(batch) \in Slots /\ ~reading
  BY DEF High!HandleClient
<1>2. UNCHANGED <<client, hungUp, users, created, won, begun, twice>>
  BY DEF High!HandleClient, High!dbVars
<1> PICK s \in Slots : s = Head(batch)
  BY <1>1
<1>3. s = batch[1] /\ 1 \in DOMAIN batch
  BY <1>1, EmptySeq DEF HighTypes
<1>4. s \in High!InUse /\ \A j \in DOMAIN batch : batch[j] = s => j = 1
  BY <1>3 DEF Batched
<1> PICK h \in Peers : h = High!Holder(s)
  BY <1>4, Held
<1>5. place[h] = s /\ \A p \in Peers : place[p] = s => p = h
  BY <1>4, Held
<1>6. unread' = [unread EXCEPT ![h] = << >>]
  BY DEF High!HandleClient
<1>7. \A p \in Peers : p # h => unread'[p] = unread[p]
  BY <1>6 DEF HighTypes
<1>8. unread' \in [Peers -> Seq(Packets)]
  BY <1>6, EmptySeq DEF HighTypes
<1>9. CASE h \in hungUp
  <2>1. High!Close(s) /\ batch' = Tail(batch) /\ UNCHANGED <<reading, buffer>>
    BY <1>9 DEF High!HandleClient
  <2>2. /\ free' \in Seq(Slots) /\ place' \in [Peers -> Places]
        /\ toSend' \in [Peers -> Seq(Packets)]
        /\ \A p \in Peers : place'[p] = IF place[p] = s THEN "gone" ELSE place[p]
        /\ \A t \in Slots : t \in (High!InUse)' <=> t \in High!InUse /\ t # s
        /\ Seats'
    BY <1>4, <2>1, Closed
  <2>3. batch' \in Seq(Slots \cup {High!Server})
    BY <1>1, <2>1, HeadTailProperties DEF HighTypes
  <2>4. HighTypes'
    BY <1>2, <1>8, <2>1, <2>2, <2>3 DEF HighTypes
  <2>5. \A t \in Slots : t # s /\ Due(t) => Due(t)'
    BY <1>2, <1>5, <1>7, <2>2, NoSlots DEF Due
  <2>6. Batched'
    <3>1. reading' = FALSE
      BY <1>1, <2>1 DEF HighTypes
    <3>2. \A t \in Slots : t \in High!InUse /\ t # batch[1] =>
                             t \in (High!InUse)' /\ (Due(t) => Due(t)')
      BY <1>3, <2>2, <2>5
    <3> QED BY <1>1, <2>1, <3>1, <3>2, NextInBatch
  <2>7. (High!InUse)' \subseteq High!InUse
    BY <2>2 DEF High!InUse
  <2>8. Books'
    BY <1>2, <2>7, BooksKept DEF High!dbVars
  <2> QED BY <2>2, <2>4, <2>6, <2>8
<1>10. CASE h \notin hungUp
  <2>1. reading' = TRUE /\ buffer' = unread[h] /\ UNCHANGED <<place, free, batch, toSend>>
    BY <1>10 DEF High!HandleClient
  <2>2. HighTypes'
    BY <1>2, <1>8, <2>1 DEF HighTypes
  <2>3. Seats' /\ (High!InUse)' = High!InUse
    BY <2>1 DEF Seats, High!InUse
  <2>4. \A t \in Slots : t # s /\ Due(t) => Due(t)'
    BY <1>2, <1>5, <1>7, <2>1 DEF Due
  <2>5. Batched'
    <3> PICK b : b = batch /\ b = batch'
      BY <2>1
    <3>1. ASSUME NEW i \in DOMAIN b, b[i] \in Slots
          PROVE  /\ b[i] \in High!InUse
                 /\ Due(b[i])' \/ i = 1
                 /\ \A j \in DOMAIN b : b[j] = b[i] => i = j
      <4> PICK t \in Slots : t = b[i]
        BY <3>1
      <4>1. /\ t \in High!InUse /\ (Due(t) \/ i = 1)
            /\ \A j \in DOMAIN b : b[j] = t => i = j
        BY <1>1, <3>1 DEF Batched
      <4>2. t = s => i = 1
        BY <1>4
      <4>3. Due(t)' \/ i = 1
        BY <2>4, <4>1, <4>2
      <4> QED BY <4>1, <4>3
    <3>2. b # << >> /\ b[1] \in Slots
      BY <1>1, <1>3
    <3> QED BY <2>1, <2>3, <3>1, <3>2 DEF Batched
  <2>6. Books'
    BY <1>2, <2>3, BooksKept DEF High!dbVars
  <2> QED BY <2>2, <2>3, <2>5, <2>6
<1> QED BY <1>9, <1>10

\* The first k of the free slots are given away, each once.
LEMMA Seated ==
  ASSUME HighTypes, Seats, NEW k \in Nat, k <= Len(free)
  PROVE  Cardinality({free[i] : i \in 1 .. k}) = k
<1>1. Len(free) \in Nat /\ DOMAIN free = 1 .. Len(free)
  BY DEF HighTypes
<1>2. \A i \in 1 .. k : i \in DOMAIN free
  BY <1>1
<1>3. 1 \in Int /\ k \in Int
  OBVIOUS
<1>4. IsFiniteSet(1 .. k) /\ Cardinality(1 .. k) = k
  BY <1>3, FS_Interval
<1>5. PICK seated : seated = {free[i] : i \in 1 .. k}
  OBVIOUS
<1>6. PICK f : f = [i \in 1 .. k |-> free[i]]
  OBVIOUS
<1>7. f \in [1 .. k -> seated] /\ \A i \in 1 .. k : f[i] = free[i]
  BY <1>5, <1>6
<1>8. \A i, j \in 1 .. k : f[i] = f[j] => i = j
  BY <1>2, <1>7 DEF Seats
<1>9. \A s \in seated : \E i \in 1 .. k : f[i] = s
  BY <1>5, <1>7
<1>10. f \in Bijection(1 .. k, seated)
  BY <1>7, <1>8, <1>9 DEF Bijection, Injection, IsInjective, Surjection
<1>11. ExistsBijection(1 .. k, seated)
  BY <1>10 DEF ExistsBijection
<1>12. Cardinality(1 .. k) = Cardinality(seated)
  BY <1>4, <1>11, FS_Bijection
<1> QED BY <1>4, <1>5, <1>12

LEMMA HandleServerKeeps ==
  ASSUME HighInv, High!HandleServer
  PROVE  HighInv'
<1> USE DEF HighInv
<1>1. /\ batch # << >> /\ Head(batch) = High!Server /\ batch' = Tail(batch)
      /\ UNCHANGED <<reading, buffer, unread, hungUp, toSend, users, created, won, begun, twice>>
  BY DEF High!HandleServer, High!peerVars, High!dbVars
<1>2. PICK order, seated :
        /\ order \in High!SetToSeqs(High!Waiting)
        /\ seated = {free[i] : i \in 1 .. Len(order) \cap DOMAIN free}
        /\ place' = [p \in Peers |->
                       IF p \in High!Waiting
                       THEN LET i == CHOOSE i \in DOMAIN order : order[i] = p
                            IN  IF i <= Len(free) THEN free[i] ELSE "gone"
                       ELSE place[p]]
        /\ client' = [s \in Slots |-> IF s \in seated THEN High!Fresh ELSE client[s]]
        /\ free' = SubSeq(free, High!Cardinality(seated) + 1, Len(free))
  BY DEF High!HandleServer
<1>3. High!Waiting \subseteq Peers /\ IsFiniteSet(High!Waiting)
  <2>1. High!Waiting \subseteq Peers
    BY DEF High!Waiting
  <2> QED BY <2>1, PartsAssumption, FS_Subset
<1>4. /\ order \in Seq(High!Waiting) /\ Len(order) \in Nat /\ DOMAIN order = 1 .. Len(order)
      /\ \A i, j \in DOMAIN order : order[i] = order[j] => i = j
      /\ \A p \in High!Waiting : \E i \in DOMAIN order : order[i] = p
  BY <1>2, <1>3, Orders
<1>5. Len(free) \in Nat /\ DOMAIN free = 1 .. Len(free) /\ free \in Seq(Slots)
  BY DEF HighTypes
<1>6. PICK k \in Nat : k <= Len(order) /\ k <= Len(free) /\ (Len(order) <= k \/ Len(free) <= k)
  <2>1. Len(order) <= Len(free) \/ Len(free) <= Len(order)
    BY <1>4, <1>5
  <2>2. \A a, b \in Nat : a <= b \/ b <= a => \E k \in Nat : k <= a /\ k <= b /\ (a <= k \/ b <= k)
    OBVIOUS
  <2> QED BY <1>4, <1>5, <2>1, <2>2
<1>7. 1 .. Len(order) \cap DOMAIN free = 1 .. k
  <2>1. \A i : i \in 1 .. Len(order) /\ i \in 1 .. Len(free) <=> i \in 1 .. k
    BY <1>4, <1>5, <1>6
  <2> QED BY <1>5, <2>1
<1>8. /\ seated = {free[i] : i \in 1 .. k} /\ High!Cardinality(seated) = k
      /\ free' = SubSeq(free, k + 1, Len(free))
  <2>1. seated = {free[i] : i \in 1 .. k}
    BY <1>2, <1>7
  <2>2. High!Cardinality(seated) = k
    BY <1>6, <2>1, Seated, SameCardinality
  <2> QED BY <1>2, <2>1, <2>2
<1> DEFINE Turn(p) == CHOOSE i \in DOMAIN order : order[i] = p
<1>9. \A p \in High!Waiting : Turn(p) \in DOMAIN order /\ order[Turn(p)] = p
  BY <1>4
<1>10. \A p \in High!Waiting : place'[p] = IF Turn(p) <= Len(free) THEN free[Turn(p)] ELSE "gone"
  BY <1>2, <1>3
<1> HIDE DEF Turn
<1>11. \A p \in Peers : p \notin High!Waiting => place'[p] = place[p]
  BY <1>2
<1>12. \A p \in High!Waiting :
         \/ Turn(p) \in 1 .. k /\ Turn(p) \in DOMAIN free /\ place'[p] = free[Turn(p)]
         \/ place'[p] = "gone"
  BY <1>4, <1>5, <1>6, <1>9, <1>10
<1>13. \A s \in seated : /\ s \in Slots /\ s \notin High!InUse
                         /\ \E i \in 1 .. k : i \in DOMAIN free /\ s = free[i]
  <2>1. \A i \in 1 .. k : i \in DOMAIN free
    BY <1>5, <1>6
  <2>2. \A s \in seated : s \in Slots /\ \E i \in 1 .. k : i \in DOMAIN free /\ s = free[i]
    BY <1>5, <1>8, <2>1
  <2>3. \A s \in Slots : (\E i \in DOMAIN free : s = free[i]) => s \notin High!InUse
    BY DEF Seats
  <2> QED BY <2>2, <2>3
<1>14. \A p \in High!Waiting : place'[p] \in seated \/ place'[p] = "gone"
  BY <1>8, <1>12
<1>15. \A p \in Peers : place[p] \in Slots => p \notin High!Waiting /\ place[p] \in High!InUse
  BY NoSlots DEF High!Waiting, High!InUse
<1>16. \A s \in seated : \E p \in Peers : place'[p] = s
  <2>1. SUFFICES ASSUME NEW s \in seated
                 PROVE  \E p \in Peers : place'[p] = s
    OBVIOUS
  <2>2. PICK i \in 1 .. k : i \in DOMAIN free /\ s = free[i]
    BY <1>13
  <2>3. i \in DOMAIN order /\ i <= Len(free)
    BY <1>4, <1>5, <1>6
  <2>4. order[i] \in High!Waiting
    BY <1>4, <2>3
  <2>5. Turn(order[i]) = i
    BY <1>4, <1>9, <2>3, <2>4
  <2>6. place'[order[i]] = s
    BY <1>10, <2>2, <2>3, <2>4, <2>5
  <2> QED BY <1>3, <2>4, <2>6
<1>17. \A s \in Slots : s \in (High!InUse)' <=> s \in High!InUse \/ s \in seated
  <2>1. \A s \in Slots : s \in (High!InUse)' <=> \E p \in Peers : place'[p] = s
    BY DEF High!InUse
  <2>2. \A s \in Slots : s \in High!InUse <=> \E p \in Peers : place[p] = s
    BY DEF High!InUse
  <2>3. \A s \in Slots : s \in High!InUse => \E p \in Peers : place'[p] = s
    BY <1>11, <1>15, <2>2
  <2>4. \A s \in Slots, p \in Peers : place'[p] = s => s \in High!InUse \/ s \in seated
    BY <1>11, <1>14, <2>2, NoSlots
  <2> QED BY <1>16, <2>1, <2>3, <2>4
<1>18. /\ free' \in Seq(Slots) /\ Len(free') = Len(free) - k
       /\ \A i \in 1 .. Len(free) - k : free'[i] = free[i + k]
  <2>1. \A i \in k + 1 .. Len(free) : i \in DOMAIN free /\ free[i] \in Slots
    BY <1>5, <1>6
  <2>2. k + 1 \in Int /\ Len(free) \in Int /\ k + 1 <= Len(free) + 1
    BY <1>5, <1>6
  <2>3. /\ free' \in Seq(Slots)
        /\ Len(free') = (IF k + 1 <= Len(free) THEN Len(free) - (k + 1) + 1 ELSE 0)
        /\ \A i \in 1 .. Len(free) - (k + 1) + 1 : free'[i] = free[k + 1 + i - 1]
    BY <1>5, <1>8, <2>1, <2>2
  <2>4. Len(free') = Len(free) - k
    <3>1. CASE k + 1 <= Len(free)
      BY <1>5, <2>3, <3>1
    <3>2. CASE ~(k + 1 <= Len(free))
      <4>1. Len(free') = 0
        BY <2>3, <3>2
      <4>2. \A n \in Nat : k <= n /\ ~(k + 1 <= n) => n - k = 0
        OBVIOUS
      <4> QED BY <1>5, <1>6, <3>2, <4>1, <4>2
    <3> QED BY <3>1, <3>2
  <2>5. ASSUME NEW i \in 1 .. Len(free) - k
        PROVE  free'[i] = free[i + k]
    <3>1. i \in 1 .. Len(free) - (k + 1) + 1 /\ k + 1 + i - 1 = i + k
      BY <1>5, <2>5
    <3> QED BY <2>3, <3>1
  <2> QED BY <2>3, <2>4, <2>5
<1>19. PICK f : f = free'
  OBVIOUS
<1>20. /\ DOMAIN f = 1 .. Len(free) - k
       /\ \A i \in DOMAIN f : i + k \in DOMAIN free /\ i + k \notin 1 .. k /\ f[i] = free[i + k] /\ i \in Int
       /\ \A i \in DOMAIN free : i \notin 1 .. k => i - k \in DOMAIN f /\ f[i - k] = free[i]
  <2>1. DOMAIN f = 1 .. Len(free) - k /\ \A i \in DOMAIN f : f[i] = free[i + k]
    BY <1>18, <1>19
  <2>2. \A i \in DOMAIN f : i + k \in DOMAIN free /\ i + k \notin 1 .. k /\ i \in Int
    BY <1>5, <1>6, <2>1
  <2>3. \A i \in DOMAIN free : i \notin 1 .. k => i - k \in DOMAIN f /\ (i - k) + k = i
    BY <1>5, <1>6, <2>1
  <2> QED BY <2>1, <2>2, <2>3
<1>21. place' \in [Peers -> Places]
  <2>1. \A p \in Peers : place'[p] \in Places
    BY <1>11, <1>13, <1>14 DEF HighTypes, Places
  <2> QED BY <1>2, <2>1
<1>22. client' \in [Slots -> [user : Users \cup {NoUser}, games : Nat, round : Nat,
                              playing : BOOLEAN, closing : BOOLEAN]]
  BY <1>2 DEF HighTypes, High!Fresh
<1>23. batch' \in Seq(Slots \cup {High!Server})
  BY <1>1, HeadTailProperties DEF HighTypes
<1>24. HighTypes'
  BY <1>1, <1>18, <1>21, <1>22, <1>23 DEF HighTypes
<1>25. Seats'
  <2>1. \A i, j \in DOMAIN f : f[i] = f[j] => i = j
    <3>1. \A i, j \in DOMAIN f : f[i] = f[j] => i + k = j + k
      BY <1>20 DEF Seats
    <3> QED BY <1>20, <3>1
  <2>2. ASSUME NEW s \in Slots
        PROVE  (\E i \in DOMAIN f : f[i] = s) <=> s \notin (High!InUse)'
    <3>1. (\E i \in DOMAIN f : f[i] = s) <=> \E i \in DOMAIN free : i \notin 1 .. k /\ free[i] = s
      BY <1>20
    <3>2. (\E i \in DOMAIN free : free[i] = s) <=> s \notin High!InUse
      BY DEF Seats
    <3>3. s \in seated <=> \E i \in DOMAIN free : i \in 1 .. k /\ free[i] = s
      BY <1>8, <1>13
    <3>4. \A i, j \in DOMAIN free : free[i] = s /\ free[j] = s => i = j
      BY DEF Seats
    <3> QED BY <1>17, <3>1, <3>2, <3>3, <3>4
  <2>3. ASSUME NEW p \in Peers, NEW q \in Peers, place'[p] = place'[q], place'[p] \in Slots
        PROVE  p = q
    <3>1. CASE p \in High!Waiting /\ q \in High!Waiting
      <4>1. /\ Turn(p) \in DOMAIN free /\ place'[p] = free[Turn(p)]
            /\ Turn(q) \in DOMAIN free /\ place'[q] = free[Turn(q)]
        BY <1>12, <2>3, <3>1, NoSlots
      <4>2. Turn(p) = Turn(q)
        BY <2>3, <4>1 DEF Seats
      <4> QED BY <1>9, <3>1, <4>2
    <3>2. CASE p \notin High!Waiting /\ q \notin High!Waiting
      BY <1>11, <2>3, <3>2 DEF Seats
    <3>3. ASSUME NEW x \in Peers, NEW y \in Peers, place'[x] = place'[y], place'[x] \in Slots,
                 x \in High!Waiting, y \notin High!Waiting
          PROVE  FALSE
      <4>1. place'[x] \in seated
        BY <1>14, <3>3, NoSlots
      <4>2. place'[y] \in High!InUse
        BY <1>11, <1>15, <3>3
      <4> QED BY <1>13, <3>3, <4>1, <4>2
    <3>4. ~(p \in High!Waiting /\ q \notin High!Waiting) /\ ~(q \in High!Waiting /\ p \notin High!Waiting)
      BY <2>3, <3>3
    <3> QED BY <3>1, <3>2, <3>4
  <2> QED BY <1>19, <2>1, <2>2, <2>3 DEF Seats
<1>26. Batched'
  <2>1. batch[1] = High!Server /\ 1 \in DOMAIN batch
    BY <1>1, EmptySeq DEF HighTypes
  <2>2. reading' = FALSE
    BY <1>1, <2>1, NoSlots DEF HighTypes, Batched
  <2>3. ASSUME NEW s \in Slots, s \in High!InUse, Due(s)
        PROVE  Due(s)'
    <3>1. \A p \in Peers : place'[p] = s => place[p] = s
      BY <1>11, <1>13, <1>14, <2>3, NoSlots
    <3> QED BY <1>1, <2>3, <3>1 DEF Due
  <2>4. \A s \in Slots : s \in High!InUse /\ s # batch[1] =>
                           s \in (High!InUse)' /\ (Due(s) => Due(s)')
    BY <1>17, <2>3
  <2> QED BY <1>1, <2>2, <2>4, NextInBatch
<1>27. Books'
  <2>1. \A s \in (High!InUse)' : client'[s].user \in Users => s \in High!InUse /\ client'[s] = client[s]
    <3>1. \A s \in (High!InUse)' : s \in Slots
      BY DEF High!InUse
    <3>2. High!Fresh.user \notin Users
      BY PartsAssumption DEF High!Fresh
    <3>3. \A s \in Slots : client'[s] = IF s \in seated THEN High!Fresh ELSE client[s]
      BY <1>2
    <3> QED BY <1>17, <3>1, <3>2, <3>3
  <2>2. High!TableRight'
    BY <1>1 DEF Books, High!TableRight, High!ScoreIsBest, High!GamesCounted
  <2>3. ASSUME NEW s \in (High!InUse)', client'[s].user \in Users' \ twice'
        PROVE  /\ client'[s].games = users'[client'[s].user].games
               /\ \A t \in (High!InUse)' : client'[t].user = client'[s].user => t = s
    <3>1. s \in High!InUse /\ client'[s] = client[s] /\ client[s].user \in Users \ twice
      BY <1>1, <2>1, <2>3
    <3>2. /\ client[s].games = users[client[s].user].games
          /\ \A t \in High!InUse : client[t].user = client[s].user => t = s
      BY <3>1 DEF Books
    <3> QED BY <1>1, <2>1, <3>1, <3>2
  <2> QED BY <2>2, <2>3 DEF Books
<1> QED BY <1>24, <1>25, <1>26, <1>27
-----------------------------------------------------------------------------
(***************************************************************************)
(* The packets.                                                            *)
(***************************************************************************)

Clients == [user : Users \cup {NoUser}, games : Nat, round : Nat,
            playing : BOOLEAN, closing : BOOLEAN]

LEMMA PacketStep ==
  ASSUME HighInv, NEW s \in Slots, NEW type, High!Packet(s, type)
  PROVE  /\ s \in High!InUse
         /\ Head(buffer) \in Packets /\ Head(buffer).type = type
         /\ buffer' \in Seq(Packets)
         /\ UNCHANGED <<place, free, batch, reading, unread, hungUp, toSend>>
         /\ (High!InUse)' = High!InUse /\ Seats' /\ Batched'
<1> USE DEF HighInv
<1>1. /\ reading /\ s = Head(batch) /\ buffer # << >> /\ Head(buffer).type = type
      /\ buffer' = Tail(buffer)
      /\ UNCHANGED <<place, free, batch, reading, unread, hungUp, toSend>>
  BY DEF High!Packet, High!peerVars
<1>2. batch # << >>
  BY <1>1 DEF Batched
<1>3. s = batch[1] /\ 1 \in DOMAIN batch
  BY <1>1, <1>2, EmptySeq DEF HighTypes
<1>4. s \in High!InUse
  BY <1>3 DEF Batched
<1>5. Head(buffer) \in Packets /\ buffer' \in Seq(Packets)
  BY <1>1, HeadTailProperties DEF HighTypes
<1>6. (High!InUse)' = High!InUse /\ Seats' /\ \A t \in Slots : Due(t)' <=> Due(t)
  BY <1>1, Stays
<1>7. Batched'
  <2>1. PICK b : b = batch /\ b = batch'
    BY <1>1
  <2>2. ASSUME NEW i \in DOMAIN b, b[i] \in Slots
        PROVE  /\ b[i] \in High!InUse
               /\ Due(b[i])' \/ (i = 1 /\ reading)
               /\ \A j \in DOMAIN b : b[j] = b[i] => i = j
    BY <1>6, <2>1, <2>2 DEF Batched
  <2> QED BY <1>1, <1>6, <2>1, <2>2 DEF Batched
<1> QED BY <1>1, <1>4, <1>5, <1>6, <1>7

LEMMA HandleAuthKeeps ==
  ASSUME HighInv, NEW s \in Slots, High!HandleAuth(s)
  PROVE  HighInv'
<1> USE DEF HighInv
<1>1. High!Packet(s, "auth")
  BY DEF High!HandleAuth
<1>2. /\ s \in High!InUse
      /\ Head(buffer) \in Packets /\ Head(buffer).type = "auth"
      /\ buffer' \in Seq(Packets)
      /\ UNCHANGED <<place, free, batch, reading, unread, hungUp, toSend>>
      /\ (High!InUse)' = High!InUse /\ Seats' /\ Batched'
  BY <1>1, PacketStep
<1>3. PICK u \in Users : u = Head(buffer).user
  BY <1>2 DEF Packets
<1>4. UNCHANGED <<users, won, begun>>
  BY DEF High!HandleAuth
<1>5. CASE client' = [client EXCEPT ![s].user = NoUser, ![s].closing = TRUE]
           /\ UNCHANGED <<created, twice>>
  <2>1. client' \in [Slots -> Clients]
    BY <1>5 DEF HighTypes, Clients
  <2>2. HighTypes'
    BY <1>2, <1>4, <1>5, <2>1 DEF HighTypes, Clients
  <2>3. \A t \in High!InUse : client'[t].user \in Users => client'[t] = client[t]
    BY <1>5, PartsAssumption DEF HighTypes, High!InUse
  <2>4. High!TableRight'
    BY <1>4, <1>5 DEF Books, High!TableRight, High!ScoreIsBest, High!GamesCounted
  <2>5. ASSUME NEW t \in High!InUse, client'[t].user \in Users \ twice
        PROVE  /\ client'[t].games = users[client'[t].user].games
               /\ \A r \in High!InUse : client'[r].user = client'[t].user => r = t
    <3>1. client'[t] = client[t] /\ client[t].user \in Users \ twice
      BY <2>3, <2>5
    <3>2. /\ client[t].games = users[client[t].user].games
          /\ \A r \in High!InUse : client[r].user = client[t].user => r = t
      BY <3>1 DEF Books
    <3> QED BY <2>3, <3>1, <3>2
  <2>6. Books'
    BY <1>2, <1>4, <1>5, <2>4, <2>5 DEF Books
  <2> QED BY <1>2, <2>2, <2>6
<1>6. CASE /\ client' = [client EXCEPT ![s].user = u, ![s].games = users[u].games]
           /\ created' = created \cup {u}
           /\ twice' = twice \cup ({u} \cap High!Elsewhere(s))
  <2>1. client' \in [Slots -> Clients]
    <3>1. users[u].games \in Nat /\ client \in [Slots -> Clients]
      BY <1>3 DEF HighTypes, Clients
    <3>2. [client[s] EXCEPT !.user = u, !.games = users[u].games] \in Clients
      BY <1>3, <3>1 DEF Clients
    <3>3. client' = [client EXCEPT ![s] = [client[s] EXCEPT !.user = u, !.games = users[u].games]]
      BY <1>6, <3>1
    <3> QED BY <3>1, <3>2, <3>3
  <2>2. created' \subseteq Users /\ twice' \subseteq Users
    BY <1>3, <1>6 DEF HighTypes
  <2>3. HighTypes'
    BY <1>2, <1>4, <2>1, <2>2 DEF HighTypes, Clients
  <2>4. /\ \A t \in Slots : t # s => client'[t] = client[t]
        /\ client'[s].user = u /\ client'[s].games = users[u].games
    BY <1>3, <1>6 DEF HighTypes
  <2>5. \A t \in High!InUse : t \in Slots
    BY DEF High!InUse
  <2>6. u \notin twice' => \A t \in High!InUse : t # s => client[t].user # u
    BY <1>6 DEF High!Elsewhere
  <2>7. High!TableRight'
    BY <1>4, <1>6 DEF Books, High!TableRight, High!ScoreIsBest, High!GamesCounted
  <2>8. ASSUME NEW t \in High!InUse, client'[t].user \in Users \ twice'
        PROVE  /\ client'[t].games = users[client'[t].user].games
               /\ \A r \in High!InUse : client'[r].user = client'[t].user => r = t
    <3>1. CASE t = s
      BY <2>4, <2>5, <2>6, <2>8, <3>1
    <3>2. CASE t # s
      <4>1. client'[t] = client[t] /\ client[t].user \in Users \ twice
        <5>1. twice \subseteq twice'
          BY <1>6
        <5>2. client'[t] = client[t]
          BY <2>4, <2>5, <3>2
        <5> QED BY <2>8, <5>1, <5>2
      <4>2. /\ client[t].games = users[client[t].user].games
            /\ \A r \in High!InUse : client[r].user = client[t].user => r = t
        BY <4>1 DEF Books
      <4>3. client[t].user # u
        BY <2>6, <2>8, <3>2, <4>1
      <4> QED BY <2>4, <2>5, <4>1, <4>2, <4>3
    <3> QED BY <3>1, <3>2
  <2>9. Books'
    BY <1>2, <1>4, <2>7, <2>8 DEF Books
  <2> QED BY <1>2, <2>3, <2>9
<1> QED BY <1>3, <1>5, <1>6 DEF High!HandleAuth

LEMMA HandleNewGameKeeps ==
  ASSUME HighInv, NEW s \in Slots, High!HandleNewGame(s)
  PROVE  HighInv'
<1> USE DEF HighInv
<1>1. High!Packet(s, "new_game")
  BY DEF High!HandleNewGame
<1>2. /\ s \in High!InUse
      /\ buffer' \in Seq(Packets)
      /\ UNCHANGED <<place, free, batch, reading, unread, hungUp, toSend>>
      /\ (High!InUse)' = High!InUse /\ Seats' /\ Batched'
  BY <1>1, PacketStep
<1>3. PICK u \in Users : u = client[s].user
  BY DEF High!HandleNewGame, High!IsAuthenticated, HighTypes
<1>4. PICK games \in Nat : games = client[s].games + 1
  BY DEF HighTypes
<1>5. /\ client' = [client EXCEPT ![s].games = games, ![s].playing = TRUE, ![s].round = 1]
      /\ users' = [users EXCEPT ![u].games = games]
      /\ begun' = [begun EXCEPT ![u] = @ + 1]
      /\ UNCHANGED <<created, won, twice>>
  BY <1>3, <1>4 DEF High!HandleNewGame, High!StoredGames
<1>6. HighTypes'
  <2>1. client' \in [Slots -> Clients]
    <3>1. client \in [Slots -> Clients]
      BY DEF HighTypes, Clients
    <3>2. [client[s] EXCEPT !.games = games, !.playing = TRUE, !.round = 1] \in Clients
      BY <3>1 DEF Clients
    <3>3. client' = [client EXCEPT ![s] = [client[s] EXCEPT !.games = games, !.playing = TRUE, !.round = 1]]
      BY <1>5, <3>1
    <3> QED BY <3>1, <3>2, <3>3
  <2>2. users' \in [Users -> [score : Nat, games : Nat]]
    <3>1. users \in [Users -> [score : Nat, games : Nat]]
      BY DEF HighTypes
    <3>2. [users[u] EXCEPT !.games = games] \in [score : Nat, games : Nat]
      BY <3>1
    <3>3. users' = [users EXCEPT ![u] = [users[u] EXCEPT !.games = games]]
      BY <1>5, <3>1
    <3> QED BY <3>1, <3>2, <3>3
  <2>3. begun' \in [Users -> Nat]
    BY <1>5 DEF HighTypes
  <2> QED BY <1>2, <1>5, <2>1, <2>2, <2>3 DEF HighTypes, Clients
<1>7. /\ \A t \in Slots : t # s => client'[t] = client[t]
      /\ client'[s].user = u /\ client'[s].games = games
  BY <1>3, <1>5 DEF HighTypes
<1>8. /\ \A v \in Users : v # u => users'[v] = users[v] /\ begun'[v] = begun[v]
      /\ users'[u].games = games /\ users'[u].score = users[u].score
      /\ begun'[u] = begun[u] + 1
  BY <1>5 DEF HighTypes
<1>9. \A t \in High!InUse : t \in Slots
  BY DEF High!InUse
<1>10. u \notin twice => /\ users[u].games = begun[u] /\ client[s].games = users[u].games
                         /\ \A r \in High!InUse : client[r].user = u => r = s
  BY <1>2, <1>3 DEF Books, High!TableRight, High!GamesCounted
<1>11. High!TableRight'
  <2>1. \A v \in Users : users'[v].score = won'[v]
    BY <1>5, <1>8 DEF Books, High!TableRight, High!ScoreIsBest
  <2>2. \A v \in Users : v \notin twice => users'[v].games = begun'[v]
    BY <1>4, <1>8, <1>10 DEF Books, High!TableRight, High!GamesCounted
  <2> QED BY <1>5, <2>1, <2>2 DEF High!TableRight, High!ScoreIsBest, High!GamesCounted
<1>12. ASSUME NEW t \in High!InUse, client'[t].user \in Users \ twice
       PROVE  /\ client'[t].games = users'[client'[t].user].games
              /\ \A r \in High!InUse : client'[r].user = client'[t].user => r = t
  <2>1. \A r \in High!InUse : client'[r].user = client[r].user
    BY <1>3, <1>7, <1>9
  <2>2. /\ client[t].games = users[client[t].user].games
        /\ \A r \in High!InUse : client[r].user = client[t].user => r = t
    BY <1>12, <2>1 DEF Books
  <2>3. CASE t = s
    BY <1>7, <1>8, <2>1, <2>2, <2>3
  <2>4. CASE t # s
    <3>1. client'[t] = client[t] /\ client[t].user # u
      BY <1>2, <1>3, <1>7, <1>9, <2>2, <2>4
    <3> QED BY <1>8, <1>12, <2>1, <2>2, <3>1
  <2> QED BY <2>3, <2>4
<1>13. Books'
  BY <1>2, <1>5, <1>11, <1>12 DEF Books
<1> QED BY <1>2, <1>6, <1>13

LEMMA HandleGuessKeeps ==
  ASSUME HighInv, NEW s \in Slots, High!HandleGuess(s)
  PROVE  HighInv'
<1> USE DEF HighInv
<1>1. High!Packet(s, "guess")
  BY DEF High!HandleGuess
<1>2. /\ s \in High!InUse
      /\ buffer' \in Seq(Packets)
      /\ UNCHANGED <<place, free, batch, reading, unread, hungUp, toSend>>
      /\ (High!InUse)' = High!InUse /\ Seats' /\ Batched'
  BY <1>1, PacketStep
<1>3. PICK u \in Users : u = client[s].user
  BY DEF High!HandleGuess, High!IsAuthenticated, HighTypes
<1>4. PICK round \in Nat : round = client[s].round + 1
  BY DEF HighTypes
<1>5. UNCHANGED <<created, begun, twice>>
  BY DEF High!HandleGuess
<1>6. \A t \in High!InUse : t \in Slots
  BY DEF High!InUse
<1>7. CASE client' = [client EXCEPT ![s].playing = FALSE] /\ UNCHANGED <<users, won>>
  <2>1. client' \in [Slots -> Clients]
    BY <1>7 DEF HighTypes, Clients
  <2>2. HighTypes'
    BY <1>2, <1>5, <1>7, <2>1 DEF HighTypes, Clients
  <2>3. \A t \in High!InUse : client'[t].user = client[t].user /\ client'[t].games = client[t].games
    BY <1>6, <1>7 DEF HighTypes
  <2>4. Books'
    BY <1>2, <1>5, <1>7, <2>3 DEF Books, High!TableRight, High!ScoreIsBest, High!GamesCounted
  <2> QED BY <1>2, <2>2, <2>4
<1>8. CASE /\ client' = [client EXCEPT ![s].round = round]
           /\ users' = [users EXCEPT ![u].score = High!BetterScore(@, round)]
           /\ won' = [won EXCEPT ![u] = IF round > @ THEN round ELSE @]
  <2>1. client' \in [Slots -> Clients]
    BY <1>4, <1>8 DEF HighTypes, Clients
  <2>2. users' \in [Users -> [score : Nat, games : Nat]] /\ won' \in [Users -> Nat]
    BY <1>4, <1>8 DEF HighTypes, High!BetterScore
  <2>3. HighTypes'
    BY <1>2, <1>5, <2>1, <2>2 DEF HighTypes, Clients
  <2>4. \A t \in High!InUse : client'[t].user = client[t].user /\ client'[t].games = client[t].games
    BY <1>6, <1>8 DEF HighTypes
  <2>5. \A v \in Users : users'[v].games = users[v].games
    BY <1>8 DEF HighTypes
  <2>6. \A v \in Users : users'[v].score = won'[v]
    <3>1. \A v \in Users : users[v].score = won[v] /\ won[v] \in Nat
      BY DEF Books, High!TableRight, High!ScoreIsBest, HighTypes
    <3>2. \A v \in Users : v # u => users'[v] = users[v] /\ won'[v] = won[v]
      BY <1>8 DEF HighTypes
    <3>3. /\ users'[u].score = High!BetterScore(users[u].score, round)
          /\ won'[u] = IF round > won[u] THEN round ELSE won[u]
      BY <1>8 DEF HighTypes
    <3>4. users'[u].score = won'[u]
      BY <1>4, <3>1, <3>3 DEF High!BetterScore
    <3> QED BY <3>1, <3>2, <3>4
  <2>7. High!TableRight'
    BY <1>5, <2>5, <2>6 DEF Books, High!TableRight, High!ScoreIsBest, High!GamesCounted
  <2>8. Books'
    BY <1>2, <1>5, <2>4, <2>5, <2>7 DEF Books
  <2> QED BY <1>2, <2>3, <2>8
<1> QED BY <1>3, <1>4, <1>7, <1>8 DEF High!HandleGuess

LEMMA HandleDummyKeeps ==
  ASSUME HighInv, NEW s \in Slots, High!HandleDummy(s)
  PROVE  HighInv'
<1> USE DEF HighInv
<1>1. /\ High!Packet(s, "dummy") /\ client' = [client EXCEPT ![s].closing = TRUE]
      /\ UNCHANGED <<users, created, won, begun, twice>>
  BY DEF High!HandleDummy, High!dbVars
<1>2. /\ buffer' \in Seq(Packets)
      /\ UNCHANGED <<place, free, batch, reading, unread, hungUp, toSend>>
      /\ (High!InUse)' = High!InUse /\ Seats' /\ Batched'
  BY <1>1, PacketStep
<1>3. client' \in [Slots -> Clients]
  BY <1>1 DEF HighTypes, Clients
<1>4. HighTypes'
  BY <1>1, <1>2, <1>3 DEF HighTypes, Clients
<1>5. \A t \in High!InUse : client'[t].user = client[t].user /\ client'[t].games = client[t].games
  BY <1>1 DEF HighTypes, High!InUse
<1>6. Books'
  BY <1>1, <1>2, <1>5 DEF Books, High!TableRight, High!ScoreIsBest, High!GamesCounted
<1> QED BY <1>2, <1>4, <1>6

LEMMA IgnoreKeeps ==
  ASSUME HighInv, NEW s \in Slots, NEW type, High!Ignore(s, type)
  PROVE  HighInv'
<1> USE DEF HighInv
<1>1. High!Packet(s, type) /\ UNCHANGED <<client, users, created, won, begun, twice>>
  BY DEF High!Ignore, High!dbVars
<1>2. /\ buffer' \in Seq(Packets)
      /\ UNCHANGED <<place, free, batch, reading, unread, hungUp, toSend>>
      /\ (High!InUse)' = High!InUse /\ Seats' /\ Batched'
  BY <1>1, PacketStep
<1>3. HighTypes'
  BY <1>1, <1>2 DEF HighTypes
<1>4. Books'
  BY <1>1, <1>2, BooksKept DEF High!dbVars
<1> QED BY <1>2, <1>3, <1>4
-----------------------------------------------------------------------------
(***************************************************************************)
(* The end of a client, of the process, and what the peers do.             *)
(***************************************************************************)

LEMMA HandledKeeps ==
  ASSUME HighInv, High!Handled
  PROVE  HighInv'
<1> USE DEF HighInv
<1>1. /\ reading /\ reading' = FALSE /\ batch' = Tail(batch)
      /\ UNCHANGED <<client, buffer, unread, hungUp, users, created, won, begun, twice>>
  BY DEF High!Handled, High!dbVars
<1>2. batch # << >> /\ batch[1] \in Slots
  BY <1>1 DEF Batched
<1>3. 1 \in DOMAIN batch /\ Head(batch) = batch[1]
  BY <1>2, EmptySeq DEF HighTypes
<1>4. PICK s \in Slots : s = batch[1] /\ s \in High!InUse
  BY <1>2, <1>3 DEF Batched
<1>5. batch' \in Seq(Slots \cup {High!Server})
  BY <1>1, <1>2, HeadTailProperties DEF HighTypes
<1>6. CASE High!Close(s)
  <2>1. /\ free' \in Seq(Slots) /\ place' \in [Peers -> Places]
        /\ toSend' \in [Peers -> Seq(Packets)]
        /\ \A p \in Peers : place'[p] = IF place[p] = s THEN "gone" ELSE place[p]
        /\ \A t \in Slots : t \in (High!InUse)' <=> t \in High!InUse /\ t # s
        /\ Seats'
    BY <1>4, <1>6, Closed
  <2>2. HighTypes'
    BY <1>1, <1>5, <2>1 DEF HighTypes
  <2>3. \A t \in Slots : t # s /\ Due(t) => Due(t)'
    BY <1>1, <2>1, NoSlots DEF Due
  <2>4. \A t \in Slots : t \in High!InUse /\ t # batch[1] =>
                           t \in (High!InUse)' /\ (Due(t) => Due(t)')
    BY <1>4, <2>1, <2>3
  <2>5. Batched'
    BY <1>1, <1>2, <2>4, NextInBatch
  <2>6. (High!InUse)' \subseteq High!InUse
    BY <2>1 DEF High!InUse
  <2>7. Books'
    BY <1>1, <2>6, BooksKept DEF High!dbVars
  <2> QED BY <2>1, <2>2, <2>5, <2>7
<1>7. CASE UNCHANGED <<place, free, toSend>>
  <2>1. /\ (High!InUse)' = High!InUse /\ Seats'
        /\ \A t \in Slots : Due(t)' <=> Due(t)
    BY <1>1, <1>7, Stays
  <2>2. HighTypes'
    BY <1>1, <1>5, <1>7 DEF HighTypes
  <2>3. Batched'
    BY <1>1, <1>2, <2>1, NextInBatch
  <2>4. Books'
    BY <1>1, <2>1, BooksKept DEF High!dbVars
  <2> QED BY <2>1, <2>2, <2>3, <2>4
<1> QED BY <1>3, <1>4, <1>6, <1>7 DEF High!Handled

\* The list of free clients when the process starts.
LEMMA AllFree ==
  ASSUME NEW f, f = High!SetToSeq(Slots)
  PROVE  /\ f \in Seq(Slots)
         /\ \A i, j \in DOMAIN f : f[i] = f[j] => i = j
         /\ \A s \in Slots : \E i \in DOMAIN f : f[i] = s
BY PartsAssumption, AllInARow

LEMMA RestartKeeps ==
  ASSUME HighInv, High!Restart
  PROVE  HighInv'
<1> USE DEF HighInv
<1>1. /\ client' = [s \in Slots |-> High!Fresh]
      /\ batch' = << >> /\ reading' = FALSE /\ buffer' = << >>
      /\ place' = [p \in Peers |-> IF place[p] = "new" THEN "new" ELSE "gone"]
      /\ unread' = [p \in Peers |-> << >>]
      /\ toSend' = [p \in Peers |-> IF place[p] = "new" THEN toSend[p] ELSE << >>]
      /\ UNCHANGED <<hungUp, users, created, won, begun, twice>>
  BY DEF High!Restart, High!dbVars
<1>2. /\ free' \in Seq(Slots)
      /\ \A i, j \in DOMAIN free' : free'[i] = free'[j] => i = j
      /\ \A s \in Slots : \E i \in DOMAIN free' : free'[i] = s
  BY AllFree DEF High!Restart
<1>3. HighTypes'
  <2>1. client' \in [Slots -> Clients]
    BY <1>1 DEF High!Fresh, Clients
  <2>2. place' \in [Peers -> Places]
    BY <1>1 DEF Places
  <2>3. unread' \in [Peers -> Seq(Packets)] /\ toSend' \in [Peers -> Seq(Packets)]
    BY <1>1, EmptySeq DEF HighTypes
  <2>4. batch' \in Seq(Slots \cup {High!Server}) /\ buffer' \in Seq(Packets)
    BY <1>1, EmptySeq
  <2> QED BY <1>1, <1>2, <2>1, <2>2, <2>3, <2>4 DEF HighTypes, Clients
<1>4. \A p \in Peers : place'[p] \notin Slots
  BY <1>1, NoSlots
<1>5. (High!InUse)' = {}
  BY <1>4 DEF High!InUse
<1>6. Seats'
  BY <1>2, <1>4, <1>5 DEF Seats
<1>7. Batched'
  BY <1>1 DEF Batched
<1>8. Books'
  BY <1>1, <1>5 DEF Books, High!TableRight, High!ScoreIsBest, High!GamesCounted
<1> QED BY <1>3, <1>6, <1>7, <1>8

\* More to be read, or one that waits: the batch is right as it is.
LEMMA BatchStays ==
  ASSUME HighInv, UNCHANGED <<batch, reading>>, (High!InUse)' = High!InUse,
         \A s \in Slots : Due(s) => Due(s)'
  PROVE  Batched'
<1>1. PICK b : b = batch /\ b = batch'
  OBVIOUS
<1>2. ASSUME NEW i \in DOMAIN b, b[i] \in Slots
      PROVE  /\ b[i] \in High!InUse
             /\ Due(b[i])' \/ (i = 1 /\ reading)
             /\ \A j \in DOMAIN b : b[j] = b[i] => i = j
  BY <1>1, <1>2 DEF HighInv, Batched
<1> QED BY <1>1, <1>2 DEF HighInv, Batched

LEMMA ConnectKeeps ==
  ASSUME HighInv, NEW p \in Peers, High!Connect(p)
  PROVE  HighInv'
<1> USE DEF HighInv
<1>1. /\ place[p] = "new" /\ place' = [place EXCEPT ![p] = "waiting"]
      /\ UNCHANGED <<free, client, batch, reading, buffer, unread, hungUp, toSend,
                     users, created, won, begun, twice>>
  BY DEF High!Connect, High!peerVars, High!dbVars
<1>2. /\ place' \in [Peers -> Places]
      /\ \A q \in Peers : q # p => place'[q] = place[q]
      /\ place'[p] \notin Slots /\ place[p] \notin Slots
  BY <1>1, NoSlots DEF HighTypes, Places
<1>3. \A q \in Peers, s \in Slots : place'[q] = s <=> place[q] = s
  BY <1>2
<1>4. (High!InUse)' = High!InUse
  BY <1>3 DEF High!InUse
<1>5. HighTypes'
  BY <1>1, <1>2 DEF HighTypes
<1>6. Seats'
  BY <1>1, <1>2, <1>3, <1>4 DEF Seats
<1>7. Batched'
  <2>1. \A s \in Slots : Due(s) => Due(s)'
    BY <1>1, <1>3 DEF Due
  <2> QED BY <1>1, <1>4, <2>1, BatchStays
<1>8. Books'
  BY <1>1, <1>4, BooksKept DEF High!dbVars
<1> QED BY <1>5, <1>6, <1>7, <1>8

LEMMA SendKeeps ==
  ASSUME HighInv, NEW p \in Peers, High!Send(p)
  PROVE  HighInv'
<1> USE DEF HighInv
<1>1. /\ toSend[p] # << >>
      /\ toSend' = [toSend EXCEPT ![p] = Tail(@)]
      /\ unread' = [unread EXCEPT ![p] = Append(@, Head(toSend[p]))]
      /\ UNCHANGED <<place, free, client, batch, reading, buffer, hungUp,
                     users, created, won, begun, twice>>
  BY DEF High!Send, High!dbVars
<1>2. PICK more : more = Append(unread[p], Head(toSend[p]))
  OBVIOUS
<1>3. /\ Head(toSend[p]) \in Packets /\ Tail(toSend[p]) \in Seq(Packets)
      /\ unread[p] \in Seq(Packets)
  BY <1>1, HeadTailProperties DEF HighTypes
<1>4. more \in Seq(Packets) /\ more # << >>
  BY <1>2, <1>3, AppendProperties, EmptySeq
<1>5. /\ unread' \in [Peers -> Seq(Packets)] /\ toSend' \in [Peers -> Seq(Packets)]
      /\ unread'[p] = more /\ \A q \in Peers : q # p => unread'[q] = unread[q]
  BY <1>1, <1>2, <1>3, <1>4 DEF HighTypes
<1>6. (High!InUse)' = High!InUse /\ Seats'
  BY <1>1 DEF High!InUse, Seats
<1>7. HighTypes'
  BY <1>1, <1>5 DEF HighTypes
<1>8. Batched'
  <2>1. \A s \in Slots : Due(s) => Due(s)'
    BY <1>1, <1>4, <1>5 DEF Due
  <2> QED BY <1>1, <1>6, <2>1, BatchStays
<1>9. Books'
  BY <1>1, <1>6, BooksKept DEF High!dbVars
<1> QED BY <1>6, <1>7, <1>8, <1>9

LEMMA HangUpKeeps ==
  ASSUME HighInv, NEW p \in Peers, High!HangUp(p)
  PROVE  HighInv'
<1> USE DEF HighInv
<1>1. /\ hungUp' = hungUp \cup {p}
      /\ toSend' = [toSend EXCEPT ![p] = << >>]
      /\ UNCHANGED <<place, free, client, batch, reading, buffer, unread,
                     users, created, won, begun, twice>>
  BY DEF High!HangUp, High!dbVars
<1>2. (High!InUse)' = High!InUse /\ Seats'
  BY <1>1 DEF High!InUse, Seats
<1>3. HighTypes'
  BY <1>1, EmptySeq DEF HighTypes
<1>4. Batched'
  <2>1. \A s \in Slots : Due(s) => Due(s)'
    BY <1>1 DEF Due
  <2> QED BY <1>1, <1>2, <2>1, BatchStays
<1>5. Books'
  BY <1>1, <1>2, BooksKept DEF High!dbVars
<1> QED BY <1>2, <1>3, <1>4, <1>5
-----------------------------------------------------------------------------
(***************************************************************************)
(* The invariant holds, and the theorems.                                  *)
(***************************************************************************)

LEMMA HighInitially == High!Init => HighInv
<1> SUFFICES ASSUME High!Init
             PROVE  HighInv
  OBVIOUS
<1>1. /\ client = [s \in Slots |-> High!Fresh]
      /\ batch = << >> /\ reading = FALSE /\ buffer = << >>
      /\ place = [p \in Peers |-> "new"]
      /\ unread = [p \in Peers |-> << >>]
      /\ hungUp = {} /\ toSend = Script /\ created = Veterans /\ twice = {}
      /\ users = [u \in Users |-> IF u \in Veterans THEN [score |-> 3, games |-> 1]
                                                    ELSE [score |-> 0, games |-> 0]]
      /\ won = [u \in Users |-> users[u].score]
      /\ begun = [u \in Users |-> users[u].games]
  BY DEF High!Init
<1>2. /\ free \in Seq(Slots)
      /\ \A i, j \in DOMAIN free : free[i] = free[j] => i = j
      /\ \A s \in Slots : \E i \in DOMAIN free : free[i] = s
  BY AllFree DEF High!Init
<1>3. \A p \in Peers : place[p] \notin Slots
  BY <1>1, NoSlots
<1>4. High!InUse = {}
  BY <1>3 DEF High!InUse
<1>5. HighTypes
  <2>1. client \in [Slots -> Clients]
    BY <1>1 DEF High!Fresh, Clients
  <2>2. place \in [Peers -> Places]
    BY <1>1 DEF Places
  <2>3. unread \in [Peers -> Seq(Packets)]
    BY <1>1, EmptySeq
  <2>4. toSend \in [Peers -> Seq(Packets)]
    BY <1>1, PartsAssumption DEF Packets
  <2>5. batch \in Seq(Slots \cup {High!Server}) /\ buffer \in Seq(Packets)
    BY <1>1, EmptySeq
  <2>6. users \in [Users -> [score : Nat, games : Nat]]
    BY <1>1
  <2>7. won \in [Users -> Nat] /\ begun \in [Users -> Nat]
    BY <1>1, <2>6
  <2>8. created \subseteq Users /\ twice \subseteq Users
    BY <1>1, PartsAssumption
  <2> QED BY <1>1, <1>2, <2>1, <2>2, <2>3, <2>4, <2>5, <2>6, <2>7, <2>8 DEF HighTypes, Clients
<1>6. Seats
  BY <1>2, <1>3, <1>4 DEF Seats
<1>7. Batched
  BY <1>1 DEF Batched
<1>8. Books
  BY <1>1, <1>4 DEF Books, High!TableRight, High!ScoreIsBest, High!GamesCounted
<1> QED BY <1>5, <1>6, <1>7, <1>8 DEF HighInv

LEMMA HighSteps ==
  ASSUME HighInv, High!Next
  PROVE  HighInv'
<1>1. CASE High!Wait
  BY <1>1, WaitKeeps
<1>2. CASE High!HandleServer
  BY <1>2, HandleServerKeeps
<1>3. CASE High!HandleClient
  BY <1>3, HandleClientKeeps
<1>4. ASSUME NEW s \in Slots,
             \/ High!HandleAuth(s) \/ High!HandleNewGame(s) \/ High!HandleGuess(s)
             \/ High!HandleDummy(s)
             \/ \E type \in {"new_game", "guess", "dummy"} : High!Ignore(s, type)
      PROVE  HighInv'
  BY <1>4, HandleAuthKeeps, HandleNewGameKeeps, HandleGuessKeeps, HandleDummyKeeps,
     IgnoreKeeps
<1>5. CASE High!Handled
  BY <1>5, HandledKeeps
<1>6. CASE High!Restart
  BY <1>6, RestartKeeps
<1>7. ASSUME NEW p \in Peers, High!Connect(p) \/ High!Send(p) \/ High!HangUp(p)
      PROVE  HighInv'
  BY <1>7, ConnectKeeps, SendKeeps, HangUpKeeps
<1> QED BY <1>1, <1>2, <1>3, <1>4, <1>5, <1>6, <1>7 DEF High!Next, High!Loop

LEMMA HighSame ==
  ASSUME HighInv, UNCHANGED highVars
  PROVE  HighInv'
<1> USE DEF HighInv
<1>1. UNCHANGED <<place, unread, hungUp, free, client, batch, reading, buffer, toSend,
                  users, created, won, begun, twice>>
  BY DEF highVars
<1>2. HighTypes'
  BY <1>1 DEF HighTypes
<1>3. (High!InUse)' = High!InUse /\ Seats' /\ \A s \in Slots : Due(s) => Due(s)'
  BY <1>1, Stays
<1>4. Batched'
  BY <1>1, <1>3, BatchStays
<1>5. Books'
  BY <1>1, <1>3, BooksKept DEF High!dbVars
<1> QED BY <1>2, <1>3, <1>4, <1>5

\* HighLow is right if it is the part that runs.
Playing == which = "HighLow" => HighInv

LEMMA HighHolds == PartsSpec => []Playing
<1>1. PartsInit => Playing
  BY HighInitially DEF PartsInit, Playing
<1>2. Playing /\ [PartsNext]_partVars => Playing'
  <2> SUFFICES ASSUME Playing, [PartsNext]_partVars, which' = "HighLow"
               PROVE  HighInv'
    BY DEF Playing
  <2>1. which = "HighLow"
    BY DEF PartsNext, partVars
  <2>2. HighInv
    BY <2>1 DEF Playing
  <2>3. High!Next \/ UNCHANGED highVars
    BY <2>1 DEF PartsNext, partVars
  <2> QED BY <2>2, <2>3, HighSteps, HighSame
<1> QED BY <1>1, <1>2, PTL DEF PartsSpec

\* HighLow: every client is in the free list of server.c once or serves one
\* connection, and every event of the batch that is still to be handled is about a
\* connection that has something to be read: whatever order they are handled in, a
\* client that is freed and given away in one batch is not taken for the one before.
\* For any number of connections and clients, and any packets.
THEOREM ClientsFit == PartsSpec => []ClientsAccounted
<1>1. Playing => ClientsAccounted
  <2> SUFFICES ASSUME HighInv
               PROVE  High!ClientsAccounted
    BY DEF Playing, ClientsAccounted
  <2>1. \A i \in DOMAIN batch : batch[i] \in Slots /\ Due(batch[i]) /\ batch[i] \in High!InUse
                                  => batch[i] \in High!Ready
    BY ReadyIsDue DEF HighInv
  <2> QED BY <2>1 DEF HighInv, Seats, Batched, High!ClientsAccounted
<1> QED BY <1>1, HighHolds, PTL

\* HighLow: the table of users holds everybody's best round, over all connections
\* and crashes (db_update_score), and the number of games of everybody but those
\* that are logged in twice (db_update_num_games writes what the client has
\* counted from).  For any number of users, connections and packets.
THEOREM TableStaysRight == PartsSpec => []TableRight
<1>1. Playing => TableRight
  BY DEF Playing, TableRight, HighInv, Books
<1> QED BY <1>1, HighHolds, PTL
=============================================================================
