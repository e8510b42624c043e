------------------------------ MODULE ScoresPage ------------------------------
(***************************************************************************)
(* Serving /scores.json (src/lib/scoreswebpage.js, Generate, DoGenerate    *)
(* and the route): a board is made by reading the collection document by   *)
(* document while the daemon goes on writing to it, it is handed to all    *)
(* who wait for it and kept for a while.  The collection changes as        *)
(* FlagLedger lets it, with the dates the scores need.                     *)
(***************************************************************************)
EXTENDS Scores, FiniteSets

CONSTANTS
  Teams,
  Flags,       \* documents the daemon may create: team, service and time
  Challenges,  \* entries of db.challenges: team, time and points
  Reqs,        \* bound: requests for the page at the same time
  MaxChanges,  \* bound: changes of the database, each at a time of its own
  MaxAsks,     \* bound: requests for the page altogether
  DbMayFail    \* may a cursor end in an error?

ASSUME PageAssumption ==
  /\ \A f \in Flags : f.team \in Teams /\ f.time \in Nat
  /\ \A f, g \in Flags : f.team = g.team /\ f.service = g.service /\ f.time = g.time => f = g
  /\ \A c \in Challenges : c.time \in Nat /\ c.points \in Nat
  /\ MaxChanges \in Nat
  /\ MaxAsks \in Nat
  /\ DbMayFail \in BOOLEAN

VARIABLES
  docs,        \* db.flags: a set of documents
  ranks,       \* db.challenges: a set of entries
  changes,     \* number of changes so far, also the clock
  asks,        \* number of requests so far
  waiting,     \* requests whose callback listens for `result'
  served,      \* the board a request was answered with
  generating,
  cached,      \* the board kept, NoBoard for null
  timers,      \* timers that will set cached to null
  scans        \* calls of DoGenerate under way: what is left to read, what was read

dbVars == <<docs, ranks, changes>>
pageVars == <<asks, waiting, served, generating, cached, timers, scans>>
vars == <<dbVars, pageVars>>

\* A board is identified with what it was made from.
NoBoard == [none |-> TRUE]

Same(d, f) == d.team = f.team /\ d.service = f.service /\ d.time = f.time
Document(S, f) == CHOOSE d \in S : Same(d, f)
Holds(S, f) == \E d \in S : Same(d, f)

Init ==
  /\ docs = {}
  /\ ranks = {}
  /\ changes = 0
  /\ asks = 0
  /\ waiting = {}
  /\ served = [r \in Reqs |-> NoBoard]
  /\ generating = FALSE
  /\ cached = NoBoard
  /\ timers = 0
  /\ scans = {}

-----------------------------------------------------------------------------
(***************************************************************************)
(* The database changes: CTFd plants, delivers, checks, records captures;  *)
(* scripts/challenge.sh pushes an entry to the rank of a challenge.        *)
(***************************************************************************)

Replace(f, d) == docs' = (docs \ {Document(docs, f)}) \cup {d}

Change ==
  /\ changes < MaxChanges
  /\ changes' = changes + 1
  /\ \/ \E f \in Flags :
          /\ IF ~Holds(docs, f)
             THEN docs' = docs \cup {[team |-> f.team, service |-> f.service, time |-> f.time,
                                     delivered |-> FALSE, captures |-> << >>, checks |-> << >>]}
             ELSE LET d == Document(docs, f) IN
               \/ Replace(f, [d EXCEPT !.delivered = TRUE])
               \/ \E t \in Teams \ {f.team} :
                    Replace(f, [d EXCEPT !.captures = Append(@, [team |-> t, time |-> changes])])
               \/ \E ok \in BOOLEAN :
                    Replace(f, [d EXCEPT !.checks = Append(@, [time |-> changes, result |-> ok])])
          /\ UNCHANGED ranks
     \/ /\ \E c \in Challenges \ ranks : ranks' = ranks \cup {c}
        /\ UNCHANGED docs
  /\ UNCHANGED pageVars

-----------------------------------------------------------------------------
(***************************************************************************)
(* The page.                                                               *)
(***************************************************************************)

\* DoGenerate: db.flags.find().  Every document that is there now is read, one
\* at a time; those of Flags that come later may be read or not.
NewScan == [left |-> Flags, docs |-> {}, must |-> docs]

\* Faulty: a request starts a generation also while there is one.
MayGenerate_Always == cached = NoBoard
MayGenerate == ~generating /\ cached = NoBoard

\* Generate, called by the route: the callback listens, and a generation is
\* started, awaited, or answered from the cache.
Ask(r) ==
  /\ asks < MaxAsks
  /\ r \notin waiting
  /\ asks' = asks + 1
  /\ IF cached # NoBoard
     THEN /\ served' = [served EXCEPT ![r] = cached]
          /\ UNCHANGED <<waiting, generating, scans>>
     ELSE /\ waiting' = waiting \cup {r}
          /\ served' = [served EXCEPT ![r] = NoBoard]
          /\ IF MayGenerate
             THEN generating' = TRUE /\ scans' = scans \cup {NewScan}
             ELSE UNCHANGED <<generating, scans>>
  /\ UNCHANGED <<dbVars, cached, timers>>

\* forEach: the callback for one document; all observers see the same one.
ReadDoc(s, f) ==
  /\ s \in scans
  /\ f \in s.left
  /\ Holds(docs, f)
  /\ scans' = (scans \ {s}) \cup
       {[s EXCEPT !.left = @ \ {f}, !.docs = @ \cup {Document(docs, f)}]}
  /\ UNCHANGED <<dbVars, asks, waiting, served, generating, cached, timers>>

\* Faulty: waits for as many documents as there were and those that came later.
AllRead_Full(s) == s.left = {}

\* The cursor has no more documents and the challenges are read.
AllRead(s) == \A f \in s.left : ~Holds(s.must, f)

\* Faulty: the flag is reset when the board is dropped from the cache.
Stored_Generating(b) == cached' = b /\ timers' = timers + 1 /\ UNCHANGED generating

\* The first listener of a generation: the board is kept and will be dropped.
Stored(b) == cached' = b /\ timers' = timers + 1 /\ generating' = FALSE

\* The result is emitted: everybody who listens gets it.
Finish(s) ==
  /\ s \in scans
  /\ AllRead(s)
  /\ LET b == [docs |-> s.docs, ranks |-> ranks]
     IN  /\ served' = [r \in Reqs |-> IF r \in waiting THEN b ELSE served[r]]
         /\ Stored(b)
  /\ waiting' = {}
  /\ scans' = scans \ {s}
  /\ UNCHANGED <<dbVars, asks>>

\* cacheTime has passed.
Expire ==
  /\ timers > 0
  /\ timers' = timers - 1
  /\ cached' = NoBoard
  /\ UNCHANGED <<dbVars, asks, waiting, served, generating, scans>>

\* A cursor ends in an error: err is not null, and nothing is done about it.
CursorFails(s) ==
  /\ DbMayFail
  /\ s \in scans
  /\ scans' = scans \ {s}
  /\ UNCHANGED <<dbVars, asks, waiting, served, generating, cached, timers>>

Next ==
  \/ Change
  \/ \E r \in Reqs : Ask(r)
  \/ \E s \in scans : CursorFails(s) \/ Finish(s) \/ \E f \in s.left : ReadDoc(s, f)
  \/ Expire

Spec == Init /\ [][Next]_vars

\* The database answers and timers fire.
LiveSpec ==
  /\ Spec
  /\ WF_vars(\E s \in scans : Finish(s) \/ \E f \in s.left : ReadDoc(s, f))
  /\ WF_vars(Expire)
-----------------------------------------------------------------------------
(***************************************************************************)
(* Properties.                                                             *)
(***************************************************************************)

BoardOf(b) == Board(b.docs, b.ranks)

\* On every board that was served the curve of a team ends at its points in
\* the table, whatever was written to the collection while it was made.
CurvesEndAtTable ==
  \A r \in Reqs : served[r] # NoBoard => GraphEndsAtTable(BoardOf(served[r]))

\* On every board that was served all graphs tell of the same captures: they
\* were handed the same documents, although captures were recorded meanwhile.
GraphsConsistent ==
  \A r \in Reqs : served[r] # NoBoard => GraphsAgree(BoardOf(served[r]))

\* From one board to the next a team loses nothing but points for defending a
\* flag: captures, checks, deliveries and challenges never decrease, points by
\* no more than what the captured flags were worth.
NotTakenBack(a, b) ==
  /\ DOMAIN a.table \subseteq DOMAIN b.table
  /\ \A t \in DOMAIN a.table :
       LET old == a.table[t]
           new == b.table[t]
       IN  /\ old.capture <= new.capture
           /\ old.check <= new.check
           /\ old.deliver <= new.deliver
           /\ old.challenge <= new.challenge
           /\ new.points >= old.points - Points.defend * (old.defend + new.deliver - old.deliver - new.defend)

\* A request that is answered twice, or two requests one after the other, see
\* boards in the order they were made.
BoardsGrow ==
  [][\A r, q \in Reqs :
       served[r] # NoBoard /\ served'[q] # NoBoard /\ served'[q] # served[q]
         => NotTakenBack(BoardOf(served[r]), BoardOf(served'[q]))]_vars

\* A board is kept for as long as one timer runs, and while it is kept nobody
\* waits and none is made.
CacheInOrder ==
  /\ timers = IF cached = NoBoard THEN 0 ELSE 1
  /\ cached # NoBoard => waiting = {} /\ ~generating
  /\ waiting # {} => generating
  /\ \A s, z \in scans : s = z
  /\ generating /\ ~DbMayFail => scans # {}

\* Why: no board is made but by the generation that is under way.
CacheInv ==
  /\ timers \in {0, 1}
  /\ generating \in BOOLEAN
  /\ scans # {} => generating
  /\ CacheInOrder

\* generating is still set although the cursor has ended: in an error.
Stuck == generating /\ scans = {}

\* Every request is answered, whatever it races with, unless the database makes
\* an error: then generating stays set and nobody is answered any more.
EveryRequestServed ==
  \A r \in Reqs : r \in waiting ~> r \notin waiting \/ Stuck
=============================================================================
