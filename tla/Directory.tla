------------------------------ MODULE Directory ------------------------------
(***************************************************************************)
(* How the user directory of JabbaChat (component/server.js) keeps its     *)
(* connection to the chat server awake: pings, with ids by the IdIterator  *)
(* of component/lib.  Its answers to queries are part of JabbaChat.        *)
(***************************************************************************)
EXTENDS Naturals, SequencesExt

CONSTANTS
  Letters,    \* how many letters the alphabet has
  MaxPings,   \* bound: pings
  MaxConnects \* bound: how often the connection comes up

VARIABLES
  online,  \* is the component connected?
  timers,  \* interval timers that run: one for every time it came online
  indices, \* idIterator.indices, the lowest digit first
  issued,  \* the ids that pings were given
  pings    \* how many pings there were

vars == <<online, timers, indices, issued, pings>>

Init == online = FALSE /\ timers = 0 /\ indices = <<>> /\ issued = {} /\ pings = 0

\* `online' also comes after a reconnect, and sets a timer beside those there are.
Online ==
  /\ ~online
  /\ timers < MaxConnects
  /\ online' = TRUE
  /\ timers' = timers + 1
  /\ UNCHANGED <<indices, issued, pings>>

Offline ==
  /\ online
  /\ online' = FALSE
  /\ UNCHANGED <<timers, indices, issued, pings>>

\* Faulty: no digit is added when the last one overflows.
NextId_Wraps(ids) ==
  LET k == SelectInSeq(ids, LAMBDA d : d # Letters - 1)
  IN  IF ids = <<>> THEN <<0>>
      ELSE [i \in DOMAIN ids |-> IF k = 0 \/ i < k THEN 0 ELSE IF i = k THEN ids[i] + 1 ELSE ids[i]]

\* next: counts up, with a carry; a new digit begins at 0, so that `a' is followed
\* by `aa' in the end, and not by itself.
NextId(ids) ==
  LET k == SelectInSeq(ids, LAMBDA d : d # Letters - 1)
  IN  IF k = 0 THEN [i \in 1 .. Len(ids) + 1 |-> 0]
      ELSE [i \in DOMAIN ids |-> IF i < k THEN 0 ELSE IF i = k THEN ids[i] + 1 ELSE ids[i]]

\* current: the letters, the highest digit first.
Current(ids) == Reverse(ids)

\* A timer fires, whether there is a connection or not.
Ping ==
  /\ timers > 0
  /\ pings < MaxPings
  /\ pings' = pings + 1
  /\ indices' = NextId(indices)
  /\ issued' = issued \cup {Current(indices')}
  /\ UNCHANGED <<online, timers>>

Next == Online \/ Offline \/ Ping

-----------------------------------------------------------------------------
\* No two pings have the same id, over all timers and reconnects: there are as many
\* ids as pings, and none is longer than it takes to tell them apart.
PingsDistinct ==
  /\ Cardinality(issued) = pings
  /\ \A id \in issued : \A n \in 1 .. Len(id) - 1 :
       \A shorter \in [1 .. n -> 0 .. Letters - 1] : shorter \in issued
=============================================================================
