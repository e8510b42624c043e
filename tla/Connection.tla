------------------------------ MODULE Connection ------------------------------
(***************************************************************************)
(* One connection to the daemon, from the first byte to the last reply:    *)
(* the client, the two directions of TCP, the UserDataParser, the filter   *)
(* of flagreceiver.js and the handlers of `team' and `flag' in ctfd.js.    *)
(* TCP keeps the bytes in order and cuts them wherever it likes.  Whether  *)
(* a flag is accepted is CTFd's business: here findOne and the update take *)
(* their time and end in some reply.                                       *)
(***************************************************************************)
EXTENDS UserDataParser

CONSTANTS
  Team,      \* a team of the configuration
  Other,     \* a name that is none
  FlagIds,   \* strings of 64 hexadecimal digits
  NoTeam,
  MaxLines,  \* bound: lines the client sends
  Waits      \* does the client wait for a reply before it sends the next line?

ASSUME ConnectionAssumption ==
  /\ MaxLines \in Nat /\ Waits \in BOOLEAN
  /\ ({Team, Other} \cup FlagIds) \cap (Breaks \cup {Blank}) = {}

VARIABLES
  sent,     \* the lines the client has sent
  wire,     \* tokens on their way to the daemon
  data,     \* this.data of the parser
  heard,    \* the commands the parser has emitted
  team,     \* the variable `team' of the connection
  lookups,  \* FLAG commands whose database calls have not been answered
  replies   \* lines written to the socket, with the command they answer

vars == <<sent, wire, data, heard, team, lookups, replies>>

Commands ==
  [cmd : {"TEAM"}, arg : {<<Team>>, <<Other>>}] \cup [cmd : {"FLAG"}, arg : {<<f>> : f \in FlagIds}]

Ends == {<<LF>>, <<CR, LF>>}

Init ==
  /\ sent = << >>
  /\ wire = << >>
  /\ data = << >>
  /\ heard = << >>
  /\ team = NoTeam
  /\ lookups = << >>
  /\ replies = << >>

\* The client: telnet, flag_deliver or anything else.
Send(c, end) ==
  /\ Len(sent) < MaxLines
  /\ Waits => Len(replies) = Len(sent)
  /\ sent' = Append(sent, c)
  /\ wire' = wire \o <<c.cmd, Blank>> \o c.arg \o end
  /\ UNCHANGED <<data, heard, team, lookups, replies>>

Reply(s, c, code) == [s EXCEPT !.r = Append(@, [to |-> c, code |-> code])]

\* What the handlers of `team' and `flag' do with one command: [t] is `team',
\* [r] the replies written at once, [l] the lookups begun.
Handle(s, c) ==
  CASE c.cmd = "TEAM" ->
         IF s.t # NoTeam THEN Reply(s, c, 1)
         ELSE IF c.arg # <<Team>> THEN Reply(s, c, 2)
         ELSE [Reply(s, c, 0) EXCEPT !.t = Team]
    [] c.cmd = "FLAG" /\ c.arg \in {<<f>> : f \in FlagIds} ->
         IF s.t = NoTeam THEN Reply(s, c, 3)
         ELSE [s EXCEPT !.l = Append(@, c)]
    [] OTHER -> s  \* malformed, or not 64 digits: nobody answers

HandleAll(s, cs) ==
  LET after[i \in 0 .. Len(cs)] == IF i = 0 THEN s ELSE Handle(after[i - 1], cs[i])
  IN  after[Len(cs)]

\* Faulty: what is left of the chunk before is forgotten.
Joined_Forgets(chunk) == chunk

\* append: the chunk is parsed together with what was left of the one before.
Joined(chunk) == data \o chunk

\* The handler of `data': append, and the events it emits.
Receive(n) ==
  /\ n \in 1 .. Len(wire)
  /\ wire' = SubSeq(wire, n + 1, Len(wire))
  /\ LET text == Joined(SubSeq(wire, 1, n))
         ls   == Lines(text)
         cs   == [i \in DOMAIN ls |-> Command(ls[i])]
         s    == HandleAll([t |-> team, r |-> replies, l |-> lookups], cs)
     IN  /\ data' = Rest(text)
         /\ heard' = heard \o cs
         /\ team' = s.t
         /\ replies' = s.r
         /\ lookups' = s.l
  /\ UNCHANGED sent

\* The database answers one of the requests; the driver has several
\* connections, so not always the oldest.
Answer(i) ==
  /\ i \in DOMAIN lookups
  /\ \E code \in {0, 7} :  \* captured, or refused for one reason or another
       replies' = Append(replies, [to |-> lookups[i], code |-> code])
  /\ lookups' = SubSeq(lookups, 1, i - 1) \o SubSeq(lookups, i + 1, Len(lookups))
  /\ UNCHANGED <<sent, wire, data, heard, team>>

Next ==
  \/ \E c \in Commands, end \in Ends : Send(c, end)
  \/ \E n \in 1 .. Len(wire) : Receive(n)
  \/ \E i \in DOMAIN lookups : Answer(i)

\* TCP delivers and the database answers.
Spec == Init /\ [][Next]_vars
LiveSpec ==
  /\ Spec
  /\ WF_vars(\E n \in 1 .. Len(wire) : Receive(n))
  /\ WF_vars(\E i \in DOMAIN lookups : Answer(i))
-----------------------------------------------------------------------------
(***************************************************************************)
(* Properties.                                                             *)
(***************************************************************************)

\* The daemon hears what the client says, command by command, however TCP cuts
\* it: `Line beginning with "TEAM " emits "TEAM" event' (test.js).  True of a
\* client that waits for its replies.
Understood ==
  /\ Len(heard) <= Len(sent)
  /\ \A i \in DOMAIN heard : heard[i] = sent[i]

\* The n-th reply answers the n-th line, though replies to flags are written
\* whenever the database is done and do not name their flag.
RepliesInOrder ==
  /\ Len(replies) <= Len(sent)
  /\ \A i \in DOMAIN replies : replies[i].to = sent[i]

\* A client that waits never waits in vain.
EveryLineAnswered == [](Len(sent) > Len(replies) => <>(Len(sent) = Len(replies)))
=============================================================================
