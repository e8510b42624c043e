--------------------------- MODULE ConnectionProofs ---------------------------
(***************************************************************************)
(* A client that waits for its replies is understood and gets them in the  *)
(* order of its lines, however TCP cuts the stream: for every team, every  *)
(* set of flags and any number of lines.                                   *)
(***************************************************************************)
EXTENDS Connection, FiniteSetTheorems, SequenceTheorems, TLAPS

Tokens == {CR, LF, Blank, "TEAM", "FLAG", Team, Other} \cup FlagIds

\* [w] is what a client writes for the command [c].
IsLine(w, c) ==
  /\ w \in Seq(Tokens) /\ Len(w) \in {4, 5}
  /\ w[1] = c.cmd /\ w[1] \in LegalCommands
  /\ w[2] = Blank
  /\ c.arg = <<w[3]>> /\ w[3] \notin Breaks /\ w[3] # Blank
  /\ w[4] \in Breaks /\ (w[4] = LF <=> Len(w) = 4)
  /\ w[Len(w)] = LF

LineTypes ==
  /\ sent \in Seq(Commands) /\ heard \in Seq(Commands) /\ lookups \in Seq(Commands)
  /\ wire \in Seq(Tokens) /\ data \in Seq(Tokens)
  /\ replies \in Seq([to : Commands, code : Nat])

\* Nothing is on its way to the daemon: the last line has been answered, or the
\* database is busy with it.
Quiet ==
  /\ wire = << >> /\ data = << >>
  /\ Len(heard) = Len(sent)
  /\ \/ lookups = << >> /\ Len(replies) = Len(sent)
     \/ /\ Len(sent) > 0 /\ Len(replies) = Len(sent) - 1
        /\ Len(lookups) = 1 /\ lookups[1] = sent[Len(sent)]

\* The last line is on its way; its end has not arrived.
Underway ==
  /\ lookups = << >> /\ wire # << >>
  /\ Len(sent) > 0
  /\ Len(heard) = Len(sent) - 1 /\ Len(replies) = Len(sent) - 1
  /\ IsLine(data \o wire, sent[Len(sent)])

LineInv ==
  /\ LineTypes
  /\ Quiet \/ Underway
  /\ Understood
  /\ RepliesInOrder

-----------------------------------------------------------------------------
(***************************************************************************)
(* The parser.                                                             *)
(***************************************************************************)

\* A sequence of one and one of three, by their elements.
LEMMA TupleOfOne ==
  ASSUME NEW S, NEW s \in Seq(S), Len(s) = 1
  PROVE  s = <<s[1]>>
<1>1. s[1] \in S
  OBVIOUS
<1>2. PICK t : t = <<s[1]>>
  OBVIOUS
<1>3. t \in Seq(S) /\ Len(t) = 1 /\ t[1] = s[1]
  BY <1>1, <1>2
<1>4. s = t
  BY <1>3, SeqEqual
<1> QED BY <1>2, <1>4

LEMMA TupleOfThree ==
  ASSUME NEW S, NEW s \in Seq(S), Len(s) = 3
  PROVE  s = <<s[1], s[2], s[3]>>
<1>1. s[1] \in S /\ s[2] \in S /\ s[3] \in S
  OBVIOUS
<1>2. PICK t : t = <<s[1], s[2], s[3]>>
  OBVIOUS
<1>3. t \in Seq(S) /\ Len(t) = 3 /\ t[1] = s[1] /\ t[2] = s[2] /\ t[3] = s[3]
  BY <1>1, <1>2
<1>4. \A i \in 1 .. Len(s) : s[i] = t[i]
  BY <1>3
<1>5. s = t
  BY <1>3, <1>4, SeqEqual
<1> QED BY <1>2, <1>5

\* What a client writes for a command is a line.
LEMMA WrittenIsLine ==
  ASSUME NEW c \in Commands, NEW end \in Ends
  PROVE  IsLine(<<c.cmd, Blank>> \o c.arg \o end, c)
<1>1. PICK a \in {Team, Other} \cup FlagIds : c.arg = <<a>>
  BY DEF Commands
<1>2. c.cmd \in LegalCommands
  BY DEF Commands, LegalCommands
<1>3. a \notin Breaks /\ a # Blank
  BY <1>1, ConnectionAssumption
<1>4. PICK u : u = <<c.cmd, Blank>> \o <<a>>
  OBVIOUS
<1>5. u \in Seq(Tokens) /\ Len(u) = 3 /\ u[1] = c.cmd /\ u[2] = Blank /\ u[3] = a
  <2>1. PICK s : s = <<c.cmd, Blank>>
    OBVIOUS
  <2>2. s \in Seq(Tokens) /\ Len(s) = 2 /\ s[1] = c.cmd /\ s[2] = Blank
    BY <1>2, <2>1 DEF Tokens, LegalCommands
  <2>3. PICK t : t = <<a>>
    OBVIOUS
  <2>4. t \in Seq(Tokens) /\ Len(t) = 1 /\ t[1] = a
    BY <2>3 DEF Tokens
  <2>5. u = s \o t
    BY <1>4, <2>1, <2>3
  <2>6. /\ u \in Seq(Tokens) /\ Len(u) = 3
        /\ \A i \in 1 .. 3 : u[i] = IF i <= 2 THEN s[i] ELSE t[i - 2]
    <3>1. /\ s \o t \in Seq(Tokens) /\ Len(s \o t) = Len(s) + Len(t)
          /\ \A i \in 1 .. Len(s) + Len(t) :
               (s \o t)[i] = IF i <= Len(s) THEN s[i] ELSE t[i - Len(s)]
      BY <2>2, <2>4, ConcatProperties
    <3>2. Len(s) + Len(t) = 3
      BY <2>2, <2>4
    <3> QED BY <2>2, <2>5, <3>1, <3>2
  <2>7. u[1] = s[1] /\ u[2] = s[2] /\ u[3] = t[1]
    BY <2>6
  <2> QED BY <2>2, <2>4, <2>6, <2>7
<1>6. PICK w : w = u \o end
  OBVIOUS
<1>7. w = <<c.cmd, Blank>> \o c.arg \o end
  BY <1>1, <1>4, <1>6
<1>8. /\ w \in Seq(Tokens) /\ Len(w) = 3 + Len(end)
      /\ w[1] = c.cmd /\ w[2] = Blank /\ w[3] = a
      /\ Len(end) \in {1, 2} /\ \A i \in 1 .. Len(end) : w[3 + i] = end[i]
  <2>1. end \in Seq(Tokens) /\ Len(end) \in {1, 2}
    <3>1. CASE end = <<LF>>
      BY <3>1 DEF Tokens
    <3>2. CASE end = <<CR, LF>>
      BY <3>2 DEF Tokens
    <3> QED BY <3>1, <3>2 DEF Ends
  <2>2. /\ w \in Seq(Tokens) /\ Len(w) = 3 + Len(end)
        /\ \A i \in 1 .. 3 + Len(end) : w[i] = IF i <= 3 THEN u[i] ELSE end[i - 3]
    <3>1. /\ u \o end \in Seq(Tokens) /\ Len(u \o end) = Len(u) + Len(end)
          /\ \A i \in 1 .. Len(u) + Len(end) :
               (u \o end)[i] = IF i <= Len(u) THEN u[i] ELSE end[i - Len(u)]
      BY <1>5, <2>1, ConcatProperties
    <3> QED BY <1>5, <1>6, <3>1
  <2>3. w[1] = u[1] /\ w[2] = u[2] /\ w[3] = u[3]
    BY <2>1, <2>2
  <2>4. \A i \in 1 .. Len(end) : w[3 + i] = end[i]
    BY <2>1, <2>2
  <2> QED BY <1>5, <2>1, <2>2, <2>3, <2>4
<1>9. /\ Len(end) = 1 => end[1] = LF
      /\ Len(end) = 2 => end[1] = CR /\ end[2] = LF
  BY DEF Ends
<1>10. w[4] = end[1] /\ (Len(end) = 2 => w[5] = end[2])
  BY <1>8
<1>11. CR \in Breaks /\ LF \in Breaks /\ CR # LF
  BY DEF Breaks, CR, LF
<1> QED BY <1>1, <1>2, <1>3, <1>7, <1>8, <1>9, <1>10, <1>11 DEF IsLine

\* Without a line feed nothing is emitted and everything is kept.
LEMMA NoLineYet ==
  ASSUME NEW text \in Seq(Tokens),
         \A i \in DOMAIN text : text[i] # LF /\ (text[i] \in Breaks => i = 4)
  PROVE  Parsed(text) = [lines |-> << >>, data |-> text]
<1> DEFINE p0 == [lines |-> << >>, data |-> text]
           Step(p) == IF Contains(p.data, LF)
                      THEN [lines |-> Append(p.lines, FirstLine(p.data)), data |-> After(p.data)]
                      ELSE p
           Is(f) == f = [i \in Nat |-> IF i = 0 THEN p0 ELSE Step(f[i - 1])]
           breaks == {i \in DOMAIN text : text[i] \in Breaks}
<1>1. Step(p0) = p0
  BY DEF Contains
<1> HIDE DEF p0, Step
<1>2. \E f : Is(f)
  <2> WITNESS [i \in Nat |-> p0]
  <2> QED BY <1>1
<1>3. PICK after : after = CHOOSE f : Is(f)
  OBVIOUS
<1>4. Is(after)
  BY <1>2, <1>3
<1>5. after[0] = p0
  BY <1>4
<1>6. after[1] = p0
  BY <1>1, <1>4, <1>5
<1>7. Cardinality(breaks) \in {0, 1}
  <2>1. breaks = {} \/ breaks = {4}
    OBVIOUS
  <2> QED BY <2>1, FS_EmptySet, FS_Singleton
<1>8. Parsed(text) = after[Cardinality(breaks)]
  BY <1>3 DEF Parsed, p0, Step
<1> QED BY <1>5, <1>6, <1>7, <1>8 DEF p0

\* The line is emitted when its end is there, and nothing is left of it.
LEMMA OneLine ==
  ASSUME NEW c \in Commands, NEW w, IsLine(w, c)
  PROVE  Parsed(w) = [lines |-> <<  <<w[1], w[2], w[3]>>  >>, data |-> << >>]
<1>0. w \in Seq(Tokens) /\ Len(w) \in {4, 5} /\ DOMAIN w = 1 .. Len(w)
  BY DEF IsLine
<1>1. \A i \in DOMAIN w : w[i] \in Breaks <=> i \in 4 .. Len(w)
  <2>1. w[1] \notin Breaks /\ w[2] \notin Breaks /\ w[3] \notin Breaks
    BY DEF IsLine, LegalCommands, Breaks, Blank, CR, LF
  <2>2. w[4] \in Breaks /\ w[Len(w)] \in Breaks
    BY DEF IsLine, Breaks
  <2> QED BY <1>0, <2>1, <2>2
<1>2. BreakAt(w) = 4
  <2>1. {i \in DOMAIN w : w[i] \in Breaks} = 4 .. Len(w)
    BY <1>0, <1>1
  <2>2. Min(4 .. Len(w)) = 4
    BY <1>0 DEF Min
  <2> QED BY <2>1, <2>2 DEF BreakAt
<1>3. BreakEnd(w) = Len(w)
  <2>1. {j \in 4 .. Len(w) : \A i \in 4 .. j : w[i] \in Breaks} = 4 .. Len(w)
    BY <1>0, <1>1
  <2>2. Max(4 .. Len(w)) = Len(w)
    BY <1>0 DEF Max
  <2> QED BY <1>2, <2>1, <2>2 DEF BreakEnd
<1>4. After(w) = << >>
  BY <1>0, <1>3, SubSeqEmpty DEF After
<1>5. FirstLine(w) = <<w[1], w[2], w[3]>>
  <2>1. PICK s : s = SubSeq(w, 1, 3)
    OBVIOUS
  <2>2. s \in Seq(Tokens) /\ Len(s) = 3 /\ s[1] = w[1] /\ s[2] = w[2] /\ s[3] = w[3]
    BY <1>0, <2>1
  <2>3. s = <<w[1], w[2], w[3]>>
    <3>1. s = <<s[1], s[2], s[3]>>
      BY <2>2, TupleOfThree
    <3> QED BY <2>2, <3>1
  <2>4. FirstLine(w) = s \o << >>
    BY <1>2, <1>4, <2>1 DEF FirstLine
  <2> QED BY <2>2, <2>3, <2>4, ConcatEmptySeq
<1>6. Contains(w, LF)
  BY <1>0 DEF Contains, IsLine
<1>7. ~Contains(<< >>, LF)
  BY DEF Contains
<1> DEFINE p0 == [lines |-> << >>, data |-> w]
           p1 == [lines |-> <<  <<w[1], w[2], w[3]>>  >>, data |-> << >>]
           Step(p) == IF Contains(p.data, LF)
                      THEN [lines |-> Append(p.lines, FirstLine(p.data)), data |-> After(p.data)]
                      ELSE p
           Is(f) == f = [i \in Nat |-> IF i = 0 THEN p0 ELSE Step(f[i - 1])]
           breaks == {i \in DOMAIN w : w[i] \in Breaks}
<1>8. Step(p0) = p1
  <2>1. Append(<< >>, FirstLine(w)) = << <<w[1], w[2], w[3]>> >>
    BY <1>5
  <2> QED BY <1>4, <1>6, <2>1
<1>9. Step(p1) = p1
  BY <1>7
<1>10. Cardinality(breaks) \in {1, 2}
  <2>1. breaks = 4 .. Len(w)
    BY <1>0, <1>1
  <2>2. Cardinality(4 .. 4) = 1 /\ Cardinality(4 .. 5) = 2
    <3>1. 4 .. 4 = {4} /\ 4 .. 5 = {4} \cup {5} /\ 5 \notin {4}
      OBVIOUS
    <3>2. IsFiniteSet({4}) /\ Cardinality({4}) = 1
      BY FS_Singleton
    <3>3. Cardinality({4} \cup {5}) = 1 + 1
      BY <3>1, <3>2, FS_AddElement
    <3> QED BY <3>1, <3>2, <3>3
  <2>3. CASE Len(w) = 4
    BY <2>1, <2>2, <2>3
  <2>4. CASE Len(w) = 5
    BY <2>1, <2>2, <2>4
  <2> QED BY <1>0, <2>3, <2>4
<1> HIDE DEF p0, p1, Step, breaks
<1>11. \E f : Is(f)
  <2> WITNESS [i \in Nat |-> IF i = 0 THEN p0 ELSE p1]
  <2> QED BY <1>8, <1>9
<1>12. PICK after : after = CHOOSE f : Is(f)
  OBVIOUS
<1>13. Is(after)
  BY <1>11, <1>12
<1>14. after[0] = p0
  BY <1>13
<1>15. after[1] = p1
  BY <1>8, <1>13, <1>14
<1>16. after[2] = p1
  BY <1>9, <1>13, <1>15
<1>17. Parsed(w) = after[Cardinality(breaks)]
  BY <1>12 DEF Parsed, p0, Step, breaks
<1> QED BY <1>10, <1>15, <1>16, <1>17 DEF p1

\* The command is the one the client meant.
LEMMA RightCommand ==
  ASSUME NEW c \in Commands, NEW w, IsLine(w, c)
  PROVE  Command(<<w[1], w[2], w[3]>>) = c
<1> DEFINE line == <<w[1], w[2], w[3]>>
<1>1. w[1] # Blank /\ w[2] = Blank /\ w[3] # Blank /\ w[1] \in LegalCommands /\ w[3] \notin Breaks
  BY DEF IsLine, LegalCommands, Blank
<1>2. DOMAIN line = 1 .. 3 /\ Len(line) = 3 /\ line[1] = w[1] /\ line[2] = w[2] /\ line[3] = w[3]
  OBVIOUS
<1>3. Contains(line, Blank)
  BY <1>1, <1>2 DEF Contains
<1>4. Min({i \in DOMAIN line : line[i] = Blank}) = 2
  <2>1. {i \in DOMAIN line : line[i] = Blank} = {2}
    BY <1>1, <1>2
  <2> QED BY <2>1 DEF Min
<1>5. SubSeq(line, 1, 1) = <<w[1]>> /\ SubSeq(line, 3, 3) = <<w[3]>>
  <2>1. line \in Seq(Tokens)
    BY <1>1 DEF IsLine
  <2>2. PICK s, t : s = SubSeq(line, 1, 1) /\ t = SubSeq(line, 3, 3)
    OBVIOUS
  <2> HIDE DEF line
  <2>3. s \in Seq(Tokens) /\ Len(s) = 1 /\ s[1] = w[1]
    <3>1. s[1] = line[1]
      BY <1>2, <2>1, <2>2
    <3> QED BY <1>2, <2>1, <2>2, <3>1
  <2>4. t \in Seq(Tokens) /\ Len(t) = 1 /\ t[1] = w[3]
    <3>1. t[1] = line[3]
      BY <1>2, <2>1, <2>2
    <3> QED BY <1>2, <2>1, <2>2, <3>1
  <2> QED BY <2>2, <2>3, <2>4, TupleOfOne
<1> HIDE DEF line
<1>6. \A i \in DOMAIN <<w[3]>> : <<w[3]>>[i] \notin Breaks
  BY <1>1
<1>7. <<w[1]>>[1] = w[1]
  OBVIOUS
<1>8. Command(line) = [cmd |-> w[1], arg |-> <<w[3]>>]
  <2>1. 2 - 1 = 1 /\ 2 + 1 = 3
    OBVIOUS
  <2> QED BY <1>1, <1>2, <1>3, <1>4, <1>5, <1>6, <1>7, <2>1 DEF Command
<1>9. c = [cmd |-> w[1], arg |-> <<w[3]>>]
  BY DEF IsLine, Commands
<1> QED BY <1>8, <1>9 DEF line

-----------------------------------------------------------------------------
(***************************************************************************)
(* The handlers.                                                           *)
(***************************************************************************)

LEMMA HandleNone ==
  ASSUME NEW s
  PROVE  HandleAll(s, << >>) = s
<1> DEFINE Is(f) == f = [i \in 0 .. Len(<< >>) |-> IF i = 0 THEN s ELSE Handle(f[i - 1], << >>[i])]
<1>1. 0 .. Len(<< >>) = {0}
  OBVIOUS
<1>2. \E f : Is(f)
  <2> WITNESS [i \in 0 .. Len(<< >>) |-> s]
  <2> QED BY <1>1
<1>3. PICK after : after = CHOOSE f : Is(f)
  OBVIOUS
<1>4. Is(after)
  BY <1>2, <1>3
<1>5. after[0] = s
  BY <1>1, <1>4
<1>6. HandleAll(s, << >>) = after[0]
  BY <1>3 DEF HandleAll
<1> QED BY <1>5, <1>6

LEMMA HandleOne ==
  ASSUME NEW s, NEW c
  PROVE  HandleAll(s, <<c>>) = Handle(s, c)
<1> DEFINE Is(f) == f = [i \in 0 .. Len(<<c>>) |-> IF i = 0 THEN s ELSE Handle(f[i - 1], <<c>>[i])]
<1>1. 0 .. Len(<<c>>) = {0, 1} /\ <<c>>[1] = c /\ Len(<<c>>) = 1
  OBVIOUS
<1>2. \E f : Is(f)
  <2> WITNESS [i \in 0 .. Len(<<c>>) |-> IF i = 0 THEN s ELSE Handle(s, c)]
  <2> QED BY <1>1
<1>3. PICK after : after = CHOOSE f : Is(f)
  OBVIOUS
<1>4. Is(after)
  BY <1>2, <1>3
<1>5. after[0] = s
  BY <1>1, <1>4
<1>6. after[1] = Handle(s, c)
  BY <1>1, <1>4, <1>5
<1>7. HandleAll(s, <<c>>) = after[1]
  BY <1>1, <1>3 DEF HandleAll
<1> QED BY <1>6, <1>7

\* A command of the client is answered at once or looked up, never both and
\* never neither.
LEMMA HandledOnce ==
  ASSUME NEW c \in Commands, NEW r
  PROVE  \A t, h : h = Handle([t |-> t, r |-> r, l |-> << >>], c) =>
           \/ \E code \in Nat : h.r = Append(r, [to |-> c, code |-> code]) /\ h.l = << >>
           \/ h.r = r /\ h.l = <<c>>
<1> SUFFICES ASSUME NEW t, NEW h, h = Handle([t |-> t, r |-> r, l |-> << >>], c)
             PROVE  \/ \E code \in Nat : h.r = Append(r, [to |-> c, code |-> code]) /\ h.l = << >>
                    \/ h.r = r /\ h.l = <<c>>
  OBVIOUS
<1> DEFINE s == [t |-> t, r |-> r, l |-> << >>]
<1>1. s.t = t /\ s.r = r /\ s.l = << >>
  OBVIOUS
<1>2. \A code \in Nat : /\ Reply(s, c, code).r = Append(r, [to |-> c, code |-> code])
                        /\ Reply(s, c, code).l = << >>
                        /\ [Reply(s, c, code) EXCEPT !.t = Team].r = Append(r, [to |-> c, code |-> code])
                        /\ [Reply(s, c, code) EXCEPT !.t = Team].l = << >>
  BY DEF Reply
<1>3. [s EXCEPT !.l = Append(@, c)].r = r /\ [s EXCEPT !.l = Append(@, c)].l = <<c>>
  OBVIOUS
<1> HIDE DEF s
<1>4. h = Handle(s, c)
  BY DEF s
<1>5. CASE c.cmd = "TEAM"
  <2>1. \/ h = Reply(s, c, 1) \/ h = Reply(s, c, 2)
        \/ h = [Reply(s, c, 0) EXCEPT !.t = Team]
    <3> HIDE DEF Reply
    <3>1. Handle(s, c) = IF s.t # NoTeam THEN Reply(s, c, 1)
                         ELSE IF c.arg # <<Team>> THEN Reply(s, c, 2)
                         ELSE [Reply(s, c, 0) EXCEPT !.t = Team]
      BY <1>5 DEF Handle
    <3> QED BY <1>4, <3>1
  <2>2. 0 \in Nat /\ 1 \in Nat /\ 2 \in Nat
    OBVIOUS
  <2> QED BY <1>2, <2>1, <2>2
<1>6. CASE c.cmd # "TEAM"
  <2>1. c.cmd = "FLAG" /\ c.arg \in {<<f>> : f \in FlagIds}
    BY <1>6 DEF Commands
  <2>2. h = Reply(s, c, 3) \/ h = [s EXCEPT !.l = Append(@, c)]
    <3>1. Handle(s, c) = IF s.t = NoTeam THEN Reply(s, c, 3)
                         ELSE [s EXCEPT !.l = Append(@, c)]
      BY <1>6, <2>1 DEF Handle
    <3> QED BY <1>4, <3>1
  <2>3. 3 \in Nat
    OBVIOUS
  <2> QED BY <1>2, <1>3, <2>2, <2>3
<1> QED BY <1>5, <1>6

-----------------------------------------------------------------------------
(***************************************************************************)
(* The invariant.                                                          *)
(***************************************************************************)

LEMMA LineInvInit ==
  Init => LineInv
<1> SUFFICES ASSUME Init PROVE LineInv
  OBVIOUS
<1>1. LineTypes
  BY DEF Init, LineTypes
<1>2. Len(<< >>) = 0 /\ DOMAIN << >> = {}
  OBVIOUS
<1> QED BY <1>1, <1>2 DEF Init, LineInv, Quiet, Understood, RepliesInOrder

LEMMA SendKeepsLineInv ==
  ASSUME Waits = TRUE, LineInv, NEW c \in Commands, NEW end \in Ends, Send(c, end)
  PROVE  LineInv'
<1> USE DEF LineInv
<1>1. /\ Len(replies) = Len(sent)
      /\ sent' = Append(sent, c)
      /\ wire' = wire \o <<c.cmd, Blank>> \o c.arg \o end
      /\ UNCHANGED <<data, heard, team, lookups, replies>>
  BY DEF Send
<1>2. /\ wire = << >> /\ data = << >> /\ lookups = << >>
      /\ Len(heard) = Len(sent)
  <2>1. Len(sent) \in Int
    BY DEF LineTypes
  <2> QED BY <1>1, <2>1 DEF Quiet, Underway
<1>3. sent \in Seq(Commands) /\ Len(sent) \in Nat
  BY DEF LineTypes
<1>4. /\ sent' \in Seq(Commands) /\ Len(sent') = Len(sent) + 1 /\ sent'[Len(sent')] = c
      /\ \A i \in 1 .. Len(sent) : sent'[i] = sent[i]
  BY <1>1, <1>3
<1>5. PICK w : w = <<c.cmd, Blank>> \o c.arg \o end
  OBVIOUS
<1>6. IsLine(w, c)
  BY <1>5, WrittenIsLine
<1>7. w \in Seq(Tokens) /\ w # << >>
  BY <1>6 DEF IsLine
<1>8. wire' = w /\ data' \o wire' = w
  <2>1. <<c.cmd, Blank>> \in Seq(Tokens)
    BY DEF Commands, Tokens
  <2>2. << >> \o <<c.cmd, Blank>> = <<c.cmd, Blank>>
    BY <2>1, ConcatEmptySeq
  <2>3. wire' = w
    BY <1>1, <1>2, <1>5, <2>2
  <2> QED BY <1>1, <1>2, <1>7, <2>3, ConcatEmptySeq
<1>9. LineTypes'
  BY <1>1, <1>4, <1>7, <1>8 DEF LineTypes
<1>10. Underway'
  <2>1. Len(sent') > 0 /\ Len(heard') = Len(sent') - 1 /\ Len(replies') = Len(sent') - 1
    BY <1>1, <1>2, <1>3, <1>4
  <2>2. IsLine(data' \o wire', sent'[Len(sent')])
    BY <1>4, <1>6, <1>8
  <2> QED BY <1>1, <1>2, <1>7, <1>8, <2>1, <2>2 DEF Underway
<1>11. DOMAIN heard = 1 .. Len(sent) /\ DOMAIN replies = 1 .. Len(sent)
  BY <1>1, <1>2 DEF LineTypes
<1>12. Understood'
  BY <1>1, <1>2, <1>3, <1>4, <1>11 DEF Understood
<1>13. RepliesInOrder'
  BY <1>1, <1>2, <1>3, <1>4, <1>11 DEF RepliesInOrder
<1> QED BY <1>9, <1>10, <1>12, <1>13

LEMMA AnswerKeepsLineInv ==
  ASSUME LineInv, NEW i \in DOMAIN lookups, Answer(i)
  PROVE  LineInv'
<1> USE DEF LineInv
<1>1. /\ wire = << >> /\ data = << >> /\ Len(heard) = Len(sent) /\ Len(sent) > 0
      /\ Len(replies) = Len(sent) - 1
      /\ Len(lookups) = 1 /\ lookups[1] = sent[Len(sent)]
  BY DEF Quiet, Underway, LineTypes
<1>2. /\ sent \in Seq(Commands) /\ Len(sent) \in Nat /\ lookups \in Seq(Commands)
      /\ replies \in Seq([to : Commands, code : Nat])
  BY DEF LineTypes
<1>3. i = 1
  BY <1>1, <1>2
<1>4. PICK code \in {0, 7} : replies' = Append(replies, [to |-> lookups[1], code |-> code])
  BY <1>3 DEF Answer
<1>5. lookups[1] \in Commands
  BY <1>1, <1>2
<1>6. [to |-> lookups[1], code |-> code] \in [to : Commands, code : Nat]
  BY <1>5
<1>7. PICK a : a = [to |-> lookups[1], code |-> code]
  OBVIOUS
<1>8. a \in [to : Commands, code : Nat] /\ a.to = sent[Len(sent)]
  BY <1>1, <1>6, <1>7
<1>9. /\ replies' \in Seq([to : Commands, code : Nat]) /\ Len(replies') = Len(sent)
      /\ replies'[Len(sent)] = a /\ \A j \in 1 .. Len(sent) - 1 : replies'[j] = replies[j]
  BY <1>1, <1>2, <1>4, <1>7, <1>8
<1>10. lookups' = << >>
  <2>1. SubSeq(lookups, 1, 0) = << >> /\ SubSeq(lookups, 2, 1) = << >>
    BY SubSeqEmpty
  <2>2. lookups' = SubSeq(lookups, 1, 0) \o SubSeq(lookups, 2, 1)
    BY <1>1, <1>3 DEF Answer
  <2> QED BY <2>1, <2>2
<1>11. UNCHANGED <<sent, wire, data, heard, team>>
  BY DEF Answer
<1>12. LineTypes'
  BY <1>9, <1>10, <1>11 DEF LineTypes
<1>13. Quiet'
  BY <1>1, <1>9, <1>10, <1>11 DEF Quiet
<1>14. Understood'
  BY <1>11 DEF Understood
<1>15. RepliesInOrder'
  <2>1. DOMAIN replies' = 1 .. Len(sent) /\ DOMAIN replies = 1 .. Len(sent) - 1
    BY <1>1, <1>2, <1>9
  <2>2. \A j \in 1 .. Len(sent) - 1 : replies'[j].to = sent[j]
    BY <1>9, <2>1 DEF RepliesInOrder
  <2>3. \A j \in 1 .. Len(sent) : replies'[j].to = sent[j]
    BY <1>2, <1>8, <1>9, <2>2
  <2> QED BY <1>2, <1>9, <1>11, <2>1, <2>3 DEF RepliesInOrder
<1> QED BY <1>12, <1>13, <1>14, <1>15

\* The two halves of what is on its way, and the text the parser sees.
LEMMA CutOfWire ==
  ASSUME NEW d \in Seq(Tokens), NEW ws \in Seq(Tokens), NEW n \in 1 .. Len(ws)
  PROVE  \A w, text, rest :
           (w = d \o ws /\ text = d \o SubSeq(ws, 1, n) /\ rest = SubSeq(ws, n + 1, Len(ws))) =>
             /\ text \in Seq(Tokens) /\ rest \in Seq(Tokens)
             /\ w = text \o rest
             /\ Len(text) + Len(rest) = Len(w) /\ Len(rest) = Len(ws) - n
             /\ \A i \in 1 .. Len(text) : text[i] = w[i]
<1>1. PICK chunk, rest : chunk = SubSeq(ws, 1, n) /\ rest = SubSeq(ws, n + 1, Len(ws))
  OBVIOUS
<1>2. chunk \in Seq(Tokens) /\ rest \in Seq(Tokens) /\ Len(rest) = Len(ws) - n
  BY <1>1
<1>3. ws = chunk \o rest
  <2>1. 1 \in 1 .. Len(ws) + 1 /\ n \in 1 - 1 .. Len(ws) /\ Len(ws) \in n .. Len(ws)
    OBVIOUS
  <2>2. SubSeq(ws, 1, n) \o SubSeq(ws, n + 1, Len(ws)) = SubSeq(ws, 1, Len(ws))
    BY <2>1, ConcatAdjacentSubSeq
  <2>3. SubSeq(ws, 1, Len(ws)) = ws
    BY SubSeqFull
  <2> QED BY <1>1, <2>2, <2>3
<1>4. PICK text : text = d \o chunk
  OBVIOUS
<1>5. text \in Seq(Tokens)
  BY <1>2, <1>4, ConcatProperties
<1>6. text \o rest = d \o ws
  <2>1. PICK one, two : one = text \o rest /\ two = d \o ws
    OBVIOUS
  <2>2. /\ one \in Seq(Tokens) /\ Len(one) = Len(text) + Len(rest)
        /\ \A i \in 1 .. Len(text) + Len(rest) :
             one[i] = IF i <= Len(text) THEN text[i] ELSE rest[i - Len(text)]
    BY <1>2, <1>5, <2>1, ConcatProperties
  <2>3. /\ two \in Seq(Tokens) /\ Len(two) = Len(d) + Len(ws)
        /\ \A i \in 1 .. Len(d) + Len(ws) : two[i] = IF i <= Len(d) THEN d[i] ELSE ws[i - Len(d)]
    BY <2>1, ConcatProperties
  <2>4. /\ Len(ws) = Len(chunk) + Len(rest)
        /\ \A i \in 1 .. Len(chunk) + Len(rest) :
             ws[i] = IF i <= Len(chunk) THEN chunk[i] ELSE rest[i - Len(chunk)]
    BY <1>2, <1>3, ConcatProperties
  <2>5. /\ Len(text) = Len(d) + Len(chunk)
        /\ \A i \in 1 .. Len(d) + Len(chunk) : text[i] = IF i <= Len(d) THEN d[i] ELSE chunk[i - Len(d)]
    BY <1>2, <1>4, ConcatProperties
  <2>6. Len(d) \in Nat /\ Len(chunk) \in Nat /\ Len(rest) \in Nat
    BY <1>2
  <2>7. Len(one) = Len(two)
    BY <2>2, <2>3, <2>4, <2>5, <2>6
  <2>8. ASSUME NEW i \in 1 .. Len(one)
        PROVE  one[i] = two[i]
    <3> DEFINE ld == Len(d)  lc == Len(chunk)  lr == Len(rest)
    <3>0. /\ ld \in Nat /\ lc \in Nat /\ lr \in Nat /\ i \in 1 .. (ld + lc) + lr
          /\ Len(text) = ld + lc /\ Len(ws) = lc + lr
      BY <2>2, <2>4, <2>5, <2>6
    <3> HIDE DEF ld, lc, lr
    <3>1. CASE i <= ld
      <4>1. i \in 1 .. ld + lc /\ i <= ld + lc /\ i \in 1 .. ld + (lc + lr)
        BY <3>0, <3>1
      <4>2. one[i] = text[i]
        BY <2>2, <3>0, <4>1 DEF lr
      <4>3. text[i] = d[i]
        BY <2>5, <3>1, <4>1 DEF ld, lc
      <4>4. two[i] = d[i]
        BY <2>3, <3>0, <3>1, <4>1 DEF ld
      <4> QED BY <4>2, <4>3, <4>4
    <3>2. CASE ~(i <= ld) /\ i <= ld + lc
      <4>1. /\ i \in 1 .. ld + lc /\ i \in 1 .. ld + (lc + lr)
            /\ i - ld \in 1 .. lc + lr /\ i - ld <= lc
        BY <3>0, <3>2
      <4>2. one[i] = text[i]
        BY <2>2, <3>0, <3>2 DEF lr
      <4>3. text[i] = chunk[i - ld]
        BY <2>5, <3>2, <4>1 DEF ld, lc
      <4>4. two[i] = ws[i - ld]
        BY <2>3, <3>0, <3>2, <4>1 DEF ld
      <4>5. ws[i - ld] = chunk[i - ld]
        BY <2>4, <4>1 DEF lc, lr
      <4> QED BY <4>2, <4>3, <4>4, <4>5
    <3>3. CASE ~(i <= ld + lc)
      <4>1. /\ i \in 1 .. ld + (lc + lr) /\ ~(i <= ld) /\ i - ld \in 1 .. lc + lr /\ ~(i - ld <= lc)
            /\ (i - ld) - lc = i - (ld + lc)
        BY <3>0, <3>3
      <4>2. one[i] = rest[i - (ld + lc)]
        BY <2>2, <3>0, <3>3 DEF lr
      <4>3. two[i] = ws[i - ld]
        BY <2>3, <3>0, <4>1 DEF ld
      <4>4. ws[i - ld] = rest[(i - ld) - lc]
        BY <2>4, <4>1 DEF lc, lr
      <4> QED BY <4>1, <4>2, <4>3, <4>4
    <3> QED BY <3>1, <3>2, <3>3
  <2> QED BY <2>1, <2>2, <2>3, <2>7, <2>8, SeqEqual
<1>7. /\ Len(text \o rest) = Len(text) + Len(rest)
      /\ \A i \in 1 .. Len(text) + Len(rest) :
           (text \o rest)[i] = IF i <= Len(text) THEN text[i] ELSE rest[i - Len(text)]
  BY <1>2, <1>5, ConcatProperties
<1>8. PICK w : w = d \o ws
  OBVIOUS
<1>9. w = text \o rest
  BY <1>6, <1>8
<1>10. \A i \in 1 .. Len(text) : text[i] = w[i]
  <2>1. Len(text) \in Nat /\ Len(rest) \in Nat
    BY <1>2, <1>5
  <2>2. \A i \in 1 .. Len(text) : i \in 1 .. Len(text) + Len(rest) /\ i <= Len(text)
    BY <2>1
  <2> QED BY <1>7, <1>9, <2>2
<1>11. Len(text) + Len(rest) = Len(w)
  BY <1>7, <1>9
<1> QED BY <1>1, <1>2, <1>4, <1>5, <1>8, <1>9, <1>10, <1>11

\* The end of the line has not come yet.
LEMMA PartKeepsLineInv ==
  ASSUME LineInv, NEW n \in 1 .. Len(wire), Receive(n), n # Len(wire)
  PROVE  LineInv'
<1> USE DEF LineInv
<1>1. Underway
  BY DEF Quiet
<1>2. /\ sent \in Seq(Commands) /\ Len(sent) \in Nat /\ heard \in Seq(Commands)
      /\ wire \in Seq(Tokens) /\ data \in Seq(Tokens) /\ Len(wire) \in Nat
      /\ lookups = << >>
  BY <1>1 DEF LineTypes, Underway
<1>3. PICK w, text, rest : /\ w = data \o wire
                           /\ text = data \o SubSeq(wire, 1, n)
                           /\ rest = SubSeq(wire, n + 1, Len(wire))
  OBVIOUS
<1>4. /\ text \in Seq(Tokens) /\ rest \in Seq(Tokens)
      /\ w = text \o rest
      /\ Len(text) + Len(rest) = Len(w) /\ Len(rest) = Len(wire) - n
      /\ \A i \in 1 .. Len(text) : text[i] = w[i]
  <2>1. \A one, two, three :
          (/\ one = data \o wire /\ two = data \o SubSeq(wire, 1, n)
           /\ three = SubSeq(wire, n + 1, Len(wire))) =>
            /\ two \in Seq(Tokens) /\ three \in Seq(Tokens)
            /\ one = two \o three
            /\ Len(two) + Len(three) = Len(one) /\ Len(three) = Len(wire) - n
            /\ \A i \in 1 .. Len(two) : two[i] = one[i]
    BY <1>2, CutOfWire
  <2> QED BY <1>3, <2>1
<1>5. IsLine(w, sent[Len(sent)])
  BY <1>1, <1>3 DEF Underway
<1>6. \A i \in DOMAIN text : text[i] # LF /\ (text[i] \in Breaks => i = 4)
  <2>1. Len(w) \in {4, 5} /\ Len(text) < Len(w) /\ Len(text) \in Nat
    BY <1>2, <1>4, <1>5 DEF IsLine
  <2>2. /\ w[1] \notin Breaks /\ w[2] \notin Breaks /\ w[3] \notin Breaks
    BY <1>5 DEF IsLine, LegalCommands, Breaks, Blank, CR, LF
  <2>2b. Len(w) = 5 => w[4] # LF
    BY <1>5 DEF IsLine
  <2>3. \A i \in DOMAIN text : i \in 1 .. 4 /\ text[i] = w[i] /\ (i = 4 => Len(w) = 5)
    BY <1>4, <2>1
  <2>4. LF \in Breaks
    BY DEF Breaks
  <2>5. ASSUME NEW i \in DOMAIN text
        PROVE  text[i] # LF /\ (text[i] \in Breaks => i = 4)
    <3>1. i = 1 \/ i = 2 \/ i = 3 \/ i = 4
      BY <2>3
    <3> QED BY <2>2, <2>3, <2>4, <2>2b, <3>1
  <2> QED BY <2>5
<1>7. Parsed(text) = [lines |-> << >>, data |-> text]
  BY <1>4, <1>6, NoLineYet
<1>8. Lines(text) = << >> /\ Rest(text) = text
  BY <1>7 DEF Lines, Rest
<1>9. [i \in DOMAIN << >> |-> Command(<< >>[i])] = << >>
  OBVIOUS
<1>10. PICK s : s = [t |-> team, r |-> replies, l |-> lookups]
  OBVIOUS
<1>11. HandleAll(s, << >>) = s
  BY HandleNone
<1>12. /\ data' = text /\ wire' = rest
       /\ heard' = heard /\ replies' = replies /\ lookups' = lookups /\ sent' = sent
  <2>1. heard \o << >> = heard
    BY <1>2, ConcatEmptySeq
  <2>2. s.r = replies /\ s.l = lookups
    BY <1>10
  <2> QED BY <1>3, <1>8, <1>9, <1>10, <1>11, <2>1, <2>2 DEF Receive, Joined
<1>13. LineTypes'
  BY <1>4, <1>12 DEF LineTypes
<1>14. Underway'
  <2>1. rest # << >>
    BY <1>2, <1>4
  <2> QED BY <1>1, <1>4, <1>5, <1>12, <2>1 DEF Underway
<1>15. Understood' /\ RepliesInOrder'
  BY <1>12 DEF Understood, RepliesInOrder
<1> QED BY <1>13, <1>14, <1>15

\* The end of the line is there.
LEMMA WholeKeepsLineInv ==
  ASSUME LineInv, NEW n \in 1 .. Len(wire), Receive(n), n = Len(wire)
  PROVE  LineInv'
<1> USE DEF LineInv
<1>1. Underway
  BY DEF Quiet
<1>2. /\ sent \in Seq(Commands) /\ Len(sent) \in Nat \ {0} /\ heard \in Seq(Commands)
      /\ wire \in Seq(Tokens) /\ data \in Seq(Tokens) /\ Len(wire) \in Nat
      /\ replies \in Seq([to : Commands, code : Nat])
      /\ lookups = << >> /\ Len(heard) = Len(sent) - 1 /\ Len(replies) = Len(sent) - 1
  BY <1>1 DEF LineTypes, Underway
<1>3. PICK w, c : w = data \o wire /\ c = sent[Len(sent)]
  OBVIOUS
<1>4. c \in Commands /\ IsLine(w, c)
  BY <1>1, <1>2, <1>3 DEF Underway
<1>5. SubSeq(wire, 1, n) = wire /\ SubSeq(wire, n + 1, Len(wire)) = << >>
  <2>1. n \in Int /\ n + 1 \in Int /\ Len(wire) < n + 1
    BY <1>2
  <2> QED BY <1>2, <2>1, SubSeqFull, SubSeqEmpty
<1>6. PICK line : line = <<w[1], w[2], w[3]>>
  OBVIOUS
<1>7. Lines(w) = <<line>> /\ Rest(w) = << >>
  <2>1. Parsed(w) = [lines |-> <<line>>, data |-> << >>]
    BY <1>4, <1>6, OneLine
  <2> QED BY <2>1 DEF Lines, Rest
<1>8. Command(line) = c
  BY <1>4, <1>6, RightCommand
<1>9. [i \in DOMAIN <<line>> |-> Command(<<line>>[i])] = <<c>>
  BY <1>8
<1>10. PICK h : h = Handle([t |-> team, r |-> replies, l |-> lookups], c)
  OBVIOUS
<1>11. HandleAll([t |-> team, r |-> replies, l |-> lookups], <<c>>) = h
  BY <1>10, HandleOne
<1>12. /\ data' = << >> /\ wire' = << >>
       /\ heard' = heard \o <<c>> /\ replies' = h.r /\ lookups' = h.l /\ sent' = sent
  <2>1. Joined(SubSeq(wire, 1, n)) = w
    BY <1>3, <1>5 DEF Joined
  <2> QED BY <1>5, <1>7, <1>9, <1>11, <2>1 DEF Receive
<1>13. \/ \E code \in Nat : h.r = Append(replies, [to |-> c, code |-> code]) /\ h.l = << >>
       \/ h.r = replies /\ h.l = <<c>>
  <2>1. h = Handle([t |-> team, r |-> replies, l |-> << >>], c)
    BY <1>2, <1>10
  <2>2. \A t, k : k = Handle([t |-> t, r |-> replies, l |-> << >>], c) =>
          \/ \E code \in Nat : k.r = Append(replies, [to |-> c, code |-> code]) /\ k.l = << >>
          \/ k.r = replies /\ k.l = <<c>>
    BY <1>4, HandledOnce
  <2> QED BY <2>1, <2>2, Zenon
<1>14. /\ heard' \in Seq(Commands) /\ Len(heard') = Len(sent) /\ heard'[Len(sent)] = c
       /\ \A i \in 1 .. Len(sent) - 1 : heard'[i] = heard[i]
  <2>1. heard' = Append(heard, c)
    BY <1>2, <1>4, <1>12, AppendIsConcat
  <2> QED BY <1>2, <1>4, <2>1
<1>15. Understood'
  <2>1. DOMAIN heard' = 1 .. Len(sent) /\ DOMAIN heard = 1 .. Len(sent) - 1
    BY <1>2, <1>14
  <2>2. \A i \in 1 .. Len(sent) : heard'[i] = sent[i]
    <3>1. \A i \in 1 .. Len(sent) - 1 : heard[i] = sent[i]
      BY <2>1 DEF Understood
    <3>2. \A i \in 1 .. Len(sent) : i = Len(sent) \/ i \in 1 .. Len(sent) - 1
      BY <1>2
    <3> QED BY <1>3, <1>14, <3>1, <3>2
  <2> QED BY <1>2, <1>12, <1>14, <2>1, <2>2 DEF Understood
<1>16. CASE h.r = replies /\ h.l = <<c>>
  <2>1. <<c>> \in Seq(Commands) /\ Len(<<c>>) = 1 /\ <<c>>[1] = c
    BY <1>4
  <2>2. LineTypes'
    BY <1>2, <1>12, <1>14, <1>16, <2>1 DEF LineTypes
  <2>3. Quiet'
    BY <1>2, <1>3, <1>12, <1>14, <1>16, <2>1 DEF Quiet
  <2>4. RepliesInOrder'
    BY <1>12, <1>16 DEF RepliesInOrder
  <2> QED BY <1>15, <2>2, <2>3, <2>4
<1>17. CASE \E code \in Nat : h.r = Append(replies, [to |-> c, code |-> code]) /\ h.l = << >>
  <2>1. PICK a \in [to : Commands, code : Nat] : h.r = Append(replies, a) /\ a.to = c
    <3>1. PICK code \in Nat : h.r = Append(replies, [to |-> c, code |-> code])
      BY <1>17
    <3>2. [to |-> c, code |-> code] \in [to : Commands, code : Nat]
      BY <1>4
    <3> QED BY <3>1, <3>2
  <2>2. /\ replies' \in Seq([to : Commands, code : Nat]) /\ Len(replies') = Len(sent)
        /\ replies'[Len(sent)] = a /\ \A j \in 1 .. Len(sent) - 1 : replies'[j] = replies[j]
    BY <1>2, <1>12, <2>1
  <2>3. LineTypes'
    BY <1>2, <1>12, <1>14, <1>17, <2>2 DEF LineTypes
  <2>4. Quiet'
    BY <1>2, <1>12, <1>14, <1>17, <2>2 DEF Quiet
  <2>5. RepliesInOrder'
    <3>1. DOMAIN replies' = 1 .. Len(sent) /\ DOMAIN replies = 1 .. Len(sent) - 1
      BY <1>2, <2>2
    <3>2. \A j \in 1 .. Len(sent) : replies'[j].to = sent[j]
      <4>1. \A j \in 1 .. Len(sent) - 1 : replies[j].to = sent[j]
        BY <3>1 DEF RepliesInOrder
      <4>2. \A j \in 1 .. Len(sent) : j = Len(sent) \/ j \in 1 .. Len(sent) - 1
        BY <1>2
      <4> QED BY <1>3, <2>1, <2>2, <4>1, <4>2
    <3> QED BY <1>2, <1>12, <2>2, <3>1, <3>2 DEF RepliesInOrder
  <2> QED BY <1>15, <2>3, <2>4, <2>5
<1> QED BY <1>13, <1>16, <1>17

-----------------------------------------------------------------------------

LEMMA LineInvHolds ==
  ASSUME Waits = TRUE
  PROVE  Spec => []LineInv
<1>1. Init => LineInv
  BY LineInvInit
<1>2. LineInv /\ [Next]_vars => LineInv'
  <2> SUFFICES ASSUME LineInv, [Next]_vars PROVE LineInv'
    OBVIOUS
  <2>1. CASE \E c \in Commands, end \in Ends : Send(c, end)
    BY <2>1, SendKeepsLineInv
  <2>2. CASE \E n \in 1 .. Len(wire) : Receive(n)
    BY <2>2, PartKeepsLineInv, WholeKeepsLineInv
  <2>3. CASE \E i \in DOMAIN lookups : Answer(i)
    BY <2>3, AnswerKeepsLineInv
  <2>4. CASE UNCHANGED vars
    BY <2>4 DEF vars, LineInv, LineTypes, Quiet, Underway, IsLine, Understood, RepliesInOrder
  <2> QED BY <2>1, <2>2, <2>3, <2>4 DEF Next
<1> QED BY <1>1, <1>2, PTL DEF Spec

\* The n-th reply answers the n-th line a client has sent that waits for each
\* reply before it sends the next line: the daemon writes a reply to a flag
\* whenever the database is done, and TCP cuts the lines where it likes.
THEOREM WaitingClientIsAnsweredInOrder ==
  ASSUME Waits = TRUE
  PROVE  Spec => []RepliesInOrder
<1>1. LineInv => RepliesInOrder
  BY DEF LineInv
<1> QED BY <1>1, LineInvHolds, PTL

\* The daemon hears every line of such a client as it was sent; of a client
\* that does not wait this is false, the run `pipelined' shows it.
THEOREM WaitingClientIsUnderstood ==
  ASSUME Waits = TRUE
  PROVE  Spec => []Understood
<1>1. LineInv => Understood
  BY DEF LineInv
<1> QED BY <1>1, LineInvHolds, PTL
=============================================================================
