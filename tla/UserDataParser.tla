---------------------------- MODULE UserDataParser ----------------------------
(***************************************************************************)
(* src/lib/userdataparser.js: cutting what arrives on a TCP connection     *)
(* into lines and a line into a command and its argument.  Text is a       *)
(* sequence of tokens: words, blanks and the two line break characters.    *)
(***************************************************************************)
EXTENDS Integers, Sequences, FiniteSetsExt

CR == "\r"
LF == "\n"
Blank == " "
Breaks == {CR, LF}
LegalCommands == {"TEAM", "FLAG"}

Contains(text, token) == \E i \in DOMAIN text : text[i] = token

\* [^\r\n]*? and [\r\n]+ of both regular expressions: where the first run of
\* line breaks begins, and where it ends.
BreakAt(text) == Min({i \in DOMAIN text : text[i] \in Breaks})
BreakEnd(text) ==
  Max({j \in BreakAt(text) .. Len(text) : \A i \in BreakAt(text) .. j : text[i] \in Breaks})

After(text) == SubSeq(text, BreakEnd(text) + 1, Len(text))

\* str: the buffer without its first run of line breaks.  All that follows it
\* is still there.
FirstLine(text) == SubSeq(text, 1, BreakAt(text) - 1) \o After(text)

\* _parse: a round of its loop emits the first line and cuts it off, as long as
\* there is one; each round cuts off at least one line break.
Parsed(text) ==
  LET after[i \in Nat] ==
        IF i = 0 THEN [lines |-> << >>, data |-> text]
        ELSE LET p == after[i - 1]
             IN  IF Contains(p.data, LF)
                 THEN [lines |-> Append(p.lines, FirstLine(p.data)), data |-> After(p.data)]
                 ELSE p
  IN  after[Cardinality({i \in DOMAIN text : text[i] \in Breaks})]

Lines(text) == Parsed(text).lines

\* Faulty: the lines that have been emitted stay in the buffer.
Rest_Whole(text) == text

\* What _parse returns, to be kept until more arrives.
Rest(text) == Parsed(text).data

\* The handler of `line': /^([^ ]*) (.*)$/, whose dot matches no line break,
\* and the list of commands.
Malformed == [cmd |-> "malformed", arg |-> << >>]
Command(line) ==
  IF ~Contains(line, Blank) THEN Malformed
  ELSE LET b    == Min({i \in DOMAIN line : line[i] = Blank})
           word == SubSeq(line, 1, b - 1)
           arg  == SubSeq(line, b + 1, Len(line))
       IN  IF /\ \A i \in DOMAIN arg : arg[i] \notin Breaks
              /\ \E c \in LegalCommands : word = <<c>>
           THEN [cmd |-> word[1], arg |-> arg] ELSE Malformed
=============================================================================
