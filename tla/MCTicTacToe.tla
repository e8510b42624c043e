----------------------------- MODULE MCTicTacToe -----------------------------
(* Small instances of TicTacToe for TLC. *)
EXTENDS TicTacToe, TLC

Symmetry == Permutations(Clients) \cup Permutations(Names)

\* Two squares are enough for the turns to change.  A game that uses more is gone
\* on with while there are two players.
TwoSquares == {s \in Squares : s[1] = 1 /\ s[2] <= 2}
FewSquaresOrPlayers ==
  \/ \E c \in Clients : state[c] = "none"
  \/ \A c \in Clients : game[c] # Nobody =>
       \A s \in Squares : games[game[c]].grid[s] # Free => s \in TwoSquares
==============================================================================
