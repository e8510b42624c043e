------------------------------- MODULE MCParts --------------------------------
(***************************************************************************)
(* The instance of Parts that TLC checks.                                  *)
(***************************************************************************)
EXTENDS Parts

Auth(u, own) == [type |-> "auth", user |-> u, own |-> own]
NewGame == [type |-> "new_game"]
Guess(right) == [type |-> "guess", right |-> right]
Dummy == [type |-> "dummy"]

\* Two connections of one user, one of which becomes another user during a
\* game, and a third that does not know the password; two slots for the three.
MCPeers == {"p1", "p2", "p3"}
MCUsers == {"u1", "u2"}
MCVeterans == {"u1"}
MCScript ==
  [p1 |-> <<Auth("u1", TRUE), NewGame, Guess(TRUE), Guess(FALSE)>>,
   p2 |-> <<Auth("u1", TRUE), NewGame, Auth("u2", TRUE), Dummy>>,
   p3 |-> <<Auth("u1", FALSE)>>]

\* One of the three is connected twice, and one has no real name.
MCVisitors == {<<"ann", 1>>, <<"ann", 2>>, <<"bob", 3>>, <<"cid", 4>>}
MCNameless == {"cid"}

\* A flag that was captured, one that was checked, one of a team that joined when
\* the daemon was running, and one which that team captured.
MCVizTeams == {"t1", "t2"}
MCDocs ==
  {[team |-> "t1", time |-> 0, captures |-> {[time |-> 3, team |-> "t2"]}, checks |-> {}],
   [team |-> "t2", time |-> 1, captures |-> {}, checks |-> {4}],
   [team |-> "t3", time |-> 1, captures |-> {}, checks |-> {}],
   [team |-> "t2", time |-> 1, captures |-> {[time |-> 2, team |-> "t3"]}, checks |-> {}]}
=============================================================================
