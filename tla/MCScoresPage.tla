----------------------------- MODULE MCScoresPage -----------------------------
EXTENDS ScoresPage
CONSTANTS t1, t2, t3, web, blog

MCPoints == [deliver |-> 1, capture |-> 2, defend |-> 3, check |-> 1]
MCFlags == {[team |-> t1, service |-> web, time |-> 0], [team |-> t2, service |-> blog, time |-> 0]}
MCChallenges == {[team |-> t3, time |-> 1, points |-> 2]}
=============================================================================
