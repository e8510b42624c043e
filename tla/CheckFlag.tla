------------------------------- MODULE CheckFlag -------------------------------
(***************************************************************************)
(* One call of checkFlag (src/lib/servicecommandexecuter.js): the check    *)
(* command of the service is started with the flag and, to catch services  *)
(* that say yes to everything, some more times with flags that were never  *)
(* planted.  The commands run side by side under the TimedExecuter         *)
(* (src/lib/timedexecuter.js) and their callbacks come in any order; they  *)
(* share four variables and the last of them calls back.                   *)
(***************************************************************************)
EXTENDS Integers, FiniteSets

CONSTANTS
  Good,     \* the command with the flag
  Bad,      \* the commands with a modified flag
  Failures, \* exit codes other than 0
  NoLine    \* the `null' combined_line starts with

ASSUME CheckAssumption ==
  /\ Good \notin Bad
  /\ IsFiniteSet(Bad)
  /\ 0 \notin Failures
  /\ NoLine \notin Bad \cup {Good}

TimedOut == -1  \* TimedExecuter.ERROR_CODES.TIMED_OUT, not an exit code

cmds == Bad \cup {Good}

Statuses == {0} \cup Failures \cup {TimedOut, 1}

\* Whose output a line is: the first line a command printed, `Timed out' of
\* the TimedExecuter or the `False positive detected' made from it.
LinesOf == cmds \cup {NoLine}

VARIABLES
  exit,            \* status the TimedExecuter reports for a command that ended
  running,         \* commands that have not ended
  combined_status,
  combined_line,
  count,
  calls            \* the calls of callback: their number, status and line

vars == <<exit, running, combined_status, combined_line, count, calls>>

TypeOK ==
  /\ exit \in [cmds -> Statuses]
  /\ running \subseteq cmds
  /\ combined_status \in Statuses
  /\ combined_line \in LinesOf
  /\ count \in Nat
  /\ calls \in [n : Nat, status : Statuses, line : LinesOf]

\* All commands are started in one go, in random order.
Init ==
  /\ exit = [c \in cmds |-> 0]
  /\ running = cmds
  /\ combined_status = 0
  /\ combined_line = NoLine
  /\ count = 0
  /\ calls = [n |-> 0, status |-> 0, line |-> NoLine]

\* Faulty: a modified flag that is refused is taken for a failure.
Modified_Refused(c, s) == s

\* modifier: a modified flag must not be found; what it was refused with is
\* not looked at, so a command that hangs has passed.
Modified(c, s) == IF c = Good THEN s ELSE IF s = 0 THEN 1 ELSE 0
ModifiedLine(c, s) == IF c # Good /\ s # 0 THEN NoLine ELSE c

\* Faulty: the first line only.
Combined_FirstLine(c, s) ==
  /\ combined_status' = IF Modified(c, s) # 0 THEN Modified(c, s) ELSE combined_status
  /\ combined_line' = IF combined_line = NoLine THEN ModifiedLine(c, s) ELSE combined_line

Combined(c, s) ==
  /\ combined_status' = IF Modified(c, s) # 0 THEN Modified(c, s) ELSE combined_status
  /\ combined_line' = IF combined_line = NoLine \/ Modified(c, s) # 0
                      THEN ModifiedLine(c, s) ELSE combined_line

\* Faulty: one command short; one command too many.
AllCounted_Early(n) == n >= Cardinality(cmds) - 1

AllCounted_Never(n) == n > Cardinality(cmds)

AllCounted(n) == n = Cardinality(cmds)

\* A command exits with a status, or is killed after max_time; its callback.
Ended(c, s) ==
  /\ c \in running
  /\ running' = running \ {c}
  /\ exit' = [exit EXCEPT ![c] = s]
  /\ Combined(c, s)
  /\ count' = count + 1
  /\ calls' = IF AllCounted(count')
              THEN [n |-> calls.n + 1, status |-> combined_status', line |-> combined_line']
              ELSE calls

Next == \E c \in running, s \in {0} \cup Failures \cup {TimedOut} : Ended(c, s)

\* No command outlives max_time.
Spec == Init /\ [][Next]_vars
LiveSpec == Spec /\ WF_vars(Next)
-----------------------------------------------------------------------------
(***************************************************************************)
(* Properties.                                                             *)
(***************************************************************************)

\* The flag was confirmed and no modified flag was.
Confirmed == exit[Good] = 0 /\ \A c \in Bad : exit[c] # 0

\* Whatever the order the commands end in, the result called back is 0 exactly
\* when the flag was confirmed: four successes never outvote the one failure,
\* and a service that says yes to everything gets nothing.
VerdictRight == calls.n > 0 => (calls.status = 0 <=> Confirmed)

\* checkFlags_ pushes one result per check: the callback comes once, and after
\* every command.
CalledOnce ==
  /\ calls.n <= 1
  /\ calls.n = 1 <=> running = {}

\* The line in the log is that of a command to blame: with a failure, one that
\* failed; with a success, the command with the flag.
LineOfCulprit ==
  calls.n > 0 =>
    IF calls.status = 0 THEN calls.line = Good
    ELSE /\ calls.line \in cmds
         /\ calls.status = Modified(calls.line, exit[calls.line])

\* Every check comes to its end.
VerdictComes == <>(calls.n > 0)

\* The inductive invariant of the three: what the shared variables hold is the
\* combination of the commands that have ended.
Failed(c) == Modified(c, exit[c]) # 0
CheckInv ==
  /\ count = Cardinality(cmds) - Cardinality(running)
  /\ IF combined_status = 0
     THEN /\ \A c \in cmds \ running : ~Failed(c)
          /\ combined_line = IF Good \in running THEN NoLine ELSE Good
     ELSE /\ combined_line \in cmds \ running
          /\ combined_status = Modified(combined_line, exit[combined_line])
  /\ calls.n = IF running = {} THEN 1 ELSE 0
  /\ running = {} => calls.status = combined_status /\ calls.line = combined_line
=============================================================================
