---------------------------- MODULE CheckFlagProofs ----------------------------
(* Proofs about CheckFlag, for any number of modified flags and any exit codes. *)
EXTENDS CheckFlag, FiniteSetTheorems, TLAPS

Inv == TypeOK /\ CheckInv

\* Ending a command that runs takes one off the number of those that do.
LEMMA OneLess ==
  ASSUME NEW R \in SUBSET cmds, NEW c \in R
  PROVE  /\ Cardinality(cmds) \in Nat
         /\ Cardinality(R) \in Nat
         /\ Cardinality(R) # 0
         /\ Cardinality(R \ {c}) = Cardinality(R) - 1
         /\ Cardinality(R \ {c}) = 0 <=> R \ {c} = {}
<1>1. IsFiniteSet(cmds)
  BY CheckAssumption, FS_AddElement DEF cmds
<1>2. IsFiniteSet(R) /\ IsFiniteSet(R \ {c})
  BY <1>1, FS_Subset
<1>3. Cardinality(R \ {c}) = Cardinality(R) - 1
  BY <1>2, FS_RemoveElement
<1>4. Cardinality(R) # 0
  BY <1>2, FS_EmptySet
<1> QED BY <1>1, <1>2, <1>3, <1>4, FS_CardinalityType, FS_EmptySet

LEMMA InvInit == Init => Inv
<1> SUFFICES ASSUME Init PROVE Inv
  OBVIOUS
<1>1. IsFiniteSet(cmds) /\ cmds # {}
  BY CheckAssumption, FS_AddElement DEF cmds
<1>2. Cardinality(cmds) \in Nat
  BY <1>1, FS_CardinalityType
<1>3. TypeOK
  BY DEF Init, TypeOK, Statuses, LinesOf
<1>4. CheckInv
  BY <1>1, <1>2 DEF Init, CheckInv, cmds
<1> QED BY <1>3, <1>4 DEF Inv

LEMMA InvStep == Inv /\ [Next]_vars => Inv'
<1> SUFFICES ASSUME Inv, [Next]_vars PROVE Inv'
  OBVIOUS
<1> USE DEF Inv
<1>1. ASSUME NEW c \in running, NEW s \in {0} \cup Failures \cup {TimedOut}, Ended(c, s)
      PROVE  Inv'
  <2>0. s \in Statuses /\ c \in cmds /\ running \in SUBSET cmds
    BY DEF Statuses, TypeOK
  <2>1. Modified(c, s) \in Statuses /\ ModifiedLine(c, s) \in LinesOf
    BY <2>0 DEF Modified, ModifiedLine, Statuses, LinesOf
  <2>2. /\ running' = running \ {c}
        /\ exit' = [exit EXCEPT ![c] = s]
        /\ count' = count + 1
    BY <1>1 DEF Ended
  <2>3. /\ combined_status' = IF Modified(c, s) # 0 THEN Modified(c, s) ELSE combined_status
        /\ combined_line' = IF combined_line = NoLine \/ Modified(c, s) # 0
                            THEN ModifiedLine(c, s) ELSE combined_line
    BY <1>1 DEF Ended, Combined
  <2>4. exit'[c] = s /\ \A d \in cmds : d # c => exit'[d] = exit[d]
    BY <2>0, <2>2 DEF TypeOK
  <2>5. exit' \in [cmds -> Statuses] /\ running' \subseteq cmds /\ count' \in Nat
    BY <2>0, <2>2 DEF TypeOK
  <2>6. combined_status' \in Statuses /\ combined_line' \in LinesOf
    BY <2>1, <2>3 DEF TypeOK
  <2>7. /\ count' = Cardinality(cmds) - Cardinality(running')
        /\ AllCounted(count') <=> running' = {}
    <3>1. /\ Cardinality(cmds) \in Nat
          /\ Cardinality(running) \in Nat
          /\ Cardinality(running') = Cardinality(running) - 1
          /\ Cardinality(running') = 0 <=> running' = {}
      BY <2>0, <2>2, OneLess
    <3>2. count = Cardinality(cmds) - Cardinality(running)
      BY DEF CheckInv
    <3> QED BY <2>2, <3>1, <3>2 DEF AllCounted
  <2>8. calls' = IF running' = {}
                 THEN [n |-> calls.n + 1, status |-> combined_status', line |-> combined_line']
                 ELSE calls
    BY <1>1, <2>7 DEF Ended
  <2>9. calls.n = 0
    BY DEF CheckInv
  <2>10. calls' \in [n : Nat, status : Statuses, line : LinesOf]
    BY <2>6, <2>8, <2>9 DEF TypeOK
  <2>11. TypeOK'
    BY <2>5, <2>6, <2>10 DEF TypeOK
  <2>12. /\ calls'.n = IF running' = {} THEN 1 ELSE 0
         /\ running' = {} => calls'.status = combined_status' /\ calls'.line = combined_line'
    BY <2>8, <2>9
  <2>13. cmds \ running' = (cmds \ running) \cup {c} /\ c \notin cmds \ running
    BY <2>0, <2>2
  <2>14. \A d \in cmds \ running : Modified(d, exit'[d]) = Modified(d, exit[d])
    BY <2>4, <2>13 DEF Modified
  <2>15. IF combined_status' = 0
         THEN /\ \A d \in cmds \ running' : Modified(d, exit'[d]) = 0
              /\ combined_line' = IF Good \in running' THEN NoLine ELSE Good
         ELSE /\ combined_line' \in cmds \ running'
              /\ combined_status' = Modified(combined_line', exit'[combined_line'])
    <3>1. CASE Modified(c, s) # 0
      <4>1. combined_status' = Modified(c, s) /\ combined_line' = ModifiedLine(c, s)
        BY <2>3, <3>1
      <4>2. ModifiedLine(c, s) = c
        BY <3>1 DEF ModifiedLine, Modified
      <4> QED BY <2>4, <2>13, <3>1, <4>1, <4>2
    <3>2. CASE Modified(c, s) = 0 /\ combined_status = 0
      <4>1. /\ \A d \in cmds \ running : Modified(d, exit[d]) = 0
            /\ combined_line = IF Good \in running THEN NoLine ELSE Good
        BY <3>2 DEF CheckInv, Failed
      <4>2. \A d \in cmds \ running' : Modified(d, exit'[d]) = 0
        BY <2>4, <2>13, <2>14, <3>2, <4>1
      <4>3. combined_status' = 0
        BY <2>3, <3>2
      <4>4. combined_line' = IF combined_line = NoLine THEN ModifiedLine(c, s) ELSE combined_line
        BY <2>3, <3>2
      <4>5. ModifiedLine(c, s) = IF c = Good THEN Good ELSE NoLine
        BY <3>2 DEF ModifiedLine, Modified
      <4>6. Good # NoLine
        BY CheckAssumption
      <4>7. combined_line' = IF Good \in running' THEN NoLine ELSE Good
        BY <2>2, <4>1, <4>4, <4>5, <4>6
      <4> QED BY <4>2, <4>3, <4>7
    <3>3. CASE Modified(c, s) = 0 /\ combined_status # 0
      <4>1. /\ combined_line \in cmds \ running
            /\ combined_status = Modified(combined_line, exit[combined_line])
        BY <3>3 DEF CheckInv
      <4>2. combined_line # NoLine
        BY <4>1, CheckAssumption DEF cmds
      <4>3. combined_status' = combined_status /\ combined_line' = combined_line
        BY <2>3, <3>3, <4>2
      <4> QED BY <2>13, <2>14, <3>3, <4>1, <4>3
    <3> QED BY <3>1, <3>2, <3>3
  <2>16. CheckInv'
    BY <2>7, <2>12, <2>15 DEF CheckInv, Failed
  <2> QED BY <2>11, <2>16
<1>2. CASE UNCHANGED vars
  BY <1>2 DEF vars, TypeOK, CheckInv, Failed, Modified
<1> QED BY <1>1, <1>2 DEF Next

\* The callback comes once, and after every command.
THEOREM CheckCalledOnce == Spec => []CalledOnce
<1>1. Inv => CalledOnce
  BY DEF Inv, TypeOK, CheckInv, CalledOnce
<1> QED BY InvInit, InvStep, <1>1, PTL DEF Spec

\* The result is 0 exactly when the flag was confirmed and no modified one was,
\* for any number of commands, exit codes, and order of the callbacks.
THEOREM CheckVerdictRight == Spec => []VerdictRight
<1>1. Inv => VerdictRight
  <2> SUFFICES ASSUME Inv, calls.n > 0 PROVE calls.status = 0 <=> Confirmed
    BY DEF VerdictRight
  <2>1. running = {} /\ calls.status = combined_status
    BY DEF Inv, CheckInv
  <2>2. Confirmed <=> \A c \in cmds : ~Failed(c)
    BY CheckAssumption DEF Confirmed, Failed, Modified, cmds
  <2>3. combined_status = 0 => \A c \in cmds : ~Failed(c)
    BY <2>1 DEF Inv, CheckInv
  <2>4. combined_status # 0 => \E c \in cmds : Failed(c)
    BY <2>1 DEF Inv, CheckInv, Failed
  <2> QED BY <2>1, <2>2, <2>3, <2>4
<1> QED BY InvInit, InvStep, <1>1, PTL DEF Spec

\* The line called back is that of a command to blame.
THEOREM CheckLineOfCulprit == Spec => []LineOfCulprit
<1>1. Inv => LineOfCulprit
  BY DEF Inv, CheckInv, LineOfCulprit
<1> QED BY InvInit, InvStep, <1>1, PTL DEF Spec
=============================================================================
