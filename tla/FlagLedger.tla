----------------------------- MODULE FlagLedger -----------------------------
(***************************************************************************)
(* What the collection of flags promises to everybody who reads it (the    *)
(* scores, the status page, the data visualisation): a flag once entered   *)
(* stays, a delivery, a capture and a check result once recorded are never *)
(* taken back, nobody captures its own flag, and a check has one result.   *)
(***************************************************************************)
CONSTANTS
  Teams,   \* the teams
  Flags,   \* everything that can be planted
  Owner,   \* the team a flag is planted at
  Times    \* dates of checks

VARIABLES
  registered,  \* flags that have been entered
  delivered,   \* flags known to have reached their service
  captors,     \* the teams that have captured a flag
  results      \* the dated check results of a flag

ledger == <<registered, delivered, captors, results>>

Init ==
  /\ registered = {}
  /\ delivered = {}
  /\ captors = [f \in Flags |-> {}]
  /\ results = [f \in Flags |-> {}]

Register(f) ==
  /\ f \notin registered
  /\ registered' = registered \cup {f}
  /\ UNCHANGED <<delivered, captors, results>>

Deliver(f) ==
  /\ f \in registered
  /\ delivered' = delivered \cup {f}
  /\ UNCHANGED <<registered, captors, results>>

Capture(f, t) ==
  /\ f \in registered
  /\ t # Owner[f]
  /\ captors' = [captors EXCEPT ![f] = @ \cup {t}]
  /\ UNCHANGED <<registered, delivered, results>>

Judge(f, time, result) ==
  /\ f \in registered
  /\ \A k \in results[f] : k.time # time
  /\ results' = [results EXCEPT ![f] = @ \cup {[time |-> time, result |-> result]}]
  /\ UNCHANGED <<registered, delivered, captors>>

Next ==
  \E f \in Flags :
    \/ Register(f)
    \/ Deliver(f)
    \/ \E t \in Teams : Capture(f, t)
    \/ \E time \in Times, result \in BOOLEAN : Judge(f, time, result)

Spec == Init /\ [][Next]_ledger
=============================================================================
