--------------------------- MODULE RecoveryLadder ---------------------------
(***************************************************************************)
(* What one incident promises, with no threads, no log, no connectors:     *)
(* it opens once in a healing mode, is confirmed before anything is done,  *)
(* climbs a bounded ladder of requests in an order that never skips the    *)
(* connector restart, and ends once.  After a verdict nothing is requested.*)
(***************************************************************************)
EXTENDS Naturals

CONSTANTS
  Rungs,    \* kinds of request
  Limit,    \* Limit[r]: how often rung r may be requested
  Prior,    \* Prior[r]: rungs that must have been requested before r
  Recreates \* rungs only the RECOVERY mode may request

VARIABLES
  phase,      \* "none", "open", "recovered" or "escalated"
  recovery,   \* the incident is in RECOVERY mode
  confirmed,  \* the failure is confirmed
  spent,      \* spent[r]: requests made on rung r
  verdict     \* a terminal event is in the log

ladderVars == <<phase, recovery, confirmed, spent, verdict>>

Init ==
  /\ phase = "none" /\ recovery = FALSE /\ confirmed = FALSE /\ verdict = FALSE
  /\ spent = [r \in Rungs |-> 0]

Open ==
  /\ phase = "none" /\ phase' = "open"
  /\ recovery' \in BOOLEAN
  /\ UNCHANGED <<confirmed, spent, verdict>>

Confirm ==
  /\ phase = "open" /\ ~verdict
  /\ confirmed' = TRUE
  /\ UNCHANGED <<phase, recovery, spent, verdict>>

Request(r) ==
  /\ phase = "open" /\ confirmed /\ ~verdict
  /\ r \in Recreates => recovery
  /\ spent[r] < Limit[r]
  /\ \A q \in Prior[r] : spent[q] > 0
  /\ spent' = [spent EXCEPT ![r] = @ + 1]
  /\ UNCHANGED <<phase, recovery, confirmed, verdict>>

GiveUp ==
  /\ phase = "open" /\ ~verdict /\ verdict' = TRUE
  /\ UNCHANGED <<phase, recovery, confirmed, spent>>

Close ==
  /\ phase = "open" /\ phase' = IF verdict THEN "escalated" ELSE "recovered"
  /\ UNCHANGED <<recovery, confirmed, spent, verdict>>

Next == Open \/ Confirm \/ (\E r \in Rungs : Request(r)) \/ GiveUp \/ Close

Spec == Init /\ [][Next]_ladderVars
=============================================================================
