---------------------------- MODULE StatusCircuit ----------------------------
(***************************************************************************)
(* The circuit breaker of connect/client.py that the reconciliation thread *)
(* and the webhook workers share: get_status (89-110), the tests and the   *)
(* assignments under _circuit_lock (112-139), and the way a thread goes    *)
(* through its jobs while the circuit is open (db_state_machine.py         *)
(* 119-147, 623-639).                                                      *)
(*                                                                         *)
(* `_circuit_open_until` is told apart as far as the code compares it: 0   *)
(* ("none"), a time ahead of the clock ("ahead") or one that has passed.   *)
(* A request is answered or refused by Kafka Connect at one moment and its *)
(* outcome is handled by the client at a later one.                        *)
(***************************************************************************)
EXTENDS Naturals, FiniteSets

CONSTANTS
    Clients,     \* threads that ask for a status
    MaxOutages,  \* how often Kafka Connect becomes unreachable
    MaxRaises    \* requests that end in an exception that is no RequestError

ASSUME CircuitAssumption ==
    /\ IsFiniteSet(Clients)
    /\ MaxOutages \in Nat
    /\ MaxRaises \in Nat

VARIABLES
    openUntil,   \* _circuit_open_until
    halfOpen,    \* _circuit_half_open
    client,      \* client[t]: what thread t is doing
    reachable,   \* Kafka Connect answers
    outages,     \* how often it stopped answering
    raised,      \* requests that raised something else
    probes       \* history: requests admitted since the circuit was last opened

circuitVars == <<openUntil, halfOpen, client, reachable, outages, raised, probes>>

CircuitStates == {"none", "ahead", "passed"}
ClientStates == {"idle", "sent", "answered", "httpError", "unreachable"}

(* Its outcome has not reached the circuit yet. *)
InFlight(t) == client[t] \in {"sent", "answered", "unreachable"}

CircuitInit ==
    /\ openUntil = "none"
    /\ halfOpen = FALSE
    /\ client = [t \in Clients |-> "idle"]
    /\ reachable = TRUE
    /\ outages = 0
    /\ raised = 0
    /\ probes = 0

(* _before_status_request when it does not raise. *)
AdmitSlip(t) ==
    /\ client[t] = "idle"
    /\ openUntil # "ahead"
    /\ client' = [client EXCEPT ![t] = "sent"]
    /\ halfOpen' = (openUntil # "none")
    /\ probes' = IF openUntil = "none" THEN probes ELSE probes + 1
    /\ UNCHANGED <<openUntil, reachable, outages, raised>>

Admit(t) ==
    /\ client[t] = "idle"
    /\ openUntil # "ahead"
    /\ ~(openUntil # "none" /\ halfOpen)
    /\ client' = [client EXCEPT ![t] = "sent"]
    /\ halfOpen' = (openUntil # "none")
    /\ probes' = IF openUntil = "none" THEN probes ELSE probes + 1
    /\ UNCHANGED <<openUntil, reachable, outages, raised>>

(* Kafka Connect answers, with any status code, or the request fails. *)
Reach(t) ==
    /\ client[t] = "sent"
    /\ client' = [client EXCEPT ![t] = IF reachable THEN "answered" ELSE "unreachable"]
    /\ UNCHANGED <<openUntil, halfOpen, reachable, outages, raised, probes>>

(* _close_status_circuit. *)
Closes ==
    /\ openUntil' = "none"
    /\ halfOpen' = FALSE
    /\ probes' = 0
    /\ UNCHANGED <<reachable, outages, raised>>

(* Any answer closes the circuit, a 404 or an HTTP error too. *)
ClosesCircuit(t) ==
    /\ client[t] = "answered"
    /\ \E next \in {"idle", "httpError"} : client' = [client EXCEPT ![t] = next]
    /\ Closes

(* The handler of an HTTP error closes it once more, in another step: what
   other threads did with the circuit in between is undone. *)
ClosesAgain(t) ==
    /\ client[t] = "httpError"
    /\ client' = [client EXCEPT ![t] = "idle"]
    /\ Closes

(* _open_status_circuit. *)
FailedSlip(t) ==
    /\ client[t] = "unreachable"
    /\ client' = [client EXCEPT ![t] = "idle"]
    /\ openUntil' = "ahead"
    /\ probes' = 0
    /\ UNCHANGED <<halfOpen, reachable, outages, raised>>

OpensCircuit(t) ==
    /\ client[t] = "unreachable"
    /\ client' = [client EXCEPT ![t] = "idle"]
    /\ openUntil' = "ahead"
    /\ halfOpen' = FALSE
    /\ probes' = 0
    /\ UNCHANGED <<reachable, outages, raised>>

(* An exception that neither handler of get_status names leaves the circuit. *)
Raises(t) ==
    /\ client[t] = "sent"
    /\ raised < MaxRaises
    /\ client' = [client EXCEPT ![t] = "idle"]
    /\ raised' = raised + 1
    /\ UNCHANGED <<openUntil, halfOpen, reachable, outages, probes>>

CooldownPasses ==
    /\ openUntil = "ahead"
    /\ openUntil' = "passed"
    /\ UNCHANGED <<halfOpen, client, reachable, outages, raised, probes>>

GoesDown ==
    /\ reachable
    /\ outages < MaxOutages
    /\ reachable' = FALSE
    /\ outages' = outages + 1
    /\ UNCHANGED <<openUntil, halfOpen, client, raised, probes>>

ComesBack ==
    /\ ~reachable
    /\ reachable' = TRUE
    /\ UNCHANGED <<openUntil, halfOpen, client, outages, raised, probes>>

CircuitNext ==
    \/ \E t \in Clients : Admit(t) \/ Reach(t) \/ OpensCircuit(t) \/ Raises(t)
    \/ \E t \in Clients : ClosesCircuit(t) \/ ClosesAgain(t)
    \/ CooldownPasses
    \/ GoesDown
    \/ ComesBack

(* A thread asks again in each pass and its request has a timeout: both go
   on. Kafka Connect owes nothing. *)
CircuitFairness ==
    /\ \A t \in Clients :
           /\ WF_circuitVars(Reach(t))
           /\ WF_circuitVars(ClosesCircuit(t) \/ ClosesAgain(t) \/ OpensCircuit(t))
           /\ WF_circuitVars(Admit(t))
    /\ WF_circuitVars(CooldownPasses)

CircuitSpec == CircuitInit /\ [][CircuitNext]_circuitVars
CircuitFairSpec == CircuitSpec /\ CircuitFairness

-----------------------------------------------------------------------------

CircuitTypeOK ==
    /\ openUntil \in CircuitStates
    /\ halfOpen \in BOOLEAN
    /\ client \in [Clients -> ClientStates]
    /\ reachable \in BOOLEAN
    /\ outages \in 0..MaxOutages
    /\ raised \in 0..MaxRaises
    /\ probes \in Nat

(* A caller refused because a probe is in progress is refused because of a
   request that is really in flight and will end: late answers and late
   failures of older requests reset the flag but never leave it set without
   its probe (client.py:124-139). Only an exception that get_status does not
   expect can. *)
ProbeInFlight ==
    halfOpen /\ raised = 0 => \E t \in Clients : InFlight(t)

(* From an opening of the circuit until the next outcome closes it or opens it
   again, at most one request is admitted, however many threads poll
   (client.py:116-129). Requests admitted before the opening are not counted:
   they may still be in flight beside it. *)
OneProbePerOpening == probes <= 1

(* Once Kafka Connect stays reachable the circuit ends closed, whatever old
   failures arrive late (client.py:131-139). *)
CircuitRecovers == <>[]reachable => (<>[](openUntil = "none") \/ <>(raised > 0))

=============================================================================
