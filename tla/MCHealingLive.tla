---------------------------- MODULE MCHealingLive ----------------------------
(* The two parts of the healing side that must come to an end by themselves:
   an incident, and the status circuit its polls go through. The circuit only
   adds polls that fail, which HealingIncident has among its Connect faults, so
   a behaviour here is one of either part. *)
EXTENDS HealingIncident, StatusCircuit

VARIABLE part

healingLive == <<part, vars, circuitVars>>

HealingLiveInit ==
    /\ part \in {"incident", "circuit"}
    /\ Init
    /\ CircuitInit

InIncident == part = "incident" /\ UNCHANGED <<part, circuitVars>>
InCircuit == part = "circuit" /\ UNCHANGED <<part, vars>>

HealingLiveNext ==
    \/ \E w \in Workers : InIncident /\ Step(w)
    \/ InIncident /\ Environment
    \/ \E t \in Clients :
          \/ InCircuit /\ Admit(t)
          \/ InCircuit /\ Reach(t)
          \/ InCircuit /\ ClosesCircuit(t)
          \/ InCircuit /\ ClosesAgain(t)
          \/ InCircuit /\ OpensCircuit(t)
          \/ InCircuit /\ Raises(t)
    \/ InCircuit /\ CooldownPasses
    \/ InCircuit /\ GoesDown
    \/ InCircuit /\ ComesBack

(* Fairness and CircuitFairness, each for the behaviours of its part. *)
HealingLiveFairness ==
    /\ \A w \in Pollers : WF_vars(part = "incident" /\ Step(w))
    /\ WF_vars(part = "incident" /\ Elapse)
    /\ WF_vars(part = "incident" /\ Stabilize)
    /\ \A t \in Clients :
           /\ WF_circuitVars(part = "circuit" /\ Reach(t))
           /\ WF_circuitVars(part = "circuit" /\ (ClosesCircuit(t) \/ ClosesAgain(t) \/ OpensCircuit(t)))
           /\ WF_circuitVars(part = "circuit" /\ Admit(t))
    /\ WF_circuitVars(part = "circuit" /\ CooldownPasses)

HealingLiveSpec == HealingLiveInit /\ [][HealingLiveNext]_healingLive /\ HealingLiveFairness

=============================================================================
