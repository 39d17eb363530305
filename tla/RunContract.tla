---------------------------- MODULE RunContract ----------------------------
(***************************************************************************)
(* What a run promises its host, without the ReAct loop: accepted messages *)
(* are handed over once and in order, a call takes effect at most once and *)
(* one at a time, a lost effect closes the run, and a closed run stays as  *)
(* it is.                                                                  *)
(***************************************************************************)
EXTENDS Naturals

CONSTANTS CallIds,   \* the calls the run may execute
          Outcomes   \* the terminal statuses

VARIABLES given,     \* number of messages accepted from the host
          delivered, \* how many of them the model has been shown
          effect,    \* call -> "none", "started", "certain" or "unknown"
          outcome    \* "open" or a terminal status

contractVars == <<given, delivered, effect, outcome>>

ContractInit ==
  /\ given = 0
  /\ delivered = 0
  /\ effect = [c \in CallIds |-> "none"]
  /\ outcome = "open"

Accept ==
  /\ given' = given + 1
  /\ UNCHANGED <<delivered, effect, outcome>>

Deliver ==
  /\ delivered' \in delivered..given
  /\ UNCHANGED <<given, effect, outcome>>

Start(c) ==
  /\ effect[c] = "none"
  /\ \A d \in CallIds : effect[d] # "started"
  /\ effect' = [effect EXCEPT ![c] = "started"]
  /\ UNCHANGED <<given, delivered, outcome>>

Settle(c) ==
  /\ effect[c] = "started"
  /\ effect' = [effect EXCEPT ![c] = "certain"]
  /\ UNCHANGED <<given, delivered, outcome>>

\* What was started and not settled is unknown; a completed run owes nothing.
Close(end) ==
  /\ outcome' = end
  /\ effect' = [c \in CallIds |->
                  IF effect[c] = "started" THEN "unknown" ELSE effect[c]]
  /\ end = "COMPLETED" =>
       /\ delivered = given
       /\ \A c \in CallIds : effect'[c] # "unknown"
  /\ UNCHANGED <<given, delivered>>

ContractNext ==
  /\ outcome = "open"
  /\ \/ Accept
     \/ Deliver
     \/ \E c \in CallIds : Start(c) \/ Settle(c)
     \/ \E end \in Outcomes : Close(end)

Contract == ContractInit /\ [][ContractNext]_contractVars
=============================================================================
