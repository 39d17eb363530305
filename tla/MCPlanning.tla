----------------------------- MODULE MCPlanning -----------------------------
(***************************************************************************)
(* TLC instance of what makes the bot think: WakeClock, with a wake of a   *)
(* goal and a later one without, and Cadence, where a rule matches the     *)
(* first event and an ordinary one follows.  They share no state, so a     *)
(* behaviour is one of the one or of the other; part says which.           *)
(***************************************************************************)
EXTENDS WakeClock, Sequences

MCGoalOf == [w \in Wakes |-> IF w = "w1" THEN "g" ELSE NoGoal]
MCDue == [w \in Wakes |-> IF w = "w1" THEN 1 ELSE 2]

-----------------------------------------------------------------------------
CONSTANTS Foreign, Delays, MaxPlans, CadenceTime, MaxFaults
VARIABLES log, entered, ended, consumer, mem, hasDecision, cause, open, recoverable, plan,
          outcome, hour, events, faults

MCForeign == <<"reactive", "event">>
cadenceVars == <<log, entered, ended, consumer, mem, hasDecision, cause, open, recoverable, plan,
                 outcome, hour, events, faults>>
Pacing == INSTANCE Cadence
  WITH begun <- entered, at <- consumer, todo <- open, result <- outcome, now <- hour,
       MaxTime <- CadenceTime

ASSUME PacingAssumption == Pacing!CadenceAssumption

-----------------------------------------------------------------------------
VARIABLE part
allVars == <<vars, cadenceVars, part>>

MCInit ==
  /\ part \in {"clock", "cadence"}
  /\ Init /\ Pacing!Init

MCNext ==
  \/ part = "clock" /\ Next /\ UNCHANGED cadenceVars
  \/ part = "cadence" /\ Pacing!Next /\ UNCHANGED vars

\* The fairness of both.
MCSpec ==
  /\ MCInit /\ [][MCNext /\ UNCHANGED part]_allVars
  /\ WF_vars(part = "clock" /\ Clock)
  /\ WF_vars(part = "clock" /\ Tick)
  /\ WF_cadenceVars(part = "cadence" /\ Pacing!Consumer)

-----------------------------------------------------------------------------
\* Events are counted once and plans carried out once: see Cadence.
CadenceSound == Pacing!CadenceSound

\* Every plan gets a result and every event a judgement: see Cadence.
EventsAndPlansSettle == Pacing!EventsAndPlansSettle
=============================================================================
