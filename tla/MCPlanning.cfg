SPECIFICATION MCSpec
CONSTANTS
  Goals = {"g"}
  Wakes = {"w1", "w2"}
  NoGoal = "-"
  GoalOf <- MCGoalOf
  Due <- MCDue
  MaxTime = 2
  MaxVersion = 5
  MaxCrashes = 2
  Foreign <- MCForeign
  Delays = {1}
  MaxPlans = 2
  CadenceTime = 1
  MaxFaults = 1
INVARIANTS
  WakesSound
  PlansJustified
  CadenceSound
PROPERTIES
  EveryWakeEnds
  EventsAndPlansSettle
CHECK_DEADLOCK FALSE
