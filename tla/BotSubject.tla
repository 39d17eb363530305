----------------------------- MODULE BotSubject -----------------------------
(***************************************************************************)
(* The subject of a bot as its journal promises it: goals and wakes under  *)
(* one version, changed atomically by whoever names the current version.   *)
(* BotState implements it; WakeClock builds on it.                         *)
(***************************************************************************)
EXTENDS Naturals

CONSTANTS Goals,   \* goal identities
          Wakes,   \* wake identities
          NoGoal   \* a wake without a goal

ASSUME SubjectAssumption == NoGoal \notin Goals

VARIABLE subject   \* BotSnapshot: [version, goals, wakes]

GoalStatus == {"ACTIVE", "PAUSED", "COMPLETED", "ABANDONED"}
WakeEnd == {"COMPLETED", "FAILED", "INTERRUPTED", "CANCELLED"}
WakeStatus == {"PENDING", "RUNNING"} \cup WakeEnd

\* What a wake plans (time, message, goal) never changes; its goal stands for it.
Wake(goal, status) == [goal |-> goal, status |-> status]
NoWake == Wake(NoGoal, "absent")

Snapshot ==
  [version : Nat,
   goals : [Goals -> GoalStatus \cup {"absent"}],
   wakes : [Wakes -> [goal : Goals \cup {NoGoal}, status : WakeStatus \cup {"absent"}]]]

Empty == [version |-> 0,
          goals |-> [g \in Goals |-> "absent"],
          wakes |-> [w \in Wakes |-> NoWake]]

\* A change declares goals and wakes: functions on subsets of the identities.
Over(old, new) == [x \in DOMAIN old |-> IF x \in DOMAIN new THEN new[x] ELSE old[x]]

\* Operators named Bug_... are one-slip variants of the operator that follows
\* them.  No action uses them; substituted for it, each breaks a property.

Transitions(status) ==
  CASE status = "absent" -> {"PENDING"}
    [] status = "PENDING" -> {"RUNNING", "CANCELLED"}
    [] status = "RUNNING" -> WakeEnd \ {"CANCELLED"}
    [] OTHER -> {}

\* Only an active goal may have a wake planned or begun.
Acceptable(s, change) ==
  \A w \in DOMAIN change.wakes :
    LET new == change.wakes[w]
        goals == Over(s.goals, change.goals)
    IN  /\ new.status \in Transitions(s.wakes[w].status)
        /\ s.wakes[w] # NoWake => new.goal = s.wakes[w].goal
        /\ new.goal # NoGoal =>
             /\ goals[new.goal] # "absent"
             /\ new.status \in {"PENDING", "RUNNING"} => goals[new.goal] = "ACTIVE"

\* Pending wakes of a goal that is not active any more are cancelled.
Bug_Stopped(goals, wake) ==
  wake.status = "PENDING" /\ wake.goal # NoGoal /\ goals[wake.goal] = "ABANDONED"
Stopped(goals, wake) ==
  wake.status = "PENDING" /\ wake.goal # NoGoal /\ goals[wake.goal] # "ACTIVE"

Project(s, change) ==
  LET goals == Over(s.goals, change.goals)
      wakes == Over(s.wakes, change.wakes)
  IN  [version |-> s.version + 1,
       goals |-> goals,
       wakes |-> [w \in Wakes |-> IF Stopped(goals, wakes[w])
                                  THEN [wakes[w] EXCEPT !.status = "CANCELLED"]
                                  ELSE wakes[w]]]

-----------------------------------------------------------------------------
SubjectInit == subject = Empty

\* A change against the current version, accepted as a whole or not at all.
Change(change, expected) ==
  /\ expected = subject.version
  /\ Acceptable(subject, change)
  /\ subject' = Project(subject, change)

-----------------------------------------------------------------------------
\* A pending wake has an active goal or none: no change stops a goal and
\* leaves its plans behind (_project).
PlansJustified ==
  \A w \in Wakes :
    LET wake == subject.wakes[w]
    IN  /\ wake.status = "PENDING" /\ wake.goal # NoGoal =>
             subject.goals[wake.goal] = "ACTIVE"
        /\ wake.status # "absent" /\ wake.goal # NoGoal =>
             subject.goals[wake.goal] # "absent"

\* Delivery is one-way: a wake that has ended keeps its end, one that began is
\* never planned again, and none loses its plan.
DeliveryOneWay ==
  [][\A w \in Wakes :
       LET old == subject.wakes[w]
           new == subject'.wakes[w]
       IN  /\ old.status \in WakeEnd => new = old
           /\ old.status = "RUNNING" => new.status \notin {"absent", "PENDING", "CANCELLED"}
           /\ old.status # "absent" => new.goal = old.goal]_subject
=============================================================================
