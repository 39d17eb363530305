------------------------- MODULE ProcessProofs -------------------------
(***************************************************************************)
(* Theorems of Supervision for any number of modules, fronts, failures,    *)
(* cancellations and closers, and of what goes on in the process it holds: *)
(* of ProcessParts, TerminalConsole, RuntimeCore, ModelGateway, RunEvents  *)
(* and ArtifactStore.                                                      *)
(***************************************************************************)
EXTENDS Supervision, ProcessParts, ProofLemmas, FiniteSetTheorems

-----------------------------------------------------------------------------
\* The inductive invariant.

Things == {"cleanup", "close"} \X Modules
TaskStates == {"none", "running", "stopping", "ended"}

HostTypes ==
  /\ stage \in Stages
  /\ next \in Modules
  /\ acquired \in Seq(Things)
  /\ todo \in Seq(Things)
  /\ released \in Seq(Things)
  /\ tasks \in [Modules -> TaskStates]
  /\ pending \in Seq(WithTask)
  /\ changed \in BOOLEAN

ProcessTypes ==
  /\ main \in Places
  /\ monitor \in {"none", "check", "waiting", "claimed", "ended"}
  /\ claimed \subseteq WithTask
  /\ fronts \in [Fronts -> TaskStates]
  /\ owner \in {"nobody", "process", "other"}
  /\ recorded \subseteq claimed
  /\ interrupted \in BOOLEAN
  /\ cancels \in Nat

Idle == \A m \in Modules : tasks[m] \in {"none", "ended"}
Starting == {"prepare", "construct", "prepared", "activate"}

\* The release goes through what was acquired from its end, when the tasks have
\* ended; before it nothing is released or collected.
Releasing ==
  /\ stage \in {"release", "released"} =>
       released \o todo = Reverse(acquired) /\ Idle /\ pending = <<>>
  /\ stage = "released" => todo = <<>>
  /\ stage \notin {"release", "released"} => released = <<>> /\ collected = {}
  /\ stage \in Starting => Idle /\ pending = <<>>
  /\ \A m \in Modules : tasks[m] \in {"running", "stopping"} => m \in WithTask

\* What is acquired is not acquired again: while a phase of the construction
\* goes on it has taken only what is ahead of next.
AcquiredOnce ==
  /\ IsInjective(acquired)
  /\ stage = "prepare" =>
       \A i \in DOMAIN acquired : acquired[i][1] = "cleanup" /\ acquired[i][2] < next
  /\ stage = "construct" =>
       \A i \in DOMAIN acquired : acquired[i][1] = "close" => acquired[i][2] < next

Unused == (\A f \in Fronts : fronts[f] = "none") /\ monitor = "none" /\ claimed = {}
Quiet == (\A f \in Fronts : fronts[f] \in {"none", "ended"}) /\ monitor \in {"none", "ended"}

\* Where the process is, and with it the host, the fronts and the monitor.
Placed ==
  /\ owner = "nobody" <=> ~Closed
  /\ owner = "process" => main \in {"close", "ended"}
  /\ main = "start" => stage \in Starting /\ failed = {}
  /\ main = "bind" => stage = "active"
  /\ main \in {"start", "bind"} => Unused /\ errors = {} /\ cancels = 0 /\ owner = "nobody"
  /\ main \in {"supervise", "join"} => stage \notin Starting /\ monitor # "none"
  /\ main = "supervise" => cancels = 0
  /\ main = "join" => monitor \in {"claimed", "ended"}
  /\ main \in {"close", "ended"} => Closed /\ Quiet
  /\ main = "ended" => stage = "released"

\* An error that occurred is with somebody who will tell it.
InHand == {<<"task", m>> : m \in {c \in claimed : monitor = "claimed"}}
Held == errors \cup outcome \cup collected \cup Untaken \cup InHand

\* What run_runtime raised: all there was, but for what a cancellation carried
\* while the release collected errors of its own.
AllTold ==
  /\ Cancellation \subseteq outcome
  /\ Cancellation = {} /\ interrupted => Cancelled \in outcome
  /\ owner = "process" => collected \subseteq outcome
  /\ Cancellation = {} \/ owner # "process" \/ collected = {} => errors \subseteq outcome

Accounted ==
  /\ failed \subseteq Held
  /\ collected \cup Untaken \subseteq failed
  /\ \A m \in claimed : m \in recorded \/ monitor = "claimed" \/ <<"record", 0>> \in errors
  /\ cancels > 0 => interrupted \/ \E e \in errors : e[1] = "cancelled"
  /\ main # "ended" => outcome = {}
  /\ main = "ended" => AllTold
  /\ others # <<>> => stage = "released" /\ others = <<collected>>

\* What ends the start is the only error there is; supervise() hands over errors
\* of the monitor and of fronts, and the cancellation.
Supervising == {"front", "task", "record"}
Sorted ==
  /\ main \in {"start", "bind"} => errors = {}
  /\ main \in {"supervise", "join"} => \A e \in errors : e[1] \in Supervising
  /\ main \in {"close", "ended"} =>
       (\E e : errors = {e}) \/ \A e \in errors : e[1] \in Supervising \/ e[1] = "cancelled"
  /\ interrupted \/ (\E e \in errors : e[1] = "cancelled") => cancels > 0

IInv == HostTypes /\ ProcessTypes /\ Releasing /\ AcquiredOnce /\ Placed /\ Accounted /\ Sorted

-----------------------------------------------------------------------------
\* What a step of the system does to the host.

Keeps ==
  /\ UNCHANGED <<stage, next, acquired, todo, tasks, collected, released>>
  /\ changed' \in BOOLEAN
  /\ pending' = pending \/ (pending # <<>> /\ pending' = Tail(pending))

HostStep ==
  \/ Keeps
  \/ Prepare \/ Construct \/ Activate \/ ActivateHook
  \/ \E place \in {"start", "cancelled"} : ConstructionFails(place)
  \/ \E m \in Modules : TaskEnds(m) \/ TaskFails(m)
  \/ BeginRelease
  \/ TasksJoined
  \/ \E fails \in BOOLEAN : ReleaseOne(fails)
  \/ Released

LEMMA StartFailsHost ==
  ASSUME HostTypes, NEW place \in {"start", "cancelled"}, StartFails(place)
  PROVE  HostStep
<1>1. ConstructionFails(place) \/ Close({<<place, next>>})
  BY DEF StartFails
<1>2. CASE ConstructionFails(place)
  BY <1>2, Zenon DEF HostStep
<1>3. CASE Close({<<place, next>>})
  <2>1. BeginRelease \/ UNCHANGED kvars
    BY <1>3, Zenon DEF Close
  <2>2. UNCHANGED kvars => Keeps
    BY DEF kvars, Keeps, HostTypes
  <2>3. QED
    BY <2>1, <2>2, Zenon DEF HostStep
<1>4. QED
  BY <1>1, <1>2, <1>3

LEMMA HostSteps ==
  ASSUME HostTypes, [Next]_vars
  PROVE  HostStep
<1>0. UNCHANGED kvars => Keeps
  BY DEF kvars, Keeps, HostTypes
<1>1. CASE Starts
  BY <1>1, Zenon DEF Starts, HostStep
<1>2. CASE Activated
  BY <1>2, Zenon DEF Activated, HostStep
<1>3. CASE Bind
  BY <1>0, <1>3, Zenon DEF Bind, HostStep
<1>4. CASE FirstEnded
  BY <1>0, <1>4, Zenon DEF FirstEnded, HostStep
<1>5. ASSUME NEW error, Close(error) PROVE HostStep
  BY <1>0, <1>5, Zenon DEF Close, HostStep
<1>6. CASE Supervised
  BY <1>5, <1>6, Zenon DEF Supervised
<1>7. CASE RunEnds
  BY <1>0, <1>7, Zenon DEF RunEnds, HostStep
<1>8. CASE StartRaises
  BY <1>8, StartFailsHost, Zenon DEF StartRaises
<1>9. CASE BindRaises
  BY <1>5, <1>9, Zenon DEF BindRaises
<1>10. ASSUME NEW m \in Modules, Task(m) PROVE HostStep
  BY <1>10, Zenon DEF Task, HostStep
<1>11. CASE Look
  <2>1. Keeps
    BY <1>11 DEF Look, Keeps, HostTypes
  <2>2. QED
    BY <2>1, Zenon DEF HostStep
<1>12. CASE Wake
  <2>1. Keeps
    BY <1>12 DEF Wake, Keeps
  <2>2. QED
    BY <2>1, Zenon DEF HostStep
<1>13. ASSUME NEW lands \in BOOLEAN, RecordClaimed(lands) PROVE HostStep
  <2>1. Keeps
    BY <1>13 DEF RecordClaimed, Keeps, HostTypes
  <2>2. QED
    BY <2>1, Zenon DEF HostStep
<1>14. ASSUME NEW f \in Fronts, FrontReturns(f) PROVE HostStep
  BY <1>0, <1>14, Zenon DEF FrontReturns, HostStep
<1>15. ASSUME NEW f \in Fronts, FrontFails(f) PROVE HostStep
  <2>1. Keeps
    BY <1>15 DEF FrontFails, Keeps, HostTypes
  <2>2. QED
    BY <2>1, Zenon DEF HostStep
<1>16. CASE RequestStop
  BY <1>0, <1>16, Zenon DEF RequestStop, HostStep
<1>17. CASE Release
  BY <1>17, Zenon DEF Release, HostStep
<1>18. CASE OtherCloses
  BY <1>18, Zenon DEF OtherCloses, HostStep
<1>19. CASE OtherReturns
  BY <1>0, <1>19, Zenon DEF OtherReturns, HostStep
<1>20. CASE CancelProcess
  <2>1. StartFails("cancelled") \/ UNCHANGED kvars
    BY <1>20, Zenon DEF CancelProcess
  <2>2. QED
    BY <1>0, <2>1, StartFailsHost, Zenon DEF HostStep
<1>21. CASE UNCHANGED vars
  <2>1. UNCHANGED kvars
    BY <1>21 DEF vars
  <2>2. QED
    BY <1>0, <2>1, Zenon DEF HostStep
<1>22. QED
  BY <1>1, <1>2, <1>3, <1>4, <1>6, <1>7, <1>8, <1>9, <1>10, <1>11, <1>12, <1>13, <1>14, <1>15,
     <1>16, <1>17, <1>18, <1>19, <1>20, <1>21 DEF Next, Process, Monitor

LEMMA ThingTypes ==
  ASSUME NEW m \in Modules
  PROVE  <<"cleanup", m>> \in Things /\ <<"close", m>> \in Things
BY DEF Things

LEMMA NextModule ==
  ASSUME next \in Modules, next # N
  PROVE  next + 1 \in Modules
BY LifecycleAssumption DEF Modules

LEMMA HostTypesStep ==
  ASSUME HostTypes, Releasing, HostStep
  PROVE  HostTypes'
<1>0. /\ stage \in Stages /\ next \in Modules /\ acquired \in Seq(Things) /\ todo \in Seq(Things)
      /\ released \in Seq(Things) /\ tasks \in [Modules -> TaskStates] /\ pending \in Seq(WithTask)
      /\ changed \in BOOLEAN /\ N \in Modules /\ 1 \in Modules
  BY LifecycleAssumption DEF HostTypes, Modules
<1>1. <<>> \in Seq(Things) /\ <<>> \in Seq(WithTask)
  BY EmptySeq
<1>2. ASSUME Acquire("cleanup", WithCleanup) \/ Acquire("close", WithClose)
      PROVE  acquired' \in Seq(Things)
  <2>1. /\ Append(acquired, <<"cleanup", next>>) \in Seq(Things)
        /\ Append(acquired, <<"close", next>>) \in Seq(Things)
    <3>1. <<"cleanup", next>> \in Things /\ <<"close", next>> \in Things
      BY <1>0, ThingTypes
    <3>2. QED
      BY <1>0, <3>1, AppendProperties, Zenon
  <2>2. \/ acquired' = acquired
        \/ acquired' = Append(acquired, <<"cleanup", next>>)
        \/ acquired' = Append(acquired, <<"close", next>>)
    BY <1>2, Zenon DEF Acquire
  <2>3. QED
    BY <1>0, <2>1, <2>2, Zenon
<1>3. CASE Keeps
  <2>1. pending' \in Seq(WithTask)
    BY <1>0, <1>3, HeadTailProperties DEF Keeps
  <2>2. QED
    BY <1>0, <1>3, <2>1 DEF Keeps, HostTypes
<1>4. CASE Prepare
  <2>1. next' \in Modules /\ stage' \in Stages
    BY <1>0, <1>4, NextModule DEF Prepare, Stages
  <2>2. QED
    BY <1>0, <1>2, <1>4, <2>1 DEF Prepare, HostTypes
<1>5. CASE Construct
  <2>1. next' \in Modules /\ stage' \in Stages
    BY <1>0, <1>5, NextModule DEF Construct, Stages
  <2>2. QED
    BY <1>0, <1>2, <1>5, <2>1 DEF Construct, HostTypes
<1>6. CASE Activate
  BY <1>0, <1>6 DEF Activate, HostTypes, Stages
<1>7. CASE ActivateHook
  <2>1. next' \in Modules /\ stage' \in Stages /\ tasks' \in [Modules -> TaskStates]
    BY <1>0, <1>7, NextModule DEF ActivateHook, Stages, TaskStates
  <2>2. QED
    BY <1>0, <1>7, <2>1 DEF ActivateHook, HostTypes
<1>8. ASSUME NEW place, ConstructionFails(place) PROVE HostTypes'
  <2>1. Reverse(acquired) \in Seq(Things)
    BY <1>0, ReverseProperties
  <2>2. QED
    BY <1>0, <1>8, <2>1 DEF ConstructionFails, ToRelease, HostTypes, Stages
<1>9. ASSUME NEW m \in Modules, TaskEnds(m) \/ TaskFails(m) PROVE HostTypes'
  <2>1. tasks' \in [Modules -> TaskStates]
    BY <1>0, <1>9 DEF TaskEnds, TaskFails, TaskStates
  <2>2. m \in WithTask
    BY <1>9 DEF Releasing, TaskEnds, TaskFails
  <2>3. pending' \in Seq(WithTask) /\ changed' \in BOOLEAN
    <3>1. Append(pending, m) \in Seq(WithTask)
      BY <1>0, <2>2, AppendProperties, Zenon
    <3>2. QED
      BY <1>0, <1>9, <3>1 DEF TaskEnds, TaskFails, RecordFailure
  <2>4. QED
    BY <1>0, <1>9, <2>1, <2>3 DEF TaskEnds, TaskFails, HostTypes
<1>10. CASE BeginRelease
  <2>1. tasks' \in [Modules -> TaskStates]
    BY <1>0, <1>10 DEF BeginRelease, TaskStates
  <2>2. QED
    BY <1>0, <1>10, <2>1 DEF BeginRelease, HostTypes, Stages
<1>11. CASE TasksJoined
  <2>1. Reverse(acquired) \in Seq(Things)
    BY <1>0, ReverseProperties
  <2>2. QED
    BY <1>0, <1>1, <1>11, <2>1 DEF TasksJoined, ToRelease, HostTypes, Stages
<1>12. ASSUME NEW fails, ReleaseOne(fails) PROVE HostTypes'
  <2>1. released' \in Seq(Things) /\ todo' \in Seq(Things)
    BY <1>0, <1>12, HeadTailProperties, MoveHead DEF ReleaseOne
  <2>2. QED
    BY <1>0, <1>12, <2>1 DEF ReleaseOne, HostTypes
<1>13. CASE Released
  BY <1>0, <1>13 DEF Released, HostTypes, Stages
<1>14. QED
  BY <1>3, <1>4, <1>5, <1>6, <1>7, <1>8, <1>9, <1>10, <1>11, <1>12, <1>13 DEF HostStep

LEMMA ReleasingStep ==
  ASSUME HostTypes, Releasing, HostStep
  PROVE  Releasing'
<1>0. /\ stage \in Stages /\ acquired \in Seq(Things) /\ todo \in Seq(Things) /\ released \in Seq(Things)
      /\ tasks \in [Modules -> TaskStates] /\ pending \in Seq(WithTask)
  BY DEF HostTypes
<1>1. <<>> \o Reverse(acquired) = Reverse(acquired)
  BY <1>0, ReverseProperties, ConcatEmptySeq
<1>2. CASE Keeps
  BY <1>0, <1>2 DEF Keeps, Releasing, Idle
<1>3. CASE Prepare
  BY <1>3 DEF Prepare, Releasing, Idle, Starting
<1>4. CASE Construct
  BY <1>4 DEF Construct, Releasing, Idle, Starting
<1>5. CASE Activate
  BY <1>5 DEF Activate, Releasing, Idle, Starting
<1>6. CASE ActivateHook
  <2>1. \A m \in Modules : tasks'[m] \in {"running", "stopping"} => m \in WithTask
    BY <1>0, <1>6 DEF ActivateHook, Releasing
  <2>2. stage' \in Starting => tasks' = tasks /\ pending' = pending
    BY <1>6 DEF ActivateHook, Starting
  <2>3. /\ stage = "activate" /\ stage' \in {"activate", "active"}
        /\ UNCHANGED <<released, todo, collected, acquired>>
    BY <1>6 DEF ActivateHook
  <2>4. QED
    BY <2>1, <2>2, <2>3 DEF Releasing, Idle, Starting
<1>7. ASSUME NEW place, ConstructionFails(place) PROVE Releasing'
  BY <1>1, <1>7 DEF ConstructionFails, ToRelease, Releasing, Idle, Starting
<1>8. ASSUME NEW m \in Modules, TaskEnds(m) \/ TaskFails(m) PROVE Releasing'
  <2>1. /\ tasks[m] \in {"running", "stopping"}
        /\ UNCHANGED <<stage, released, todo, collected, acquired>>
        /\ tasks' = [tasks EXCEPT ![m] = "ended"]
    BY <1>8 DEF TaskEnds, TaskFails
  <2>2. ~Idle
    BY <2>1 DEF Idle
  <2>3. stage \notin {"release", "released"} \cup Starting
    BY <2>2 DEF Releasing
  <2>4. \A k \in Modules : tasks'[k] \in {"running", "stopping"} => tasks[k] \in {"running", "stopping"}
    BY <1>0, <2>1
  <2>5. QED
    BY <2>1, <2>3, <2>4 DEF Releasing
<1>9. CASE BeginRelease
  <2>1. \A k \in Modules : tasks'[k] \in {"running", "stopping"} => tasks[k] \in {"running", "stopping"}
    BY <1>9 DEF BeginRelease
  <2>2. stage' = "stopping" /\ stage \in {"prepared", "activate", "active"} /\ UNCHANGED <<released, collected>>
    BY <1>9 DEF BeginRelease
  <2>3. QED
    BY <2>1, <2>2 DEF Releasing, Starting
<1>10. CASE TasksJoined
  BY <1>1, <1>10 DEF TasksJoined, ToRelease, Releasing, Idle, Starting
<1>11. ASSUME NEW fails, ReleaseOne(fails) PROVE Releasing'
  <2>1. released' \o todo' = released \o todo
    BY <1>0, <1>11, MoveHead DEF ReleaseOne
  <2>2. stage = "release" /\ UNCHANGED <<stage, acquired, tasks, pending>>
    BY <1>11 DEF ReleaseOne
  <2>3. QED
    BY <2>1, <2>2 DEF Releasing, Idle, Starting
<1>12. CASE Released
  BY <1>12 DEF Released, Releasing, Idle, Starting
<1>13. QED
  BY <1>2, <1>3, <1>4, <1>5, <1>6, <1>7, <1>8, <1>9, <1>10, <1>11, <1>12 DEF HostStep

\* A new element keeps a sequence free of repetitions.
LEMMA InjectiveAppend ==
  ASSUME NEW S, NEW s \in Seq(S), NEW e \in S, IsInjective(s), \A i \in DOMAIN s : s[i] # e
  PROVE  /\ IsInjective(Append(s, e))
         /\ \A i \in DOMAIN Append(s, e) : Append(s, e)[i] = e \/ (i \in DOMAIN s /\ Append(s, e)[i] = s[i])
<1>1. /\ Len(s) \in Nat /\ DOMAIN s = 1..Len(s)
      /\ DOMAIN Append(s, e) = 1..Len(s) + 1
      /\ \A i \in 1..Len(s) : Append(s, e)[i] = s[i]
      /\ Append(s, e)[Len(s) + 1] = e
  BY AppendProperties
<1>2. \A i \in 1..Len(s) + 1 : i \in 1..Len(s) \/ i = Len(s) + 1
  BY <1>1
<1>3. QED
  BY <1>1, <1>2 DEF IsInjective

LEMMA AcquiredOnceStep ==
  ASSUME HostTypes, AcquiredOnce, HostStep
  PROVE  AcquiredOnce'
<1>0. acquired \in Seq(Things) /\ next \in Modules /\ next \in Nat /\ N \in Nat /\ 0 < next
  BY LifecycleAssumption DEF HostTypes, Modules
<1>1. \A i \in DOMAIN acquired : acquired[i] \in Things /\ acquired[i][2] \in Nat /\ acquired[i][2] <= N
                                 /\ acquired[i] = <<acquired[i][1], acquired[i][2]>>
  BY <1>0, ElementOfSeq, LenProperties, LifecycleAssumption DEF Things, Modules
<1>2. CASE Prepare
  <2> DEFINE e == <<"cleanup", next>>
  <2>1. CASE next \in WithCleanup
    <3>1. e \in Things /\ e[1] = "cleanup" /\ e[2] = next
      BY <1>0, ThingTypes
    <3>2. \A i \in DOMAIN acquired : acquired[i] # e /\ acquired[i][1] = "cleanup" /\ acquired[i][2] < next
      BY <1>0, <1>1, <1>2, <3>1 DEF Prepare, AcquiredOnce
    <3>3. acquired' = Append(acquired, e) /\ stage' \in {"prepare", "construct"}
          /\ (stage' = "prepare" => next' = next + 1)
      BY <1>2, <2>1 DEF Prepare, Acquire
    <3> HIDE DEF e
    <3>4. /\ IsInjective(Append(acquired, e))
          /\ \A i \in DOMAIN Append(acquired, e) :
               Append(acquired, e)[i] = e \/ (i \in DOMAIN acquired /\ Append(acquired, e)[i] = acquired[i])
      BY <1>0, <3>1, <3>2, InjectiveAppend DEF AcquiredOnce
    <3>5. /\ IsInjective(acquired')
          /\ \A i \in DOMAIN acquired' : acquired'[i][1] = "cleanup" /\ acquired'[i][2] < next + 1
      BY <1>0, <1>1, <3>1, <3>2, <3>3, <3>4
    <3>6. QED
      BY <3>3, <3>5 DEF AcquiredOnce
  <2>2. CASE next \notin WithCleanup
    <3>1. acquired' = acquired /\ stage = "prepare" /\ stage' \in {"prepare", "construct"}
          /\ (stage' = "prepare" => next' = next + 1)
      BY <1>2, <2>2 DEF Prepare, Acquire
    <3>2. \A i \in DOMAIN acquired : acquired[i][1] = "cleanup" /\ acquired[i][2] < next + 1
      BY <1>0, <1>1, <3>1 DEF AcquiredOnce
    <3>3. QED
      BY <3>1, <3>2 DEF AcquiredOnce
  <2>3. QED
    BY <2>1, <2>2
<1>3. CASE Construct
  <2> DEFINE e == <<"close", next>>
  <2>1. CASE next \in WithClose
    <3>1. e \in Things /\ e[1] = "close" /\ e[2] = next
      BY <1>0, ThingTypes
    <3>2. \A i \in DOMAIN acquired : acquired[i] # e /\ (acquired[i][1] = "close" => acquired[i][2] < next)
      BY <1>0, <1>1, <1>3, <3>1 DEF Construct, AcquiredOnce
    <3>3. acquired' = Append(acquired, e) /\ stage' \in {"construct", "prepared"}
          /\ (stage' = "construct" => next' = next + 1)
      BY <1>3, <2>1 DEF Construct, Acquire
    <3> HIDE DEF e
    <3>4. /\ IsInjective(Append(acquired, e))
          /\ \A i \in DOMAIN Append(acquired, e) :
               Append(acquired, e)[i] = e \/ (i \in DOMAIN acquired /\ Append(acquired, e)[i] = acquired[i])
      BY <1>0, <3>1, <3>2, InjectiveAppend DEF AcquiredOnce
    <3>5. /\ IsInjective(acquired')
          /\ \A i \in DOMAIN acquired' : acquired'[i][1] = "close" => acquired'[i][2] < next + 1
      BY <1>0, <1>1, <3>1, <3>2, <3>3, <3>4
    <3>6. QED
      BY <3>3, <3>5 DEF AcquiredOnce
  <2>2. CASE next \notin WithClose
    <3>1. acquired' = acquired /\ stage = "construct" /\ stage' \in {"construct", "prepared"}
          /\ (stage' = "construct" => next' = next + 1)
      BY <1>3, <2>2 DEF Construct, Acquire
    <3>2. \A i \in DOMAIN acquired : acquired[i][1] = "close" => acquired[i][2] < next + 1
      BY <1>0, <1>1, <3>1 DEF AcquiredOnce
    <3>3. QED
      BY <3>1, <3>2 DEF AcquiredOnce
  <2>3. QED
    BY <2>1, <2>2
<1>4. ASSUME acquired' = acquired, \/ stage' = stage /\ next' = next
                                   \/ stage' \notin {"prepare", "construct"}
      PROVE  AcquiredOnce'
  BY <1>4 DEF AcquiredOnce
<1>5. CASE Keeps
  BY <1>4, <1>5 DEF Keeps
<1>6. CASE Activate \/ ActivateHook
  BY <1>4, <1>6 DEF Activate, ActivateHook
<1>7. ASSUME NEW place, ConstructionFails(place) PROVE AcquiredOnce'
  BY <1>4, <1>7 DEF ConstructionFails
<1>8. ASSUME NEW m \in Modules, TaskEnds(m) \/ TaskFails(m) PROVE AcquiredOnce'
  BY <1>4, <1>8 DEF TaskEnds, TaskFails
<1>9. CASE BeginRelease \/ TasksJoined \/ Released
  BY <1>4, <1>9 DEF BeginRelease, TasksJoined, Released
<1>10. ASSUME NEW fails, ReleaseOne(fails) PROVE AcquiredOnce'
  BY <1>4, <1>10 DEF ReleaseOne
<1>11. QED
  BY <1>2, <1>3, <1>5, <1>6, <1>7, <1>8, <1>9, <1>10 DEF HostStep

\* The steps one by one, for what follows.
Steps ==
  \/ Starts \/ Activated \/ Bind \/ FirstEnded \/ Supervised \/ RunEnds
  \/ \E place \in {"start", "cancelled"} : StartFails(place) /\ cancels' = IF place = "start" THEN cancels ELSE cancels + 1
  \/ BindRaises
  \/ \E m \in Modules : Task(m)
  \/ Look \/ Wake \/ \E lands \in BOOLEAN : RecordClaimed(lands)
  \/ \E f \in Fronts : FrontReturns(f) \/ FrontFails(f)
  \/ RequestStop \/ Release \/ OtherCloses \/ OtherReturns
  \/ CancelProcess /\ ~StartFails("cancelled")
  \/ UNCHANGED vars

LEMMA NextSteps ==
  ASSUME [Next]_vars
  PROVE  Steps
<1>1. ASSUME StartRaises PROVE Steps
  <2>1. StartFails("start") /\ cancels' = IF "start" = "start" THEN cancels ELSE cancels + 1
    BY <1>1 DEF StartRaises
  <2>2. \E place \in {"start", "cancelled"} :
          StartFails(place) /\ cancels' = IF place = "start" THEN cancels ELSE cancels + 1
    BY <2>1, Zenon
  <2>3. QED
    BY <2>2, Zenon DEF Steps
<1>2. ASSUME CancelProcess PROVE Steps
  <2>1. CASE StartFails("cancelled")
    <3>1. StartFails("cancelled") /\ cancels' = IF "cancelled" = "start" THEN cancels ELSE cancels + 1
      <4>1. cancels' = cancels + 1 /\ "cancelled" # "start"
        BY <1>2 DEF CancelProcess
      <4>2. QED
        BY <2>1, <4>1, Zenon
    <3>2. \E place \in {"start", "cancelled"} :
            StartFails(place) /\ cancels' = IF place = "start" THEN cancels ELSE cancels + 1
      BY <3>1, Zenon
    <3>3. QED
      BY <3>2, Zenon DEF Steps
  <2>2. CASE ~StartFails("cancelled")
    BY <1>2, <2>2, Zenon DEF Steps
  <2>3. QED
    BY <2>1, <2>2
<1>3. QED
  BY <1>1, <1>2, Zenon DEF Next, Process, Monitor, Steps

LEMMA ProcessTypesStep ==
  ASSUME HostTypes, ProcessTypes, Steps
  PROVE  ProcessTypes'
<1>0. /\ main \in Places /\ monitor \in {"none", "check", "waiting", "claimed", "ended"}
      /\ claimed \subseteq WithTask /\ fronts \in [Fronts -> TaskStates]
      /\ owner \in {"nobody", "process", "other"} /\ recorded \subseteq claimed
      /\ interrupted \in BOOLEAN /\ cancels \in Nat /\ cancels + 1 \in Nat
  BY DEF ProcessTypes
<1>1. ASSUME UNCHANGED svars PROVE ProcessTypes'
  BY <1>1 DEF svars, ProcessTypes
<1>2. CASE Starts \/ Release
  BY <1>1, <1>2, Zenon DEF Starts, Release
<1>3. CASE Activated
  BY <1>0, <1>3 DEF Activated, ProcessTypes, Places
<1>4. CASE Bind
  <2>1. fronts' \in [Fronts -> TaskStates]
    BY <1>4 DEF Bind, TaskStates
  <2>2. QED
    BY <1>0, <1>4, <2>1 DEF Bind, ProcessTypes, Places
<1>5. CASE StopAll /\ interrupted' \in BOOLEAN /\ cancels' \in Nat
  <2>1. fronts' \in [Fronts -> TaskStates]
    BY <1>0, <1>5 DEF StopAll, TaskStates
  <2>2. QED
    BY <1>0, <1>5, <2>1 DEF StopAll, MonitorStopped, ProcessTypes, Places
<1>6. CASE FirstEnded
  BY <1>0, <1>5, <1>6 DEF FirstEnded
<1>7. ASSUME NEW error, Close(error),
             UNCHANGED <<stop, monitor, claimed, fronts, recorded, outcome, others, closers>>,
             interrupted' \in BOOLEAN, cancels' \in Nat
      PROVE  ProcessTypes'
  <2>1. main' \in Places /\ owner' \in {"nobody", "process", "other"}
    BY <1>0, <1>7 DEF Close, Places
  <2>2. QED
    BY <1>0, <1>7, <2>1 DEF ProcessTypes
<1>8. CASE Supervised
  BY <1>0, <1>7, <1>8 DEF Supervised
<1>9. CASE RunEnds
  BY <1>0, <1>9 DEF RunEnds, ProcessTypes, Places
<1>10. ASSUME NEW place \in {"start", "cancelled"}, StartFails(place),
              cancels' = IF place = "start" THEN cancels ELSE cancels + 1
       PROVE  ProcessTypes'
  <2>1. cancels' \in Nat /\ interrupted' = interrupted
        /\ UNCHANGED <<stop, monitor, claimed, fronts, recorded, outcome, others, closers>>
    BY <1>0, <1>10 DEF StartFails
  <2>2. Close({<<place, next>>}) \/ (main' = "close" /\ owner' = "process")
    BY <1>10 DEF StartFails
  <2>3. CASE main' = "close" /\ owner' = "process"
    BY <1>0, <2>1, <2>3 DEF ProcessTypes, Places
  <2>4. QED
    BY <1>0, <1>7, <2>1, <2>2, <2>3
<1>11. CASE BindRaises
  BY <1>0, <1>7, <1>11 DEF BindRaises
<1>12. ASSUME NEW m \in Modules, Task(m) PROVE ProcessTypes'
  BY <1>1, <1>12, Zenon DEF Task
<1>13. CASE Look
  <2>1. pending # <<>> => Head(pending) \in WithTask
    BY HeadTailProperties DEF HostTypes
  <2>2. claimed' \subseteq WithTask /\ claimed \subseteq claimed'
    BY <1>0, <1>13, <2>1 DEF Look
  <2>3. QED
    BY <1>0, <1>13, <2>2 DEF Look, ProcessTypes
<1>14. CASE Wake
  BY <1>0, <1>14 DEF Wake, ProcessTypes
<1>15. ASSUME NEW lands \in BOOLEAN, RecordClaimed(lands) PROVE ProcessTypes'
  BY <1>0, <1>15 DEF RecordClaimed, ProcessTypes
<1>16. ASSUME NEW f \in Fronts, FrontReturns(f) \/ FrontFails(f) PROVE ProcessTypes'
  <2>1. fronts' \in [Fronts -> TaskStates]
    BY <1>0, <1>16 DEF FrontReturns, FrontFails, TaskStates
  <2>2. UNCHANGED <<main, monitor, claimed, owner, recorded, interrupted, cancels>>
    BY <1>16 DEF FrontReturns, FrontFails
  <2>3. QED
    BY <1>0, <2>1, <2>2 DEF ProcessTypes
<1>17. CASE RequestStop \/ OtherCloses \/ OtherReturns
  BY <1>0, <1>17 DEF RequestStop, OtherCloses, OtherReturns, ProcessTypes
<1>18. CASE CancelProcess /\ ~StartFails("cancelled")
  <2>1. CASE main = "supervise" /\ StopAll /\ interrupted' = TRUE /\ UNCHANGED kvars
    BY <1>0, <1>5, <1>18, <2>1 DEF CancelProcess
  <2>2. CASE UNCHANGED <<kvars, main, stop, monitor, claimed, fronts, errors, owner, recorded,
                         outcome, others, closers>> /\ interrupted' = TRUE
    BY <1>0, <1>18, <2>2 DEF CancelProcess, ProcessTypes
  <2>3. QED
    BY <1>18, <2>1, <2>2, Zenon DEF CancelProcess
<1>19. CASE UNCHANGED vars
  BY <1>1, <1>19, Zenon DEF vars
<1>20. QED
  BY <1>2, <1>3, <1>4, <1>6, <1>8, <1>9, <1>10, <1>11, <1>12, <1>13, <1>14, <1>15, <1>16, <1>17,
     <1>18, <1>19 DEF Steps

LEMMA ClosingHost ==
  ASSUME NEW error, Close(error)
  PROVE  Closed' /\ main' = "close" /\ errors' = error
         /\ (Closed => UNCHANGED <<kvars, owner>>) /\ (~Closed => BeginRelease /\ owner' = "process")
<1>1. main' = "close" /\ errors' = error
      /\ (Closed => UNCHANGED <<kvars, owner>>) /\ (~Closed => BeginRelease /\ owner' = "process")
  BY Zenon DEF Close
<1>2. Closed'
  BY <1>1 DEF Closed, BeginRelease, kvars
<1>3. QED
  BY <1>1, <1>2

\* While it starts, the process fails into the release of what there is.
LEMMA StartFailsFacts ==
  ASSUME NEW place, StartFails(place)
  PROVE  /\ main = "start" /\ main' = "close" /\ Closed' /\ errors' = {<<place, next>>}
         /\ (~Closed => owner' = "process")
         /\ failed' = failed \cup {<<place, next>>}
         /\ UNCHANGED <<monitor, claimed, fronts, interrupted, recorded, outcome, others, closers>>
         /\ collected' = collected /\ pending' = pending
<1>1. /\ main = "start"
      /\ UNCHANGED <<monitor, claimed, fronts, interrupted, recorded, outcome, others, closers>>
  BY DEF StartFails
<1>2. CASE ConstructionFails(place) /\ errors' = {<<place, next>>} /\ main' = "close" /\ owner' = "process"
  BY <1>1, <1>2 DEF ConstructionFails, Fail, Closed
<1>3. CASE Close({<<place, next>>}) /\ Fail(place, next) /\ stage \in {"activate", "prepared"}
  <2>1. ~Closed
    BY <1>3 DEF Closed
  <2>2. BeginRelease /\ owner' = "process" /\ Closed' /\ main' = "close" /\ errors' = {<<place, next>>}
    BY <1>3, <2>1, ClosingHost
  <2>3. QED
    BY <1>1, <1>3, <2>2 DEF Fail, BeginRelease
<1>4. QED
  BY <1>2, <1>3 DEF StartFails

LEMMA PlacedStep ==
  ASSUME HostTypes, ProcessTypes, Releasing, Placed, Steps
  PROVE  Placed'
<1>0. /\ owner = "nobody" <=> ~Closed
      /\ owner = "process" => main \in {"close", "ended"}
      /\ main = "start" => stage \in Starting /\ failed = {}
      /\ main = "bind" => stage = "active"
      /\ main \in {"start", "bind"} => Unused /\ errors = {} /\ cancels = 0 /\ owner = "nobody"
      /\ main \in {"supervise", "join"} => stage \notin Starting /\ monitor # "none"
      /\ main = "supervise" => cancels = 0
      /\ main = "join" => monitor \in {"claimed", "ended"}
      /\ main \in {"close", "ended"} => Closed /\ Quiet
      /\ main = "ended" => stage = "released"
      /\ main \in Places
  BY DEF Placed, ProcessTypes
<1>1. stage \in Starting => ~Closed /\ Idle
  BY DEF Starting, Closed, Releasing
<1>2. CASE Starts
  <2>1. main = "start" /\ UNCHANGED svars /\ failed' = failed
    BY <1>2 DEF Starts, Prepare, Construct, Activate
  <2>2. stage' \in Starting
    BY <1>2 DEF Starts, Prepare, Construct, Activate, Starting
  <2>3. ~Closed'
    BY <2>2 DEF Starting, Closed
  <2>4. Unused'
    BY <1>0, <2>1 DEF Unused, svars
  <2>5. QED
    BY <1>0, <1>1, <2>1, <2>2, <2>3, <2>4 DEF Placed, svars
<1>3. CASE Activated
  <2>1. /\ main = "start" /\ failed' = failed /\ stage = "activate" /\ stage' \in {"activate", "active"}
        /\ main' = IF stage' = "active" THEN "bind" ELSE main
        /\ UNCHANGED <<monitor, claimed, fronts, errors, owner, cancels>>
    BY <1>3 DEF Activated, ActivateHook
  <2>2. ~Closed' /\ (stage' = "activate" => stage' \in Starting)
    BY <2>1 DEF Closed, Starting
  <2>3. Unused'
    BY <1>0, <2>1 DEF Unused
  <2>4. QED
    BY <1>0, <1>1, <2>1, <2>2, <2>3 DEF Placed
<1>4. CASE Bind
  <2>1. /\ main = "bind" /\ main' = "supervise" /\ monitor' = "check" /\ stage' = stage
        /\ UNCHANGED <<errors, owner, cancels>>
    BY <1>4 DEF Bind, kvars
  <2>2. Closed' = Closed /\ stage' \notin Starting
    BY <1>0, <2>1 DEF Closed, Starting
  <2>3. QED
    BY <1>0, <2>1, <2>2 DEF Placed
<1>5. CASE FirstEnded \/ (CancelProcess /\ ~StartFails("cancelled"))
  <2>1. CASE StopAll /\ main = "supervise" /\ stage' = stage
    <3>1. main' = "join" /\ owner' = owner /\ monitor' \in {"claimed", "ended"}
      BY <2>1 DEF StopAll, MonitorStopped
    <3>2. Closed' = Closed
      BY <2>1 DEF Closed
    <3>3. QED
      BY <1>0, <2>1, <3>1, <3>2 DEF Placed
  <2>2. CASE main \in {"join", "close"} /\ UNCHANGED <<kvars, main, monitor, claimed, fronts, errors, owner>>
    <3>1. Closed' = Closed /\ (Quiet => Quiet') /\ stage' = stage
      BY <2>2 DEF Closed, Quiet, kvars
    <3>2. QED
      BY <1>0, <2>2, <3>1 DEF Placed
  <2>3. QED
    BY <1>5, <2>1, <2>2 DEF FirstEnded, CancelProcess, kvars
<1>6. CASE Supervised
  <2>1. /\ main = "join" /\ Close(errors \cup IF interrupted THEN {Cancelled} ELSE {}) /\ Joined
        /\ UNCHANGED <<monitor, fronts>>
    BY <1>6 DEF Supervised
  <2>2. /\ main' = "close" /\ Closed' /\ (Closed => owner' = owner) /\ (~Closed => owner' = "process")
    BY <2>1, ClosingHost
  <2>3. Quiet'
    BY <2>1 DEF Quiet, Joined, FrontsJoined
  <2>4. QED
    BY <1>0, <2>2, <2>3 DEF Placed
<1>7. CASE RunEnds
  <2>1. main = "close" /\ main' = "ended" /\ stage = "released" /\ UNCHANGED <<kvars, monitor, fronts, owner>>
    BY <1>7 DEF RunEnds
  <2>2. Closed' = Closed /\ (Quiet => Quiet') /\ stage' = stage
    BY <2>1 DEF Closed, Quiet, kvars
  <2>3. QED
    BY <1>0, <2>1, <2>2 DEF Placed
<1>8. ASSUME NEW place \in {"start", "cancelled"}, StartFails(place) PROVE Placed'
  <2>1. main = "start" /\ main' = "close" /\ Closed' /\ (~Closed => owner' = "process") /\ UNCHANGED <<monitor, fronts>>
    BY <1>8, StartFailsFacts
  <2>2. Unused => Quiet'
    BY <2>1 DEF Unused, Quiet
  <2>3. QED
    BY <1>0, <1>1, <2>1, <2>2 DEF Placed
<1>9. CASE BindRaises
  <2>1. main = "bind" /\ Close({<<"start", 0>>}) /\ UNCHANGED <<monitor, fronts>>
    BY <1>9 DEF BindRaises
  <2>2. main' = "close" /\ Closed' /\ (~Closed => owner' = "process")
    BY <2>1, ClosingHost
  <2>3. Unused => Quiet'
    BY <2>1 DEF Unused, Quiet
  <2>4. QED
    BY <1>0, <2>1, <2>2, <2>3 DEF Placed
<1>10. ASSUME NEW m \in Modules, Task(m) PROVE Placed'
  <2>1. /\ stage' = stage /\ UNCHANGED svars /\ ~Idle
    BY <1>10 DEF Task, TaskEnds, TaskFails, Idle
  <2>2. Closed' = Closed /\ (Quiet => Quiet') /\ (Unused => Unused') /\ main # "start"
    BY <1>0, <1>1, <2>1 DEF Closed, Quiet, Unused, svars
  <2>3. QED
    BY <1>0, <2>1, <2>2 DEF Placed, svars
<1>11. ASSUME main \in {"supervise", "join"}, UNCHANGED <<stage, main, owner, cancels>>,
              main = "supervise" => monitor' # "none",
              main = "join" => monitor' \in {"claimed", "ended"}
       PROVE  Placed'
  <2>1. Closed' = Closed
    BY <1>11 DEF Closed
  <2>2. QED
    BY <1>0, <1>11, <2>1 DEF Placed
<1>12. CASE Look \/ Wake
  <2>1. /\ monitor \in {"check", "waiting"} /\ UNCHANGED <<stage, main, owner, cancels>> /\ monitor' # "none"
    BY <1>12 DEF Look, Wake
  <2>2. main = "supervise"
    BY <1>0, <2>1 DEF Unused, Quiet, Places
  <2>3. QED
    BY <1>11, <2>1, <2>2
<1>13. ASSUME NEW lands \in BOOLEAN, RecordClaimed(lands) PROVE Placed'
  <2>1. monitor = "claimed" /\ monitor' = "ended" /\ UNCHANGED <<stage, main, owner, cancels>>
    BY <1>13 DEF RecordClaimed
  <2>2. main \in {"supervise", "join"}
    BY <1>0, <2>1 DEF Unused, Quiet, Places
  <2>3. QED
    BY <1>11, <2>1, <2>2
<1>14. ASSUME NEW f \in Fronts, FrontReturns(f) \/ FrontFails(f) PROVE Placed'
  <2>1. fronts[f] \in {"running", "stopping"} /\ UNCHANGED <<stage, main, owner, cancels, monitor>>
    BY <1>14 DEF FrontReturns, FrontFails, kvars
  <2>2. main \in {"supervise", "join"}
    BY <1>0, <2>1 DEF Unused, Quiet, Places
  <2>3. QED
    BY <1>0, <1>11, <2>1, <2>2
<1>15. CASE RequestStop \/ OtherReturns \/ UNCHANGED vars
  <2>1. UNCHANGED <<stage, main, owner, cancels, monitor, fronts, claimed, errors, failed>>
    BY <1>15 DEF RequestStop, OtherReturns, vars, svars, kvars
  <2>2. Closed' = Closed /\ (Quiet => Quiet') /\ (Unused => Unused')
    BY <2>1 DEF Closed, Quiet, Unused
  <2>3. QED
    BY <1>0, <2>1, <2>2 DEF Placed
<1>16. CASE Release
  <2>1. Closed /\ Closed' /\ UNCHANGED svars /\ (stage = "released" => stage' = "released")
    BY <1>16 DEF Release, TasksJoined, ReleaseOne, Released, Closed
  <2>2. stage' \notin Starting /\ (Quiet => Quiet')
    BY <2>1 DEF Closed, Starting, Quiet, svars
  <2>3. QED
    BY <1>0, <1>1, <2>1, <2>2 DEF Placed, svars
<1>17. CASE OtherCloses
  <2>1. /\ stage = "active" /\ main # "bind" /\ stage' = "stopping" /\ owner' = "other"
        /\ UNCHANGED <<main, monitor, cancels>>
    BY <1>17 DEF OtherCloses, BeginRelease
  <2>2. ~Closed /\ Closed' /\ main \in {"supervise", "join"} /\ stage' \notin Starting
    BY <1>0, <2>1 DEF Closed, Starting, Places
  <2>3. QED
    BY <1>0, <2>1, <2>2 DEF Placed
<1>18. QED
  BY <1>2, <1>3, <1>4, <1>5, <1>6, <1>7, <1>8, <1>9, <1>10, <1>12, <1>13, <1>14, <1>15, <1>16, <1>17
  DEF Steps

\* What is told depends on the errors, on the release and on the process.
LEMMA SameTold ==
  ASSUME UNCHANGED <<errors, outcome, owner, interrupted, collected>>
  PROVE  AllTold' = AllTold
BY DEF AllTold, Cancellation, Cancelled


\* A step that takes nothing away from those who hold the errors and adds none
\* keeps the account.
LEMMA NothingLost ==
  ASSUME Accounted, Held \subseteq Held',
         UNCHANGED <<main, failed, collected, errors, outcome, owner, interrupted, cancels, others>>,
         Untaken' \subseteq Untaken,
         \A m \in claimed' : m \in recorded' \/ monitor' = "claimed" \/ <<"record", 0>> \in errors,
         stage = "released" => stage' = "released"
  PROVE  Accounted'
<1>1. AllTold' = AllTold
  BY SameTold
<1>2. QED
  BY <1>1, Zenon DEF Accounted

\* What the tasks, the release and the others leave alone.
LEMMA ProcessApart ==
  ASSUME Accounted, UNCHANGED svars, failed \subseteq Held', (collected \cup Untaken)' \subseteq failed,
         failed' = failed, UNCHANGED collected, stage = "released" => stage' = "released"
  PROVE  Accounted'
<1>1. UNCHANGED <<main, monitor, claimed, errors, interrupted, owner, recorded, outcome, others, cancels>>
  BY DEF svars
<1>2. AllTold' = AllTold
  BY <1>1, SameTold
<1>3. QED
  BY <1>1, <1>2 DEF Accounted

LEMMA AccountedStep ==
  ASSUME HostTypes, ProcessTypes, Releasing, Placed, Accounted, Steps
  PROVE  Accounted'
<1>0. /\ failed \subseteq Held
      /\ collected \cup Untaken \subseteq failed
      /\ \A m \in claimed : m \in recorded \/ monitor = "claimed" \/ <<"record", 0>> \in errors
      /\ cancels > 0 => interrupted \/ \E e \in errors : e[1] = "cancelled"
      /\ main # "ended" => outcome = {}
      /\ main = "ended" => AllTold
      /\ others # <<>> => stage = "released" /\ others = <<collected>>
      /\ cancels \in Nat
  BY DEF Accounted, ProcessTypes
<1>a. /\ main = "start" => failed = {} /\ stage \in Starting
      /\ main = "bind" => stage = "active"
      /\ main \in {"start", "bind"} => Unused /\ errors = {} /\ cancels = 0
      /\ main = "supervise" => cancels = 0
      /\ main = "join" => monitor \in {"claimed", "ended"}
      /\ main \in {"close", "ended"} => Closed /\ Quiet
      /\ main = "ended" => stage = "released"
      /\ main \in Places
      /\ stage \in Starting => Idle
  BY DEF Placed, ProcessTypes, Releasing
<1>b. ASSUME UNCHANGED kvars PROVE Untaken' = Untaken /\ stage' = stage /\ UNCHANGED <<failed, collected>>
  BY <1>b DEF kvars, Untaken
<1>1. CASE Starts
  <2>1. UNCHANGED <<failed, collected, pending>> /\ stage # "released"
    BY <1>1 DEF Starts, Prepare, Construct, Activate
  <2>2. Untaken' = Untaken /\ UNCHANGED svars
    BY <1>1, <2>1 DEF Untaken, Starts
  <2>3. Held' = Held
    BY <2>1, <2>2 DEF Held, InHand, svars
  <2>4. QED
    BY <1>0, <2>1, <2>2, <2>3, ProcessApart
<1>2. CASE Activated
  <2>1. /\ UNCHANGED <<failed, collected, pending, monitor, claimed, errors, interrupted, owner, recorded, outcome,
                       others, cancels>>
        /\ main = "start" /\ main' \in {"start", "bind"} /\ stage # "released"
    BY <1>2 DEF Activated, ActivateHook
  <2>2. Untaken' = Untaken /\ InHand' = InHand
    BY <2>1 DEF Untaken, InHand
  <2>3. Held' = Held
    BY <2>1, <2>2 DEF Held
  <2>4. QED
    BY <1>0, <2>1, <2>2, <2>3 DEF Accounted
<1>3. CASE Bind
  <2>1. /\ UNCHANGED <<kvars, claimed, errors, interrupted, owner, recorded, outcome, others, cancels>>
        /\ main = "bind" /\ main' = "supervise"
    BY <1>3 DEF Bind
  <2>2. claimed = {}
    BY <1>a, <2>1 DEF Unused
  <2>3. Held' = Held
    BY <1>b, <2>1, <2>2 DEF Held, InHand
  <2>4. QED
    BY <1>0, <1>b, <2>1, <2>2, <2>3 DEF Accounted
<1>4. CASE FirstEnded \/ (CancelProcess /\ ~StartFails("cancelled"))
  <2>1. CASE StopAll /\ main = "supervise" /\ UNCHANGED kvars
             /\ ((cancels' = cancels /\ interrupted' = interrupted) \/ interrupted' = TRUE)
    <3>1. /\ UNCHANGED <<claimed, errors, owner, recorded, outcome, others>>
          /\ main' = "join" /\ (monitor = "claimed" <=> monitor' = "claimed")
      BY <2>1 DEF StopAll, MonitorStopped
    <3>2. InHand' = InHand
      BY <3>1 DEF InHand
    <3>3. Held' = Held
      BY <1>b, <2>1, <3>1, <3>2 DEF Held
    <3>4. QED
      BY <1>0, <1>b, <2>1, <3>1, <3>3 DEF Accounted
  <2>2. CASE /\ main \in {"join", "close"} /\ interrupted' = TRUE
             /\ UNCHANGED <<kvars, main, monitor, claimed, errors, owner, recorded, outcome, others>>
    <3>1. Held' = Held
      BY <1>b, <2>2 DEF Held, InHand
    <3>2. QED
      BY <1>0, <1>b, <2>2, <3>1 DEF Accounted
  <2>3. QED
    BY <1>4, <2>1, <2>2 DEF FirstEnded, CancelProcess
<1>5. ASSUME NEW error, Close(error), errors \subseteq error, failed' \subseteq failed \cup error,
             failed \subseteq failed',
             cancels' > 0 => interrupted' \/ \E e \in error : e[1] = "cancelled",
             UNCHANGED <<monitor, claimed, recorded, outcome, others>>, main # "ended"
      PROVE  Accounted'
  <2>1. /\ main' = "close" /\ errors' = error /\ UNCHANGED <<pending, collected>>
        /\ (stage = "released" => stage' = "released")
    <3>1. UNCHANGED kvars \/ BeginRelease
      BY <1>5, ClosingHost
    <3>2. QED
      BY <1>5, <3>1, ClosingHost DEF BeginRelease, kvars
  <2>2. Untaken' = Untaken /\ InHand' = InHand
    BY <1>5, <2>1 DEF Untaken, InHand
  <2>3. failed' \subseteq Held'
    BY <1>0, <1>5, <2>1, <2>2 DEF Held
  <2>4. QED
    BY <1>0, <1>5, <2>1, <2>2, <2>3 DEF Accounted
<1>6. CASE Supervised
  <2> DEFINE error == errors \cup IF interrupted THEN {Cancelled} ELSE {}
  <2>1. /\ Close(error) /\ failed' = failed /\ cancels' = cancels /\ main # "ended"
        /\ UNCHANGED <<monitor, claimed, recorded, outcome, others>>
    BY <1>6 DEF Supervised
  <2>2. errors \subseteq error /\ (interrupted => Cancelled \in error) /\ Cancelled[1] = "cancelled"
    BY DEF Cancelled
  <2> HIDE DEF error
  <2>3. cancels' > 0 => \E e \in error : e[1] = "cancelled"
    BY <1>0, <2>1, <2>2
  <2>4. QED
    BY <1>5, <2>1, <2>2, <2>3
<1>7. CASE RunEnds
  <2>1. /\ main = "close" /\ main' = "ended" /\ stage = "released"
        /\ outcome' = Raised(Collected("process"))
        /\ UNCHANGED <<kvars, monitor, claimed, errors, interrupted, owner, recorded, others, cancels>>
    BY <1>7 DEF RunEnds
  <2>2. AllTold'
    BY <1>b, <2>1 DEF AllTold, Raised, Collected, Cancellation
  <2>3. InHand' = InHand /\ outcome = {}
    BY <1>0, <2>1 DEF InHand
  <2>4. failed' \subseteq Held'
    BY <1>0, <1>b, <2>1, <2>3 DEF Held
  <2>5. QED
    BY <1>0, <1>b, <2>1, <2>2, <2>4 DEF Accounted
<1>8. ASSUME NEW place \in {"start", "cancelled"}, StartFails(place),
             cancels' = IF place = "start" THEN cancels ELSE cancels + 1
      PROVE  Accounted'
  <2>1. /\ main = "start" /\ main' = "close" /\ Closed' /\ errors' = {<<place, next>>}
        /\ failed' = failed \cup {<<place, next>>}
        /\ UNCHANGED <<monitor, claimed, interrupted, recorded, outcome, others>>
        /\ collected' = collected /\ pending' = pending
    BY <1>8, StartFailsFacts
  <2>2. failed = {} /\ claimed = {} /\ cancels = 0 /\ stage # "released"
    BY <1>a, <2>1 DEF Unused, Starting
  <2>3. Untaken' = Untaken
    BY <2>1 DEF Untaken
  <2>4. cancels' > 0 => \E e \in errors' : e[1] = "cancelled"
    <3>1. CASE place = "start"
      BY <1>8, <2>2, <3>1
    <3>2. CASE place = "cancelled"
      <4>1. <<place, next>> \in errors' /\ <<place, next>>[1] = "cancelled"
        BY <2>1, <3>2
      <4>2. QED
        BY <4>1
    <3>3. QED
      BY <3>1, <3>2
  <2>5. QED
    BY <1>0, <2>1, <2>2, <2>3, <2>4 DEF Accounted, Held
<1>9. CASE BindRaises
  <2>1. /\ Close({<<"start", 0>>}) /\ failed' = failed \cup {<<"start", 0>>} /\ main = "bind"
        /\ UNCHANGED <<monitor, claimed, recorded, outcome, others, cancels>>
    BY <1>9 DEF BindRaises, Fail
  <2>2. errors = {} /\ cancels = 0
    BY <1>a, <2>1
  <2>3. QED
    BY <1>5, <2>1, <2>2
<1>10. ASSUME NEW m \in Modules, Task(m) PROVE Accounted'
  <2>0. pending \in Seq(WithTask)
    BY DEF HostTypes
  <2>1. /\ UNCHANGED svars /\ UNCHANGED <<stage, collected>> /\ m \in Modules
        /\ tasks[m] \in {"running", "stopping"}
    BY <1>10 DEF Task, TaskEnds, TaskFails
  <2>2. m \in WithTask
    BY <2>1 DEF Releasing
  <2>3. CASE TaskEnds(m)
    <3>1. UNCHANGED <<failed, pending>>
      BY <2>3 DEF TaskEnds
    <3>2. Held' = Held /\ Untaken' = Untaken
      BY <2>1, <3>1 DEF Held, Untaken, InHand, svars
    <3>3. QED
      BY <1>0, <2>1, <3>1, <3>2, ProcessApart
  <2>4. CASE TaskFails(m)
    <3>1. pending' = Append(pending, m) /\ failed' = failed \cup {<<"task", m>>}
      BY <2>4 DEF TaskFails, RecordFailure, Fail
    <3>2. ToSet(pending') = ToSet(pending) \cup {m}
      BY <2>0, <2>2, <3>1, AppendElements
    <3>3. Untaken' = Untaken \cup {<<"task", m>>}
      BY <3>2 DEF Untaken
    <3>4. failed' \subseteq Held' /\ (collected \cup Untaken)' \subseteq failed'
      BY <1>0, <2>1, <3>1, <3>3 DEF Held, InHand, svars
    <3>5. AllTold' = AllTold
      BY <2>1, SameTold DEF svars
    <3>6. QED
      BY <1>0, <2>1, <3>4, <3>5 DEF Accounted, svars
  <2>5. QED
    BY <1>10, <2>3, <2>4 DEF Task
<1>11. CASE Look
  <2>0. pending \in Seq(WithTask)
    BY DEF HostTypes
  <2>1. /\ UNCHANGED <<stage, main, failed, collected, errors, interrupted, owner, recorded, outcome, others, cancels>>
        /\ monitor = "check"
    BY <1>11 DEF Look
  <2>2. CASE pending = <<>>
    <3>1. UNCHANGED <<pending, claimed>> /\ monitor' # "claimed"
      BY <1>11, <2>2 DEF Look
    <3>2. Untaken' = Untaken /\ InHand = {}
      BY <2>1, <3>1 DEF Untaken, InHand
    <3>3. Held \subseteq Held'
      BY <2>1, <3>2 DEF Held
    <3>4. QED
      BY <1>0, <2>1, <3>1, <3>2, <3>3, NothingLost
  <2>3. CASE pending # <<>>
    <3>1. pending' = Tail(pending) /\ claimed' = claimed \cup {Head(pending)} /\ monitor' = "claimed"
      BY <1>11, <2>3 DEF Look
    <3>2. ToSet(pending) = {Head(pending)} \cup ToSet(pending')
      BY <2>0, <2>3, <3>1, HeadTailElements
    <3>3. Untaken' \subseteq Untaken /\ Untaken \subseteq Untaken' \cup InHand' /\ InHand = {}
      BY <2>1, <3>1, <3>2 DEF Untaken, InHand
    <3>4. Held \subseteq Held'
      BY <2>1, <3>3 DEF Held
    <3>5. QED
      BY <2>1, <3>1, <3>3, <3>4, NothingLost
  <2>4. QED
    BY <2>2, <2>3
<1>12. CASE Wake
  <2>1. /\ UNCHANGED <<stage, main, failed, collected, pending, claimed, errors, interrupted, owner, recorded, outcome,
                       others, cancels>>
        /\ monitor = "waiting" /\ monitor' = "check"
    BY <1>12 DEF Wake
  <2>2. Untaken' = Untaken /\ InHand = {}
    BY <2>1 DEF Untaken, InHand
  <2>3. Held \subseteq Held'
    BY <2>1, <2>2 DEF Held
  <2>4. QED
    BY <1>0, <2>1, <2>2, <2>3, NothingLost
<1>13. ASSUME NEW lands \in BOOLEAN, RecordClaimed(lands) PROVE Accounted'
  <2>1. /\ UNCHANGED <<stage, main, collected, pending, claimed, interrupted, owner, outcome, others, cancels>>
        /\ monitor = "claimed" /\ monitor' = "ended"
        /\ errors' = errors \cup {<<"task", m>> : m \in claimed} \cup IF lands THEN {} ELSE {<<"record", 0>>}
        /\ failed' = IF lands THEN failed ELSE failed \cup {<<"record", 0>>}
        /\ recorded' = IF lands THEN claimed ELSE recorded
    BY <1>13 DEF RecordClaimed
  <2>2. Untaken' = Untaken /\ InHand \subseteq errors' /\ errors \subseteq errors'
    BY <2>1 DEF Untaken, InHand
  <2>3. main # "ended"
    BY <1>a, <2>1 DEF Quiet
  <2>4. failed' \subseteq Held' /\ failed \subseteq failed'
    BY <1>0, <2>1, <2>2 DEF Held
  <2>5. \A m \in claimed' : m \in recorded' \/ <<"record", 0>> \in errors'
    BY <2>1
  <2>6. QED
    BY <1>0, <2>1, <2>2, <2>3, <2>4, <2>5 DEF Accounted
<1>14. ASSUME NEW f \in Fronts, FrontReturns(f) PROVE Accounted'
  <2>1. UNCHANGED <<kvars, main, monitor, claimed, errors, interrupted, owner, recorded, outcome, others, cancels>>
    BY <1>14 DEF FrontReturns
  <2>2. Held' = Held
    BY <1>b, <2>1 DEF Held, InHand
  <2>3. QED
    BY <1>0, <1>b, <2>1, <2>2, NothingLost
<1>15. ASSUME NEW f \in Fronts, FrontFails(f) PROVE Accounted'
  <2>1. /\ UNCHANGED <<stage, main, collected, pending, monitor, claimed, interrupted, owner, recorded, outcome,
                       others, cancels>>
        /\ errors' = errors \cup {<<"front", f>>} /\ failed' = failed \cup {<<"front", f>>}
        /\ fronts[f] \in {"running", "stopping"}
    BY <1>15 DEF FrontFails
  <2>2. main # "ended"
    BY <1>a, <2>1 DEF Quiet
  <2>3. Untaken' = Untaken /\ InHand' = InHand
    BY <2>1 DEF Untaken, InHand
  <2>4. failed' \subseteq Held'
    BY <1>0, <2>1, <2>3 DEF Held
  <2>5. QED
    BY <1>0, <2>1, <2>2, <2>3, <2>4 DEF Accounted
<1>16. CASE RequestStop \/ UNCHANGED vars
  <2>1. UNCHANGED <<kvars, main, monitor, claimed, errors, interrupted, owner, recorded, outcome, others, cancels>>
    BY <1>16 DEF RequestStop, vars, svars
  <2>2. Held' = Held
    BY <1>b, <2>1 DEF Held, InHand
  <2>3. QED
    BY <1>0, <1>b, <2>1, <2>2, NothingLost
<1>17. CASE Release
  <2>0. UNCHANGED svars
    BY <1>17 DEF Release
  <2>1. CASE TasksJoined
    <3>1. collected' = Untaken /\ pending' = <<>> /\ failed' = failed /\ stage = "stopping"
      BY <2>1 DEF TasksJoined
    <3>2. collected = {} /\ Untaken' = {}
      BY <3>1 DEF Releasing, Untaken, ToSet
    <3>3. failed' \subseteq Held'
      BY <1>0, <2>0, <3>1, <3>2 DEF Held, InHand, svars
    <3>4. main # "ended"
      BY <1>a, <3>1
    <3>5. others = <<>>
      BY <1>0, <3>1
    <3>6. QED
      BY <1>0, <2>0, <3>1, <3>2, <3>3, <3>4, <3>5 DEF Accounted, svars
  <2>2. ASSUME NEW fails \in BOOLEAN, ReleaseOne(fails) PROVE Accounted'
    <3>1. /\ UNCHANGED <<stage, pending>> /\ stage = "release"
          /\ \/ UNCHANGED <<collected, failed>>
             \/ collected' = collected \cup {Head(todo)} /\ failed' = failed \cup {Head(todo)}
      BY <2>2 DEF ReleaseOne
    <3>2. Untaken' = Untaken
      BY <3>1 DEF Untaken
    <3>3. failed' \subseteq Held' /\ (collected \cup Untaken)' \subseteq failed'
      BY <1>0, <2>0, <3>1, <3>2 DEF Held, InHand, svars
    <3>4. main # "ended" /\ others = <<>>
      BY <1>0, <1>a, <3>1
    <3>5. QED
      BY <1>0, <2>0, <3>1, <3>3, <3>4 DEF Accounted, svars
  <2>3. CASE Released
    <3>1. stage' = "released" /\ UNCHANGED <<pending, collected, failed>>
      BY <2>3 DEF Released
    <3>2. Untaken' = Untaken
      BY <3>1 DEF Untaken
    <3>3. Held' = Held
      BY <2>0, <3>1, <3>2 DEF Held, InHand, svars
    <3>4. QED
      BY <1>0, <2>0, <3>1, <3>2, <3>3, ProcessApart
  <2>4. QED
    BY <1>17, <2>1, <2>2, <2>3 DEF Release
<1>18. CASE OtherCloses
  <2>1. /\ stage = "active" /\ UNCHANGED <<main, monitor, claimed, errors, interrupted, recorded, outcome, others, cancels>>
        /\ UNCHANGED <<pending, collected, failed>>
    BY <1>18 DEF OtherCloses, BeginRelease
  <2>2. Untaken' = Untaken /\ main # "ended"
    BY <1>a, <2>1 DEF Untaken
  <2>3. Held' = Held
    BY <2>1, <2>2 DEF Held, InHand
  <2>4. QED
    BY <1>0, <2>1, <2>2, <2>3 DEF Accounted
<1>19. CASE OtherReturns
  <2>1. /\ UNCHANGED <<kvars, main, monitor, claimed, errors, interrupted, owner, recorded, outcome, cancels>>
        /\ stage = "released" /\ others' = <<collected>>
    BY <1>19 DEF OtherReturns, Collected
  <2>2. Held' = Held /\ AllTold' = AllTold
    BY <1>b, <2>1, SameTold DEF Held, InHand
  <2>3. QED
    BY <1>0, <1>b, <2>1, <2>2 DEF Accounted
<1>20. QED
  BY <1>1, <1>2, <1>3, <1>4, <1>6, <1>7, <1>8, <1>9, <1>10, <1>11, <1>12, <1>13, <1>14, <1>15,
     <1>16, <1>17, <1>18, <1>19 DEF Steps

-----------------------------------------------------------------------------
\* Which errors there are.

\* A step that leaves them, the process and its cancellations alone.
LEMMA SortedApart ==
  ASSUME Sorted, UNCHANGED <<main, errors, interrupted, cancels>>
  PROVE  Sorted'
BY DEF Sorted

LEMMA SortedStep ==
  ASSUME ProcessTypes, Placed, Sorted, Steps
  PROVE  Sorted'
<1>0. /\ main \in {"start", "bind"} => errors = {} /\ cancels = 0
      /\ main \in {"supervise", "join"} => \A e \in errors : e[1] \in Supervising
      /\ main \in {"close", "ended"} =>
           (\E e : errors = {e}) \/ \A e \in errors : e[1] \in Supervising \/ e[1] = "cancelled"
      /\ interrupted \/ (\E e \in errors : e[1] = "cancelled") => cancels > 0
      /\ main \in Places /\ cancels \in Nat
      /\ cancels > 0 => cancels + 1 > 0
      /\ main \in {"close", "ended"} => Quiet
      /\ main \in {"start", "bind"} => Unused
  BY DEF Sorted, Placed, ProcessTypes
<1>1. CASE Starts \/ RequestStop \/ Release \/ OtherCloses \/ OtherReturns \/ Look \/ Wake \/ UNCHANGED vars
  <2>1. UNCHANGED <<main, errors, interrupted, cancels>>
    BY <1>1 DEF Starts, RequestStop, Release, OtherCloses, OtherReturns, Look, Wake, vars, svars
  <2>2. QED
    BY <2>1, SortedApart
<1>2. ASSUME NEW m \in Modules, Task(m) PROVE Sorted'
  BY <1>2, SortedApart DEF Task, svars
<1>3. ASSUME NEW f \in Fronts, FrontReturns(f) PROVE Sorted'
  BY <1>3, SortedApart DEF FrontReturns
<1>4. CASE Activated \/ Bind
  <2>1. /\ UNCHANGED <<errors, interrupted, cancels>> /\ main \in {"start", "bind"}
        /\ main' \in {"start", "bind", "supervise"}
    BY <1>4 DEF Activated, Bind
  <2>2. QED
    BY <1>0, <2>1 DEF Sorted
<1>5. CASE FirstEnded \/ RunEnds
  <2>1. /\ UNCHANGED <<errors, interrupted, cancels>>
        /\ (main = "supervise" /\ main' = "join") \/ (main = "close" /\ main' = "ended")
    BY <1>5 DEF FirstEnded, StopAll, RunEnds
  <2>2. QED
    BY <1>0, <2>1 DEF Sorted
<1>6. CASE Supervised
  <2>1. /\ main = "join" /\ main' = "close" /\ cancels' = cancels /\ interrupted' = FALSE
        /\ errors' = errors \cup IF interrupted THEN {Cancelled} ELSE {}
    BY <1>6 DEF Supervised, Close
  <2>2. interrupted => cancels > 0
    BY <1>0
  <2>3. Cancelled[1] = "cancelled" /\ "cancelled" \notin Supervising
    BY DEF Cancelled, Supervising
  <2>4. \A e \in errors' : e[1] \in Supervising \/ (interrupted /\ e[1] = "cancelled")
    BY <1>0, <2>1, <2>3
  <2>5. QED
    BY <2>1, <2>2, <2>3, <2>4 DEF Sorted
<1>7. ASSUME NEW place \in {"start", "cancelled"}, StartFails(place),
             cancels' = IF place = "start" THEN cancels ELSE cancels + 1
      PROVE  Sorted'
  <2>1. main = "start" /\ main' = "close" /\ errors' = {<<place, next>>} /\ interrupted' = interrupted
    BY <1>7, StartFailsFacts
  <2>2. place = "cancelled" => cancels' > 0
    BY <1>0, <1>7, <2>1
  <2>3. \A e \in errors' : e[1] = place
    BY <2>1
  <2>4. QED
    BY <1>0, <1>7, <2>1, <2>2, <2>3 DEF Sorted
<1>8. CASE BindRaises
  <2>1. /\ main = "bind" /\ main' = "close" /\ errors' = {<<"start", 0>>}
        /\ UNCHANGED <<interrupted, cancels>>
    BY <1>8 DEF BindRaises, Close
  <2>2. \A e \in errors' : e[1] = "start"
    BY <2>1
  <2>3. QED
    BY <1>0, <2>1, <2>2 DEF Sorted
<1>9. ASSUME UNCHANGED <<main, interrupted, cancels>>, main \in {"supervise", "join"},
             \A e \in errors' : e \in errors \/ e[1] \in Supervising
      PROVE  Sorted'
  <2>1. \A e \in errors' : e[1] \in Supervising
    BY <1>0, <1>9
  <2>2. "cancelled" \notin Supervising
    BY DEF Supervising
  <2>3. QED
    BY <1>0, <1>9, <2>1, <2>2 DEF Sorted
<1>10. ASSUME NEW lands \in BOOLEAN, RecordClaimed(lands) PROVE Sorted'
  <2>1. /\ monitor = "claimed" /\ UNCHANGED <<main, interrupted, cancels>>
        /\ errors' = errors \cup {<<"task", m>> : m \in claimed} \cup IF lands THEN {} ELSE {<<"record", 0>>}
    BY <1>10 DEF RecordClaimed
  <2>2. main \in {"supervise", "join"}
    BY <1>0, <2>1 DEF Places, Unused, Quiet
  <2>3. \A e \in errors' : e \in errors \/ e[1] \in Supervising
    BY <2>1 DEF Supervising
  <2>4. QED
    BY <1>9, <2>1, <2>2, <2>3
<1>11. ASSUME NEW f \in Fronts, FrontFails(f) PROVE Sorted'
  <2>1. /\ fronts[f] \in {"running", "stopping"} /\ UNCHANGED <<main, interrupted, cancels>>
        /\ errors' = errors \cup {<<"front", f>>}
    BY <1>11 DEF FrontFails
  <2>2. main \in {"supervise", "join"}
    BY <1>0, <2>1 DEF Places, Unused, Quiet
  <2>3. \A e \in errors' : e \in errors \/ e[1] \in Supervising
    BY <2>1 DEF Supervising
  <2>4. QED
    BY <1>9, <2>1, <2>2, <2>3
<1>12. CASE CancelProcess /\ ~StartFails("cancelled")
  <2>1. /\ errors' = errors /\ cancels' = cancels + 1
        /\ \/ main = "supervise" /\ main' = "join"
           \/ main \in {"join", "close"} /\ main' = main
    BY <1>12 DEF CancelProcess, StopAll
  <2>2. cancels' > 0
    BY <1>0, <2>1
  <2>3. QED
    BY <1>0, <2>1, <2>2 DEF Sorted
<1>13. QED
  BY <1>1, <1>2, <1>3, <1>4, <1>5, <1>6, <1>7, <1>8, <1>10, <1>11, <1>12 DEF Steps

-----------------------------------------------------------------------------
\* The theorems.

LEMMA InitIInv == Init => IInv
<1> SUFFICES ASSUME Init PROVE IInv
  OBVIOUS
<1>1. HostTypes
  <2>1. 1 \in Modules /\ <<>> \in Seq(Things) /\ <<>> \in Seq(WithTask)
    BY LifecycleAssumption, EmptySeq DEF Modules
  <2>2. tasks \in [Modules -> TaskStates]
    BY DEF Init, KInit, TaskStates
  <2>3. QED
    BY <2>1, <2>2 DEF Init, KInit, HostTypes, Stages
<1>2. ProcessTypes
  BY DEF Init, ProcessTypes, Places, TaskStates
<1>3. Releasing /\ AcquiredOnce
  BY DEF Init, KInit, Releasing, AcquiredOnce, Idle, Starting, IsInjective
<1>4. Placed
  BY DEF Init, KInit, Placed, Closed, Starting, Unused
<1>5. Accounted
  <2>1. pending = <<>> /\ failed = {} /\ collected = {} /\ errors = {}
    BY DEF Init, KInit
  <2>2. Untaken = {}
    BY <2>1 DEF Untaken, ToSet
  <2>3. QED
    BY <2>1, <2>2 DEF Init, Accounted
<1>6. Sorted
  BY DEF Init, Sorted
<1>7. QED
  BY <1>1, <1>2, <1>3, <1>4, <1>5, <1>6 DEF IInv

LEMMA StepIInv == IInv /\ [Next]_vars => IInv'
<1> SUFFICES ASSUME IInv, [Next]_vars PROVE IInv'
  OBVIOUS
<1>1. HostTypes /\ ProcessTypes /\ Releasing /\ AcquiredOnce /\ Placed /\ Accounted /\ Sorted
  BY DEF IInv
<1>2. HostStep /\ Steps
  BY <1>1, HostSteps, NextSteps
<1>3. HostTypes' /\ Releasing' /\ AcquiredOnce'
  BY <1>1, <1>2, HostTypesStep, ReleasingStep, AcquiredOnceStep
<1>4. ProcessTypes' /\ Placed' /\ Accounted' /\ Sorted'
  BY <1>1, <1>2, ProcessTypesStep, PlacedStep, AccountedStep, SortedStep
<1>5. QED
  BY <1>3, <1>4 DEF IInv

\* The inductive invariant: what is still to be released completes what was
\* released to all that was acquired, once and backwards; the process, its
\* fronts and monitor are where the state of the host lets them be; every error
\* is held by somebody; and what run_runtime raised is all it held, except the
\* causes of a cancellation that met a failing release.
THEOREM Invariance == Spec => []IInv
BY InitIInv, StepIInv, PTL DEF Spec

LEMMA ReleaseIsSound == IInv => ReleaseSound
<1> SUFFICES ASSUME IInv PROVE ReleaseSound
  OBVIOUS
<1>0. HostTypes /\ ProcessTypes /\ Releasing /\ Placed /\ Accounted
  BY DEF IInv
<1>1. TypeOK
  <2>1. ToSet(pending) \subseteq WithTask
    BY <1>0, ToSetType DEF HostTypes
  <2>2. KTypeOK
    BY <1>0, <2>1 DEF HostTypes, Accounted, KTypeOK, TaskStates
  <2>3. QED
    BY <1>0, <2>2 DEF ProcessTypes, TypeOK, TaskStates
<1>2. ReleasedInReverse
  <2>1. acquired \in Seq(Things) /\ released \in Seq(Things) /\ todo \in Seq(Things) /\ Reverse(acquired) \in Seq(Things)
    BY <1>0, ReverseProperties DEF HostTypes
  <2>2. CASE stage \in {"release", "released"}
    <3>1. released \o todo = Reverse(acquired) /\ Idle /\ (stage = "released" => todo = <<>>)
      BY <1>0, <2>2 DEF Releasing
    <3>2. IsPrefix(released, released \o todo) /\ released \o <<>> = released
      BY <2>1, ConcatIsPrefix, ConcatEmptySeq
    <3>3. QED
      BY <3>1, <3>2 DEF ReleasedInReverse, Idle
  <2>3. CASE stage \notin {"release", "released"}
    <3>1. released = <<>>
      BY <1>0, <2>3 DEF Releasing
    <3>2. <<>> \o Reverse(acquired) = Reverse(acquired) /\ <<>> \in Seq(Things)
      BY <2>1, ConcatEmptySeq, EmptySeq
    <3>3. IsPrefix(<<>>, <<>> \o Reverse(acquired))
      BY <2>1, <3>2, ConcatIsPrefix
    <3>4. QED
      BY <2>3, <3>1, <3>2, <3>3 DEF ReleasedInReverse
  <2>4. QED
    BY <2>2, <2>3
<1>3. NobodyUsesReleased
  BY <1>0 DEF Placed, NobodyUsesReleased, Quiet
<1>4. main = "ended" => stage = "released"
  BY <1>0 DEF Placed
<1>5. QED
  BY <1>1, <1>2, <1>3, <1>4 DEF ReleaseSound

LEMMA ErrorsAreReported == IInv => ErrorsReported
<1> DEFINE Told == outcome \cup UNION ToSet(others)
           CauseReplaced == cancels > 0 /\ owner = "process" /\ collected # {}
<1> SUFFICES ASSUME IInv, main = "ended", owner = "other" => others # <<>>
             PROVE  /\ collected \subseteq Told
                    /\ \A e \in failed : e \in Told \/ (CauseReplaced /\ e[1] \in Supervising)
                    /\ \A m \in claimed : m \in recorded \/ <<"record", 0>> \in outcome \/ CauseReplaced
                    /\ cancels > 0 => \E e \in outcome : e[1] = "cancelled"
  BY DEF ErrorsReported, Supervising
<1>1. /\ stage = "released" /\ Quiet /\ Closed /\ owner \in {"process", "other"} /\ pending = <<>>
  BY DEF IInv, Placed, Releasing, ProcessTypes
<1>2. /\ failed \subseteq Held
      /\ \A m \in claimed : m \in recorded \/ monitor = "claimed" \/ <<"record", 0>> \in errors
      /\ cancels > 0 => interrupted \/ \E e \in errors : e[1] = "cancelled"
      /\ others # <<>> => others = <<collected>>
      /\ AllTold
      /\ (\E e : errors = {e}) \/ \A e \in errors : e[1] \in Supervising \/ e[1] = "cancelled"
      /\ (\E e \in errors : e[1] = "cancelled") => cancels > 0
  BY DEF IInv, Accounted, Sorted
<1>3. Untaken = {} /\ InHand = {} /\ monitor # "claimed" /\ Cancelled[1] = "cancelled"
  BY <1>1 DEF Untaken, InHand, Quiet, ToSet, Cancelled
<1>4. collected \subseteq Told
  <2>1. CASE owner = "process"
    BY <1>2, <2>1 DEF AllTold
  <2>2. CASE owner = "other"
    <3>1. others = <<collected>>
      BY <1>2, <2>2
    <3>2. collected \in ToSet(others)
      BY <3>1 DEF ToSet
    <3>3. QED
      BY <3>2
  <2>3. QED
    BY <1>1, <2>1, <2>2
<1>5. \A e \in errors : e \in outcome \/ (CauseReplaced /\ e[1] \in Supervising)
  <2> SUFFICES ASSUME NEW e \in errors, e \notin outcome PROVE CauseReplaced /\ e[1] \in Supervising
    OBVIOUS
  <2>1. Cancellation # {} /\ owner = "process" /\ collected # {} /\ Cancellation \subseteq outcome
    BY <1>2 DEF AllTold
  <2>2. PICK c \in errors : c[1] = "cancelled" /\ c \in outcome
    BY <2>1 DEF Cancellation
  <2>3. c # e /\ e[1] # "cancelled"
    BY <2>1, <2>2 DEF Cancellation
  <2>4. QED
    BY <1>2, <2>1, <2>2, <2>3
<1>6. \A e \in failed : e \in Told \/ (CauseReplaced /\ e[1] \in Supervising)
  BY <1>2, <1>3, <1>4, <1>5 DEF Held
<1>7. \A m \in claimed : m \in recorded \/ <<"record", 0>> \in outcome \/ CauseReplaced
  BY <1>2, <1>3, <1>5
<1>8. cancels > 0 => \E e \in outcome : e[1] = "cancelled"
  BY <1>2, <1>3 DEF AllTold, Cancellation
<1>9. QED
  BY <1>4, <1>6, <1>7, <1>8

\* However a process ends, and for any number of modules and fronts: whatever
\* was acquired is released backwards, completely and when nobody uses it; and
\* every error reaches somebody, unless a cancellation of supervise() carried it
\* and the release, failing too, took its place as the cause.
THEOREM SupervisionIsSound == Spec => []SupervisionSound
<1>1. IInv => SupervisionSound
  BY ReleaseIsSound, ErrorsAreReported DEF SupervisionSound
<1>2. QED
  BY <1>1, Invariance, PTL

\* No cleanup and no shutdown hook is called a second time.
CalledOnce == IsInjective(released)

\* The beginning of a sequence without repetitions has none.
LEMMA PrefixInjective ==
  ASSUME NEW S, NEW s \in Seq(S), NEW t \in Seq(S), IsInjective(s \o t)
  PROVE  IsInjective(s)
<1>1. /\ Len(s) \in Nat /\ Len(t) \in Nat /\ s \o t \in Seq(S) /\ Len(s \o t) = Len(s) + Len(t)
      /\ DOMAIN s = 1..Len(s) /\ DOMAIN (s \o t) = 1..Len(s) + Len(t)
      /\ \A i \in 1..Len(s) : (s \o t)[i] = s[i]
  BY ConcatPrefix, LenProperties
<1>2. \A i \in 1..Len(s) : i \in 1..Len(s) + Len(t)
  BY <1>1
<1>3. QED
  BY <1>1, <1>2 DEF IsInjective

\* No hook or cleanup of any module is called twice, however the start failed.
THEOREM NothingReleasedTwice == Spec => []CalledOnce
<1>1. IInv => CalledOnce
  <2> SUFFICES ASSUME IInv PROVE IsInjective(released)
    BY DEF CalledOnce
  <2>1. acquired \in Seq(Things) /\ released \in Seq(Things) /\ todo \in Seq(Things) /\ IsInjective(acquired)
    BY DEF IInv, HostTypes, AcquiredOnce
  <2>2. CASE released = <<>>
    BY <2>2 DEF IsInjective
  <2>3. CASE released # <<>>
    <3>1. released \o todo = Reverse(acquired)
      BY <2>3 DEF IInv, Releasing
    <3>2. IsInjective(released \o todo)
      BY <2>1, <3>1, ReverseProperties
    <3>3. QED
      BY <2>1, <3>2, PrefixInjective
  <2>4. QED
    BY <2>2, <2>3
<1>2. QED
  BY <1>1, Invariance, PTL

\* When run_runtime has ended there is nothing left that could fail, be recorded
\* or be released: only another closer is still told what it began.
NothingAfterTheEnd ==
  [][main = "ended" =>
       UNCHANGED <<main, outcome, errors, stage, acquired, released, collected, failed, claimed, recorded>>]_vars

\* After the end of run_runtime nothing fails, is recorded or is released.
THEOREM EndIsFinal == Spec => NothingAfterTheEnd
<1>1. IInv /\ [Next]_vars =>
        [main = "ended" =>
           UNCHANGED <<main, outcome, errors, stage, acquired, released, collected, failed, claimed, recorded>>]_vars
  <2> SUFFICES ASSUME IInv, Steps, main = "ended"
               PROVE  UNCHANGED <<main, outcome, errors, stage, acquired, released, collected, failed, claimed, recorded>>
    BY NextSteps
  <2>1. /\ stage = "released" /\ todo = <<>> /\ Idle /\ Closed /\ monitor \in {"none", "ended"}
        /\ \A f \in Fronts : fronts[f] \in {"none", "ended"}
    BY DEF IInv, Placed, Releasing, Quiet
  <2>2. ~(Starts \/ Activated \/ Bind \/ FirstEnded \/ Supervised \/ RunEnds \/ BindRaises)
    BY DEF Starts, Activated, Bind, FirstEnded, Supervised, RunEnds, BindRaises
  <2>3. \A place : ~StartFails(place)
    BY DEF StartFails
  <2>4. \A m \in Modules : ~Task(m)
    BY <2>1 DEF Task, TaskEnds, TaskFails, Idle
  <2>5. ~Look /\ ~Wake /\ \A lands : ~RecordClaimed(lands)
    BY <2>1 DEF Look, Wake, RecordClaimed
  <2>6. \A f \in Fronts : ~FrontReturns(f) /\ ~FrontFails(f)
    BY <2>1 DEF FrontReturns, FrontFails
  <2>7. ~Release /\ ~OtherCloses
    BY <2>1 DEF Release, TasksJoined, ReleaseOne, Released, OtherCloses
  <2>8. ~CancelProcess
    BY <2>3 DEF CancelProcess
  <2>9. RequestStop \/ OtherReturns \/ UNCHANGED vars
    BY <2>2, <2>3, <2>4, <2>5, <2>6, <2>7, <2>8, Zenon DEF Steps
  <2>10. QED
    BY <2>9 DEF RequestStop, OtherReturns, vars, svars, kvars
<1>2. QED
  BY <1>1, Invariance, PTL DEF Spec, NothingAfterTheEnd

-----------------------------------------------------------------------------
\* The terminal, for any number of lines.

LastLine == Len(typed)

\* The last line was taken and is not answered yet.
LineInHand ==
  \/ spot \in {"reading", "joining"} /\ reader = "done"
  \/ spot \in {"committing", "dispatching"}

Lines ==
  /\ typed \in Seq(Console!Kinds) /\ committed \in Seq(Nat) /\ answered \in Seq(Nat)
  /\ asked \in BOOLEAN
  /\ LineInHand => LastLine > 0

\* The tasks of a read run only while it is awaited, unless the front was cancelled
\* there.
Reading ==
  /\ spot \in {"top", "joining", "committing", "dispatching"} =>
       reader # "pending" /\ waiter # "pending"
  /\ waiter = "done" => asked
  /\ spot \in {"committing", "dispatching"} => reader = "done" /\ line = typed[LastLine]
  /\ spot = "committing" => line = "message"

\* Numbers of lines in a row, all of them taken, and the last one not among them as
\* long as it has to be still put there.
Row(row, missing) ==
  /\ Console!Increasing(row)
  /\ \A i \in DOMAIN row : row[i] \in 1..LastLine /\ (missing => row[i] # LastLine)

Rows ==
  /\ Row(committed, LineInHand /\ spot # "dispatching")
  /\ Row(answered, LineInHand)
  /\ \A i \in DOMAIN committed : typed[committed[i]] = "message"
  /\ \A i \in DOMAIN answered : typed[answered[i]] = "message" =>
       \E j \in DOMAIN committed : committed[j] = answered[i]
  /\ spot = "dispatching" /\ line = "message" =>
       \E j \in DOMAIN committed : committed[j] = LastLine

\* Only the last line may be without an answer.
Answering ==
  \A n \in 1..LastLine : typed[n] # "blank" =>
    \/ \E i \in DOMAIN answered : answered[i] = n
    \/ n = LastLine /\ (LineInHand \/ (spot = "over" /\ reader # "pending"))

CInv == Console!TypeOK /\ Lines /\ Reading /\ Rows /\ Answering /\ Console!LeavesClean

LEMMA AppendNumber ==
  ASSUME NEW row \in Seq(Nat), Row(row, TRUE), LastLine \in Nat \ {0}
  PROVE  LET new == Append(row, LastLine) IN
         /\ new \in Seq(Nat) /\ Row(new, FALSE)
         /\ DOMAIN new = 1..Len(row) + 1 /\ DOMAIN row = 1..Len(row) /\ Len(row) \in Nat
         /\ \A i \in 1..Len(row) : new[i] = row[i]
         /\ new[Len(row) + 1] = LastLine
<1> DEFINE new == Append(row, LastLine)
<1>1. /\ new \in Seq(Nat) /\ DOMAIN row = 1..Len(row) /\ Len(row) \in Nat
      /\ DOMAIN new = 1..Len(row) + 1
      /\ \A i \in 1..Len(row) : new[i] = row[i]
      /\ new[Len(row) + 1] = LastLine
  BY AppendProperties
<1> HIDE DEF new
<1>2. \A i \in 1..Len(row) : row[i] \in 1..LastLine /\ row[i] < LastLine
  <2>1. \A i \in 1..Len(row) : row[i] \in 1..LastLine /\ row[i] # LastLine
    BY <1>1, Zenon DEF Row
  <2>2. QED
    BY <2>1
<1>3. \A i \in 1..Len(row) + 1 : i \in 1..Len(row) \/ i = Len(row) + 1
  BY <1>1
<1>4. \A i, j \in 1..Len(row) + 1 : i < j => new[i] < new[j]
  <2> SUFFICES ASSUME NEW i \in 1..Len(row) + 1, NEW j \in 1..Len(row) + 1, i < j
               PROVE  new[i] < new[j]
    OBVIOUS
  <2>1. i \in 1..Len(row) /\ new[i] = row[i]
    BY <1>1
  <2>2. CASE j \in 1..Len(row)
    BY <1>1, <2>1, <2>2 DEF Row, Console!Increasing
  <2>3. CASE j = Len(row) + 1
    BY <1>1, <1>2, <2>1, <2>3
  <2>4. QED
    BY <1>3, <2>2, <2>3
<1>5. \A i \in 1..Len(row) + 1 : new[i] \in 1..LastLine
  BY <1>1, <1>2, <1>3
<1>6. Row(new, FALSE)
  BY <1>1, <1>4, <1>5 DEF Row, Console!Increasing
<1>7. QED
  BY <1>1, <1>6 DEF new

\* The user's next line.
LEMMA TypesStep ==
  ASSUME CInv, Console!UserTypes
  PROVE  CInv'
<1> USE DEF CInv
<1>1. PICK kind \in Console!Kinds : typed' = Append(typed, kind)
  BY DEF Console!UserTypes
<1>2. /\ reader = "pending" /\ reader' = "done"
      /\ UNCHANGED <<asked, spot, waiter, line, committed, answered, exit>>
  BY DEF Console!UserTypes, Console!world
<1>3. /\ typed' \in Seq(Console!Kinds) /\ LastLine' = LastLine + 1 /\ LastLine \in Nat
      /\ \A n \in 1..LastLine : typed'[n] = typed[n]
  BY <1>1, AppendProperties, LenProperties DEF Lines, LastLine
<1>4. ~LineInHand /\ spot \in {"reading", "over"}
  BY <1>2 DEF LineInHand, Reading, Console!TypeOK, Console!Places
<1>5. Console!TypeOK' /\ Console!LeavesClean'
  BY <1>2 DEF Console!TypeOK, Console!Tasks, Console!LeavesClean
<1>6. Lines' /\ Reading'
  BY <1>2, <1>3, <1>4 DEF Lines, Reading, LineInHand
<1>7. Rows'
  <2>1. \A i \in DOMAIN committed : committed[i] \in 1..LastLine
    BY DEF Rows, Row
  <2>2. \A i \in DOMAIN answered : answered[i] \in 1..LastLine
    BY DEF Rows, Row
  <2>3. \A n \in 1..LastLine : n \in 1..LastLine' /\ n # LastLine'
    BY <1>3
  <2>4. Row(committed, LineInHand /\ spot # "dispatching")' /\ Row(answered, LineInHand)'
    BY <1>2, <2>1, <2>2, <2>3 DEF Rows, Row
  <2>5. QED
    BY <1>2, <1>3, <1>4, <2>1, <2>2, <2>4 DEF Rows
<1>8. Answering'
  <2>1. \A n \in 1..LastLine : typed[n] # "blank" => \E i \in DOMAIN answered : answered[i] = n
    BY <1>2, <1>4 DEF Answering
  <2>2. \A n \in 1..LastLine' : n \in 1..LastLine \/ n = LastLine'
    BY <1>3
  <2>3. LineInHand' \/ (spot' = "over" /\ reader' # "pending")
    BY <1>2, <1>4 DEF LineInHand
  <2>4. QED
    BY <1>2, <1>3, <2>1, <2>2, <2>3 DEF Answering
<1>9. QED
  BY <1>5, <1>6, <1>7, <1>8

\* A step that takes, commits and answers no line.
LEMMA PassStep ==
  ASSUME CInv, UNCHANGED <<typed, committed, answered>>,
         Console!TypeOK', Console!LeavesClean', Reading', asked' \in BOOLEAN,
         LineInHand' => LineInHand,
         LineInHand' /\ spot' # "dispatching" => spot # "dispatching",
         spot' = "dispatching" /\ line' = "message" =>
           \E j \in DOMAIN committed : committed[j] = LastLine,
         LineInHand => \/ LineInHand' \/ (spot' = "over" /\ reader' # "pending")
                   \/ typed[LastLine] = "blank",
         spot = "over" /\ reader # "pending" => spot' = "over" /\ reader' # "pending"
  PROVE  CInv'
<1> USE DEF CInv
<1>1. LastLine' = LastLine
  BY DEF LastLine
<1>2. Lines'
  BY <1>1 DEF Lines
<1>3. Rows'
  <2>1. Row(committed, LineInHand /\ spot # "dispatching")' /\ Row(answered, LineInHand)'
    BY <1>1 DEF Rows, Row
  <2>2. QED
    BY <1>1, <2>1 DEF Rows
<1>4. Answering'
  BY <1>1 DEF Answering
<1>5. QED
  BY <1>2, <1>3, <1>4

LEMMA TopStep ==
  ASSUME CInv, Console!Top
  PROVE  CInv'
<1> USE DEF CInv
<1>1. /\ spot = "top" /\ UNCHANGED <<asked, line, typed, committed, answered>>
      /\ \/ asked /\ spot' = "over" /\ exit' = "returned" /\ UNCHANGED <<reader, waiter>>
         \/ /\ ~asked /\ spot' = "reading" /\ exit' = exit
            /\ reader' = "pending" /\ waiter' = "pending"
  BY DEF Console!Top, Console!Ends, Console!Goes, Console!world
<1>2. Console!TypeOK'
  BY <1>1 DEF Console!TypeOK, Console!Places, Console!Tasks
<1>3. Console!LeavesClean' /\ Reading'
  BY <1>1 DEF Console!LeavesClean, Reading, Console!TypeOK
<1>4. ~LineInHand /\ ~LineInHand'
  BY <1>1 DEF LineInHand
<1>5. asked' \in BOOLEAN
  BY <1>1 DEF Lines
<1>6. QED
  BY <1>1, <1>2, <1>3, <1>4, <1>5, PassStep

\* The input ends or fails, the stop is seen or requested.
LEMMA SignalStep ==
  ASSUME CInv, Console!InputEnds \/ Console!ReadFails \/ Console!StopSeen \/ Console!RequestStop
  PROVE  CInv'
<1> USE DEF CInv
<1>1. /\ UNCHANGED <<spot, line, typed, committed, answered, exit>>
      /\ \/ reader = "pending" /\ reader' \in {"closed", "broken"} /\ UNCHANGED <<asked, waiter>>
         \/ waiter = "pending" /\ asked /\ waiter' = "done" /\ UNCHANGED <<asked, reader>>
         \/ asked' = TRUE /\ UNCHANGED <<reader, waiter>>
  BY DEF Console!InputEnds, Console!ReadFails, Console!StopSeen, Console!RequestStop, Console!world
<1>2. Console!TypeOK'
  BY <1>1 DEF Console!TypeOK, Console!Tasks
<1>3. Console!LeavesClean' /\ Reading'
  BY <1>1 DEF Console!LeavesClean, Reading, LastLine
<1>4. LineInHand' <=> LineInHand
  BY <1>1 DEF LineInHand, Reading
<1>5. asked' \in BOOLEAN
  BY <1>1 DEF Lines
<1>6. spot = "dispatching" /\ line = "message" => \E j \in DOMAIN committed : committed[j] = LastLine
  BY DEF Rows
<1>7. spot = "over" /\ reader # "pending" => spot' = "over" /\ reader' # "pending"
  BY <1>1
<1>8. QED
  BY <1>1, <1>2, <1>3, <1>4, <1>5, <1>6, <1>7, PassStep

LEMMA WakeStep ==
  ASSUME CInv, Console!Wake
  PROVE  CInv'
<1> USE DEF CInv
<1>1. /\ spot = "reading" /\ spot' = "joining"
      /\ reader' = Console!Cut(reader) /\ waiter' = Console!Cut(waiter)
      /\ UNCHANGED <<asked, line, typed, committed, answered, exit>>
  BY DEF Console!Wake, Console!Goes, Console!world
<1>2. Console!TypeOK'
  BY <1>1 DEF Console!TypeOK, Console!Places, Console!Tasks, Console!Cut
<1>3. Console!LeavesClean' /\ Reading'
  BY <1>1 DEF Console!LeavesClean, Reading, Console!Cut, Console!TypeOK
<1>4. LineInHand' <=> LineInHand
  BY <1>1 DEF LineInHand, Console!Cut
<1>5. asked' \in BOOLEAN
  BY <1>1 DEF Lines
<1>6. QED
  BY <1>1, <1>2, <1>3, <1>4, <1>5, PassStep

LEMMA JoinedStep ==
  ASSUME CInv, Console!Joined
  PROVE  CInv'
<1> USE DEF CInv
<1>1. spot = "joining" /\ UNCHANGED <<reader, waiter, typed, committed, answered>>
      /\ reader # "pending" /\ waiter # "pending"
  BY DEF Console!Joined, Console!world, Reading
<1>2. CASE /\ spot' = "over" /\ exit' \in {"returned", "raised"} /\ UNCHANGED line
           /\ asked' = TRUE
  <2>1. Console!TypeOK'
    BY <1>1, <1>2 DEF Console!TypeOK, Console!Places
  <2>2. Console!LeavesClean' /\ Reading' /\ ~LineInHand'
    BY <1>1, <1>2 DEF Console!LeavesClean, Reading, LineInHand
  <2>3. QED
    BY <1>1, <1>2, <2>1, <2>2, PassStep
<1>3. CASE /\ waiter # "done" /\ reader = "done" /\ exit' = exit /\ asked' = asked
           /\ typed[LastLine] = "blank" /\ spot' = "top" /\ line' = "-"
  <2>1. Console!TypeOK'
    BY <1>1, <1>3 DEF Console!TypeOK, Console!Places
  <2>2. Console!LeavesClean' /\ Reading' /\ ~LineInHand' /\ asked' \in BOOLEAN
    BY <1>1, <1>3 DEF Console!LeavesClean, Reading, LineInHand, Console!TypeOK, Lines
  <2>3. QED
    BY <1>1, <1>3, <2>1, <2>2, PassStep
<1>4. CASE /\ waiter # "done" /\ reader = "done" /\ exit' = exit /\ asked' = asked
           /\ typed[LastLine] # "blank" /\ line' = typed[LastLine]
           /\ spot' = IF typed[LastLine] = "message" THEN "committing" ELSE "dispatching"
  <2>1. LineInHand /\ LineInHand' /\ LastLine \in 1..LastLine
    BY <1>1, <1>4, LenProperties DEF LineInHand, Lines, LastLine
  <2>2. typed[LastLine] \in Console!Kinds
    BY <2>1, ElementOfSeq DEF Lines, LastLine
  <2>3. Console!TypeOK'
    BY <1>1, <1>4, <2>2 DEF Console!TypeOK, Console!Places
  <2>4. Console!LeavesClean' /\ Reading' /\ asked' \in BOOLEAN
    BY <1>1, <1>4 DEF Console!LeavesClean, Reading, Console!TypeOK, Lines, LastLine
  <2>5. QED
    BY <1>1, <1>4, <2>1, <2>3, <2>4, PassStep
<1>5. QED
  <2>1. \/ /\ Console!StopFirst /\ spot' = "over" /\ exit' = "returned" /\ UNCHANGED <<asked, line>>
        \/ /\ ~Console!StopFirst /\ reader = "closed" /\ asked' = TRUE
           /\ spot' = "over" /\ exit' = "returned" /\ UNCHANGED line
        \/ /\ ~Console!StopFirst /\ reader = "broken" /\ asked' = TRUE
           /\ spot' = "over" /\ exit' = "raised" /\ UNCHANGED line
        \/ /\ ~Console!StopFirst /\ reader = "done"
           /\ spot' = (CASE typed[LastLine] = "blank" -> "top"
                         [] typed[LastLine] = "message" -> "committing"
                         [] OTHER -> "dispatching")
           /\ exit' = exit
           /\ line' = (IF typed[LastLine] = "blank" THEN "-" ELSE typed[LastLine])
           /\ UNCHANGED asked
    BY DEF Console!Joined, Console!Ends, Console!Goes, Console!Number, LastLine
  <2>2. waiter = "done" => asked
    BY DEF Reading
  <2>3. QED
    BY <1>2, <1>3, <1>4, <2>1, <2>2 DEF Console!StopFirst, Lines

\* A message that is in hand is committed, or may be as the front is cancelled.
LEMMA CommittedStep ==
  ASSUME CInv, spot = "committing", committed' = Append(committed, LastLine),
         UNCHANGED <<reader, typed, answered>>, Console!TypeOK', Console!LeavesClean', Reading',
         asked' \in BOOLEAN, spot' \in {"dispatching", "over"}
  PROVE  CInv'
<1> USE DEF CInv
<1>1. /\ LineInHand /\ LastLine \in Nat \ {0} /\ line = "message" /\ line = typed[LastLine]
      /\ reader = "done" /\ LastLine' = LastLine
  BY LenProperties DEF LineInHand, Lines, Reading, LastLine
<1>2. committed \in Seq(Nat) /\ Row(committed, TRUE)
  BY <1>1 DEF Rows, Lines
<1>3. /\ committed' \in Seq(Nat) /\ Console!Increasing(committed')
      /\ \A i \in DOMAIN committed' : committed'[i] \in 1..LastLine
      /\ DOMAIN committed' = 1..Len(committed) + 1 /\ DOMAIN committed = 1..Len(committed)
      /\ Len(committed) \in Nat
      /\ \A i \in 1..Len(committed) : committed'[i] = committed[i]
      /\ committed'[Len(committed) + 1] = LastLine
  BY <1>1, <1>2, AppendNumber DEF Row
<1>4. \A i \in DOMAIN committed' : i \in DOMAIN committed \/ i = Len(committed) + 1
  BY <1>3
<1>5. Lines'
  BY <1>1, <1>3 DEF Lines
<1>6. Rows'
  <2>1. Row(committed, LineInHand /\ spot # "dispatching")'
    BY <1>1, <1>3 DEF Row, LineInHand
  <2>2. Row(answered, LineInHand)'
    BY <1>1 DEF Rows, Row
  <2>3. \A i \in DOMAIN committed' : typed[committed'[i]] = "message"
    BY <1>1, <1>3, <1>4 DEF Rows
  <2>4. \A j \in DOMAIN committed : j \in DOMAIN committed' /\ committed'[j] = committed[j]
    BY <1>3
  <2>5. \A i \in DOMAIN answered : typed[answered[i]] = "message" =>
          \E j \in DOMAIN committed' : committed'[j] = answered[i]
    BY <2>4 DEF Rows
  <2>6. \E j \in DOMAIN committed' : committed'[j] = LastLine
    BY <1>3
  <2>7. QED
    BY <1>1, <2>1, <2>2, <2>3, <2>5, <2>6 DEF Rows
<1>7. Answering'
  BY <1>1 DEF Answering, LineInHand
<1>8. QED
  BY <1>5, <1>6, <1>7

LEMMA CommitStep ==
  ASSUME CInv, Console!CommitMessage
  PROVE  CInv'
<1> USE DEF CInv
<1>1. /\ spot = "committing" /\ UNCHANGED <<reader, waiter, line, typed, answered>>
      /\ \/ committed' = Append(committed, LastLine) /\ spot' = "dispatching" /\ UNCHANGED <<asked, exit>>
         \/ UNCHANGED committed /\ asked' = TRUE /\ spot' = "over" /\ exit' = "raised"
  BY DEF Console!CommitMessage, Console!Goes, Console!Ends, Console!Number, LastLine
<1>2. Console!TypeOK'
  BY <1>1 DEF Console!TypeOK, Console!Places
<1>3. Console!LeavesClean' /\ Reading' /\ asked' \in BOOLEAN
  BY <1>1 DEF Console!LeavesClean, Reading, Console!TypeOK, LastLine, Lines
<1>4. CASE committed' = Append(committed, LastLine)
  BY <1>1, <1>2, <1>3, <1>4, CommittedStep
<1>5. CASE UNCHANGED committed /\ spot' = "over"
  <2>1. reader = "done" /\ ~LineInHand'
    BY <1>1, <1>5 DEF Reading, LineInHand
  <2>2. QED
    BY <1>1, <1>2, <1>3, <1>5, <2>1, PassStep
<1>6. QED
  BY <1>1, <1>4, <1>5

LEMMA DispatchStep ==
  ASSUME CInv, Console!Dispatch
  PROVE  CInv'
<1> USE DEF CInv
<1>1. /\ spot = "dispatching" /\ line' = "-" /\ UNCHANGED <<reader, waiter, typed, committed>>
      /\ reader = "done" /\ waiter # "pending" /\ line = typed[LastLine]
  BY DEF Console!Dispatch, Reading
<1>2. CASE answered' = answered /\ asked' = TRUE /\ spot' = "over" /\ exit' = "raised"
  <2>1. Console!TypeOK'
    BY <1>1, <1>2 DEF Console!TypeOK, Console!Places
  <2>2. Console!LeavesClean' /\ Reading' /\ ~LineInHand'
    BY <1>1, <1>2 DEF Console!LeavesClean, Reading, LineInHand
  <2>3. QED
    BY <1>1, <1>2, <2>1, <2>2, PassStep
<1>3. CASE /\ answered' = Append(answered, LastLine)
           /\ \/ asked' = TRUE /\ spot' = "over" /\ exit' = "returned"
              \/ spot' = "top" /\ UNCHANGED <<asked, exit>>
  <2>1. Console!TypeOK'
    BY <1>1, <1>3 DEF Console!TypeOK, Console!Places
  <2>2. Console!LeavesClean' /\ Reading' /\ ~LineInHand' /\ asked' \in BOOLEAN
    BY <1>1, <1>3 DEF Console!LeavesClean, Reading, LineInHand, Console!TypeOK, Lines
  <2>3. LineInHand /\ LastLine \in Nat \ {0} /\ LastLine' = LastLine
    BY <1>1, LenProperties DEF LineInHand, Lines, LastLine
  <2>4. answered \in Seq(Nat) /\ Row(answered, TRUE)
    BY <2>3 DEF Rows, Lines
  <2>5. /\ answered' \in Seq(Nat) /\ Console!Increasing(answered')
        /\ \A i \in DOMAIN answered' : answered'[i] \in 1..LastLine
        /\ DOMAIN answered' = 1..Len(answered) + 1 /\ DOMAIN answered = 1..Len(answered)
        /\ Len(answered) \in Nat
        /\ \A i \in 1..Len(answered) : answered'[i] = answered[i]
        /\ answered'[Len(answered) + 1] = LastLine
    BY <1>3, <2>3, <2>4, AppendNumber DEF Row
  <2>6. /\ \A i \in DOMAIN answered' : i \in DOMAIN answered \/ i = Len(answered) + 1
        /\ \A i \in DOMAIN answered : i \in DOMAIN answered' /\ answered'[i] = answered[i]
        /\ Len(answered) + 1 \in DOMAIN answered'
    BY <2>5
  <2>7. Lines'
    BY <1>1, <2>2, <2>3, <2>5 DEF Lines
  <2>8. Rows'
    <3>1. Row(committed, LineInHand /\ spot # "dispatching")'
      BY <1>1, <2>2, <2>3 DEF Rows, Row
    <3>2. Row(answered, LineInHand)'
      BY <2>2, <2>3, <2>5 DEF Row
    <3>3. \A i \in DOMAIN answered' : typed[answered'[i]] = "message" =>
            \E j \in DOMAIN committed : committed[j] = answered'[i]
      BY <1>1, <2>5, <2>6 DEF Rows
    <3>4. QED
      BY <1>1, <1>3, <2>3, <3>1, <3>2, <3>3 DEF Rows
  <2>9. Answering'
    <3>1. \A n \in 1..LastLine : typed[n] # "blank" => \E i \in DOMAIN answered' : answered'[i] = n
      BY <2>5, <2>6, <1>1 DEF Answering
    <3>2. QED
      BY <1>1, <2>3, <3>1 DEF Answering
  <2>10. QED
    BY <2>1, <2>2, <2>7, <2>8, <2>9
<1>4. QED
  <2>1. \/ /\ answered' = Append(answered, LastLine)
           /\ \/ asked' = TRUE /\ spot' = "over" /\ exit' = "returned"
              \/ spot' = "top" /\ UNCHANGED <<asked, exit>>
        \/ answered' = answered /\ asked' = TRUE /\ spot' = "over" /\ exit' = "raised"
    BY DEF Console!Dispatch, Console!Ends, Console!Goes, Console!Number, LastLine
  <2>2. QED
    BY <1>2, <1>3, <2>1

LEMMA CancelledStep ==
  ASSUME CInv, Console!Cancel
  PROVE  CInv'
<1> USE DEF CInv
<1>1. /\ spot \in Console!Places \ {"top", "over"} /\ asked' = TRUE /\ spot' = "over"
      /\ exit' = "cancelled" /\ line' = "-" /\ UNCHANGED <<reader, waiter, typed, answered>>
      /\ \/ committed' = committed
         \/ spot = "committing" /\ committed' = Append(committed, LastLine)
  BY DEF Console!Cancel, Console!Ends, Console!Number, LastLine
<1>2. Console!TypeOK'
  BY <1>1 DEF Console!TypeOK, Console!Places
<1>3. Console!LeavesClean' /\ Reading' /\ asked' \in BOOLEAN /\ ~LineInHand'
  BY <1>1 DEF Console!LeavesClean, Reading, LineInHand
<1>4. LineInHand => reader # "pending"
  BY DEF LineInHand, Reading
<1>5. CASE committed' = committed
  BY <1>1, <1>2, <1>3, <1>4, <1>5, PassStep
<1>6. CASE spot = "committing" /\ committed' = Append(committed, LastLine)
  BY <1>1, <1>2, <1>3, <1>6, CommittedStep
<1>7. QED
  BY <1>1, <1>5, <1>6

LEMMA ConsoleInit ==
  ASSUME Console!Init
  PROVE  CInv
<1>1. typed = <<>> /\ committed = <<>> /\ answered = <<>> /\ LastLine = 0 /\ ~LineInHand
  BY DEF Console!Init, LastLine, LineInHand
<1>2. Console!TypeOK /\ Console!LeavesClean /\ Reading
  BY DEF Console!Init, Console!TypeOK, Console!LeavesClean, Reading, Console!Places,
         Console!Tasks
<1>3. Lines
  <2>1. asked \in BOOLEAN
    BY DEF Console!Init
  <2>2. typed \in Seq(Console!Kinds) /\ committed \in Seq(Nat) /\ answered \in Seq(Nat)
    BY <1>1
  <2>3. QED
    BY <1>1, <2>1, <2>2 DEF Lines
<1>3a. Answering
  <2>1. \A n \in 1..LastLine : FALSE
    BY <1>1
  <2>2. QED
    BY <2>1 DEF Answering
<1>4. Rows
  BY <1>1 DEF Rows, Row, Console!Increasing, Console!Init
<1>5. QED
  BY <1>2, <1>3, <1>3a, <1>4 DEF CInv

LEMMA ConsoleNext ==
  ASSUME CInv, Console!Next \/ UNCHANGED Console!vars
  PROVE  CInv'
<1>1. CASE UNCHANGED Console!vars
  BY <1>1 DEF Console!vars, Console!world, CInv, Console!TypeOK, Lines, Reading, Rows, Row, Answering,
              Console!LeavesClean, LineInHand, LastLine
<1>2. QED
  BY <1>1, TopStep, TypesStep, SignalStep, WakeStep, JoinedStep, CommitStep, DispatchStep,
     CancelledStep DEF Console!Next, Console!Console

\* For any number of lines, whenever the stop comes or the front is cancelled: lines
\* are taken in turn, each message once in the world before its answer, and a front
\* that ends by itself leaves no task (TerminalShell.run, dispatch_terminal).
THEOREM ConsoleIsSound ==
  Console!Spec => []Console!ConsoleSound
<1>1. CInv => Console!ConsoleSound
  <2> SUFFICES ASSUME CInv PROVE Console!ConsoleSound
    OBVIOUS
  <2>1. DOMAIN typed = 1..LastLine
    BY LenProperties DEF CInv, Lines, LastLine
  <2>2. LineInHand => spot # "top"
    BY DEF LineInHand
  <2>3. Console!LinesInTurn
    BY <2>1, <2>2 DEF CInv, Rows, Row, Answering, Console!LinesInTurn, LastLine
  <2>4. QED
    BY <2>3 DEF CInv, Console!ConsoleSound
<1>2. CInv /\ [Console!Next]_Console!vars => CInv'
  BY ConsoleNext
<1>3. QED
  BY <1>1, <1>2, ConsoleInit, PTL DEF Console!Spec

-----------------------------------------------------------------------------
\* The entry to cognition, for any number of calls.

\* No call is called as a lock that nobody holds.
EntryAssumption == IsFiniteSet(Callers) /\ "-" \notin Callers

\* The library's operators are the same in the module of the entry.
LEMMA SameOperators ==
  /\ \A s : Entry!ToSet(s) = ToSet(s)
  /\ \A s : Entry!IsInjective(s) <=> IsInjective(s)
  /\ \A s, e : Entry!RemoveFirst(s, e) = RemoveFirst(s, e)
  /\ \A s : Entry!Cardinality(s) = Cardinality(s)
<1>1. \A s : Entry!ToSet(s) = ToSet(s)
  BY DEF Entry!ToSet, ToSet
<1>2. \A s : Entry!IsInjective(s) <=> IsInjective(s)
  BY DEF Entry!IsInjective, IsInjective
<1>3. \A s, e : Entry!RemoveFirst(s, e) = RemoveFirst(s, e)
  BY DEF Entry!RemoveFirst, RemoveFirst, Entry!SelectInSeq, SelectInSeq, Entry!RemoveAt, RemoveAt,
         Entry!Min, Min
<1>4. \A s : Entry!Cardinality(s) = Cardinality(s)
  BY DEF Entry!Cardinality, Cardinality
<1>5. QED
  BY <1>1, <1>2, <1>3, <1>4

EntryTypes ==
  /\ where \in [Callers -> Entry!Places]
  /\ result \in [Callers -> Entry!Counted \cup {"none", "refused", "conflict", "raised", "cut", "lost"}]
  /\ ToSet(queue) \subseteq Callers /\ IsInjective(queue)
  /\ holder \in Callers \cup {"-"}
  /\ counts \in [Entry!Counted \cup {"running"} -> Nat]

\* The calls that wait are those in the queue, and only a call that is done has
\* become something.
Queued ==
  /\ queue \in Seq(Callers)
  /\ \A c \in Callers : where[c] = "waiting" <=> c \in ToSet(queue)
  /\ \A c \in Callers : where[c] # "done" => result[c] = "none"

\* A call that is about to claim its run has looked, and nobody of its process has
\* had the lock since.
Looked == \A c \in Callers : where[c] = "claiming" => Given[c] \notin runsRecorded \/ Given[c] \in foreign

Live == {c \in Callers : where[c] \in {"claiming", "running"}}
Became(name) ==
  {c \in Callers : result[c] = name \/ (name = "failed" /\ result[c] \in {"conflict", "raised"})}

\* The counts, as CountsTrue has them.
Counting ==
  /\ counts["running"] = Cardinality(Live)
  /\ \A name \in Entry!Counted : counts[name] = Cardinality(Became(name))

RInv ==
  /\ EntryTypes /\ Queued /\ Looked /\ Counting
  /\ Entry!OneAtATime /\ Entry!ConflictsAreForeign /\ Entry!InputsKept

LEMMA CountingIsTrue ==
  Counting <=> Entry!CountsTrue
<1>1. Entry!CountsTrue <=>
        /\ counts["running"] = Entry!Cardinality(Live)
        /\ \A name \in Entry!Counted : counts[name] = Entry!Cardinality(Became(name))
  BY DEF Live, Became, Entry!CountsTrue, Entry!Is
<1>2. QED
  BY <1>1, SameOperators DEF Counting

\* What a step may do to the place and the result of a call.
Moves(c, to, how) ==
  /\ where' = [where EXCEPT ![c] = to]
  /\ result' = [result EXCEPT ![c] = how]

LEMMA MovesTypes ==
  ASSUME EntryTypes, NEW c \in Callers, NEW to \in Entry!Places,
         NEW how \in Entry!Counted \cup {"none", "refused", "conflict", "raised", "cut", "lost"},
         Moves(c, to, how)
  PROVE  /\ where' \in [Callers -> Entry!Places]
         /\ result' \in [Callers -> Entry!Counted \cup {"none", "refused", "conflict", "raised", "cut", "lost"}]
         /\ where'[c] = to /\ result'[c] = how
         /\ \A x \in Callers : x # c => where'[x] = where[x] /\ result'[x] = result[x]
BY DEF EntryTypes, Moves

\* A call that is neither let in nor leaves being let in does not count.
LEMMA Uncounted ==
  ASSUME EntryAssumption, RInv, NEW c \in Callers, NEW to \in Entry!Places,
         NEW how \in {"none", "refused", "cut", "lost"},
         Moves(c, to, how), where[c] \notin {"claiming", "running", "done"},
         to \notin {"claiming", "running"}, counts' = counts
  PROVE  Counting'
<1>1. /\ where'[c] = to /\ result'[c] = how /\ result[c] = "none"
      /\ \A x \in Callers : x # c => where'[x] = where[x] /\ result'[x] = result[x]
  BY MovesTypes DEF RInv, Queued
<1>2. Live' = Live
  BY <1>1 DEF Live
<1>3. \A name \in Entry!Counted : Became(name)' = Became(name)
  BY <1>1 DEF Became, Entry!Counted, Entry!Statuses
<1>4. QED
  BY <1>2, <1>3 DEF RInv, Counting

\* A call that was let in and ends is told under one name.
LEMMA Counted ==
  ASSUME EntryAssumption, RInv, NEW c \in Callers, NEW name \in Entry!Counted,
         NEW how \in Entry!Counted \cup {"conflict", "raised"},
         how = name \/ (name = "failed" /\ how \in {"conflict", "raised"}),
         Moves(c, "done", how), where[c] \in {"claiming", "running"},
         counts' = Entry!After(name)
  PROVE  Counting' /\ counts' \in [Entry!Counted \cup {"running"} -> Nat]
<1>1. /\ where'[c] = "done" /\ result'[c] = how /\ result[c] = "none"
      /\ \A x \in Callers : x # c => where'[x] = where[x] /\ result'[x] = result[x]
  BY MovesTypes DEF RInv, Queued, Entry!Places
<1>2. IsFiniteSet(Live) /\ \A n \in Entry!Counted : IsFiniteSet(Became(n))
  BY FS_Subset DEF EntryAssumption, Live, Became
<1>3. Live' = Live \ {c} /\ c \in Live
  BY <1>1 DEF Live
<1>4. Cardinality(Live') = Cardinality(Live) - 1 /\ Cardinality(Live') \in Nat
  <2>1. IsFiniteSet(Live \ {c}) /\ Cardinality(Live \ {c}) = Cardinality(Live) - 1
    BY <1>2, <1>3, FS_RemoveElement
  <2>2. QED
    BY <1>3, <2>1, FS_CardinalityType
<1>5. Became(name)' = Became(name) \cup {c} /\ c \notin Became(name)
  BY <1>1 DEF Became, Entry!Counted, Entry!Statuses
<1>6. Cardinality(Became(name)') = Cardinality(Became(name)) + 1 /\ Cardinality(Became(name)') \in Nat
  <2>1. /\ IsFiniteSet(Became(name) \cup {c})
        /\ Cardinality(Became(name) \cup {c}) = Cardinality(Became(name)) + 1
    BY <1>2, <1>5, FS_AddElement
  <2>2. QED
    BY <1>5, <2>1, FS_CardinalityType
<1>7. \A n \in Entry!Counted : n # name => Became(n)' = Became(n)
  BY <1>1 DEF Became, Entry!Counted, Entry!Statuses
<1>8. /\ counts \in [Entry!Counted \cup {"running"} -> Nat]
      /\ name # "running" /\ name \in Entry!Counted \cup {"running"} /\ "running" \notin Entry!Counted
  BY DEF RInv, EntryTypes, Entry!Counted, Entry!Statuses
<1>9. /\ counts'["running"] = counts["running"] - 1
      /\ counts'[name] = counts[name] + 1
      /\ \A n \in Entry!Counted : n # name => counts'[n] = counts[n]
      /\ DOMAIN counts' = Entry!Counted \cup {"running"}
      /\ counts' = [n \in Entry!Counted \cup {"running"} |-> counts'[n]]
  BY <1>8 DEF Entry!After
<1>10. Counting'
  BY <1>4, <1>6, <1>7, <1>9 DEF RInv, Counting
<1>11. counts' \in [Entry!Counted \cup {"running"} -> Nat]
  <2>1. counts'["running"] \in Nat /\ counts'[name] \in Nat
    BY <1>4, <1>6, <1>9 DEF RInv, Counting
  <2>2. QED
    BY <1>8, <1>9, <2>1
<1>12. QED
  BY <1>10, <1>11

-----------------------------------------------------------------------------
\* Coming to the lock.

LEMMA AcquiresStep ==
  ASSUME EntryAssumption, RInv, NEW c \in Callers, where[c] \in {"new", "committing"},
         Entry!Acquires(c), UNCHANGED <<result, counts, runsRecorded, foreign, deaths>>,
         inputs' = inputs \/ inputs' = inputs \cup {c},
         Way[c] \in {"text", "event"} => c \in inputs'
  PROVE  RInv'
<1> USE DEF RInv
<1>1. PICK to \in {"looking", "waiting"} :
        /\ where' = [where EXCEPT ![c] = to]
        /\ to = "looking" => holder = "-" /\ holder' = c /\ queue' = queue
        /\ to = "waiting" => holder' = holder /\ queue' = Append(queue, c)
  BY DEF Entry!Acquires, Entry!Goes
<1>2. result[c] = "none" /\ c \notin ToSet(queue) /\ holder # c
  BY DEF Queued, Entry!OneAtATime
<1>3. Moves(c, to, "none") /\ to \in Entry!Places
  BY <1>1, <1>2 DEF Moves, EntryTypes, Entry!Places
<1>4. /\ where' \in [Callers -> Entry!Places]
      /\ where'[c] = to
      /\ \A x \in Callers : x # c => where'[x] = where[x]
  BY <1>3, MovesTypes DEF Entry!Counted
<1>5. /\ queue' \in Seq(Callers) /\ IsInjective(queue')
      /\ ToSet(queue') = ToSet(queue) \cup (IF to = "waiting" THEN {c} ELSE {})
  <2>1. CASE to = "looking"
    BY <1>1, <2>1 DEF Queued, EntryTypes
  <2>2. CASE to = "waiting"
    <3>1. queue' = Append(queue, c) /\ queue \in Seq(Callers) /\ IsInjective(queue)
      BY <1>1, <2>2 DEF Queued, EntryTypes
    <3>2. ToSet(Append(queue, c)) = ToSet(queue) \cup {c}
      BY <3>1, AppendElements
    <3>3. Append(queue, c) \in Seq(Callers)
      BY <3>1
    <3>4. IsInjective(Append(queue, c))
      BY <1>2, <3>1, AppendDistinct
    <3>5. QED
      BY <2>2, <3>1, <3>2, <3>3, <3>4
  <2>3. QED
    BY <2>1, <2>2
<1>6. ToSet(queue') \subseteq Callers
  BY <1>5, ToSetType DEF Queued
<1>7. EntryTypes'
  BY <1>1, <1>4, <1>5, <1>6 DEF EntryTypes
<1>8. Queued'
  BY <1>1, <1>2, <1>4, <1>5 DEF Queued
<1>9. Looked'
  BY <1>1, <1>4 DEF Looked
<1>10. Counting'
  BY <1>1, <1>3, Uncounted
<1>11. Entry!OneAtATime'
  BY <1>1, <1>4 DEF Entry!OneAtATime, EntryAssumption
<1>12. Entry!ConflictsAreForeign'
  BY DEF Entry!ConflictsAreForeign, Entry!Is
<1>13. Entry!InputsKept'
  BY <1>1, <1>4 DEF Entry!InputsKept
<1>14. QED
  BY <1>7, <1>8, <1>9, <1>10, <1>11, <1>12, <1>13

\* A call that goes on where it neither holds the lock nor waits for it.
LEMMA AsideStep ==
  ASSUME EntryAssumption, RInv, NEW c \in Callers,
         NEW to \in {"checking", "committing", "done"}, NEW how \in {"none", "refused"},
         where[c] \in {"new", "checking"}, Moves(c, to, how),
         how = "none" <=> to # "done",
         UNCHANGED <<queue, holder, counts, runsRecorded, foreign, inputs, deaths>>
  PROVE  RInv'
<1> USE DEF RInv
<1>1. /\ where' \in [Callers -> Entry!Places]
      /\ result' \in [Callers -> Entry!Counted \cup {"none", "refused", "conflict", "raised", "cut", "lost"}]
      /\ where'[c] = to /\ result'[c] = how
      /\ \A x \in Callers : x # c => where'[x] = where[x] /\ result'[x] = result[x]
  BY MovesTypes DEF Entry!Places
<1>2. EntryTypes'
  BY <1>1 DEF EntryTypes
<1>3. Queued' /\ Looked' /\ Entry!OneAtATime' /\ Entry!ConflictsAreForeign' /\ Entry!InputsKept'
  BY <1>1 DEF Queued, Looked, Entry!OneAtATime, Entry!ConflictsAreForeign, Entry!InputsKept, Entry!Is
<1>4. Counting'
  BY Uncounted DEF Entry!Places
<1>5. QED
  BY <1>2, <1>3, <1>4

LEMMA BeginStep ==
  ASSUME EntryAssumption, RInv, NEW c \in Callers, Entry!Begin(c)
  PROVE  RInv'
<1>1. where[c] = "new" /\ UNCHANGED <<result, counts, runsRecorded, foreign, inputs, deaths>>
  BY DEF Entry!Begin
<1>2. result[c] = "none" /\ result = [result EXCEPT ![c] = "none"]
  BY <1>1 DEF RInv, Queued, EntryTypes
<1>3. CASE Way[c] = "text" /\ Given[c] # c
  <2>1. Moves(c, "checking", "none") /\ UNCHANGED <<queue, holder>>
    BY <1>1, <1>2, <1>3 DEF Entry!Begin, Entry!Goes, Moves
  <2>2. QED
    BY <1>1, <2>1, AsideStep
<1>4. CASE Way[c] = "event" \/ (Way[c] = "text" /\ Given[c] = c)
  <2>1. Moves(c, "committing", "none") /\ UNCHANGED <<queue, holder>>
    BY <1>1, <1>2, <1>4 DEF Entry!Begin, Entry!Goes, Moves
  <2>2. QED
    BY <1>1, <2>1, AsideStep
<1>5. CASE Way[c] \notin {"text", "event"}
  <2>1. Entry!Acquires(c)
    BY <1>5 DEF Entry!Begin
  <2>2. QED
    BY <1>1, <1>5, <2>1, AcquiresStep
<1>6. QED
  BY <1>3, <1>4, <1>5

LEMMA CheckStep ==
  ASSUME EntryAssumption, RInv, NEW c \in Callers, Entry!Check(c)
  PROVE  RInv'
<1>1. where[c] = "checking" /\ UNCHANGED <<queue, holder, counts, runsRecorded, foreign, inputs, deaths>>
  BY DEF Entry!Check
<1>2. result[c] = "none" /\ result = [result EXCEPT ![c] = "none"]
  BY <1>1 DEF RInv, Queued, EntryTypes
<1>3. Moves(c, "done", "refused") \/ Moves(c, "committing", "none")
  BY <1>2 DEF Entry!Check, Entry!Ends, Entry!Goes, Moves
<1>4. QED
  BY <1>1, <1>3, AsideStep

LEMMA CommitInputStep ==
  ASSUME EntryAssumption, RInv, NEW c \in Callers, Entry!CommitInput(c)
  PROVE  RInv'
BY AcquiresStep DEF Entry!CommitInput

-----------------------------------------------------------------------------
\* Holding the lock.

LEMMA TakeStep ==
  ASSUME EntryAssumption, RInv, Entry!Take
  PROVE  RInv'
<1> USE DEF RInv
<1> DEFINE c == Head(queue)
<1>1. /\ holder = "-" /\ holder' = c /\ queue' = Tail(queue) /\ queue # <<>>
      /\ where' = [where EXCEPT ![c] = "looking"]
      /\ UNCHANGED <<result, counts, runsRecorded, foreign, inputs, deaths>>
  BY DEF Entry!Take, Entry!Goes
<1>2. /\ c \in Callers /\ Tail(queue) \in Seq(Callers)
      /\ ToSet(queue) = {c} \cup ToSet(Tail(queue))
  BY <1>1, HeadTailElements DEF Queued
<1>3. c \notin ToSet(Tail(queue)) /\ IsInjective(Tail(queue))
  BY <1>1, TailDistinct DEF Queued, EntryTypes
<1>4. where[c] = "waiting" /\ result[c] = "none"
  BY <1>2 DEF Queued
<1> HIDE DEF c
<1>5. Moves(c, "looking", "none")
  BY <1>1, <1>2, <1>4 DEF Moves, EntryTypes
<1>6. /\ where' \in [Callers -> Entry!Places] /\ where'[c] = "looking"
      /\ \A x \in Callers : x # c => where'[x] = where[x]
  BY <1>2, <1>5, MovesTypes DEF Entry!Places, Entry!Counted
<1>7. ToSet(queue') = ToSet(queue) \ {c} /\ IsInjective(queue') /\ queue' \in Seq(Callers)
  BY <1>1, <1>2, <1>3
<1>8. EntryTypes'
  BY <1>1, <1>2, <1>6, <1>7 DEF EntryTypes
<1>9. Queued'
  BY <1>1, <1>4, <1>6, <1>7 DEF Queued
<1>10. Looked' /\ Entry!ConflictsAreForeign'
  BY <1>1, <1>6 DEF Looked, Entry!ConflictsAreForeign, Entry!Is
<1>11. Counting'
  BY <1>1, <1>2, <1>4, <1>5, Uncounted DEF Entry!Places
<1>12. Entry!OneAtATime'
  BY <1>1, <1>2, <1>6 DEF Entry!OneAtATime, EntryAssumption
<1>13. Entry!InputsKept'
  BY <1>1, <1>2, <1>4, <1>6 DEF Entry!InputsKept
<1>14. QED
  BY <1>8, <1>9, <1>10, <1>11, <1>12, <1>13

LEMMA LookStep ==
  ASSUME EntryAssumption, RInv, NEW c \in Callers, Entry!Look(c)
  PROVE  RInv'
<1> USE DEF RInv
<1>1. where[c] = "looking" /\ UNCHANGED <<queue, runsRecorded, foreign, inputs, deaths>>
  BY DEF Entry!Look
<1>2. result[c] = "none" /\ holder = c /\ result = [result EXCEPT ![c] = "none"]
  BY <1>1 DEF Queued, Entry!OneAtATime, EntryTypes
<1>3. CASE Given[c] \in runsRecorded
  <2>1. Moves(c, "done", "refused") /\ holder' = "-" /\ counts' = counts
    BY <1>3 DEF Entry!Look, Entry!IsNewRun, Entry!Ends, Entry!Goes, Moves
  <2>2. /\ where' \in [Callers -> Entry!Places]
        /\ result' \in [Callers -> Entry!Counted \cup {"none", "refused", "conflict", "raised", "cut", "lost"}]
        /\ where'[c] = "done" /\ result'[c] = "refused"
        /\ \A x \in Callers : x # c => where'[x] = where[x] /\ result'[x] = result[x]
    BY <2>1, MovesTypes DEF Entry!Places
  <2>3. EntryTypes'
    BY <1>1, <2>1, <2>2 DEF EntryTypes
  <2>4. Queued' /\ Looked' /\ Entry!OneAtATime' /\ Entry!ConflictsAreForeign' /\ Entry!InputsKept'
    BY <1>1, <1>2, <2>1, <2>2
       DEF Queued, Looked, Entry!OneAtATime, Entry!ConflictsAreForeign, Entry!InputsKept, Entry!Is,
           EntryAssumption
  <2>5. Counting'
    BY <1>1, <2>1, Uncounted DEF Entry!Places
  <2>6. QED
    BY <2>3, <2>4, <2>5
<1>4. CASE Given[c] \notin runsRecorded
  <2>1. /\ where' = [where EXCEPT ![c] = "claiming"] /\ UNCHANGED <<result, holder>>
        /\ counts' = [counts EXCEPT !["running"] = @ + 1]
    BY <1>4 DEF Entry!Look, Entry!IsNewRun, Entry!Goes
  <2>2. Moves(c, "claiming", "none")
    BY <1>2, <2>1 DEF Moves
  <2>3. /\ where' \in [Callers -> Entry!Places]
        /\ where'[c] = "claiming"
        /\ \A x \in Callers : x # c => where'[x] = where[x]
    BY <2>2, MovesTypes DEF Entry!Places
  <2>4. "running" \notin Entry!Counted
    BY DEF Entry!Counted, Entry!Statuses
  <2>5. counts' \in [Entry!Counted \cup {"running"} -> Nat] /\ counts'["running"] = counts["running"] + 1
        /\ \A name \in Entry!Counted : counts'[name] = counts[name]
    BY <2>1, <2>4 DEF EntryTypes
  <2>6. EntryTypes'
    BY <1>1, <2>1, <2>3, <2>5 DEF EntryTypes
  <2>7. Queued' /\ Looked' /\ Entry!OneAtATime' /\ Entry!ConflictsAreForeign' /\ Entry!InputsKept'
    BY <1>1, <1>2, <1>4, <2>1, <2>3
       DEF Queued, Looked, Entry!OneAtATime, Entry!ConflictsAreForeign, Entry!InputsKept, Entry!Is
  <2>8. Counting'
    <3>1. Live' = Live \cup {c} /\ c \notin Live
      BY <1>1, <2>3 DEF Live
    <3>2. IsFiniteSet(Live)
      BY FS_Subset DEF EntryAssumption, Live
    <3>3. Cardinality(Live') = Cardinality(Live) + 1
      BY <3>1, <3>2, FS_AddElement
    <3>4. \A name \in Entry!Counted : Became(name)' = Became(name)
      BY <2>1 DEF Became
    <3>5. QED
      BY <2>5, <3>3, <3>4 DEF Counting
  <2>9. QED
    BY <2>6, <2>7, <2>8
<1>5. QED
  BY <1>3, <1>4

\* A call that was let in ends, and its claim may have landed.
LEMMA ReturnsStep ==
  ASSUME EntryAssumption, RInv, NEW c \in Callers, where[c] \in {"claiming", "running"},
         NEW name \in Entry!Counted, NEW how \in Entry!Counted \cup {"conflict", "raised"},
         how = name \/ (name = "failed" /\ how \in {"conflict", "raised"}),
         how = "conflict" => Given[c] \in foreign,
         Entry!Returns(c, name, how), UNCHANGED <<queue, foreign, inputs, deaths>>
  PROVE  RInv'
<1> USE DEF RInv
<1>1. Moves(c, "done", how) /\ holder' = "-" /\ counts' = Entry!After(name)
  BY DEF Entry!Returns, Entry!Ends, Entry!Goes, Moves
<1>2. /\ where' \in [Callers -> Entry!Places]
      /\ result' \in [Callers -> Entry!Counted \cup {"none", "refused", "conflict", "raised", "cut", "lost"}]
      /\ where'[c] = "done" /\ result'[c] = how
      /\ \A x \in Callers : x # c => where'[x] = where[x] /\ result'[x] = result[x]
  BY <1>1, MovesTypes DEF Entry!Places
<1>3. holder = c /\ result[c] = "none"
  BY DEF Entry!OneAtATime, Queued
<1>4. Counting' /\ counts' \in [Entry!Counted \cup {"running"} -> Nat]
  BY <1>1, Counted
<1>5. EntryTypes'
  BY <1>1, <1>2, <1>4 DEF EntryTypes
<1>6. \A x \in Callers : where'[x] \notin {"looking", "claiming", "running"}
  BY <1>2, <1>3 DEF Entry!OneAtATime
<1>7. Queued' /\ Looked' /\ Entry!OneAtATime' /\ Entry!ConflictsAreForeign' /\ Entry!InputsKept'
  BY <1>1, <1>2, <1>3, <1>6
     DEF Queued, Looked, Entry!OneAtATime, Entry!ConflictsAreForeign, Entry!InputsKept, Entry!Is,
         EntryAssumption
<1>8. QED
  BY <1>4, <1>5, <1>7

LEMMA ClaimStep ==
  ASSUME EntryAssumption, RInv, NEW c \in Callers, Entry!Claim(c)
  PROVE  RInv'
<1> USE DEF RInv
<1>1. where[c] = "claiming" /\ UNCHANGED <<queue, foreign, inputs, deaths>>
  BY DEF Entry!Claim
<1>2. CASE Given[c] \in runsRecorded
  <2>1. Entry!Returns(c, "failed", "conflict") /\ Given[c] \in foreign
    BY <1>1, <1>2 DEF Entry!Claim, Looked
  <2>2. QED
    BY <1>1, <2>1, ReturnsStep DEF Entry!Counted, Entry!Statuses
<1>3. CASE Given[c] \notin runsRecorded
  <2>1. /\ where' = [where EXCEPT ![c] = "running"] /\ runsRecorded' = runsRecorded \cup {Given[c]}
        /\ UNCHANGED <<result, holder, counts>>
    BY <1>3 DEF Entry!Claim, Entry!Goes
  <2>2. /\ where' \in [Callers -> Entry!Places] /\ where'[c] = "running"
        /\ \A x \in Callers : x # c => where'[x] = where[x]
    BY <2>1 DEF EntryTypes, Entry!Places
  <2>3. holder = c /\ \A x \in Callers : where[x] \in {"looking", "claiming", "running"} => x = c
    BY <1>1 DEF Entry!OneAtATime
  <2>4. EntryTypes'
    BY <1>1, <2>1, <2>2 DEF EntryTypes
  <2>5. Queued' /\ Looked' /\ Entry!OneAtATime' /\ Entry!ConflictsAreForeign' /\ Entry!InputsKept'
    BY <1>1, <2>1, <2>2, <2>3
       DEF Queued, Looked, Entry!OneAtATime, Entry!ConflictsAreForeign, Entry!InputsKept, Entry!Is
  <2>6. Live' = Live /\ \A name \in Entry!Counted : Became(name)' = Became(name)
    BY <1>1, <2>1, <2>2 DEF Live, Became
  <2>7. Counting'
    BY <2>1, <2>6 DEF Counting
  <2>8. QED
    BY <2>4, <2>5, <2>7
<1>4. QED
  BY <1>2, <1>3

LEMMA EndsStep ==
  ASSUME EntryAssumption, RInv, NEW c \in Callers, Entry!Executed(c) \/ Entry!ExecuteRaises(c)
  PROVE  RInv'
<1>1. CASE Entry!Executed(c)
  <2>1. PICK how \in Entry!Statuses : Entry!Returns(c, how, how)
    BY <1>1 DEF Entry!Executed
  <2>2. how \in Entry!Counted /\ how # "conflict"
    BY DEF Entry!Counted, Entry!Statuses
  <2>3. where[c] \in {"claiming", "running"} /\ UNCHANGED <<queue, foreign, inputs, deaths>>
    BY <1>1 DEF Entry!Executed
  <2>4. QED
    BY <2>1, <2>2, <2>3, ReturnsStep
<1>2. CASE Entry!ExecuteRaises(c)
  <2>1. /\ where[c] \in {"claiming", "running"} /\ UNCHANGED <<queue, foreign, inputs, deaths>>
        /\ Entry!Returns(c, "failed", "raised")
    BY <1>2 DEF Entry!ExecuteRaises
  <2>2. QED
    BY <2>1, ReturnsStep DEF Entry!Counted, Entry!Statuses
<1>3. QED
  BY <1>1, <1>2

\* A call that was not let in yet is cut off: it leaves the lock, or the queue.
LEMMA CutStep ==
  ASSUME EntryAssumption, RInv, NEW c \in Callers,
         where[c] \in {"checking", "committing", "waiting", "looking"}, Entry!Cancel(c)
  PROVE  RInv'
<1> USE DEF RInv
<1>1. /\ Moves(c, "done", "cut") /\ holder' = (IF holder = c THEN "-" ELSE holder)
      /\ UNCHANGED <<counts, runsRecorded, foreign, deaths>> /\ queue' = RemoveFirst(queue, c)
      /\ inputs' = inputs \/ inputs' = inputs \cup {c}
  <2>1. /\ Entry!Ends(c, "cut") /\ holder' = (IF holder = c THEN "-" ELSE holder) /\ counts' = counts
        /\ queue' = Entry!RemoveFirst(queue, c) /\ runsRecorded' = runsRecorded
        /\ UNCHANGED <<foreign, deaths>>
        /\ inputs' = inputs \/ inputs' = inputs \cup {c}
    BY DEF Entry!Cancel
  <2>2. Moves(c, "done", "cut")
    BY <2>1 DEF Entry!Ends, Entry!Goes, Moves
  <2>3. queue' = RemoveFirst(queue, c)
    BY <2>1, SameOperators
  <2>4. QED
    BY <2>1, <2>2, <2>3
<1>2. /\ where' \in [Callers -> Entry!Places]
      /\ result' \in [Callers -> Entry!Counted \cup {"none", "refused", "conflict", "raised", "cut", "lost"}]
      /\ where'[c] = "done" /\ result'[c] = "cut"
      /\ \A x \in Callers : x # c => where'[x] = where[x] /\ result'[x] = result[x]
  BY <1>1, MovesTypes DEF Entry!Places
<1>3. /\ queue' \in Seq(Callers) /\ IsInjective(queue') /\ ToSet(queue') = ToSet(queue) \ {c}
  BY <1>1, RemoveFirstProperties DEF Queued, EntryTypes
<1>4. EntryTypes'
  BY <1>1, <1>2, <1>3 DEF EntryTypes
<1>5. Queued' /\ Looked' /\ Entry!OneAtATime' /\ Entry!ConflictsAreForeign' /\ Entry!InputsKept'
  BY <1>1, <1>2, <1>3
     DEF Queued, Looked, Entry!OneAtATime, Entry!ConflictsAreForeign, Entry!InputsKept, Entry!Is,
         EntryAssumption
<1>6. Counting'
  BY <1>1, Uncounted DEF Entry!Places
<1>7. QED
  BY <1>4, <1>5, <1>6

\* A call that was let in is interrupted; its claim may be there.
LEMMA InterruptStep ==
  ASSUME EntryAssumption, RInv, NEW c \in Callers, where[c] \in {"claiming", "running"},
         Entry!Cancel(c)
  PROVE  RInv'
<1>1. /\ Entry!Returns(c, "interrupted", "interrupted") /\ inputs' = inputs
      /\ queue' = RemoveFirst(queue, c) /\ UNCHANGED <<foreign, deaths>>
  <2>1. /\ Entry!Returns(c, "interrupted", "interrupted") /\ inputs' = inputs
        /\ queue' = Entry!RemoveFirst(queue, c) /\ UNCHANGED <<foreign, deaths>>
    BY DEF Entry!Cancel
  <2>2. QED
    BY <2>1, SameOperators
<1>2. c \notin ToSet(queue)
  BY DEF RInv, Queued
<1>3. queue' = queue
  BY <1>1, <1>2, RemoveFirstProperties DEF RInv, Queued, EntryTypes
<1>4. "interrupted" \in Entry!Counted
  BY DEF Entry!Counted
<1>5. QED
  BY <1>1, <1>3, <1>4, ReturnsStep

LEMMA CancelStep ==
  ASSUME EntryAssumption, RInv, NEW c \in Callers, Entry!Cancel(c)
  PROVE  RInv'
<1>1. where[c] \in Entry!Places \ {"new", "done"}
  BY DEF Entry!Cancel, RInv, EntryTypes
<1>2. \/ where[c] \in {"checking", "committing", "waiting", "looking"}
      \/ where[c] \in {"claiming", "running"}
  BY <1>1 DEF Entry!Places
<1>3. QED
  BY <1>2, CutStep, InterruptStep

-----------------------------------------------------------------------------
\* Others, and the end of the process.

LEMMA RivalStep ==
  ASSUME EntryAssumption, RInv, Entry!Rival
  PROVE  RInv'
<1> USE DEF RInv
<1>1. PICK c \in Callers : /\ runsRecorded' = runsRecorded \cup {Given[c]}
                         /\ foreign' = foreign \cup {Given[c]}
  BY DEF Entry!Rival
<1>2. UNCHANGED <<where, result, queue, holder, counts, inputs, deaths>>
  BY DEF Entry!Rival
<1>3. EntryTypes' /\ Queued' /\ Looked' /\ Entry!OneAtATime' /\ Entry!ConflictsAreForeign'
      /\ Entry!InputsKept'
  BY <1>1, <1>2
     DEF EntryTypes, Queued, Looked, Entry!OneAtATime, Entry!ConflictsAreForeign,
         Entry!InputsKept, Entry!Is
<1>4. Counting'
  BY <1>2 DEF Counting, Live, Became
<1>5. QED
  BY <1>3, <1>4

LEMMA ProcessEndsStep ==
  ASSUME EntryAssumption, RInv, Entry!ProcessEnds
  PROVE  RInv'
<1> USE DEF RInv
<1>1. /\ where' = [c \in Callers |-> IF where[c] = "new" THEN "new" ELSE "done"]
      /\ result' = [c \in Callers |-> IF where[c] = "new" THEN "none" ELSE "lost"]
      /\ queue' = <<>> /\ holder' = "-" /\ counts' = Entry!Zero
      /\ UNCHANGED <<runsRecorded, foreign, inputs>>
  BY DEF Entry!ProcessEnds
<1>2. queue' \in Seq(Callers) /\ ToSet(queue') = {} /\ IsInjective(queue')
  BY <1>1 DEF ToSet, IsInjective
<1>3. counts' \in [Entry!Counted \cup {"running"} -> Nat]
      /\ \A name \in Entry!Counted \cup {"running"} : counts'[name] = 0
  BY <1>1 DEF Entry!Zero
<1>4. EntryTypes'
  BY <1>1, <1>2, <1>3 DEF EntryTypes, Entry!Places
<1>5. Queued' /\ Looked' /\ Entry!OneAtATime' /\ Entry!ConflictsAreForeign' /\ Entry!InputsKept'
  BY <1>1, <1>2
     DEF Queued, Looked, Entry!OneAtATime, Entry!ConflictsAreForeign, Entry!InputsKept, Entry!Is,
         EntryAssumption
<1>6. Live' = {} /\ \A name \in Entry!Counted : Became(name)' = {}
  BY <1>1 DEF Live, Became, Entry!Counted, Entry!Statuses
<1>7. Counting'
  BY <1>3, <1>6, FS_EmptySet DEF Counting
<1>8. QED
  BY <1>4, <1>5, <1>7

LEMMA EntryInit ==
  ASSUME EntryAssumption, Entry!Init
  PROVE  RInv
<1>1. queue \in Seq(Callers) /\ ToSet(queue) = {} /\ IsInjective(queue)
  BY DEF Entry!Init, ToSet, IsInjective
<1>2. EntryTypes
  BY <1>1 DEF Entry!Init, EntryTypes, Entry!Places, Entry!Zero
<1>3. Queued /\ Looked /\ Entry!OneAtATime /\ Entry!ConflictsAreForeign /\ Entry!InputsKept
  BY <1>1 DEF Entry!Init, Queued, Looked, Entry!OneAtATime, Entry!ConflictsAreForeign,
              Entry!InputsKept, Entry!Is, EntryAssumption
<1>4. Live = {} /\ \A name \in Entry!Counted : Became(name) = {}
  BY DEF Entry!Init, Live, Became, Entry!Counted, Entry!Statuses
<1>5. \A name \in Entry!Counted \cup {"running"} : counts[name] = 0
  BY DEF Entry!Init, Entry!Zero
<1>6. Counting
  BY <1>4, <1>5, FS_EmptySet DEF Counting
<1>7. QED
  BY <1>2, <1>3, <1>6 DEF RInv

LEMMA EntryNext ==
  ASSUME EntryAssumption, RInv, Entry!Next \/ UNCHANGED Entry!vars
  PROVE  RInv'
<1>1. CASE UNCHANGED Entry!vars
  BY <1>1 DEF Entry!vars, RInv, EntryTypes, Queued, Looked, Counting, Live, Became,
              Entry!OneAtATime, Entry!ConflictsAreForeign, Entry!InputsKept, Entry!Is
<1>2. QED
  BY <1>1, BeginStep, CheckStep, CommitInputStep, TakeStep, LookStep, ClaimStep, EndsStep, CancelStep,
     RivalStep, ProcessEndsStep DEF Entry!Next

\* For any number of calls, of whatever kind, any rivals and any number of ends of the
\* process: one cognition at a time, a run fails on its claim only if another process
\* took its id, the status counts each call that was let in once and under what
\* became of it, and what is thought about is committed first (AuroraRuntime).
THEOREM EntryIsSound ==
  ASSUME EntryAssumption
  PROVE  Entry!Spec => []Entry!RuntimeSound
<1>1. Entry!Init => RInv
  BY EntryInit
<1>2. RInv /\ [Entry!Next]_Entry!vars => RInv'
  BY EntryNext
<1>3. RInv => Entry!RuntimeSound
  <2>1. EntryTypes => Entry!TypeOK
    BY SameOperators DEF EntryTypes, Entry!TypeOK
  <2>2. QED
    BY <2>1, CountingIsTrue DEF RInv, Entry!RuntimeSound
<1>4. QED
  BY <1>1, <1>2, <1>3, PTL DEF Entry!Spec

\* The terminal and the entry to cognition that its lines come to are sound together
\* (TerminalShell.run, AuroraRuntime).
THEOREM EntriesAreSound ==
  ASSUME EntryAssumption
  PROVE  Entry!Spec /\ Console!Spec => []EntrySound
BY EntryIsSound, ConsoleIsSound, PTL DEF EntrySound

-----------------------------------------------------------------------------
\* One request to a model, for any policy.

\* Durations and numbers of attempts are natural numbers.
Policies == Timeouts \subseteq Nat /\ Totals \subseteq Nat /\ Counts \subseteq Nat

\* An attempt, by the clock of the request.
Tries == [from : Nat, to : Nat, how : {Gateway!Open, "answered", "error", "timeout", "cut"}]

\* The attempts made, by the clock of the request; the last one is open while the
\* request waits and cannot be older than its timeout.
Attempting ==
  /\ tries \in Seq(Tries)
  /\ attempting = "new" => tries = <<>> /\ now = 0
  /\ attempting = "waiting" =>
       /\ tries # <<>>
       /\ tries[Len(tries)].how = Gateway!Open
       /\ tries[Len(tries)].to = tries[Len(tries)].from
       /\ now <= tries[Len(tries)].from + binding.timeout
       /\ tries[Len(tries)].from <= now
  /\ attempting = "over" => \A n \in DOMAIN tries : tries[n].how # Gateway!Open

GInv == Gateway!TypeOK /\ Attempting /\ Gateway!AttemptsInTurn /\ Gateway!BoundedInAll

\* What the invariant says of the numbers.
LEMMA GatewayNumbers ==
  ASSUME Policies, GInv
  PROVE  /\ binding.timeout \in Nat /\ binding.total \in Nat /\ binding.attempts \in Nat
         /\ 0 < binding.timeout /\ 0 < binding.attempts /\ binding.timeout <= binding.total
         /\ binding \in Gateway!Bindings
         /\ now \in Nat /\ now <= binding.total
         /\ tries \in Seq(Tries) /\ Len(tries) \in Nat /\ Len(tries) <= binding.attempts
         /\ DOMAIN tries = 1..Len(tries)
         /\ \A n \in 1..Len(tries) :
              tries[n] \in Tries /\ tries[n].from \in Nat /\ tries[n].to \in Nat
<1>1. /\ binding \in Gateway!Bindings /\ now \in Nat /\ now <= binding.total
      /\ tries \in Seq(Tries) /\ Len(tries) <= binding.attempts
  BY DEF GInv, Attempting, Gateway!TypeOK, Gateway!AttemptsInTurn, Gateway!BoundedInAll
<1>2. /\ binding \in [timeout : Timeouts, total : Totals, attempts : Counts]
      /\ 0 < binding.timeout /\ 0 < binding.attempts /\ binding.timeout <= binding.total
  BY <1>1 DEF Gateway!Bindings
<1>3. binding.timeout \in Nat /\ binding.total \in Nat /\ binding.attempts \in Nat
  BY <1>2 DEF Policies
<1>4. Len(tries) \in Nat /\ DOMAIN tries = 1..Len(tries)
  BY <1>1, LenProperties
<1>5. \A n \in 1..Len(tries) : tries[n] \in Tries
  BY <1>1, ElementOfSeq
<1>6. \A n \in 1..Len(tries) : tries[n].from \in Nat /\ tries[n].to \in Nat
  BY <1>5 DEF Tries
<1>7. QED
  BY <1>1, <1>2, <1>3, <1>4, <1>5, <1>6

\* An attempt that begins.
LEMMA OpenTry ==
  ASSUME NEW t \in Nat
  PROVE  \E r \in Tries : /\ r = [from |-> t, to |-> t, how |-> Gateway!Open]
                          /\ r.from = t /\ r.to = t /\ r.how = Gateway!Open
<1> DEFINE r == [from |-> t, to |-> t, how |-> Gateway!Open]
<1>1. r \in Tries
  BY DEF Tries
<1>2. r.from = t /\ r.to = t /\ r.how = Gateway!Open
  OBVIOUS
<1>3. QED
  BY <1>1, <1>2

\* The attempts with the last one ended now.
ClosedNow(c, how) ==
  /\ c = Gateway!Closed(how)
  /\ Len(c) = Len(tries) /\ Len(c) > 0
  /\ \A n \in 1..Len(c) :
       /\ c[n].how # Gateway!Open
       /\ c[n].to <= c[n].from + binding.timeout
       /\ n < Len(c) => c[n].how \in {"error", "timeout"} /\ c[n].to = c[n + 1].from
  /\ c[Len(c)].to = now /\ c[Len(c)].how = how

\* Closing the last attempt now leaves a row of attempts that ended in turn.
LEMMA ClosedAttempts ==
  ASSUME Policies, GInv, attempting = "waiting",
         NEW how \in {"answered", "error", "timeout", "cut"}
  PROVE  \E c \in Seq(Tries) : ClosedNow(c, how)
<1>1. PICK L \in Nat : L = Len(tries) /\ L > 0 /\ L \in 1..L /\ DOMAIN tries = 1..L
  <2>1. tries # <<>>
    BY DEF GInv, Attempting
  <2>2. tries \in Seq(Tries) /\ Len(tries) \in Nat /\ DOMAIN tries = 1..Len(tries)
    BY GatewayNumbers
  <2>3. Len(tries) # 0
    BY <2>1, <2>2, EmptySeq
  <2>4. Len(tries) \in 1..Len(tries) /\ Len(tries) > 0
    BY <2>2, <2>3
  <2>5. QED
    BY <2>2, <2>4
<1>2. tries \in Seq(Tries) /\ tries[L] \in Tries /\ tries[L].from \in Nat /\ now \in Nat
  BY <1>1, GatewayNumbers
<1>3. PICK last \in Tries : last = tries[L]
  BY <1>2
<1>4. PICK mid \in Tries : /\ mid = [last EXCEPT !.to = now]
                           /\ mid.from = last.from /\ mid.to = now
  <2>1. last \in Tries /\ now \in Nat
    BY <1>2, <1>3
  <2>2. [last EXCEPT !.to = now] \in Tries
    BY <2>1 DEF Tries
  <2>3. [last EXCEPT !.to = now].from = last.from /\ [last EXCEPT !.to = now].to = now
    BY <2>1 DEF Tries
  <2>4. QED
    BY <2>2, <2>3, Zenon
<1>4a. PICK new \in Tries : /\ new = [mid EXCEPT !.how = how]
                            /\ new.from = last.from /\ new.to = now /\ new.how = how
  <2>1. mid \in Tries /\ mid.from = last.from /\ mid.to = now
    BY <1>4
  <2>2. [mid EXCEPT !.how = how] \in Tries
    BY <2>1 DEF Tries
  <2>3. /\ [mid EXCEPT !.how = how].from = last.from /\ [mid EXCEPT !.how = how].to = now
        /\ [mid EXCEPT !.how = how].how = how
    BY <2>1 DEF Tries
  <2>4. QED
    BY <2>2, <2>3, Zenon
<1>5. Gateway!Closed(how) = [tries EXCEPT ![L] = new]
  <2>1. Gateway!Closed(how) = [tries EXCEPT ![L] = [[tries[L] EXCEPT !.to = now] EXCEPT !.how = how]]
    BY <1>1 DEF Gateway!Closed, Gateway!Current
  <2>2. QED
    BY <2>1, <1>3, <1>4, <1>4a, Zenon
<1>6. PICK c \in Seq(Tries) : c = Gateway!Closed(how) /\ Len(c) = L
                              /\ \A n \in 1..L : c[n] = IF n = L THEN new ELSE tries[n]
  <2>1. L \in 1..Len(tries) /\ L = Len(tries) /\ tries \in Seq(Tries) /\ new \in Tries
    BY <1>1, <1>2, <1>4a
  <2>2. /\ [tries EXCEPT ![L] = new] \in Seq(Tries)
        /\ Len([tries EXCEPT ![L] = new]) = Len(tries)
        /\ \A n \in 1..Len(tries) :
             [tries EXCEPT ![L] = new][n] = IF n = L THEN new ELSE tries[n]
    BY <2>1, ExceptSeq
  <2>3. QED
    BY <1>5, <2>1, <2>2
<1>7. \A n \in 1..L : n # L => c[n] = tries[n]
  BY <1>6
<1>8. c[L] = new
  BY <1>1, <1>6
<1>9. new.from = tries[L].from
  BY <1>3, <1>4a
<1>10. \A n \in 1..L : c[n].from = tries[n].from
  BY <1>7, <1>8, <1>9
<1>11. now <= tries[L].from + binding.timeout
  BY <1>1 DEF GInv, Attempting
<1>12. ASSUME NEW n \in 1..L, n # L
       PROVE  /\ tries[n].how \in {"error", "timeout"} /\ tries[n].to = tries[n + 1].from
              /\ tries[n].to <= tries[n].from + binding.timeout
  <2>1. n < L
    BY <1>12
  <2>2. QED
    BY <1>1, <2>1 DEF GInv, Gateway!AttemptsInTurn
<1>13. ASSUME NEW n \in 1..L
       PROVE  /\ c[n].how # Gateway!Open
              /\ c[n].to <= c[n].from + binding.timeout
              /\ n < L => c[n].how \in {"error", "timeout"} /\ c[n].to = c[n + 1].from
  <2>1. CASE n = L
    <3>1. c[n].how = how /\ c[n].to = now /\ c[n].from = tries[L].from /\ ~(n < L)
      BY <2>1, <1>4a, <1>8, <1>9
    <3>2. how # Gateway!Open
      BY DEF Gateway!Open
    <3>3. QED
      BY <3>1, <3>2, <1>11
  <2>2. CASE n # L
    <3>1. n + 1 \in 1..L
      BY <2>2
    <3>2. c[n].how \in {"error", "timeout"} /\ c[n].to = tries[n].to
          /\ c[n].from = tries[n].from /\ c[n + 1].from = tries[n + 1].from
      BY <2>2, <3>1, <1>7, <1>10, <1>12
    <3>3. \A h \in {"error", "timeout"} : h # Gateway!Open
      BY DEF Gateway!Open
    <3>4. QED
      BY <2>2, <3>2, <3>3, <1>12
  <2>3. QED
    BY <2>1, <2>2
<1>14. c[L].to = now /\ c[L].how = how
  BY <1>4a, <1>8
<1>15. ClosedNow(c, how)
  BY <1>1, <1>6, <1>13, <1>14 DEF ClosedNow
<1>16. QED
  BY <1>15

LEMMA GatewayStep ==
  ASSUME Policies, GInv, Gateway!Next \/ UNCHANGED Gateway!vars
  PROVE  GInv'
<1>0. /\ binding.timeout \in Nat /\ binding.total \in Nat /\ binding.attempts \in Nat
      /\ 0 < binding.timeout /\ 0 < binding.attempts /\ now \in Nat /\ now <= binding.total
      /\ binding.timeout <= binding.total /\ binding \in Gateway!Bindings
      /\ Len(tries) <= binding.attempts /\ tries \in Seq(Tries) /\ Len(tries) \in Nat
      /\ DOMAIN tries = 1..Len(tries)
      /\ \A n \in 1..Len(tries) : tries[n].from \in Nat /\ tries[n].to \in Nat
  BY GatewayNumbers
<1> DEFINE Over(how, ending) ==
      /\ attempting = "waiting"
      /\ tries' = Gateway!Closed(how)
      /\ attempting' = "over" /\ told' = ending
      /\ UNCHANGED <<binding, now>>
<1>1. ASSUME NEW how \in {"answered", "error", "timeout", "cut"},
             NEW ending \in {"answer", "invalid", "failed", "deadline", "cancelled"},
             Over(how, ending),
             ending \in {"failed", "deadline"} => now = binding.total \/ Len(tries) = binding.attempts
      PROVE  GInv'
  <2>1. attempting = "waiting"
    BY <1>1
  <2>2a. PICK c \in Seq(Tries) : ClosedNow(c, how)
    BY <2>1, ClosedAttempts
  <2>2. /\ c = Gateway!Closed(how)
        /\ Len(c) = Len(tries) /\ Len(c) > 0
        /\ \A n \in 1..Len(c) :
             /\ c[n].how # Gateway!Open
             /\ c[n].to <= c[n].from + binding.timeout
             /\ n < Len(c) => c[n].how \in {"error", "timeout"} /\ c[n].to = c[n + 1].from
    BY <2>2a DEF ClosedNow
  <2>3. tries' = c /\ attempting' = "over" /\ told' = ending /\ binding' = binding /\ now' = now
    BY <1>1, <2>2
  <2>4. DOMAIN tries' = 1..Len(tries')
    BY <2>2, <2>3, LenProperties
  <2>5. Gateway!TypeOK'
    BY <2>3, <1>0 DEF Gateway!TypeOK, Gateway!Told
  <2>6. Attempting'
    BY <2>2, <2>3, <2>4 DEF Attempting
  <2>7. Gateway!AttemptsInTurn'
    BY <2>2, <2>3, <2>4, <1>0 DEF Gateway!AttemptsInTurn
  <2>8. Gateway!BoundedInAll'
    BY <2>2, <2>3, <1>0, <1>1 DEF Gateway!BoundedInAll
  <2>9. QED
    BY <2>5, <2>6, <2>7, <2>8 DEF GInv
<1>2. ASSUME NEW how \in {"error", "timeout"}, attempting = "waiting", Gateway!Fails(how)
      PROVE  GInv'
  <2>1. CASE Gateway!Last
    <3>1. Over(how, Gateway!Error(how)) /\ Gateway!Error(how) \in {"failed", "deadline"}
      BY <1>2, <2>1 DEF Gateway!Fails, Gateway!Is, Gateway!Error
    <3>2. Len(tries) = binding.attempts
      BY <2>1, <1>0 DEF Gateway!Last, Gateway!Current
    <3> HIDE DEF Over
    <3>3. QED
      BY <3>1, <3>2, <1>1
  <2>2. CASE ~Gateway!Last
    <3>1. PICK new \in Tries : new = [from |-> now, to |-> now, how |-> Gateway!Open]
                               /\ new.from = now /\ new.to = now /\ new.how = Gateway!Open
      BY <1>0, OpenTry
    <3>1a. PICK c \in Seq(Tries) : ClosedNow(c, how)
      BY <1>2, ClosedAttempts
    <3>2. /\ c = Gateway!Closed(how)
          /\ Len(c) = Len(tries) /\ Len(c) > 0
          /\ \A n \in 1..Len(c) :
               /\ c[n].how # Gateway!Open
               /\ c[n].to <= c[n].from + binding.timeout
               /\ n < Len(c) => c[n].how \in {"error", "timeout"} /\ c[n].to = c[n + 1].from
          /\ c[Len(c)].to = now /\ c[Len(c)].how = how
      BY <3>1a DEF ClosedNow
    <3>2a. /\ tries' = Append(c, new)
           /\ UNCHANGED <<attempting, told, binding, now>>
      BY <1>2, <2>2, <3>1, <3>2 DEF Gateway!Fails, Gateway!Attempt
    <3>3. Len(tries) < binding.attempts
      BY <2>2, <1>0 DEF Gateway!Last, Gateway!Current
    <3>5. /\ tries' \in Seq(Tries) /\ Len(tries') = Len(c) + 1 /\ DOMAIN tries' = 1..Len(c) + 1
          /\ \A n \in 1..Len(c) : tries'[n] = c[n]
          /\ tries'[Len(c) + 1] = new /\ Len(c) \in Nat
      <4>1. /\ Append(c, new) \in Seq(Tries) /\ Len(Append(c, new)) = Len(c) + 1
            /\ \A n \in 1..Len(c) : Append(c, new)[n] = c[n]
            /\ Append(c, new)[Len(c) + 1] = new
        BY AppendProperties
      <4>2. DOMAIN Append(c, new) = 1..Len(c) + 1 /\ Len(c) \in Nat
        BY <4>1, LenProperties
      <4>3. QED
        BY <3>2a, <4>1, <4>2
    <3>6. Gateway!TypeOK'
      BY <3>1, <3>2a, <1>0 DEF GInv, Gateway!TypeOK
    <3>7. Attempting'
      <4>1. attempting' = "waiting" /\ now' = now /\ binding' = binding
        BY <3>2a, <1>2
      <4>2. Len(tries') \in 1..Len(tries') /\ tries'[Len(tries')] = new
        BY <3>5
      <4>3. tries' # <<>>
        BY <3>5, <4>2, EmptySeq
      <4>4. /\ new.how = Gateway!Open /\ new.to = new.from /\ new.from = now
            /\ now <= new.from + binding.timeout /\ new.from <= now
        BY <3>1, <1>0
      <4>5. QED
        BY <3>5, <4>1, <4>2, <4>3, <4>4 DEF Attempting
    <3>8. ASSUME NEW n \in 1..Len(c) + 1
          PROVE  /\ tries'[n].to <= tries'[n].from + binding.timeout
                 /\ n < Len(c) + 1 => tries'[n].how \in {"error", "timeout"}
                                       /\ tries'[n].to = tries'[n + 1].from
      <4>0. n \in Nat /\ Len(c) \in Nat
        BY <3>5
      <4>1. CASE n = Len(c) + 1
        <5>1. tries'[n] = new /\ ~(n < Len(c) + 1)
          BY <4>0, <4>1, <3>5
        <5>2. now <= now + binding.timeout
          BY <1>0
        <5>3. QED
          BY <5>1, <5>2, <3>1
      <4>2. CASE n = Len(c)
        <5>1. tries'[n] = c[n] /\ tries'[n + 1] = new /\ n \in 1..Len(c)
          BY <4>2, <3>5, <3>2
        <5>2. c[n].to = now /\ c[n].how = how /\ c[n].to <= c[n].from + binding.timeout
          BY <4>2, <5>1, <3>2
        <5>3. QED
          BY <5>1, <5>2, <3>1
      <4>3. CASE n < Len(c)
        <5>1. n + 1 \in 1..Len(c) /\ n \in 1..Len(c)
          BY <4>0, <4>3
        <5>2. tries'[n] = c[n] /\ tries'[n + 1] = c[n + 1]
          BY <5>1, <3>5
        <5>3. QED
          BY <5>1, <5>2, <4>3, <3>2
      <4>4. n = Len(c) + 1 \/ n = Len(c) \/ n < Len(c)
        BY <4>0
      <4>5. QED
        BY <4>1, <4>2, <4>3, <4>4
    <3>9. Gateway!AttemptsInTurn'
      <4>1. \E n \in DOMAIN tries' : tries'[n].how = Gateway!Open
        <5>1. Len(c) + 1 \in 1..Len(c) + 1
          BY <3>5
        <5>2. QED
          BY <5>1, <3>1, <3>5
      <4>2. QED
        BY <4>1, <3>1, <3>2a, <3>2, <3>3, <3>5, <3>8, <1>0, <1>2 DEF Gateway!AttemptsInTurn
    <3>10. Gateway!BoundedInAll'
      BY <3>1, <3>2a, <1>0, <1>2 DEF GInv, Gateway!BoundedInAll, Gateway!TypeOK
    <3>11. QED
      BY <3>6, <3>7, <3>9, <3>10 DEF GInv
  <2>3. QED
    BY <2>1, <2>2
<1>3. CASE Gateway!Refuse
  BY <1>3, <1>0 DEF Gateway!Refuse, Gateway!Is, GInv, Attempting, Gateway!TypeOK, Gateway!Told,
                    Gateway!AttemptsInTurn, Gateway!BoundedInAll
<1>4. CASE Gateway!Begin
  <2>2. PICK new \in Tries : new = [from |-> now, to |-> now, how |-> Gateway!Open]
                             /\ new.from = now /\ new.to = now /\ new.how = Gateway!Open
    BY <1>0, OpenTry
  <2>1. tries' = <<new>> /\ attempting' = "waiting" /\ UNCHANGED <<binding, now, told>>
        /\ attempting = "new"
    BY <1>4, <2>2 DEF Gateway!Begin, Gateway!Attempt
  <2>3. tries' \in Seq(Tries) /\ Len(tries') = 1 /\ tries'[1] = new /\ DOMAIN tries' = 1..1
    BY <2>1, <2>2
  <2>4. Gateway!TypeOK'
    BY <2>1 DEF GInv, Gateway!TypeOK
  <2>5. Attempting'
    BY <2>1, <2>2, <2>3, <1>0 DEF Attempting
  <2>6. Gateway!AttemptsInTurn'
    BY <2>1, <2>2, <2>3, <1>0 DEF Gateway!AttemptsInTurn
  <2>7. Gateway!BoundedInAll'
    BY <2>1, <1>0 DEF GInv, Gateway!BoundedInAll, Gateway!TypeOK
  <2>8. QED
    BY <2>4, <2>5, <2>6, <2>7 DEF GInv
<1>5. CASE Gateway!Answers
  <2>1. \E ending \in {"answer", "invalid"} : Over("answered", ending)
    BY <1>5 DEF Gateway!Answers, Gateway!Is
  <2> HIDE DEF Over
  <2>2. QED
    BY <2>1, <1>1
<1>6. CASE Gateway!CallRaises
  BY <1>6, <1>2 DEF Gateway!CallRaises
<1>7. CASE Gateway!AttemptTimesOut
  BY <1>7, <1>2 DEF Gateway!AttemptTimesOut
<1>8. CASE Gateway!TotalTimesOut
  <2>1. Over("cut", "deadline") /\ now = binding.total
    BY <1>8, <1>0 DEF Gateway!TotalTimesOut, Gateway!Interrupted, Gateway!Is, Gateway!TotalDue
  <2> HIDE DEF Over
  <2>2. QED
    BY <2>1, <1>1
<1>9. CASE Gateway!Cancel
  <2>1. Over("cut", "cancelled")
    BY <1>9 DEF Gateway!Cancel, Gateway!Interrupted, Gateway!Is
  <2> HIDE DEF Over
  <2>2. QED
    BY <2>1, <1>1
<1>10. CASE Gateway!TimePasses
  <2>1. /\ attempting = "waiting" /\ now' = now + 1 /\ now < binding.total
        /\ now < tries[Len(tries)].from + binding.timeout
        /\ UNCHANGED <<binding, attempting, tries, told>>
    <3>1. tries[Len(tries)].from \in Nat
      BY <1>10, <1>0 DEF Gateway!TimePasses, GInv, Attempting
    <3>2. QED
      BY <1>10, <1>0, <3>1
         DEF Gateway!TimePasses, Gateway!AttemptDue, Gateway!TotalDue, Gateway!Current
  <2>2. Gateway!TypeOK' /\ Gateway!AttemptsInTurn'
    BY <2>1, <1>0 DEF GInv, Gateway!TypeOK, Gateway!AttemptsInTurn
  <2>3. Attempting'
    <3>1. tries[Len(tries)].from \in Nat
      BY <2>1, <1>0 DEF GInv, Attempting
    <3>2. QED
      BY <2>1, <1>0, <3>1 DEF GInv, Attempting
  <2>4. Gateway!BoundedInAll'
    BY <2>1, <1>0 DEF GInv, Gateway!BoundedInAll, Gateway!TypeOK
  <2>5. QED
    BY <2>2, <2>3, <2>4 DEF GInv
<1>11. CASE UNCHANGED Gateway!vars
  BY <1>11 DEF Gateway!vars, GInv, Attempting, Gateway!TypeOK, Gateway!AttemptsInTurn,
               Gateway!BoundedInAll
<1>12. QED
  BY <1>3, <1>4, <1>5, <1>6, <1>7, <1>8, <1>9, <1>10, <1>11 DEF Gateway!Next, Gateway!Timers

\* For every policy, whatever the model answers and whoever cancels: attempts follow
\* each other within the number and the time the policy allows, and the request is
\* given up only at the total deadline or after the last attempt
\* (LiteLLMModelGateway.complete).
THEOREM GatewayIsSound ==
  ASSUME Policies
  PROVE  Gateway!Spec => []GatewaySound
<1>1. Gateway!Init => GInv
  <2> SUFFICES ASSUME Gateway!Init PROVE GInv
    OBVIOUS
  <2>1. /\ binding \in Gateway!Bindings /\ now = 0 /\ attempting = "new" /\ told = "nothing"
        /\ tries = <<>> /\ tries \in Seq(Tries) /\ Len(tries) = 0 /\ DOMAIN tries = {}
    BY DEF Gateway!Init
  <2>2. /\ binding \in [timeout : Timeouts, total : Totals, attempts : Counts]
        /\ 0 < binding.timeout /\ binding.timeout <= binding.total /\ 0 < binding.attempts
    BY <2>1 DEF Gateway!Bindings
  <2>3. binding.timeout \in Nat /\ binding.total \in Nat /\ binding.attempts \in Nat
    BY <2>2 DEF Policies
  <2>4. 0 <= binding.total /\ 0 <= binding.attempts
    BY <2>3
  <2>5. Gateway!TypeOK
    BY <2>1 DEF Gateway!TypeOK, Gateway!Told
  <2>6. Attempting
    BY <2>1 DEF Attempting
  <2>7. Gateway!AttemptsInTurn
    BY <2>1, <2>4 DEF Gateway!AttemptsInTurn
  <2>8. Gateway!BoundedInAll
    BY <2>1, <2>4 DEF Gateway!BoundedInAll
  <2>9. QED
    BY <2>5, <2>6, <2>7, <2>8 DEF GInv
<1>2. GInv /\ [Gateway!Next]_Gateway!vars => GInv'
  BY GatewayStep
<1>3. GInv => GatewaySound
  BY DEF GInv, GatewaySound, Gateway!GatewaySound
<1>4. QED
  BY <1>1, <1>2, <1>3, PTL DEF Gateway!Spec

-----------------------------------------------------------------------------
\* The event stream of a run, for any number of subscribers.

\* The invariant of the stream is inductive: set() resolves every waiter, so that
\* a clear() of another subscriber comes too late to undo it.
LEMMA EventsStep ==
  ASSUME Stream!EventsSound, Stream!Next \/ UNCHANGED Stream!vars
  PROVE  Stream!EventsSound'
<1> USE DEF Stream!EventsSound, Stream!TypeOK, Stream!NoLostWakeup
<1>1. CASE Stream!Emit
  <2>1. emitted' \in 1..MaxEvents /\ emitted < emitted' /\ terminal' \in BOOLEAN /\ pulse'
        /\ cursor' = cursor /\ subscriber' = [s \in Subscribers |-> IF subscriber[s] = "waiting" THEN "woken" ELSE subscriber[s]]
    BY <1>1 DEF Stream!Emit, Stream!Woken
  <2>2. cursor' \in [Subscribers -> 0..emitted']
    BY <2>1
  <2>3. \A s \in Subscribers : subscriber'[s] \in {"host", "woken", "closed"}
    BY <2>1
  <2>4. subscriber' \in [Subscribers -> {"host", "waiting", "woken", "closed"}]
    BY <2>1, <2>3
  <2>5. QED
    BY <2>1, <2>2, <2>3, <2>4
<1>2. ASSUME NEW s \in Subscribers, Stream!Advance(s)
      PROVE  Stream!EventsSound'
  <2>1. UNCHANGED <<emitted, terminal>>
    BY <1>2 DEF Stream!Advance
  <2>2. CASE /\ cursor[s] < emitted
             /\ cursor' = [cursor EXCEPT ![s] = @ + 1]
             /\ subscriber' = [subscriber EXCEPT ![s] = "host"]
             /\ UNCHANGED pulse
    BY <2>1, <2>2
  <2>3. CASE /\ subscriber' = [subscriber EXCEPT ![s] = "closed"]
             /\ UNCHANGED <<cursor, pulse>>
    BY <2>1, <2>3
  <2>4. CASE /\ cursor[s] = emitted /\ ~terminal
             /\ pulse' = FALSE
             /\ subscriber' = [subscriber EXCEPT ![s] = "waiting"]
             /\ UNCHANGED cursor
    BY <2>1, <2>4
  <2>5. QED
    BY <1>2, <2>2, <2>3, <2>4 DEF Stream!Advance, Stream!HasNext, Stream!Ended
<1>3. CASE UNCHANGED Stream!vars
  BY <1>3 DEF Stream!vars
<1>4. QED
  BY <1>1, <1>2, <1>3 DEF Stream!Next

\* For any number of subscribers, from any cursor: none sleeps on an event it was
\* not given, nor on a run that has ended (Run.events).
THEOREM EventsReachAll ==
  ASSUME MaxEvents \in Nat \ {0}
  PROVE  Stream!Spec => []EventsSound
<1>1. Stream!Init => Stream!EventsSound
  <2> SUFFICES ASSUME Stream!Init PROVE Stream!EventsSound
    OBVIOUS
  <2>1. /\ emitted = 1 /\ terminal = FALSE /\ pulse \in BOOLEAN
        /\ subscriber = [s \in Subscribers |-> "host"]
        /\ cursor \in [Subscribers -> 0..emitted]
    BY DEF Stream!Init
  <2>2. emitted \in 1..MaxEvents
    BY <2>1
  <2>3. QED
    BY <2>1, <2>2 DEF Stream!EventsSound, Stream!TypeOK, Stream!NoLostWakeup
<1>2. Stream!EventsSound /\ [Stream!Next]_Stream!vars => Stream!EventsSound'
  BY EventsStep
<1>3. QED
  BY <1>1, <1>2, PTL DEF EventsSound, Stream!Spec

-----------------------------------------------------------------------------
\* The content store.

\* Media types that a put brings; a put is no read.
Media == {Puts[j].media : j \in DOMAIN Puts}
StoreAssumption ==
  /\ DOMAIN Puts \cap DOMAIN Reads = {}
  /\ Artifacts!None \notin Media

\* Where a call is between its first step and its end.
Under == {"unlink", "open", "hash", "bytes", "close", "bind", "compare"}
Holding == {"hash", "bytes", "close"}    \* it has the file open

Files == [there : BOOLEAN, good : BOOLEAN, mark : Nat]
FileTypes ==
  /\ object \in [Artifacts!Contents -> Files]
  /\ bound \in [Artifacts!Refs -> Media \cup {Artifacts!None}]
  /\ verified \in [Artifacts!Contents -> Nat]
  /\ damage \in Nat \X Nat
Records == [at : {"new"} \cup Under \cup Artifacts!Ended, left : Nat, before : Nat,
            hashed : BOOLEAN, bytes : BOOLEAN, linked : BOOLEAN]
CallOf(j) ==
  /\ call[j].at = "new" => call[j] = Artifacts!New
  /\ call[j].at \in {"unlink", "bind", "compare"} => j \in DOMAIN Puts
  /\ call[j].linked => call[j].at = "unlink"
  /\ call[j].at \in Under => call[j].left > 0
CallTypes == call \in [Artifacts!Jobs -> Records] /\ \A j \in Artifacts!Jobs : CallOf(j)

\* A signature stands for the bytes it was taken of: files change together with
\* their signature, so that one verified once need not be read again.
SignedFile(c) ==
  /\ object[c].there => object[c].mark > 0
  /\ verified[c] <= object[c].mark
  /\ verified[c] > 0 /\ verified[c] = object[c].mark => object[c].good
SignedCall(j) == LET o == object[Artifacts!Content(j)] IN
  /\ call[j].at \in Holding => 0 < call[j].before /\ call[j].before <= o.mark
  /\ call[j].at \in {"bytes", "close"} /\ call[j].hashed /\ call[j].before = o.mark => o.good
  /\ call[j].at = "close" /\ call[j].before = o.mark => call[j].bytes = o.good
Signed == /\ \A c \in Artifacts!Contents : SignedFile(c)
          /\ \A j \in Artifacts!Jobs : SignedCall(j)

\* As long as nobody else touches the files: what is there is whole, and a call that
\* has come past the object, or reads a bound one, finds it there.
Published ==
  damage[1] = 0 =>
    /\ \A c \in Artifacts!Contents : object[c].there => object[c].good
    /\ \A j \in Artifacts!Jobs :
         call[j].at \in Under => object[Artifacts!Content(j)].there

\* As long as nobody else touches the files, the signature of one that is there
\* changes once at most: when the put that linked it drops the staged name.
OneLink ==
  \A i, j \in Artifacts!Jobs :
    call[i].linked /\ call[j].linked /\ Artifacts!Content(i) = Artifacts!Content(j) => i = j
Unlinked(c) == \A i \in Artifacts!Jobs : Artifacts!Content(i) = c => ~call[i].linked
\* The file was replaced since j opened it.
Overtaken(j) == call[j].at \in Holding /\ call[j].before # object[Artifacts!Content(j)].mark
Touch(j) ==
  call[j].at \in Under =>
    /\ call[j].left >= 2
    /\ call[j].left = 2 \/ Overtaken(j) => Unlinked(Artifacts!Content(j))
    /\ Overtaken(j) => call[j].left >= 3
OneTouch == damage[1] = 0 => OneLink /\ \A j \in Artifacts!Jobs : Touch(j)

\* A put that compares or has succeeded finds its key bound, the second to its own
\* description; bindings stay.
Described ==
  /\ \A j \in Artifacts!Jobs :
       call[j].at = "compare" => bound[Artifacts!Ref(j)] # Artifacts!None
  /\ \A j \in DOMAIN Puts :
       call[j].at = "ok" => bound[Artifacts!Ref(j)] = Puts[j].media

AInv ==
  /\ FileTypes /\ CallTypes /\ Signed /\ Published /\ OneTouch /\ Described
  /\ Artifacts!BoundContent /\ Artifacts!ReadsTrue /\ Artifacts!AttemptsSuffice

-----------------------------------------------------------------------------
\* The steps of the calls.

LEMMA JobTypes ==
  ASSUME NEW j \in Artifacts!Jobs
  PROVE  /\ Artifacts!Content(j) \in Artifacts!Contents
         /\ Artifacts!Ref(j) \in Artifacts!Refs
         /\ Artifacts!Ref(j)[2] = Artifacts!Content(j)
BY DEF Artifacts!Content, Artifacts!Contents, Artifacts!Ref, Artifacts!Refs

\* A step of one call leaves the others alone.
Alone(j) ==
  /\ call' \in [Artifacts!Jobs -> Records]
  /\ \A i \in Artifacts!Jobs : i # j => call'[i] = call[i]

LEMMA CallChanged ==
  ASSUME CallTypes, NEW j \in Artifacts!Jobs, NEW r \in Records, call' = [call EXCEPT ![j] = r]
  PROVE  Alone(j) /\ call'[j] = r
BY DEF CallTypes, Alone

\* Of the other calls nothing is new, unless their file changed.
LEMMA OthersKept ==
  ASSUME NEW j \in Artifacts!Jobs, Alone(j), NEW i \in Artifacts!Jobs, i # j
  PROVE  /\ CallOf(i) => CallOf(i)'
         /\ object' = object /\ SignedCall(i) => SignedCall(i)'
         /\ object' = object /\ Overtaken(i)' => Overtaken(i)
<1>1. call'[i] = call[i]
  BY DEF Alone
<1>2. CallOf(i) => CallOf(i)'
  BY <1>1 DEF CallOf
<1>3. object' = object /\ SignedCall(i) => SignedCall(i)'
  BY <1>1 DEF SignedCall
<1>4. object' = object /\ Overtaken(i)' => Overtaken(i)
  BY <1>1 DEF Overtaken
<1>5. QED
  BY <1>2, <1>3, <1>4

LEMMA CallTypesStep ==
  ASSUME CallTypes, NEW j \in Artifacts!Jobs, Alone(j), call'[j].at # "new",
         call'[j].at \in {"unlink", "bind", "compare"} => j \in DOMAIN Puts,
         call'[j].linked => call'[j].at = "unlink",
         call'[j].at \in Under => call'[j].left > 0
  PROVE  CallTypes'
<1>1. CallOf(j)'
  BY DEF CallOf
<1>2. \A i \in Artifacts!Jobs : CallOf(i)'
  BY <1>1, OthersKept DEF CallTypes
<1>3. QED
  BY <1>2 DEF CallTypes, Alone

\* No file changes: what holds of the call that moves is all there is to show.
LEMMA SignedStep ==
  ASSUME Signed, NEW j \in Artifacts!Jobs, Alone(j), object' = object, verified' = verified,
         SignedCall(j)'
  PROVE  Signed'
<1>1. \A i \in Artifacts!Jobs : SignedCall(i)'
  BY OthersKept DEF Signed
<1>2. \A c \in Artifacts!Contents : SignedFile(c)'
  BY DEF Signed, SignedFile
<1>3. QED
  BY <1>1, <1>2 DEF Signed

LEMMA TouchStep ==
  ASSUME OneTouch, NEW j \in Artifacts!Jobs, Alone(j), object' = object, damage' = damage,
         call'[j].linked => call[j].linked,
         damage[1] = 0 /\ OneLink /\ (\A i \in Artifacts!Jobs : Touch(i)) => Touch(j)'
  PROVE  OneTouch'
<1> SUFFICES ASSUME damage[1] = 0
             PROVE  OneLink' /\ \A i \in Artifacts!Jobs : Touch(i)'
  BY DEF OneTouch
<1>1. \A i \in Artifacts!Jobs : call'[i].linked => call[i].linked
  BY DEF Alone
<1>2. OneLink'
  BY <1>1 DEF OneTouch, OneLink
<1>3. \A c : Unlinked(c) => Unlinked(c)'
  BY <1>1 DEF Unlinked
<1>4. ASSUME NEW i \in Artifacts!Jobs, i # j
      PROVE  Touch(i)'
  <2>1. call'[i] = call[i] /\ Touch(i) /\ (Overtaken(i)' => Overtaken(i))
    BY <1>4, OthersKept DEF OneTouch, Alone
  <2>2. QED
    BY <2>1, <1>3 DEF Touch
<1>5. QED
  BY <1>2, <1>4 DEF OneTouch

\* What the invariant says of one call.
LEMMA CallFacts ==
  ASSUME AInv, NEW j \in Artifacts!Jobs
  PROVE  /\ call[j] \in Records /\ CallOf(j) /\ SignedCall(j)
         /\ Artifacts!Content(j) \in Artifacts!Contents /\ SignedFile(Artifacts!Content(j))
         /\ object[Artifacts!Content(j)] \in Files
         /\ bound \in [Artifacts!Refs -> Media \cup {Artifacts!None}]
         /\ damage[1] = 0 => OneLink /\ Touch(j)
BY JobTypes DEF AInv, FileTypes, CallTypes, Signed, OneTouch

\* A step that changes no file and leaves what the call holds of one.
LEMMA PlaceStep ==
  ASSUME StoreAssumption, AInv, NEW j \in Artifacts!Jobs, UNCHANGED <<object, verified, damage>>,
         NEW to \in {"open", "compare", "missing", "corrupt", "ok", "conflict", "failed"},
         call' = [call EXCEPT ![j].at = to], ~call[j].linked,
         call[j].at \in {"new", "bind", "compare", "close"},
         bound' \in [Artifacts!Refs -> Media \cup {Artifacts!None}],
         \A r \in Artifacts!Refs : bound[r] # Artifacts!None => bound'[r] = bound[r],
         \A r \in Artifacts!Refs : bound[r] = Artifacts!None /\ bound'[r] # Artifacts!None =>
           r = Artifacts!Ref(j) /\ call[j].at = "bind",
         to = "open" => call[j].at = "new" /\ bound[Artifacts!Ref(j)] # Artifacts!None,
         to = "compare" => call[j].at = "bind" /\ bound'[Artifacts!Ref(j)] # Artifacts!None,
         to \in {"ok", "compare"} => call[j].bytes,
         to = "ok" => (j \in DOMAIN Puts => bound'[Artifacts!Ref(j)] = Puts[j].media)
  PROVE  AInv'
<1> USE DEF AInv
<1>0. call[j] \in Records /\ CallOf(j)
  BY DEF CallTypes
<1>1. PICK r \in Records : /\ r = [call[j] EXCEPT !.at = to] /\ r.at = to /\ r.left = call[j].left
                           /\ r.bytes = call[j].bytes /\ r.linked = FALSE
  <2>1. [call[j] EXCEPT !.at = to] \in Records
    BY <1>0 DEF Records, Under, Artifacts!Ended
  <2>2. LET r == [call[j] EXCEPT !.at = to] IN
          r.at = to /\ r.left = call[j].left /\ r.bytes = call[j].bytes /\ r.linked = call[j].linked
    BY <1>0 DEF Records
  <2>3. call[j].linked = FALSE
    BY <1>0 DEF Records
  <2>4. QED
    BY <2>1, <2>2, <2>3
<1>2. Alone(j) /\ call'[j] = r
  <2>1. call' = [call EXCEPT ![j] = r]
    BY <1>1
  <2>2. QED
    BY <2>1, CallChanged
<1>2a. /\ call'[j].at = to /\ call'[j].left = call[j].left /\ call'[j].bytes = call[j].bytes
       /\ call'[j].linked = FALSE
  BY <1>1, <1>2
<1>3. FileTypes'
  BY DEF FileTypes
<1>4. CallTypes'
  <2>1. call[j].left > 0
    BY <1>0 DEF CallOf, Under, Artifacts!New, Artifacts!Attempts
  <2>2. to = "compare" => j \in DOMAIN Puts
    BY <1>0 DEF CallOf
  <2>3. QED
    BY <1>2, <1>2a, <2>1, <2>2, CallTypesStep
<1>5. Signed'
  <2>1. SignedCall(j)'
    BY <1>2a DEF SignedCall, Holding
  <2>2. QED
    BY <1>2, <2>1, SignedStep
<1>6. Published'
  <2>1. to = "open" /\ damage[1] = 0 => object[Artifacts!Content(j)].there
    BY JobTypes DEF Artifacts!BoundContent
  <2>2. QED
    BY <1>2, <1>2a, <2>1 DEF Published, Alone, Under
<1>7. OneTouch'
  <2>1. to = "open" => call[j].left = 3
    BY <1>0 DEF CallOf, Artifacts!New, Artifacts!Attempts
  <2>2. ~Overtaken(j)'
    BY <1>2a DEF Overtaken, Holding
  <2>3. ASSUME damage[1] = 0, OneLink, \A i \in Artifacts!Jobs : Touch(i)
        PROVE  Touch(j)'
    <3>1. Unlinked(Artifacts!Content(j)) => Unlinked(Artifacts!Content(j))'
      BY <1>2, <1>2a DEF Unlinked, Alone
    <3>2. CASE to = "open"
      BY <1>2a, <2>1, <2>2, <3>2 DEF Touch
    <3>3. CASE to = "compare"
      <4>1. Touch(j) /\ call[j].at \in Under
        BY <2>3, <3>3 DEF Under
      <4>2. QED
        BY <1>2a, <2>2, <3>1, <4>1 DEF Touch
    <3>4. CASE to \notin {"open", "compare"}
      BY <1>2a, <3>4 DEF Touch, Under
    <3>5. QED
      BY <3>2, <3>3, <3>4
  <2>4. QED
    BY <1>2, <1>2a, <2>3, TouchStep
<1>8. Described'
  <2>1. \A i \in Artifacts!Jobs : Artifacts!Ref(i) \in Artifacts!Refs
    BY JobTypes
  <2>2. DOMAIN Puts \subseteq Artifacts!Jobs
    BY DEF Artifacts!Jobs
  <2>3. ASSUME NEW i \in DOMAIN Puts, call[i].at = "ok"
        PROVE  bound'[Artifacts!Ref(i)] = Puts[i].media
    <3>1. bound[Artifacts!Ref(i)] = Puts[i].media
      BY <2>3 DEF Described
    <3>2. Puts[i].media # Artifacts!None
      BY DEF StoreAssumption, Media
    <3>3. QED
      BY <2>1, <2>2, <3>1, <3>2
  <2>4. QED
    BY <1>2, <1>2a, <2>1, <2>2, <2>3 DEF Described, Alone
<1>9. Artifacts!BoundContent'
  <2>1. call[j].at = "bind" /\ damage[1] = 0 =>
          object[Artifacts!Content(j)].there /\ object[Artifacts!Content(j)].good
    BY JobTypes DEF Published, Under
  <2>2. ASSUME NEW x \in Artifacts!Refs, bound'[x] # Artifacts!None, damage[1] = 0
        PROVE  object[x[2]].there /\ object[x[2]].good
    BY <2>1, <2>2, JobTypes DEF Artifacts!BoundContent
  <2>3. QED
    BY <2>2 DEF Artifacts!BoundContent
<1>10. Artifacts!ReadsTrue'
  BY <1>2, <1>2a DEF Artifacts!ReadsTrue, Alone
<1>11. Artifacts!AttemptsSuffice'
  BY <1>2, <1>2a DEF Artifacts!AttemptsSuffice, Alone
<1>12. QED
  BY <1>3, <1>4, <1>5, <1>6, <1>7, <1>8, <1>9, <1>10, <1>11

LEMMA LookupStep ==
  ASSUME StoreAssumption, AInv, NEW j \in Artifacts!Jobs, Artifacts!Lookup(j)
  PROVE  AInv'
<1> DEFINE to == IF bound[Artifacts!Ref(j)] = Artifacts!None THEN "missing" ELSE "open"
<1>1. call[j].at = "new" /\ call' = [call EXCEPT ![j].at = to]
      /\ UNCHANGED <<object, bound, verified, damage>>
  BY DEF Artifacts!Lookup, Artifacts!To
<1>2. ~call[j].linked
  BY <1>1, CallFacts DEF CallOf
<1>3. bound \in [Artifacts!Refs -> Media \cup {Artifacts!None}]
  BY CallFacts
<1>4. to \in {"missing", "open"} /\ (to = "open" => bound[Artifacts!Ref(j)] # Artifacts!None)
  OBVIOUS
<1> HIDE DEF to
<1>5. QED
  BY <1>1, <1>2, <1>3, <1>4, PlaceStep

LEMMA RefuseStep ==
  ASSUME StoreAssumption, AInv, NEW j \in Artifacts!Jobs, Artifacts!Refuse(j)
  PROVE  AInv'
<1>1. call[j].at = "new" /\ call' = [call EXCEPT ![j].at = "failed"]
      /\ UNCHANGED <<object, bound, verified, damage>>
  BY DEF Artifacts!Refuse, Artifacts!To
<1>2. ~call[j].linked /\ bound \in [Artifacts!Refs -> Media \cup {Artifacts!None}]
  BY <1>1, CallFacts DEF CallOf
<1>3. QED
  BY <1>1, <1>2, PlaceStep

LEMMA BindStep ==
  ASSUME StoreAssumption, AInv, NEW j \in Artifacts!Jobs, NEW fails \in BOOLEAN,
         Artifacts!Bind(j, fails)
  PROVE  AInv'
<1> DEFINE to == IF fails THEN "failed" ELSE "compare"
<1>1. /\ call[j].at = "bind" /\ call' = [call EXCEPT ![j].at = to]
      /\ UNCHANGED <<object, verified, damage>>
      /\ bound' = IF bound[Artifacts!Ref(j)] = Artifacts!None
                    THEN [bound EXCEPT ![Artifacts!Ref(j)] = Artifacts!Want(j).media] ELSE bound
  BY DEF Artifacts!Bind, Artifacts!To
<1>2. ~call[j].linked /\ j \in DOMAIN Puts
      /\ bound \in [Artifacts!Refs -> Media \cup {Artifacts!None}]
  BY <1>1, CallFacts DEF CallOf
<1>3. Artifacts!Want(j).media \in Media /\ Artifacts!Ref(j) \in Artifacts!Refs
  BY <1>2, JobTypes DEF Artifacts!Want, Media
<1>4. /\ bound' \in [Artifacts!Refs -> Media \cup {Artifacts!None}]
      /\ \A r \in Artifacts!Refs : bound[r] # Artifacts!None => bound'[r] = bound[r]
      /\ \A r \in Artifacts!Refs : bound[r] = Artifacts!None /\ bound'[r] # Artifacts!None =>
           r = Artifacts!Ref(j)
      /\ bound'[Artifacts!Ref(j)] # Artifacts!None
  BY <1>1, <1>2, <1>3 DEF StoreAssumption
<1>5. to \in {"failed", "compare"}
  OBVIOUS
<1> HIDE DEF to
<1>6. call[j].bytes
  BY <1>1 DEF AInv, Artifacts!ReadsTrue
<1>7. QED
  BY <1>1, <1>2, <1>4, <1>5, <1>6, PlaceStep

LEMMA CompareStep ==
  ASSUME StoreAssumption, AInv, NEW j \in Artifacts!Jobs, Artifacts!Compare(j)
  PROVE  AInv'
<1> DEFINE to == IF Artifacts!Agrees(j) THEN "ok" ELSE "conflict"
<1>1. call[j].at = "compare" /\ call' = [call EXCEPT ![j].at = to]
      /\ UNCHANGED <<object, bound, verified, damage>>
  BY DEF Artifacts!Compare, Artifacts!To
<1>2. ~call[j].linked /\ bound \in [Artifacts!Refs -> Media \cup {Artifacts!None}]
      /\ j \in DOMAIN Puts /\ call[j].bytes
  <2>1. call[j].bytes
    BY <1>1 DEF AInv, Artifacts!ReadsTrue
  <2>2. QED
    BY <1>1, <2>1, CallFacts DEF CallOf
<1>3. to \in {"ok", "conflict"} /\ (to = "ok" => bound[Artifacts!Ref(j)] = Puts[j].media)
  BY <1>2 DEF Artifacts!Agrees, Artifacts!Want
<1> HIDE DEF to
<1>4. QED
  BY <1>1, <1>2, <1>3, PlaceStep

\* What a call may change that works on the file it has open.
CallMoves(j) ==
  /\ Alone(j) /\ call[j].at \in {"open"} \cup Holding
  /\ call'[j].at \in {"open", "corrupt"} \cup Holding
  /\ call'[j].linked = FALSE /\ call'[j].left > 0
\* What it has learnt of the file is true of it.
HoldsTrue(j) == LET o == object[Artifacts!Content(j)] IN
  /\ call'[j].at \in Holding => 0 < call'[j].before /\ call'[j].before <= o.mark
  /\ call'[j].at \in {"bytes", "close"} /\ call'[j].hashed /\ call'[j].before = o.mark => o.good
  /\ call'[j].at = "close" /\ call'[j].before = o.mark => call'[j].bytes = o.good
\* Attempts are lost only to changes of the file, and those only to damage.
AttemptsKept(j) ==
  damage[1] = 0 =>
    /\ call'[j].left >= 2
    /\ call'[j].left = 2 /\ call[j].left # 2 => Unlinked(Artifacts!Content(j))
    /\ call'[j].at \in Holding /\ call'[j].before # object[Artifacts!Content(j)].mark =>
         call[j].at \in Holding /\ call[j].before = call'[j].before /\ call'[j].left = call[j].left

LEMMA HoldStep ==
  ASSUME AInv, NEW j \in Artifacts!Jobs, UNCHANGED <<object, bound, verified, damage>>,
         CallMoves(j), HoldsTrue(j), AttemptsKept(j)
  PROVE  AInv'
<1> USE DEF AInv
<1>1. /\ Alone(j) /\ call[j].at \in Under /\ call[j].linked = FALSE
      /\ call'[j].at \in {"open", "corrupt"} \cup Holding /\ call'[j].linked = FALSE
      /\ call'[j].left > 0
  BY DEF CallTypes, CallOf, Under, Holding, Records, CallMoves
<1>2. FileTypes'
  BY DEF FileTypes
<1>3. CallTypes'
  BY <1>1, CallTypesStep DEF Holding
<1>4. Signed'
  <2>1. SignedCall(j)'
    BY DEF SignedCall, HoldsTrue
  <2>2. QED
    BY <1>1, <2>1, SignedStep
<1>5. Published'
  BY <1>1 DEF Published, Alone, Under
<1>6. OneTouch'
  <2>1. ASSUME damage[1] = 0, OneLink, \A i \in Artifacts!Jobs : Touch(i)
        PROVE  Touch(j)'
    <3>1. Unlinked(Artifacts!Content(j)) => Unlinked(Artifacts!Content(j))'
      BY <1>1 DEF Unlinked, Alone
    <3>2. Overtaken(j)' => Overtaken(j) /\ call'[j].left = call[j].left
      BY <2>1 DEF Overtaken, AttemptsKept
    <3>3. Touch(j) /\ call[j].at \in Under
      BY <1>1, <2>1
    <3>4. QED
      BY <2>1, <3>1, <3>2, <3>3 DEF Touch, AttemptsKept
  <2>2. QED
    BY <1>1, <2>1, TouchStep
<1>7. Described'
  <2>1. DOMAIN Puts \subseteq Artifacts!Jobs
    BY DEF Artifacts!Jobs
  <2>2. QED
    BY <1>1, <2>1 DEF Described, Alone, Holding
<1>8. Artifacts!BoundContent'
  BY DEF Artifacts!BoundContent
<1>9. Artifacts!ReadsTrue'
  BY <1>1 DEF Artifacts!ReadsTrue, Alone, Holding
<1>10. Artifacts!AttemptsSuffice'
  BY <1>1 DEF Artifacts!AttemptsSuffice, Alone, Holding
<1>11. QED
  BY <1>2, <1>3, <1>4, <1>5, <1>6, <1>7, <1>8, <1>9, <1>10

LEMMA OpenStep ==
  ASSUME AInv, NEW j \in Artifacts!Jobs, Artifacts!Open(j)
  PROVE  AInv'
<1> DEFINE c == Artifacts!Content(j)
<1>1. call[j].at = "open" /\ UNCHANGED <<object, bound, verified, damage>>
  BY DEF Artifacts!Open
<1>2. c \in Artifacts!Contents /\ call[j] \in Records /\ object[c].mark \in Nat
      /\ ~call[j].linked /\ call[j].left > 0
  BY <1>1, CallFacts DEF CallOf, Under, Files
<1>3. CASE ~object[c].there
  <2>1. call' = [call EXCEPT ![j].at = "corrupt"]
    BY <1>3 DEF Artifacts!Open
  <2>2. Alone(j) /\ call'[j] = [call[j] EXCEPT !.at = "corrupt"]
    BY <2>1, <1>2 DEF AInv, CallTypes, Alone, Records, Artifacts!Ended
  <2>3. call'[j].at = "corrupt" /\ call'[j].left = call[j].left /\ call'[j].linked = FALSE
    BY <2>2, <1>2 DEF Records
  <2>4. damage[1] # 0
    BY <1>1, <1>3 DEF AInv, Published, Under
  <2>5. CallMoves(j) /\ HoldsTrue(j) /\ AttemptsKept(j)
    BY <1>1, <1>2, <2>2, <2>3, <2>4 DEF CallMoves, HoldsTrue, AttemptsKept, Holding
  <2>6. QED
    BY <1>1, <2>5, HoldStep
<1>4. CASE object[c].there
  <2> DEFINE to == IF Artifacts!Known(c) THEN "bytes" ELSE "hash"
  <2>1. call' = [call EXCEPT ![j].at = to, ![j].before = object[c].mark, ![j].hashed = TRUE]
    BY <1>4 DEF Artifacts!Open
  <2>2. to \in {"bytes", "hash"}
    OBVIOUS
  <2>3. /\ Alone(j)
        /\ call'[j] = [[[call[j] EXCEPT !.at = to] EXCEPT !.before = object[c].mark] EXCEPT !.hashed = TRUE]
    BY <2>1, <2>2, <1>2 DEF AInv, CallTypes, Alone, Records, Under
  <2>4. /\ call'[j].at = to /\ call'[j].before = object[c].mark /\ call'[j].left = call[j].left
        /\ call'[j].linked = FALSE
    BY <2>3, <1>2 DEF Records
  <2>5. object[c].mark > 0 /\ (to = "bytes" => object[c].good)
    BY <1>2, <1>4, CallFacts DEF SignedFile, Artifacts!Known
  <2>6. damage[1] = 0 => call[j].left >= 2
    BY <1>1, CallFacts DEF Touch, Under
  <2> HIDE DEF to
  <2>7. CallMoves(j)
    BY <1>1, <1>2, <2>2, <2>3, <2>4 DEF CallMoves, Holding
  <2>8. HoldsTrue(j)
    BY <1>2, <2>2, <2>4, <2>5 DEF HoldsTrue, Holding
  <2>9. AttemptsKept(j)
    BY <2>4, <2>6 DEF AttemptsKept
  <2>10. QED
    BY <1>1, <2>7, <2>8, <2>9, HoldStep
<1>5. QED
  BY <1>3, <1>4

LEMMA HashStep ==
  ASSUME AInv, NEW j \in Artifacts!Jobs, Artifacts!Hash(j)
  PROVE  AInv'
<1> DEFINE o == object[Artifacts!Content(j)]
<1>1. /\ call[j].at = "hash" /\ UNCHANGED <<object, bound, verified, damage>>
      /\ call' = [call EXCEPT ![j].at = "bytes", ![j].hashed = o.good]
  BY DEF Artifacts!Hash
<1>2. /\ call[j] \in Records /\ o.good \in BOOLEAN /\ ~call[j].linked /\ call[j].left > 0
      /\ 0 < call[j].before /\ call[j].before <= o.mark
      /\ damage[1] = 0 => call[j].left >= 2
  <2>1. call[j].at \in Under /\ call[j].at \in Holding
    BY <1>1 DEF Under, Holding
  <2>2. CallOf(j) /\ SignedCall(j) /\ (damage[1] = 0 => Touch(j))
    BY CallFacts
  <2>3. call[j] \in Records /\ object[Artifacts!Content(j)] \in Files
    BY CallFacts
  <2>4. o.good \in BOOLEAN
    BY <2>3 DEF Files
  <2>5. QED
    BY <1>1, <2>1, <2>2, <2>3, <2>4 DEF CallOf, SignedCall, Touch
<1>3. Alone(j) /\ call'[j] = [[call[j] EXCEPT !.at = "bytes"] EXCEPT !.hashed = o.good]
  BY <1>1, <1>2 DEF AInv, CallTypes, Alone, Records, Under
<1>4. /\ call'[j].at = "bytes" /\ call'[j].before = call[j].before /\ call'[j].left = call[j].left
      /\ call'[j].linked = FALSE /\ call'[j].hashed = o.good
  BY <1>2, <1>3 DEF Records
<1>5. CallMoves(j)
  BY <1>1, <1>2, <1>3, <1>4 DEF CallMoves, Holding
<1>6. HoldsTrue(j)
  BY <1>1, <1>2, <1>4 DEF HoldsTrue, Holding
<1>7. AttemptsKept(j)
  BY <1>1, <1>2, <1>4 DEF AttemptsKept, Holding
<1>8. QED
  BY <1>1, <1>5, <1>6, <1>7, HoldStep

LEMMA ReadBytesStep ==
  ASSUME AInv, NEW j \in Artifacts!Jobs, Artifacts!ReadBytes(j)
  PROVE  AInv'
<1> DEFINE o == object[Artifacts!Content(j)]
<1>1. /\ call[j].at = "bytes" /\ UNCHANGED <<object, bound, verified, damage>>
      /\ call' = [call EXCEPT ![j].at = "close", ![j].bytes = o.good]
  BY DEF Artifacts!ReadBytes
<1>2. /\ call[j] \in Records /\ o.good \in BOOLEAN /\ ~call[j].linked /\ call[j].left > 0
      /\ 0 < call[j].before /\ call[j].before <= o.mark
      /\ call[j].hashed /\ call[j].before = o.mark => o.good
      /\ damage[1] = 0 => call[j].left >= 2
  <2>1. call[j].at \in Under /\ call[j].at \in Holding
    BY <1>1 DEF Under, Holding
  <2>2. CallOf(j) /\ SignedCall(j) /\ (damage[1] = 0 => Touch(j))
    BY CallFacts
  <2>3. call[j] \in Records /\ object[Artifacts!Content(j)] \in Files
    BY CallFacts
  <2>4. o.good \in BOOLEAN
    BY <2>3 DEF Files
  <2>5. QED
    BY <1>1, <2>1, <2>2, <2>3, <2>4 DEF CallOf, SignedCall, Touch
<1>3. Alone(j) /\ call'[j] = [[call[j] EXCEPT !.at = "close"] EXCEPT !.bytes = o.good]
  BY <1>1, <1>2 DEF AInv, CallTypes, Alone, Records, Under
<1>4. /\ call'[j].at = "close" /\ call'[j].before = call[j].before /\ call'[j].left = call[j].left
      /\ call'[j].linked = FALSE /\ call'[j].hashed = call[j].hashed /\ call'[j].bytes = o.good
  BY <1>2, <1>3 DEF Records
<1>5. CallMoves(j)
  BY <1>1, <1>2, <1>3, <1>4 DEF CallMoves, Holding
<1>6. HoldsTrue(j)
  BY <1>1, <1>2, <1>4 DEF HoldsTrue, Holding
<1>7. AttemptsKept(j)
  BY <1>1, <1>2, <1>4 DEF AttemptsKept, Holding
<1>8. QED
  BY <1>1, <1>5, <1>6, <1>7, HoldStep

LEMMA CloseStep ==
  ASSUME StoreAssumption, AInv, NEW j \in Artifacts!Jobs, Artifacts!Close(j)
  PROVE  AInv'
<1> DEFINE c == Artifacts!Content(j)
           o == object[c]
<1>1. call[j].at = "close" /\ UNCHANGED <<object, bound, damage>>
  BY DEF Artifacts!Close
<1>2. /\ call[j] \in Records /\ ~call[j].linked /\ call[j].left > 0 /\ c \in Artifacts!Contents
      /\ 0 < call[j].before /\ call[j].before <= o.mark
      /\ call[j].hashed /\ call[j].before = o.mark => o.good
      /\ call[j].before = o.mark => call[j].bytes = o.good
      /\ damage[1] = 0 => call[j].left >= 2
      /\ damage[1] = 0 /\ call[j].before # o.mark =>
           /\ call[j].left >= 3
           /\ Unlinked(c)
      /\ bound \in [Artifacts!Refs -> Media \cup {Artifacts!None}]
  <2>1. call[j].at \in Under /\ call[j].at \in Holding
    BY <1>1 DEF Under, Holding
  <2>2. CallOf(j) /\ SignedCall(j) /\ (damage[1] = 0 => Touch(j)) /\ call[j] \in Records
    BY CallFacts
  <2>3. damage[1] = 0 /\ call[j].before # o.mark => Overtaken(j)
    BY <2>1 DEF Overtaken
  <2>4. damage[1] = 0 /\ call[j].before # o.mark => call[j].left >= 3 /\ Unlinked(c)
    BY <2>1, <2>2, <2>3 DEF Touch
  <2>5. QED
    BY <1>1, <2>1, <2>2, <2>4, CallFacts DEF CallOf, SignedCall, Touch, Unlinked
<1>3. CASE ~Artifacts!Unchanged(j) /\ call[j].left # 1
  <2>1. call' = [call EXCEPT ![j].left = @ - 1, ![j].at = "open"] /\ verified' = verified
    BY <1>3 DEF Artifacts!Close
  <2>2. Alone(j) /\ call'[j] = [[call[j] EXCEPT !.left = call[j].left - 1] EXCEPT !.at = "open"]
    <3>1. call[j].left \in Nat /\ call[j].left - 1 \in Nat
      BY <1>2 DEF Records
    <3>2. [[call[j] EXCEPT !.left = call[j].left - 1] EXCEPT !.at = "open"] \in Records
      BY <1>2, <3>1 DEF Records, Under
    <3>3. call' = [call EXCEPT ![j] = [[call[j] EXCEPT !.left = call[j].left - 1] EXCEPT !.at = "open"]]
      BY <2>1
    <3>4. QED
      BY <3>2, <3>3, CallChanged DEF AInv
  <2>3. call'[j].at = "open" /\ call'[j].left = call[j].left - 1 /\ call'[j].linked = FALSE
    BY <1>2, <2>2 DEF Records
  <2>4. call[j].before # o.mark /\ call[j].left \in Nat
    BY <1>2, <1>3 DEF Artifacts!Unchanged, Records
  <2>5. CallMoves(j)
    BY <1>1, <1>2, <1>3, <2>2, <2>3, <2>4 DEF CallMoves, Holding
  <2>6. HoldsTrue(j)
    BY <2>3 DEF HoldsTrue, Holding
  <2>7. AttemptsKept(j)
    BY <1>2, <2>3, <2>4 DEF AttemptsKept, Holding
  <2>8. QED
    BY <1>1, <2>1, <2>5, <2>6, <2>7, HoldStep
<1>4. CASE ~Artifacts!Unchanged(j) /\ call[j].left = 1
  <2>1. call' = [call EXCEPT ![j].left = @ - 1, ![j].at = "changing"] /\ verified' = verified
    BY <1>1, <1>4 DEF Artifacts!Close
  <2>2. Alone(j) /\ call'[j] = [[call[j] EXCEPT !.left = 0] EXCEPT !.at = "changing"]
    <3>1. [[call[j] EXCEPT !.left = 0] EXCEPT !.at = "changing"] \in Records
      BY <1>2 DEF Records, Artifacts!Ended
    <3>2. call' = [call EXCEPT ![j] = [[call[j] EXCEPT !.left = 0] EXCEPT !.at = "changing"]]
      <4>1. call[j].left - 1 = 0
        BY <1>4
      <4>2. call' = [call EXCEPT ![j] = [[call[j] EXCEPT !.left = call[j].left - 1] EXCEPT !.at = "changing"]]
        BY <2>1
      <4>3. QED
        BY <4>1, <4>2
    <3>3. QED
      BY <3>1, <3>2, CallChanged DEF AInv
  <2>3. call'[j].at = "changing" /\ call'[j].linked = FALSE
    BY <1>2, <2>2 DEF Records
  <2>4. damage[1] # 0 /\ damage[1] \in Nat
    BY <1>2, <1>4 DEF AInv, FileTypes
  <2> USE DEF AInv
  <2>5. FileTypes'
    BY <1>1, <2>1 DEF FileTypes
  <2>6. CallTypes'
    BY <2>2, <2>3, CallTypesStep DEF Under
  <2>7. Signed'
    <3>1. SignedCall(j)'
      BY <2>3 DEF SignedCall, Holding
    <3>2. QED
      BY <1>1, <2>1, <2>2, <3>1, SignedStep
  <2>8. Published' /\ OneTouch' /\ Artifacts!BoundContent'
    BY <1>1, <2>4 DEF Published, OneTouch, Artifacts!BoundContent
  <2>9. Described'
    BY <1>1, <2>2, <2>3 DEF Described, Alone, Artifacts!Jobs
  <2>10. Artifacts!ReadsTrue' /\ Artifacts!AttemptsSuffice'
    <3>1. damage'[1] > 0
      BY <1>1, <2>4
    <3>2. QED
      BY <2>2, <2>3, <3>1 DEF Artifacts!ReadsTrue, Artifacts!AttemptsSuffice, Alone
  <2>11. QED
    BY <2>5, <2>6, <2>7, <2>8, <2>9, <2>10
<1>5. CASE Artifacts!Unchanged(j) /\ ~call[j].hashed
  <2>1. call' = [call EXCEPT ![j].at = "corrupt"] /\ verified' = verified
    BY <1>5 DEF Artifacts!Close, Artifacts!To
  <2>2. QED
    BY <1>1, <1>2, <2>1, PlaceStep
<1>6. CASE Artifacts!Unchanged(j) /\ call[j].hashed
  <2> DEFINE to == IF Artifacts!Put(j) THEN "bind" ELSE "ok"
  <2>1. /\ call' = [call EXCEPT ![j].at = to]
        /\ verified' = [verified EXCEPT ![c] = call[j].before]
    BY <1>6 DEF Artifacts!Close, Artifacts!To
  <2>2. call[j].before = o.mark /\ o.good /\ call[j].bytes
    BY <1>2, <1>6 DEF Artifacts!Unchanged
  <2>3. Alone(j) /\ call'[j] = [call[j] EXCEPT !.at = to]
    BY <2>1, <1>2 DEF AInv, CallTypes, Alone, Records, Under, Artifacts!Ended
  <2>4. /\ call'[j].at = to /\ call'[j].left = call[j].left /\ call'[j].linked = FALSE
        /\ call'[j].bytes
    BY <1>2, <2>2, <2>3 DEF Records
  <2>5. to \in {"bind", "ok"} /\ (to = "bind" <=> j \in DOMAIN Puts)
    BY DEF Artifacts!Put
  <2> HIDE DEF to
  <2> USE DEF AInv
  <2>6. FileTypes'
    BY <1>1, <1>2, <2>1 DEF FileTypes, Records
  <2>7. CallTypes'
    BY <1>2, <2>3, <2>4, <2>5, CallTypesStep
  <2>8. Signed'
    <3>1. verified'[c] = o.mark /\ \A x \in Artifacts!Contents : x # c => verified'[x] = verified[x]
      BY <1>2, <2>1, <2>2 DEF FileTypes
    <3>2. o \in Files
      BY CallFacts
    <3>3. SignedFile(c)'
      BY <1>1, <1>2, <2>2, <3>1, <3>2, CallFacts DEF SignedFile, Files
    <3>4. \A x \in Artifacts!Contents : x # c => SignedFile(x)'
      BY <1>1, <3>1 DEF Signed, SignedFile
    <3>5. SignedCall(j)'
      BY <2>4, <2>5 DEF SignedCall, Holding
    <3>6. \A i \in Artifacts!Jobs : SignedCall(i)'
      BY <1>1, <2>3, <3>5, OthersKept DEF Signed
    <3>7. QED
      BY <3>3, <3>4, <3>6 DEF Signed
  <2>9. Published'
    BY <1>1, <2>3, <2>4, <2>5 DEF Published, Alone, Under
  <2>10. OneTouch'
    <3>1. ASSUME damage[1] = 0, OneLink, \A i \in Artifacts!Jobs : Touch(i)
          PROVE  Touch(j)'
      <4>1. ~Overtaken(j)'
        BY <2>4, <2>5 DEF Overtaken, Holding
      <4>2. Unlinked(c) => Unlinked(c)'
        BY <2>3, <2>4 DEF Unlinked, Alone
      <4>3. Touch(j) /\ call[j].at \in Under
        BY <1>1, <3>1 DEF Under
      <4>4. QED
        BY <2>4, <4>1, <4>2, <4>3 DEF Touch
    <3>2. QED
      BY <1>1, <2>3, <2>4, <3>1, TouchStep
  <2>11. Described'
    BY <1>1, <2>3, <2>4, <2>5 DEF Described, Alone, Artifacts!Jobs
  <2>12. Artifacts!BoundContent'
    BY <1>1 DEF Artifacts!BoundContent
  <2>13. Artifacts!ReadsTrue' /\ Artifacts!AttemptsSuffice'
    BY <1>1, <2>3, <2>4, <2>5 DEF Artifacts!ReadsTrue, Artifacts!AttemptsSuffice, Alone
  <2>14. QED
    BY <2>6, <2>7, <2>8, <2>9, <2>10, <2>11, <2>12, <2>13
<1>7. QED
  BY <1>3, <1>4, <1>5, <1>6

-----------------------------------------------------------------------------
\* The steps that change a file.

\* A file and its signature change together, so that no signature held is one of a
\* file that changed.
LEMMA MarkedStep ==
  ASSUME AInv, NEW c \in Artifacts!Contents, verified' = verified,
         \A x \in Artifacts!Contents : x # c => object'[x] = object[x],
         \/ object'[c].mark = object[c].mark + 1
         \/ object'[c].mark = object[c].mark /\ object'[c].good = object[c].good
              /\ object'[c].there = object[c].there,
         \A i \in Artifacts!Jobs : call'[i] = call[i] \/ SignedCall(i)'
  PROVE  Signed'
<1>1. object[c] \in Files /\ object[c].mark \in Nat /\ verified[c] \in Nat /\ SignedFile(c)
  BY DEF AInv, FileTypes, Files, Signed
<1>2. SignedFile(c)'
  BY <1>1 DEF SignedFile
<1>3. \A x \in Artifacts!Contents : x # c => SignedFile(x)'
  BY DEF AInv, Signed, SignedFile
<1>4. ASSUME NEW i \in Artifacts!Jobs, call'[i] = call[i]
      PROVE  SignedCall(i)'
  <2>1. Artifacts!Content(i) \in Artifacts!Contents /\ SignedCall(i) /\ call[i] \in Records
    BY CallFacts
  <2>2. call[i].before \in Nat
    BY <2>1 DEF Records
  <2>3. CASE Artifacts!Content(i) = c
    <3>1. CASE object'[c].mark = object[c].mark + 1
      <4>1. call[i].at \in Holding =>
              call[i].before <= object'[c].mark /\ call[i].before # object'[c].mark
        BY <1>1, <2>1, <2>2, <2>3, <3>1 DEF SignedCall
      <4>2. QED
        BY <1>4, <2>1, <2>3, <4>1 DEF SignedCall, Holding
    <3>2. CASE object'[c].mark = object[c].mark /\ object'[c].good = object[c].good
      BY <1>4, <2>1, <2>3, <3>2 DEF SignedCall
    <3>3. QED
      BY <3>1, <3>2
  <2>4. CASE Artifacts!Content(i) # c
    BY <1>4, <2>1, <2>4 DEF SignedCall
  <2>5. QED
    BY <2>3, <2>4
<1>5. QED
  BY <1>2, <1>3, <1>4 DEF Signed

LEMMA LinkObjectStep ==
  ASSUME AInv, NEW j \in Artifacts!Jobs, Artifacts!LinkObject(j)
  PROVE  AInv'
<1> DEFINE c == Artifacts!Content(j)
<1>1. call[j].at = "new" /\ j \in DOMAIN Puts /\ UNCHANGED <<bound, verified, damage>>
  BY DEF Artifacts!LinkObject, Artifacts!Put
<1>2. /\ call[j] = Artifacts!New /\ call[j] \in Records /\ c \in Artifacts!Contents
      /\ object[c].mark \in Nat
  BY <1>1, CallFacts DEF CallOf, Files
<1> USE DEF AInv
<1>3. CASE object[c].there
  <2>1. call' = [call EXCEPT ![j].at = "unlink"] /\ object' = object
    BY <1>3 DEF Artifacts!LinkObject, Artifacts!To
  <2>2. Alone(j) /\ call'[j] = [call[j] EXCEPT !.at = "unlink"]
    BY <2>1, <1>2 DEF CallTypes, Alone, Records, Under
  <2>3. call'[j].at = "unlink" /\ call'[j].left = 3 /\ call'[j].linked = FALSE
    BY <1>2, <2>2 DEF Records, Artifacts!New, Artifacts!Attempts
  <2>4. FileTypes'
    BY <1>1, <2>1 DEF FileTypes
  <2>5. CallTypes'
    <3>1. /\ CallTypes /\ Alone(j) /\ call'[j].at # "new"
          /\ call'[j].at \in {"unlink", "bind", "compare"} => j \in DOMAIN Puts
          /\ call'[j].linked => call'[j].at = "unlink"
          /\ call'[j].at \in Under => call'[j].left > 0
      BY <1>1, <2>2, <2>3
    <3>2. QED
      BY <3>1, CallTypesStep
  <2>6. Signed'
    <3>1. SignedCall(j)'
      BY <2>3 DEF SignedCall, Holding
    <3>2. QED
      BY <1>1, <2>1, <2>2, <3>1, SignedStep
  <2>7. Published'
    BY <1>1, <1>3, <2>1, <2>2, <2>3 DEF Published, Alone, Under
  <2>8. OneTouch'
    <3>1. Touch(j)'
      BY <2>3 DEF Touch, Overtaken, Holding
    <3>2. QED
      BY <1>1, <2>1, <2>2, <2>3, <3>1, TouchStep
  <2>9. Described'
    BY <1>1, <2>2, <2>3 DEF Described, Alone, Artifacts!Jobs
  <2>10. Artifacts!BoundContent'
    BY <1>1, <2>1 DEF Artifacts!BoundContent
  <2>11. Artifacts!ReadsTrue' /\ Artifacts!AttemptsSuffice'
    BY <1>1, <2>2, <2>3 DEF Artifacts!ReadsTrue, Artifacts!AttemptsSuffice, Alone
  <2>12. QED
    BY <2>4, <2>5, <2>6, <2>7, <2>8, <2>9, <2>10, <2>11
<1>4. CASE ~object[c].there
  <2> DEFINE m == object[c].mark + 1
  <2>1. /\ object' = [object EXCEPT ![c] = [there |-> TRUE, good |-> TRUE, mark |-> m]]
        /\ call' = [call EXCEPT ![j].at = "unlink", ![j].linked = TRUE]
    BY <1>4 DEF Artifacts!LinkObject
  <2>2. Alone(j) /\ call'[j] = [[call[j] EXCEPT !.at = "unlink"] EXCEPT !.linked = TRUE]
    BY <2>1, <1>2 DEF CallTypes, Alone, Records, Under
  <2>3. call'[j].at = "unlink" /\ call'[j].left = 3 /\ call'[j].linked = TRUE
    BY <1>2, <2>2 DEF Records, Artifacts!New, Artifacts!Attempts
  <2>4. /\ object' \in [Artifacts!Contents -> Files]
        /\ object'[c] = [there |-> TRUE, good |-> TRUE, mark |-> m]
        /\ \A x \in Artifacts!Contents : x # c => object'[x] = object[x]
    BY <1>2, <2>1 DEF FileTypes, Files
  <2>5. object'[c].there /\ object'[c].good /\ object'[c].mark = object[c].mark + 1
    BY <2>4
  <2>6. \A i \in Artifacts!Jobs : Artifacts!Content(i) \in Artifacts!Contents
    BY JobTypes
  <2>7. FileTypes'
    BY <1>1, <2>4 DEF FileTypes
  <2>8. CallTypes'
    <3>1. /\ CallTypes /\ Alone(j) /\ call'[j].at # "new"
          /\ call'[j].at \in {"unlink", "bind", "compare"} => j \in DOMAIN Puts
          /\ call'[j].linked => call'[j].at = "unlink"
          /\ call'[j].at \in Under => call'[j].left > 0
      BY <1>1, <2>2, <2>3
    <3>2. QED
      BY <3>1, CallTypesStep
  <2>9. Signed'
    <3>1. SignedCall(j)'
      BY <2>3 DEF SignedCall, Holding
    <3>2. \A i \in Artifacts!Jobs : call'[i] = call[i] \/ SignedCall(i)'
      BY <2>2, <3>1 DEF Alone
    <3>3. QED
      BY <1>1, <1>2, <2>4, <2>5, <3>2, MarkedStep
  <2>10. Published'
    BY <1>1, <2>2, <2>3, <2>4, <2>5, <2>6 DEF Published, Alone, Under
  <2>11. ASSUME damage[1] = 0, NEW i \in Artifacts!Jobs, Artifacts!Content(i) = c
         PROVE  call[i].at \notin Under /\ ~call[i].linked
    <3>1. call[i].at \notin Under
      BY <1>4, <2>11 DEF Published
    <3>2. QED
      BY <3>1, CallFacts DEF CallOf, Under
  <2>12. OneTouch'
    <3> SUFFICES ASSUME damage[1] = 0
                 PROVE  OneLink' /\ \A i \in Artifacts!Jobs : Touch(i)'
      BY <1>1 DEF OneTouch
    <3>1. \A i \in Artifacts!Jobs : i # j => call'[i] = call[i]
      BY <2>2 DEF Alone
    <3>2. OneLink'
      BY <2>11, <3>1 DEF OneTouch, OneLink
    <3>3. Touch(j)'
      BY <2>3 DEF Touch, Overtaken, Holding
    <3>4. ASSUME NEW i \in Artifacts!Jobs, i # j, call[i].at \in Under
          PROVE  Touch(i)'
      <4>1. Artifacts!Content(i) # c /\ Artifacts!Content(i) \in Artifacts!Contents
        BY <2>6, <2>11, <3>4
      <4>2. object'[Artifacts!Content(i)] = object[Artifacts!Content(i)]
        BY <2>4, <4>1
      <4>3. Overtaken(i)' <=> Overtaken(i)
        BY <3>1, <3>4, <4>2 DEF Overtaken
      <4>4. Unlinked(Artifacts!Content(i)) => Unlinked(Artifacts!Content(i))'
        BY <3>1, <4>1 DEF Unlinked
      <4>5. QED
        BY <3>1, <3>4, <4>3, <4>4 DEF OneTouch, Touch
    <3>5. ASSUME NEW i \in Artifacts!Jobs, i # j, call[i].at \notin Under
          PROVE  Touch(i)'
      BY <3>1, <3>5 DEF Touch
    <3>6. QED
      BY <3>2, <3>3, <3>4, <3>5
  <2>13. Described'
    BY <1>1, <2>2, <2>3 DEF Described, Alone, Artifacts!Jobs
  <2>14. Artifacts!BoundContent'
    <3>1. \A r \in Artifacts!Refs : r[2] \in Artifacts!Contents
      BY DEF Artifacts!Refs, Artifacts!Contents
    <3>2. QED
      BY <1>1, <2>4, <2>5, <3>1 DEF Artifacts!BoundContent
  <2>15. Artifacts!ReadsTrue' /\ Artifacts!AttemptsSuffice'
    BY <1>1, <2>2, <2>3 DEF Artifacts!ReadsTrue, Artifacts!AttemptsSuffice, Alone
  <2>16. QED
    BY <2>7, <2>8, <2>9, <2>10, <2>12, <2>13, <2>14, <2>15
<1>5. QED
  BY <1>3, <1>4

LEMMA UnlinkStep ==
  ASSUME AInv, NEW j \in Artifacts!Jobs, NEW fails \in BOOLEAN, Artifacts!Unlink(j, fails)
  PROVE  AInv'
<1> DEFINE c == Artifacts!Content(j)
           to == IF fails THEN "failed" ELSE "open"
           touched == call[j].linked /\ object[c].there
           new == IF touched THEN object[c].mark + 1 ELSE object[c].mark
<1> USE DEF AInv
<1>1. /\ call[j].at = "unlink" /\ UNCHANGED <<bound, verified, damage>>
      /\ call' = [call EXCEPT ![j].at = to, ![j].linked = FALSE]
      /\ object' = IF touched THEN [object EXCEPT ![c] = [object[c] EXCEPT !.mark = object[c].mark + 1]]
         ELSE object
  <2>1. /\ call[j].at = "unlink" /\ UNCHANGED <<bound, verified, damage>>
        /\ call' = [call EXCEPT ![j].at = to, ![j].linked = FALSE]
    BY DEF Artifacts!Unlink
  <2>2. object' = IF touched THEN [object EXCEPT ![c] = [object[c] EXCEPT !.mark = object[c].mark + 1]]
         ELSE object
    <3>1. CASE touched
      BY <3>1 DEF Artifacts!Unlink, Artifacts!Touched
    <3>2. CASE ~touched
      BY <3>2 DEF Artifacts!Unlink
    <3>3. QED
      BY <3>1, <3>2
  <2>3. QED
    BY <2>1, <2>2
<1>2. /\ call[j] \in Records /\ c \in Artifacts!Contents /\ to \in {"failed", "open"}
      /\ object[c] \in Files /\ call[j].left > 0
      /\ new \in Nat
  <2>1. call[j] \in Records /\ CallOf(j) /\ c \in Artifacts!Contents /\ object[c] \in Files
    BY CallFacts
  <2>2. call[j].left > 0
    BY <1>1, <2>1 DEF CallOf, Under
  <2>3. new \in Nat
    BY <2>1 DEF Files
  <2>4. QED
    BY <2>1, <2>2, <2>3
<1>3. Alone(j) /\ call'[j] = [[call[j] EXCEPT !.at = to] EXCEPT !.linked = FALSE]
  BY <1>1, <1>2 DEF CallTypes, Alone, Records, Under, Artifacts!Ended
<1>4. call'[j].at = to /\ call'[j].left = call[j].left /\ call'[j].linked = FALSE
  BY <1>2, <1>3 DEF Records
<1>5. /\ object' \in [Artifacts!Contents -> Files]
      /\ object'[c].there = object[c].there /\ object'[c].good = object[c].good
      /\ object'[c].mark = new
      /\ \A x \in Artifacts!Contents : x # c => object'[x] = object[x]
  <2>1. CASE ~touched
    BY <1>1, <1>2, <2>1 DEF FileTypes
  <2>2. CASE touched
    <3>1. PICK f \in Files : f = [object[c] EXCEPT !.mark = object[c].mark + 1]
                              /\ f.there = object[c].there /\ f.good = object[c].good /\ f.mark = new
      <4>1. [object[c] EXCEPT !.mark = object[c].mark + 1] \in Files
        BY <1>2, <2>2 DEF Files
      <4>2. LET f == [object[c] EXCEPT !.mark = object[c].mark + 1] IN
              f.there = object[c].there /\ f.good = object[c].good /\ f.mark = new
        BY <1>2, <2>2 DEF Files
      <4>3. QED
        BY <4>1, <4>2
    <3>2. object' = [object EXCEPT ![c] = f]
      <4>1. object' = [object EXCEPT ![c] = [object[c] EXCEPT !.mark = object[c].mark + 1]]
        BY <1>1, <2>2
      <4>2. QED
        BY <3>1, <4>1, Zenon
    <3>3. QED
      BY <1>2, <3>1, <3>2 DEF FileTypes
  <2>3. QED
    BY <2>1, <2>2
<1>6. /\ \A i \in Artifacts!Jobs : Artifacts!Content(i) \in Artifacts!Contents
      /\ \A x \in Artifacts!Contents :
           object'[x].there = object[x].there /\ object'[x].good = object[x].good
  BY <1>5, JobTypes
<1>7. FileTypes'
  BY <1>1, <1>5 DEF FileTypes
<1>8. CallTypes'
  BY <1>2, <1>3, <1>4, CallTypesStep
<1>9. Signed'
  <2>1. SignedCall(j)'
    BY <1>2, <1>4 DEF SignedCall, Holding
  <2>2. \A i \in Artifacts!Jobs : call'[i] = call[i] \/ SignedCall(i)'
    BY <1>3, <2>1 DEF Alone
  <2>3. new = object[c].mark + 1 \/ new = object[c].mark
    OBVIOUS
  <2>4. QED
    BY <1>1, <1>2, <1>5, <2>2, <2>3, MarkedStep
<1>10. Published'
  BY <1>1, <1>2, <1>3, <1>4, <1>6 DEF Published, Alone, Under
<1>11. OneTouch'
  <2> SUFFICES ASSUME damage[1] = 0
               PROVE  OneLink' /\ \A i \in Artifacts!Jobs : Touch(i)'
    BY <1>1 DEF OneTouch
  <2>1. \A i \in Artifacts!Jobs : call'[i].linked => call[i].linked /\ i # j
    BY <1>3, <1>4 DEF Alone
  <2>2. OneLink /\ OneLink' /\ Touch(j) /\ call[j].left >= 2
    BY <1>1, <2>1 DEF OneTouch, OneLink, Touch, Under
  <2>3. \A x : Unlinked(x) => Unlinked(x)'
    BY <2>1 DEF Unlinked
  <2>4. CASE ~touched
    <3>1. object[c].there
      BY <1>1 DEF Published, Under
    <3>2. ~call[j].linked
      BY <2>4, <3>1
    <3>3. Unlinked(c) => Unlinked(c)'
      BY <2>3
    <3>4. object' = object
      BY <1>1, <2>4
    <3>5. Touch(j)'
      BY <1>1, <1>2, <1>4, <2>2, <3>3 DEF Touch, Overtaken, Under, Holding
    <3>6. OneTouch'
      BY <1>1, <1>3, <1>4, <3>4, <3>5, TouchStep
    <3>7. QED
      BY <1>1, <3>6 DEF OneTouch
  <2>5. CASE touched
    <3>1. Unlinked(c)'
      BY <2>1, <2>2, <2>5 DEF OneLink, Unlinked
    <3>2. \A i \in Artifacts!Jobs : Artifacts!Content(i) = c => ~Unlinked(c)
      BY <2>5 DEF Unlinked
    <3>3. ASSUME NEW i \in Artifacts!Jobs, Artifacts!Content(i) = c, i # j
          PROVE  Touch(i)'
      <4>1. Touch(i) /\ call'[i] = call[i] /\ call[i] \in Records
        BY <1>3, <3>3, CallFacts DEF OneTouch, Alone
      <4>2. call[i].at \in Under => call[i].left >= 3
        <5>1. call[i].left \in Nat
          BY <4>1 DEF Records
        <5>2. QED
          BY <3>2, <3>3, <4>1, <5>1 DEF Touch
      <4>3. QED
        BY <3>1, <3>3, <4>1, <4>2 DEF Touch
    <3>4. Touch(j)'
      BY <1>2, <1>4, <2>2, <3>1 DEF Touch, Overtaken, Under, Holding
    <3>5. ASSUME NEW i \in Artifacts!Jobs, Artifacts!Content(i) # c
          PROVE  Touch(i)'
      <4>1. Touch(i) /\ call'[i] = call[i]
        BY <1>3, <3>5, CallFacts DEF Alone
      <4>2. object'[Artifacts!Content(i)] = object[Artifacts!Content(i)]
        BY <1>5, <1>6, <3>5
      <4>3. Overtaken(i)' <=> Overtaken(i)
        BY <4>1, <4>2 DEF Overtaken
      <4>4. QED
        BY <2>3, <4>1, <4>3 DEF Touch
    <3>6. QED
      BY <2>2, <3>3, <3>4, <3>5
  <2>6. QED
    BY <2>4, <2>5
<1>12. Described'
  BY <1>1, <1>2, <1>3, <1>4 DEF Described, Alone, Artifacts!Jobs
<1>13. Artifacts!BoundContent'
  <2>1. \A r \in Artifacts!Refs : r[2] \in Artifacts!Contents
    BY DEF Artifacts!Refs, Artifacts!Contents
  <2>2. QED
    BY <1>1, <1>6, <2>1 DEF Artifacts!BoundContent
<1>14. Artifacts!ReadsTrue' /\ Artifacts!AttemptsSuffice'
  BY <1>1, <1>2, <1>3, <1>4 DEF Artifacts!ReadsTrue, Artifacts!AttemptsSuffice, Alone
<1>15. QED
  BY <1>7, <1>8, <1>9, <1>10, <1>11, <1>12, <1>13, <1>14

\* What anybody else does to a file shows in its signature.
LEMMA OutsideStep ==
  ASSUME AInv, NEW c \in Artifacts!Contents, Artifacts!Damage(c) \/ Artifacts!Delete(c)
  PROVE  AInv'
<1> USE DEF AInv
<1>1. /\ damage' = [damage EXCEPT ![1] = @ + 1] /\ UNCHANGED <<bound, verified, call>>
      /\ object[c].there
      /\ \/ object' = [object EXCEPT ![c].good = FALSE, ![c].mark = @ + 1]
         \/ object' = [object EXCEPT ![c].there = FALSE, ![c].mark = @ + 1]
  BY DEF Artifacts!Damage, Artifacts!Delete
<1>2. damage' \in Nat \X Nat /\ damage'[1] = damage[1] + 1 /\ damage[1] \in Nat
  BY <1>1 DEF FileTypes
<1>3. /\ object' \in [Artifacts!Contents -> Files]
      /\ object'[c].mark = object[c].mark + 1 /\ object[c].mark \in Nat
      /\ \A x \in Artifacts!Contents : x # c => object'[x] = object[x]
  <2>1. object[c] \in Files /\ object[c].mark \in Nat /\ object[c].mark + 1 \in Nat
    BY DEF FileTypes, Files
  <2>2. /\ object' = [x \in Artifacts!Contents |-> object'[x]]
        /\ \A x \in Artifacts!Contents : x # c => object'[x] = object[x]
        /\ \/ object'[c] = [[object[c] EXCEPT !.good = FALSE] EXCEPT !.mark = object[c].mark + 1]
           \/ object'[c] = [[object[c] EXCEPT !.there = FALSE] EXCEPT !.mark = object[c].mark + 1]
    BY <1>1, <2>1 DEF FileTypes, Files
  <2>3. object'[c] \in Files /\ object'[c].mark = object[c].mark + 1
    BY <2>1, <2>2 DEF Files
  <2>4. \A x \in Artifacts!Contents : object'[x] \in Files
    BY <2>2, <2>3 DEF FileTypes
  <2>5. QED
    BY <2>1, <2>2, <2>3, <2>4
<1>4. FileTypes' /\ CallTypes' /\ Described'
  <2>1. FileTypes'
    BY <1>1, <1>2, <1>3 DEF FileTypes
  <2>2. \A i \in Artifacts!Jobs : CallOf(i)'
    BY <1>1 DEF CallTypes, CallOf
  <2>3. QED
    BY <1>1, <2>1, <2>2 DEF CallTypes, Described
<1>5. Signed'
  BY <1>1, <1>3, MarkedStep
<1>6. Published' /\ OneTouch' /\ Artifacts!BoundContent'
  BY <1>2 DEF Published, OneTouch, Artifacts!BoundContent
<1>7. Artifacts!ReadsTrue' /\ Artifacts!AttemptsSuffice'
  BY <1>1, <1>2 DEF Artifacts!ReadsTrue, Artifacts!AttemptsSuffice
<1>8. QED
  BY <1>4, <1>5, <1>6, <1>7

LEMMA EndStep ==
  ASSUME AInv, Artifacts!Crash
  PROVE  AInv'
<1> USE DEF AInv
<1>1. /\ UNCHANGED <<object, bound>>
      /\ verified' = [x \in Artifacts!Contents |-> 0]
      /\ damage' = [damage EXCEPT ![2] = @ + 1]
      /\ call' = [j \in Artifacts!Jobs |->
                    IF call[j].at \in Artifacts!Ended \cup {"new"} THEN call[j]
                    ELSE [Artifacts!New EXCEPT !.at = "failed"]]
  BY DEF Artifacts!Crash
<1>2. [Artifacts!New EXCEPT !.at = "failed"] \in Records
  BY DEF Artifacts!New, Artifacts!Attempts, Records, Artifacts!Ended
<1>3. /\ call' \in [Artifacts!Jobs -> Records]
      /\ \A j \in Artifacts!Jobs :
           \/ call'[j] = call[j] /\ call[j].at \notin Under
           \/ call'[j].at = "failed" /\ ~call'[j].linked
  BY <1>1, <1>2 DEF CallTypes, Artifacts!New, Under, Artifacts!Ended
<1>4. damage' \in Nat \X Nat /\ damage'[1] = damage[1]
  BY <1>1 DEF FileTypes
<1>5. FileTypes'
  BY <1>1, <1>4 DEF FileTypes
<1>6. CallTypes'
  <2>1. \A j \in Artifacts!Jobs : CallOf(j)'
    BY <1>3 DEF CallTypes, CallOf, Under
  <2>2. QED
    BY <1>3, <2>1 DEF CallTypes
<1>7. Signed'
  <2>1. \A x \in Artifacts!Contents :
          verified'[x] = 0 /\ object[x].mark \in Nat /\ object'[x] = object[x]
    BY <1>1 DEF FileTypes, Files
  <2>2. \A x \in Artifacts!Contents : SignedFile(x)'
    BY <2>1 DEF Signed, SignedFile
  <2>3. \A j \in Artifacts!Jobs : call'[j].at \notin Holding
    BY <1>3 DEF Under, Holding
  <2>4. \A j \in Artifacts!Jobs : SignedCall(j)'
    BY <2>3 DEF SignedCall, Holding
  <2>5. QED
    BY <2>2, <2>4 DEF Signed
<1>8. Published'
  BY <1>1, <1>3, <1>4 DEF Published, Under
<1>9. OneTouch'
  <2>1. \A j \in Artifacts!Jobs : call'[j].at \notin Under /\ ~call'[j].linked
    BY <1>3, CallFacts DEF CallOf, Under
  <2>2. QED
    BY <2>1 DEF OneTouch, OneLink, Touch
<1>10. Described'
  BY <1>1, <1>3 DEF Described, Artifacts!Jobs, Under
<1>11. Artifacts!BoundContent' /\ Artifacts!ReadsTrue' /\ Artifacts!AttemptsSuffice'
  BY <1>1, <1>3, <1>4
     DEF Artifacts!BoundContent, Artifacts!ReadsTrue, Artifacts!AttemptsSuffice, Under
<1>12. QED
  BY <1>5, <1>6, <1>7, <1>8, <1>9, <1>10, <1>11

-----------------------------------------------------------------------------

LEMMA FilesInit ==
  ASSUME Artifacts!Init
  PROVE  AInv
<1>1. Artifacts!New \in Records
  BY DEF Artifacts!New, Artifacts!Attempts, Records
<1>2. \A j \in Artifacts!Jobs : call[j] = Artifacts!New
  BY DEF Artifacts!Init
<1>3. \A j \in Artifacts!Jobs : call[j].at = "new" /\ ~call[j].linked
  BY <1>2 DEF Artifacts!New
<1>4. FileTypes /\ CallTypes
  <2>1. FileTypes
    BY DEF Artifacts!Init, FileTypes, Files
  <2>2. \A j \in Artifacts!Jobs : CallOf(j)
    BY <1>2, <1>3 DEF CallOf, Under
  <2>3. QED
    BY <1>1, <2>1, <2>2 DEF CallTypes, Artifacts!Init
<1>5. Signed /\ Published /\ OneTouch /\ Described
  <2>1. Signed
    <3>1. \A c \in Artifacts!Contents :
            object[c] = [there |-> FALSE, good |-> FALSE, mark |-> 0] /\ verified[c] = 0
      BY DEF Artifacts!Init
    <3>2. \A c \in Artifacts!Contents : ~object[c].there /\ object[c].mark = 0 /\ verified[c] = 0
      BY <3>1
    <3>3. \A c \in Artifacts!Contents : SignedFile(c)
      BY <3>2 DEF SignedFile
    <3>4. \A j \in Artifacts!Jobs : SignedCall(j)
      BY <1>3 DEF SignedCall, Holding
    <3>5. QED
      BY <3>3, <3>4 DEF Signed
  <2>2. Published /\ OneTouch
    BY <1>3 DEF Artifacts!Init, Published, OneTouch, OneLink, Touch, Under
  <2>3. Described
    BY <1>3 DEF Described, Artifacts!Jobs
  <2>4. QED
    BY <2>1, <2>2, <2>3
<1>6. Artifacts!BoundContent /\ Artifacts!ReadsTrue /\ Artifacts!AttemptsSuffice
  BY <1>3 DEF Artifacts!Init, Artifacts!BoundContent, Artifacts!ReadsTrue, Artifacts!AttemptsSuffice
<1>7. QED
  BY <1>4, <1>5, <1>6 DEF AInv

LEMMA FilesNext ==
  ASSUME StoreAssumption, AInv, Artifacts!Next \/ UNCHANGED Artifacts!artVars
  PROVE  AInv'
<1>1. ASSUME NEW j \in Artifacts!Jobs, Artifacts!Step(j)
      PROVE  AInv'
  BY <1>1, LinkObjectStep, LookupStep, RefuseStep, OpenStep, HashStep, ReadBytesStep, CloseStep,
     CompareStep, UnlinkStep, BindStep DEF Artifacts!Step
<1>2. CASE UNCHANGED Artifacts!artVars
  BY <1>2 DEF Artifacts!artVars, AInv, FileTypes, CallTypes, CallOf, Signed, SignedFile, SignedCall,
              Published, OneTouch, OneLink, Touch, Overtaken, Unlinked, Under, Holding,
              Described, Artifacts!BoundContent, Artifacts!ReadsTrue, Artifacts!AttemptsSuffice
<1>3. QED
  BY <1>1, <1>2, OutsideStep, EndStep DEF Artifacts!Next

\* For any set of puts and reads and any number of changes from outside and of ends
\* of the process: what is bound was published whole, what a read returns are the
\* bytes of the digest, publishing beside a reader never makes it give up, and two
\* puts of a version that both succeed describe it alike (ArtifactStore.put, read).
THEOREM ArtifactsAreSound ==
  ASSUME StoreAssumption
  PROVE  Artifacts!ArtSpec => []ArtifactsSound
<1>1. Artifacts!Init => AInv
  BY FilesInit
<1>2. AInv /\ [Artifacts!Next]_Artifacts!artVars => AInv'
  BY FilesNext
<1>3. AInv => ArtifactsSound
  <2>1. AInv => Artifacts!OneDescription
    BY DEF AInv, Described, Artifacts!OneDescription
  <2>2. QED
    BY <2>1 DEF AInv, ArtifactsSound, Artifacts!ArtifactsSound
<1>4. QED
  BY <1>1, <1>2, <1>3, PTL DEF Artifacts!ArtSpec
=============================================================================
