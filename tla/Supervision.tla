----------------------------- MODULE Supervision -----------------------------
(***************************************************************************)
(* run_runtime and supervise: one process composes the host, activates it, *)
(* runs fronts beside a monitor of background failures until something     *)
(* stops it, joins them, and closes the host.  Anybody may request the     *)
(* stop, cancel the process at any await, or close the host as well.       *)
(***************************************************************************)
EXTENDS KernelLifecycle, FiniteSets

CONSTANTS Fronts,     \* fronts of the process
          MaxCancels, \* bound: cancellations of the process
          MaxClosers  \* bound: calls of close() by others than the process

ASSUME SupervisionAssumption == {MaxCancels, MaxClosers} \subseteq Nat

VARIABLES
  main,        \* where run_runtime is, see Places
  stop,        \* the stop event
  monitor,     \* _observe_modules: "none", "check", "waiting", "claimed", "ended"
  claimed,     \* modules whose failure the monitor has taken
  fronts,      \* [front -> "none", "running", "stopping" or "ended"]
  errors,      \* errors of the fronts and the monitor, later of the process
  interrupted, \* the process was cancelled while it waits for a completion
  owner,       \* who began the release: "nobody", "process" or "other"
  recorded,    \* modules whose failure is in the world
  outcome,     \* what run_runtime raises
  others,      \* what the other owner of the release raises, once it does
  cancels,     \* number of cancellations
  closers      \* number of other closers

svars == <<main, stop, monitor, claimed, fronts, errors, interrupted, owner,
           recorded, outcome, others, cancels, closers>>
vars == <<kvars, svars>>

Places == {"start", "bind", "supervise", "join", "close", "ended"}

Init ==
  /\ KInit
  /\ main = "start"
  /\ stop = FALSE
  /\ monitor = "none"
  /\ claimed = {}
  /\ fronts = [f \in Fronts |-> "none"]
  /\ errors = {}
  /\ interrupted = FALSE
  /\ owner = "nobody"
  /\ recorded = {}
  /\ outcome = {}
  /\ others = <<>>
  /\ cancels = 0
  /\ closers = 0

\* Operators named Bug_... are one-slip variants of the operator that follows
\* them.  No action uses them; substituted for it, each breaks a property below.

Cancelled == <<"cancelled", 0>>

-----------------------------------------------------------------------------
\* The start.  An error in the construction has been rolled back by prepare();
\* one after it aborts the host.

Starts ==
  /\ main = "start"
  /\ Prepare \/ Construct \/ Activate
  /\ UNCHANGED svars

\* The wait for the release begins, with the error that led to it.
Close(error) ==
  /\ main' = "close"
  /\ errors' = error
  /\ IF Closed
     THEN UNCHANGED <<kvars, owner>>
     ELSE /\ BeginRelease
          /\ owner' = "process"

StartFails(place) ==
  /\ main = "start"
  /\ \/ /\ ConstructionFails(place)
        /\ errors' = {<<place, next>>}
        /\ main' = "close"
        /\ owner' = "process"
     \/ /\ stage = "activate" \/ (stage = "prepared" /\ place = "start")
        /\ Close({<<place, next>>})
        /\ Fail(place, next)
  /\ UNCHANGED <<stop, monitor, claimed, fronts, interrupted, recorded, outcome, others, closers>>

StartRaises == StartFails("start") /\ UNCHANGED cancels

Activated ==
  /\ main = "start"
  /\ ActivateHook
  /\ main' = IF stage' = "active" THEN "bind" ELSE main
  /\ UNCHANGED <<stop, monitor, claimed, fronts, errors, interrupted, owner, recorded,
                 outcome, others, cancels, closers>>

\* The fronts are bound; supervise() creates its tasks before it waits.
Bind ==
  /\ main = "bind"
  /\ main' = "supervise"
  /\ monitor' = "check"
  /\ fronts' = [f \in Fronts |-> "running"]
  /\ UNCHANGED <<kvars, stop, claimed, errors, interrupted, owner, recorded, outcome,
                 others, cancels, closers>>

BindRaises ==
  /\ main = "bind"
  /\ Close({<<"start", 0>>})
  /\ Fail("start", 0)
  /\ UNCHANGED <<stop, monitor, claimed, fronts, interrupted, recorded, outcome, others,
                 cancels, closers>>

-----------------------------------------------------------------------------
\* Background tasks, which may end or fail at any time.

Task(m) ==
  /\ TaskEnds(m) \/ TaskFails(m)
  /\ UNCHANGED svars

\* next_failure(): look, or wait for the event and clear it.
Look ==
  /\ monitor = "check"
  /\ IF pending # <<>>
     THEN /\ pending' = Tail(pending)
          /\ claimed' = claimed \cup {Head(pending)}
          /\ monitor' = "claimed"
     ELSE /\ monitor' = IF Closed THEN "ended" ELSE "waiting"
          /\ UNCHANGED <<pending, claimed>>
  /\ UNCHANGED <<stage, next, acquired, todo, tasks, changed, collected, released, failed>>
  /\ UNCHANGED <<main, stop, fronts, errors, interrupted, owner, recorded, outcome, others,
                 cancels, closers>>

Bug_Wakes == changed /\ pending # <<>>
Wakes == changed

Wake ==
  /\ monitor = "waiting"
  /\ Wakes
  /\ monitor' = "check"
  /\ changed' = FALSE
  /\ UNCHANGED <<stage, next, acquired, todo, tasks, pending, collected, released, failed>>
  /\ UNCHANGED <<main, stop, claimed, fronts, errors, interrupted, owner, recorded, outcome,
                 others, cancels, closers>>

\* The claimed failure goes to the world and to the process; when the world
\* refuses it both errors do.
RecordClaimed(lands) ==
  /\ monitor = "claimed"
  /\ monitor' = "ended"
  /\ recorded' = IF lands THEN claimed ELSE recorded
  /\ errors' = errors \cup {<<"task", m>> : m \in claimed}
                      \cup IF lands THEN {} ELSE {<<"record", 0>>}
  /\ failed' = IF lands THEN failed ELSE failed \cup {<<"record", 0>>}
  /\ UNCHANGED <<stage, next, acquired, todo, tasks, pending, changed, collected, released>>
  /\ UNCHANGED <<main, stop, claimed, fronts, interrupted, owner, outcome, others, cancels, closers>>

-----------------------------------------------------------------------------
\* Fronts, in a task group: the error of one cancels the others.

FrontReturns(f) ==
  /\ fronts[f] \in {"running", "stopping"}
  /\ fronts' = [fronts EXCEPT ![f] = "ended"]
  /\ UNCHANGED <<kvars, main, stop, monitor, claimed, errors, interrupted, owner, recorded,
                 outcome, others, cancels, closers>>

FrontFails(f) ==
  /\ fronts[f] \in {"running", "stopping"}
  /\ fronts' = [g \in Fronts |-> IF g = f THEN "ended"
                                 ELSE IF fronts[g] = "running" THEN "stopping" ELSE fronts[g]]
  /\ stop' = TRUE
  /\ errors' = errors \cup {<<"front", f>>}
  /\ failed' = failed \cup {<<"front", f>>}
  /\ UNCHANGED <<stage, next, acquired, todo, tasks, pending, changed, collected, released>>
  /\ UNCHANGED <<main, monitor, claimed, interrupted, owner, recorded, outcome, others,
                 cancels, closers>>

-----------------------------------------------------------------------------
\* supervise(): the first thing that ends stops all of it, except a monitor
\* that has taken a failure.

RequestStop ==
  /\ ~stop
  /\ stop' = TRUE
  /\ UNCHANGED <<kvars, main, monitor, claimed, fronts, errors, interrupted, owner, recorded,
                 outcome, others, cancels, closers>>

FrontsJoined == \A f \in Fronts : fronts[f] = "ended"

Bug_MonitorStopped == IF monitor = "none" THEN "none" ELSE "ended"
MonitorStopped == IF monitor = "claimed" THEN "claimed" ELSE "ended"

StopAll ==
  /\ main' = "join"
  /\ stop' = TRUE
  /\ monitor' = MonitorStopped
  /\ fronts' = [f \in Fronts |-> IF fronts[f] = "running" THEN "stopping" ELSE fronts[f]]
  /\ UNCHANGED <<claimed, errors, owner, recorded, outcome, others, closers>>

FirstEnded ==
  /\ main = "supervise"
  /\ monitor = "ended" \/ stop \/ (Fronts # {} /\ FrontsJoined)
  /\ StopAll
  /\ UNCHANGED <<kvars, interrupted, cancels>>

\* All have ended: abort with their errors, or close.
Bug_Joined == monitor = "ended"
Joined == monitor = "ended" /\ FrontsJoined

Supervised ==
  /\ main = "join"
  /\ Joined
  /\ Close(errors \cup IF interrupted THEN {Cancelled} ELSE {})
  /\ interrupted' = FALSE
  /\ UNCHANGED failed
  /\ UNCHANGED <<stop, monitor, claimed, fronts, recorded, outcome, others, cancels, closers>>

\* The process is told what the release collected only if it owns it.
Collected(who) == IF owner = who THEN collected ELSE {}

\* raise_with_cleanup, raise_failures and a cancelled close(): everything goes
\* into one group.  But a cancellation stays what it is, and what the cleanup
\* collected becomes its cause in place of the cause it had.
Cancellation == {e \in errors : e[1] = "cancelled"}

Bug_Raised(cleanup) == IF errors = {} THEN cleanup ELSE errors
Raised(cleanup) ==
  IF Cancellation = {} THEN errors \cup cleanup \cup IF interrupted THEN {Cancelled} ELSE {}
  ELSE IF cleanup = {} THEN errors ELSE Cancellation \cup cleanup

RunEnds ==
  /\ main = "close"
  /\ stage = "released"
  /\ main' = "ended"
  /\ outcome' = Raised(Collected("process"))
  /\ UNCHANGED <<kvars, stop, monitor, claimed, fronts, errors, interrupted, owner, recorded,
                 others, cancels, closers>>

-----------------------------------------------------------------------------
\* The release is a task of its own.

Release ==
  /\ TasksJoined \/ (\E fails \in BOOLEAN : ReleaseOne(fails)) \/ Released
  /\ UNCHANGED svars

\* Somebody else closes the running host and is told what the release
\* collected, if it began it.
OtherCloses ==
  /\ stage = "active"
  /\ main # "bind"
  /\ closers < MaxClosers
  /\ closers' = closers + 1
  /\ BeginRelease
  /\ UNCHANGED failed
  /\ owner' = "other"
  /\ UNCHANGED <<main, stop, monitor, claimed, fronts, errors, interrupted, recorded, outcome,
                 others, cancels>>

OtherReturns ==
  /\ stage = "released"
  /\ owner = "other"
  /\ others = <<>>
  /\ others' = <<Collected("other")>>
  /\ UNCHANGED <<kvars, main, stop, monitor, claimed, fronts, errors, interrupted, owner,
                 recorded, outcome, cancels, closers>>

\* A cancellation ends the start and the wait of supervise(); while something
\* is joined or released it is kept until that is over.
CancelProcess ==
  /\ cancels < MaxCancels
  /\ cancels' = cancels + 1
  /\ \/ StartFails("cancelled")
     \/ /\ main = "supervise"
        /\ StopAll
        /\ interrupted' = TRUE
        /\ UNCHANGED kvars
     \/ /\ main \in {"join", "close"}
        /\ interrupted' = TRUE
        /\ UNCHANGED <<kvars, main, stop, monitor, claimed, fronts, errors, owner, recorded,
                       outcome, others, closers>>

-----------------------------------------------------------------------------
Process == Starts \/ Activated \/ Bind \/ FirstEnded \/ Supervised \/ RunEnds
Monitor == Look \/ Wake \/ \E lands \in BOOLEAN : RecordClaimed(lands)

Next ==
  \/ Process
  \/ StartRaises
  \/ BindRaises
  \/ \E m \in Modules : Task(m)
  \/ Monitor
  \/ \E f \in Fronts : FrontReturns(f) \/ FrontFails(f)
  \/ RequestStop
  \/ Release
  \/ OtherCloses
  \/ OtherReturns
  \/ CancelProcess

Spec == Init /\ [][Next]_vars

\* The process, its monitor and the release go on; tasks and fronts may run for
\* ever, but not once they were told to stop.
FairSpec ==
  /\ Spec
  /\ WF_vars(Process)
  /\ WF_vars(Monitor)
  /\ WF_vars(Release)
  /\ \A m \in Modules : WF_vars(tasks[m] = "stopping" /\ Task(m))
  /\ \A f \in Fronts : WF_vars(fronts[f] = "stopping" /\ FrontReturns(f))

-----------------------------------------------------------------------------
\* Properties.

\* Types.
TypeOK ==
  /\ KTypeOK
  /\ main \in Places
  /\ monitor \in {"none", "check", "waiting", "claimed", "ended"}
  /\ claimed \subseteq WithTask
  /\ fronts \in [Fronts -> {"none", "running", "stopping", "ended"}]
  /\ owner \in {"nobody", "process", "other"}
  /\ recorded \subseteq claimed

\* While the process itself releases the host, no front and no monitor is left
\* that could use it.
NobodyUsesReleased ==
  stage \in {"stopping", "release"} /\ owner = "process" =>
    /\ \A f \in Fronts : fronts[f] \in {"none", "ended"}
    /\ monitor \in {"none", "ended"}

\* Whatever fails, is cancelled or closes the host at whatever moment, it is
\* released completely, in order, and only when nobody uses it.
ReleaseSound ==
  /\ TypeOK
  /\ ReleasedInReverse
  /\ NobodyUsesReleased
  /\ main = "ended" => stage = "released"

\* Every error reaches whoever ran or closed the host, except those that a
\* cancellation of a process carried as its cause when the release of that
\* process failed as well.  What the release collected is always told, a failure
\* that the monitor took is in the world or reported as unrecorded, and a
\* cancelled process ends as cancelled.
ErrorsReported ==
  LET Told == outcome \cup UNION ToSet(others)
      CauseReplaced == cancels > 0 /\ owner = "process" /\ collected # {} IN
  main = "ended" /\ (owner = "other" => others # <<>>) =>
    /\ collected \subseteq Told
    /\ \A e \in failed : e \in Told \/ (CauseReplaced /\ e[1] \in {"front", "task", "record"})
    /\ \A m \in claimed : m \in recorded \/ <<"record", 0>> \in outcome \/ CauseReplaced
    /\ cancels > 0 => \E e \in outcome : e[1] = "cancelled"

\* tasks.py, raise_with_cleanup: a cancellation carries every cause of failure,
\* so that a process which released its host tells every error there was.
CausesCarried ==
  main = "ended" /\ owner = "process" => failed \subseteq outcome

\* However a process ends, the host is released and the errors are told, but for
\* the causes a cancellation loses.
SupervisionSound == ReleaseSound /\ ErrorsReported

\* A stop, a cancellation, a failure or somebody's close ends the process.
ProcessStops ==
  stop \/ cancels > 0 \/ failed # {} \/ Closed ~> main = "ended"
=============================================================================
