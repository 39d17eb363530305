--------------------------- MODULE KernelLifecycle ---------------------------
(***************************************************************************)
(* Host.prepare and ManagedAssembly: modules are prepared and constructed  *)
(* in the resolved order, activated, and their background tasks started;   *)
(* whatever was acquired is released once, in the opposite order, by a     *)
(* task of its own that every caller of close() or abort() waits for.      *)
(* The actions speak of the variables here; Supervision adds the process.  *)
(***************************************************************************)
EXTENDS Naturals, Sequences, SequencesExt

CONSTANTS N,           \* modules 1..N in the resolved order
          WithCleanup, \* modules whose prepare hook returns a cleanup
          WithTask,    \* modules with a background task
          WithClose    \* modules that are constructed and have a shutdown hook

Modules == 1..N

ASSUME LifecycleAssumption ==
  /\ N \in Nat \ {0}
  /\ WithCleanup \subseteq Modules
  /\ WithTask \subseteq Modules
  /\ WithClose \subseteq Modules

VARIABLES
  stage,     \* where the host is, see Stages
  next,      \* the module whose hook is awaited
  acquired,  \* cleanups and constructed modules, in the order they came
  todo,      \* what the release (or the rollback) has still to do
  tasks,     \* [module -> "none", "running", "stopping" or "ended"]
  pending,   \* _pending: modules whose failure nobody has taken
  changed,   \* the flag of _changed
  collected, \* errors the release has collected
  released,  \* history: what has been released, in order
  failed     \* history: every error that occurred, as <<place, module>>

kvars == <<stage, next, acquired, todo, tasks, pending, changed, collected, released, failed>>

Stages == {"prepare", "construct", "prepared", "activate", "active",
           "stopping", "release", "released"}

KInit ==
  /\ stage = "prepare"
  /\ next = 1
  /\ acquired = <<>>
  /\ todo = <<>>
  /\ tasks = [m \in Modules |-> "none"]
  /\ pending = <<>>
  /\ changed = FALSE
  /\ collected = {}
  /\ released = <<>>
  /\ failed = {}

Fail(place, m) == failed' = failed \cup {<<place, m>>}

-----------------------------------------------------------------------------
\* Host.prepare.  A constructor is synchronous: nothing looks at the host between
\* two of them.  An error of one leaves those before it constructed; a module
\* without a shutdown hook has nothing to close.

Acquire(kind, owners) ==
  acquired' = IF next \in owners THEN Append(acquired, <<kind, next>>) ELSE acquired

Prepare ==
  /\ stage = "prepare"
  /\ Acquire("cleanup", WithCleanup)
  /\ next' = IF next = N THEN 1 ELSE next + 1
  /\ stage' = IF next = N THEN "construct" ELSE stage
  /\ UNCHANGED <<todo, tasks, pending, changed, collected, released, failed>>

Construct ==
  /\ stage = "construct"
  /\ Acquire("close", WithClose)
  /\ next' = IF next = N THEN 1 ELSE next + 1
  /\ stage' = IF next = N THEN "prepared" ELSE stage
  /\ UNCHANGED <<todo, tasks, pending, changed, collected, released, failed>>

\* The order of release: shutdown hooks first, then cleanups, both reversed.
ToRelease(things) == Reverse(things)

\* The errors of the construction: the rollback of what there is.
ConstructionFails(place) ==
  /\ stage = "prepare" \/ (stage = "construct" /\ place = "start")
  /\ stage' = "release"
  /\ todo' = ToRelease(acquired)
  /\ Fail(place, next)
  /\ UNCHANGED <<next, acquired, tasks, pending, changed, collected, released>>

-----------------------------------------------------------------------------
\* activate(): hooks one by one, then all tasks at once.

Activate ==
  /\ stage = "prepared"
  /\ stage' = "activate"
  /\ next' = 1
  /\ UNCHANGED <<acquired, todo, tasks, pending, changed, collected, released, failed>>

ActivateHook ==
  /\ stage = "activate"
  /\ next' = IF next = N THEN next ELSE next + 1
  /\ stage' = IF next = N THEN "active" ELSE stage
  /\ tasks' = IF next = N
              THEN [m \in Modules |-> IF m \in WithTask THEN "running" ELSE "none"]
              ELSE tasks
  /\ UNCHANGED <<acquired, todo, pending, changed, collected, released, failed>>

\* _run_module: an exception is kept for the supervisor and wakes it.  A task
\* that was told to stop may fail while it cleans up.
RecordFailure(m) ==
  /\ pending' = Append(pending, m)
  /\ changed' = TRUE
  /\ Fail("task", m)

TaskEnds(m) ==
  /\ tasks[m] \in {"running", "stopping"}
  /\ tasks' = [tasks EXCEPT ![m] = "ended"]
  /\ UNCHANGED <<stage, next, acquired, todo, pending, changed, collected, released, failed>>

TaskFails(m) ==
  /\ tasks[m] \in {"running", "stopping"}
  /\ tasks' = [tasks EXCEPT ![m] = "ended"]
  /\ RecordFailure(m)
  /\ UNCHANGED <<stage, next, acquired, todo, collected, released>>

-----------------------------------------------------------------------------
\* _close() and _release().

Closed == stage \in {"stopping", "release", "released"}

\* The first caller creates the release; it owns what the release collects.
BeginRelease ==
  /\ stage \in {"prepared", "activate", "active"}
  /\ stage' = "stopping"
  /\ changed' = TRUE
  /\ tasks' = [m \in Modules |-> IF tasks[m] = "running" THEN "stopping" ELSE tasks[m]]
  /\ UNCHANGED <<next, acquired, todo, pending, collected, released>>

\* All tasks have ended: failures that nobody took are collected.
Untaken == {<<"task", m>> : m \in ToSet(pending)}

TasksJoined ==
  /\ stage = "stopping"
  /\ \A m \in Modules : tasks[m] \in {"none", "ended"}
  /\ stage' = "release"
  /\ collected' = Untaken
  /\ pending' = <<>>
  /\ todo' = ToRelease(acquired)
  /\ UNCHANGED <<next, acquired, tasks, changed, released, failed>>

\* One hook or cleanup; its error is collected and the others still run.
ReleaseOne(fails) ==
  /\ stage = "release"
  /\ todo # <<>>
  /\ released' = Append(released, Head(todo))
  /\ todo' = Tail(todo)
  /\ IF fails
     THEN /\ collected' = collected \cup {Head(todo)}
          /\ failed' = failed \cup {Head(todo)}
     ELSE UNCHANGED <<collected, failed>>
  /\ UNCHANGED <<stage, next, acquired, tasks, pending, changed>>

Released ==
  /\ stage = "release"
  /\ todo = <<>>
  /\ stage' = "released"
  /\ UNCHANGED <<next, acquired, todo, tasks, pending, changed, collected, released, failed>>

-----------------------------------------------------------------------------
KTypeOK ==
  /\ stage \in Stages
  /\ next \in Modules
  /\ tasks \in [Modules -> {"none", "running", "stopping", "ended"}]
  /\ ToSet(pending) \subseteq WithTask
  /\ changed \in BOOLEAN
  /\ collected \subseteq failed

\* What was acquired is released once, the last first, and not before the tasks
\* that may use it have ended; nothing is left when the release is over.
ReleasedInReverse ==
  /\ IsPrefix(released, Reverse(acquired))
  /\ released # <<>> => \A m \in Modules : tasks[m] \in {"none", "ended"}
  /\ stage = "released" => released = Reverse(acquired)
=============================================================================
