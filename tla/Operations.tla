----------------------------- MODULE Operations -----------------------------
(***************************************************************************)
(* OperationRegistry.dispatch: a request is recorded before its handler is *)
(* entered and answered by one recorded receipt.  Calls of one identity    *)
(* share a slot; a handler may dispatch another operation from its task.   *)
(* Tasks are cancelled and the process ends at any await; callers retry.   *)
(***************************************************************************)
EXTENDS Naturals, Sequences, FiniteSets

CONSTANTS Ids,       \* identities of requests
          Tasks,     \* asyncio tasks of callers
          Kind,      \* identity -> "query", "command", "retry_safe" (a command
                     \*   whose handler protects itself) or "invalid" arguments
          Nested,    \* identity -> the request its handler dispatches, or itself
                     \*   (refused), or NoId
          Expires,   \* identities whose deadline is the end of time, MaxTime
          NoId,
          MaxTime,   \* bound: readings of the clock
          MaxCalls,  \* bound: calls of dispatch from outside
          MaxFaults  \* bound: cancelled tasks and ends of the process

ASSUME OperationsAssumption ==
  /\ NoId \notin Ids \cup Tasks
  /\ Kind \in [Ids -> {"query", "command", "retry_safe", "invalid"}]
  /\ Nested \in [Ids -> Ids \cup {NoId}]
  /\ Expires \subseteq Ids
  /\ {MaxTime, MaxCalls, MaxFaults} \subseteq Nat

VARIABLES
  requested,  \* journal: identity -> "none", "resolved" or "rejected"
  receipt,    \* journal: identity -> status, or "none"
  frames,     \* task -> its calls of dispatch, the innermost last
  owner,      \* identity -> the task that holds its slot, or NoId
  now,        \* clock
  calls,      \* number of calls from outside
  faults,     \* number of faults
  effects,    \* identities whose business effect has happened
  entries,    \* history: identity -> times its handler was entered
  answers     \* history: [id, status] returned to callers

journal == <<requested, receipt>>
history == <<effects, entries, answers>>
vars == <<journal, frames, owner, now, calls, faults, history>>

Statuses == {"succeeded", "failed", "unknown"}
Places == {"waiting", "lookup", "request", "execute", "running", "record"}
Frame(i) == [id |-> i, at |-> "waiting", result |-> "none", nested |-> FALSE]

IsCommand(i) == Kind[i] \in {"command", "retry_safe"}

Init ==
  /\ requested = [i \in Ids |-> "none"]
  /\ receipt = [i \in Ids |-> "none"]
  /\ frames = [t \in Tasks |-> <<>>]
  /\ owner = [i \in Ids |-> NoId]
  /\ now = 0
  /\ calls = 0
  /\ faults = 0
  /\ effects = {}
  /\ entries = [i \in Ids |-> 0]
  /\ answers = {}

\* Operators named Bug_... are one-slip variants of the operator that follows
\* them.  No action uses them; substituted for it, each breaks a property below.

Top(t) == frames[t][Len(frames[t])]
In(t, place) == frames[t] # <<>> /\ Top(t).at = place

Replace(t, frame) == frames' = [frames EXCEPT ![t][Len(frames[t])] = frame]
Goto(t, place) == Replace(t, [Top(t) EXCEPT !.at = place])
Record(t, status) == Replace(t, [Top(t) EXCEPT !.at = "record", !.result = status])

\* The slot of the innermost call is given back and its caller goes on.
Bug_Release(t) == UNCHANGED owner
Release(t) == owner' = [owner EXCEPT ![Top(t).id] = NoId]
Front(t) == SubSeq(frames[t], 1, Len(frames[t]) - 1)

\* An exception leaves dispatch; a handler that dispatched may catch it.
Raise(t) == Release(t) /\ frames' = [frames EXCEPT ![t] = Front(t)]

-----------------------------------------------------------------------------
Tick ==
  /\ now < MaxTime
  /\ now' = now + 1
  /\ UNCHANGED <<journal, frames, owner, calls, faults, history>>

Call(t, i) ==
  /\ frames[t] = <<>>
  /\ calls < MaxCalls
  /\ calls' = calls + 1
  /\ frames' = [frames EXCEPT ![t] = <<Frame(i)>>]
  /\ UNCHANGED <<journal, owner, now, faults, history>>

\* The handler of a request dispatches another one, once; the registry refuses
\* a task that asks for a slot it holds.
CallNested(t) ==
  /\ In(t, "running")
  /\ ~Top(t).nested
  /\ Nested[Top(t).id] # NoId
  /\ LET inner == Nested[Top(t).id]
         called == [frames[t] EXCEPT ![Len(frames[t])].nested = TRUE]
     IN  frames' = [frames EXCEPT ![t] =
                      IF owner[inner] = t THEN called ELSE Append(called, Frame(inner))]
  /\ UNCHANGED <<journal, owner, now, calls, faults, history>>

Free(i) == owner[i] = NoId

Acquire(t) ==
  /\ In(t, "waiting")
  /\ Free(Top(t).id)
  /\ owner' = [owner EXCEPT ![Top(t).id] = t]
  /\ Goto(t, "lookup")
  /\ UNCHANGED <<journal, now, calls, faults, history>>

\* What a request that was recorded before leads to: its receipt, or a result
\* of the interruption, or another attempt.
Bug_Resumed(i) == IF requested[i] = "rejected" THEN "failed" ELSE "again"
Resumed(i) ==
  CASE requested[i] = "rejected" -> "failed"
    [] requested[i] = "resolved" /\ Kind[i] = "command" -> "unknown"
    [] OTHER -> "again"

Return(t, status) ==
  /\ answers' = answers \cup {[id |-> Top(t).id, status |-> status]}
  /\ Release(t)
  /\ frames' = [frames EXCEPT ![t] = Front(t)]

Lookup(t) ==
  /\ In(t, "lookup")
  /\ LET i == Top(t).id
     IN  IF receipt[i] # "none"
         THEN Return(t, receipt[i])
         ELSE /\ CASE requested[i] = "none" -> Goto(t, "request")
                   [] requested[i] # "none" /\ Resumed(i) = "again" -> Goto(t, "execute")
                   [] OTHER -> Record(t, Resumed(i))
              /\ UNCHANGED <<owner, answers>>
  /\ UNCHANGED <<journal, now, calls, faults, effects, entries>>

\* Another content under the same identity, or a payload that cannot be read or
\* stored, is an error of the caller's.
Refuse(t) ==
  /\ \/ In(t, "lookup") /\ requested[Top(t).id] # "none"
     \/ In(t, "request")
  /\ Raise(t)
  /\ UNCHANGED <<journal, now, calls, faults, history>>

Validated(i) == IF Kind[i] = "invalid" THEN "rejected" ELSE "resolved"

RecordRequest(t) ==
  /\ In(t, "request")
  /\ requested' = [requested EXCEPT ![Top(t).id] = Validated(Top(t).id)]
  /\ IF Kind[Top(t).id] = "invalid" THEN Record(t, "failed") ELSE Goto(t, "execute")
  /\ UNCHANGED <<receipt, owner, now, calls, faults, history>>

Expired(i) == i \in Expires /\ now = MaxTime

Execute(t) ==
  /\ In(t, "execute")
  /\ LET i == Top(t).id
     IN  IF Expired(i)
         THEN Record(t, "failed") /\ UNCHANGED entries
         ELSE /\ Goto(t, "running")
              /\ entries' = [entries EXCEPT ![i] = @ + 1]
  /\ UNCHANGED <<journal, owner, now, calls, faults, effects, answers>>

-----------------------------------------------------------------------------
\* Handlers (the Operation protocol).  A command reports success after its
\* effect and failure only when there was none.

TakesEffect(t) ==
  /\ In(t, "running")
  /\ IsCommand(Top(t).id)
  /\ effects' = effects \cup {Top(t).id}
  /\ UNCHANGED <<journal, frames, owner, now, calls, faults, entries, answers>>

HandlerReturns(t, status) ==
  /\ In(t, "running")
  /\ IsCommand(Top(t).id) =>
       /\ status = "succeeded" => Top(t).id \in effects
       /\ status = "failed" => Top(t).id \notin effects
  /\ Record(t, status)
  /\ UNCHANGED <<journal, owner, now, calls, faults, history>>

\* An exception of a command's handler says nothing of its effect.
Raised(i) == IF IsCommand(i) THEN "unknown" ELSE "failed"

HandlerRaises(t) ==
  /\ In(t, "running")
  /\ Record(t, Raised(Top(t).id))
  /\ UNCHANGED <<journal, owner, now, calls, faults, history>>

\* The deadline cancels a handler, and the calls it made, wherever they are.
DeadlinePasses(t, n) ==
  /\ n < Len(frames[t])
  /\ frames[t][n].at = "running"
  /\ Expired(frames[t][n].id)
  /\ frames' = [frames EXCEPT ![t] =
       Append(SubSeq(@, 1, n - 1), [@[n] EXCEPT !.at = "record", !.result = Raised(frames[t][n].id)])]
  /\ owner' = [i \in Ids |->
       IF \E m \in n + 1..Len(frames[t]) : frames[t][m].id = i /\ owner[i] = t
       THEN NoId ELSE owner[i]]
  /\ UNCHANGED <<journal, now, calls, faults, history>>

RecordResult(t) ==
  /\ In(t, "record")
  /\ receipt' = [receipt EXCEPT ![Top(t).id] = Top(t).result]
  /\ Return(t, Top(t).result)
  /\ UNCHANGED <<requested, now, calls, faults, effects, entries>>

\* The body of a large receipt cannot be stored.
ResultFails(t) ==
  /\ In(t, "record")
  /\ Raise(t)
  /\ UNCHANGED <<journal, now, calls, faults, history>>

-----------------------------------------------------------------------------
\* An append under way may land although its caller is gone: that is its step
\* followed by one of these.

CancelTask(t) ==
  /\ frames[t] # <<>>
  /\ faults < MaxFaults
  /\ faults' = faults + 1
  /\ frames' = [frames EXCEPT ![t] = <<>>]
  /\ owner' = [i \in Ids |-> IF owner[i] = t THEN NoId ELSE owner[i]]
  /\ UNCHANGED <<journal, now, calls, history>>

Restart ==
  /\ faults < MaxFaults
  /\ \E t \in Tasks : frames[t] # <<>>
  /\ faults' = faults + 1
  /\ frames' = [t \in Tasks |-> <<>>]
  /\ owner' = [i \in Ids |-> NoId]
  /\ UNCHANGED <<journal, now, calls, history>>

-----------------------------------------------------------------------------
Step(t) ==
  \/ CallNested(t)
  \/ Acquire(t)
  \/ Lookup(t)
  \/ Refuse(t)
  \/ RecordRequest(t)
  \/ Execute(t)
  \/ TakesEffect(t)
  \/ \E status \in Statuses : HandlerReturns(t, status)
  \/ HandlerRaises(t)
  \/ \E n \in DOMAIN frames[t] : DeadlinePasses(t, n)
  \/ RecordResult(t)
  \/ ResultFails(t)

Next ==
  \/ Tick
  \/ \E t \in Tasks, i \in Ids : Call(t, i)
  \/ \E t \in Tasks : Step(t)
  \/ \E t \in Tasks : CancelTask(t)
  \/ Restart

Spec == Init /\ [][Next]_vars

\* Tasks go on; handlers return or raise.
FairSpec == Spec /\ \A t \in Tasks : WF_vars(Step(t))

-----------------------------------------------------------------------------
\* Properties.

\* Types; a slot is held by the task that works under it and by no other.
TypeOK ==
  /\ requested \in [Ids -> {"none", "resolved", "rejected"}]
  /\ receipt \in [Ids -> Statuses \cup {"none"}]
  /\ \A t \in Tasks : \A n \in DOMAIN frames[t] :
       /\ frames[t][n].id \in Ids
       /\ frames[t][n].at \in Places
       /\ (frames[t][n].at # "waiting") = (owner[frames[t][n].id] = t)
  /\ owner \in [Ids -> Tasks \cup {NoId}]
  /\ now \in 0..MaxTime
  /\ effects \subseteq Ids
  /\ entries \in [Ids -> Nat]

\* A command that cannot protect itself is entered at most once, whatever is
\* retried, cancelled or restarted, and nothing is entered without its record.
EnteredOnce ==
  \A i \in Ids :
    /\ Kind[i] = "command" => entries[i] <= 1
    /\ entries[i] > 0 => requested[i] = "resolved"

\* A receipt is what happened: success after the effect, and a failed command
\* had none and will have none.
ReceiptTrue ==
  \A i \in Ids : IsCommand(i) =>
    /\ receipt[i] = "succeeded" => i \in effects
    /\ receipt[i] = "failed" /\ Kind[i] = "command" => i \notin effects

\* All callers of an identity are given the one receipt in the journal.
OneAnswer == \A a \in answers : receipt[a.id] = a.status

\* One effect, one receipt, one answer per identity.
OperationsSound == TypeOK /\ EnteredOnce /\ ReceiptTrue /\ OneAnswer

\* Every call returns: slots are given back on every path, and handlers that
\* dispatch others do not wait for each other.
CallsReturn == \A t \in Tasks : []<>(frames[t] = <<>>)
=============================================================================
