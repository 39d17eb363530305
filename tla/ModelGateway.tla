---------------------------- MODULE ModelGateway ----------------------------
(***************************************************************************)
(* LiteLLMModelGateway.complete (ai/gateway.py): one request to a model    *)
(* endpoint.  The endpoint's binding bounds one attempt, the number of     *)
(* attempts and all of them together; the remote model answers, fails or   *)
(* stays silent; the run that asked may be cancelled.  Timers fire when    *)
(* they are due, in either order when both are.                            *)
(***************************************************************************)
EXTENDS Naturals, Sequences

CONSTANTS Timeouts,  \* ModelBinding.timeout_seconds
          Totals,    \* ModelBinding.total_timeout_seconds
          Counts     \* ModelBinding.max_attempts

\* The policies that ModelBinding.__post_init__ lets pass.
Bindings ==
  {b \in [timeout : Timeouts, total : Totals, attempts : Counts] :
     0 < b.timeout /\ b.timeout <= b.total /\ 0 < b.attempts}

VARIABLES binding,   \* the policy of the endpoint
          now,       \* the loop's clock, from the beginning of the request
          place,     \* "new", "waiting" for an attempt, or "over"
          tries,     \* history: the attempts, [from, to, how]
          told       \* what complete() returns or raises, see Told

vars == <<binding, now, place, tries, told>>

Told == {"nothing", "refused", "answer", "invalid", "failed", "deadline", "cancelled"}
Open == "open"
Attempt == [from |-> now, to |-> now, how |-> Open]

Init ==
  /\ binding \in Bindings
  /\ now = 0
  /\ place = "new"
  /\ tries = <<>>
  /\ told = "nothing"

-----------------------------------------------------------------------------
Current == Len(tries)
Closed(how) == [tries EXCEPT ![Current].to = now, ![Current].how = how]
Is(how) == place' = "over" /\ told' = how
AttemptDue == now >= tries[Current].from + binding.timeout
TotalDue == now >= binding.total

\* The endpoint is unknown, of another version than the request's, or has no
\* key: nothing is sent.
Refuse == place = "new" /\ Is("refused") /\ UNCHANGED <<binding, now, tries>>

Begin ==
  /\ place = "new"
  /\ place' = "waiting"
  /\ tries' = <<Attempt>>
  /\ UNCHANGED <<binding, now, told>>

\* A response that is no assistant message, or that names an unknown tool, is
\* an error of the request, which no attempt follows.
Answers ==
  /\ place = "waiting"
  /\ tries' = Closed("answered")
  /\ \E how \in {"answer", "invalid"} : Is(how)
  /\ UNCHANGED <<binding, now>>

\* Operators named Bug_... are one-slip variants of the operator that follows
\* them.  No action uses them; substituted for it, each breaks a property below.

Bug_Last == Current > binding.attempts
Last == Current >= binding.attempts

\* complete() tells every TimeoutError as one of the total deadline.
Error(how) == IF how = "timeout" THEN "deadline" ELSE "failed"

\* _complete_with_attempts: the next attempt begins at once.
Fails(how) ==
  /\ IF Last
     THEN tries' = Closed(how) /\ Is(Error(how))
     ELSE tries' = Append(Closed(how), Attempt) /\ UNCHANGED <<place, told>>
  /\ UNCHANGED <<binding, now>>

\* The remote call raises, a TimeoutError of its own included.
CallRaises == place = "waiting" /\ \E how \in {"error", "timeout"} : Fails(how)

AttemptTimesOut == place = "waiting" /\ AttemptDue /\ Fails("timeout")

Bug_Interrupted(how) ==
  IF Last THEN Closed("cut") ELSE Append(Closed("cut"), Attempt)

\* A cancellation is no Exception: the loop of attempts does not catch it.
Interrupted(how) == Closed("cut")

TotalTimesOut ==
  /\ place = "waiting" /\ TotalDue
  /\ tries' = Interrupted("deadline")
  /\ Is("deadline")
  /\ UNCHANGED <<binding, now>>

Cancel ==
  /\ place = "waiting"
  /\ tries' = Interrupted("cancelled")
  /\ Is("cancelled")
  /\ UNCHANGED <<binding, now>>

\* No time passes over a timer that is due.
TimePasses ==
  /\ place = "waiting" /\ ~AttemptDue /\ ~TotalDue
  /\ now' = now + 1
  /\ UNCHANGED <<binding, place, tries, told>>

Timers == TimePasses \/ AttemptTimesOut \/ TotalTimesOut

Next == Refuse \/ Begin \/ Answers \/ CallRaises \/ Cancel \/ Timers

Spec == Init /\ [][Next]_vars

-----------------------------------------------------------------------------
\* Properties.

TypeOK ==
  /\ binding \in Bindings
  /\ now \in Nat
  /\ place \in {"new", "waiting", "over"}
  /\ told \in Told /\ (told = "nothing" <=> place # "over")

\* Attempts follow each other, each one that failed, as many as the binding
\* allows and none over an open one; an open one belongs to a waiting request.
AttemptsInTurn ==
  /\ Len(tries) <= binding.attempts
  /\ \A n \in DOMAIN tries :
       /\ tries[n].to <= tries[n].from + binding.timeout
       /\ n < Len(tries) => tries[n].how \in {"error", "timeout"} /\ tries[n].to = tries[n + 1].from
  /\ (\E n \in DOMAIN tries : tries[n].how = Open) <=> place = "waiting"

\* A request is over by the total deadline whatever the model does, and given
\* up only then, after the last attempt or at the will of who asked.
BoundedInAll ==
  /\ now <= binding.total
  /\ told \in {"failed", "deadline"} => now = binding.total \/ Len(tries) = binding.attempts
  /\ told = "refused" => tries = <<>>

GatewaySound == TypeOK /\ AttemptsInTurn /\ BoundedInAll
=============================================================================
