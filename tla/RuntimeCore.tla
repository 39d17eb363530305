----------------------------- MODULE RuntimeCore -----------------------------
(***************************************************************************)
(* AuroraRuntime (runtime/core.py): the one entry to cognition.  A call    *)
(* brings a text or an event, which is committed first, a commit, or the   *)
(* request of a clock or a cadence; all of them wait for one lock, look    *)
(* whether their run id is taken and have the engine execute.  Calls are   *)
(* cancelled at any await, another process may take a run id, and the      *)
(* process may end.  What the engine does is EngineRun; here it claims the *)
(* run id, or finds it taken, and returns a status or raises.              *)
(***************************************************************************)
EXTENDS Naturals, FiniteSets, SequencesExt

CONSTANTS Calls,      \* calls of the runtime
          Way,        \* call -> "text", "event", "commit" or "launch"
          Given,      \* call -> the run id it names; its own name stands for a new one
          MaxEnds     \* bound: ends of the process

VARIABLES place,      \* call -> where it is, see Places
          result,     \* call -> what became of it
          queue,      \* calls that wait for _cognition_lock, in order
          holder,     \* the call that holds it, or "-"
          counts,     \* _counts
          recorded,   \* run ids with a run:started record
          foreign,    \* history: run ids another process took
          inputs,     \* calls whose text or event was committed
          ends        \* number of ends of the process

vars == <<place, result, queue, holder, counts, recorded, foreign, inputs, ends>>

Places == {"new", "checking", "committing", "waiting", "looking", "claiming", "running", "done"}
Statuses == {"completed", "failed", "cancelled", "limit_reached"}
Counted == Statuses \cup {"interrupted"}
Zero == [name \in Counted \cup {"running"} |-> 0]

Init ==
  /\ place = [c \in Calls |-> "new"]
  /\ result = [c \in Calls |-> "none"]
  /\ queue = <<>>
  /\ holder = "-"
  /\ counts = Zero
  /\ recorded = {}
  /\ foreign = {}
  /\ inputs = {}
  /\ ends = 0

-----------------------------------------------------------------------------
Goes(c, to) == place' = [place EXCEPT ![c] = to]
Ends(c, how) == Goes(c, "done") /\ result' = [result EXCEPT ![c] = how]

\* The lock is free for who comes when nobody holds it or waits.
Acquires(c) ==
  IF holder = "-" /\ queue = <<>>
  THEN Goes(c, "looking") /\ holder' = c /\ UNCHANGED queue
  ELSE Goes(c, "waiting") /\ queue' = Append(queue, c) /\ UNCHANGED holder

\* run, run_from_event, run_from_commit and launch.  Only a text that names its
\* run is refused before it is committed.
Begin(c) ==
  /\ place[c] = "new"
  /\ CASE Way[c] = "text" /\ Given[c] # c -> Goes(c, "checking") /\ UNCHANGED <<queue, holder>>
       [] Way[c] = "event" \/ (Way[c] = "text" /\ Given[c] = c) ->
            Goes(c, "committing") /\ UNCHANGED <<queue, holder>>
       [] OTHER -> Acquires(c)
  /\ UNCHANGED <<result, counts, recorded, foreign, inputs, ends>>

Check(c) ==
  /\ place[c] = "checking"
  /\ IF Given[c] \in recorded THEN Ends(c, "refused") ELSE Goes(c, "committing") /\ UNCHANGED result
  /\ UNCHANGED <<queue, holder, counts, recorded, foreign, inputs, ends>>

CommitInput(c) ==
  /\ place[c] = "committing"
  /\ inputs' = inputs \cup {c}
  /\ Acquires(c)
  /\ UNCHANGED <<result, counts, recorded, foreign, ends>>

\* The first of those who wait gets the lock.
Take ==
  /\ holder = "-" /\ queue # <<>>
  /\ holder' = Head(queue)
  /\ queue' = Tail(queue)
  /\ Goes(Head(queue), "looking")
  /\ UNCHANGED <<result, counts, recorded, foreign, inputs, ends>>

Bug_IsNewRun(id) == TRUE

\* _require_new_run_id
IsNewRun(id) == id \notin recorded

Look(c) ==
  /\ place[c] = "looking"
  /\ IF IsNewRun(Given[c])
     THEN /\ Goes(c, "claiming")
          /\ counts' = [counts EXCEPT !["running"] = @ + 1]
          /\ UNCHANGED <<result, holder>>
     ELSE Ends(c, "refused") /\ holder' = "-" /\ UNCHANGED counts
  /\ UNCHANGED <<queue, recorded, foreign, inputs, ends>>

Bug_After(name) == [counts EXCEPT ![name] = @ + 1]

\* The outcome is counted and the run no longer is, whatever it raised.
After(name) == [counts EXCEPT ![name] = @ + 1, !["running"] = @ - 1]

Returns(c, name, how) ==
  /\ counts' = After(name)
  /\ holder' = "-"
  /\ Ends(c, how)

\* The engine claims the run with its run:started record.
Claim(c) ==
  /\ place[c] = "claiming"
  /\ IF Given[c] \in recorded
     THEN Returns(c, "failed", "conflict") /\ UNCHANGED recorded
     ELSE Goes(c, "running") /\ recorded' = recorded \cup {Given[c]} /\ UNCHANGED <<result, holder, counts>>
  /\ UNCHANGED <<queue, foreign, inputs, ends>>

Executed(c) ==
  /\ place[c] = "running"
  /\ \E status \in Statuses : Returns(c, status, status)
  /\ UNCHANGED <<queue, recorded, foreign, inputs, ends>>

ExecuteRaises(c) ==
  /\ place[c] \in {"claiming", "running"}
  /\ Returns(c, "failed", "raised")
  /\ UNCHANGED <<queue, recorded, foreign, inputs, ends>>

\* The task of a call is cancelled at an await; what it was writing, its input
\* or its claim, may be there.
Cancel(c) ==
  /\ place[c] \notin {"new", "done"}
  /\ IF place[c] \in {"claiming", "running"}
     THEN Returns(c, "interrupted", "interrupted")
     ELSE /\ Ends(c, "cut")
          /\ holder' = IF holder = c THEN "-" ELSE holder
          /\ UNCHANGED counts
  /\ queue' = RemoveFirst(queue, c)
  /\ inputs' \in {inputs} \cup (IF place[c] = "committing" THEN {inputs \cup {c}} ELSE {})
  /\ recorded' \in {recorded} \cup (IF place[c] = "claiming" THEN {recorded \cup {Given[c]}} ELSE {})
  /\ UNCHANGED <<foreign, ends>>

-----------------------------------------------------------------------------
\* A process that shares the journal starts a run of that id.
Rival ==
  /\ \E c \in Calls :
       /\ Given[c] # c /\ Given[c] \notin recorded
       /\ recorded' = recorded \cup {Given[c]}
       /\ foreign' = foreign \cup {Given[c]}
  /\ UNCHANGED <<place, result, queue, holder, counts, inputs, ends>>

\* Everything but the journal is gone.
ProcessEnds ==
  /\ ends < MaxEnds
  /\ ends' = ends + 1
  /\ place' = [c \in Calls |-> IF place[c] = "new" THEN "new" ELSE "done"]
  /\ result' = [c \in Calls |-> IF place[c] = "new" THEN "none" ELSE "lost"]
  /\ queue' = <<>>
  /\ holder' = "-"
  /\ counts' = Zero
  /\ UNCHANGED <<recorded, foreign, inputs>>

Next ==
  \/ \E c \in Calls :
       \/ Begin(c) \/ Check(c) \/ CommitInput(c) \/ Look(c) \/ Claim(c)
       \/ Executed(c) \/ ExecuteRaises(c) \/ Cancel(c)
  \/ Take \/ Rival \/ ProcessEnds

Spec == Init /\ [][Next]_vars

-----------------------------------------------------------------------------
\* Properties.

TypeOK ==
  /\ place \in [Calls -> Places]
  /\ result \in [Calls -> Counted \cup {"none", "refused", "conflict", "raised", "cut", "lost"}]
  /\ ToSet(queue) \subseteq Calls /\ IsInjective(queue)
  /\ holder \in Calls \cup {"-"}
  /\ counts \in [Counted \cup {"running"} -> Nat]

Is(c, names) == result[c] \in names

\* One cognition at a time, and the lock is held just as long.
OneAtATime ==
  \A c \in Calls : place[c] \in {"looking", "claiming", "running"} <=> holder = c

\* Two calls of one process never meet at a run id: whether it is taken is
\* looked up where nobody else of the process can take it, so that a run fails
\* on its claim only if another process took it.
ConflictsAreForeign == \A c \in Calls : Is(c, {"conflict"}) => Given[c] \in foreign

\* runtime_status tells each call that was let in once, under what became of
\* it, and none that was refused or cut off before.
CountsTrue ==
  /\ counts["running"] = Cardinality({ c \in Calls : place[c] \in {"claiming", "running"} })
  /\ \A name \in Counted :
       counts[name] =
         Cardinality({ c \in Calls :
                         \/ Is(c, {name})
                         \/ name = "failed" /\ Is(c, {"conflict", "raised"}) })

\* A text that is refused at once leaves nothing, one that was let in is there.
InputsKept ==
  \A c \in Calls : Way[c] \in {"text", "event"} =>
    /\ place[c] \in {"new", "checking"} => c \notin inputs
    /\ place[c] \in {"waiting", "looking", "claiming", "running"} => c \in inputs

\* The entry to cognition is serial and its status true.
RuntimeSound == TypeOK /\ OneAtATime /\ ConflictsAreForeign /\ CountsTrue /\ InputsKept
=============================================================================
