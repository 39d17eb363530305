--------------------------- MODULE TerminalConsole ---------------------------
(***************************************************************************)
(* The terminal front (console/shell.py) and its dispatcher                *)
(* (runtime/terminal.py): a loop that waits for a line or for the stop,    *)
(* commits a message to the world before it is thought about, and leaves   *)
(* local commands to the dispatcher.  The user types, others request the   *)
(* stop, and the supervisor cancels the front at any await, as it does     *)
(* when the process stops for a reason that is not the terminal.           *)
(***************************************************************************)
EXTENDS Naturals, Sequences

CONSTANT MaxLines   \* bound: lines the user enters

\* What a line is to the dispatcher.
Kinds == {"blank", "message", "resource", "local", "quit"}

VARIABLES stop,       \* the stop event
          place,      \* where run() is, see Places
          reader,     \* the read task
          waiter,     \* the task that waits for the stop
          line,       \* the kind of the line in hand, or "-"
          typed,      \* lines the read task took from the user
          committed,  \* the typed lines that were committed, by number
          answered,   \* the typed lines whose dispatch returned, by number
          exit        \* how the front ended

vars == <<stop, place, reader, waiter, line, typed, committed, answered, exit>>
world == <<committed, answered>>

Places == {"top", "reading", "joining", "committing", "dispatching", "over"}
Tasks == {"none", "pending", "done", "closed", "broken", "cancelled"}

Init ==
  /\ stop = FALSE
  /\ place = "top"
  /\ reader = "none" /\ waiter = "none"
  /\ line = "-"
  /\ typed = <<>>
  /\ committed = <<>> /\ answered = <<>>
  /\ exit = "-"

-----------------------------------------------------------------------------
Number == Len(typed)
Ends(how) == place' = "over" /\ exit' = how
Goes(to) == place' = to /\ UNCHANGED exit

\* The loop: the stop is looked at before every line.
Top ==
  /\ place = "top"
  /\ IF stop
     THEN Ends("returned") /\ UNCHANGED <<reader, waiter>>
     ELSE Goes("reading") /\ reader' = "pending" /\ waiter' = "pending"
  /\ UNCHANGED <<stop, line, typed, world>>

\* The read task: a line, the end of the input, or an error of the terminal.
\* It goes on whoever waits.
UserTypes ==
  /\ reader = "pending" /\ Number < MaxLines
  /\ \E kind \in Kinds : typed' = Append(typed, kind)
  /\ reader' = "done"
  /\ UNCHANGED <<stop, place, waiter, line, world, exit>>

InputEnds ==
  /\ reader = "pending"
  /\ reader' = "closed"
  /\ UNCHANGED <<stop, place, waiter, line, typed, world, exit>>

ReadFails ==
  /\ reader = "pending"
  /\ reader' = "broken"
  /\ UNCHANGED <<stop, place, waiter, line, typed, world, exit>>

StopSeen ==
  /\ waiter = "pending" /\ stop
  /\ waiter' = "done"
  /\ UNCHANGED <<stop, place, reader, line, typed, world, exit>>

\* Bug_Cut is a one-slip variant of the operator that follows it.  No action
\* uses it; substituted for it, it breaks a property below.
Bug_Cut(task) == task

\* A task that is still pending when the other one is done is cancelled.
Cut(task) == IF task = "pending" THEN "cancelled" ELSE task

\* The first of the two is done: the other is cancelled and waited for.
Wake ==
  /\ place = "reading"
  /\ reader # "pending" \/ waiter # "pending"
  /\ reader' = Cut(reader) /\ waiter' = Cut(waiter)
  /\ Goes("joining")
  /\ UNCHANGED <<stop, line, typed, world>>

\* _read_input_or_stop: a stop is preferred to what came with it, an error of
\* the read is raised again, and _run_front requests the stop.
StopFirst == waiter = "done"

Joined ==
  /\ place = "joining"
  /\ \/ StopFirst /\ Ends("returned") /\ UNCHANGED <<stop, line>>
     \/ ~StopFirst /\ reader = "closed" /\ stop' = TRUE /\ Ends("returned") /\ UNCHANGED line
     \/ ~StopFirst /\ reader = "broken" /\ stop' = TRUE /\ Ends("raised") /\ UNCHANGED line
     \/ /\ ~StopFirst /\ reader = "done"
        /\ Goes(CASE typed[Number] = "blank" -> "top"
                  [] typed[Number] = "message" -> "committing"
                  [] OTHER -> "dispatching")
        /\ line' = IF typed[Number] = "blank" THEN "-" ELSE typed[Number]
        /\ UNCHANGED stop
  /\ UNCHANGED <<reader, waiter, typed, world>>

\* The message is in the world before anybody thinks about it.
CommitMessage ==
  /\ place = "committing"
  /\ \/ committed' = Append(committed, Number) /\ Goes("dispatching") /\ UNCHANGED stop
     \/ UNCHANGED committed /\ stop' = TRUE /\ Ends("raised")
  /\ UNCHANGED <<reader, waiter, line, typed, answered>>

\* dispatch_terminal: a run or an operation may also raise, which ends the
\* front, and _run_front requests the stop; a command to quit does as well.
Dispatch ==
  /\ place = "dispatching"
  /\ \/ /\ answered' = Append(answered, Number)
        /\ IF line = "quit" THEN stop' = TRUE /\ Ends("returned") ELSE Goes("top") /\ UNCHANGED stop
     \/ /\ line \in {"message", "resource"}
        /\ stop' = TRUE /\ Ends("raised")
        /\ UNCHANGED answered
  /\ line' = "-"
  /\ UNCHANGED <<reader, waiter, typed, committed>>

RequestStop ==
  /\ ~stop /\ stop' = TRUE
  /\ UNCHANGED <<place, reader, waiter, line, typed, world, exit>>

\* The supervisor requests the stop and cancels the front; what was being
\* committed may be there.  asyncio.wait leaves its tasks alone, while those
\* being joined are cancelled already.
Cancel ==
  /\ place \in Places \ {"top", "over"}
  /\ stop' = TRUE
  /\ Ends("cancelled")
  /\ committed' \in {committed} \cup
       (IF place = "committing" THEN {Append(committed, Number)} ELSE {})
  /\ line' = "-"
  /\ UNCHANGED <<reader, waiter, typed, answered>>

Console == Top \/ Wake \/ Joined \/ CommitMessage \/ Dispatch
Next == Console \/ UserTypes \/ InputEnds \/ ReadFails \/ StopSeen \/ RequestStop \/ Cancel

Spec == Init /\ [][Next]_vars

-----------------------------------------------------------------------------
\* Properties.

TypeOK ==
  /\ place \in Places /\ reader \in Tasks /\ waiter \in Tasks
  /\ line \in Kinds \cup {"-"}
  /\ exit \in {"-", "returned", "raised", "cancelled"} /\ (exit = "-" <=> place # "over")

Increasing(seq) == \A i, j \in DOMAIN seq : i < j => seq[i] < seq[j]

\* Lines are taken one after the other: each message once in the world, in the
\* order of the user, and answered there before the next one is read, so that
\* only the end of the front can leave one behind, the last.
LinesInTurn ==
  /\ Increasing(committed) /\ Increasing(answered)
  /\ \A i \in DOMAIN committed : typed[committed[i]] = "message"
  /\ \A n \in DOMAIN typed : typed[n] # "blank" =>
       \/ \E i \in DOMAIN answered : answered[i] = n
       \/ n = Len(typed) /\ (place # "top" \/ stop)
  /\ \A i \in DOMAIN answered : typed[answered[i]] = "message" =>
       \E j \in DOMAIN committed : committed[j] = answered[i]

\* A front that ends by itself leaves the stop behind it and no task.
LeavesClean ==
  /\ place = "over" => stop
  /\ exit \in {"returned", "raised"} => "pending" \notin {reader, waiter}

ConsoleSound == TypeOK /\ LinesInTurn /\ LeavesClean

\* supervision.py, _run_fronts: before the resources are closed no running task
\* of a front is left, so that a cancelled front has ended its read as well.
NoTaskLeft == place = "over" => reader # "pending"
=============================================================================
