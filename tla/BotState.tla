------------------------------ MODULE BotState ------------------------------
(***************************************************************************)
(* JournalBotState: projections of one bot's scope of the world journal.   *)
(* Several stores, of one process or of several, share the journal; each   *)
(* has a lock of its own, reads what it has not seen in pages, and appends *)
(* a change under the commit id of the version it makes.  Between any two  *)
(* of these steps other stores and other writers of the scope may commit,  *)
(* the calling task may be cancelled, or the process may end.              *)
(***************************************************************************)
EXTENDS Naturals, Sequences, SequencesExt

CONSTANTS Goals, Wakes, NoGoal,
          Stores,    \* JournalBotState objects
          Changes,   \* BotChange without its version: [command, goals, wakes]
          Home,      \* command -> the store its caller uses
          PageSize,  \* _PAGE_SIZE
          MaxLog     \* bound: commits in the scope

VARIABLES
  log,       \* the scope: [kind, version, expected, change, after]
  at,        \* store -> "idle", "refresh", "append" or "recheck"
  job,       \* store -> the submitted [change, expected]
  snap,      \* store -> _snapshot
  position,  \* store -> _position
  commands,  \* store -> _commands: the changes applied, with their versions
  reply      \* history: store -> the last answer of apply

vars == <<log, at, job, snap, position, commands, reply>>

Nothing == [x \in {} |-> "absent"]
NoChange == [command |-> "none", goals |-> Nothing, wakes |-> Nothing]
NoJob == [change |-> NoChange, expected |-> 0]

\* The subject the journal stands for.  "after" is a history field: the state
\* its writer computed for the commit.
StateAt(n) ==
  LET states == {i \in 1..n : log[i].kind = "state"}
  IN  IF states = {} THEN [version |-> 0,
                           goals |-> [g \in Goals |-> "absent"],
                           wakes |-> [w \in Wakes |->
                                        [goal |-> NoGoal, status |-> "absent"]]]
      ELSE log[CHOOSE i \in states : \A j \in states : j <= i].after
Truth == StateAt(Len(log))

Subject == INSTANCE BotSubject WITH subject <- Truth

ASSUME StateAssumption ==
  /\ NoGoal \notin Goals
  /\ PageSize \in Nat \ {0}
  /\ MaxLog \in Nat
  /\ \A c, d \in Changes : c.command = d.command => c = d
  /\ \A c \in Changes :
       /\ Home[c.command] \in Stores
       /\ DOMAIN c.goals \subseteq Goals /\ DOMAIN c.wakes \subseteq Wakes
       /\ \A g \in DOMAIN c.goals : c.goals[g] \in Subject!GoalStatus
       /\ \A w \in DOMAIN c.wakes :
            c.wakes[w] \in [goal : Goals \cup {NoGoal}, status : Subject!WakeStatus]

Init ==
  /\ log = <<>>
  /\ at = [st \in Stores |-> "idle"]
  /\ job = [st \in Stores |-> NoJob]
  /\ snap = [st \in Stores |-> Subject!Empty]
  /\ position = [st \in Stores |-> 0]
  /\ commands = [st \in Stores |-> {}]
  /\ reply = [st \in Stores |-> "none"]

\* Operators named Bug_... are one-slip variants of the operator that follows
\* them.  No action uses them; substituted for it, each breaks a property below.

Submitted(st) == [change |-> job[st].change, expected |-> job[st].expected]
Answer(st, answer) ==
  /\ reply' = [reply EXCEPT ![st] = answer]
  /\ at' = [at EXCEPT ![st] = "idle"]
  /\ IF answer = "none" THEN job' = [job EXCEPT ![st] = NoJob] ELSE UNCHANGED job

-----------------------------------------------------------------------------
\* apply(change): the version is whatever the caller read or was told.
Submit(st, change, expected) ==
  /\ at[st] = "idle"
  /\ Home[change.command] = st
  /\ job' = [job EXCEPT ![st] = [change |-> change, expected |-> expected]]
  /\ at' = [at EXCEPT ![st] = "refresh"]
  /\ reply' = [reply EXCEPT ![st] = "none"]
  /\ UNCHANGED <<log, snap, position, commands>>

\* snapshot(): the projection catches up, nothing is changed.
ReadSnapshot(st) ==
  /\ at[st] = "idle"
  /\ job' = [job EXCEPT ![st] = NoJob]
  /\ at' = [at EXCEPT ![st] = "refresh"]
  /\ reply' = [reply EXCEPT ![st] = "none"]
  /\ UNCHANGED <<log, snap, position, commands>>

\* _restore of one commit onto a projection; _refresh goes over a page of them.
Bug_Restored(s, entry) ==
  IF entry.kind = "state"
  THEN [version |-> entry.version,
        goals |-> Subject!Over(s.goals, entry.change.goals),
        wakes |-> Subject!Over(s.wakes, entry.change.wakes)]
  ELSE s
Restored(s, entry) ==
  IF entry.kind = "state" THEN Subject!Project(s, entry.change) ELSE s

Unread(st) == SubSeq(log, position[st] + 1, Len(log))
Page(st) == SubSeq(Unread(st), 1, IF Len(Unread(st)) < PageSize
                                  THEN Len(Unread(st)) ELSE PageSize)

Consumed(st) == Len(Page(st))

\* The projection after a page: _restore of its commits, one by one.
Folded(s, page) ==
  LET state[n \in 0..Len(page)] == IF n = 0 THEN s ELSE Restored(state[n - 1], page[n])
  IN  state[Len(page)]

ReadPage(st) ==
  /\ at[st] \in {"refresh", "recheck"}
  /\ Page(st) # <<>>
  /\ snap' = [snap EXCEPT ![st] = Folded(@, Page(st))]
  /\ commands' = [commands EXCEPT ![st] =
       @ \cup {[change |-> e.change, expected |-> e.expected] :
                 e \in {x \in ToSet(Page(st)) : x.kind = "state"}}]
  /\ position' = [position EXCEPT ![st] = @ + Consumed(st)]
  /\ UNCHANGED <<log, at, job, reply>>

\* The refresh has caught up: the change is judged against the projection.
Stale(st) == job[st].expected # snap[st].version

Bug_Known(st) == {}
Known(st) == {c \in commands[st] : c.change.command = job[st].change.command}

Judge(st) ==
  /\ at[st] = "refresh"
  /\ Page(st) = <<>>
  /\ CASE job[st] = NoJob -> Answer(st, "none")
       [] job[st] # NoJob /\ Known(st) # {} ->
            Answer(st, IF Submitted(st) \in Known(st) THEN "applied" ELSE "reused")
       [] job[st] # NoJob /\ Known(st) = {} /\ Stale(st) -> Answer(st, "conflict")
       [] /\ job[st] # NoJob /\ Known(st) = {} /\ ~Stale(st)
          /\ ~Subject!Acceptable(snap[st], job[st].change) ->
            Answer(st, "refused")
       [] OTHER -> at' = [at EXCEPT ![st] = "append"] /\ UNCHANGED <<job, reply>>
  /\ UNCHANGED <<log, snap, position, commands>>

Entry(st) ==
  [kind |-> "state", version |-> snap[st].version + 1, expected |-> job[st].expected,
   change |-> job[st].change,
   after |-> Subject!Project(snap[st], job[st].change)]

\* The commit id is made of the version.  A commit that is there already has
\* other content: only its own caller submits a command, and a retry refreshes
\* the projection before it comes here.
Bug_Taken(st) ==
  \E i \in DOMAIN log : log[i].kind = "state" /\ log[i].change = job[st].change
Taken(st) ==
  \E i \in DOMAIN log : log[i].kind = "state" /\ log[i].version = Entry(st).version

\* The projection moves to its own commit, past whatever other writers of the
\* scope appended since the refresh.
AppendChange(st) ==
  /\ at[st] = "append"
  /\ IF Taken(st)
     THEN /\ at' = [at EXCEPT ![st] = "recheck"]
          /\ UNCHANGED <<log, job, snap, position, commands, reply>>
     ELSE /\ Len(log) < MaxLog
          /\ log' = Append(log, Entry(st))
          /\ snap' = [snap EXCEPT ![st] = Entry(st).after]
          /\ position' = [position EXCEPT ![st] = Len(log')]
          /\ commands' = [commands EXCEPT ![st] = @ \cup {Submitted(st)}]
          /\ Answer(st, "applied")

\* After a refused append the version has moved, which makes it a conflict.
Recheck(st) ==
  /\ at[st] = "recheck"
  /\ Page(st) = <<>>
  /\ Stale(st)
  /\ Answer(st, "conflict")
  /\ UNCHANGED <<log, snap, position, commands>>

\* The calling task is cancelled; an append under way may still land.
CallCancelled(st) ==
  /\ at[st] # "idle"
  /\ \/ UNCHANGED log
     \/ /\ at[st] = "append"
        /\ ~Taken(st)
        /\ Len(log) < MaxLog
        /\ log' = Append(log, Entry(st))
  /\ Answer(st, "none")
  /\ UNCHANGED <<snap, position, commands>>

\* The process of a store ends and a new one starts from the journal.
Restart(st) ==
  /\ at[st] = "idle"
  /\ position[st] > 0
  /\ snap' = [snap EXCEPT ![st] = Subject!Empty]
  /\ position' = [position EXCEPT ![st] = 0]
  /\ commands' = [commands EXCEPT ![st] = {}]
  /\ Answer(st, "none")
  /\ UNCHANGED log

\* Tools and operations that publish to the scope of the bot.
OtherCommit ==
  /\ Len(log) < MaxLog
  /\ log' = Append(log, [kind |-> "other", version |-> 0, expected |-> 0,
                         change |-> NoChange, after |-> Truth])
  /\ UNCHANGED <<at, job, snap, position, commands, reply>>

-----------------------------------------------------------------------------
Store(st) ==
  \/ \E change \in Changes, expected \in 0..Truth.version : Submit(st, change, expected)
  \/ ReadSnapshot(st)
  \/ ReadPage(st)
  \/ Judge(st)
  \/ AppendChange(st)
  \/ Recheck(st)
  \/ CallCancelled(st)
  \/ Restart(st)

Next == OtherCommit \/ \E st \in Stores : Store(st)

Spec == Init /\ [][Next]_vars

-----------------------------------------------------------------------------
\* Properties.

Jobs == [change : Changes, expected : 0..MaxLog] \cup {NoJob}

\* Types.
TypeOK ==
  /\ Len(log) <= MaxLog
  /\ \A i \in DOMAIN log : log[i].kind \in {"state", "other"}
  /\ Truth \in Subject!Snapshot
  /\ at \in [Stores -> {"idle", "refresh", "append", "recheck"}]
  /\ job \in [Stores -> Jobs]
  /\ snap \in [Stores -> Subject!Snapshot]
  /\ position \in [Stores -> 0..Len(log)]
  /\ commands \in [Stores -> SUBSET Jobs]
  /\ reply \in [Stores -> {"none", "applied", "reused", "conflict", "refused"}]

\* The journal holds one line of versions, each commit made from the state it
\* was expected to follow: _restore never finds a gap, and no update is lost.
OneLine ==
  \A i \in DOMAIN log : log[i].kind = "state" =>
    LET before == StateAt(i - 1)
    IN  /\ log[i].version = before.version + 1
        /\ log[i].expected = before.version
        /\ Subject!Acceptable(before, log[i].change)
        /\ log[i].after = Subject!Project(before, log[i].change)

\* A projection is the state of the journal at its position, although stores
\* skip to their own commits, are cancelled in the middle of an append, and
\* start over.
ProjectionsFollow ==
  \A st \in Stores :
    /\ snap[st] = StateAt(position[st])
    /\ commands[st] = {[change |-> log[i].change, expected |-> log[i].expected] :
                         i \in {j \in 1..position[st] : log[j].kind = "state"}}

\* The journal and the projections agree on one history.
StateSound == TypeOK /\ OneLine /\ ProjectionsFollow

\* A command takes effect at most once, however often it is retried.
CommandOnce ==
  \A i, j \in DOMAIN log :
    log[i].kind = "state" /\ log[j].kind = "state"
    /\ log[i].change.command = log[j].change.command => i = j

Landed(change) == \E i \in DOMAIN log : log[i].kind = "state" /\ log[i].change = change

\* The answer tells the effect, which comes once: an applied command is in the
\* journal, one that was refused or in conflict is not.
AnswersTellEffect ==
  /\ CommandOnce
  /\ \A st \in Stores :
       /\ reply[st] = "applied" => Landed(job[st].change)
       /\ reply[st] \in {"conflict", "refused"} => ~Landed(job[st].change)

\* The stores of the subject, whatever their callers retry or cancel: one
\* history, and answers that tell the truth about it.
BotSound == StateSound /\ AnswersTellEffect

\* The journal changes the subject only as BotSubject allows: one accepted
\* change at a time, on the version it expects.
KeepsSubject ==
  Subject!SubjectInit
  /\ [][\E change \in Changes :
         Subject!Change(change, Truth.version)]_Truth
=============================================================================
