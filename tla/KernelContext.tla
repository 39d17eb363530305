---------------------------- MODULE KernelContext ----------------------------
(***************************************************************************)
(* The shared context of aurora_kernel: namespaces of values, single       *)
(* writes, transactions that stage a copy and commit it whole, and         *)
(* watchers that are told of each change after it was recorded, by the     *)
(* caller that made it and outside the lock.                               *)
(***************************************************************************)
EXTENDS Naturals, Sequences, SequencesExt

CONSTANTS
  Callers,      \* threads and tasks that use the context
  Cells,        \* <<namespace, key>>; the key "" stands for the namespace itself
  Values,
  Watchers,
  Failing,      \* watchers that raise,
  Recursing,    \*   and those that write to the context they watch
  MaxRevision   \* bound: changes in all

VARIABLES
  data,         \* cell -> value or Absent; a namespace that exists has Made
  revision,
  watchers,     \* the subscribed callbacks, in order
  caller,       \* what each caller holds: its place, its staged copy, its change
  changes,          \* history: the changes, as functions from cells to values
  told          \* history: watcher -> revisions it was told, since its subscription

ctxVars == <<data, revision, watchers, caller, changes, told>>

Absent == "absent"
Made == "made"
Space(c) == <<c[1], "">>
IsSpace(c) == c[2] = ""
Idle == [place |-> "idle", version |-> 0, staged |-> <<>>, changed |-> {}, todo |-> <<>>,
         change |-> 0, failed |-> FALSE]

Init ==
  /\ data = [c \in Cells |-> Absent]
  /\ revision = 0
  /\ watchers = <<>>
  /\ caller = [t \in Callers |-> Idle]
  /\ changes = <<>>
  /\ told = [w \in Watchers |-> [new |-> TRUE, since |-> 0, revisions |-> <<>>]]

-----------------------------------------------------------------------------
\* _check_write: a watcher's own call is still notifying.
MayWrite(t) == caller[t].place # "notifying"

\* _record under the lock, after the new data; the watchers are read when
\* _notify takes the lock again.
Recorded(t, new, cells) ==
  /\ revision < MaxRevision
  /\ data' = new
  /\ revision' = revision + 1
  /\ changes' = Append(changes, [c \in cells |-> new[c]])
  /\ caller' = [caller EXCEPT ![t] = [Idle EXCEPT !.place = "recorded", !.change = revision']]

\* What one edit makes of the data: an assignment, a deletion, ensure().
Edited(old, c, v) ==
  IF IsSpace(c) THEN old[c] = Absent /\ v = Made
  ELSE /\ old[Space(c)] = Made
       /\ v \in Values \/ (v = Absent /\ old[c] # Absent)
Edits == Cells \X (Values \cup {Absent, Made})

Write(t) ==
  /\ caller[t].place = "idle" /\ MayWrite(t)
  /\ \E e \in Edits : Edited(data, e[1], e[2]) /\ Recorded(t, [data EXCEPT ![e[1]] = e[2]], {e[1]})
  /\ UNCHANGED <<watchers, told>>

\* Reading the revision, to name it later.
Look(t) ==
  /\ caller[t].place = "idle"
  /\ caller' = [caller EXCEPT ![t].place = "looked", ![t].version = revision]
  /\ UNCHANGED <<data, revision, watchers, changes, told>>

\* transaction(): the copy is taken under the lock; an expected revision that
\* is no longer the current one is refused.
Begin(t) ==
  /\ caller[t].place \in {"idle", "looked"}
  /\ caller' = [caller EXCEPT ![t] =
       IF @.place = "looked" /\ @.version # revision THEN Idle
       ELSE [Idle EXCEPT !.place = "staging", !.version = revision, !.staged = data]]
  /\ UNCHANGED <<data, revision, watchers, changes, told>>

Stage(t) ==
  /\ caller[t].place = "staging"
  /\ \E e \in Edits :
       /\ Edited(caller[t].staged, e[1], e[2])
       /\ e[1] \notin caller[t].changed
       /\ caller' = [caller EXCEPT ![t].staged[e[1]] = e[2], ![t].changed = @ \cup {e[1]}]
  /\ UNCHANGED <<data, revision, watchers, changes, told>>

\* The body raises, or it changed nothing.
Leave(t) ==
  /\ caller[t].place = "staging"
  /\ caller' = [caller EXCEPT ![t] = Idle]
  /\ UNCHANGED <<data, revision, watchers, changes, told>>

Bug_Current(t) == TRUE
Current(t) == revision = caller[t].version

Commit(t) ==
  /\ caller[t].place = "staging"
  /\ caller[t].changed # {}
  /\ IF Current(t) THEN Recorded(t, caller[t].staged, caller[t].changed)
     ELSE /\ caller' = [caller EXCEPT ![t] = Idle]
          /\ UNCHANGED <<data, revision, changes>>
  /\ UNCHANGED <<watchers, told>>

-----------------------------------------------------------------------------
\* _notify and subscribe.

Notify(t) ==
  /\ caller[t].place = "recorded"
  /\ caller' = [caller EXCEPT ![t].place = "notifying", ![t].todo = watchers]
  /\ UNCHANGED <<data, revision, watchers, changes, told>>

\* One callback: it returns, raises, or tries to write and is refused; the
\* next is called in any case.
Rest(t, w) == Tail(caller[t].todo)

Tell(t) ==
  /\ caller[t].place = "notifying"
  /\ caller[t].todo # <<>>
  /\ LET w == Head(caller[t].todo) IN
     /\ told' = [told EXCEPT ![w].revisions = Append(@, caller[t].change)]
     /\ IF w \in Recursing /\ MayWrite(t)
        THEN \E e \in Edits : Edited(data, e[1], e[2]) /\ Recorded(t, [data EXCEPT ![e[1]] = e[2]], {e[1]})
        ELSE /\ caller' = [caller EXCEPT ![t].todo = Rest(t, w),
                                         ![t].failed = @ \/ w \in Failing \cup Recursing]
             /\ UNCHANGED <<data, revision, changes>>
  /\ UNCHANGED watchers

\* The caller returns, or raises that the change was made and a watcher failed.
Return(t) ==
  /\ caller[t].place = "notifying"
  /\ caller[t].todo = <<>>
  /\ caller' = [caller EXCEPT ![t] = Idle]
  /\ UNCHANGED <<data, revision, watchers, changes, told>>

\* A watcher stands for one subscription.
Subscribe(w) ==
  /\ told[w].new
  /\ watchers' = Append(watchers, w)
  /\ told' = [told EXCEPT ![w] = [new |-> FALSE, since |-> revision, revisions |-> <<>>]]
  /\ UNCHANGED <<data, revision, caller, changes>>

Unsubscribe(w) ==
  /\ Contains(watchers, w)
  /\ watchers' = RemoveFirst(watchers, w)
  /\ UNCHANGED <<data, revision, caller, changes, told>>

Step(t) == \/ Write(t) \/ Look(t) \/ Begin(t) \/ Stage(t) \/ Leave(t) \/ Commit(t)
           \/ Notify(t) \/ Tell(t) \/ Return(t)

Next == \/ \E t \in Callers : Step(t)
        \/ \E w \in Watchers : Subscribe(w) \/ Unsubscribe(w)

CtxSpec == Init /\ [][Next]_ctxVars

-----------------------------------------------------------------------------
\* Properties.

\* The data is what the recorded changes make of the empty context, one after
\* the other: a cell is as the last change of it left it.  A transaction never
\* takes back what was written beside it, and all it staged is there or none.
Changed(n, c) == n \in DOMAIN changes /\ c \in DOMAIN changes[n]
Serial ==
  /\ revision = Len(changes)
  /\ \A c \in Cells :
       \/ data[c] = Absent /\ \A n \in 1..revision : ~Changed(n, c)
       \/ \E n \in 1..revision :
            Changed(n, c) /\ data[c] = changes[n][c] /\ \A m \in (n + 1)..revision : ~Changed(m, c)

\* A cell has a value only in a namespace that exists.
InNamespaces == \A c \in Cells : data[c] # Absent => data[Space(c)] = Made

\* A watcher is told every change since it subscribed, each one time, by
\* the one that made it, whatever other watchers do; the change it is told of
\* was made.
WatchersTold ==
  /\ \A w \in Watchers : LET r == told[w].revisions IN
       /\ \A i, j \in DOMAIN r : i # j => r[i] # r[j]
       /\ ToSet(r) \subseteq 1..revision
       /\ Contains(watchers, w) =>
            \A n \in (told[w].since + 1)..revision :
              \/ Contains(r, n)
              \/ \E t \in Callers : /\ caller[t].change = n
                                    /\ caller[t].place = "recorded" \/ Contains(caller[t].todo, w)

\* Changes are serial, and each is told.
ContextSound == Serial /\ InNamespaces /\ WatchersTold
=============================================================================
