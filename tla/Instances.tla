----------------------------- MODULE Instances -----------------------------
(***************************************************************************)
(* The catalogue of the runs of a bot (instances/provider.py), told from   *)
(* the journal alone: find() keeps one summary of each run up to date,     *)
(* page by page under a lock, and shows a version of it; resolve() tells   *)
(* that version again from the scope of the run, long after.  Commits      *)
(* arrive at any await of both, a find is cut off and retried, and the     *)
(* summaries are lost in a restart.                                        *)
(***************************************************************************)
EXTENDS Naturals, SequencesExt

CONSTANTS Runs,        \* runs of this bot
          Scopings,    \* sets of runs whose scopes one commit may carry
          Finders,     \* callers of find
          PageSize,    \* rows of a page
          MaxRows,     \* bound: commits
          MaxCuts      \* bound: finds cut off and restarts

VARIABLES rows,        \* the journal: [kind, run, scopes]; the cursor is the position
          views,       \* run -> summary of the provider, or None
          cursor,      \* how far they go
          holder,      \* the finder inside the lock, or "free"
          finder,      \* the calls of find
          shown,       \* what find showed last
          query,       \* the call of resolve
          cuts

vars == <<rows, views, cursor, holder, finder, shown, query, cuts>>

None == [start |-> 0, last |-> 0, count |-> 0, state |-> "none"]
Outside == [place |-> "idle", high |-> 0]
NoQuery == [place |-> "idle", run |-> "-", version |-> 0, asked |-> 0, after |-> 0,
            view |-> None]

Init ==
  /\ rows = <<>>
  /\ views = [r \in Runs |-> None]
  /\ cursor = 0
  /\ holder = "free"
  /\ finder = [f \in Finders |-> Outside]
  /\ shown = {}
  /\ query = NoQuery
  /\ cuts = 0

-----------------------------------------------------------------------------
(* The journal.                                                            *)

Recorded(kind, r) == \E i \in DOMAIN rows : rows[i].kind = kind /\ rows[i].run = r

\* The engine starts a run once, in its own scope, and ends it once after
\* that; what carries the scopes of runs comes at any time, also before and
\* after.
Commit ==
  /\ Len(rows) < MaxRows
  /\ \/ \E r \in Runs :
          /\ ~Recorded("started", r)
          /\ rows' = Append(rows, [kind |-> "started", run |-> r, scopes |-> {r}])
     \/ \E r \in Runs, scopes \in Scopings :
          /\ Recorded("started", r) /\ ~Recorded("finished", r) /\ r \in scopes
          /\ rows' = Append(rows, [kind |-> "finished", run |-> r, scopes |-> scopes])
     \/ \E scopes \in Scopings :
          rows' = Append(rows, [kind |-> "result", run |-> "-", scopes |-> scopes])
  /\ UNCHANGED <<views, cursor, holder, finder, shown, query, cuts>>

\* Cursors of the commits of a scope, in order; the number of a commit in its
\* scope is its place among them.
OfScope(r) == SelectSeq([i \in DOMAIN rows |-> i], LAMBDA i : r \in rows[i].scopes)

-----------------------------------------------------------------------------
(* Summaries.                                                              *)

Begun(at) == [start |-> at, last |-> at, count |-> 1, state |-> "started"]

Advanced(view, r, at) ==
  [view EXCEPT !.last = at, !.count = @ + 1,
               !.state = IF rows[at].kind = "finished" /\ rows[at].run = r THEN "finished" ELSE @]

\* A start begins a summary; any other commit moves the ones whose scopes it carries.
Applied(vs, at) ==
  IF rows[at].kind = "started"
  THEN [vs EXCEPT ![rows[at].run] = Begun(at)]
  ELSE [r \in Runs |-> IF r \in rows[at].scopes /\ vs[r] # None THEN Advanced(vs[r], r, at)
                                                                ELSE vs[r]]

PageTo(after, high) == IF after + PageSize < high THEN after + PageSize ELSE high

-----------------------------------------------------------------------------
(* find                                                                    *)

Enter(f) ==
  /\ finder[f].place = "idle"
  /\ holder = "free"
  /\ holder' = f
  /\ finder' = [finder EXCEPT ![f] = [place |-> "refreshing", high |-> Len(rows)]]
  /\ UNCHANGED <<rows, views, cursor, shown, query, cuts>>

Bug_Refresh(f) ==
  /\ finder[f].place = "refreshing"
  /\ cursor < finder[f].high
  /\ LET end == PageTo(cursor, Len(rows))
     IN /\ views' = FoldLeft(Applied, views, [i \in 1..(end - cursor) |-> cursor + i])
        /\ cursor' = IF end > finder[f].high THEN finder[f].high ELSE end
  /\ UNCHANGED <<rows, holder, finder, shown, query, cuts>>

\* One page up to the high water read before: each row moves the cursor with it.
Refresh(f) ==
  /\ finder[f].place = "refreshing"
  /\ cursor < finder[f].high
  /\ LET end == PageTo(cursor, finder[f].high)
     IN /\ views' = FoldLeft(Applied, views, [i \in 1..(end - cursor) |-> cursor + i])
        /\ cursor' = end
  /\ UNCHANGED <<rows, holder, finder, shown, query, cuts>>

\* The summaries as of the cursor are shown and the lock is free.
Show(f) ==
  /\ finder[f].place = "refreshing"
  /\ cursor >= finder[f].high
  /\ shown' = { [run |-> r, view |-> views[r], head |-> cursor] :
                r \in { s \in Runs : views[s] # None } }
  /\ holder' = "free"
  /\ finder' = [finder EXCEPT ![f] = Outside]
  /\ UNCHANGED <<rows, views, cursor, query, cuts>>

\* Cancelled, or the page could not be read: what was applied stays.
CutFind(f) ==
  /\ cuts < MaxCuts
  /\ finder[f].place = "refreshing"
  /\ holder' = "free"
  /\ finder' = [finder EXCEPT ![f] = Outside]
  /\ cuts' = cuts + 1
  /\ UNCHANGED <<rows, views, cursor, shown, query>>

Restart ==
  /\ cuts < MaxCuts
  /\ views' = [r \in Runs |-> None]
  /\ cursor' = 0
  /\ holder' = "free"
  /\ finder' = [f \in Finders |-> Outside]
  /\ query' = IF query.place = "replaying" THEN NoQuery ELSE query
  /\ cuts' = cuts + 1
  /\ UNCHANGED <<rows, shown>>

-----------------------------------------------------------------------------
(* resolve                                                                 *)

Answer(view) == query' = [query EXCEPT !.place = "answered", !.after = 0, !.view = view]

\* Any run and version may be asked for; the start has to be in the journal,
\* no later than the version.
Lookup(r, version) ==
  LET starts == { i \in DOMAIN rows : rows[i].kind = "started" /\ rows[i].run = r }
      own == OfScope(r)
  IN /\ query.place = "idle"
     /\ query' =
          IF \E i \in starts : i <= version
          THEN LET start == CHOOSE i \in starts : TRUE
               IN [place |-> "replaying", run |-> r, version |-> version, asked |-> Len(rows),
                   after |-> CHOOSE n \in DOMAIN own : own[n] = start, view |-> Begun(start)]
          ELSE [place |-> "answered", run |-> r, version |-> version, asked |-> Len(rows),
                after |-> 0, view |-> None]
     /\ UNCHANGED <<rows, views, cursor, holder, finder, shown, cuts>>

Bug_Overshot(view) == view

\* The asked version is no commit of this run.
Overshot(view) == None

\* One page of the scope after the last one seen, up to the asked version.
Replay ==
  LET own == OfScope(query.run)
      page == SubSeq(own, query.after + 1, PageTo(query.after, Len(own)))
      upto == SelectSeq(page, LAMBDA i : i <= query.version)
      view == FoldLeft(LAMBDA v, i : Advanced(v, query.run, i), query.view, upto)
  IN /\ query.place = "replaying"
     /\ CASE query.view.last = query.version -> Answer(query.view)
          [] view.last = query.version -> Answer(view)
          [] Len(upto) < Len(page) \/ page = <<>> -> Answer(Overshot(view))
          [] OTHER -> query' = [query EXCEPT !.after = @ + Len(page), !.view = view]
     /\ UNCHANGED <<rows, views, cursor, holder, finder, shown, cuts>>

Next ==
  \/ Commit
  \/ \E f \in Finders : Enter(f) \/ Refresh(f) \/ Show(f) \/ CutFind(f)
  \/ Restart
  \/ \E r \in Runs, version \in 1..MaxRows : Lookup(r, version)
  \/ Replay

Spec == Init /\ [][Next]_vars

-----------------------------------------------------------------------------
(* Properties.                                                             *)

TypeOK ==
  /\ cursor \in 0..Len(rows)
  /\ holder \in Finders \cup {"free"}
  /\ \A f \in Finders : (finder[f].place = "refreshing") = (holder = f)
  /\ query.place \in {"idle", "replaying", "answered"}
  /\ cuts \in 0..MaxCuts

\* What the journal says of a run up to a cursor, without any page or cache.
Since(r, upto) ==
  { i \in 1..Len(rows) : i <= upto /\ r \in rows[i].scopes
      /\ \E s \in 1..i : rows[s].kind = "started" /\ rows[s].run = r }
Truth(r, upto) ==
  LET since == Since(r, upto)
  IN IF since = {} THEN None
     ELSE [start |-> Min(since), last |-> Max(since), count |-> Cardinality(since),
           state |-> IF \E i \in since : rows[i].kind = "finished" /\ rows[i].run = r
                     THEN "finished" ELSE "started"]

\* The summaries tell every commit up to their cursor once, and none after
\* it, however often a find was cut off and repeated.
ViewsSound == \A r \in Runs : views[r] = Truth(r, cursor)

\* What find has shown stays true of its version.
ShownSound ==
  \A s \in shown : s.view = Truth(s.run, s.view.last) /\ s.view = Truth(s.run, s.head)

\* resolve gives a version that existed when it was asked, exactly when a
\* commit of the run made it, and nothing but what find would have shown.
ResolveSound ==
  query.place = "answered" =>
    LET truth == Truth(query.run, query.version)
    IN /\ query.view \in {truth, None}
       /\ query.view # None => truth.last = query.version
       /\ truth # None /\ truth.last = query.version /\ query.version <= query.asked
            => query.view = truth

\* One truth about a run, by find and by resolve: see each part.
InstancesSound == TypeOK /\ ViewsSound /\ ShownSound /\ ResolveSound
=============================================================================
