--------------------------- MODULE StoresProofs -----------------------------
(***************************************************************************)
(* Theorems of BotState for every set of stores, goals and wakes, every    *)
(* collection of changes and every size of page: one history, answers that *)
(* tell the truth about it, and the abstract subject implemented; and of   *)
(* KernelContext, AppInstall and AppTransaction, for any callers, watchers,*)
(* requests, commands and apps installed before.                           *)
(***************************************************************************)
EXTENDS MCStores, ProofLemmas, FiniteSetTheorems

-----------------------------------------------------------------------------
\* The inductive invariant.

Entries == [kind : {"state", "other"}, version : Nat, expected : 0..MaxLog,
            change : Changes \cup {NoChange}, after : Subject!Snapshot]

\* The indices of the changes among the first n commits of a scope.
States(l, n) == {i \in 1..n : l[i].kind = "state"}

\* The subject after the first n commits of a scope l, which StateAt gives of log.
Latest(l, states) ==
  IF states = {} THEN Subject!Empty
  ELSE l[CHOOSE i \in states : \A j \in states : j <= i].after
At(l, n) == Latest(l, States(l, n))

\* What is typed, and that a version counts the changes that made it.
LogTypes ==
  /\ log \in Seq(Entries)
  /\ Len(log) <= MaxLog
  /\ \A i \in DOMAIN log : log[i].kind = "state" =>
       log[i].change \in Changes /\ log[i].after.version <= i
StoreTypes ==
  /\ at \in [Stores -> {"idle", "refresh", "append", "recheck"}]
  /\ job \in [Stores -> Jobs]
  /\ position \in [Stores -> 0..Len(log)]
  /\ snap \in [Stores -> Subject!Snapshot]
  /\ commands \in [Stores -> SUBSET Jobs]
  /\ reply \in [Stores -> {"none", "applied", "reused", "conflict", "refused"}]

\* OneLine of a log: each change follows the subject it was made from.
Line(l) ==
  \A i \in DOMAIN l : l[i].kind = "state" =>
    /\ l[i].version = At(l, i - 1).version + 1
    /\ l[i].expected = At(l, i - 1).version
    /\ Subject!Acceptable(At(l, i - 1), l[i].change)
    /\ l[i].after = Subject!Project(At(l, i - 1), l[i].change)

\* The commands of the changes among the first n commits.
Issued(l, n) == {[change |-> l[i].change, expected |-> l[i].expected] : i \in States(l, n)}

\* The projection of a store is the subject at its position.
Follows(st) ==
  /\ snap[st] = At(log, position[st])
  /\ commands[st] = Issued(log, position[st])

\* A command comes from the store its caller uses, only an idle store has
\* answered, and it answered a command.
Called(st) ==
  /\ job[st] # NoJob => job[st].change \in Changes /\ Home[job[st].change.command] = st
  /\ at[st] # "idle" => reply[st] = "none"
  /\ reply[st] # "none" => job[st] # NoJob

\* Between the judgement and the end of the append: the command is new, and the
\* projection it was judged against is the one the commit is made from.
Unused(st) ==
  \A i \in DOMAIN log : log[i].kind = "state" =>
    log[i].change.command # job[st].change.command
Judged(st) ==
  /\ at[st] \in {"append", "recheck"} => job[st] # NoJob /\ Unused(st)
  /\ at[st] = "append" => ~Stale(st) /\ Subject!Acceptable(snap[st], job[st].change)

\* The answer of a store tells the effect.
Truthful(st) ==
  /\ reply[st] = "applied" => Landed(job[st].change)
  /\ reply[st] \in {"conflict", "refused"} => ~Landed(job[st].change)

Held(st) == Follows(st) /\ Called(st) /\ Judged(st) /\ Truthful(st)

IInv ==
  /\ LogTypes /\ StoreTypes
  /\ Line(log) /\ CommandOnce
  /\ \A st \in Stores : Held(st)

-----------------------------------------------------------------------------
\* The subject.

\* A function overridden by another has the domain of the first and the values
\* of both.
LEMMA OverType ==
  ASSUME NEW S, NEW T, NEW old \in [S -> T], NEW new, DOMAIN new \subseteq S,
         \A x \in DOMAIN new : new[x] \in T
  PROVE  Subject!Over(old, new) \in [S -> T]
BY DEF Subject!Over

\* Projecting a change gives a subject, one version further.
LEMMA ProjectType ==
  ASSUME NEW s \in Subject!Snapshot, NEW change \in Changes
  PROVE  /\ Subject!Project(s, change) \in Subject!Snapshot
         /\ Subject!Project(s, change).version = s.version + 1
<1> DEFINE goals == Subject!Over(s.goals, change.goals)
           wakes == Subject!Over(s.wakes, change.wakes)
           GS == Subject!GoalStatus \cup {"absent"}
           WS == [goal : Goals \cup {NoGoal}, status : Subject!WakeStatus \cup {"absent"}]
           after == [w \in Wakes |-> IF Subject!Stopped(goals, wakes[w])
                                     THEN [wakes[w] EXCEPT !.status = "CANCELLED"]
                                     ELSE wakes[w]]
<1>1. s.version \in Nat /\ s.goals \in [Goals -> GS] /\ s.wakes \in [Wakes -> WS]
  BY DEF Subject!Snapshot
<1>2. /\ DOMAIN change.goals \subseteq Goals
      /\ \A g \in DOMAIN change.goals : change.goals[g] \in GS
      /\ DOMAIN change.wakes \subseteq Wakes
      /\ \A w \in DOMAIN change.wakes : change.wakes[w] \in WS
  BY StateAssumption
<1>3. goals \in [Goals -> GS] /\ wakes \in [Wakes -> WS]
  <2> HIDE DEF GS, WS
  <2>1. QED
    BY <1>1, <1>2, OverType
<1>4. "CANCELLED" \in Subject!WakeStatus
  BY DEF Subject!WakeStatus, Subject!WakeEnd
<1>5. after \in [Wakes -> WS]
  <2> HIDE DEF wakes, goals
  <2>1. QED
    BY <1>3, <1>4
<1>6. Subject!Project(s, change) = [version |-> s.version + 1, goals |-> goals, wakes |-> after]
  BY DEF Subject!Project
<1> HIDE DEF goals, wakes, after
<1>7. QED
  BY <1>1, <1>3, <1>5, <1>6 DEF Subject!Snapshot

LEMMA EmptyType == Subject!Empty \in Subject!Snapshot /\ Subject!Empty.version = 0
BY DEF Subject!Empty, Subject!Snapshot, Subject!NoWake, Subject!Wake

-----------------------------------------------------------------------------
\* States of a scope.

LEMMA StateIsAt == \A n : StateAt(n) = At(log, n)
BY DEF StateAt, At, Latest, States, Subject!Empty, Subject!NoWake, Subject!Wake

\* A non-empty set of numbers up to n has a greatest.
LEMMA Greatest ==
  ASSUME NEW n \in Nat, NEW D \in SUBSET (1..n), D # {}
  PROVE  \E i \in D : \A j \in D : j <= i
<1> DEFINE T == {n - i : i \in D}
<1>1. \A i \in D : i \in Nat /\ i <= n
  OBVIOUS
<1>2. T \in SUBSET Nat /\ T # {}
  <2>1. \A i \in D : n - i \in Nat
    BY <1>1
  <2>2. QED
    BY <2>1
<1>3. PICK x \in T : \A y \in T : x <= y
  BY <1>2, LeastNatural
<1>4. PICK i \in D : x = n - i
  BY <1>3
<1>5. \A j \in D : n - i <= n - j
  BY <1>3, <1>4
<1>6. QED
  BY <1>1, <1>5

\* The subject after n commits is the empty one or the result of the last change.
LEMMA AtLast ==
  ASSUME NEW l, NEW n \in Nat
  PROVE  /\ States(l, n) = {} => At(l, n) = Subject!Empty
         /\ \A i \in States(l, n) : (\A j \in States(l, n) : j <= i) => At(l, n) = l[i].after
         /\ States(l, n) # {} => \E i \in States(l, n) : At(l, n) = l[i].after
<1> DEFINE D == States(l, n)
<1>1. D \in SUBSET (1..n) /\ \A i \in D : i \in Nat
  BY DEF States
<1>2. ASSUME NEW i \in D, \A j \in D : j <= i
      PROVE  At(l, n) = l[i].after
  <2>1. (CHOOSE k \in D : \A j \in D : j <= k) = i
    <3> DEFINE c == CHOOSE k \in D : \A j \in D : j <= k
    <3>1. c \in D /\ \A j \in D : j <= c
      BY <1>2, Zenon
    <3>2. c <= i /\ i <= c
      BY <1>2, <3>1
    <3> HIDE DEF c
    <3>3. c = i
      BY <1>1, <3>1, <3>2
    <3>4. QED
      BY <3>3 DEF c
  <2>2. D # {}
    BY <1>2
  <2>3. QED
    BY <2>1, <2>2, Zenon DEF At, Latest
<1>3. D # {} => \E i \in D : \A j \in D : j <= i
  BY <1>1, Greatest
<1>4. QED
  BY <1>2, <1>3 DEF At, Latest

\* A commit without a change leaves the subject, a change makes the next one.
LEMMA AtStep ==
  ASSUME NEW l, NEW n \in Nat
  PROVE  /\ At(l, 0) = Subject!Empty
         /\ l[n + 1].kind = "state" => At(l, n + 1) = l[n + 1].after
         /\ l[n + 1].kind # "state" => At(l, n + 1) = At(l, n)
<1>1. States(l, 0) = {}
  BY DEF States
<1>2. At(l, 0) = Subject!Empty
  BY <1>1, AtLast
<1>3. \A i : i \in 1..n + 1 <=> i \in 1..n \/ i = n + 1
  OBVIOUS
<1>4. ASSUME l[n + 1].kind = "state" PROVE At(l, n + 1) = l[n + 1].after
  <2>1. n + 1 \in States(l, n + 1) /\ \A j \in States(l, n + 1) : j <= n + 1
    BY <1>4 DEF States
  <2>2. QED
    BY <2>1, AtLast
<1>5. ASSUME l[n + 1].kind # "state" PROVE At(l, n + 1) = At(l, n)
  <2>1. States(l, n + 1) = States(l, n)
    BY <1>3, <1>5, Zenon DEF States
  <2>2. QED
    BY <2>1 DEF At
<1>6. QED
  BY <1>2, <1>4, <1>5

\* No change between two positions: the same subject.
LEMMA AtSame ==
  ASSUME NEW l, NEW n, NEW m, States(l, n) = States(l, m)
  PROVE  At(l, n) = At(l, m)
BY DEF At

\* What is appended leaves the states before it.
LEMMA AtPrefix ==
  ASSUME NEW l, NEW k, NEW n \in Nat, \A i \in 1..n : k[i] = l[i]
  PROVE  At(k, n) = At(l, n) /\ States(k, n) = States(l, n)
<1>1. States(k, n) = States(l, n)
  BY DEF States
<1>2. States(l, n) \in SUBSET (1..n)
  BY DEF States
<1>3. CASE States(l, n) = {}
  BY <1>1, <1>3, AtLast
<1>4. CASE States(l, n) # {}
  <2>1. PICK i \in States(l, n) : \A j \in States(l, n) : j <= i
    BY <1>2, <1>4, Greatest
  <2>2. At(k, n) = k[i].after /\ At(l, n) = l[i].after
    BY <1>1, <2>1, AtLast
  <2>3. QED
    BY <1>1, <1>2, <2>2
<1>5. QED
  BY <1>1, <1>3, <1>4

-----------------------------------------------------------------------------
\* Folding a page.

\* A sequence of subjects in which each follows from the one before by its
\* commit is what the fold computes.
LEMMA FoldedValue ==
  ASSUME NEW s, NEW page, NEW L \in Nat, Len(page) = L, NEW g,
         g = [n \in 0..L |-> IF n = 0 THEN s ELSE Restored(g[n - 1], page[n])]
  PROVE  Folded(s, page) = g[L]
<1> DEFINE F(f) == [n \in 0..L |-> IF n = 0 THEN s ELSE Restored(f[n - 1], page[n])]
           f == CHOOSE f : f = F(f)
           T == {n \in 0..L : f[n] # g[n]}
<1>1. f = F(f)
  BY Zenon
<1>2. Folded(s, page) = f[L]
  BY Zenon DEF Folded
<1> HIDE DEF f
<1>3. \A n \in 0..L : f[n] = IF n = 0 THEN s ELSE Restored(f[n - 1], page[n])
  BY <1>1
<1>4. \A n \in 0..L : g[n] = IF n = 0 THEN s ELSE Restored(g[n - 1], page[n])
  BY Zenon
<1>5. T = {}
  <2> SUFFICES ASSUME T # {} PROVE FALSE
    OBVIOUS
  <2>1. T \in SUBSET Nat
    OBVIOUS
  <2>2. PICK n \in T : \A k \in T : n <= k
    BY <2>1, LeastNatural
  <2>3. n # 0 /\ n \in 0..L
    BY <1>3, <1>4
  <2>4. n - 1 \in 0..L /\ n - 1 \notin T
    BY <2>2, <2>3
  <2>5. f[n - 1] = g[n - 1]
    BY <2>4
  <2>6. f[n] = g[n]
    BY <1>3, <1>4, <2>3, <2>5
  <2>7. QED
    BY <2>6
<1>6. f[L] = g[L]
  <2>1. L \in 0..L
    OBVIOUS
  <2>2. L \in 0..L /\ f[L] # g[L] => L \in T
    BY Zenon
  <2>3. QED
    BY <1>5, <2>1, <2>2, Zenon
<1>7. QED
  BY <1>2, <1>6

\* What a page holds: the commits behind the position, in order.
LEMMA PageFacts ==
  ASSUME NEW st \in Stores, log \in Seq(Entries), position[st] \in 0..Len(log)
  PROVE  /\ Consumed(st) \in Nat /\ Len(Page(st)) = Consumed(st)
         /\ position[st] + Consumed(st) \in 0..Len(log)
         /\ \A n \in 1..Consumed(st) : Page(st)[n] = log[position[st] + n]
         /\ Page(st) \in Seq(Entries)
         /\ Page(st) = <<>> => position[st] = Len(log)
<1> DEFINE p == position[st]
           u == Unread(st)
           k == IF Len(u) < PageSize THEN Len(u) ELSE PageSize
<1>1. p \in Nat /\ p <= Len(log) /\ Len(log) \in Nat /\ PageSize \in Nat \ {0}
  BY StateAssumption
<1>2. /\ u \in Seq(Entries) /\ Len(u) = Len(log) - p
      /\ \A i \in 1..Len(u) : u[i] = log[p + i]
  <2>1. \A i \in p + 1..Len(log) : log[i] \in Entries
    BY <1>1, ElementOfSeq
  <2>2. /\ SubSeq(log, p + 1, Len(log)) \in Seq(Entries)
        /\ Len(SubSeq(log, p + 1, Len(log))) = Len(log) - p
        /\ \A i \in 1..Len(log) - p : SubSeq(log, p + 1, Len(log))[i] = log[p + i]
    BY <1>1, <2>1, SMTT(30)
  <2>3. QED
    BY <2>2 DEF Unread
<1> HIDE DEF u
<1>3. k \in Nat /\ k <= Len(u) /\ (k = 0 => Len(u) = 0)
  BY <1>1, <1>2
<1>4. Page(st) = SubSeq(u, 1, k)
  BY DEF Page, u
<1> HIDE DEF k
<1>5. /\ Page(st) \in Seq(Entries) /\ Len(Page(st)) = k
      /\ \A i \in 1..k : Page(st)[i] = u[i]
  BY <1>2, <1>3, <1>4
<1>6. Consumed(st) = k
  BY <1>5 DEF Consumed
<1>7. ASSUME NEW n \in 1..k PROVE Page(st)[n] = log[p + n]
  <2>1. Len(u) \in Nat
    BY <1>2
  <2>2. n \in 1..Len(u)
    BY <1>3, <2>1
  <2>3. Page(st)[n] = u[n] /\ u[n] = log[p + n]
    BY <1>2, <1>5, <2>2
  <2>4. QED
    BY <2>3
<1>8. ASSUME Page(st) = <<>> PROVE p = Len(log)
  <2>1. Len(Page(st)) = 0
    BY <1>8, EmptySeq
  <2>2. k = 0 /\ Len(u) = 0
    BY <1>3, <1>5, <2>1
  <2>3. QED
    BY <1>1, <1>2, <2>2
<1>9. p + k \in 0..Len(log)
  BY <1>1, <1>2, <1>3
<1>10. QED
  BY <1>3, <1>5, <1>6, <1>7, <1>8, <1>9

-----------------------------------------------------------------------------
\* What the invariant says of the states of the log.

\* The states up to the end of the log are typed, and no version runs ahead.
LEMMA StatesTyped ==
  ASSUME LogTypes, NEW n \in 0..Len(log)
  PROVE  At(log, n) \in Subject!Snapshot /\ At(log, n).version <= n
<1>1. CASE States(log, n) = {}
  BY <1>1, AtLast, EmptyType
<1>2. CASE States(log, n) # {}
  <2>1. PICK i \in States(log, n) : At(log, n) = log[i].after
    BY <1>2, AtLast
  <2>2. i \in 1..Len(log) /\ i <= n /\ log[i].kind = "state"
    BY <2>1 DEF States, LogTypes
  <2>3. log[i] \in Entries /\ log[i].after.version <= i
    BY <2>2 DEF LogTypes
  <2>4. log[i].after \in Subject!Snapshot
    BY <2>3 DEF Entries
  <2>5. log[i].after.version \in Nat
    BY <2>4 DEF Subject!Snapshot
  <2>6. QED
    BY <2>1, <2>2, <2>3, <2>4, <2>5
<1>3. QED
  BY <1>1, <1>2

\* Each change is restored onto the state it was made from.
LEMMA RestoredStep ==
  ASSUME log \in Seq(Entries), Line(log), NEW n \in Nat, n + 1 \in DOMAIN log
  PROVE  Restored(At(log, n), log[n + 1]) = At(log, n + 1)
<1>1. CASE log[n + 1].kind = "state"
  <2>1. log[n + 1].after = Subject!Project(At(log, (n + 1) - 1), log[n + 1].change)
    BY <1>1 DEF Line
  <2>2. (n + 1) - 1 = n
    OBVIOUS
  <2>3. QED
    BY <1>1, <2>1, <2>2, AtStep DEF Restored
<1>2. CASE log[n + 1].kind # "state"
  BY <1>2, AtStep DEF Restored
<1>3. QED
  BY <1>1, <1>2

\* While the version that would follow is not taken, nothing was changed behind
\* the projection: it is still the subject.
LEMMA NothingMissed ==
  ASSUME log \in Seq(Entries), Line(log), NEW p \in 0..Len(log),
         \A i \in DOMAIN log : ~(log[i].kind = "state"
                                 /\ log[i].version = At(log, p).version + 1)
  PROVE  States(log, Len(log)) = States(log, p) /\ At(log, Len(log)) = At(log, p)
<1> DEFINE T == {i \in p + 1..Len(log) : log[i].kind = "state"}
<1>1. Len(log) \in Nat /\ DOMAIN log = 1..Len(log) /\ p \in Nat /\ p <= Len(log)
  OBVIOUS
<1>2. T = {}
  <2> SUFFICES ASSUME T # {} PROVE FALSE
    OBVIOUS
  <2>1. T \in SUBSET Nat
    BY <1>1
  <2>2. PICK i \in T : \A j \in T : i <= j
    BY <2>1, LeastNatural
  <2>3. i \in 1..Len(log) /\ i - 1 \in Nat /\ p <= i - 1 /\ log[i].kind = "state"
    BY <1>1, <2>2
  <2>4. \A j : j \in 1..i - 1 /\ log[j].kind = "state" <=> j \in 1..p /\ log[j].kind = "state"
    BY <1>1, <2>2, <2>3
  <2>5. States(log, i - 1) = States(log, p)
    BY <2>4 DEF States
  <2>6. At(log, i - 1) = At(log, p)
    BY <2>5, AtSame
  <2>7. log[i].version = At(log, i - 1).version + 1
    BY <1>1, <2>3 DEF Line
  <2>8. QED
    BY <1>1, <2>3, <2>6, <2>7
<1>3. \A j : j \in 1..Len(log) /\ log[j].kind = "state" <=> j \in 1..p /\ log[j].kind = "state"
  BY <1>1, <1>2
<1>4. States(log, Len(log)) = States(log, p)
  BY <1>3 DEF States
<1>5. QED
  BY <1>4, AtSame

-----------------------------------------------------------------------------
\* Appending a commit.

LEMMA Appended ==
  ASSUME NEW l \in Seq(Entries), NEW e \in Entries, NEW k, k = Append(l, e)
  PROVE  /\ Len(l) \in Nat /\ DOMAIN l = 1..Len(l)
         /\ k \in Seq(Entries) /\ Len(k) = Len(l) + 1 /\ DOMAIN k = 1..Len(l) + 1
         /\ \A i \in 1..Len(l) : k[i] = l[i]
         /\ k[Len(l) + 1] = e
BY AppendProperties

\* The states before the commit are those there were.
LEMMA AppendedBefore ==
  ASSUME NEW l \in Seq(Entries), NEW e \in Entries, NEW k, k = Append(l, e),
         NEW n \in 0..Len(l)
  PROVE  At(k, n) = At(l, n) /\ States(k, n) = States(l, n)
<1>1. \A i \in 1..n : k[i] = l[i]
  BY Appended
<1>2. n \in Nat
  BY Appended
<1>3. QED
  BY <1>1, <1>2, AtPrefix

\* The state after it is what the commit makes of them.
LEMMA AppendedAfter ==
  ASSUME NEW l \in Seq(Entries), NEW e \in Entries, NEW k, k = Append(l, e)
  PROVE  /\ e.kind = "state" => At(k, Len(k)) = e.after
         /\ e.kind # "state" => At(k, Len(k)) = At(l, Len(l))
         /\ States(k, Len(k)) =
              States(l, Len(l)) \cup (IF e.kind = "state" THEN {Len(k)} ELSE {})
<1>1. /\ Len(l) \in Nat /\ Len(k) = Len(l) + 1 /\ k[Len(l) + 1] = e
      /\ Len(l) \in 0..Len(l)
  BY Appended
<1>2. At(k, Len(l)) = At(l, Len(l)) /\ States(k, Len(l)) = States(l, Len(l))
  BY <1>1, AppendedBefore
<1>3. /\ e.kind = "state" => At(k, Len(k)) = e.after
      /\ e.kind # "state" => At(k, Len(k)) = At(l, Len(l))
  BY <1>1, <1>2, AtStep
<1>4. \A i : i \in 1..Len(k) <=> i \in 1..Len(l) \/ i = Len(k)
  BY <1>1
<1>5. CASE e.kind = "state"
  BY <1>1, <1>2, <1>3, <1>4, <1>5 DEF States
<1>6. CASE e.kind # "state"
  BY <1>1, <1>2, <1>3, <1>4, <1>6 DEF States
<1>7. QED
  BY <1>5, <1>6

LEMMA LineAppended ==
  ASSUME NEW l \in Seq(Entries), NEW e \in Entries, NEW k, k = Append(l, e), Line(l),
         e.kind = "state" =>
           /\ e.version = At(l, Len(l)).version + 1
           /\ e.expected = At(l, Len(l)).version
           /\ Subject!Acceptable(At(l, Len(l)), e.change)
           /\ e.after = Subject!Project(At(l, Len(l)), e.change)
  PROVE  Line(k)
<1> SUFFICES ASSUME NEW i \in DOMAIN k, k[i].kind = "state"
             PROVE  /\ k[i].version = At(k, i - 1).version + 1
                    /\ k[i].expected = At(k, i - 1).version
                    /\ Subject!Acceptable(At(k, i - 1), k[i].change)
                    /\ k[i].after = Subject!Project(At(k, i - 1), k[i].change)
  BY DEF Line
<1>1. Len(l) \in Nat /\ DOMAIN l = 1..Len(l) /\ DOMAIN k = 1..Len(l) + 1
  BY Appended
<1>2. i - 1 \in 0..Len(l) /\ (i \in 1..Len(l) \/ i = Len(l) + 1)
  BY <1>1
<1>3. At(k, i - 1) = At(l, i - 1)
  BY <1>2, AppendedBefore
<1>4. CASE i \in 1..Len(l)
  <2>1. k[i] = l[i]
    BY <1>4, Appended
  <2>2. QED
    BY <1>1, <1>3, <1>4, <2>1 DEF Line
<1>5. CASE i = Len(l) + 1
  <2>1. k[i] = e /\ i - 1 = Len(l)
    BY <1>1, <1>5, Appended
  <2>2. QED
    BY <1>3, <2>1
<1>6. QED
  BY <1>2, <1>4, <1>5

\* What a store that was not overtaken appends: the change it was asked for, on
\* the subject as it is.
LEMMA EntryFacts ==
  ASSUME IInv, NEW st \in Stores, at[st] = "append", ~Taken(st)
  PROVE  /\ Entry(st) \in Entries /\ Entry(st).kind = "state"
         /\ snap[st] = At(log, Len(log))
         /\ States(log, Len(log)) = States(log, position[st])
         /\ Entry(st).version = At(log, Len(log)).version + 1
         /\ Entry(st).expected = At(log, Len(log)).version
         /\ Subject!Acceptable(At(log, Len(log)), Entry(st).change)
         /\ Entry(st).after = Subject!Project(At(log, Len(log)), Entry(st).change)
         /\ Entry(st).change = job[st].change /\ Entry(st).expected = job[st].expected
         /\ job[st].change \in Changes /\ Home[job[st].change.command] = st /\ Unused(st)
         /\ Entry(st).after.version <= Len(log) + 1
<1>1. /\ log \in Seq(Entries) /\ LogTypes /\ Line(log) /\ Len(log) \in Nat
      /\ position[st] \in 0..Len(log) /\ snap[st] \in Subject!Snapshot
      /\ job[st] \in Jobs /\ Held(st)
  BY DEF IInv, LogTypes, StoreTypes
<1>2. /\ snap[st] = At(log, position[st])
      /\ job[st] # NoJob /\ job[st].change \in Changes /\ Home[job[st].change.command] = st
      /\ Unused(st) /\ ~Stale(st) /\ Subject!Acceptable(snap[st], job[st].change)
  BY <1>1 DEF Held, Follows, Called, Judged
<1>3. /\ Entry(st).kind = "state" /\ Entry(st).version = snap[st].version + 1
      /\ Entry(st).expected = job[st].expected /\ Entry(st).change = job[st].change
      /\ Entry(st).after = Subject!Project(snap[st], job[st].change)
  BY DEF Entry
<1>4. \A i \in DOMAIN log : ~(log[i].kind = "state"
                              /\ log[i].version = At(log, position[st]).version + 1)
  BY <1>2, <1>3 DEF Taken
<1>5. /\ States(log, Len(log)) = States(log, position[st])
      /\ At(log, Len(log)) = At(log, position[st])
  BY <1>1, <1>4, NothingMissed
<1>6. job[st].expected \in 0..MaxLog /\ snap[st].version \in Nat
  BY <1>1, <1>2 DEF Jobs, Subject!Snapshot
<1>7. job[st].expected = snap[st].version
  BY <1>2 DEF Stale
<1>8. /\ Entry(st).after \in Subject!Snapshot
      /\ Entry(st).after.version = snap[st].version + 1
  BY <1>1, <1>2, <1>3, ProjectType
<1>9. Entry(st) \in Entries
  BY <1>2, <1>6, <1>8 DEF Entry, Entries
<1>10. snap[st].version <= Len(log)
  <2>1. Len(log) \in 0..Len(log)
    BY <1>1
  <2>2. QED
    BY <1>1, <1>2, <1>5, <2>1, StatesTyped
<1>11. Entry(st).after.version <= Len(log) + 1
  BY <1>1, <1>6, <1>8, <1>10
<1>12. QED
  BY <1>2, <1>3, <1>5, <1>7, <1>9, <1>11

\* The log keeps what it has, and what comes is no change of the store.
Grows(o) ==
  /\ \A i \in DOMAIN log : i \in DOMAIN log' /\ log'[i] = log[i]
  /\ \A n \in 0..Len(log) : At(log', n) = At(log, n) /\ States(log', n) = States(log, n)
  /\ \A i \in DOMAIN log' : log'[i].kind = "state" =>
       i \in DOMAIN log \/ Home[log'[i].change.command] # o
  /\ Len(log) <= Len(log')

LEMMA SameLog ==
  ASSUME IInv, log' = log
  PROVE  LogTypes' /\ Line(log') /\ CommandOnce' /\ \A o \in Stores : Grows(o)
<1>1. LogTypes' /\ CommandOnce'
  BY DEF IInv, LogTypes, CommandOnce
<1>2. Line(log')
  BY DEF IInv
<1>3. Len(log) \in Nat
  BY DEF IInv, LogTypes
<1>4. \A o \in Stores : Grows(o)
  BY <1>3 DEF Grows
<1>5. QED
  BY <1>1, <1>2, <1>4

\* The commit of a store: the only change of its command.
LEMMA LogAppended ==
  ASSUME IInv, NEW st \in Stores, at[st] = "append", ~Taken(st), Len(log) < MaxLog,
         log' = Append(log, Entry(st))
  PROVE  /\ LogTypes' /\ Line(log') /\ CommandOnce'
         /\ \A o \in Stores \ {st} : Grows(o)
<1> DEFINE e == Entry(st)
<1>1. /\ log \in Seq(Entries) /\ Line(log) /\ CommandOnce /\ Len(log) \in Nat /\ MaxLog \in Nat
      /\ DOMAIN log = 1..Len(log)
      /\ \A i \in DOMAIN log : log[i].kind = "state" =>
           log[i].change \in Changes /\ log[i].after.version <= i
  BY StateAssumption DEF IInv, LogTypes
<1>2. /\ e \in Entries /\ e.kind = "state"
      /\ e.change = job[st].change /\ e.change \in Changes
      /\ Home[e.change.command] = st
      /\ \A i \in DOMAIN log : log[i].kind = "state" => log[i].change.command # e.change.command
      /\ e.after.version <= Len(log) + 1
  BY EntryFacts DEF Unused
<1>3. /\ e.version = At(log, Len(log)).version + 1
      /\ e.expected = At(log, Len(log)).version
      /\ Subject!Acceptable(At(log, Len(log)), e.change)
      /\ e.after = Subject!Project(At(log, Len(log)), e.change)
  BY EntryFacts
<1> HIDE DEF e
<1>4. log' = Append(log, e)
  BY DEF e
<1>5. /\ log' \in Seq(Entries) /\ Len(log') = Len(log) + 1 /\ DOMAIN log' = 1..Len(log) + 1
      /\ \A i \in 1..Len(log) : log'[i] = log[i]
      /\ log'[Len(log) + 1] = e
  BY <1>1, <1>2, <1>4, Appended
<1>5a. \A n \in 0..Len(log) : At(log', n) = At(log, n) /\ States(log', n) = States(log, n)
  BY <1>1, <1>2, <1>4, AppendedBefore
<1>6. Line(log')
  BY <1>1, <1>2, <1>3, <1>4, LineAppended
<1>7. \A i \in DOMAIN log' : i \in DOMAIN log \/ i = Len(log) + 1
  BY <1>1, <1>5
<1>8. LogTypes'
  <2>1. \A i \in DOMAIN log' : log'[i].kind = "state" =>
          log'[i].change \in Changes /\ log'[i].after.version <= i
    BY <1>1, <1>2, <1>5, <1>7
  <2>2. QED
    BY <1>1, <1>5, <2>1 DEF LogTypes
<1>9. CommandOnce'
  <2> SUFFICES ASSUME NEW i \in DOMAIN log', NEW j \in DOMAIN log',
                      log'[i].kind = "state", log'[j].kind = "state",
                      log'[i].change.command = log'[j].change.command
               PROVE  i = j
    BY DEF CommandOnce
  <2>1. CASE i \in DOMAIN log /\ j \in DOMAIN log
    BY <1>1, <1>5, <2>1 DEF CommandOnce
  <2>2. CASE i \notin DOMAIN log /\ j \in DOMAIN log
    BY <1>1, <1>2, <1>5, <1>7, <2>2
  <2>3. CASE i \in DOMAIN log /\ j \notin DOMAIN log
    BY <1>1, <1>2, <1>5, <1>7, <2>3
  <2>4. CASE i \notin DOMAIN log /\ j \notin DOMAIN log
    BY <1>7, <2>4
  <2>5. QED
    BY <2>1, <2>2, <2>3, <2>4
<1>10. \A o \in Stores \ {st} : Grows(o)
  BY <1>1, <1>2, <1>5, <1>5a, <1>7 DEF Grows
<1>11. QED
  BY <1>6, <1>8, <1>9, <1>10

-----------------------------------------------------------------------------
\* What a step leaves to the stores that do not take it.

LEMMA CommandsKept ==
  ASSUME log \in Seq(Entries), NEW o \in Stores, Grows(o), NEW n \in 0..Len(log)
  PROVE  Issued(log', n) = Issued(log, n)
<1>1. States(log', n) = States(log, n)
  BY DEF Grows
<1>2. \A i \in States(log, n) : log'[i] = log[i]
  <2> TAKE i \in States(log, n)
  <2>1. Len(log) \in Nat /\ DOMAIN log = 1..Len(log)
    OBVIOUS
  <2>2. i \in 1..n
    BY DEF States
  <2>3. i \in DOMAIN log
    BY <2>1, <2>2
  <2>4. QED
    BY <2>3 DEF Grows
<1>3. QED
  BY <1>1, <1>2 DEF Issued

LEMMA Bystander ==
  ASSUME IInv, NEW o \in Stores, Grows(o),
         at'[o] = at[o], job'[o] = job[o], reply'[o] = reply[o],
         snap'[o] = snap[o], position'[o] = position[o], commands'[o] = commands[o]
  PROVE  Held(o)'
<1>1. Held(o) /\ position[o] \in 0..Len(log) /\ log \in Seq(Entries)
  BY DEF IInv, StoreTypes, LogTypes
<1>2. Follows(o)'
  <2>1. snap[o] = At(log, position[o]) /\ commands[o] = Issued(log, position[o])
    BY <1>1 DEF Held, Follows
  <2>2. At(log', position[o]) = At(log, position[o])
    BY <1>1 DEF Grows
  <2>3. Issued(log', position[o]) = Issued(log, position[o])
    BY <1>1, CommandsKept
  <2>4. QED
    BY <2>1, <2>2, <2>3 DEF Follows
<1>3. Called(o)'
  BY <1>1 DEF Held, Called
<1>4. Judged(o)'
  <2>1. Unused(o) /\ job[o] # NoJob => Unused(o)'
    <3>1. job[o] # NoJob => Home[job[o].change.command] = o
      BY <1>1 DEF Held, Called
    <3>2. QED
      BY <3>1 DEF Unused, Grows
  <2>2. Stale(o)' <=> Stale(o)
    BY DEF Stale
  <2>3. QED
    BY <1>1, <2>1, <2>2 DEF Held, Judged
<1>5. Truthful(o)'
  <2> DEFINE c == job[o].change
  <2>1. Landed(c) => Landed(c)'
    BY DEF Landed, Grows
  <2>2. c \in Changes /\ Home[c.command] = o /\ Landed(c)' => Landed(c)
    BY DEF Landed, Grows
  <2>3. reply[o] # "none" => c \in Changes /\ Home[c.command] = o
    BY <1>1 DEF Held, Called
  <2>4. job'[o].change = c
    OBVIOUS
  <2>5. Landed(job[o].change)' <=> Landed(c)'
    BY <2>4 DEF Landed
  <2>6. QED
    BY <1>1, <2>1, <2>2, <2>3, <2>5 DEF Held, Truthful
<1>6. QED
  BY <1>2, <1>3, <1>4, <1>5 DEF Held

Replies == {"none", "applied", "reused", "conflict", "refused"}

\* An answer makes the store idle and says nothing for another.
LEMMA Answered ==
  ASSUME StoreTypes, NEW st \in Stores, NEW said \in Replies, Answer(st, said)
  PROVE  /\ at' \in [Stores -> {"idle", "refresh", "append", "recheck"}]
         /\ job' \in [Stores -> Jobs] /\ reply' \in [Stores -> Replies]
         /\ at'[st] = "idle" /\ reply'[st] = said
         /\ job'[st] = IF said = "none" THEN NoJob ELSE job[st]
         /\ \A o \in Stores \ {st} : at'[o] = at[o] /\ job'[o] = job[o] /\ reply'[o] = reply[o]
<1>1. /\ at \in [Stores -> {"idle", "refresh", "append", "recheck"}]
      /\ job \in [Stores -> Jobs] /\ reply \in [Stores -> Replies]
  BY DEF StoreTypes, Replies
<1>2. reply' = [reply EXCEPT ![st] = said] /\ at' = [at EXCEPT ![st] = "idle"]
  BY DEF Answer
<1>3. said = "none" => job' = [job EXCEPT ![st] = NoJob]
  BY DEF Answer
<1>4. said # "none" => job' = job
  BY DEF Answer
<1>5. NoJob \in Jobs
  BY DEF Jobs
<1>6. QED
  BY <1>1, <1>2, <1>3, <1>4, <1>5

\* A step that answers keeps the invariant when the answer is true of the log.
LEMMA AnswerStep ==
  ASSUME IInv, NEW st \in Stores, NEW said \in Replies, Answer(st, said),
         LogTypes', Line(log'), CommandOnce', \A o \in Stores \ {st} : Grows(o),
         said # "none" => job[st] # NoJob,
         said = "applied" => \E i \in DOMAIN log' : log'[i].kind = "state"
                                                   /\ log'[i].change = job[st].change,
         said \in {"conflict", "refused"} =>
           ~ \E i \in DOMAIN log' : log'[i].kind = "state" /\ log'[i].change = job[st].change,
         position' \in [Stores -> 0..Len(log')], snap' \in [Stores -> Subject!Snapshot],
         commands' \in [Stores -> SUBSET Jobs],
         \A o \in Stores \ {st} : snap'[o] = snap[o] /\ position'[o] = position[o]
                                  /\ commands'[o] = commands[o],
         Follows(st)'
  PROVE  IInv'
<1>0. StoreTypes /\ Held(st)
  BY DEF IInv
<1>1. /\ at' \in [Stores -> {"idle", "refresh", "append", "recheck"}]
      /\ job' \in [Stores -> Jobs] /\ reply' \in [Stores -> Replies]
      /\ at'[st] = "idle" /\ reply'[st] = said
      /\ job'[st] = IF said = "none" THEN NoJob ELSE job[st]
      /\ \A o \in Stores \ {st} : at'[o] = at[o] /\ job'[o] = job[o] /\ reply'[o] = reply[o]
  BY <1>0, Answered
<1>2. StoreTypes'
  BY <1>1 DEF StoreTypes, Replies
<1>3. Called(st)'
  BY <1>0, <1>1 DEF Held, Called
<1>4. Judged(st)'
  BY <1>1 DEF Judged
<1>5. Truthful(st)'
  <2>1. CASE said = "none"
    BY <1>1, <2>1 DEF Truthful
  <2>2. CASE said # "none"
    BY <1>1, <2>2 DEF Truthful, Landed
  <2>3. QED
    BY <2>1, <2>2
<1>6. Held(st)'
  BY <1>3, <1>4, <1>5 DEF Held
<1>7. \A o \in Stores \ {st} : Held(o)'
  BY <1>1, Bystander
<1>8. QED
  BY <1>2, <1>6, <1>7 DEF IInv

-----------------------------------------------------------------------------
\* The steps.

\* What the invariant says of types, and of the log that a step leaves.
LEMMA Typed ==
  ASSUME IInv
  PROVE  /\ LogTypes /\ StoreTypes /\ Line(log) /\ log \in Seq(Entries) /\ Len(log) \in Nat
         /\ DOMAIN log = 1..Len(log)
         /\ at \in [Stores -> {"idle", "refresh", "append", "recheck"}]
         /\ job \in [Stores -> Jobs] /\ reply \in [Stores -> Replies]
         /\ position \in [Stores -> 0..Len(log)] /\ snap \in [Stores -> Subject!Snapshot]
         /\ commands \in [Stores -> SUBSET Jobs]
BY DEF IInv, LogTypes, StoreTypes, Replies

\* A call begins: nothing is known yet of its change.
LEMMA CallStep ==
  ASSUME IInv, NEW st \in Stores, NEW j \in Jobs,
         j # NoJob => j.change \in Changes /\ Home[j.change.command] = st,
         at[st] = "idle",
         job' = [job EXCEPT ![st] = j], at' = [at EXCEPT ![st] = "refresh"],
         reply' = [reply EXCEPT ![st] = "none"],
         UNCHANGED <<log, snap, position, commands>>
  PROVE  IInv'
<1>1. /\ at' \in [Stores -> {"idle", "refresh", "append", "recheck"}]
      /\ job' \in [Stores -> Jobs] /\ reply' \in [Stores -> Replies]
      /\ at'[st] = "refresh" /\ job'[st] = j /\ reply'[st] = "none"
      /\ \A o \in Stores \ {st} : at'[o] = at[o] /\ job'[o] = job[o] /\ reply'[o] = reply[o]
  BY Typed DEF Replies
<1>2. StoreTypes'
  BY <1>1, Typed DEF StoreTypes, Replies
<1>3. LogTypes' /\ Line(log') /\ CommandOnce' /\ \A o \in Stores : Grows(o)
  BY SameLog
<1>4. Held(st)'
  <2>1. Follows(st)'
    BY DEF IInv, Held, Follows
  <2>2. Called(st)' /\ Judged(st)' /\ Truthful(st)'
    BY <1>1 DEF Called, Judged, Truthful
  <2>3. QED
    BY <2>1, <2>2 DEF Held
<1>5. \A o \in Stores \ {st} : Held(o)'
  BY <1>1, <1>3, Bystander
<1>6. QED
  BY <1>2, <1>3, <1>4, <1>5 DEF IInv

LEMMA SubmitStep ==
  ASSUME IInv, NEW st \in Stores, NEW change \in Changes, NEW expected \in 0..Truth.version,
         Submit(st, change, expected)
  PROVE  IInv'
<1>1. expected \in 0..MaxLog
  <2>1. Len(log) \in 0..Len(log) /\ Len(log) <= MaxLog /\ MaxLog \in Nat /\ Len(log) \in Nat
    BY Typed, StateAssumption DEF LogTypes
  <2>2. /\ At(log, Len(log)) \in Subject!Snapshot
        /\ At(log, Len(log)).version <= Len(log)
    BY <2>1, Typed, StatesTyped
  <2>3. At(log, Len(log)).version \in Nat
    BY <2>2 DEF Subject!Snapshot
  <2>4. Truth = At(log, Len(log))
    BY StateIsAt DEF Truth
  <2>5. QED
    BY <2>1, <2>2, <2>3, <2>4
<1> DEFINE j == [change |-> change, expected |-> expected]
<1>2. j \in Jobs
  BY <1>1 DEF Jobs
<1>3. j.change \in Changes /\ Home[j.change.command] = st
  BY DEF Submit
<1>4. QED
  BY <1>2, <1>3, CallStep DEF Submit

LEMMA ReadSnapshotStep ==
  ASSUME IInv, NEW st \in Stores, ReadSnapshot(st)
  PROVE  IInv'
<1>1. NoJob \in Jobs
  BY DEF Jobs
<1>2. QED
  BY <1>1, CallStep DEF ReadSnapshot

\* A page brings the projection to a later position of the log.
LEMMA ReadPageStep ==
  ASSUME IInv, NEW st \in Stores, ReadPage(st)
  PROVE  IInv'
<1> DEFINE p == position[st]
           c == Consumed(st)
           g == [n \in 0..c |-> At(log, p + n)]
<1>1. /\ log \in Seq(Entries) /\ p \in 0..Len(log) /\ Line(log)
      /\ Len(log) \in Nat /\ DOMAIN log = 1..Len(log) /\ LogTypes
      /\ snap[st] = At(log, p) /\ commands[st] = Issued(log, p) /\ commands[st] \in SUBSET Jobs
  BY Typed DEF IInv, Held, Follows
<1>2. /\ c \in Nat /\ Len(Page(st)) = c /\ p + c \in 0..Len(log)
      /\ \A n \in 1..c : Page(st)[n] = log[p + n]
      /\ Page(st) \in Seq(Entries)
  BY <1>1, PageFacts
<1> HIDE DEF c, p
<1>3. Folded(snap[st], Page(st)) = At(log, p + c)
  <2>1. \A n \in 0..c : g[n] = IF n = 0 THEN snap[st] ELSE Restored(g[n - 1], Page(st)[n])
    <3> TAKE n \in 0..c
    <3>1. CASE n = 0
      BY <1>1, <1>2, <3>1
    <3>2. CASE n # 0
      <4>1. n \in 1..c /\ n - 1 \in 0..c /\ p + (n - 1) \in Nat /\ p + (n - 1) + 1 \in DOMAIN log
            /\ p + (n - 1) + 1 = p + n
        BY <1>1, <1>2, <3>2
      <4>2. g[n] = At(log, p + n) /\ g[n - 1] = At(log, p + (n - 1))
        BY <4>1
      <4>3. Restored(At(log, p + (n - 1)), log[p + (n - 1) + 1]) = At(log, p + (n - 1) + 1)
        BY <1>1, <4>1, RestoredStep
      <4>4. QED
        BY <1>2, <3>2, <4>1, <4>2, <4>3
    <3>3. QED
      BY <3>1, <3>2
  <2>2. g = [n \in 0..c |-> IF n = 0 THEN snap[st] ELSE Restored(g[n - 1], Page(st)[n])]
    <3> HIDE DEF g
    <3>1. DOMAIN g = 0..c /\ g = [n \in 0..c |-> g[n]]
      BY DEF g
    <3>2. QED
      BY <2>1, <3>1
  <2>3. g[c] = At(log, p + c)
    BY <1>2
  <2> HIDE DEF g
  <2>4. Folded(snap[st], Page(st)) = g[c]
    BY <1>2, <2>2, FoldedValue
  <2>5. QED
    BY <2>3, <2>4
<1> DEFINE new == {[change |-> e.change, expected |-> e.expected] :
                     e \in {x \in ToSet(Page(st)) : x.kind = "state"}}
<1>4. Issued(log, p) \cup new = Issued(log, p + c)
  <2>1. \A i : i \in 1..p + c <=> i \in 1..p \/ (i - p \in 1..c /\ i = p + (i - p))
    BY <1>1, <1>2
  <2>2. \A n \in 1..c : p + n \in 1..p + c
    BY <1>1, <1>2
  <2>3. \A x : x \in ToSet(Page(st)) <=> \E n \in 1..c : x = log[p + n]
    <3>1. DOMAIN Page(st) = 1..c
      BY <1>2
    <3>2. QED
      BY <1>2, <3>1 DEF ToSet
  <2>4. Issued(log, p) \subseteq Issued(log, p + c)
    BY <2>1 DEF Issued, States
  <2>5. new \subseteq Issued(log, p + c)
    BY <2>2, <2>3 DEF Issued, States
  <2>6. ASSUME NEW i \in States(log, p + c)
        PROVE  [change |-> log[i].change, expected |-> log[i].expected]
                 \in Issued(log, p) \cup new
    <3>1. i \in 1..p + c /\ log[i].kind = "state"
      BY DEF States
    <3>2. CASE i \in 1..p
      BY <3>1, <3>2 DEF Issued, States
    <3>3. CASE i - p \in 1..c /\ i = p + (i - p)
      <4>1. log[i] \in ToSet(Page(st))
        BY <2>3, <3>3
      <4>2. QED
        BY <3>1, <4>1
    <3>4. QED
      BY <2>1, <3>1, <3>2, <3>3
  <2>7. Issued(log, p + c) \subseteq Issued(log, p) \cup new
    <3> HIDE DEF new
    <3>1. QED
      BY <2>6 DEF Issued
  <2>8. QED
    BY <2>4, <2>5, <2>7
<1>5. Issued(log, p + c) \in SUBSET Jobs
  <2>1. ASSUME NEW i \in States(log, p + c)
        PROVE  [change |-> log[i].change, expected |-> log[i].expected] \in Jobs
    <3>1. i \in DOMAIN log /\ log[i].kind = "state"
      BY <1>1, <1>2 DEF States
    <3>2. log[i] \in Entries /\ log[i].change \in Changes
      BY <1>1, <3>1 DEF LogTypes
    <3>3. log[i].expected \in 0..MaxLog
      BY <3>2 DEF Entries
    <3>4. QED
      BY <3>2, <3>3 DEF Jobs
  <2>2. QED
    BY <2>1 DEF Issued
<1>6. At(log, p + c) \in Subject!Snapshot
  BY <1>1, <1>2, StatesTyped
<1>7. /\ snap' = [snap EXCEPT ![st] = At(log, p + c)]
      /\ commands' = [commands EXCEPT ![st] = Issued(log, p + c)]
      /\ position' = [position EXCEPT ![st] = p + c]
      /\ log' = log /\ at' = at /\ job' = job /\ reply' = reply
      /\ at[st] \in {"refresh", "recheck"}
  <2>1. /\ snap' = [snap EXCEPT ![st] = Folded(snap[st], Page(st))]
        /\ commands' = [commands EXCEPT ![st] = commands[st] \cup new]
        /\ position' = [position EXCEPT ![st] = p + c]
    BY DEF ReadPage, p, c
  <2> HIDE DEF new
  <2>2. commands[st] \cup new = Issued(log, p + c)
    BY <1>1, <1>4
  <2>3. QED
    BY <1>3, <2>1, <2>2 DEF ReadPage
<1>8. /\ snap' \in [Stores -> Subject!Snapshot] /\ position' \in [Stores -> 0..Len(log)]
      /\ commands' \in [Stores -> SUBSET Jobs]
      /\ snap'[st] = At(log, p + c) /\ position'[st] = p + c
      /\ commands'[st] = Issued(log, p + c)
      /\ \A o \in Stores \ {st} : snap'[o] = snap[o] /\ position'[o] = position[o]
                                  /\ commands'[o] = commands[o]
  BY <1>2, <1>5, <1>6, <1>7, Typed
<1>9. StoreTypes'
  BY <1>7, <1>8, Typed DEF StoreTypes, Replies
<1>10. LogTypes' /\ Line(log') /\ CommandOnce' /\ \A o \in Stores : Grows(o)
  BY <1>7, SameLog
<1>11. Held(st)'
  <2>1. Held(st)
    BY DEF IInv
  <2>2. Follows(st)'
    BY <1>7, <1>8 DEF Follows
  <2>3. Called(st)'
    BY <1>7, <2>1 DEF Held, Called
  <2>4. Judged(st)'
    BY <1>7, <2>1 DEF Held, Judged, Unused
  <2>5. Truthful(st)'
    BY <1>7, <2>1 DEF Held, Truthful, Landed
  <2>6. QED
    BY <2>2, <2>3, <2>4, <2>5 DEF Held
<1>12. \A o \in Stores \ {st} : Held(o)'
  BY <1>7, <1>8, <1>10, Bystander
<1>13. QED
  BY <1>9, <1>10, <1>11, <1>12 DEF IInv

\* An answer about a log that the step does not change.
LEMMA ReplyStep ==
  ASSUME IInv, NEW st \in Stores, NEW said \in Replies, Answer(st, said),
         UNCHANGED <<log, snap, position, commands>>,
         said # "none" => job[st] # NoJob,
         said = "applied" => Landed(job[st].change),
         said \in {"conflict", "refused"} => ~Landed(job[st].change)
  PROVE  IInv'
<1>1. LogTypes' /\ Line(log') /\ CommandOnce' /\ \A o \in Stores : Grows(o)
  BY SameLog
<1>2. Follows(st)'
  BY DEF IInv, Held, Follows
<1>3. /\ position' \in [Stores -> 0..Len(log')] /\ snap' \in [Stores -> Subject!Snapshot]
      /\ commands' \in [Stores -> SUBSET Jobs]
  BY Typed
<1>4. QED
  BY <1>1, <1>2, <1>3, AnswerStep DEF Landed

LEMMA JudgeStep ==
  ASSUME IInv, NEW st \in Stores, Judge(st)
  PROVE  IInv'
<1>1. /\ Held(st) /\ StoreTypes /\ log \in Seq(Entries) /\ DOMAIN log = 1..Len(log)
      /\ position[st] \in 0..Len(log) /\ job[st] \in Jobs
  BY Typed DEF IInv
<1>2. position[st] = Len(log)
  BY <1>1, PageFacts DEF Judge
<1>3. commands[st] = Issued(log, Len(log)) /\ snap[st] = At(log, Len(log))
  BY <1>1, <1>2 DEF Held, Follows
<1>4. \A c \in commands[st] : Landed(c.change)
  BY <1>1, <1>3 DEF Issued, States, Landed
<1>5. Known(st) = {} => Unused(st)
  <2> SUFFICES ASSUME Known(st) = {}, NEW i \in DOMAIN log, log[i].kind = "state"
               PROVE  log[i].change.command # job[st].change.command
    BY DEF Unused
  <2>1. [change |-> log[i].change, expected |-> log[i].expected] \in commands[st]
    BY <1>1, <1>3 DEF Issued, States
  <2>2. QED
    BY <2>1 DEF Known
<1>6. Unused(st) => ~Landed(job[st].change)
  BY DEF Unused, Landed
<1>7. UNCHANGED <<log, snap, position, commands>>
  BY DEF Judge
<1>8. CASE job[st] = NoJob
  BY <1>7, <1>8, ReplyStep DEF Judge, Replies
<1>9. CASE job[st] # NoJob /\ Known(st) # {}
  <2>1. CASE Submitted(st) \in Known(st)
    <3>1. Submitted(st) \in commands[st] /\ Submitted(st).change = job[st].change
      BY <2>1 DEF Known, Submitted
    <3>2. Landed(job[st].change)
      BY <1>4, <3>1
    <3>3. Answer(st, "applied")
      BY <1>9, <2>1 DEF Judge
    <3>4. QED
      BY <1>7, <1>9, <3>2, <3>3, ReplyStep DEF Replies
  <2>2. CASE Submitted(st) \notin Known(st)
    <3>1. Answer(st, "reused")
      BY <1>9, <2>2 DEF Judge
    <3>2. QED
      BY <1>7, <1>9, <3>1, ReplyStep DEF Replies
  <2>3. QED
    BY <2>1, <2>2
<1>10. CASE job[st] # NoJob /\ Known(st) = {} /\ Stale(st)
  <2>1. Answer(st, "conflict")
    BY <1>10 DEF Judge
  <2>2. QED
    BY <1>5, <1>6, <1>7, <1>10, <2>1, ReplyStep DEF Replies
<1>11. CASE /\ job[st] # NoJob /\ Known(st) = {} /\ ~Stale(st)
            /\ ~Subject!Acceptable(snap[st], job[st].change)
  <2>1. Answer(st, "refused")
    BY <1>11 DEF Judge
  <2>2. QED
    BY <1>5, <1>6, <1>7, <1>11, <2>1, ReplyStep DEF Replies
<1>12. CASE /\ job[st] # NoJob /\ Known(st) = {} /\ ~Stale(st)
            /\ Subject!Acceptable(snap[st], job[st].change)
  <2>1. at[st] = "refresh" /\ at' = [at EXCEPT ![st] = "append"] /\ job' = job /\ reply' = reply
    BY <1>12 DEF Judge
  <2>2. /\ at' \in [Stores -> {"idle", "refresh", "append", "recheck"}] /\ at'[st] = "append"
        /\ \A o \in Stores \ {st} : at'[o] = at[o]
    BY <2>1, Typed
  <2>3. StoreTypes'
    BY <1>7, <2>1, <2>2, Typed DEF StoreTypes, Replies
  <2>4. LogTypes' /\ Line(log') /\ CommandOnce' /\ \A o \in Stores : Grows(o)
    BY <1>7, SameLog
  <2>5. Held(st)'
    <3>1. Follows(st)'
      BY <1>1, <1>7 DEF Held, Follows
    <3>2. Called(st)'
      BY <1>1, <2>1 DEF Held, Called
    <3>3. Judged(st)'
      BY <1>5, <1>7, <1>12, <2>1, <2>2 DEF Judged, Unused, Stale
    <3>4. Truthful(st)'
      BY <1>1, <1>7, <2>1 DEF Held, Truthful, Landed
    <3>5. QED
      BY <3>1, <3>2, <3>3, <3>4 DEF Held
  <2>6. \A o \in Stores \ {st} : Held(o)'
    BY <1>7, <2>1, <2>2, <2>4, Bystander
  <2>7. QED
    BY <2>3, <2>4, <2>5, <2>6 DEF IInv
<1>13. QED
  BY <1>8, <1>9, <1>10, <1>11, <1>12

LEMMA AppendChangeStep ==
  ASSUME IInv, NEW st \in Stores, AppendChange(st)
  PROVE  IInv'
<1>0. at[st] = "append" /\ StoreTypes /\ Held(st)
  BY DEF AppendChange, IInv
<1>1. CASE Taken(st)
  <2>1. /\ at' = [at EXCEPT ![st] = "recheck"]
        /\ UNCHANGED <<log, job, snap, position, commands, reply>>
    BY <1>1 DEF AppendChange
  <2>2. /\ at' \in [Stores -> {"idle", "refresh", "append", "recheck"}] /\ at'[st] = "recheck"
        /\ \A o \in Stores \ {st} : at'[o] = at[o]
    BY <2>1, Typed
  <2>3. StoreTypes'
    BY <2>1, <2>2, Typed DEF StoreTypes, Replies
  <2>4. LogTypes' /\ Line(log') /\ CommandOnce' /\ \A o \in Stores : Grows(o)
    BY <2>1, SameLog
  <2>5. Held(st)'
    <3>1. Follows(st)' /\ Truthful(st)'
      BY <1>0, <2>1 DEF Held, Follows, Truthful, Landed
    <3>2. Called(st)'
      BY <1>0, <2>1 DEF Held, Called
    <3>3. Judged(st)'
      BY <1>0, <2>1, <2>2 DEF Held, Judged, Unused
    <3>4. QED
      BY <3>1, <3>2, <3>3 DEF Held
  <2>6. \A o \in Stores \ {st} : Held(o)'
    BY <2>1, <2>2, <2>4, Bystander
  <2>7. QED
    BY <2>3, <2>4, <2>5, <2>6 DEF IInv
<1>2. CASE ~Taken(st)
  <2>1. /\ Len(log) < MaxLog /\ log' = Append(log, Entry(st))
        /\ snap' = [snap EXCEPT ![st] = Entry(st).after]
        /\ position' = [position EXCEPT ![st] = Len(log')]
        /\ commands' = [commands EXCEPT ![st] = commands[st] \cup {Submitted(st)}]
        /\ Answer(st, "applied")
    BY <1>2 DEF AppendChange
  <2>2. LogTypes' /\ Line(log') /\ CommandOnce' /\ \A o \in Stores \ {st} : Grows(o)
    BY <1>0, <1>2, <2>1, LogAppended
  <2>3. /\ Entry(st) \in Entries /\ Entry(st).kind = "state"
        /\ States(log, Len(log)) = States(log, position[st])
        /\ Entry(st).change = job[st].change /\ Entry(st).expected = job[st].expected
    BY <1>0, <1>2, EntryFacts
  <2>4. /\ log \in Seq(Entries) /\ Len(log) \in Nat /\ position[st] \in 0..Len(log)
        /\ commands[st] = Issued(log, position[st])
    BY <1>0, Typed DEF Held, Follows
  <2>5. /\ Len(log') = Len(log) + 1 /\ DOMAIN log' = 1..Len(log) + 1
        /\ log'[Len(log) + 1] = Entry(st)
        /\ \A i \in 1..Len(log) : log'[i] = log[i]
    BY <2>1, <2>3, <2>4, Appended
  <2>6. /\ At(log', Len(log')) = Entry(st).after
        /\ States(log', Len(log')) = States(log, Len(log)) \cup {Len(log')}
    BY <2>1, <2>3, <2>4, AppendedAfter
  <2>7. commands[st] \cup {Submitted(st)} = Issued(log', Len(log'))
    <3>1. \A i \in States(log, Len(log)) : log'[i] = log[i]
      BY <2>4, <2>5 DEF States
    <3>2. Submitted(st) = [change |-> log'[Len(log')].change,
                           expected |-> log'[Len(log')].expected]
      BY <2>3, <2>5 DEF Submitted
    <3>3. commands[st] = {[change |-> log'[i].change, expected |-> log'[i].expected] :
                            i \in States(log, Len(log))}
      BY <2>3, <2>4, <3>1 DEF Issued
    <3>4. QED
      BY <2>6, <3>2, <3>3 DEF Issued
  <2>8. Submitted(st) \in Jobs
    <3>1. job[st] \in Jobs /\ job[st] # NoJob
      BY <1>0, Typed DEF Held, Judged
    <3>2. QED
      BY <3>1 DEF Submitted, Jobs
  <2>9. Entry(st).after \in Subject!Snapshot
    BY <2>3 DEF Entries
  <2>10. /\ position' \in [Stores -> 0..Len(log')] /\ snap' \in [Stores -> Subject!Snapshot]
         /\ commands' \in [Stores -> SUBSET Jobs]
         /\ snap'[st] = Entry(st).after /\ position'[st] = Len(log')
         /\ commands'[st] = commands[st] \cup {Submitted(st)}
         /\ \A o \in Stores \ {st} : snap'[o] = snap[o] /\ position'[o] = position[o]
                                     /\ commands'[o] = commands[o]
    <3>1. \A o \in Stores : position[o] \in 0..Len(log')
      BY <2>4, <2>5, Typed
    <3>2. Len(log') \in 0..Len(log')
      BY <2>4, <2>5
    <3>3. position' \in [Stores -> 0..Len(log')]
      BY <2>1, <3>1, <3>2, Typed
    <3>4. QED
      BY <2>1, <2>8, <2>9, <3>3, Typed
  <2>11. Follows(st)'
    BY <2>6, <2>7, <2>10 DEF Follows
  <2>12. job[st] # NoJob
    BY <1>0 DEF Held, Judged
  <2>13. \E i \in DOMAIN log' : log'[i].kind = "state" /\ log'[i].change = job[st].change
    <3>1. Len(log) + 1 \in DOMAIN log'
      BY <2>4, <2>5
    <3>2. QED
      BY <2>3, <2>5, <3>1
  <2>14. QED
    BY <2>1, <2>2, <2>10, <2>11, <2>12, <2>13, AnswerStep DEF Replies
<1>3. QED
  BY <1>1, <1>2

LEMMA RecheckStep ==
  ASSUME IInv, NEW st \in Stores, Recheck(st)
  PROVE  IInv'
<1>1. job[st] # NoJob /\ Unused(st)
  BY DEF Recheck, IInv, Held, Judged
<1>2. ~Landed(job[st].change)
  BY <1>1 DEF Unused, Landed
<1>3. QED
  BY <1>1, <1>2, ReplyStep DEF Recheck, Replies

LEMMA CallCancelledStep ==
  ASSUME IInv, NEW st \in Stores, CallCancelled(st)
  PROVE  IInv'
<1>1. Answer(st, "none") /\ UNCHANGED <<snap, position, commands>>
  BY DEF CallCancelled
<1>2. CASE log' = log
  BY <1>1, <1>2, ReplyStep DEF Replies
<1>3. CASE at[st] = "append" /\ ~Taken(st) /\ Len(log) < MaxLog /\ log' = Append(log, Entry(st))
  <2>1. LogTypes' /\ Line(log') /\ CommandOnce' /\ \A o \in Stores \ {st} : Grows(o)
    BY <1>3, LogAppended
  <2>2. Entry(st) \in Entries
    BY <1>3, EntryFacts
  <2>3. log \in Seq(Entries) /\ Len(log) \in Nat /\ position[st] \in 0..Len(log) /\ Held(st)
    BY Typed DEF IInv
  <2>4. Len(log') = Len(log) + 1 /\ \A i \in 1..Len(log) : log'[i] = log[i]
    BY <1>3, <2>2, <2>3, Appended
  <2>4a. /\ At(log', position[st]) = At(log, position[st])
         /\ States(log', position[st]) = States(log, position[st])
    BY <1>3, <2>2, <2>3, AppendedBefore
  <2>5. Issued(log', position[st]) = Issued(log, position[st])
    <3>1. \A i \in States(log, position[st]) : log'[i] = log[i]
      BY <2>3, <2>4 DEF States
    <3>2. QED
      BY <2>4a, <3>1 DEF Issued
  <2>6. Follows(st)'
    BY <1>1, <2>3, <2>4a, <2>5 DEF Held, Follows
  <2>7. position' \in [Stores -> 0..Len(log')]
    <3>1. \A o \in Stores : position[o] \in 0..Len(log')
      BY <2>3, <2>4, Typed
    <3>2. QED
      BY <1>1, <3>1, Typed
  <2>8. snap' \in [Stores -> Subject!Snapshot] /\ commands' \in [Stores -> SUBSET Jobs]
    BY <1>1, Typed
  <2>9. QED
    BY <1>1, <2>1, <2>6, <2>7, <2>8, AnswerStep DEF Replies
<1>4. QED
  BY <1>2, <1>3 DEF CallCancelled

LEMMA RestartStep ==
  ASSUME IInv, NEW st \in Stores, Restart(st)
  PROVE  IInv'
<1>1. /\ Answer(st, "none") /\ log' = log
      /\ snap' = [snap EXCEPT ![st] = Subject!Empty]
      /\ position' = [position EXCEPT ![st] = 0]
      /\ commands' = [commands EXCEPT ![st] = {}]
  BY DEF Restart
<1>2. LogTypes' /\ Line(log') /\ CommandOnce' /\ \A o \in Stores : Grows(o)
  BY <1>1, SameLog
<1>3. /\ position' \in [Stores -> 0..Len(log')] /\ snap' \in [Stores -> Subject!Snapshot]
      /\ commands' \in [Stores -> SUBSET Jobs]
      /\ snap'[st] = Subject!Empty /\ position'[st] = 0 /\ commands'[st] = {}
      /\ \A o \in Stores \ {st} : snap'[o] = snap[o] /\ position'[o] = position[o]
                                  /\ commands'[o] = commands[o]
  BY <1>1, EmptyType, Typed
<1>4. Follows(st)'
  <2>1. States(log, 0) = {} /\ At(log, 0) = Subject!Empty
    BY AtStep DEF States
  <2>2. Issued(log, 0) = {}
    BY <2>1 DEF Issued
  <2>3. QED
    BY <1>1, <1>3, <2>1, <2>2 DEF Follows
<1>5. QED
  BY <1>1, <1>2, <1>3, <1>4, AnswerStep DEF Replies

LEMMA OtherCommitStep ==
  ASSUME IInv, OtherCommit
  PROVE  IInv'
<1> DEFINE e == [kind |-> "other", version |-> 0, expected |-> 0,
                 change |-> NoChange, after |-> Truth]
<1>1. /\ log \in Seq(Entries) /\ Len(log) \in Nat /\ MaxLog \in Nat /\ DOMAIN log = 1..Len(log)
      /\ Len(log) < MaxLog /\ log' = Append(log, e)
      /\ UNCHANGED <<at, job, snap, position, commands, reply>>
      /\ LogTypes /\ Line(log) /\ CommandOnce
  BY Typed, StateAssumption DEF OtherCommit, IInv
<1>2. e \in Entries /\ e.kind # "state"
  <2>1. Truth \in Subject!Snapshot
    <3>1. Len(log) \in 0..Len(log)
      BY <1>1
    <3>2. At(log, Len(log)) \in Subject!Snapshot
      BY <1>1, <3>1, StatesTyped
    <3>3. QED
      BY <3>2, StateIsAt DEF Truth
  <2>2. 0 \in 0..MaxLog
    BY <1>1
  <2>3. QED
    BY <2>1, <2>2 DEF Entries
<1> HIDE DEF e
<1>3. /\ log' \in Seq(Entries) /\ Len(log') = Len(log) + 1 /\ DOMAIN log' = 1..Len(log) + 1
      /\ \A i \in 1..Len(log) : log'[i] = log[i]
      /\ log'[Len(log) + 1] = e
  BY <1>1, <1>2, Appended
<1>4. \A n \in 0..Len(log) : At(log', n) = At(log, n) /\ States(log', n) = States(log, n)
  BY <1>1, <1>2, AppendedBefore
<1>5. \A i \in DOMAIN log' : log'[i].kind = "state" => i \in DOMAIN log /\ log'[i] = log[i]
  BY <1>1, <1>2, <1>3
<1>6. Line(log')
  BY <1>1, <1>2, LineAppended
<1>7. LogTypes'
  BY <1>1, <1>3, <1>5 DEF LogTypes
<1>8. CommandOnce'
  BY <1>1, <1>5 DEF CommandOnce
<1>9. \A o \in Stores : Grows(o)
  BY <1>1, <1>3, <1>4, <1>5 DEF Grows
<1>10. StoreTypes'
  <2>1. \A o \in Stores : position[o] \in 0..Len(log')
    BY <1>1, <1>3, Typed
  <2>2. position' \in [Stores -> 0..Len(log')]
    BY <1>1, <2>1, Typed
  <2>3. QED
    BY <1>1, <2>2, Typed DEF StoreTypes, Replies
<1>11. \A o \in Stores : Held(o)'
  BY <1>1, <1>9, Bystander
<1>12. QED
  BY <1>6, <1>7, <1>8, <1>10, <1>11 DEF IInv

-----------------------------------------------------------------------------
\* The theorems.

LEMMA Initial == Init => IInv
<1> SUFFICES ASSUME Init PROVE IInv
  OBVIOUS
<1>1. log = <<>> /\ log \in Seq(Entries) /\ Len(log) = 0 /\ DOMAIN log = {} /\ MaxLog \in Nat
  BY StateAssumption DEF Init
<1>2. LogTypes /\ Line(log) /\ CommandOnce
  BY <1>1 DEF LogTypes, Line, CommandOnce
<1>3. StoreTypes
  BY <1>1, EmptyType DEF Init, StoreTypes, Jobs
<1>4. ASSUME NEW st \in Stores PROVE Held(st)
  <2>1. States(log, 0) = {} /\ At(log, 0) = Subject!Empty
    BY AtStep DEF States
  <2>2. Issued(log, 0) = {}
    BY <2>1 DEF Issued
  <2>3. /\ at[st] = "idle" /\ job[st] = NoJob /\ reply[st] = "none"
        /\ snap[st] = Subject!Empty /\ position[st] = 0 /\ commands[st] = {}
    BY DEF Init
  <2>4. QED
    BY <2>1, <2>2, <2>3 DEF Held, Follows, Called, Judged, Truthful
<1>5. QED
  BY <1>2, <1>3, <1>4 DEF IInv

LEMMA Step == IInv /\ [Next]_vars => IInv'
<1> SUFFICES ASSUME IInv, [Next]_vars PROVE IInv'
  OBVIOUS
<1>1. CASE OtherCommit
  BY <1>1, OtherCommitStep
<1>2. ASSUME NEW st \in Stores, Store(st) PROVE IInv'
  <2>1. CASE \E change \in Changes, expected \in 0..Truth.version :
               Submit(st, change, expected)
    BY <2>1, SubmitStep
  <2>2. CASE ReadSnapshot(st)
    BY <2>2, ReadSnapshotStep
  <2>3. CASE ReadPage(st)
    BY <2>3, ReadPageStep
  <2>4. CASE Judge(st)
    BY <2>4, JudgeStep
  <2>5. CASE AppendChange(st)
    BY <2>5, AppendChangeStep
  <2>6. CASE Recheck(st)
    BY <2>6, RecheckStep
  <2>7. CASE CallCancelled(st)
    BY <2>7, CallCancelledStep
  <2>8. CASE Restart(st)
    BY <2>8, RestartStep
  <2>9. QED
    BY <1>2, <2>1, <2>2, <2>3, <2>4, <2>5, <2>6, <2>7, <2>8 DEF Store
<1>3. CASE UNCHANGED vars
  <2>1. /\ log' = log /\ at' = at /\ job' = job /\ snap' = snap /\ position' = position
        /\ commands' = commands /\ reply' = reply
    BY <1>3 DEF vars
  <2>2. LogTypes' /\ Line(log') /\ CommandOnce' /\ \A o \in Stores : Grows(o)
    BY <2>1, SameLog
  <2>3. StoreTypes'
    BY <2>1, Typed DEF StoreTypes, Replies
  <2>4. \A o \in Stores : Held(o)'
    BY <2>1, <2>2, Bystander
  <2>5. QED
    BY <2>2, <2>3, <2>4 DEF IInv
<1>4. QED
  BY <1>1, <1>2, <1>3 DEF Next

\* The inductive invariant holds in every behaviour.
THEOREM Invariance == Spec => []IInv
BY Initial, Step, PTL DEF Spec

LEMMA InvariantIsSound == IInv => BotSound
<1> SUFFICES ASSUME IInv PROVE BotSound
  OBVIOUS
<1>1. /\ LogTypes /\ StoreTypes /\ Line(log) /\ CommandOnce /\ log \in Seq(Entries)
      /\ Len(log) \in Nat /\ DOMAIN log = 1..Len(log) /\ \A st \in Stores : Held(st)
  BY Typed DEF IInv
<1>2. TypeOK
  <2>1. \A i \in DOMAIN log : log[i].kind \in {"state", "other"}
    <3>1. \A i \in DOMAIN log : log[i] \in Entries
      BY <1>1
    <3>2. QED
      BY <3>1 DEF Entries
  <2>2. Truth \in Subject!Snapshot
    <3>1. Len(log) \in 0..Len(log)
      BY <1>1
    <3>2. At(log, Len(log)) \in Subject!Snapshot
      BY <1>1, <3>1, StatesTyped
    <3>3. QED
      BY <3>2, StateIsAt DEF Truth
  <2>3. QED
    BY <1>1, <2>1, <2>2 DEF TypeOK, LogTypes, StoreTypes
<1>3. OneLine
  BY <1>1, StateIsAt DEF OneLine, Line
<1>4. ProjectionsFollow
  BY <1>1, StateIsAt DEF ProjectionsFollow, Held, Follows, Issued, States
<1>5. AnswersTellEffect
  BY <1>1 DEF AnswersTellEffect, Held, Truthful
<1>6. QED
  BY <1>2, <1>3, <1>4, <1>5 DEF BotSound, StateSound

\* The stores of the subject keep one history and tell the truth about it,
\* whatever their callers retry or cancel (JournalBotState).
THEOREM OneHistory == Spec => []BotSound
BY Invariance, InvariantIsSound, PTL

-----------------------------------------------------------------------------
\* The abstract subject.

\* A step of the stores changes the subject by one accepted change of the
\* version it is at, or leaves it.
LEMMA SubjectStep ==
  ASSUME IInv, [Next]_vars
  PROVE  \/ \E change \in Changes : Subject!Change(change, Truth.version)
         \/ Truth' = Truth
<1>1. /\ Truth = At(log, Len(log)) /\ Truth' = At(log', Len(log'))
      /\ log \in Seq(Entries) /\ Len(log) \in Nat
  <2>1. Truth = At(log, Len(log))
    BY StateIsAt DEF Truth
  <2>2. Truth' = At(log', Len(log'))
    BY DEF Truth, StateAt, At, Latest, States, Subject!Empty, Subject!NoWake, Subject!Wake
  <2>3. QED
    BY <2>1, <2>2, Typed
<1>2. CASE log' = log
  BY <1>1, <1>2
<1>3. ASSUME NEW st \in Stores, at[st] = "append", ~Taken(st), log' = Append(log, Entry(st))
      PROVE  \E change \in Changes : Subject!Change(change, Truth.version)
  <2>1. /\ Entry(st) \in Entries /\ Entry(st).kind = "state"
        /\ Subject!Acceptable(Truth, job[st].change)
        /\ Entry(st).after = Subject!Project(Truth, job[st].change)
        /\ job[st].change \in Changes
    BY <1>1, <1>3, EntryFacts
  <2>2. Truth' = Entry(st).after
    BY <1>1, <1>3, <2>1, AppendedAfter
  <2>3. Subject!Change(job[st].change, Truth.version)
    BY <2>1, <2>2 DEF Subject!Change
  <2>4. QED
    BY <2>1, <2>3
<1>4. CASE OtherCommit
  <2> DEFINE e == [kind |-> "other", version |-> 0, expected |-> 0,
                   change |-> NoChange, after |-> Truth]
  <2>1. log' = Append(log, e) /\ e.kind # "state"
    BY <1>4 DEF OtherCommit
  <2>2. e \in Entries
    <3>1. MaxLog \in Nat /\ 0 \in 0..MaxLog
      BY StateAssumption
    <3>2. Len(log) \in 0..Len(log) /\ LogTypes
      BY <1>1, Typed
    <3>3. Truth \in Subject!Snapshot
      BY <1>1, <3>2, StatesTyped
    <3>4. QED
      BY <3>1, <3>3 DEF Entries
  <2> HIDE DEF e
  <2>3. At(log', Len(log')) = At(log, Len(log))
    BY <1>1, <2>1, <2>2, AppendedAfter
  <2>4. QED
    BY <1>1, <2>3
<1>5. ASSUME NEW st \in Stores, Store(st)
      PROVE  \/ log' = log
             \/ at[st] = "append" /\ ~Taken(st) /\ log' = Append(log, Entry(st))
  BY <1>5 DEF Store, Submit, ReadSnapshot, ReadPage, Judge, AppendChange, Recheck,
              CallCancelled, Restart
<1>6. CASE \E st \in Stores : Store(st)
  BY <1>2, <1>3, <1>5, <1>6
<1>7. QED
  BY <1>2, <1>4, <1>6 DEF Next, vars

\* The journal of a bot implements the subject of BotSubject: it begins empty,
\* and it changes by one accepted change at a time, made on the version that the
\* change expects, or not at all (JournalBotState.apply).
THEOREM ImplementsSubject == Spec => KeepsSubject
<1>1. Init => Subject!SubjectInit
  <2> SUFFICES ASSUME Init PROVE Subject!SubjectInit
    OBVIOUS
  <2>1. log = <<>>
    BY DEF Init
  <2>2. Len(log) = 0 /\ Truth = At(log, 0)
    BY <2>1, StateIsAt DEF Truth
  <2>3. QED
    BY <2>2, AtStep DEF Subject!SubjectInit
<1>2. IInv /\ [Next]_vars =>
        [\E change \in Changes : Subject!Change(change, Truth.version)]_Truth
  BY SubjectStep
<1>3. QED
  BY <1>1, <1>2, Invariance, PTL DEF Spec, KeepsSubject

-----------------------------------------------------------------------------
\* KernelContext.

\* Every cell is a key of a namespace, which is a cell itself.
CellsAssumption(Names) ==
  /\ Cells \subseteq Names \X STRING
  /\ \A c \in Cells : Context!Space(c) \in Cells

Contents == Values \cup {Context!Absent, Context!Made}
Maps == UNION {[cells -> Contents] : cells \in SUBSET Cells}
Places == {"idle", "looked", "staging", "recorded", "notifying"}
CallerRecords ==
  [place : Places, version : Nat, staged : {<<>>} \cup [Cells -> Contents], changed : SUBSET Cells,
   todo : Seq(Watchers), change : Nat, failed : BOOLEAN]
Subscriptions == [new : BOOLEAN, since : Nat, revisions : Seq(Nat)]

CtxTypes ==
  /\ data \in [Cells -> Contents]
  /\ revision \in Nat
  /\ watchers \in Seq(Watchers)
  /\ caller \in [Callers -> CallerRecords]
  /\ changes \in Seq(Maps)
  /\ told \in [Watchers -> Subscriptions]

\* A cell of d is as its last change in l left it.
Touched(l, n, c) == n \in DOMAIN l /\ c \in DOMAIN l[n]
LeftBy(d, l, c) ==
  \/ d[c] = Context!Absent /\ \A n \in 1..Len(l) : ~Touched(l, n, c)
  \/ \E n \in 1..Len(l) :
       Touched(l, n, c) /\ d[c] = l[n][c] /\ \A m \in (n + 1)..Len(l) : ~Touched(l, m, c)
Recorder ==
  /\ revision = Len(changes)
  /\ \A c \in Cells : LeftBy(data, changes, c)

\* A cell has a value only in a namespace that exists.
Spaced(d) == \A c \in Cells : d[c] # Context!Absent => d[Context!Space(c)] = Context!Made

\* A copy that was staged from d, which is still current at the same revision.
Staged(r, d, n) ==
  r.place = "staging" =>
    /\ r.staged \in [Cells -> Contents] /\ Spaced(r.staged)
    /\ r.version <= n
    /\ r.version = n => \A c \in Cells \ r.changed : r.staged[c] = d[c]

\* The change that a caller has to tell of was made; it tells each watcher once.
Telling(r) == r.place \in {"recorded", "notifying"}
Teller(r, n) ==
  /\ Telling(r) => r.change \in 1..n
  /\ r.place # "notifying" => r.todo = <<>>
  /\ IsInjective(r.todo)
CallerSound(t) == Staged(caller[t], data, revision) /\ Teller(caller[t], revision)

\* Callers tell of different changes.
Apart == \A t, u \in Callers : t # u /\ Telling(caller[t]) /\ Telling(caller[u]) =>
           caller[t].change # caller[u].change

\* A watcher that is still to be told of a change was not told of it.
Untold(r, w) == w \in ToSet(r.todo) \/ r.place = "recorded"
Owing == \A t \in Callers, w \in Watchers :
  /\ Untold(caller[t], w) => caller[t].change \notin ToSet(told[w].revisions)
  /\ w \in ToSet(caller[t].todo) => ~told[w].new

\* A watcher subscribes once and is told of changes that were made, of each once.
Subscribers ==
  /\ IsInjective(watchers)
  /\ \A w \in Watchers :
       /\ w \in ToSet(watchers) => ~told[w].new
       /\ IsInjective(told[w].revisions)
       /\ ToSet(told[w].revisions) \subseteq 1..revision

\* A subscribed watcher was told of each later change, or somebody is about to.
Covered(w, n) ==
  \/ n \in ToSet(told[w].revisions)
  \/ \E t \in Callers : caller[t].change = n /\ Untold(caller[t], w)
AllTold == \A w \in Watchers : w \in ToSet(watchers) =>
             \A n \in (told[w].since + 1)..revision : Covered(w, n)

CtxInv ==
  /\ CtxTypes /\ Recorder /\ Spaced(data) /\ (\A t \in Callers : CallerSound(t))
  /\ Apart /\ Owing /\ Subscribers /\ AllTold

-----------------------------------------------------------------------------
\* What is in a sequence, in the words of the context.
LEMMA ContainsIsIn ==
  ASSUME NEW S, NEW s \in Seq(S), NEW e
  PROVE  Context!Contains(s, e) <=> e \in ToSet(s)
<1>1. DOMAIN s = 1..Len(s)
  BY LenProperties
<1>2. QED
  BY <1>1 DEF Context!Contains, ToSet

LEMMA CtxTyped ==
  ASSUME CtxTypes
  PROVE  /\ \A t \in Callers : caller[t] \in CallerRecords
         /\ \A w \in Watchers : told[w] \in Subscriptions /\ told[w].revisions \in Seq(Nat)
BY DEF CtxTypes, Subscriptions

\* What becomes of the record of a caller.
LEMMA IdleRecord ==
  Context!Idle \in CallerRecords /\ Context!Idle.todo = <<>> /\ Context!Idle.place = "idle"
<1>1. <<>> \in Seq(Watchers)
  OBVIOUS
<1>2. QED
  BY <1>1 DEF Context!Idle, CallerRecords, Places

\* A record among the changes: a cell it touches is as it leaves it, any other as before.
LEMMA RecordLeaves ==
  ASSUME NEW l \in Seq(Maps), NEW f \in Maps, NEW d, NEW new, NEW c,
         LeftBy(d, l, c),
         c \in DOMAIN f => new[c] = f[c],
         c \notin DOMAIN f => new[c] = d[c]
  PROVE  LeftBy(new, Append(l, f), c)
<1> DEFINE k == Append(l, f)
<1>1. /\ Len(l) \in Nat /\ DOMAIN l = 1..Len(l)
      /\ Len(k) = Len(l) + 1 /\ DOMAIN k = 1..Len(l) + 1
      /\ \A n \in 1..Len(l) : k[n] = l[n]
      /\ k[Len(l) + 1] = f
  BY AppendProperties, LenProperties
<1> HIDE DEF k
<1>2. \A n \in 1..Len(l) : Touched(k, n, c) <=> Touched(l, n, c)
  BY <1>1 DEF Touched
<1>3. Touched(k, Len(l) + 1, c) <=> c \in DOMAIN f
  BY <1>1 DEF Touched
<1>4. CASE c \in DOMAIN f
  <2>1. Len(l) + 1 \in 1..Len(k)
    BY <1>1
  <2>2. \A m \in ((Len(l) + 1) + 1)..Len(k) : FALSE
    BY <1>1
  <2>3. new[c] = k[Len(l) + 1][c]
    BY <1>1, <1>4
  <2>4. QED
    BY <1>3, <1>4, <2>1, <2>2, <2>3 DEF LeftBy, k
<1>5. CASE c \notin DOMAIN f
  <2>0. \A n \in Nat : n \in 1..Len(k) => n \in 1..Len(l) \/ n = Len(l) + 1
    BY <1>1
  <2>1. CASE d[c] = Context!Absent /\ \A n \in 1..Len(l) : ~Touched(l, n, c)
    <3>1. \A n \in 1..Len(k) : ~Touched(k, n, c)
      BY <1>1, <1>2, <1>3, <1>5, <2>0, <2>1
    <3>2. QED
      BY <1>5, <2>1, <3>1 DEF LeftBy, k
  <2>2. CASE \E n \in 1..Len(l) :
               Touched(l, n, c) /\ d[c] = l[n][c] /\ \A m \in (n + 1)..Len(l) : ~Touched(l, m, c)
    <3>1. PICK n \in 1..Len(l) :
            Touched(l, n, c) /\ d[c] = l[n][c] /\ \A m \in (n + 1)..Len(l) : ~Touched(l, m, c)
      BY <2>2
    <3>2. n \in 1..Len(k) /\ Touched(k, n, c) /\ new[c] = k[n][c]
      BY <1>1, <1>2, <1>5, <3>1
    <3>3. ASSUME NEW m \in (n + 1)..Len(k) PROVE ~Touched(k, m, c)
      <4>1. CASE m = Len(l) + 1
        BY <1>3, <1>5, <4>1
      <4>2. CASE m # Len(l) + 1
        <5>1. m \in (n + 1)..Len(l) /\ m \in 1..Len(l)
          BY <1>1, <4>2
        <5>2. QED
          BY <1>2, <3>1, <5>1
      <4>3. QED
        BY <4>1, <4>2
    <3>4. QED
      BY <3>2, <3>3 DEF LeftBy, k
  <2>3. QED
    BY <2>1, <2>2 DEF LeftBy
<1>6. QED
  BY <1>4, <1>5

\* A caller that has nothing to tell goes on without a change.
LEMMA QuietStep ==
  ASSUME CtxInv, NEW t \in Callers,
         \A w \in Watchers : ~Untold(caller[t], w),
         NEW r \in CallerRecords, Staged(r, data, revision), ~Telling(r), r.todo = <<>>,
         caller' = [caller EXCEPT ![t] = r],
         UNCHANGED <<data, revision, watchers, changes, told>>
  PROVE  CtxInv'
<1>1. /\ caller'[t] = r
      /\ \A u \in Callers : u # t => caller'[u] = caller[u]
      /\ caller' \in [Callers -> CallerRecords]
  BY DEF CtxInv, CtxTypes
<1>2. CtxTypes'
  BY <1>1 DEF CtxInv, CtxTypes
<1>3. Recorder' /\ Spaced(data)' /\ Subscribers'
  BY DEF CtxInv, Recorder, Subscribers
<1>4. ASSUME NEW u \in Callers PROVE CallerSound(u)'
  <2>1. CASE u = t
    <3>1. IsInjective(r.todo)
      BY DEF IsInjective
    <3>2. Teller(r, revision)
      BY <3>1 DEF Teller
    <3>3. QED
      BY <1>1, <2>1, <3>2 DEF CallerSound
  <2>2. CASE u # t
    BY <1>1, <2>2 DEF CallerSound, CtxInv
  <2>3. QED
    BY <2>1, <2>2
<1>5. Apart'
  BY <1>1 DEF Apart, CtxInv
<1>6. \A w : ~Untold(r, w)
  BY DEF Untold, Telling, ToSet
<1>7. Owing'
  <2>1. \A w : w \notin ToSet(r.todo)
    BY DEF ToSet
  <2>2. QED
    BY <1>1, <1>6, <2>1 DEF Owing, CtxInv
<1>8. AllTold'
  <2>1. ASSUME NEW w \in Watchers, NEW n, Covered(w, n) PROVE Covered(w, n)'
    BY <1>1, <2>1 DEF Covered
  <2>2. QED
    BY <2>1 DEF AllTold, CtxInv
<1>9. QED
  BY <1>2, <1>3, <1>4, <1>5, <1>7, <1>8 DEF CtxInv

\* A caller that has nothing to tell makes a change, on the data as it is.
LEMMA RecordStep ==
  ASSUME CtxInv, NEW t \in Callers,
         \A w \in Watchers : ~Untold(caller[t], w),
         NEW new \in [Cells -> Contents], Spaced(new),
         NEW cells \in SUBSET Cells, \A c \in Cells \ cells : new[c] = data[c],
         Context!Recorded(t, new, cells),
         UNCHANGED <<watchers, told>>
  PROVE  CtxInv'
<1> DEFINE f == [c \in cells |-> new[c]]
           r == [Context!Idle EXCEPT !.place = "recorded", !.change = revision']
<1>0. CtxTypes /\ revision \in Nat /\ changes \in Seq(Maps)
  BY DEF CtxInv, CtxTypes
<1>1. /\ data' = new /\ revision' = revision + 1 /\ changes' = Append(changes, f)
      /\ caller' = [caller EXCEPT ![t] = r]
  BY DEF Context!Recorded
<1>r. r = [Context!Idle EXCEPT !.place = "recorded", !.change = revision + 1]
  BY <1>1
<1> HIDE DEF r
<1>2. /\ r \in CallerRecords /\ r.place = "recorded" /\ r.change = revision + 1 /\ r.todo = <<>>
  <2>1. PICK n \in Nat : n = revision + 1
    BY <1>0
  <2>2. r = [Context!Idle EXCEPT !.place = "recorded", !.change = n]
    BY <1>r, <2>1
  <2>3. r \in CallerRecords /\ r.place = "recorded" /\ r.change = n /\ r.todo = Context!Idle.todo
    BY <2>2, IdleRecord DEF CallerRecords, Places
  <2>4. QED
    BY <2>1, <2>3, IdleRecord
<1>3. f \in Maps /\ DOMAIN f = cells
  BY DEF Maps
<1> HIDE DEF f
<1>4. /\ caller'[t] = r
      /\ \A u \in Callers : u # t => caller'[u] = caller[u]
      /\ caller' \in [Callers -> CallerRecords]
  BY <1>0, <1>1, <1>2 DEF CtxTypes
<1>5. changes' \in Seq(Maps) /\ Len(changes') = Len(changes) + 1
  BY <1>0, <1>1, <1>3, AppendProperties
<1>6. CtxTypes'
  BY <1>0, <1>1, <1>4, <1>5 DEF CtxTypes
<1>7. Recorder'
  <2>1. ASSUME NEW c \in Cells PROVE LeftBy(new, changes', c)
    <3>1. LeftBy(data, changes, c)
      BY DEF CtxInv, Recorder
    <3>2. (c \in DOMAIN f => new[c] = f[c]) /\ (c \notin DOMAIN f => new[c] = data[c])
      BY <1>3 DEF f
    <3>3. QED
      BY <1>0, <1>1, <1>3, <3>1, <3>2, RecordLeaves
  <2>2. revision' = Len(changes')
    BY <1>0, <1>1, <1>5 DEF CtxInv, Recorder
  <2>3. QED
    BY <1>1, <2>1, <2>2 DEF Recorder
<1>8. Spaced(data)'
  BY <1>1
<1>9. ASSUME NEW u \in Callers PROVE CallerSound(u)'
  <2>1. CASE u = t
    <3>1. IsInjective(r.todo) /\ revision + 1 \in 1..revision'
      BY <1>0, <1>1, <1>2 DEF IsInjective
    <3>2. Teller(r, revision')
      BY <1>2, <3>1 DEF Teller
    <3>3. Staged(r, data', revision')
      BY <1>2 DEF Staged
    <3>4. QED
      BY <1>4, <2>1, <3>2, <3>3 DEF CallerSound
  <2>2. CASE u # t
    <3>1. Staged(caller[u], data, revision) /\ Teller(caller[u], revision)
      BY DEF CtxInv, CallerSound
    <3>2. \A m \in 1..revision : m \in 1..revision'
      BY <1>0, <1>1
    <3>3. Teller(caller[u], revision')
      BY <3>1, <3>2 DEF Teller
    <3>4. caller[u].version \in Nat
      BY CtxTyped, <1>0 DEF CallerRecords
    <3>5. caller[u].version <= revision => caller[u].version <= revision' /\ caller[u].version # revision'
      BY <1>0, <1>1, <3>4
    <3>6. Staged(caller[u], data', revision')
      BY <3>1, <3>5 DEF Staged
    <3>7. QED
      BY <1>4, <2>2, <3>3, <3>6 DEF CallerSound
  <2>3. QED
    BY <2>1, <2>2
<1>10. revision + 1 \notin 1..revision
  BY <1>0
<1>11. Apart'
  <2>1. ASSUME NEW u \in Callers, u # t, Telling(caller[u]) PROVE caller[u].change # revision + 1
    BY <1>10, <2>1 DEF CtxInv, CallerSound, Teller
  <2>2. QED
    BY <1>2, <1>4, <2>1 DEF Apart, CtxInv
<1>12. \A w : w \notin ToSet(r.todo)
  BY <1>2 DEF ToSet
<1>13. Owing'
  <2>1. \A w \in Watchers : revision + 1 \notin ToSet(told[w].revisions)
    BY <1>10 DEF CtxInv, Subscribers
  <2>2. QED
    BY <1>2, <1>4, <1>12, <2>1 DEF Owing, CtxInv
<1>14. Subscribers'
  <2>1. \A m \in 1..revision : m \in 1..revision'
    BY <1>0, <1>1
  <2>2. QED
    BY <2>1 DEF Subscribers, CtxInv
<1>15. AllTold'
  <2>1. ASSUME NEW w \in Watchers, NEW n, Covered(w, n) PROVE Covered(w, n)'
    BY <1>4, <2>1 DEF Covered
  <2>2. ASSUME NEW w \in Watchers, NEW n, n = revision + 1 PROVE Covered(w, n)'
    BY <1>2, <1>4, <2>2 DEF Covered, Untold
  <2>3. ASSUME NEW w \in Watchers, w \in ToSet(watchers), NEW n \in (told[w].since + 1)..revision'
        PROVE  Covered(w, n)'
    <3>1. told[w].since \in Nat
      BY <1>0, CtxTyped DEF Subscriptions
    <3>2. n = revision + 1 \/ n \in (told[w].since + 1)..revision
      BY <1>0, <1>1, <3>1
    <3>3. QED
      BY <2>1, <2>2, <2>3, <3>2 DEF CtxInv, AllTold
  <2>4. QED
    BY <2>3 DEF AllTold
<1>16. QED
  BY <1>6, <1>7, <1>8, <1>9, <1>11, <1>13, <1>14, <1>15 DEF CtxInv

\* An edit of good data makes good data and touches one cell.
LEMMA EditKeeps ==
  ASSUME NEW Names, CellsAssumption(Names),
         NEW d \in [Cells -> Contents], Spaced(d), NEW e \in Context!Edits, Context!Edited(d, e[1], e[2])
  PROVE  /\ e[1] \in Cells /\ {e[1]} \in SUBSET Cells
         /\ [d EXCEPT ![e[1]] = e[2]] \in [Cells -> Contents]
         /\ Spaced([d EXCEPT ![e[1]] = e[2]])
         /\ \A c \in Cells \ {e[1]} : [d EXCEPT ![e[1]] = e[2]][c] = d[c]
<1> DEFINE c == e[1]
           v == e[2]
           x == [d EXCEPT ![c] = v]
<1>1. c \in Cells /\ v \in Contents
  BY DEF Context!Edits, Contents
<1>2. Context!Edited(d, c, v)
  OBVIOUS
<1> HIDE DEF c, v
<1>3. x \in [Cells -> Contents] /\ x[c] = v /\ \A k \in Cells : k # c => x[k] = d[k]
  BY <1>1
<1>4. ASSUME NEW k \in Cells
      PROVE  /\ Context!Space(k) \in Cells /\ Context!IsSpace(Context!Space(k))
             /\ Context!IsSpace(k) => Context!Space(k) = k
  <2>1. k \in Names \X STRING
    BY DEF CellsAssumption
  <2>2. k = <<k[1], k[2]>>
    BY <2>1
  <2>3. QED
    BY <2>2 DEF CellsAssumption, Context!Space, Context!IsSpace
<1>5. Spaced(x)
  <2> SUFFICES ASSUME NEW k \in Cells, x[k] # Context!Absent PROVE x[Context!Space(k)] = Context!Made
    BY DEF Spaced
  <2>1. CASE Context!IsSpace(c)
    <3>1. d[c] = Context!Absent /\ v = Context!Made
      BY <1>2, <2>1 DEF Context!Edited
    <3>2. CASE k = c
      BY <1>3, <1>4, <2>1, <3>1, <3>2
    <3>3. CASE k # c
      <4>1. d[Context!Space(k)] = Context!Made
        BY <1>3, <3>3 DEF Spaced
      <4>2. QED
        BY <1>3, <1>4, <3>1, <4>1
    <3>4. QED
      BY <3>2, <3>3
  <2>2. CASE ~Context!IsSpace(c)
    <3>1. d[Context!Space(c)] = Context!Made
      BY <1>2, <2>2 DEF Context!Edited
    <3>2. Context!Space(k) # c
      BY <1>4, <2>2
    <3>3. x[Context!Space(k)] = d[Context!Space(k)]
      BY <1>3, <1>4, <3>2
    <3>4. CASE k = c
      BY <3>1, <3>3, <3>4
    <3>5. CASE k # c
      BY <1>3, <3>3, <3>5 DEF Spaced
    <3>6. QED
      BY <3>4, <3>5
  <2>3. QED
    BY <2>1, <2>2
<1>6. QED
  BY <1>1, <1>3, <1>5 DEF c, v

\* Only a caller that recorded a change, or is telling of one, has to tell.
LEMMA NothingToTell ==
  ASSUME CtxInv, NEW t \in Callers, caller[t].place \notin {"recorded", "notifying"}
  PROVE  \A w \in Watchers : ~Untold(caller[t], w)
BY DEF CtxInv, CallerSound, Teller, Untold, ToSet

-----------------------------------------------------------------------------
\* One action each.
LEMMA CtxWrite ==
  ASSUME NEW Names, CellsAssumption(Names), CtxInv, NEW t \in Callers, Context!Write(t)
  PROVE  CtxInv'
<1>1. PICK e \in Context!Edits :
        Context!Edited(data, e[1], e[2]) /\ Context!Recorded(t, [data EXCEPT ![e[1]] = e[2]], {e[1]})
  BY DEF Context!Write
<1>2. caller[t].place = "idle" /\ UNCHANGED <<watchers, told>>
  BY DEF Context!Write
<1>3. \A w \in Watchers : ~Untold(caller[t], w)
  BY <1>2, NothingToTell
<1>4. data \in [Cells -> Contents] /\ Spaced(data)
  BY DEF CtxInv, CtxTypes
<1>5. /\ {e[1]} \in SUBSET Cells
      /\ [data EXCEPT ![e[1]] = e[2]] \in [Cells -> Contents]
      /\ Spaced([data EXCEPT ![e[1]] = e[2]])
      /\ \A c \in Cells \ {e[1]} : [data EXCEPT ![e[1]] = e[2]][c] = data[c]
  BY <1>1, <1>4, EditKeeps
<1>6. QED
  BY <1>1, <1>2, <1>3, <1>5, RecordStep

LEMMA CtxLook ==
  ASSUME CtxInv, NEW t \in Callers, Context!Look(t)
  PROVE  CtxInv'
<1> DEFINE r == [caller[t] EXCEPT !.place = "looked", !.version = revision]
<1>1. /\ caller[t].place = "idle" /\ caller' = [caller EXCEPT ![t] = r]
      /\ UNCHANGED <<data, revision, watchers, changes, told>>
  BY DEF Context!Look, CtxInv, CtxTypes
<1>2. \A w \in Watchers : ~Untold(caller[t], w)
  BY <1>1, NothingToTell
<1>3. caller[t] \in CallerRecords /\ revision \in Nat
  BY CtxTyped DEF CtxInv, CtxTypes
<1>r. r = [caller[t] EXCEPT !.place = "looked", !.version = revision]
  OBVIOUS
<1> HIDE DEF r
<1>4. r \in CallerRecords /\ r.place = "looked" /\ r.todo = caller[t].todo
  BY <1>3, <1>r DEF CallerRecords, Places
<1>5. r.todo = <<>>
  BY <1>1, <1>4 DEF CtxInv, CallerSound, Teller
<1>6. Staged(r, data, revision) /\ ~Telling(r)
  BY <1>4 DEF Staged, Telling
<1>7. QED
  BY <1>1, <1>2, <1>4, <1>5, <1>6, QuietStep

\* Back to idle, with nothing left to tell.
LEMMA CtxIdle ==
  ASSUME CtxInv, NEW t \in Callers,
         \A w \in Watchers : ~Untold(caller[t], w),
         caller' = [caller EXCEPT ![t] = Context!Idle],
         UNCHANGED <<data, revision, watchers, changes, told>>
  PROVE  CtxInv'
<1>1. Staged(Context!Idle, data, revision) /\ ~Telling(Context!Idle)
  BY IdleRecord DEF Staged, Telling
<1>2. QED
  BY <1>1, IdleRecord, QuietStep

LEMMA CtxBegin ==
  ASSUME CtxInv, NEW t \in Callers, Context!Begin(t)
  PROVE  CtxInv'
<1> DEFINE r == [Context!Idle EXCEPT !.place = "staging", !.version = revision, !.staged = data]
<1>1. /\ caller[t].place \in {"idle", "looked"}
      /\ caller' = [caller EXCEPT ![t] = Context!Idle] \/ caller' = [caller EXCEPT ![t] = r]
      /\ UNCHANGED <<data, revision, watchers, changes, told>>
  BY DEF Context!Begin, CtxInv, CtxTypes
<1>2. \A w \in Watchers : ~Untold(caller[t], w)
  BY <1>1, NothingToTell
<1>3. revision \in Nat /\ data \in [Cells -> Contents] /\ Spaced(data)
  BY DEF CtxInv, CtxTypes
<1>r. r = [Context!Idle EXCEPT !.place = "staging", !.version = revision, !.staged = data]
  OBVIOUS
<1> HIDE DEF r
<1>4. /\ r \in CallerRecords /\ r.place = "staging" /\ r.todo = <<>>
      /\ r.version = revision /\ r.staged = data
  <2>1. /\ r \in CallerRecords /\ r.place = "staging" /\ r.todo = Context!Idle.todo
        /\ r.version = revision /\ r.staged = data
    BY <1>3, <1>r, IdleRecord DEF CallerRecords, Places
  <2>2. QED
    BY <2>1, IdleRecord
<1>5. Staged(r, data, revision) /\ ~Telling(r)
  BY <1>3, <1>4 DEF Staged, Telling
<1>6. CASE caller' = [caller EXCEPT ![t] = Context!Idle]
  BY <1>1, <1>2, <1>6, CtxIdle
<1>7. CASE caller' = [caller EXCEPT ![t] = r]
  BY <1>1, <1>2, <1>4, <1>5, <1>7, QuietStep
<1>8. QED
  BY <1>1, <1>6, <1>7

LEMMA CtxStage ==
  ASSUME NEW Names, CellsAssumption(Names), CtxInv, NEW t \in Callers, Context!Stage(t)
  PROVE  CtxInv'
<1>1. PICK e \in Context!Edits :
        /\ Context!Edited(caller[t].staged, e[1], e[2])
        /\ caller' = [caller EXCEPT ![t].staged[e[1]] = e[2], ![t].changed = @ \cup {e[1]}]
  BY DEF Context!Stage
<1>2. caller[t].place = "staging" /\ UNCHANGED <<data, revision, watchers, changes, told>>
  BY DEF Context!Stage
<1>3. \A w \in Watchers : ~Untold(caller[t], w)
  BY <1>2, NothingToTell
<1>4. /\ caller[t] \in CallerRecords /\ caller[t].changed \in SUBSET Cells
      /\ caller \in [Callers -> CallerRecords]
  BY CtxTyped DEF CtxInv, CtxTypes, CallerRecords
<1> DEFINE d == [caller[t].staged EXCEPT ![e[1]] = e[2]]
           s == caller[t].changed \cup {e[1]}
           r == [caller[t] EXCEPT !.staged = d, !.changed = s]
<1>5. caller' = [caller EXCEPT ![t] = r]
  BY <1>1, <1>4 DEF CallerRecords
<1>6. /\ caller[t].staged \in [Cells -> Contents] /\ Spaced(caller[t].staged)
      /\ caller[t].version <= revision
      /\ caller[t].version = revision =>
            \A c \in Cells \ caller[t].changed : caller[t].staged[c] = data[c]
      /\ caller[t].todo = <<>>
  BY <1>2 DEF CtxInv, CallerSound, Staged, Teller
<1>7. /\ e[1] \in Cells /\ d \in [Cells -> Contents] /\ Spaced(d)
      /\ \A c \in Cells \ {e[1]} : d[c] = caller[t].staged[c]
  BY <1>1, <1>6, EditKeeps
<1> HIDE DEF d
<1>8. s \in SUBSET Cells
  BY <1>4, <1>7
<1> HIDE DEF s
<1>r. r = [caller[t] EXCEPT !.staged = d, !.changed = s]
  OBVIOUS
<1> HIDE DEF r
<1>9. /\ r \in CallerRecords /\ r.place = "staging" /\ r.todo = <<>>
      /\ r.version = caller[t].version /\ r.staged = d /\ r.changed = s
  <2>1. /\ r \in CallerRecords /\ r.place = caller[t].place /\ r.todo = caller[t].todo
        /\ r.version = caller[t].version /\ r.staged = d /\ r.changed = s
    BY <1>4, <1>7, <1>8, <1>r DEF CallerRecords
  <2>2. QED
    BY <1>2, <1>6, <2>1
<1>10. Staged(r, data, revision) /\ ~Telling(r)
  BY <1>6, <1>7, <1>9 DEF Staged, Telling, s
<1>11. QED
  BY <1>2, <1>3, <1>5, <1>9, <1>10, QuietStep

LEMMA CtxLeave ==
  ASSUME CtxInv, NEW t \in Callers, Context!Leave(t)
  PROVE  CtxInv'
<1>1. \A w \in Watchers : ~Untold(caller[t], w)
  BY NothingToTell DEF Context!Leave
<1>2. QED
  BY <1>1, CtxIdle DEF Context!Leave

LEMMA CtxCommit ==
  ASSUME CtxInv, NEW t \in Callers, Context!Commit(t)
  PROVE  CtxInv'
<1>1. caller[t].place = "staging" /\ UNCHANGED <<watchers, told>>
  BY DEF Context!Commit
<1>2. \A w \in Watchers : ~Untold(caller[t], w)
  BY <1>1, NothingToTell
<1>3. CASE Context!Current(t)
  <2>1. Context!Recorded(t, caller[t].staged, caller[t].changed) /\ revision = caller[t].version
    BY <1>3 DEF Context!Commit, Context!Current
  <2>2. caller[t].changed \in SUBSET Cells
    BY CtxTyped DEF CtxInv, CallerRecords
  <2>3. /\ caller[t].staged \in [Cells -> Contents] /\ Spaced(caller[t].staged)
        /\ \A c \in Cells \ caller[t].changed : caller[t].staged[c] = data[c]
    BY <1>1, <2>1 DEF CtxInv, CallerSound, Staged
  <2>4. QED
    BY <1>1, <1>2, <2>1, <2>2, <2>3, RecordStep
<1>4. CASE ~Context!Current(t)
  <2>1. caller' = [caller EXCEPT ![t] = Context!Idle] /\ UNCHANGED <<data, revision, changes>>
    BY <1>4 DEF Context!Commit
  <2>2. QED
    BY <1>1, <1>2, <2>1, CtxIdle
<1>5. QED
  BY <1>3, <1>4

LEMMA CtxReturn ==
  ASSUME CtxInv, NEW t \in Callers, Context!Return(t)
  PROVE  CtxInv'
<1>1. \A w \in Watchers : ~Untold(caller[t], w)
  BY DEF Context!Return, Untold, ToSet
<1>2. QED
  BY <1>1, CtxIdle DEF Context!Return

LEMMA CtxNotify ==
  ASSUME CtxInv, NEW t \in Callers, Context!Notify(t)
  PROVE  CtxInv'
<1> DEFINE r == [caller[t] EXCEPT !.place = "notifying", !.todo = watchers]
<1>0. /\ caller \in [Callers -> CallerRecords] /\ caller[t] \in CallerRecords /\ watchers \in Seq(Watchers)
      /\ IsInjective(watchers)
  BY DEF CtxInv, CtxTypes, Subscribers
<1>1. /\ caller[t].place = "recorded" /\ caller' = [caller EXCEPT ![t] = r]
      /\ UNCHANGED <<data, revision, watchers, changes, told>>
  BY <1>0 DEF Context!Notify
<1>r. r = [caller[t] EXCEPT !.place = "notifying", !.todo = watchers]
  OBVIOUS
<1> HIDE DEF r
<1>2. r \in CallerRecords /\ r.place = "notifying" /\ r.todo = watchers /\ r.change = caller[t].change
  BY <1>0, <1>r DEF CallerRecords, Places
<1>3. /\ caller'[t] = r
      /\ \A u \in Callers : u # t => caller'[u] = caller[u]
      /\ caller' \in [Callers -> CallerRecords]
  BY <1>0, <1>1, <1>2
<1>4. CtxTypes' /\ Recorder' /\ Spaced(data)' /\ Subscribers'
  BY <1>1, <1>3 DEF CtxInv, CtxTypes, Recorder, Subscribers
<1>5. ASSUME NEW u \in Callers PROVE CallerSound(u)'
  <2>1. Staged(caller[u], data, revision) /\ Teller(caller[u], revision)
    BY DEF CtxInv, CallerSound
  <2>2. Staged(r, data, revision)
    BY <1>2 DEF Staged
  <2>3. Telling(caller[t])
    BY <1>1 DEF Telling
  <2>4. u = t => Teller(r, revision)
    BY <1>0, <1>2, <2>1, <2>3 DEF Teller
  <2>5. QED
    BY <1>1, <1>3, <2>1, <2>2, <2>4 DEF CallerSound
<1>6. Apart'
  <2>1. \A u \in Callers : (Telling(caller'[u]) <=> Telling(caller[u])) /\ caller'[u].change = caller[u].change
    BY <1>1, <1>2, <1>3 DEF Telling
  <2>2. QED
    BY <2>1 DEF Apart, CtxInv
<1>7. \A w : ~(w \in ToSet(caller[t].todo)) /\ Untold(caller[t], w)
  BY <1>1 DEF CtxInv, CallerSound, Teller, Untold, ToSet
<1>8. Owing'
  <2>1. ASSUME NEW w \in Watchers PROVE caller[t].change \notin ToSet(told[w].revisions)
    BY <1>7 DEF CtxInv, Owing
  <2>2. ASSUME NEW w \in Watchers, w \in ToSet(r.todo) PROVE ~told[w].new
    BY <1>2, <2>2 DEF CtxInv, Subscribers
  <2>3. ASSUME NEW u \in Callers, NEW w \in Watchers
        PROVE  /\ Untold(caller'[u], w) => caller'[u].change \notin ToSet(told[w].revisions)
               /\ w \in ToSet(caller'[u].todo) => ~told[w].new
    <3>1. CASE u = t
      BY <1>2, <1>3, <2>1, <2>2, <3>1
    <3>2. CASE u # t
      BY <1>3, <3>2 DEF CtxInv, Owing
    <3>3. QED
      BY <3>1, <3>2
  <2>4. QED
    BY <1>1, <2>3 DEF Owing
<1>9. AllTold'
  <2>1. ASSUME NEW w \in Watchers, w \in ToSet(watchers), NEW n, Covered(w, n) PROVE Covered(w, n)'
    <3>1. Untold(r, w)
      BY <1>2, <2>1 DEF Untold
    <3>2. QED
      BY <1>1, <1>2, <1>3, <2>1, <3>1 DEF Covered
  <2>2. QED
    BY <1>1, <2>1 DEF AllTold, CtxInv
<1>10. QED
  BY <1>4, <1>5, <1>6, <1>8, <1>9 DEF CtxInv

\* A watcher that is called is told of a change of which it was not told before.
LEMMA CtxTell ==
  ASSUME CtxInv, NEW t \in Callers, Context!Tell(t)
  PROVE  CtxInv'
<1> DEFINE w == Head(caller[t].todo)
           q == Tail(caller[t].todo)
           b == caller[t].failed \/ w \in Failing \cup Recursing
           r == [caller[t] EXCEPT !.todo = q, !.failed = b]
           c == caller[t].change
           s == [told[w] EXCEPT !.revisions = Append(@, c)]
<1>0. /\ caller \in [Callers -> CallerRecords] /\ caller[t] \in CallerRecords
      /\ caller[t].todo \in Seq(Watchers) /\ c \in Nat /\ b \in BOOLEAN
      /\ told \in [Watchers -> Subscriptions]
  BY CtxTyped DEF CtxInv, CtxTypes, CallerRecords
<1>1. caller[t].place = "notifying" /\ caller[t].todo # <<>>
  BY DEF Context!Tell
<1>2. /\ told' = [told EXCEPT ![w] = s] /\ caller' = [caller EXCEPT ![t] = r]
      /\ UNCHANGED <<data, revision, watchers, changes>>
  BY <1>0, <1>1 DEF Context!Tell, Context!MayWrite, Context!Rest
<1>3. /\ w \in Watchers /\ q \in Seq(Watchers) /\ ToSet(caller[t].todo) = {w} \cup ToSet(q)
      /\ IsInjective(q) /\ w \notin ToSet(q)
  <2>1. IsInjective(caller[t].todo)
    BY DEF CtxInv, CallerSound, Teller
  <2>2. QED
    BY <1>0, <1>1, <2>1, HeadTailElements, TailDistinct
<1>r. r = [caller[t] EXCEPT !.todo = q, !.failed = b]
  OBVIOUS
<1>s. s = [told[w] EXCEPT !.revisions = Append(told[w].revisions, c)]
  OBVIOUS
<1> HIDE DEF w, q, b, r, c, s
<1>4. r \in CallerRecords /\ r.place = "notifying" /\ r.todo = q /\ r.change = c
  <2>1. r \in CallerRecords /\ r.place = caller[t].place /\ r.todo = q /\ r.change = caller[t].change
    BY <1>0, <1>3, <1>r DEF CallerRecords
  <2>2. QED
    BY <1>1, <2>1 DEF c
<1>5. /\ told[w] \in Subscriptions /\ told[w].revisions \in Seq(Nat)
      /\ Append(told[w].revisions, c) \in Seq(Nat)
  <2>1. told[w] \in Subscriptions /\ told[w].revisions \in Seq(Nat)
    BY <1>3, CtxTyped DEF CtxInv
  <2>2. QED
    BY <1>0, <2>1, AppendProperties
<1>6. /\ s \in Subscriptions /\ s.revisions = Append(told[w].revisions, c)
      /\ s.new = told[w].new /\ s.since = told[w].since
  BY <1>5, <1>s DEF Subscriptions
<1>7. ToSet(s.revisions) = ToSet(told[w].revisions) \cup {c}
  BY <1>0, <1>5, <1>6, AppendElements
<1>8. /\ caller'[t] = r
      /\ \A u \in Callers : u # t => caller'[u] = caller[u]
      /\ caller' \in [Callers -> CallerRecords]
      /\ told'[w] = s
      /\ \A x \in Watchers : x # w => told'[x] = told[x]
      /\ told' \in [Watchers -> Subscriptions]
  BY <1>0, <1>2, <1>3, <1>4, <1>6
<1>9. /\ Untold(caller[t], w) /\ c \notin ToSet(told[w].revisions) /\ ~told[w].new
      /\ c \in 1..revision /\ Telling(caller[t])
  <2>1. Untold(caller[t], w) /\ w \in ToSet(caller[t].todo) /\ Telling(caller[t])
    BY <1>1, <1>3 DEF Untold, Telling
  <2>2. QED
    BY <1>3, <2>1 DEF CtxInv, Owing, CallerSound, Teller, c
<1>10. CtxTypes' /\ Recorder' /\ Spaced(data)'
  BY <1>2, <1>8 DEF CtxInv, CtxTypes, Recorder
<1>11. ASSUME NEW u \in Callers PROVE CallerSound(u)'
  <2>1. Staged(caller[u], data, revision) /\ Teller(caller[u], revision)
    BY DEF CtxInv, CallerSound
  <2>2. Staged(r, data, revision)
    BY <1>4 DEF Staged
  <2>3. Teller(r, revision)
    BY <1>3, <1>4, <1>9 DEF Teller
  <2>4. QED
    BY <1>2, <1>8, <2>1, <2>2, <2>3 DEF CallerSound
<1>12. Apart'
  <2>1. \A u \in Callers : (Telling(caller'[u]) <=> Telling(caller[u])) /\ caller'[u].change = caller[u].change
    BY <1>1, <1>4, <1>8 DEF Telling, c
  <2>2. QED
    BY <2>1 DEF Apart, CtxInv
<1>13. ASSUME NEW x \in Watchers
       PROVE  /\ told'[x].new = told[x].new /\ told'[x].since = told[x].since
              /\ ToSet(told'[x].revisions) =
                   IF x = w THEN ToSet(told[w].revisions) \cup {c} ELSE ToSet(told[x].revisions)
  BY <1>6, <1>7, <1>8
<1>14. Owing'
  <2>1. ASSUME NEW u \in Callers, u # t, NEW x \in Watchers
        PROVE  /\ Untold(caller[u], x) => caller[u].change \notin ToSet(told'[x].revisions)
               /\ x \in ToSet(caller[u].todo) => ~told'[x].new
    <3>1. Untold(caller[u], x) => Telling(caller[u])
      BY DEF CtxInv, CallerSound, Teller, Untold, Telling, ToSet
    <3>2. Untold(caller[u], x) => caller[u].change # c
      BY <1>9, <2>1, <3>1 DEF CtxInv, Apart, c
    <3>3. QED
      BY <1>13, <3>2 DEF CtxInv, Owing
  <2>2. ASSUME NEW x \in Watchers
        PROVE  /\ Untold(r, x) => c \notin ToSet(told'[x].revisions)
               /\ x \in ToSet(r.todo) => ~told'[x].new
    <3>1. Untold(r, x) => x \in ToSet(q) /\ x # w
      BY <1>3, <1>4 DEF Untold
    <3>2. x \in ToSet(q) => x \in ToSet(caller[t].todo) /\ Untold(caller[t], x)
      BY <1>3 DEF Untold
    <3>3. QED
      BY <1>4, <1>13, <3>1, <3>2 DEF CtxInv, Owing, c
  <2>3. ASSUME NEW u \in Callers, NEW x \in Watchers
        PROVE  /\ Untold(caller'[u], x) => caller'[u].change \notin ToSet(told'[x].revisions)
               /\ x \in ToSet(caller'[u].todo) => ~told'[x].new
    <3>1. CASE u = t
      BY <1>4, <1>8, <2>2, <3>1
    <3>2. CASE u # t
      BY <1>8, <2>1, <3>2
    <3>3. QED
      BY <3>1, <3>2
  <2>4. QED
    BY <2>3 DEF Owing
<1>15. Subscribers'
  <2>1. IsInjective(s.revisions)
    <3>1. IsInjective(told[w].revisions)
      BY <1>3 DEF CtxInv, Subscribers
    <3>2. QED
      BY <1>0, <1>5, <1>6, <1>9, <3>1, AppendDistinct
  <2>2. ASSUME NEW x \in Watchers PROVE IsInjective(told'[x].revisions)
    BY <1>8, <2>1 DEF CtxInv, Subscribers
  <2>3. ASSUME NEW x \in Watchers PROVE ToSet(told'[x].revisions) \subseteq 1..revision
    BY <1>3, <1>9, <1>13 DEF CtxInv, Subscribers
  <2>4. QED
    BY <1>2, <1>13, <2>2, <2>3 DEF CtxInv, Subscribers
<1>16. AllTold'
  <2>1. ASSUME NEW x \in Watchers, NEW n, Covered(x, n) PROVE Covered(x, n)'
    <3>1. CASE n \in ToSet(told[x].revisions)
      BY <1>13, <3>1 DEF Covered
    <3>2. CASE \E u \in Callers : caller[u].change = n /\ Untold(caller[u], x)
      <4>1. PICK u \in Callers : caller[u].change = n /\ Untold(caller[u], x)
        BY <3>2
      <4>2. CASE u # t
        BY <1>8, <4>1, <4>2 DEF Covered
      <4>3. CASE u = t /\ x = w
        BY <1>13, <4>1, <4>3 DEF Covered, c
      <4>4. CASE u = t /\ x # w
        <5>1. x \in ToSet(q)
          BY <1>1, <1>3, <4>1, <4>4 DEF Untold
        <5>2. Untold(r, x)
          BY <1>4, <5>1 DEF Untold
        <5>3. QED
          BY <1>4, <1>8, <4>1, <4>4, <5>2 DEF Covered, c
      <4>5. QED
        BY <4>2, <4>3, <4>4
    <3>3. QED
      BY <2>1, <3>1, <3>2 DEF Covered
  <2>2. QED
    BY <1>2, <1>13, <2>1 DEF AllTold, CtxInv
<1>17. QED
  BY <1>10, <1>11, <1>12, <1>14, <1>15, <1>16 DEF CtxInv

LEMMA CtxSubscribe ==
  ASSUME CtxInv, NEW w \in Watchers, Context!Subscribe(w)
  PROVE  CtxInv'
<1> DEFINE s == [new |-> FALSE, since |-> revision, revisions |-> <<>>]
<1>0. /\ told \in [Watchers -> Subscriptions] /\ watchers \in Seq(Watchers) /\ revision \in Nat
  BY DEF CtxInv, CtxTypes
<1>1. /\ told[w].new /\ watchers' = Append(watchers, w) /\ told' = [told EXCEPT ![w] = s]
      /\ UNCHANGED <<data, revision, caller, changes>>
  BY DEF Context!Subscribe
<1>2. /\ s \in Subscriptions /\ ~s.new /\ s.since = revision /\ s.revisions = <<>>
  <2>1. <<>> \in Seq(Nat)
    OBVIOUS
  <2>2. QED
    BY <1>0, <2>1 DEF Subscriptions
<1> HIDE DEF s
<1>3. /\ told'[w] = s
      /\ \A x \in Watchers : x # w => told'[x] = told[x]
      /\ told' \in [Watchers -> Subscriptions]
  BY <1>0, <1>1, <1>2
<1>4. ToSet(s.revisions) = {} /\ IsInjective(s.revisions)
  BY <1>2 DEF ToSet, IsInjective
<1>5. w \notin ToSet(watchers)
  BY <1>1 DEF CtxInv, Subscribers
<1>6. /\ watchers' \in Seq(Watchers) /\ ToSet(watchers') = ToSet(watchers) \cup {w}
      /\ IsInjective(watchers')
  <2>1. IsInjective(watchers)
    BY DEF CtxInv, Subscribers
  <2>2. QED
    BY <1>0, <1>1, <1>5, <2>1, AppendProperties, AppendElements, AppendDistinct
<1>7. CtxTypes' /\ Recorder' /\ Spaced(data)' /\ Apart'
  BY <1>1, <1>3, <1>6 DEF CtxInv, CtxTypes, Recorder, Apart
<1>8. ASSUME NEW u \in Callers PROVE CallerSound(u)'
  BY <1>1 DEF CtxInv, CallerSound
<1>9. Owing'
  <2>1. ASSUME NEW u \in Callers, NEW x \in Watchers
        PROVE  /\ Untold(caller[u], x) => caller[u].change \notin ToSet(told'[x].revisions)
               /\ x \in ToSet(caller[u].todo) => ~told'[x].new
    BY <1>2, <1>3, <1>4 DEF CtxInv, Owing
  <2>2. QED
    BY <1>1, <2>1 DEF Owing
<1>10. Subscribers'
  <2>1. ASSUME NEW x \in Watchers
        PROVE  /\ x \in ToSet(watchers') => ~told'[x].new
               /\ IsInjective(told'[x].revisions)
               /\ ToSet(told'[x].revisions) \subseteq 1..revision
    BY <1>2, <1>3, <1>4, <1>6 DEF CtxInv, Subscribers
  <2>2. QED
    BY <1>1, <1>6, <2>1 DEF Subscribers
<1>11. AllTold'
  <2>1. ASSUME NEW x \in Watchers, x # w, NEW n, Covered(x, n) PROVE Covered(x, n)'
    BY <1>1, <1>3, <2>1 DEF Covered
  <2>2. ASSUME NEW x \in Watchers, x \in ToSet(watchers'), NEW n \in (told'[x].since + 1)..revision
        PROVE  Covered(x, n)'
    <3>1. x # w
      BY <1>0, <1>2, <1>3, <2>2
    <3>2. Covered(x, n)
      BY <1>3, <1>6, <2>2, <3>1 DEF CtxInv, AllTold
    <3>3. QED
      BY <2>1, <3>1, <3>2
  <2>3. QED
    BY <1>1, <2>2 DEF AllTold
<1>12. QED
  BY <1>7, <1>8, <1>9, <1>10, <1>11 DEF CtxInv

LEMMA CtxUnsubscribe ==
  ASSUME CtxInv, NEW w \in Watchers, Context!Unsubscribe(w)
  PROVE  CtxInv'
<1>0. watchers \in Seq(Watchers) /\ IsInjective(watchers)
  BY DEF CtxInv, CtxTypes, Subscribers
<1>1. watchers' = RemoveFirst(watchers, w) /\ UNCHANGED <<data, revision, caller, changes, told>>
  <2>1. Context!RemoveFirst(watchers, w) = RemoveFirst(watchers, w)
    BY DEF Context!RemoveFirst, RemoveFirst, Context!SelectInSeq, SelectInSeq, Context!RemoveAt, RemoveAt,
           Context!Min, Min
  <2>2. QED
    BY <2>1 DEF Context!Unsubscribe
<1>2. /\ watchers' \in Seq(Watchers) /\ IsInjective(watchers') /\ ToSet(watchers') = ToSet(watchers) \ {w}
  BY <1>0, <1>1, RemoveFirstProperties
<1>3. CtxTypes' /\ Recorder' /\ Spaced(data)' /\ Apart' /\ Owing'
  BY <1>1, <1>2 DEF CtxInv, CtxTypes, Recorder, Apart, Owing
<1>4. \A u \in Callers : CallerSound(u)'
  BY <1>1 DEF CtxInv, CallerSound
<1>5. Subscribers'
  BY <1>1, <1>2 DEF CtxInv, Subscribers
<1>6. AllTold'
  <2>1. ASSUME NEW x \in Watchers, NEW n, Covered(x, n) PROVE Covered(x, n)'
    BY <1>1, <2>1 DEF Covered
  <2>2. QED
    BY <1>1, <1>2, <2>1 DEF CtxInv, AllTold
<1>7. QED
  BY <1>3, <1>4, <1>5, <1>6 DEF CtxInv

LEMMA CtxStart ==
  ASSUME NEW Names, CellsAssumption(Names), Context!Init
  PROVE  CtxInv
<1>1. /\ data = [c \in Cells |-> Context!Absent] /\ revision = 0 /\ watchers = <<>>
      /\ caller = [t \in Callers |-> Context!Idle] /\ changes = <<>>
      /\ told = [w \in Watchers |-> [new |-> TRUE, since |-> 0, revisions |-> <<>>]]
  BY DEF Context!Init
<1>2. \A t \in Callers : caller[t] \in CallerRecords /\ caller[t].todo = <<>> /\ caller[t].place = "idle"
  BY <1>1, IdleRecord
<1>3. <<>> \in Seq(Watchers) /\ <<>> \in Seq(Maps) /\ <<>> \in Seq(Nat) /\ Len(<<>>) = 0
  OBVIOUS
<1>4. \A w \in Watchers : told[w] \in Subscriptions /\ told[w].revisions = <<>> /\ told[w].new
  BY <1>1, <1>3 DEF Subscriptions
<1>5. IsInjective(<<>>) /\ ToSet(<<>>) = {}
  BY DEF IsInjective, ToSet
<1>6. CtxTypes
  <2>1. data \in [Cells -> Contents]
    BY <1>1 DEF Contents
  <2>2. caller \in [Callers -> CallerRecords] /\ told \in [Watchers -> Subscriptions]
    BY <1>1, <1>2, <1>4
  <2>3. QED
    BY <1>1, <1>3, <2>1, <2>2 DEF CtxTypes
<1>7. Recorder
  <2>1. \A n \in 1..0 : FALSE
    OBVIOUS
  <2>2. \A c \in Cells : LeftBy(data, changes, c)
    BY <1>1, <1>3, <2>1 DEF LeftBy
  <2>3. QED
    BY <1>1, <1>3, <2>2 DEF Recorder
<1>8. Spaced(data)
  BY <1>1 DEF Spaced
<1>9. \A t \in Callers : CallerSound(t)
  BY <1>2, <1>5 DEF CallerSound, Staged, Teller, Telling
<1>10. Apart
  BY <1>2 DEF Apart, Telling
<1>11. Owing
  BY <1>2, <1>5 DEF Owing, Untold
<1>12. Subscribers
  BY <1>1, <1>4, <1>5 DEF Subscribers
<1>13. AllTold
  BY <1>1, <1>5 DEF AllTold
<1>14. QED
  BY <1>6, <1>7, <1>8, <1>9, <1>10, <1>11, <1>12, <1>13 DEF CtxInv

LEMMA CtxStep ==
  ASSUME NEW Names, CellsAssumption(Names), CtxInv, [Context!Next]_Context!ctxVars
  PROVE  CtxInv'
<1>1. CASE \E t \in Callers : Context!Step(t)
  BY <1>1, CtxWrite, CtxLook, CtxBegin, CtxStage, CtxLeave, CtxCommit, CtxNotify, CtxTell, CtxReturn
     DEF Context!Step
<1>2. CASE \E w \in Watchers : Context!Subscribe(w) \/ Context!Unsubscribe(w)
  BY <1>2, CtxSubscribe, CtxUnsubscribe
<1>3. CASE UNCHANGED Context!ctxVars
  <2>1. UNCHANGED <<data, revision, watchers, caller, changes, told>>
    BY <1>3 DEF Context!ctxVars
  <2>2. CtxTypes' /\ Recorder' /\ Spaced(data)' /\ Apart' /\ Owing' /\ Subscribers'
    BY <2>1 DEF CtxInv, CtxTypes, Recorder, Apart, Owing, Subscribers
  <2>3. \A u \in Callers : CallerSound(u)'
    BY <2>1 DEF CtxInv, CallerSound
  <2>4. AllTold'
    <3>1. ASSUME NEW x \in Watchers, NEW n, Covered(x, n) PROVE Covered(x, n)'
      BY <2>1, <3>1 DEF Covered
    <3>2. QED
      BY <2>1, <3>1 DEF CtxInv, AllTold
  <2>5. QED
    BY <2>2, <2>3, <2>4 DEF CtxInv
<1>4. QED
  BY <1>1, <1>2, <1>3 DEF Context!Next

LEMMA CtxSoundOfInv == ASSUME CtxInv PROVE ContextSound
<1>0. CtxTypes /\ revision \in Nat /\ watchers \in Seq(Watchers)
  BY DEF CtxInv, CtxTypes
<1>1. Context!Serial
  <2>1. revision = Len(changes) /\ \A c \in Cells : LeftBy(data, changes, c)
    BY DEF CtxInv, Recorder
  <2>2. \A n, c : Context!Changed(n, c) <=> Touched(changes, n, c)
    BY DEF Context!Changed, Touched
  <2>3. QED
    BY <2>1, <2>2 DEF Context!Serial, LeftBy
<1>2. Context!InNamespaces
  BY DEF CtxInv, Spaced, Context!InNamespaces
<1>3. Context!WatchersTold
  <2>1. ASSUME NEW w \in Watchers
        PROVE  /\ \A i, j \in DOMAIN told[w].revisions : i # j => told[w].revisions[i] # told[w].revisions[j]
               /\ Context!ToSet(told[w].revisions) \subseteq 1..revision
    <3>1. IsInjective(told[w].revisions) /\ ToSet(told[w].revisions) \subseteq 1..revision
      BY DEF CtxInv, Subscribers
    <3>2. Context!ToSet(told[w].revisions) = ToSet(told[w].revisions)
      BY DEF Context!ToSet, ToSet
    <3>3. QED
      BY <3>1, <3>2 DEF IsInjective
  <2>2. ASSUME NEW w \in Watchers, Context!Contains(watchers, w), NEW n \in (told[w].since + 1)..revision
        PROVE  \/ Context!Contains(told[w].revisions, n)
               \/ \E t \in Callers : /\ caller[t].change = n
                                     /\ caller[t].place = "recorded" \/ Context!Contains(caller[t].todo, w)
    <3>1. w \in ToSet(watchers)
      BY <1>0, <2>2, ContainsIsIn
    <3>2. Covered(w, n)
      BY <2>2, <3>1 DEF CtxInv, AllTold
    <3>3. Context!Contains(told[w].revisions, n) <=> n \in ToSet(told[w].revisions)
      BY <1>0, CtxTyped, ContainsIsIn
    <3>4. ASSUME NEW t \in Callers
          PROVE  Context!Contains(caller[t].todo, w) <=> w \in ToSet(caller[t].todo)
      <4>1. caller[t].todo \in Seq(Watchers)
        BY <1>0, CtxTyped DEF CallerRecords
      <4>2. QED
        BY <4>1, ContainsIsIn
    <3>5. QED
      BY <3>2, <3>3, <3>4 DEF Covered, Untold
  <2>3. QED
    BY <2>1, <2>2 DEF Context!WatchersTold
<1>4. QED
  BY <1>1, <1>2, <1>3 DEF ContextSound, Context!ContextSound

\* For any number of callers, cells and watchers, whatever raises and whoever writes beside whom: the
\* data is what the recorded changes make of it, a key lives in a namespace that exists, and each
\* subscribed watcher is told of each change once (Context.transaction, _record, _notify).
THEOREM ContextIsSound ==
  ASSUME NEW Names, CellsAssumption(Names)
  PROVE  Context!CtxSpec => []ContextSound
<1>1. Context!Init => CtxInv
  BY CtxStart
<1>2. CtxInv /\ [Context!Next]_Context!ctxVars => CtxInv'
  BY CtxStep
<1>3. CtxInv => ContextSound
  BY CtxSoundOfInv
<1>4. QED
  BY <1>1, <1>2, <1>3, PTL DEF Context!CtxSpec

-----------------------------------------------------------------------------
\* AppInstall.

\* What may be asked for.
RequestsAssumption ==
  Requests \subseteq
    [npx : BOOLEAN, uvx : BOOLEAN, source : {"repo", "name", "url", "none"}, ref : {"-", "tag"},
     command : BOOLEAN, arg : BOOLEAN, auth : BOOLEAN, yes : BOOLEAN, terminal : BOOLEAN, events : BOOLEAN]

\* How far it came: nothing made, a directory made, a plan made, the plan accepted, the end.
Fetching == {"arguments", "registry", "repository", "free", "manifest", "scratch"}
Cloning == {"root", "clone", "head", "plan"}
Trying == {"connect", "inspect", "disconnect", "judge", "commit"}
Sweeping == {"sweep root", "sweep scratch"}

InsTypes ==
  /\ Install!TypeOK
  /\ request \in Requests
  /\ heads \in [{"default", "tag"} -> {0, 1}]

\* The directories there are.
InsDirs ==
  /\ place \in Fetching => dirs = {}
  /\ place = "root" => dirs = {"scratch"}
  /\ place \in {"confirm"} \cup Trying /\ Install!Kind # "source" => dirs = {}
  /\ place \in {"manifest", "scratch"} \cup Cloning \cup Sweeping => Install!Kind = "source"
  /\ place = "sweep scratch" => dirs \ stuck \subseteq {"scratch"}
  /\ place = "ended" /\ hit \notin {"root"} \cup Sweeping => dirs \subseteq stuck

\* The launch command and the clone come from the ref that was asked for.
InsPlan ==
  /\ launch \notin {<<>>, <<"given">>} =>
       launch[1] = Install!Ref /\ (heads[Install!Ref] = 0 => launch = <<Install!Ref, 0>>)
  /\ cloned # <<>> =>
       cloned[1] = Install!Ref /\ (heads[Install!Ref] = 0 => cloned = <<Install!Ref, 0>>)
  /\ place \in {"scratch", "confirm"} \cup Cloning \cup Trying => launch # <<>>

\* The server is started after the plan was accepted, and released before the end.
InsServer ==
  /\ place \in Trying => answer = "accepted" /\ approved = <<launch, cloned>>
  /\ server # "none" => answer = "accepted"
  /\ place \in Fetching \cup Cloning \cup {"confirm", "connect"} => server = "none"
  /\ place \in {"judge", "commit"} => server = "closed"
  /\ place \in Sweeping \cup {"ended"} => server # "open"

\* What happened and what is told of it.
InsOutcome ==
  /\ "installed" \notin errors /\ "declined" \notin errors
  /\ place \in (Fetching \cup Cloning \cup Trying \cup {"confirm"}) \ {"disconnect"} => errors = {}
  /\ place \in Fetching \cup Cloning \cup Trying \cup {"confirm"} => result = {} /\ entry = <<>>
  /\ place = "ended" /\ errors # {} => result = errors
  /\ result = {"installed"} => entry # <<>>
  /\ result = {"declined"} => entry = <<>> /\ answer = "declined"
  /\ entry # <<>> =>
       /\ <<entry, placed>> = approved /\ server = "closed"
       /\ taken \cap Install!Needed = {}
       /\ errors \subseteq {"interrupt"}

InsInv == InsTypes /\ InsDirs /\ InsPlan /\ InsServer /\ InsOutcome

-----------------------------------------------------------------------------
\* What the request asks for does not change.
LEMMA InsFixed ==
  ASSUME request' = request
  PROVE  Install!Kind' = Install!Kind /\ Install!Ref' = Install!Ref /\ Install!Needed' = Install!Needed
BY DEF Install!Kind, Install!Ref, Install!Needed, Install!Repository

LEMMA InsRef ==
  ASSUME RequestsAssumption, InsTypes
  PROVE  Install!Ref \in {"default", "tag"} /\ Install!Ref \in DOMAIN heads /\ heads[Install!Ref] \in {0, 1}
BY DEF RequestsAssumption, InsTypes, Install!Ref

\* A step that only goes on.
Goes(p, q) ==
  \/ p = "arguments" /\ q = "registry"
  \/ p = "registry" /\ q \in {"repository", "free"}
  \/ p = "repository" /\ q = "free"
  \/ p = "head" /\ q = "plan"
  \/ p = "plan" /\ q = "confirm"
  \/ p = "judge" /\ q = "commit"
InsRest == <<request, heads, taken, launch, cloned, answer, approved, dirs, server, entry, placed,
             errors, hit, stuck, result>>

LEMMA InsMove ==
  ASSUME InsInv, Goes(place, place'), UNCHANGED InsRest
  PROVE  InsInv'
<1>0. /\ request' = request /\ heads' = heads /\ taken' = taken /\ launch' = launch /\ cloned' = cloned
      /\ answer' = answer /\ approved' = approved /\ dirs' = dirs /\ server' = server
      /\ entry' = entry /\ placed' = placed /\ errors' = errors /\ hit' = hit /\ stuck' = stuck
      /\ result' = result
      /\ Install!Kind' = Install!Kind /\ Install!Ref' = Install!Ref /\ Install!Needed' = Install!Needed
  BY InsFixed DEF InsRest
<1>1. InsTypes'
  BY <1>0 DEF InsInv, InsTypes, Install!TypeOK, Install!Places, Goes
<1>2. InsDirs'
  BY <1>0 DEF InsInv, InsDirs, Goes, Fetching, Cloning, Trying, Sweeping
<1>3. InsPlan'
  BY <1>0 DEF InsInv, InsPlan, Goes, Fetching, Cloning, Trying, Sweeping
<1>4. InsServer'
  BY <1>0 DEF InsInv, InsServer, Goes, Fetching, Cloning, Trying, Sweeping
<1>5. InsOutcome'
  BY <1>0 DEF InsInv, InsOutcome, Goes, Fetching, Cloning, Trying, Sweeping
<1>6. QED
  BY <1>1, <1>2, <1>3, <1>4, <1>5 DEF InsInv

\* An error ends what runs and leads to what is left to clean up.
LEMMA InsRaise ==
  ASSUME InsInv, NEW e, e \notin {"installed", "declined"},
         place \in (Fetching \cup Cloning \cup Trying \cup {"confirm"}) \ {"disconnect"},
         Install!Raise(e), request' = request, approved' = approved
  PROVE  InsInv'
<1>0. /\ heads' = heads /\ taken' = taken /\ launch' = launch /\ cloned' = cloned
      /\ answer' = answer /\ dirs' = dirs /\ server' = server
      /\ entry' = entry /\ placed' = placed /\ stuck' = stuck
      /\ errors' = errors \cup {e}
      /\ result' = IF place' = "ended" THEN errors' ELSE result
      /\ Install!Kind' = Install!Kind /\ Install!Ref' = Install!Ref /\ Install!Needed' = Install!Needed
  BY InsFixed DEF Install!Raise, Install!Repo, Install!World, Install!Ended, Install!Raised
<1>1. /\ place = "inspect" => place' = "disconnect"
      /\ place \in (Cloning \cup Trying \cup {"confirm"}) \ {"inspect"} /\ Install!Kind = "source" =>
           place' = "sweep root"
      /\ place \in (Cloning \cup Trying \cup {"confirm"}) \ {"inspect"} /\ Install!Kind # "source" =>
           place' = "ended"
      /\ place \in Fetching => place' = "ended"
  BY DEF Install!Raise, Install!To, Install!AfterError, Fetching, Cloning, Trying
<1>2. place' \in {"disconnect", "sweep root", "ended"}
  BY <1>1 DEF Fetching, Cloning, Trying
<1>3. errors = {} /\ result = {} /\ entry = <<>>
  BY DEF InsInv, InsOutcome
<1>4. InsTypes'
  BY <1>0, <1>2 DEF InsInv, InsTypes, Install!TypeOK, Install!Places
<1>5. InsDirs'
  BY <1>0, <1>1, <1>2 DEF InsInv, InsDirs, Fetching, Cloning, Trying, Sweeping
<1>6. InsPlan'
  BY <1>0, <1>1, <1>2 DEF InsInv, InsPlan, Fetching, Cloning, Trying, Sweeping
<1>7. InsServer'
  BY <1>0, <1>1, <1>2 DEF InsInv, InsServer, Fetching, Cloning, Trying, Sweeping
<1>8. InsOutcome'
  BY <1>0, <1>1, <1>2, <1>3 DEF InsInv, InsOutcome, Fetching, Cloning, Trying, Sweeping
<1>9. QED
  BY <1>4, <1>5, <1>6, <1>7, <1>8 DEF InsInv

\* One action each.
LEMMA InsFails ==
  ASSUME InsInv, Install!Fails
  PROVE  InsInv'
<1>1. /\ Install!Raise(place) /\ request' = request /\ approved' = approved
      /\ place \in (Fetching \cup Cloning \cup Trying \cup {"confirm"}) \ {"disconnect"}
      /\ place \notin {"installed", "declined"}
  BY DEF Install!Fails, Install!History, Fetching, Cloning, Trying
<1>2. QED
  BY <1>1, InsRaise

LEMMA InsArguments ==
  ASSUME InsInv, Install!Arguments
  PROVE  InsInv'
<1>1. CASE Install!Kind = "invalid"
  BY <1>1, InsRaise DEF Install!Arguments, Install!Same, Install!History, Fetching
<1>2. CASE Install!Kind # "invalid"
  BY <1>2, InsMove DEF Install!Arguments, Install!Repo, Install!Staged, Install!World, Install!History,
        Install!Same, Install!Quiet, Install!To, Goes, InsRest
<1>3. QED
  BY <1>1, <1>2

LEMMA InsRegistry ==
  ASSUME InsInv, Install!Registry
  PROVE  InsInv'
BY InsMove DEF Install!Registry, Install!Repo, Install!Staged, Install!World, Install!History, Install!Same,
      Install!Quiet, Install!To, Goes, InsRest

LEMMA InsAdmit ==
  ASSUME InsInv, Install!Admit
  PROVE  InsInv'
<1>1. CASE Install!Raise("not admitted")
  BY <1>1, InsRaise DEF Install!Admit, Install!Same, Install!History, Fetching
<1>2. CASE ~Install!Raise("not admitted")
  BY <1>2, InsMove DEF Install!Admit, Install!Repo, Install!Staged, Install!World, Install!History,
        Install!Same, Install!Quiet, Install!To, Goes, InsRest
<1>3. QED
  BY <1>1, <1>2

LEMMA InsCheckFree ==
  ASSUME InsInv, Install!CheckFree
  PROVE  InsInv'
<1>1. CASE taken \cap Install!Needed # {}
  BY <1>1, InsRaise DEF Install!CheckFree, Install!Same, Install!History, Fetching
<1>2. CASE taken \cap Install!Needed = {}
  <2>0. /\ request' = request /\ heads' = heads /\ taken' = taken /\ cloned' = cloned
        /\ answer' = answer /\ approved' = approved /\ dirs' = dirs /\ server' = server
        /\ entry' = entry /\ placed' = placed /\ errors' = errors /\ hit' = hit /\ stuck' = stuck
        /\ result' = result
        /\ Install!Kind' = Install!Kind /\ Install!Ref' = Install!Ref /\ Install!Needed' = Install!Needed
        /\ place = "free"
    BY <1>2, InsFixed DEF Install!CheckFree, Install!Repo, Install!Staged, Install!World, Install!History,
          Install!Same, Install!Quiet, Install!To
  <2>1. /\ place' \in {"confirm", "scratch", "manifest"}
        /\ place' # "confirm" => Install!Kind = "source"
        /\ launch' = <<"given">> \/ (place' = "manifest" /\ launch' = launch)
    BY <1>2 DEF Install!CheckFree, Install!To
  <2>2. <<"given">> # <<>>
    OBVIOUS
  <2>3. InsTypes'
    BY <2>0, <2>1 DEF InsInv, InsTypes, Install!TypeOK, Install!Places
  <2>4. InsDirs'
    BY <2>0, <2>1 DEF InsInv, InsDirs, Fetching, Cloning, Trying, Sweeping
  <2>5. InsPlan'
    BY <2>0, <2>1, <2>2 DEF InsInv, InsPlan, Fetching, Cloning, Trying, Sweeping
  <2>6. InsServer'
    BY <2>0, <2>1 DEF InsInv, InsServer, Fetching, Cloning, Trying, Sweeping
  <2>7. InsOutcome'
    BY <2>0, <2>1 DEF InsInv, InsOutcome, Fetching, Cloning, Trying, Sweeping
  <2>8. QED
    BY <2>3, <2>4, <2>5, <2>6, <2>7 DEF InsInv
<1>3. QED
  BY <1>1, <1>2

\* A version that is read now is the first one as long as nothing moved.
LEMMA InsVersion ==
  ASSUME NEW r, NEW n
  PROVE  /\ <<r, n>>[1] = r /\ <<r, n>> # <<>>
         /\ n = 0 => <<r, n>> = <<r, 0>>
OBVIOUS

LEMMA InsManifest ==
  ASSUME InsInv, Install!Manifest
  PROVE  InsInv'
<1>1. CASE Install!Raise("no manifest")
  BY <1>1, InsRaise DEF Install!Manifest, Install!Same, Install!History, Fetching
<1>2. CASE ~Install!Raise("no manifest")
  <2>0. /\ request' = request /\ heads' = heads /\ taken' = taken /\ cloned' = cloned
        /\ answer' = answer /\ approved' = approved /\ dirs' = dirs /\ server' = server
        /\ entry' = entry /\ placed' = placed /\ errors' = errors /\ hit' = hit /\ stuck' = stuck
        /\ result' = result
        /\ Install!Kind' = Install!Kind /\ Install!Ref' = Install!Ref /\ Install!Needed' = Install!Needed
        /\ place = "manifest" /\ place' = "scratch"
        /\ launch' = <<Install!Ref, heads[Install!Ref]>>
    BY <1>2, InsFixed DEF Install!Manifest, Install!ManifestRef, Install!Repo, Install!Staged, Install!World,
          Install!History, Install!Same, Install!Quiet, Install!To
  <2>1. /\ launch'[1] = Install!Ref /\ launch' # <<>>
        /\ heads[Install!Ref] = 0 => launch' = <<Install!Ref, 0>>
    BY <2>0, InsVersion
  <2>3. InsTypes'
    BY <2>0 DEF InsInv, InsTypes, Install!TypeOK, Install!Places
  <2>4. InsDirs'
    BY <2>0 DEF InsInv, InsDirs, Fetching, Cloning, Trying, Sweeping
  <2>5. InsPlan'
    <3>1. heads'[Install!Ref'] = heads[Install!Ref]
      BY <2>0
    <3>2. QED
      BY <2>0, <2>1, <3>1 DEF InsInv, InsPlan, Fetching, Cloning, Trying, Sweeping
  <2>6. InsServer'
    BY <2>0 DEF InsInv, InsServer, Fetching, Cloning, Trying, Sweeping
  <2>7. InsOutcome'
    BY <2>0 DEF InsInv, InsOutcome, Fetching, Cloning, Trying, Sweeping
  <2>8. QED
    BY <2>3, <2>4, <2>5, <2>6, <2>7 DEF InsInv
<1>3. QED
  BY <1>1, <1>2

\* The two directories are made one after the other.
LEMMA InsMake ==
  ASSUME InsInv, Install!MakeScratch \/ Install!MakeRoot
  PROVE  InsInv'
<1>0. /\ request' = request /\ heads' = heads /\ taken' = taken /\ cloned' = cloned /\ launch' = launch
      /\ answer' = answer /\ approved' = approved /\ server' = server
      /\ entry' = entry /\ placed' = placed /\ errors' = errors /\ hit' = hit /\ stuck' = stuck
      /\ result' = result
      /\ Install!Kind' = Install!Kind /\ Install!Ref' = Install!Ref /\ Install!Needed' = Install!Needed
  BY InsFixed DEF Install!MakeScratch, Install!MakeRoot, Install!Repo, Install!Staged, Install!World,
        Install!History, Install!Same, Install!Quiet, Install!To
<1>1. \/ place = "scratch" /\ place' = "root" /\ dirs' = {"scratch"}
      \/ place = "root" /\ place' = "clone" /\ dirs' = {"scratch", "root"}
  BY DEF Install!MakeScratch, Install!MakeRoot, Install!To, InsInv, InsDirs
<1>2. InsTypes'
  BY <1>0, <1>1 DEF InsInv, InsTypes, Install!TypeOK, Install!Places
<1>3. InsDirs'
  BY <1>0, <1>1 DEF InsInv, InsDirs, Fetching, Cloning, Trying, Sweeping
<1>4. InsPlan'
  BY <1>0, <1>1 DEF InsInv, InsPlan, Fetching, Cloning, Trying, Sweeping
<1>5. InsServer'
  BY <1>0, <1>1 DEF InsInv, InsServer, Fetching, Cloning, Trying, Sweeping
<1>6. InsOutcome'
  BY <1>0, <1>1 DEF InsInv, InsOutcome, Fetching, Cloning, Trying, Sweeping
<1>7. QED
  BY <1>2, <1>3, <1>4, <1>5, <1>6 DEF InsInv

LEMMA InsClone ==
  ASSUME InsInv, Install!Clone
  PROVE  InsInv'
<1>0. /\ request' = request /\ heads' = heads /\ taken' = taken /\ launch' = launch /\ dirs' = dirs
      /\ answer' = answer /\ approved' = approved /\ server' = server
      /\ entry' = entry /\ placed' = placed /\ errors' = errors /\ hit' = hit /\ stuck' = stuck
      /\ result' = result
      /\ Install!Kind' = Install!Kind /\ Install!Ref' = Install!Ref /\ Install!Needed' = Install!Needed
      /\ place = "clone" /\ place' = "head" /\ cloned' = <<Install!Ref, heads[Install!Ref]>>
  BY InsFixed DEF Install!Clone, Install!Repo, Install!Staged, Install!World, Install!History, Install!Same,
        Install!Quiet, Install!To
<1>1. /\ cloned'[1] = Install!Ref
      /\ heads[Install!Ref] = 0 => cloned' = <<Install!Ref, 0>>
  BY <1>0, InsVersion
<1>2. InsTypes'
  BY <1>0 DEF InsInv, InsTypes, Install!TypeOK, Install!Places
<1>3. InsDirs'
  BY <1>0 DEF InsInv, InsDirs, Fetching, Cloning, Trying, Sweeping
<1>4. InsPlan'
  <2>1. heads'[Install!Ref'] = heads[Install!Ref]
    BY <1>0
  <2>2. QED
    BY <1>0, <1>1, <2>1 DEF InsInv, InsPlan, Fetching, Cloning, Trying, Sweeping
<1>5. InsServer'
  BY <1>0 DEF InsInv, InsServer, Fetching, Cloning, Trying, Sweeping
<1>6. InsOutcome'
  BY <1>0 DEF InsInv, InsOutcome, Fetching, Cloning, Trying, Sweeping
<1>7. QED
  BY <1>2, <1>3, <1>4, <1>5, <1>6 DEF InsInv

LEMMA InsHead ==
  ASSUME InsInv, Install!Head \/ Install!MakePlan
  PROVE  InsInv'
BY InsMove DEF Install!Head, Install!MakePlan, Install!Repo, Install!Staged, Install!World, Install!History,
      Install!Same, Install!Quiet, Install!To, Goes, InsRest

LEMMA InsConfirm ==
  ASSUME InsInv, Install!Confirm
  PROVE  InsInv'
<1>1. CASE Install!Raise("not confirmed") /\ approved' = approved
  BY <1>1, InsRaise DEF Install!Confirm
<1>2. CASE ~(Install!Raise("not confirmed") /\ approved' = approved)
  <2>0. /\ request' = request /\ heads' = heads /\ taken' = taken /\ launch' = launch /\ dirs' = dirs
        /\ cloned' = cloned /\ server' = server
        /\ entry' = entry /\ placed' = placed /\ errors' = errors /\ hit' = hit /\ stuck' = stuck
        /\ Install!Kind' = Install!Kind /\ Install!Ref' = Install!Ref /\ Install!Needed' = Install!Needed
        /\ place = "confirm"
    BY <1>2, InsFixed DEF Install!Confirm, Install!Repo, Install!Staged, Install!World, Install!History,
          Install!Same, Install!Quiet, Install!To
  <2>1. \/ /\ place' = "connect" /\ answer' = "accepted" /\ approved' = <<launch, cloned>> /\ result' = result
        \/ /\ place' = (IF Install!Kind = "source" THEN "sweep root" ELSE "ended")
           /\ answer' = "declined" /\ approved' = approved /\ result' = {"declined"}
    BY <1>2, <2>0 DEF Install!Confirm, Install!To, Install!Quiet, Install!AfterError
  <2>2. {"declined"} # {"installed"}
    OBVIOUS
  <2>3. InsTypes'
    BY <2>0, <2>1 DEF InsInv, InsTypes, Install!TypeOK, Install!Places
  <2>4. InsDirs'
    BY <2>0, <2>1 DEF InsInv, InsDirs, Fetching, Cloning, Trying, Sweeping
  <2>5. InsPlan'
    BY <2>0, <2>1 DEF InsInv, InsPlan, Fetching, Cloning, Trying, Sweeping
  <2>6. InsServer'
    BY <2>0, <2>1 DEF InsInv, InsServer, Fetching, Cloning, Trying, Sweeping
  <2>7. InsOutcome'
    BY <2>0, <2>1, <2>2 DEF InsInv, InsOutcome, Fetching, Cloning, Trying, Sweeping
  <2>8. QED
    BY <2>3, <2>4, <2>5, <2>6, <2>7 DEF InsInv
<1>3. QED
  BY <1>1, <1>2

LEMMA InsConnect ==
  ASSUME InsInv, Install!Connect
  PROVE  InsInv'
<1>1. CASE Install!Raise("no token")
  BY <1>1, InsRaise DEF Install!Connect, Install!Same, Install!History, Trying
<1>2. CASE ~Install!Raise("no token")
  <2>0. /\ request' = request /\ heads' = heads /\ taken' = taken /\ launch' = launch /\ dirs' = dirs
        /\ cloned' = cloned /\ answer' = answer /\ approved' = approved /\ result' = result
        /\ entry' = entry /\ placed' = placed /\ errors' = errors /\ hit' = hit /\ stuck' = stuck
        /\ Install!Kind' = Install!Kind /\ Install!Ref' = Install!Ref /\ Install!Needed' = Install!Needed
        /\ place = "connect" /\ place' = "inspect" /\ server' = "open"
    BY <1>2, InsFixed DEF Install!Connect, Install!Repo, Install!Staged, Install!World, Install!History,
          Install!Same, Install!Quiet, Install!To
  <2>3. InsTypes'
    BY <2>0 DEF InsInv, InsTypes, Install!TypeOK, Install!Places
  <2>4. InsDirs'
    BY <2>0 DEF InsInv, InsDirs, Fetching, Cloning, Trying, Sweeping
  <2>5. InsPlan'
    BY <2>0 DEF InsInv, InsPlan, Fetching, Cloning, Trying, Sweeping
  <2>6. InsServer'
    BY <2>0 DEF InsInv, InsServer, Fetching, Cloning, Trying, Sweeping
  <2>7. InsOutcome'
    BY <2>0 DEF InsInv, InsOutcome, Fetching, Cloning, Trying, Sweeping
  <2>8. QED
    BY <2>3, <2>4, <2>5, <2>6, <2>7 DEF InsInv
<1>3. QED
  BY <1>1, <1>2

LEMMA InsInspect ==
  ASSUME InsInv, Install!Inspect
  PROVE  InsInv'
<1>0. /\ request' = request /\ heads' = heads /\ taken' = taken /\ launch' = launch /\ dirs' = dirs
      /\ cloned' = cloned /\ answer' = answer /\ approved' = approved /\ result' = result
      /\ server' = server
      /\ entry' = entry /\ placed' = placed /\ errors' = errors /\ hit' = hit /\ stuck' = stuck
      /\ Install!Kind' = Install!Kind /\ Install!Ref' = Install!Ref /\ Install!Needed' = Install!Needed
      /\ place = "inspect" /\ place' = "disconnect"
  BY InsFixed DEF Install!Inspect, Install!Repo, Install!Staged, Install!World, Install!History,
        Install!Same, Install!Quiet, Install!To
<1>2. InsTypes'
  BY <1>0 DEF InsInv, InsTypes, Install!TypeOK, Install!Places
<1>3. InsDirs'
  BY <1>0 DEF InsInv, InsDirs, Fetching, Cloning, Trying, Sweeping
<1>4. InsPlan'
  BY <1>0 DEF InsInv, InsPlan, Fetching, Cloning, Trying, Sweeping
<1>5. InsServer'
  BY <1>0 DEF InsInv, InsServer, Fetching, Cloning, Trying, Sweeping
<1>6. InsOutcome'
  BY <1>0 DEF InsInv, InsOutcome, Fetching, Cloning, Trying, Sweeping
<1>7. QED
  BY <1>2, <1>3, <1>4, <1>5, <1>6 DEF InsInv

LEMMA InsDisconnect ==
  ASSUME InsInv, Install!Disconnect
  PROVE  InsInv'
<1>0. /\ request' = request /\ heads' = heads /\ taken' = taken /\ launch' = launch /\ dirs' = dirs
      /\ cloned' = cloned /\ answer' = answer /\ approved' = approved
      /\ entry' = entry /\ placed' = placed /\ hit' = hit /\ stuck' = stuck
      /\ Install!Kind' = Install!Kind /\ Install!Ref' = Install!Ref /\ Install!Needed' = Install!Needed
      /\ place = "disconnect" /\ server' = "closed"
  BY InsFixed DEF Install!Disconnect, Install!Repo, Install!Staged, Install!World, Install!History,
        Install!Same, Install!Quiet, Install!To
<1>1. PICK failure \in {{}, {"close"}} :
        /\ errors' = errors \cup failure
        /\ place' = IF errors' = {} THEN "judge" ELSE Install!AfterError
        /\ Install!Ended(errors')
  BY DEF Install!Disconnect, Install!To
<1>2. "installed" \notin errors' /\ "declined" \notin errors'
  BY <1>1 DEF InsInv, InsOutcome
<1>3. \/ place' = "judge" /\ errors' = {} /\ result' = result
      \/ place' = "sweep root" /\ Install!Kind = "source" /\ errors' # {} /\ result' = result
      \/ place' = "ended" /\ Install!Kind # "source" /\ errors' # {} /\ result' = errors'
  BY <1>0, <1>1 DEF Install!AfterError, Install!Ended, Install!Raised
<1>4. InsTypes'
  BY <1>0, <1>3 DEF InsInv, InsTypes, Install!TypeOK, Install!Places
<1>5. InsDirs'
  BY <1>0, <1>3 DEF InsInv, InsDirs, Fetching, Cloning, Trying, Sweeping
<1>6. InsPlan'
  BY <1>0, <1>3 DEF InsInv, InsPlan, Fetching, Cloning, Trying, Sweeping
<1>7. InsServer'
  BY <1>0, <1>3 DEF InsInv, InsServer, Fetching, Cloning, Trying, Sweeping
<1>8. InsOutcome'
  BY <1>0, <1>2, <1>3 DEF InsInv, InsOutcome, Fetching, Cloning, Trying, Sweeping
<1>9. QED
  BY <1>4, <1>5, <1>6, <1>7, <1>8 DEF InsInv

LEMMA InsJudge ==
  ASSUME InsInv, Install!Judge
  PROVE  InsInv'
<1>1. CASE Install!Raise("contributes nothing")
  BY <1>1, InsRaise DEF Install!Judge, Install!Same, Install!History, Trying
<1>2. CASE ~Install!Raise("contributes nothing")
  BY <1>2, InsMove DEF Install!Judge, Install!Repo, Install!Staged, Install!World, Install!History,
        Install!Same, Install!Quiet, Install!To, Goes, InsRest
<1>3. QED
  BY <1>1, <1>2

LEMMA InsCommit ==
  ASSUME InsInv, Install!Commit
  PROVE  InsInv'
<1>1. CASE taken \cap Install!Needed # {}
  BY <1>1, InsRaise DEF Install!Commit, Install!Same, Install!History, Trying
<1>2. CASE taken \cap Install!Needed = {}
  <2>0. /\ request' = request /\ heads' = heads /\ taken' = taken /\ launch' = launch
        /\ cloned' = cloned /\ answer' = answer /\ approved' = approved
        /\ server' = server /\ errors' = errors /\ hit' = hit /\ stuck' = stuck
        /\ Install!Kind' = Install!Kind /\ Install!Ref' = Install!Ref /\ Install!Needed' = Install!Needed
        /\ place = "commit" /\ entry' = launch /\ placed' = cloned /\ dirs' = dirs \ {"root"}
        /\ place' = (IF Install!Kind = "source" THEN "sweep root" ELSE "ended")
        /\ result' = {"installed"}
    BY <1>2, InsFixed DEF Install!Commit, Install!Repo, Install!Staged, Install!World, Install!History,
          Install!Same, Install!Quiet, Install!To
  <2>1. {"declined"} # {"installed"}
    OBVIOUS
  <2>2. launch # <<>> /\ errors = {} /\ server = "closed" /\ approved = <<launch, cloned>>
    BY <2>0 DEF InsInv, InsPlan, InsOutcome, InsServer, Trying
  <2>3. InsTypes'
    BY <2>0 DEF InsInv, InsTypes, Install!TypeOK, Install!Places
  <2>4. InsDirs'
    BY <2>0 DEF InsInv, InsDirs, Fetching, Cloning, Trying, Sweeping
  <2>5. InsPlan'
    BY <2>0 DEF InsInv, InsPlan, Fetching, Cloning, Trying, Sweeping
  <2>6. InsServer'
    BY <2>0 DEF InsInv, InsServer, Fetching, Cloning, Trying, Sweeping
  <2>7. InsOutcome'
    BY <1>2, <2>0, <2>1, <2>2 DEF InsInv, InsOutcome, Fetching, Cloning, Trying, Sweeping
  <2>8. QED
    BY <2>3, <2>4, <2>5, <2>6, <2>7 DEF InsInv
<1>3. QED
  BY <1>1, <1>2

LEMMA InsSweep ==
  ASSUME InsInv, Install!SweepRoot \/ Install!SweepScratch
  PROVE  InsInv'
<1>0. /\ request' = request /\ heads' = heads /\ taken' = taken /\ launch' = launch
      /\ cloned' = cloned /\ answer' = answer /\ approved' = approved
      /\ server' = server /\ entry' = entry /\ placed' = placed /\ hit' = hit /\ errors' = errors
      /\ Install!Kind' = Install!Kind /\ Install!Ref' = Install!Ref /\ Install!Needed' = Install!Needed
  BY InsFixed DEF Install!SweepRoot, Install!SweepScratch, Install!Sweep, Install!Repo, Install!Staged,
        Install!World, Install!History, Install!Same, Install!Quiet, Install!To
<1>1. /\ \/ place = "sweep root" /\ place' = "sweep scratch" /\ dirs' \ stuck' \subseteq {"scratch"}
         \/ place = "sweep scratch" /\ place' = "ended" /\ dirs' \subseteq stuck'
      /\ dirs' \subseteq dirs
  BY DEF Install!SweepRoot, Install!SweepScratch, Install!Sweep, Install!To, InsInv, InsDirs, InsTypes,
        Install!TypeOK
<1>2. result' = IF place' = "ended" /\ errors # {} THEN errors ELSE result
  BY <1>0 DEF Install!SweepRoot, Install!SweepScratch, Install!Sweep, Install!Ended, Install!Raised
<1>3. InsTypes'
  BY <1>0, <1>1 DEF InsInv, InsTypes, Install!TypeOK, Install!Places
<1>4. InsDirs'
  BY <1>0, <1>1 DEF InsInv, InsDirs, Fetching, Cloning, Trying, Sweeping
<1>5. InsPlan'
  BY <1>0, <1>1 DEF InsInv, InsPlan, Fetching, Cloning, Trying, Sweeping
<1>6. InsServer'
  BY <1>0, <1>1 DEF InsInv, InsServer, Fetching, Cloning, Trying, Sweeping
<1>7. InsOutcome'
  BY <1>0, <1>1, <1>2 DEF InsInv, InsOutcome, Fetching, Cloning, Trying, Sweeping
<1>8. QED
  BY <1>3, <1>4, <1>5, <1>6, <1>7 DEF InsInv

LEMMA InsInterrupt ==
  ASSUME InsInv, Install!Interrupt
  PROVE  InsInv'
<1>0. /\ request' = request /\ heads' = heads /\ taken' = taken /\ launch' = launch /\ dirs' = dirs
      /\ cloned' = cloned /\ answer' = answer /\ approved' = approved
      /\ server' = server /\ entry' = entry /\ placed' = placed /\ stuck' = stuck
      /\ errors' = errors \cup {"interrupt"} /\ hit' = place
      /\ place \notin {"commit", "ended"}
      /\ result' = IF place' = "ended" THEN errors' ELSE result
      /\ Install!Kind' = Install!Kind /\ Install!Ref' = Install!Ref /\ Install!Needed' = Install!Needed
  BY InsFixed DEF Install!Interrupt, Install!Ended, Install!Raised, Install!Repo, Install!World
<1>1. /\ place \in Install!Places
      /\ place = "disconnect" => place' = "disconnect"
      /\ place = "inspect" => place' = "disconnect"
      /\ place = "root" => place' \in {"sweep root", "ended"}
      /\ place \in {"clone", "head", "plan", "confirm", "connect", "judge"} /\ Install!Kind = "source" =>
           place' = "sweep root"
      /\ place \in {"clone", "head", "plan", "confirm", "connect", "judge"} /\ Install!Kind # "source" =>
           place' = "ended"
      /\ place \in Fetching \cup Sweeping => place' = "ended"
  BY DEF Install!Interrupt, Install!To, Install!AfterError, Fetching, Sweeping, InsInv, InsTypes,
        Install!TypeOK, InsDirs, Cloning
<1>2. /\ place' \in {"disconnect", "sweep root", "ended"}
      /\ place' = "disconnect" => place \in {"inspect", "disconnect"}
  BY <1>0, <1>1 DEF Fetching, Sweeping, Install!Places
<1>3. /\ place \notin Sweeping => result = {} /\ entry = <<>>
  BY <1>0, <1>1 DEF InsInv, InsOutcome, Fetching, Sweeping, Cloning, Trying, Install!Places
<1>4. InsTypes'
  BY <1>0, <1>2 DEF InsInv, InsTypes, Install!TypeOK, Install!Places
<1>5. InsDirs'
  BY <1>0, <1>1, <1>2 DEF InsInv, InsDirs, Fetching, Cloning, Trying, Sweeping, Install!Places
<1>6. InsPlan'
  BY <1>0, <1>1, <1>2 DEF InsInv, InsPlan, Fetching, Cloning, Trying, Sweeping
<1>7. InsServer'
  BY <1>0, <1>1, <1>2 DEF InsInv, InsServer, Fetching, Cloning, Trying, Sweeping, Install!Places
<1>8. InsOutcome'
  BY <1>0, <1>1, <1>2, <1>3 DEF InsInv, InsOutcome, Fetching, Cloning, Trying, Sweeping
<1>9. QED
  BY <1>4, <1>5, <1>6, <1>7, <1>8 DEF InsInv

LEMMA InsOthers ==
  ASSUME RequestsAssumption, InsInv, Install!Others
  PROVE  InsInv'
<1>0. /\ request' = request /\ launch' = launch /\ dirs' = dirs /\ place' = place
      /\ cloned' = cloned /\ answer' = answer /\ approved' = approved
      /\ server' = server /\ entry' = entry /\ placed' = placed /\ stuck' = stuck
      /\ errors' = errors /\ hit' = hit /\ result' = result
      /\ Install!Kind' = Install!Kind /\ Install!Ref' = Install!Ref /\ Install!Needed' = Install!Needed
  BY InsFixed DEF Install!Others, Install!Repo, Install!Staged, Install!World, Install!History, Install!Same,
        Install!Quiet, Install!To
<1>1. heads' \in [{"default", "tag"} -> {0, 1}] /\ \A r \in {"default", "tag"} : heads'[r] = 0 => heads[r] = 0
  BY DEF Install!Others, InsInv, InsTypes
<1>2. taken' \subseteq {"package", "path"} /\ (entry # <<>> => taken' = taken)
  BY DEF Install!Others, InsInv, InsTypes, Install!TypeOK
<1>3. Install!Ref \in {"default", "tag"}
  BY InsRef DEF InsInv
<1>4. InsTypes'
  BY <1>0, <1>1, <1>2 DEF InsInv, InsTypes, Install!TypeOK
<1>5. InsDirs'
  BY <1>0 DEF InsInv, InsDirs
<1>6. InsPlan'
  <2>1. heads'[Install!Ref'] = 0 => heads[Install!Ref] = 0
    BY <1>0, <1>1, <1>3
  <2>2. QED
    BY <1>0, <2>1 DEF InsInv, InsPlan
<1>7. InsServer'
  BY <1>0 DEF InsInv, InsServer
<1>8. InsOutcome'
  BY <1>0, <1>2 DEF InsInv, InsOutcome
<1>9. QED
  BY <1>4, <1>5, <1>6, <1>7, <1>8 DEF InsInv

LEMMA InsStart ==
  ASSUME Install!Init
  PROVE  InsInv
<1>1. InsTypes
  BY DEF Install!Init, InsTypes, Install!TypeOK, Install!Places
<1>2. InsDirs
  BY DEF Install!Init, InsDirs, Fetching, Cloning, Trying, Sweeping
<1>3. InsPlan
  BY DEF Install!Init, InsPlan, Fetching, Cloning, Trying, Sweeping
<1>4. InsServer
  BY DEF Install!Init, InsServer, Fetching, Cloning, Trying, Sweeping
<1>5. InsOutcome
  BY DEF Install!Init, InsOutcome, Fetching, Cloning, Trying, Sweeping
<1>6. QED
  BY <1>1, <1>2, <1>3, <1>4, <1>5 DEF InsInv

LEMMA InsStep ==
  ASSUME RequestsAssumption, InsInv, [Install!Next]_Install!vars
  PROVE  InsInv'
<1>1. CASE Install!Proceed
  BY <1>1, InsArguments, InsRegistry, InsAdmit, InsCheckFree, InsManifest, InsMake, InsClone, InsHead,
     InsConfirm, InsConnect, InsInspect, InsDisconnect, InsJudge, InsCommit, InsSweep DEF Install!Proceed
<1>2. CASE Install!Fails \/ Install!Interrupt \/ Install!Others
  BY <1>2, InsFails, InsInterrupt, InsOthers
<1>3. CASE UNCHANGED Install!vars
  <2>1. /\ request' = request /\ heads' = heads /\ taken' = taken /\ launch' = launch /\ dirs' = dirs
        /\ cloned' = cloned /\ answer' = answer /\ approved' = approved /\ place' = place
        /\ server' = server /\ entry' = entry /\ placed' = placed /\ stuck' = stuck
        /\ errors' = errors /\ hit' = hit /\ result' = result
        /\ Install!Kind' = Install!Kind /\ Install!Ref' = Install!Ref /\ Install!Needed' = Install!Needed
    BY <1>3, InsFixed DEF Install!vars
  <2>2. InsTypes' /\ InsDirs'
    BY <2>1 DEF InsInv, InsTypes, Install!TypeOK, InsDirs
  <2>3. InsPlan' /\ InsServer'
    BY <2>1 DEF InsInv, InsPlan, InsServer
  <2>4. InsOutcome'
    BY <2>1 DEF InsInv, InsOutcome
  <2>5. QED
    BY <2>2, <2>3, <2>4 DEF InsInv
<1>4. QED
  BY <1>1, <1>2, <1>3 DEF Install!Next

LEMMA InstallSoundOfInv == ASSUME InsInv PROVE InstallSound
<1>1. Install!TypeOK
  BY DEF InsInv, InsTypes
<1>2. Install!OnlyApproved
  BY DEF InsInv, InsServer, InsOutcome, Install!OnlyApproved
<1>3. Install!CommandOfClone
  BY DEF InsInv, InsPlan, Install!CommandOfClone
<1>4. Install!LeavesNothing
  BY DEF InsInv, InsServer, InsDirs, Sweeping, Install!LeavesNothing
<1>5. Install!ToldTruly
  BY DEF InsInv, InsOutcome, Install!ToldTruly
<1>6. QED
  BY <1>1, <1>2, <1>3, <1>4, <1>5 DEF InstallSound, Install!InstallSound

\* For every request, whatever fails, moves or is taken meanwhile and wherever Ctrl-C comes: what is kept
\* is what was approved, the command is that of the clone, nothing that can be removed is left, and the
\* caller is told the truth (install.py, clone.py, verify.py).
THEOREM InstallIsSound ==
  ASSUME RequestsAssumption
  PROVE  Install!InstallSpec => []InstallSound
<1>1. Install!Init => InsInv
  BY InsStart
<1>2. InsInv /\ [Install!Next]_Install!vars => InsInv'
  BY InsStep
<1>3. InsInv => InstallSound
  BY InstallSoundOfInv
<1>4. QED
  BY <1>1, <1>2, <1>3, PTL DEF Install!InstallSpec

-----------------------------------------------------------------------------
\* AppTransaction.

\* An installation has a path, the other commands have none; apps installed before share nothing.
AppsAssumption ==
  /\ "-" \notin Apps!Paths /\ Apps!None \notin Apps!Ids
  /\ \A c \in Apps!Ids :
       /\ Apps!Kind(c) \in {"install", "register", "remove", "enable", "disable"}
       /\ Apps!Path(c) \in (IF Apps!Kind(c) = "install" THEN Apps!Paths ELSE {"-"})
  /\ \A a \in Installed : a.path \in Apps!Paths \cup {"-"}
  /\ \A a, b \in Installed : a.package = b.package \/ (a.path = b.path /\ a.path # "-") => a = b

\* The entries and documents that can be, and the places of a command.
Packages == {Commands[c].package : c \in Apps!Ids} \cup {a.package : a \in Installed}
AppEntries == [package : Packages, path : Apps!Paths \cup {"-"}, on : BOOLEAN]
Documents == UNION {[es -> {1, 2}] : es \in SUBSET AppEntries}
Clones == Apps!Ids \cup {"old", Apps!None}
Adds == {"install", "register"}
AppSteps == {"idle", "prepare", "recheck", "owner", "publish", "quarantine", "read", "write", "undo",
             "sweep", "tidy", "discard"} \cup Apps!Ended

CmdRecords == [at : AppSteps, doc : Documents \cup {<<>>}, root : Apps!Paths \cup {"-"},
               made : BOOLEAN, published : BOOLEAN]

\* What is typed.
AppTypes ==
  /\ registry \in Documents
  /\ final \in [Apps!Paths -> Clones]
  /\ bin \in [Apps!Ids -> Clones]
  /\ cmd \in [Apps!Ids -> CmdRecords]

\* What a command at a place is, and whether its quarantine holds a clone.
Placed(c) ==
  LET now == cmd[c].at IN
  /\ now = "idle" => cmd[c].root = "-"
  /\ now = "prepare" => Apps!Kind(c) \in Adds
  /\ now \in {"owner", "publish", "sweep", "tidy"} => Apps!Kind(c) = "install"
  /\ now \in {"quarantine", "discard"} => Apps!Kind(c) = "remove"
  /\ now \in {"recheck"} => Apps!Kind(c) \in Adds \cup {"remove"}
  /\ now = "undo" => Apps!Kind(c) \in {"install", "remove"}
  /\ now = "write" => cmd[c].doc \in Documents
  /\ now \in {"quarantine", "discard"} => cmd[c].root # "-"
  /\ cmd[c].root # "-" => Apps!Kind(c) = "remove"
  /\ bin[c] # Apps!None => cmd[c].root # "-"
  /\ cmd[c].root # "-" /\ now \in {"read", "write", "undo", "discard"} => bin[c] # Apps!None
  /\ now \in {"recheck", "quarantine"} => bin[c] = Apps!None
  /\ cmd[c].published => Apps!Kind(c) = "install" /\ now \in {"read", "write", "undo", "tidy", "sweep"}

\* Without an overlap one command runs at a time, and none when one has just ended.
OneAtATime ==
  "overlap" \notin seen =>
    /\ \A c, d \in Apps!Running : c = d
    /\ last # Apps!None => Apps!Running = {}

\* A clone that was published is there as long as no removal of its path began.
Removed(p) == \E r \in Apps!Ids : Apps!Kind(r) = "remove" /\ cmd[r].root = p
Holds(c) == cmd[c].at \in {"read", "write", "tidy", "done"} \/ (cmd[c].at = "undo" /\ cmd[c].published)
PublishedKept ==
  \A c \in Apps!Ids : Apps!Kind(c) = "install" /\ Holds(c) =>
    final[Apps!Path(c)] = c \/ Removed(Apps!Path(c))

\* Each package stands once in the document, in one entry.
Singles(doc) == \A e \in DOMAIN doc : doc[e] = 1 /\ \A x \in DOMAIN doc : x.package = e.package => x = e
Mine(c) == {e \in DOMAIN registry : e.package = Commands[c].package}
Checked(c) ==
  LET now == cmd[c].at IN
  /\ now = "write" => cmd[c].doc = registry
  /\ now \in {"owner", "publish"} \/ (Apps!Kind(c) \in Adds /\ now \in {"read", "write"}) => Mine(c) = {}
  /\ Apps!Kind(c) = "remove" /\ now \in {"recheck", "quarantine", "read", "write"} =>
       \E e \in DOMAIN registry : Mine(c) = {e} /\ e.path = cmd[c].root
OneEntryEach ==
  "overlap" \notin seen => Singles(registry) /\ \A c \in Apps!Running : Checked(c)

\* An entry without its clone has it in a quarantine; two entries of one path, or a rival
\* of one, are there only if a removal died with the clone.
InBin(p) == \E r \in Apps!Ids : bin[r] # Apps!None /\ cmd[r].root = p
Abandoned(p) == \E r \in Apps!Ids \ Apps!Running : bin[r] # Apps!None /\ cmd[r].root = p
EntriesAt(p) == {e \in DOMAIN registry : e.path = p}
Contends(c) ==
  /\ Apps!Kind(c) = "install" /\ cmd[c].at \in {"publish", "read", "write", "undo"}
     /\ EntriesAt(Apps!Path(c)) # {} => Abandoned(Apps!Path(c))
  /\ Apps!Kind(c) = "install" /\ cmd[c].at \in {"read", "write"} => final[Apps!Path(c)] # Apps!None
  /\ cmd[c].at = "discard" /\ EntriesAt(cmd[c].root) # {} => Abandoned(cmd[c].root)
EntriesKept ==
  seen \subseteq {"crash"} =>
    /\ \A p \in Apps!Paths :
         /\ EntriesAt(p) # {} => final[p] # Apps!None \/ InBin(p)
         /\ \A e, x \in EntriesAt(p) : e # x => Abandoned(p)
    /\ \A c \in Apps!Running : Contends(c)

\* One command after the other: what the running one has done since it began.
Only(p, clone) == [before.final EXCEPT ![p] = clone]
Done(c) ==
  LET now == cmd[c].at
      p == Apps!Path(c)
      q == cmd[c].root
      Same == final = before.final
      Out == before.final[p] = Apps!None /\ final = Only(p, c)
      In == IF q = "-" THEN Same
            ELSE bin[c] = before.final[q] /\ before.final[q] # Apps!None /\ final = Only(q, Apps!None)
  IN /\ now \in {"tidy", "discard"} <=> registry # before.registry
     /\ now \in {"prepare", "recheck", "owner", "publish", "quarantine", "sweep"} => Same
     /\ Apps!Kind(c) \notin {"install", "remove"} => Same
     /\ Apps!Kind(c) = "install" /\ now \in {"read", "write", "tidy"} => cmd[c].published /\ Out
     /\ Apps!Kind(c) = "install" /\ now = "undo" => IF cmd[c].published THEN Out ELSE Same
     /\ Apps!Kind(c) = "remove" /\ now \in {"read", "write", "undo", "discard"} => In
Told ==
  seen = {} =>
    /\ before.final \in [Apps!Paths -> Clones]
    /\ \A c \in Apps!Running : Done(c)
    /\ last # Apps!None => last \in Apps!Ids /\ Apps!OldOrNew

AppInv ==
  /\ AppTypes /\ (\A c \in Apps!Ids : Placed(c)) /\ OneAtATime
  /\ PublishedKept /\ OneEntryEach /\ EntriesKept /\ Told

\* A document with an entry put in, and one with entries taken out.
LEMMA EntryAdded ==
  ASSUME NEW doc \in Documents, NEW e \in AppEntries
  PROVE  /\ Apps!With(doc, e) \in Documents
         /\ DOMAIN Apps!With(doc, e) = DOMAIN doc \cup {e}
         /\ \A x \in DOMAIN doc : x # e => Apps!With(doc, e)[x] = doc[x]
         /\ e \notin DOMAIN doc => Apps!With(doc, e)[e] = 1
<1>1. PICK ds \in SUBSET AppEntries : doc \in [ds -> {1, 2}]
  BY DEF Documents
<1>2. Apps!With(doc, e) \in [ds \cup {e} -> {1, 2}]
  BY <1>1 DEF Apps!With
<1>3. ds \cup {e} \in SUBSET AppEntries
  OBVIOUS
<1>4. QED
  BY <1>1, <1>2, <1>3 DEF Documents, Apps!With

LEMMA EntriesTaken ==
  ASSUME NEW doc \in Documents, NEW es \in SUBSET DOMAIN doc
  PROVE  /\ Apps!Without(doc, es) \in Documents
         /\ DOMAIN Apps!Without(doc, es) = DOMAIN doc \ es
         /\ \A x \in DOMAIN doc \ es : Apps!Without(doc, es)[x] = doc[x]
<1>1. PICK ds \in SUBSET AppEntries : doc \in [ds -> {1, 2}]
  BY DEF Documents
<1>2. Apps!Without(doc, es) \in [ds \ es -> {1, 2}]
  BY <1>1 DEF Apps!Without
<1>3. ds \ es \in SUBSET AppEntries
  OBVIOUS
<1>4. QED
  BY <1>1, <1>2, <1>3 DEF Documents, Apps!Without

LEMMA DocumentEntries ==
  ASSUME NEW doc \in Documents
  PROVE  /\ DOMAIN doc \subseteq AppEntries
         /\ \A e \in DOMAIN doc : doc[e] \in {1, 2}
         /\ \A d \in Documents : DOMAIN d = DOMAIN doc /\ (\A e \in DOMAIN doc : d[e] = doc[e]) => d = doc
<1>1. PICK ds \in SUBSET AppEntries : doc \in [ds -> {1, 2}]
  BY DEF Documents
<1>2. ASSUME NEW d \in Documents, DOMAIN d = DOMAIN doc, \A e \in DOMAIN doc : d[e] = doc[e]
      PROVE  d = doc
  <2>1. PICK cs \in SUBSET AppEntries : d \in [cs -> {1, 2}]
    BY DEF Documents
  <2>2. QED
    BY <1>1, <1>2, <2>1
<1>3. QED
  BY <1>1, <1>2

\* How often a package stands in a document.
LEMMA TimesOne ==
  ASSUME NEW doc, NEW p, Apps!Times(doc, p) = 1
  PROVE  \E e \in DOMAIN doc : e.package = p
<1>1. SUFFICES ASSUME \A e \in DOMAIN doc : e.package # p
               PROVE  FALSE
  OBVIOUS
<1>2. Apps!Of(doc, p) = {}
  BY <1>1 DEF Apps!Of
<1>3. Cardinality({}) = 0
  BY FS_EmptySet
<1>4. QED
  BY <1>2, <1>3 DEF Apps!Times, Apps!Cardinality, Cardinality

LEMMA SinglesTimes ==
  ASSUME NEW doc, Singles(doc), NEW e \in DOMAIN doc
  PROVE  Apps!Of(doc, e.package) = {e} /\ Apps!Times(doc, e.package) = 1
<1>1. Apps!Of(doc, e.package) = {e}
  BY DEF Singles, Apps!Of
<1>2. Cardinality({e}) = 1
  BY FS_Singleton
<1>3. doc[e] = 1
  BY DEF Singles
<1>4. QED
  BY <1>1, <1>2, <1>3 DEF Apps!Times, Apps!Cardinality, Cardinality

LEMMA SinglesReadable ==
  ASSUME NEW doc, Singles(doc)
  PROVE  Apps!Readable(doc)
BY SinglesTimes DEF Apps!Readable

-----------------------------------------------------------------------------
\* How a step moves a command.

\* A command that goes on, and one that ends.
GoesTo(c, to) ==
  /\ cmd' \in [Apps!Ids -> CmdRecords]
  /\ \A d \in Apps!Ids : d # c => cmd'[d] = cmd[d]
  /\ cmd'[c].at = to /\ cmd'[c].root = cmd[c].root /\ cmd'[c].published = cmd[c].published
  /\ last' = last
EndsAs(c, to) ==
  /\ cmd' \in [Apps!Ids -> CmdRecords]
  /\ \A d \in Apps!Ids : d # c => cmd'[d] = cmd[d]
  /\ cmd'[c].at = to /\ cmd'[c].root = cmd[c].root /\ cmd'[c].published = FALSE
  /\ last' = IF Apps!Running = {c} THEN c ELSE Apps!None

LEMMA CommandGoes ==
  ASSUME cmd \in [Apps!Ids -> CmdRecords], NEW c \in Apps!Ids, NEW to \in AppSteps, Apps!Goes(c, to)
  PROVE  GoesTo(c, to)
<1>1. cmd' = [cmd EXCEPT ![c].at = to] /\ last' = last
  BY DEF Apps!Goes, Apps!To
<1>2. cmd[c] \in CmdRecords
  OBVIOUS
<1>3. DEFINE r == [cmd[c] EXCEPT !.at = to]
<1>4. cmd' = [cmd EXCEPT ![c] = r]
  BY <1>1
<1>5. /\ r \in CmdRecords /\ r.at = to /\ r.doc = cmd[c].doc /\ r.root = cmd[c].root
      /\ r.made = cmd[c].made /\ r.published = cmd[c].published
  BY <1>2 DEF CmdRecords
<1>6. HIDE DEF r
<1>7. cmd' \in [Apps!Ids -> CmdRecords] /\ cmd'[c] = r /\ \A d \in Apps!Ids : d # c => cmd'[d] = cmd[d]
  BY <1>4, <1>5
<1>8. QED
  BY <1>1, <1>5, <1>7 DEF GoesTo

LEMMA CommandEnds ==
  ASSUME cmd \in [Apps!Ids -> CmdRecords], NEW c \in Apps!Ids, NEW to \in AppSteps, Apps!Ends(c, to)
  PROVE  EndsAs(c, to)
<1>1. /\ cmd' = [cmd EXCEPT ![c] = Apps!Gone(to, cmd[c].root)]
      /\ last' = IF Apps!Running = {c} THEN c ELSE Apps!None
  BY DEF Apps!Ends
<1>2. cmd[c] \in CmdRecords
  OBVIOUS
<1>3. cmd[c].root \in Apps!Paths \cup {"-"}
  BY <1>2 DEF CmdRecords
<1>4. DEFINE r == Apps!Gone(to, cmd[c].root)
<1>5. r \in CmdRecords /\ r.at = to /\ r.root = cmd[c].root /\ r.published = FALSE
  BY <1>3 DEF CmdRecords, Apps!Gone
<1>6. HIDE DEF r
<1>7. cmd' = [cmd EXCEPT ![c] = r]
  BY <1>1 DEF r
<1>8. cmd' \in [Apps!Ids -> CmdRecords] /\ cmd'[c] = r /\ \A d \in Apps!Ids : d # c => cmd'[d] = cmd[d]
  BY <1>5, <1>7
<1>9. QED
  BY <1>1, <1>5, <1>8 DEF EndsAs

\* Where an error leads.
Handled(c) ==
  \/ /\ GoesTo(c, "undo")
     /\ \/ Apps!Kind(c) = "install" /\ cmd[c].at \in {"publish", "read", "write"}
        \/ Apps!Kind(c) = "remove" /\ cmd[c].at \in {"read", "write"}
  \/ /\ GoesTo(c, "sweep")
     /\ Apps!Kind(c) = "install" /\ cmd[c].at \notin {"publish", "read", "write"}
  \/ /\ EndsAs(c, "failed") /\ Apps!Kind(c) # "install"
     /\ ~(Apps!Kind(c) = "remove" /\ cmd[c].at \in {"read", "write"})

LEMMA CommandFails ==
  ASSUME cmd \in [Apps!Ids -> CmdRecords], NEW c \in Apps!Ids, Apps!Fails(c)
  PROVE  Handled(c)
<1>1. {"undo", "sweep", "failed"} \subseteq AppSteps
  BY DEF AppSteps, Apps!Ended
<1>2. CASE Apps!Kind(c) = "install" /\ cmd[c].at \in {"publish", "read", "write"}
  <2>1. Apps!Goes(c, "undo")
    BY <1>2 DEF Apps!Fails
  <2>2. QED
    BY <1>1, <1>2, <2>1, CommandGoes DEF Handled
<1>3. CASE Apps!Kind(c) = "install" /\ cmd[c].at \notin {"publish", "read", "write"}
  <2>1. Apps!Goes(c, "sweep")
    BY <1>3 DEF Apps!Fails
  <2>2. QED
    BY <1>1, <1>3, <2>1, CommandGoes DEF Handled
<1>4. CASE Apps!Kind(c) = "remove" /\ cmd[c].at \in {"read", "write"}
  <2>1. Apps!Goes(c, "undo")
    BY <1>4 DEF Apps!Fails
  <2>2. QED
    BY <1>1, <1>4, <2>1, CommandGoes DEF Handled
<1>5. CASE Apps!Kind(c) # "install" /\ ~(Apps!Kind(c) = "remove" /\ cmd[c].at \in {"read", "write"})
  <2>1. Apps!Ends(c, "failed")
    BY <1>5 DEF Apps!Fails
  <2>2. QED
    BY <1>1, <1>5, <2>1, CommandEnds DEF Handled
<1>6. QED
  BY <1>2, <1>3, <1>4, <1>5

-----------------------------------------------------------------------------
\* What a step does to a command, the registry, the clones and the quarantines.
Still == registry' = registry /\ final' = final /\ bin' = bin

\* A command that begins.
Begins(c) ==
  /\ cmd[c].at = "idle" /\ Still /\ last' = Apps!None
  /\ seen' = IF Apps!Running # {} THEN seen \cup {"overlap"} ELSE seen
  /\ before' = IF seen' = {} THEN [registry |-> registry, final |-> final] ELSE before
  /\ cmd' \in [Apps!Ids -> CmdRecords]
  /\ \A d \in Apps!Ids : d # c => cmd'[d] = cmd[d]
  /\ cmd'[c].published = cmd[c].published
  /\ \/ cmd'[c].at = "failed" /\ cmd'[c].root = "-"
     \/ Apps!Kind(c) \in Adds /\ cmd'[c].at = "prepare" /\ cmd'[c].root = "-"
     \/ /\ Apps!Kind(c) = "remove" /\ cmd'[c].at = "recheck"
        /\ Mine(c) # {} /\ cmd'[c].root = (CHOOSE e \in Mine(c) : TRUE).path
     \/ Apps!Kind(c) \notin Adds \cup {"remove"} /\ cmd'[c].at = "read" /\ cmd'[c].root = "-"

\* One that goes on, and one that ends, with nothing moved.
Advances(c) ==
  LET now == cmd[c].at
      kind == Apps!Kind(c)
  IN \/ now = "prepare" /\ GoesTo(c, "recheck")
     \/ /\ now = "recheck"
        /\ \/ kind = "install" /\ Mine(c) = {} /\ GoesTo(c, "owner")
           \/ kind = "remove" /\ Apps!Valid(c) /\ cmd[c].root # "-" /\ GoesTo(c, "quarantine")
           \/ kind = "remove" /\ Apps!Valid(c) /\ cmd[c].root = "-" /\ GoesTo(c, "read")
           \/ kind \notin {"install", "remove"} /\ Mine(c) = {} /\ GoesTo(c, "read")
     \/ now = "owner" /\ Apps!PathFree(c) /\ GoesTo(c, "publish")
     \/ now = "read" /\ GoesTo(c, "write") /\ cmd'[c].doc = registry
     \/ now \in {"prepare", "recheck", "owner", "publish", "quarantine", "read", "write"} /\ Handled(c)
     \/ now = "undo" /\ kind = "install" /\ ~Apps!ToUndo(c) /\ GoesTo(c, "sweep")

Stops(c) ==
  LET now == cmd[c].at
      kind == Apps!Kind(c)
  IN \/ now = "write" /\ Apps!Edits(c) /\ Apps!Edited(c) = cmd[c].doc /\ EndsAs(c, "same")
     \/ now = "undo" /\ kind = "install" /\ Apps!ToUndo(c) /\ EndsAs(c, "residue")
     \/ now = "undo" /\ kind = "remove" /\ bin[c] = Apps!None /\ EndsAs(c, "failed")
     \/ now = "undo" /\ kind = "remove" /\ bin[c] # Apps!None /\ EndsAs(c, "residue")
     \/ now = "sweep" /\ EndsAs(c, "failed")
     \/ now = "tidy" /\ EndsAs(c, "done")
     \/ now = "discard" /\ EndsAs(c, "leftover")

\* A process that dies.
Dies(c) ==
  /\ c \in Apps!Running /\ EndsAs(c, "dead") /\ seen' = seen \cup {"crash"}

\* A clone at its path, in a quarantine, and back; the registry replaced.
Publishes(c) ==
  /\ cmd[c].at = "publish" /\ Apps!PathFree(c)
  /\ final' = [final EXCEPT ![Apps!Path(c)] = c]
  /\ registry' = registry /\ bin' = bin
  /\ \/ "cut" \in seen' /\ GoesTo(c, "undo")
     \/ /\ cmd' \in [Apps!Ids -> CmdRecords]
        /\ \A d \in Apps!Ids : d # c => cmd'[d] = cmd[d]
        /\ cmd'[c].at = "read" /\ cmd'[c].root = cmd[c].root /\ cmd'[c].published = TRUE
        /\ last' = last

Quarantines(c) ==
  /\ cmd[c].at = "quarantine" /\ final[cmd[c].root] # Apps!None
  /\ bin' = [bin EXCEPT ![c] = final[cmd[c].root]]
  /\ final' = [final EXCEPT ![cmd[c].root] = Apps!None]
  /\ registry' = registry
  /\ \/ "cut" \in seen' /\ EndsAs(c, "failed")
     \/ GoesTo(c, "read")

Writes(c) ==
  /\ cmd[c].at = "write" /\ Apps!Edits(c) /\ Apps!Edited(c) # cmd[c].doc
  /\ registry' = Apps!Edited(c) /\ final' = final /\ bin' = bin
  /\ \/ "cut" \in seen' /\ Handled(c)
     \/ Apps!Kind(c) = "install" /\ GoesTo(c, "tidy")
     \/ bin[c] # Apps!None /\ GoesTo(c, "discard")
     \/ Apps!Kind(c) # "install" /\ bin[c] = Apps!None /\ EndsAs(c, "done")

Unpublishes(c) ==
  /\ cmd[c].at = "undo" /\ Apps!Kind(c) = "install" /\ Apps!ToUndo(c)
  /\ final' = [final EXCEPT ![Apps!Path(c)] = Apps!None]
  /\ registry' = registry /\ bin' = bin
  /\ GoesTo(c, "sweep")

Restores(c) ==
  /\ cmd[c].at = "undo" /\ Apps!Kind(c) = "remove"
  /\ bin[c] # Apps!None /\ final[cmd[c].root] = Apps!None
  /\ final' = [final EXCEPT ![cmd[c].root] = bin[c]]
  /\ bin' = [bin EXCEPT ![c] = Apps!None]
  /\ registry' = registry
  /\ EndsAs(c, "failed")

Discards(c) ==
  /\ cmd[c].at = "discard"
  /\ bin' = [bin EXCEPT ![c] = Apps!None]
  /\ registry' = registry /\ final' = final
  /\ EndsAs(c, "done")

\* One that moves a clone or writes the registry, and any.
Moves(c) == Publishes(c) \/ Quarantines(c) \/ Writes(c) \/ Unpublishes(c) \/ Restores(c) \/ Discards(c)

Effect(c) ==
  \/ Begins(c)
  \/ /\ before' = before
     /\ \/ Still /\ seen' = seen /\ (Advances(c) \/ Stops(c))
        \/ Still /\ Dies(c)
        \/ seen' \in {seen, seen \cup {"cut"}} /\ Moves(c)

\* Each action has one of these effects.
LEMMA BeginEffect ==
  ASSUME AppTypes, NEW c \in Apps!Ids, Apps!Start(c)
  PROVE  Effect(c)
<1>1. cmd \in [Apps!Ids -> CmdRecords] /\ registry \in Documents
  BY DEF AppTypes
<1>2. cmd[c] \in CmdRecords /\ DOMAIN registry \subseteq AppEntries
  BY <1>1, DocumentEntries
<1>3. DEFINE next == CASE Apps!Kind(c) = "install" -> IF Apps!PathFree(c) /\ Apps!PackageFree(c) THEN "prepare" ELSE "failed"
                     [] Apps!Kind(c) = "register" -> IF Apps!PackageFree(c) THEN "prepare" ELSE "failed"
                     [] Apps!Kind(c) = "remove" -> IF Apps!Known(c) THEN "recheck" ELSE "failed"
                     [] OTHER -> "read"
             base == IF Apps!Kind(c) = "remove" /\ Apps!Known(c) THEN Apps!RootOf(c) ELSE "-"
             r == [cmd[c] EXCEPT !.at = next, !.root = base]
<1>4. \/ next = "failed" /\ base = "-"
      \/ Apps!Kind(c) \in Adds /\ next = "prepare" /\ base = "-"
      \/ /\ Apps!Kind(c) = "remove" /\ next = "recheck"
         /\ Mine(c) # {} /\ base = (CHOOSE e \in Mine(c) : TRUE).path
      \/ Apps!Kind(c) \notin Adds \cup {"remove"} /\ next = "read" /\ base = "-"
  <2>1. Mine(c) = Apps!Of(registry, Commands[c].package)
    BY DEF Mine, Apps!Of
  <2>2. CASE Apps!Kind(c) = "remove" /\ Apps!Known(c)
    BY <2>1, <2>2 DEF Adds, Apps!Known, Apps!RootOf
  <2>3. CASE ~(Apps!Kind(c) = "remove" /\ Apps!Known(c))
    BY <2>3 DEF Adds
  <2>4. QED
    BY <2>2, <2>3
<1>5. base \in Apps!Paths \cup {"-"}
  <2>1. CASE Apps!Kind(c) = "remove" /\ Apps!Known(c)
    <3>1. Apps!Of(registry, Commands[c].package) # {}
      BY <2>1 DEF Apps!Known
    <3>2. (CHOOSE e \in Apps!Of(registry, Commands[c].package) : TRUE) \in Apps!Of(registry, Commands[c].package)
      BY <3>1
    <3>3. PICK e \in DOMAIN registry : Apps!RootOf(c) = e.path
      BY <3>2 DEF Apps!RootOf, Apps!Of
    <3>4. e \in AppEntries
      BY <1>2
    <3>5. QED
      BY <2>1, <3>3, <3>4 DEF AppEntries
  <2>2. QED
    BY <2>1
<1>6. next \in AppSteps
  BY <1>4 DEF AppSteps, Apps!Ended
<1>7. /\ cmd[c].at = "idle" /\ last' = Apps!None
      /\ seen' = IF Apps!Running # {} THEN seen \cup {"overlap"} ELSE seen
      /\ before' = IF seen' = {} THEN [registry |-> registry, final |-> final] ELSE before
      /\ cmd' = [cmd EXCEPT ![c].at = next, ![c].root = base]
      /\ Still
  BY DEF Apps!Start, Apps!Files, Still
<1>8. HIDE DEF next, base
<1>9. r \in CmdRecords /\ r.at = next /\ r.root = base /\ r.published = cmd[c].published
  BY <1>2, <1>5, <1>6 DEF CmdRecords
<1>10. cmd' = [cmd EXCEPT ![c] = r]
  BY <1>1, <1>7
<1>11. HIDE DEF r
<1>12. cmd' \in [Apps!Ids -> CmdRecords] /\ cmd'[c] = r /\ \A d \in Apps!Ids : d # c => cmd'[d] = cmd[d]
  BY <1>1, <1>9, <1>10
<1>13. Begins(c)
  BY <1>4, <1>7, <1>9, <1>12 DEF Begins
<1>14. QED
  BY <1>13 DEF Effect

LEMMA QuietEffect ==
  ASSUME AppTypes, NEW c \in Apps!Ids,
         Apps!Prepare(c) \/ Apps!Recheck(c) \/ Apps!MakeOwner(c) \/ Apps!Read(c) \/ Apps!Refused(c)
  PROVE  Effect(c)
<1>1. cmd \in [Apps!Ids -> CmdRecords] /\ registry \in Documents /\ cmd[c] \in CmdRecords
  BY DEF AppTypes
<1>2. {"recheck", "owner", "quarantine", "read", "publish", "write"} \subseteq AppSteps
  BY DEF AppSteps
<1>3. Still /\ before' = before /\ seen' = seen
  BY DEF Apps!Prepare, Apps!Recheck, Apps!MakeOwner, Apps!Read, Apps!Refused, Apps!Files, Apps!History, Still
<1>4. Advances(c)
  <2>1. CASE Apps!Prepare(c)
    <3>1. cmd[c].at = "prepare" /\ Apps!Goes(c, "recheck")
      BY <2>1 DEF Apps!Prepare
    <3>2. QED
      BY <1>1, <1>2, <3>1, CommandGoes DEF Advances
  <2>2. CASE Apps!Recheck(c) /\ Apps!Valid(c)
    <3>1. /\ cmd[c].at = "recheck"
          /\ Apps!Goes(c, CASE Apps!Kind(c) = "install" -> "owner"
                            [] Apps!Kind(c) = "remove" /\ cmd[c].root # "-" -> "quarantine"
                            [] OTHER -> "read")
      BY <2>2 DEF Apps!Recheck
    <3>2. Apps!Kind(c) # "remove" => Mine(c) = {}
      BY <2>2 DEF Apps!Valid, Apps!PackageFree, Apps!Of, Mine
    <3>3. CASE Apps!Kind(c) = "install"
      <4>1. Apps!Goes(c, "owner")
        BY <3>1, <3>3
      <4>2. QED
        BY <1>1, <1>2, <3>1, <3>2, <3>3, <4>1, CommandGoes DEF Advances
    <3>4. CASE Apps!Kind(c) = "remove" /\ cmd[c].root # "-"
      <4>1. Apps!Goes(c, "quarantine")
        BY <3>1, <3>4
      <4>2. QED
        BY <1>1, <1>2, <2>2, <3>1, <3>4, <4>1, CommandGoes DEF Advances
    <3>5. CASE Apps!Kind(c) # "install" /\ ~(Apps!Kind(c) = "remove" /\ cmd[c].root # "-")
      <4>1. Apps!Goes(c, "read")
        BY <3>1, <3>5
      <4>2. QED
        BY <1>1, <1>2, <2>2, <3>1, <3>2, <3>5, <4>1, CommandGoes DEF Advances
    <3>6. QED
      BY <3>3, <3>4, <3>5
  <2>3. CASE Apps!Recheck(c) /\ ~Apps!Valid(c)
    <3>1. cmd[c].at = "recheck" /\ Apps!Fails(c)
      BY <2>3 DEF Apps!Recheck
    <3>2. QED
      BY <1>1, <3>1, CommandFails DEF Advances
  <2>4. CASE Apps!MakeOwner(c) /\ Apps!PathFree(c)
    <3>1. /\ cmd[c].at = "owner" /\ last' = last
          /\ cmd' = [cmd EXCEPT ![c].at = "publish", ![c].made = Owner[Apps!Path(c)] \notin owners]
      BY <2>4 DEF Apps!MakeOwner
    <3>2. PICK made \in BOOLEAN : cmd' = [cmd EXCEPT ![c].at = "publish", ![c].made = made]
      BY <3>1
    <3>3. DEFINE r == [cmd[c] EXCEPT !.at = "publish", !.made = made]
    <3>4. /\ r \in CmdRecords /\ r.at = "publish" /\ r.root = cmd[c].root
          /\ r.published = cmd[c].published
      BY <1>1, <1>2 DEF CmdRecords
    <3>5. cmd' = [cmd EXCEPT ![c] = r]
      BY <1>1, <3>2
    <3>6. HIDE DEF r
    <3>7. cmd' \in [Apps!Ids -> CmdRecords] /\ cmd'[c] = r /\ \A d \in Apps!Ids : d # c => cmd'[d] = cmd[d]
      BY <1>1, <3>4, <3>5
    <3>8. GoesTo(c, "publish")
      BY <3>1, <3>4, <3>7 DEF GoesTo
    <3>9. QED
      BY <2>4, <3>1, <3>8 DEF Advances
  <2>5. CASE Apps!MakeOwner(c) /\ ~Apps!PathFree(c)
    <3>1. cmd[c].at = "owner" /\ Apps!Fails(c)
      BY <2>5 DEF Apps!MakeOwner
    <3>2. QED
      BY <1>1, <3>1, CommandFails DEF Advances
  <2>6. CASE Apps!Read(c)
    <3>1. cmd[c].at = "read" /\ last' = last /\ cmd' = [cmd EXCEPT ![c].at = "write", ![c].doc = registry]
      BY <2>6 DEF Apps!Read
    <3>2. DEFINE r == [cmd[c] EXCEPT !.at = "write", !.doc = registry]
    <3>3. /\ r \in CmdRecords /\ r.at = "write" /\ r.root = cmd[c].root /\ r.doc = registry
          /\ r.published = cmd[c].published
      BY <1>1, <1>2 DEF CmdRecords
    <3>4. cmd' = [cmd EXCEPT ![c] = r]
      BY <1>1, <3>1
    <3>5. HIDE DEF r
    <3>6. cmd' \in [Apps!Ids -> CmdRecords] /\ cmd'[c] = r /\ \A d \in Apps!Ids : d # c => cmd'[d] = cmd[d]
      BY <1>1, <3>3, <3>4
    <3>7. GoesTo(c, "write") /\ cmd'[c].doc = registry
      BY <3>1, <3>3, <3>6 DEF GoesTo
    <3>8. QED
      BY <3>1, <3>7 DEF Advances
  <2>7. CASE Apps!Refused(c)
    <3>1. cmd[c].at \in {"prepare", "recheck", "owner", "read"} /\ Apps!Fails(c)
      BY <2>7 DEF Apps!Refused
    <3>2. Handled(c)
      BY <1>1, <3>1, CommandFails
    <3>3. QED
      BY <3>1, <3>2 DEF Advances
  <2>8. QED
    BY <2>1, <2>2, <2>3, <2>4, <2>5, <2>6, <2>7
<1>5. QED
  BY <1>3, <1>4 DEF Effect

LEMMA PublishEffect ==
  ASSUME AppTypes, NEW c \in Apps!Ids, NEW how \in {"done", "fails", "cut"}, Apps!Publish(c, how)
  PROVE  Effect(c)
<1>1. cmd \in [Apps!Ids -> CmdRecords] /\ cmd[c] \in CmdRecords
  BY DEF AppTypes
<1>2. {"undo", "read"} \subseteq AppSteps
  BY DEF AppSteps
<1>3. cmd[c].at = "publish" /\ registry' = registry /\ bin' = bin /\ before' = before
  BY DEF Apps!Publish
<1>4. CASE Apps!PathFree(c) /\ Owner[Apps!Path(c)] \in owners /\ how # "fails"
  <2>1. final' = [final EXCEPT ![Apps!Path(c)] = c]
    BY <1>4 DEF Apps!Publish
  <2>2. CASE how = "cut"
    <3>1. Apps!Befalls("cut") /\ Apps!Goes(c, "undo")
      BY <1>4, <2>2 DEF Apps!Publish
    <3>2. seen' = seen \cup {"cut"} /\ GoesTo(c, "undo")
      BY <1>1, <1>2, <3>1, CommandGoes DEF Apps!Befalls
    <3>3. Publishes(c)
      BY <1>3, <1>4, <2>1, <3>2 DEF Publishes
    <3>4. QED
      BY <1>3, <3>2, <3>3 DEF Effect, Moves
  <2>3. CASE how # "cut"
    <3>1. cmd' = [cmd EXCEPT ![c].at = "read", ![c].published = TRUE] /\ last' = last /\ seen' = seen
      BY <1>4, <2>3 DEF Apps!Publish
    <3>2. DEFINE r == [cmd[c] EXCEPT !.at = "read", !.published = TRUE]
    <3>3. r \in CmdRecords /\ r.at = "read" /\ r.root = cmd[c].root /\ r.published = TRUE
      BY <1>1, <1>2 DEF CmdRecords
    <3>4. cmd' = [cmd EXCEPT ![c] = r]
      BY <1>1, <3>1
    <3>5. HIDE DEF r
    <3>6. cmd' \in [Apps!Ids -> CmdRecords] /\ cmd'[c] = r /\ \A d \in Apps!Ids : d # c => cmd'[d] = cmd[d]
      BY <1>1, <3>3, <3>4
    <3>7. Publishes(c)
      BY <1>3, <1>4, <2>1, <3>1, <3>3, <3>6 DEF Publishes
    <3>8. QED
      BY <1>3, <3>1, <3>7 DEF Effect, Moves
  <2>4. QED
    BY <2>2, <2>3
<1>5. CASE ~(Apps!PathFree(c) /\ Owner[Apps!Path(c)] \in owners /\ how # "fails")
  <2>1. Apps!Fails(c) /\ final' = final /\ seen' = seen
    BY <1>5 DEF Apps!Publish
  <2>2. Handled(c)
    BY <1>1, <2>1, CommandFails
  <2>3. QED
    BY <1>3, <2>1, <2>2 DEF Effect, Still, Advances
<1>6. QED
  BY <1>4, <1>5

LEMMA QuarantineEffect ==
  ASSUME AppTypes, NEW c \in Apps!Ids, NEW how \in {"done", "fails", "cut"}, Apps!Quarantine(c, how)
  PROVE  Effect(c)
<1>1. cmd \in [Apps!Ids -> CmdRecords]
  BY DEF AppTypes
<1>2. {"failed", "read"} \subseteq AppSteps
  BY DEF AppSteps, Apps!Ended
<1>3. cmd[c].at = "quarantine" /\ registry' = registry /\ before' = before
  BY DEF Apps!Quarantine
<1>4. CASE final[cmd[c].root] # Apps!None /\ how # "fails"
  <2>1. /\ bin' = [bin EXCEPT ![c] = final[cmd[c].root]]
        /\ final' = [final EXCEPT ![cmd[c].root] = Apps!None]
    BY <1>4 DEF Apps!Quarantine
  <2>2. CASE how = "cut"
    <3>1. Apps!Befalls("cut") /\ Apps!Ends(c, "failed")
      BY <1>4, <2>2 DEF Apps!Quarantine
    <3>2. seen' = seen \cup {"cut"} /\ EndsAs(c, "failed")
      BY <1>1, <1>2, <3>1, CommandEnds DEF Apps!Befalls
    <3>3. Quarantines(c)
      BY <1>3, <1>4, <2>1, <3>2 DEF Quarantines
    <3>4. QED
      BY <1>3, <3>2, <3>3 DEF Effect, Moves
  <2>3. CASE how # "cut"
    <3>1. Apps!Goes(c, "read") /\ seen' = seen
      BY <1>4, <2>3 DEF Apps!Quarantine
    <3>2. GoesTo(c, "read")
      BY <1>1, <1>2, <3>1, CommandGoes
    <3>3. Quarantines(c)
      BY <1>3, <1>4, <2>1, <3>2 DEF Quarantines
    <3>4. QED
      BY <1>3, <3>1, <3>3 DEF Effect, Moves
  <2>4. QED
    BY <2>2, <2>3
<1>5. CASE ~(final[cmd[c].root] # Apps!None /\ how # "fails")
  <2>1. Apps!Fails(c) /\ final' = final /\ bin' = bin /\ seen' = seen
    BY <1>5 DEF Apps!Quarantine
  <2>2. Handled(c)
    BY <1>1, <2>1, CommandFails
  <2>3. QED
    BY <1>3, <2>1, <2>2 DEF Effect, Still, Advances
<1>6. QED
  BY <1>4, <1>5

LEMMA WriteEffect ==
  ASSUME AppTypes, NEW c \in Apps!Ids, NEW how \in {"done", "fails", "cut"}, Apps!Write(c, how)
  PROVE  Effect(c)
<1>1. cmd \in [Apps!Ids -> CmdRecords]
  BY DEF AppTypes
<1>2. {"same", "tidy", "discard", "done"} \subseteq AppSteps
  BY DEF AppSteps, Apps!Ended
<1>3. cmd[c].at = "write" /\ final' = final /\ bin' = bin /\ before' = before
  BY DEF Apps!Write, Apps!Files
<1>4. CASE Apps!Edits(c) /\ Apps!Edited(c) = cmd[c].doc
  <2>1. Apps!Ends(c, "same") /\ registry' = registry /\ seen' = seen
    BY <1>4 DEF Apps!Write
  <2>2. EndsAs(c, "same")
    BY <1>1, <1>2, <2>1, CommandEnds
  <2>3. QED
    BY <1>3, <1>4, <2>1, <2>2 DEF Effect, Still, Stops
<1>5. CASE ~(Apps!Edits(c) /\ Apps!Edited(c) = cmd[c].doc) /\ Apps!Edits(c) /\ how # "fails"
  <2>1. registry' = Apps!Edited(c)
    BY <1>5 DEF Apps!Write
  <2>2. CASE how = "cut"
    <3>1. Apps!Befalls("cut") /\ Apps!Fails(c)
      BY <1>5, <2>2 DEF Apps!Write
    <3>2. seen' = seen \cup {"cut"} /\ Handled(c)
      BY <1>1, <3>1, CommandFails DEF Apps!Befalls
    <3>3. Writes(c)
      BY <1>3, <1>5, <2>1, <3>2 DEF Writes
    <3>4. QED
      BY <1>3, <3>2, <3>3 DEF Effect, Moves
  <2>3. CASE how # "cut"
    <3>1. /\ seen' = seen
          /\ CASE Apps!Kind(c) = "install" -> Apps!Goes(c, "tidy")
               [] bin[c] # Apps!None -> Apps!Goes(c, "discard")
               [] OTHER -> Apps!Ends(c, "done")
      BY <1>5, <2>3 DEF Apps!Write
    <3>2. \/ Apps!Kind(c) = "install" /\ Apps!Goes(c, "tidy")
          \/ bin[c] # Apps!None /\ Apps!Goes(c, "discard")
          \/ Apps!Kind(c) # "install" /\ bin[c] = Apps!None /\ Apps!Ends(c, "done")
      BY <3>1
    <3>3. \/ Apps!Kind(c) = "install" /\ GoesTo(c, "tidy")
          \/ bin[c] # Apps!None /\ GoesTo(c, "discard")
          \/ Apps!Kind(c) # "install" /\ bin[c] = Apps!None /\ EndsAs(c, "done")
      BY <1>1, <1>2, <3>2, CommandGoes, CommandEnds
    <3>4. Writes(c)
      BY <1>3, <1>5, <2>1, <3>3 DEF Writes
    <3>5. QED
      BY <1>3, <3>1, <3>4 DEF Effect, Moves
  <2>4. QED
    BY <2>2, <2>3
<1>6. CASE ~Apps!Edits(c) \/ (~(Apps!Edited(c) = cmd[c].doc) /\ how = "fails")
  <2>1. Apps!Fails(c) /\ registry' = registry /\ seen' = seen
    BY <1>6 DEF Apps!Write
  <2>2. Handled(c)
    BY <1>1, <2>1, CommandFails
  <2>3. QED
    BY <1>3, <2>1, <2>2 DEF Effect, Still, Advances
<1>7. QED
  BY <1>4, <1>5, <1>6

LEMMA UndoEffect ==
  ASSUME AppTypes, NEW c \in Apps!Ids, NEW ok \in BOOLEAN,
         Apps!UndoInstall(c, ok) \/ Apps!UndoRemove(c, ok)
  PROVE  Effect(c)
<1>1. cmd \in [Apps!Ids -> CmdRecords]
  BY DEF AppTypes
<1>2. {"residue", "failed", "sweep"} \subseteq AppSteps
  BY DEF AppSteps, Apps!Ended
<1>3. cmd[c].at = "undo" /\ registry' = registry /\ before' = before /\ seen' = seen
  BY DEF Apps!UndoInstall, Apps!UndoRemove, Apps!History
<1>4. CASE Apps!UndoInstall(c, ok)
  <2>1. Apps!Kind(c) = "install"
    BY <1>4 DEF Apps!UndoInstall
  <2>2. CASE Apps!ToUndo(c) /\ ~ok
    <3>1. Apps!Ends(c, "residue") /\ Still
      BY <1>3, <1>4, <2>2 DEF Apps!UndoInstall, Apps!Files, Still
    <3>2. EndsAs(c, "residue")
      BY <1>1, <1>2, <3>1, CommandEnds
    <3>3. QED
      BY <1>3, <2>1, <2>2, <3>1, <3>2 DEF Effect, Stops
  <2>3. CASE ~(Apps!ToUndo(c) /\ ~ok)
    <3>1. /\ final' = IF Apps!ToUndo(c) THEN [final EXCEPT ![Apps!Path(c)] = Apps!None] ELSE final
          /\ Apps!Goes(c, "sweep") /\ bin' = bin
      BY <1>4, <2>3 DEF Apps!UndoInstall
    <3>2. GoesTo(c, "sweep")
      BY <1>1, <1>2, <3>1, CommandGoes
    <3>3. CASE Apps!ToUndo(c)
      <4>1. Unpublishes(c)
        BY <1>3, <2>1, <3>1, <3>2, <3>3 DEF Unpublishes
      <4>2. QED
        BY <1>3, <4>1 DEF Effect, Moves
    <3>4. CASE ~Apps!ToUndo(c)
      BY <1>3, <2>1, <3>1, <3>2, <3>4 DEF Effect, Advances, Still
    <3>5. QED
      BY <3>3, <3>4
  <2>4. QED
    BY <2>2, <2>3
<1>5. CASE Apps!UndoRemove(c, ok)
  <2>1. Apps!Kind(c) = "remove"
    BY <1>5 DEF Apps!UndoRemove
  <2>2. CASE bin[c] = Apps!None
    <3>1. Apps!Ends(c, "failed") /\ Still
      BY <1>3, <1>5, <2>2 DEF Apps!UndoRemove, Still
    <3>2. EndsAs(c, "failed")
      BY <1>1, <1>2, <3>1, CommandEnds
    <3>3. QED
      BY <1>3, <2>1, <2>2, <3>1, <3>2 DEF Effect, Stops
  <2>3. CASE bin[c] # Apps!None /\ ok /\ final[cmd[c].root] = Apps!None
    <3>1. /\ final' = [final EXCEPT ![cmd[c].root] = bin[c]]
          /\ bin' = [bin EXCEPT ![c] = Apps!None]
          /\ Apps!Ends(c, "failed")
      BY <1>5, <2>3 DEF Apps!UndoRemove
    <3>2. EndsAs(c, "failed")
      BY <1>1, <1>2, <3>1, CommandEnds
    <3>3. Restores(c)
      BY <1>3, <2>1, <2>3, <3>1, <3>2 DEF Restores
    <3>4. QED
      BY <1>3, <3>3 DEF Effect, Moves
  <2>4. CASE bin[c] # Apps!None /\ ~(ok /\ final[cmd[c].root] = Apps!None)
    <3>1. Apps!Ends(c, "residue") /\ Still
      BY <1>3, <1>5, <2>4 DEF Apps!UndoRemove, Still
    <3>2. EndsAs(c, "residue")
      BY <1>1, <1>2, <3>1, CommandEnds
    <3>3. QED
      BY <1>3, <2>1, <2>4, <3>1, <3>2 DEF Effect, Stops
  <2>5. QED
    BY <2>2, <2>3, <2>4
<1>6. QED
  BY <1>4, <1>5

LEMMA EndEffect ==
  ASSUME AppTypes, NEW c \in Apps!Ids, NEW ok \in BOOLEAN,
         Apps!Sweep(c, ok) \/ Apps!Discard(c, ok) \/ Apps!Crash(c)
  PROVE  Effect(c)
<1>1. cmd \in [Apps!Ids -> CmdRecords]
  BY DEF AppTypes
<1>2. {"done", "failed", "leftover", "dead"} \subseteq AppSteps
  BY DEF AppSteps, Apps!Ended
<1>3. CASE Apps!Sweep(c, ok)
  <2>1. /\ cmd[c].at \in {"sweep", "tidy"} /\ Still /\ before' = before /\ seen' = seen
        /\ Apps!Ends(c, IF cmd[c].at = "tidy" THEN "done" ELSE "failed")
    BY <1>3 DEF Apps!Sweep, Apps!History, Still
  <2>2. CASE cmd[c].at = "sweep"
    <3>1. Apps!Ends(c, "failed")
      BY <2>1, <2>2
    <3>2. EndsAs(c, "failed")
      BY <1>1, <1>2, <3>1, CommandEnds
    <3>3. QED
      BY <2>1, <2>2, <3>2 DEF Effect, Stops
  <2>3. CASE cmd[c].at = "tidy"
    <3>1. Apps!Ends(c, "done")
      BY <2>1, <2>3
    <3>2. EndsAs(c, "done")
      BY <1>1, <1>2, <3>1, CommandEnds
    <3>3. QED
      BY <2>1, <2>3, <3>2 DEF Effect, Stops
  <2>4. QED
    BY <2>1, <2>2, <2>3
<1>4. CASE Apps!Discard(c, ok)
  <2>1. /\ cmd[c].at = "discard" /\ before' = before /\ seen' = seen
        /\ registry' = registry /\ final' = final
    BY <1>4 DEF Apps!Discard, Apps!History
  <2>2. CASE ok
    <3>1. bin' = [bin EXCEPT ![c] = Apps!None] /\ Apps!Ends(c, "done")
      BY <1>4, <2>2 DEF Apps!Discard
    <3>2. EndsAs(c, "done")
      BY <1>1, <1>2, <3>1, CommandEnds
    <3>3. Discards(c)
      BY <2>1, <3>1, <3>2 DEF Discards
    <3>4. QED
      BY <2>1, <3>3 DEF Effect, Moves
  <2>3. CASE ~ok
    <3>1. bin' = bin /\ Apps!Ends(c, "leftover")
      BY <1>4, <2>3 DEF Apps!Discard
    <3>2. EndsAs(c, "leftover")
      BY <1>1, <1>2, <3>1, CommandEnds
    <3>3. QED
      BY <2>1, <3>1, <3>2 DEF Effect, Stops, Still
  <2>4. QED
    BY <2>2, <2>3
<1>5. CASE Apps!Crash(c)
  <2>1. c \in Apps!Running /\ Apps!Ends(c, "dead") /\ seen' = seen \cup {"crash"} /\ Still /\ before' = before
    BY <1>5 DEF Apps!Crash, Apps!Befalls, Apps!Files, Still
  <2>2. EndsAs(c, "dead")
    BY <1>1, <1>2, <2>1, CommandEnds
  <2>3. Dies(c)
    BY <2>1, <2>2 DEF Dies
  <2>4. QED
    BY <2>1, <2>3 DEF Effect
<1>6. QED
  BY <1>3, <1>4, <1>5

LEMMA StepEffect ==
  ASSUME AppTypes, Apps!Next
  PROVE  \E c \in Apps!Ids : Effect(c)
<1>1. PICK c \in Apps!Ids : Apps!Step(c)
  BY DEF Apps!Next
<1>2. Effect(c)
  BY <1>1, BeginEffect, QuietEffect, PublishEffect, QuarantineEffect, WriteEffect, UndoEffect, EndEffect
  DEF Apps!Step
<1>3. QED
  BY <1>2

\* What holds of every step.
LEMMA StepFrame ==
  ASSUME AppTypes, NEW c \in Apps!Ids, Effect(c)
  PROVE  /\ cmd' \in [Apps!Ids -> CmdRecords]
         /\ \A d \in Apps!Ids : d # c => cmd'[d] = cmd[d]
         /\ cmd[c].at \notin Apps!Ended /\ cmd'[c].at # "idle"
         /\ cmd[c].at # "idle" => cmd'[c].root = cmd[c].root
         /\ seen \subseteq seen'
         /\ \/ last' = Apps!None
            \/ last' = last /\ c \in Apps!Running
            \/ Apps!Running = {c} /\ cmd'[c].at \in Apps!Ended
<1>1. CASE Begins(c)
  BY <1>1 DEF Begins, Apps!Ended
<1>2. CASE Still /\ seen' = seen /\ Advances(c)
  <2>1. \/ \E to \in {"recheck", "owner", "quarantine", "read", "publish", "write", "undo", "sweep"} : GoesTo(c, to)
        \/ EndsAs(c, "failed")
    BY <1>2 DEF Advances, Handled
  <2>2. cmd[c].at \notin Apps!Ended \cup {"idle"}
    BY <1>2 DEF Advances, Apps!Ended
  <2>3. QED
    BY <1>2, <2>1, <2>2 DEF GoesTo, EndsAs, Apps!Ended, Apps!Running
<1>3. CASE Still /\ seen' = seen /\ Stops(c)
  <2>1. \E to \in {"same", "residue", "failed", "done", "leftover"} : EndsAs(c, to)
    BY <1>3 DEF Stops
  <2>2. cmd[c].at \notin Apps!Ended \cup {"idle"}
    BY <1>3 DEF Stops, Apps!Ended
  <2>3. QED
    BY <1>3, <2>1, <2>2 DEF EndsAs, Apps!Ended
<1>4. CASE Still /\ Dies(c)
  BY <1>4 DEF Dies, EndsAs, Apps!Running, Apps!Ended
<1>5. CASE seen' \in {seen, seen \cup {"cut"}} /\ Moves(c)
  <2>1. \/ \E to \in {"undo", "read", "sweep", "tidy", "discard"} : GoesTo(c, to)
        \/ EndsAs(c, "failed") \/ EndsAs(c, "done")
        \/ /\ cmd' \in [Apps!Ids -> CmdRecords]
           /\ \A d \in Apps!Ids : d # c => cmd'[d] = cmd[d]
           /\ cmd'[c].at = "read" /\ cmd'[c].root = cmd[c].root /\ cmd'[c].published = TRUE
           /\ last' = last
    BY <1>5 DEF Moves, Publishes, Quarantines, Writes, Unpublishes, Restores, Discards, Handled
  <2>2. cmd[c].at \notin Apps!Ended \cup {"idle"}
    BY <1>5 DEF Moves, Publishes, Quarantines, Writes, Unpublishes, Restores, Discards, Apps!Ended
  <2>3. QED
    BY <1>5, <2>1, <2>2 DEF GoesTo, EndsAs, Apps!Ended, Apps!Running
<1>6. QED
  BY <1>1, <1>2, <1>3, <1>4, <1>5 DEF Effect

\* What an edit makes of the document that was read.
LEMMA EditForms ==
  ASSUME AppsAssumption, NEW c \in Apps!Ids, cmd[c].doc \in Documents, Apps!Edits(c)
  PROVE  LET doc == cmd[c].doc
             mine == Apps!Of(doc, Commands[c].package)
         IN \/ /\ Apps!Kind(c) \in Adds /\ Apps!Entry(c) \in AppEntries
               /\ Apps!Edited(c) = Apps!With(doc, Apps!Entry(c))
            \/ Apps!Kind(c) = "remove" /\ Apps!Edited(c) = Apps!Without(doc, mine)
            \/ /\ Apps!Kind(c) \notin Adds \cup {"remove"}
               /\ \E e \in mine : \E x \in AppEntries :
                    /\ x.package = e.package /\ x.path = e.path
                    /\ Apps!Edited(c) = Apps!With(Apps!Without(doc, mine), x)
<1>1. DEFINE doc == cmd[c].doc
             mine == Apps!Of(doc, Commands[c].package)
<1>2. CASE Apps!Kind(c) \in Adds
  <2>1. Apps!Entry(c) \in AppEntries
    BY <1>2 DEF Apps!Entry, AppEntries, Packages, AppsAssumption, Apps!Path
  <2>2. QED
    BY <1>2, <2>1 DEF Apps!Edited, Adds
<1>3. CASE Apps!Kind(c) = "remove"
  BY <1>3 DEF Apps!Edited
<1>4. CASE Apps!Kind(c) \notin Adds \cup {"remove"}
  <2>1. mine # {}
    BY <1>4, TimesOne DEF Apps!Edits, Adds, Apps!Of
  <2>2. PICK e \in mine : e = CHOOSE y \in mine : TRUE
    BY <2>1
  <2>3. e \in AppEntries
    BY <2>2, DocumentEntries DEF Apps!Of
  <2>4. DEFINE x == [e EXCEPT !.on = (Apps!Kind(c) = "enable")]
  <2>5. x \in AppEntries /\ x.package = e.package /\ x.path = e.path
    BY <2>3 DEF AppEntries
  <2>6. Apps!Edited(c) = Apps!With(Apps!Without(doc, mine), x)
    BY <1>4, <2>2 DEF Apps!Edited, Adds
  <2>7. HIDE DEF x
  <2>8. QED
    BY <1>4, <2>5, <2>6
<1>5. QED
  BY <1>2, <1>3, <1>4

LEMMA EditedDocument ==
  ASSUME AppsAssumption, NEW c \in Apps!Ids, cmd[c].doc \in Documents, Apps!Edits(c)
  PROVE  Apps!Edited(c) \in Documents
<1>1. DEFINE doc == cmd[c].doc
             mine == Apps!Of(doc, Commands[c].package)
<1>2. mine \in SUBSET DOMAIN doc
  BY DEF Apps!Of
<1>3. Apps!Without(doc, mine) \in Documents
  BY <1>2, EntriesTaken
<1>4. \A x \in AppEntries :
        Apps!With(doc, x) \in Documents /\ Apps!With(Apps!Without(doc, mine), x) \in Documents
  BY <1>3, EntryAdded
<1>5. QED
  BY <1>3, <1>4, EditForms

LEMMA TypesKept ==
  ASSUME AppsAssumption, AppTypes, NEW c \in Apps!Ids, Placed(c), Effect(c)
  PROVE  AppTypes'
<1>1. cmd' \in [Apps!Ids -> CmdRecords]
  BY StepFrame
<1>2. cmd[c] \in CmdRecords /\ final \in [Apps!Paths -> Clones] /\ bin \in [Apps!Ids -> Clones]
  BY DEF AppTypes
<1>3. CASE Still
  BY <1>1, <1>3 DEF Still, AppTypes
<1>4. CASE Moves(c)
  <2>1. CASE Writes(c)
    <3>1. cmd[c].doc \in Documents /\ Apps!Edits(c)
      BY <2>1 DEF Writes, Placed
    <3>2. QED
      BY <1>1, <2>1, <3>1, EditedDocument DEF Writes, AppTypes
  <2>2. CASE Publishes(c)
    <3>1. Apps!Kind(c) = "install"
      BY <2>2 DEF Publishes, Placed
    <3>2. QED
      BY <1>1, <1>2, <2>2 DEF Publishes, AppTypes, Clones
  <2>3. CASE Quarantines(c)
    <3>1. cmd[c].root \in Apps!Paths
      BY <1>2, <2>3 DEF Quarantines, Placed, CmdRecords
    <3>2. QED
      BY <1>1, <1>2, <2>3, <3>1 DEF Quarantines, AppTypes, Clones
  <2>4. CASE Unpublishes(c) \/ Restores(c) \/ Discards(c)
    BY <1>1, <1>2, <2>4 DEF Unpublishes, Restores, Discards, AppTypes, Clones
  <2>5. QED
    BY <1>4, <2>1, <2>2, <2>3, <2>4 DEF Moves
<1>5. QED
  BY <1>3, <1>4 DEF Effect, Begins

LEMMA PlacesKept ==
  ASSUME AppsAssumption, AppTypes, NEW c \in Apps!Ids, \A d \in Apps!Ids : Placed(d), Effect(c)
  PROVE  \A d \in Apps!Ids : Placed(d)'
<1>1. /\ cmd' \in [Apps!Ids -> CmdRecords]
      /\ \A d \in Apps!Ids : d # c => cmd'[d] = cmd[d]
  BY StepFrame
<1>2. \A d \in Apps!Ids : d # c => bin'[d] = bin[d]
  BY DEF Effect, Begins, Still, Moves, Publishes, Quarantines, Writes, Unpublishes, Restores, Discards,
         AppTypes
<1>3. \A d \in Apps!Ids : Apps!Kind(d)' = Apps!Kind(d)
  BY DEF Apps!Kind
<1>4. ASSUME NEW d \in Apps!Ids, d # c PROVE Placed(d)'
  BY <1>1, <1>2, <1>3, <1>4 DEF Placed
<1>5. Placed(c)'
  <2>1. CASE Begins(c)
    BY <1>3, <2>1 DEF Begins, Still, Placed, Adds
  <2>2. CASE Still /\ Advances(c)
    BY <1>3, <2>2 DEF Advances, Handled, GoesTo, EndsAs, Still, Placed, Adds, AppTypes
  <2>3. CASE Still /\ Stops(c)
    BY <1>3, <2>3 DEF Stops, EndsAs, Still, Placed, Adds
  <2>4. CASE Still /\ Dies(c)
    BY <1>3, <2>4 DEF Dies, EndsAs, Still, Placed, Adds
  <2>5. CASE Publishes(c)
    BY <1>3, <2>5 DEF Publishes, GoesTo, Placed, Adds
  <2>6. CASE Quarantines(c)
    <3>1. bin'[c] # Apps!None
      BY <2>6 DEF Quarantines, AppTypes
    <3>2. QED
      BY <1>3, <2>6, <3>1 DEF Quarantines, GoesTo, EndsAs, Placed, Adds
  <2>7. CASE Writes(c)
    BY <1>3, <2>7 DEF Writes, Handled, GoesTo, EndsAs, Placed, Adds
  <2>8. CASE Unpublishes(c) \/ Restores(c) \/ Discards(c)
    BY <1>3, <2>8 DEF Unpublishes, Restores, Discards, GoesTo, EndsAs, Placed, Adds, AppTypes
  <2>9. QED
    BY <2>1, <2>2, <2>3, <2>4, <2>5, <2>6, <2>7, <2>8 DEF Effect, Moves
<1>6. QED
  BY <1>4, <1>5

-----------------------------------------------------------------------------
\* Without an overlap only the command that moves is under way.
LEMMA AloneAtWork ==
  ASSUME AppTypes, OneAtATime, NEW c \in Apps!Ids, Effect(c), "overlap" \notin seen'
  PROVE  /\ "overlap" \notin seen
         /\ Apps!Running \subseteq {c} /\ Apps!Running' \subseteq {c}
         /\ Begins(c) => Apps!Running = {}
         /\ ~Begins(c) => Apps!Running = {c}
<1>1. "overlap" \notin seen
  BY StepFrame
<1>2. Begins(c) => Apps!Running = {}
  BY DEF Begins
<1>3. ~Begins(c) => c \in Apps!Running
  BY DEF Effect, Advances, Stops, Dies, Moves, Publishes, Quarantines, Writes, Unpublishes, Restores,
         Discards, Apps!Running, Apps!Ended
<1>4. Apps!Running \subseteq {c}
  BY <1>1, <1>2, <1>3 DEF OneAtATime
<1>5. \A d \in Apps!Ids : d # c => (d \in Apps!Running' <=> d \in Apps!Running)
  BY StepFrame DEF Apps!Running, Apps!Ended
<1>6. Apps!Running' \subseteq Apps!Ids
  BY DEF Apps!Running
<1>7. QED
  BY <1>1, <1>2, <1>3, <1>4, <1>5, <1>6

LEMMA OneAtATimeKept ==
  ASSUME AppTypes, OneAtATime, NEW c \in Apps!Ids, Effect(c)
  PROVE  OneAtATime'
<1>1. SUFFICES ASSUME "overlap" \notin seen'
               PROVE  /\ \A d, e \in Apps!Running' : d = e
                      /\ last' # Apps!None => Apps!Running' = {}
  BY DEF OneAtATime, Apps!Running
<1>2. Apps!Running \subseteq {c} /\ Apps!Running' \subseteq {c} /\ "overlap" \notin seen
  BY <1>1, AloneAtWork
<1>3. ASSUME last' # Apps!None PROVE Apps!Running' = {}
  <2>1. CASE last' = last /\ c \in Apps!Running
    BY <1>2, <1>3, <2>1 DEF OneAtATime
  <2>2. CASE Apps!Running = {c} /\ cmd'[c].at \in Apps!Ended
    <3>1. c \notin Apps!Running'
      BY <2>2 DEF Apps!Running, Apps!Ended
    <3>2. QED
      BY <1>2, <3>1
  <2>3. QED
    BY <1>3, <2>1, <2>2, StepFrame
<1>4. QED
  BY <1>2, <1>3

-----------------------------------------------------------------------------
\* A published clone is there as long as no removal of its path began.
LEMMA RemovedStays ==
  ASSUME AppTypes, \A d \in Apps!Ids : Placed(d), NEW c \in Apps!Ids, Effect(c),
         NEW p \in Apps!Paths, "-" \notin Apps!Paths, Removed(p)
  PROVE  Removed(p)'
<1>1. PICK r \in Apps!Ids : Apps!Kind(r) = "remove" /\ cmd[r].root = p
  BY DEF Removed
<1>2. cmd[r].at # "idle"
  BY <1>1 DEF Placed
<1>3. cmd'[r].root = p
  BY <1>1, <1>2, StepFrame
<1>4. QED
  BY <1>1, <1>3 DEF Removed, Apps!Kind

LEMMA PublishedStays ==
  ASSUME AppsAssumption, AppTypes, \A d \in Apps!Ids : Placed(d), PublishedKept,
         NEW c \in Apps!Ids, Effect(c)
  PROVE  PublishedKept'
<1>1. SUFFICES ASSUME NEW d \in Apps!Ids, Apps!Kind(d) = "install", Holds(d)'
               PROVE  final'[Apps!Path(d)] = d \/ Removed(Apps!Path(d))'
  BY DEF PublishedKept, Apps!Kind, Apps!Path
<1>2. Apps!Path(d) \in Apps!Paths /\ "-" \notin Apps!Paths /\ Apps!None \notin Apps!Ids
  BY <1>1 DEF AppsAssumption
<1>3. Removed(Apps!Path(d)) => Removed(Apps!Path(d))'
  <2>1. ASSUME NEW p \in Apps!Paths, p = Apps!Path(d), Removed(p) PROVE Removed(p)'
    BY <1>2, <2>1, RemovedStays
  <2>2. QED
    BY <1>2, <2>1 DEF Removed, Apps!Path
<1>4. final \in [Apps!Paths -> Clones]
  BY DEF AppTypes
<1>5. Holds(d) \/ (d = c /\ Publishes(c) /\ cmd'[c].at = "read")
  <2>1. CASE d # c
    BY <1>1, <2>1, StepFrame DEF Holds
  <2>2. CASE d = c /\ Begins(c)
    BY <1>1, <2>2 DEF Begins, Holds, Adds
  <2>3. CASE d = c /\ Advances(c)
    <3>1. Placed(c)
      OBVIOUS
    <3>2. QED
      BY <1>1, <2>3, <3>1 DEF Advances, Handled, GoesTo, EndsAs, Holds, Placed, Adds
  <2>4. CASE d = c /\ (Stops(c) \/ Dies(c))
    BY <1>1, <2>4 DEF Stops, Dies, EndsAs, Holds
  <2>5. CASE d = c /\ Publishes(c)
    <3>1. Placed(c)
      OBVIOUS
    <3>2. QED
      BY <1>1, <2>5, <3>1 DEF Publishes, GoesTo, Holds, Placed
  <2>6. CASE d = c /\ (Quarantines(c) \/ Restores(c) \/ Discards(c))
    <3>1. Placed(c)
      OBVIOUS
    <3>2. QED
      BY <1>1, <2>6, <3>1 DEF Quarantines, Restores, Discards, Placed
  <2>7. CASE d = c /\ (Writes(c) \/ Unpublishes(c))
    BY <1>1, <2>7 DEF Writes, Unpublishes, Handled, GoesTo, EndsAs, Holds
  <2>8. QED
    BY <2>1, <2>2, <2>3, <2>4, <2>5, <2>6, <2>7 DEF Effect, Moves
<1>6. CASE final' = final
  BY <1>1, <1>2, <1>3, <1>4, <1>5, <1>6 DEF PublishedKept, Publishes, Apps!PathFree
<1>7. CASE Publishes(c)
  <2>1. CASE d = c
    BY <1>2, <1>4, <1>7, <2>1 DEF Publishes
  <2>2. CASE d # c
    <3>1. final[Apps!Path(d)] = d \/ Removed(Apps!Path(d))
      BY <1>1, <1>5, <2>2 DEF PublishedKept
    <3>2. Apps!Path(d) = Apps!Path(c) => final[Apps!Path(d)] # d
      BY <1>2, <1>7 DEF Publishes, Apps!PathFree
    <3>3. Apps!Path(d) # Apps!Path(c) => final'[Apps!Path(d)] = final[Apps!Path(d)]
      BY <1>2, <1>4, <1>7 DEF Publishes
    <3>4. QED
      BY <1>3, <3>1, <3>2, <3>3
  <2>3. QED
    BY <2>1, <2>2
<1>8. CASE Quarantines(c) \/ Restores(c)
  <2>1. Holds(d) /\ Placed(c)
    BY <1>5, <1>8 DEF Publishes, Quarantines, Restores
  <2>2. final[Apps!Path(d)] = d \/ Removed(Apps!Path(d))
    BY <1>1, <2>1 DEF PublishedKept
  <2>3. CASE Apps!Path(d) = cmd[c].root
    <3>1. Apps!Kind(c) = "remove"
      BY <1>8, <2>1 DEF Quarantines, Restores, Placed
    <3>2. Removed(Apps!Path(d))
      BY <2>3, <3>1 DEF Removed
    <3>3. QED
      BY <1>3, <3>2
  <2>4. CASE Apps!Path(d) # cmd[c].root
    <3>1. final'[Apps!Path(d)] = final[Apps!Path(d)]
      BY <1>2, <1>4, <1>8, <2>4 DEF Quarantines, Restores
    <3>2. QED
      BY <1>3, <2>2, <3>1
  <2>5. QED
    BY <2>3, <2>4
<1>9. CASE Unpublishes(c)
  <2>1. Holds(d) /\ Holds(c) /\ Apps!Kind(c) = "install"
    BY <1>5, <1>9 DEF Publishes, Unpublishes, Holds, Apps!ToUndo
  <2>2. CASE Apps!Path(d) = Apps!Path(c)
    <3>1. d # c => Removed(Apps!Path(d))
      BY <1>1, <2>1, <2>2 DEF PublishedKept
    <3>2. d # c
      BY <1>1, <1>9 DEF Unpublishes, GoesTo, Holds
    <3>3. QED
      BY <1>3, <3>1, <3>2
  <2>3. CASE Apps!Path(d) # Apps!Path(c)
    <3>1. final'[Apps!Path(d)] = final[Apps!Path(d)]
      BY <1>2, <1>4, <1>9, <2>3 DEF Unpublishes
    <3>2. QED
      BY <1>1, <1>3, <2>1, <3>1 DEF PublishedKept
  <2>4. QED
    BY <2>2, <2>3
<1>10. QED
  BY <1>6, <1>7, <1>8, <1>9 DEF Effect, Begins, Still, Moves, Writes, Discards

-----------------------------------------------------------------------------
\* Edits of a document in which each package stands once.
LEMMA SinglesTaken ==
  ASSUME NEW doc \in Documents, Singles(doc), NEW es \in SUBSET DOMAIN doc
  PROVE  Singles(Apps!Without(doc, es))
<1>1. /\ DOMAIN Apps!Without(doc, es) = DOMAIN doc \ es
      /\ \A y \in DOMAIN doc \ es : Apps!Without(doc, es)[y] = doc[y]
  BY EntriesTaken
<1>2. QED
  BY <1>1 DEF Singles

LEMMA SinglesAdded ==
  ASSUME NEW doc \in Documents, Singles(doc), NEW x \in AppEntries,
         \A e \in DOMAIN doc : e.package # x.package
  PROVE  x \notin DOMAIN doc /\ Singles(Apps!With(doc, x))
<1>1. x \notin DOMAIN doc
  OBVIOUS
<1>2. /\ DOMAIN Apps!With(doc, x) = DOMAIN doc \cup {x} /\ Apps!With(doc, x)[x] = 1
      /\ \A y \in DOMAIN doc : y # x => Apps!With(doc, x)[y] = doc[y]
  BY <1>1, EntryAdded
<1>3. QED
  BY <1>1, <1>2 DEF Singles

\* What a written document differs in from the one that was there.
Adding(c) ==
  /\ Apps!Kind(c) \in Adds /\ Apps!Entry(c) \notin DOMAIN registry
  /\ DOMAIN registry' = DOMAIN registry \cup {Apps!Entry(c)}
Removing(c) ==
  /\ Apps!Kind(c) = "remove"
  /\ \E e \in DOMAIN registry : e.path = cmd[c].root /\ DOMAIN registry' = DOMAIN registry \ {e}
Switching(c) ==
  /\ Apps!Kind(c) \notin Adds \cup {"remove"}
  /\ \E e \in DOMAIN registry : \E x \in AppEntries :
       /\ x.path = e.path
       /\ DOMAIN registry' = (DOMAIN registry \ {e}) \cup {x}

LEMMA WrittenForms ==
  ASSUME AppsAssumption, AppTypes, NEW c \in Apps!Ids, Singles(registry), Checked(c), Writes(c)
  PROVE  /\ Singles(registry') /\ registry' # registry
         /\ Adding(c) \/ Removing(c) \/ Switching(c)
<1>1. /\ cmd[c].doc = registry /\ Apps!Edits(c) /\ registry' = Apps!Edited(c) /\ registry \in Documents
      /\ cmd[c].at = "write" /\ registry' # registry
  BY DEF Writes, Checked, AppTypes
<1>2. Mine(c) = Apps!Of(registry, Commands[c].package)
  BY DEF Mine, Apps!Of
<1>3. CASE Apps!Kind(c) \in Adds
  <2>1. Mine(c) = {}
    BY <1>1, <1>3 DEF Checked
  <2>2. Apps!Entry(c) \in AppEntries /\ registry' = Apps!With(registry, Apps!Entry(c))
    BY <1>1, <1>3, EditForms DEF Adds
  <2>3. Apps!Entry(c).package = Commands[c].package
    BY DEF Apps!Entry
  <2>4. PICK x \in AppEntries : x = Apps!Entry(c)
    BY <2>2
  <2>5. \A e \in DOMAIN registry : e.package # x.package
    BY <2>1, <2>3, <2>4 DEF Mine
  <2>6. x \notin DOMAIN registry /\ Singles(Apps!With(registry, x))
    BY <1>1, <2>5, SinglesAdded
  <2>7. DOMAIN Apps!With(registry, x) = DOMAIN registry \cup {x}
    BY <1>1, EntryAdded
  <2>8. QED
    BY <1>1, <1>3, <2>2, <2>4, <2>6, <2>7 DEF Adding
<1>4. CASE Apps!Kind(c) = "remove"
  <2>1. PICK e \in DOMAIN registry : Mine(c) = {e} /\ e.path = cmd[c].root
    BY <1>1, <1>4 DEF Checked
  <2>2. registry' = Apps!Without(registry, {e})
    BY <1>1, <1>2, <1>4, <2>1, EditForms DEF Adds
  <2>3. {e} \in SUBSET DOMAIN registry
    OBVIOUS
  <2>4. Singles(Apps!Without(registry, {e})) /\ DOMAIN Apps!Without(registry, {e}) = DOMAIN registry \ {e}
    BY <1>1, <2>3, SinglesTaken, EntriesTaken
  <2>5. QED
    BY <1>1, <1>4, <2>1, <2>2, <2>4 DEF Removing
<1>5. CASE Apps!Kind(c) \notin Adds \cup {"remove"}
  <2>1. PICK e \in Mine(c), x \in AppEntries :
          /\ x.package = e.package /\ x.path = e.path
          /\ registry' = Apps!With(Apps!Without(registry, Mine(c)), x)
    BY <1>1, <1>2, <1>5, EditForms
  <2>2. e \in DOMAIN registry /\ Mine(c) = {e}
    BY <2>1 DEF Mine, Singles
  <2>3. PICK d \in Documents : d = Apps!Without(registry, {e})
    BY <1>1, <2>2, EntriesTaken
  <2>4. Singles(d) /\ DOMAIN d = DOMAIN registry \ {e}
    BY <1>1, <2>2, <2>3, SinglesTaken, EntriesTaken
  <2>5. \A y \in DOMAIN d : y.package # x.package
    BY <2>1, <2>2, <2>4 DEF Singles
  <2>6. Singles(Apps!With(d, x)) /\ DOMAIN Apps!With(d, x) = DOMAIN d \cup {x}
    BY <2>4, <2>5, SinglesAdded, EntryAdded
  <2>7. registry' = Apps!With(d, x)
    BY <2>1, <2>2, <2>3
  <2>8. QED
    BY <1>1, <1>5, <2>1, <2>2, <2>4, <2>6, <2>7 DEF Switching
<1>6. QED
  BY <1>3, <1>4, <1>5

\* What is written changes the document, but for a switch.
LEMMA EditChanges ==
  ASSUME AppsAssumption, AppTypes, NEW c \in Apps!Ids, Singles(registry), Checked(c),
         cmd[c].at = "write", Apps!Kind(c) \in {"install", "remove"}, Apps!Edits(c)
  PROVE  Apps!Edited(c) # cmd[c].doc
<1>1. cmd[c].doc = registry /\ registry \in Documents
  BY DEF Checked, AppTypes
<1>2. Mine(c) = Apps!Of(registry, Commands[c].package)
  BY DEF Mine, Apps!Of
<1>3. CASE Apps!Kind(c) = "install"
  <2>1. PICK x \in AppEntries : x = Apps!Entry(c) /\ Apps!Edited(c) = Apps!With(registry, x)
    BY <1>1, <1>3, EditForms DEF Adds
  <2>2. Mine(c) = {} /\ x.package = Commands[c].package
    BY <1>3, <2>1 DEF Checked, Adds, Apps!Entry
  <2>3. x \notin DOMAIN registry
    BY <2>2 DEF Mine
  <2>4. DOMAIN Apps!With(registry, x) = DOMAIN registry \cup {x}
    BY <1>1, EntryAdded
  <2>5. QED
    BY <1>1, <2>1, <2>3, <2>4
<1>4. CASE Apps!Kind(c) = "remove"
  <2>1. PICK e \in DOMAIN registry : Mine(c) = {e}
    BY <1>4 DEF Checked
  <2>2. Apps!Edited(c) = Apps!Without(registry, {e})
    BY <1>1, <1>2, <1>4, <2>1, EditForms DEF Adds
  <2>3. {e} \in SUBSET DOMAIN registry
    OBVIOUS
  <2>4. DOMAIN Apps!Without(registry, {e}) = DOMAIN registry \ {e}
    BY <1>1, <2>3, EntriesTaken
  <2>5. QED
    BY <1>1, <2>1, <2>2, <2>4
<1>5. QED
  BY <1>3, <1>4

\* Each package stays in one entry, and a command knows what it will edit.
LEMMA OneEntryStays ==
  ASSUME AppsAssumption, AppTypes, \A d \in Apps!Ids : Placed(d), OneAtATime, OneEntryEach,
         NEW c \in Apps!Ids, Effect(c)
  PROVE  OneEntryEach'
<1>1. SUFFICES ASSUME "overlap" \notin seen'
               PROVE  Singles(registry') /\ \A d \in Apps!Running' : Checked(d)'
  BY DEF OneEntryEach, Singles, Apps!Running
<1>2. /\ "overlap" \notin seen /\ Apps!Running' \subseteq {c} /\ (~Begins(c) => c \in Apps!Running)
  BY <1>1, AloneAtWork
<1>3. Singles(registry) /\ (~Begins(c) => Checked(c)) /\ Placed(c)
  BY <1>2 DEF OneEntryEach
<1>4. Singles(registry')
  <2>1. CASE Writes(c)
    <3>1. Checked(c)
      BY <1>3, <2>1 DEF Writes, Begins
    <3>2. QED
      BY <1>3, <2>1, <3>1, WrittenForms
  <2>2. QED
    BY <1>3, <2>1 DEF Effect, Begins, Still, Moves, Publishes, Quarantines, Unpublishes, Restores, Discards
<1>5. Checked(c)'
  <2>1. CASE Begins(c)
    <3>1. Mine(c)' = Mine(c) /\ Apps!Kind(c)' = Apps!Kind(c)
      BY <2>1 DEF Begins, Still, Mine, Apps!Kind
    <3>2. CASE Apps!Kind(c) = "remove" /\ cmd'[c].at = "recheck"
      <4>1. Mine(c) # {} /\ cmd'[c].root = (CHOOSE e \in Mine(c) : TRUE).path
        BY <2>1, <3>2 DEF Begins, Adds
      <4>2. PICK e \in Mine(c) : e = CHOOSE y \in Mine(c) : TRUE
        BY <4>1
      <4>3. Mine(c) = {e} /\ e \in DOMAIN registry
        BY <1>3, <4>2 DEF Mine, Singles
      <4>4. DOMAIN registry' = DOMAIN registry
        BY <2>1 DEF Begins, Still
      <4>5. \E x \in DOMAIN registry' : Mine(c)' = {x} /\ x.path = cmd'[c].root
        BY <3>1, <4>1, <4>2, <4>3, <4>4
      <4>6. QED
        BY <3>2, <4>5 DEF Checked, Adds
    <3>3. CASE ~(Apps!Kind(c) = "remove" /\ cmd'[c].at = "recheck")
      BY <2>1, <3>1, <3>3 DEF Begins, Checked, Adds
    <3>4. QED
      BY <3>2, <3>3
  <2>2. CASE Writes(c)
    BY <1>3, <2>2 DEF Writes, Handled, GoesTo, EndsAs, Checked
  <2>3. CASE registry' = registry /\ ~Begins(c) /\ ~Writes(c)
    <3>1. Mine(c)' = Mine(c) /\ Apps!Kind(c)' = Apps!Kind(c)
      BY <2>3 DEF Mine, Apps!Kind
    <3>2. CASE Advances(c) /\ cmd[c].at = "recheck"
      BY <1>3, <2>3, <3>1, <3>2 DEF Advances, Handled, GoesTo, EndsAs, Checked, Adds, Placed
    <3>3. CASE Advances(c) /\ cmd[c].at # "recheck"
      BY <1>3, <2>3, <3>1, <3>3 DEF Advances, Handled, GoesTo, EndsAs, Checked, Adds, Placed
    <3>4. CASE Stops(c) \/ Dies(c)
      BY <3>1, <3>4 DEF Stops, Dies, EndsAs, Checked
    <3>5. CASE Publishes(c) \/ Quarantines(c) \/ Unpublishes(c) \/ Restores(c) \/ Discards(c)
      BY <1>3, <2>3, <3>1, <3>5 DEF Publishes, Quarantines, Unpublishes, Restores, Discards, GoesTo, EndsAs,
         Checked, Adds, Placed
    <3>6. QED
      BY <2>3, <3>2, <3>3, <3>4, <3>5 DEF Effect, Moves
  <2>4. QED
    BY <2>1, <2>2, <2>3 DEF Effect, Begins, Still, Moves, Publishes, Quarantines, Unpublishes, Restores,
          Discards
<1>6. \A d \in Apps!Running' : Checked(d)'
  <2>1. ASSUME NEW d \in Apps!Running', d = c PROVE Checked(d)'
    BY <1>5, <2>1
  <2>2. QED
    BY <1>2, <2>1
<1>7. QED
  BY <1>4, <1>6

-----------------------------------------------------------------------------
\* Where the clones of the entries are.

\* What a dead removal left in its quarantine stays there.
LEMMA AbandonedStays ==
  ASSUME AppsAssumption, AppTypes, \A d \in Apps!Ids : Placed(d), NEW c \in Apps!Ids, Effect(c),
         NEW p \in Apps!Paths, Abandoned(p)
  PROVE  Abandoned(p)'
<1>1. PICK r \in Apps!Ids \ Apps!Running : bin[r] # Apps!None /\ cmd[r].root = p
  BY DEF Abandoned
<1>2. cmd[r].at # "idle"
  BY <1>1 DEF Placed, AppsAssumption
<1>3. r # c
  BY <1>1, <1>2, StepFrame DEF Apps!Running
<1>4. bin'[r] = bin[r] /\ cmd'[r] = cmd[r]
  <2>1. bin \in [Apps!Ids -> Clones]
    BY DEF AppTypes
  <2>2. QED
    BY <1>3, <2>1, StepFrame DEF Effect, Begins, Still, Moves, Publishes, Quarantines, Writes, Unpublishes,
       Restores, Discards
<1>5. r \notin Apps!Running'
  BY <1>1, <1>4 DEF Apps!Running, Apps!Ended
<1>6. QED
  BY <1>1, <1>4, <1>5 DEF Abandoned

LEMMA BinStays ==
  ASSUME AppTypes, AppsAssumption, \A d \in Apps!Ids : Placed(d), NEW c \in Apps!Ids, Effect(c),
         NEW p \in Apps!Paths, InBin(p), ~((Restores(c) \/ Discards(c)) /\ cmd[c].root = p)
  PROVE  InBin(p)'
<1>1. PICK r \in Apps!Ids : bin[r] # Apps!None /\ cmd[r].root = p
  BY DEF InBin
<1>2. cmd[r].at # "idle"
  BY <1>1 DEF Placed, AppsAssumption
<1>3. cmd'[r].root = p
  BY <1>1, <1>2, StepFrame
<1>4. bin \in [Apps!Ids -> Clones]
  BY DEF AppTypes
<1>5. bin'[r] # Apps!None
  <2>1. CASE r # c
    BY <1>1, <1>4, <2>1 DEF Effect, Begins, Still, Moves, Publishes, Quarantines, Writes, Unpublishes,
       Restores, Discards
  <2>2. CASE r = c
    <3>1. ~Restores(c) /\ ~Discards(c)
      BY <1>1, <2>2
    <3>2. ~Quarantines(c)
      BY <1>1, <2>2 DEF Quarantines, Placed
    <3>3. QED
      BY <1>1, <2>2, <3>1, <3>2 DEF Effect, Begins, Still, Moves, Publishes, Writes, Unpublishes
  <2>3. QED
    BY <2>1, <2>2
<1>6. QED
  BY <1>1, <1>3, <1>5 DEF InBin

\* What EntriesKept says of the paths.
PathKept(p) ==
  /\ EntriesAt(p) # {} => final[p] # Apps!None \/ InBin(p)
  /\ \A e, x \in EntriesAt(p) : e # x => Abandoned(p)

LEMMA PathsKept ==
  ASSUME AppsAssumption, AppTypes, \A d \in Apps!Ids : Placed(d), NEW c \in Apps!Ids, Effect(c),
         "cut" \notin seen', Contends(c) \/ Begins(c), Checked(c) \/ Begins(c), Singles(registry),
         NEW p \in Apps!Paths, PathKept(p)
  PROVE  PathKept(p)'
<1>1. Abandoned(p) => Abandoned(p)'
  BY AbandonedStays
<1>2. Abandoned(p) => InBin(p)
  BY DEF Abandoned, InBin
<1>3. Abandoned(p)' => InBin(p)'
  BY DEF Abandoned, InBin, Apps!Running
<1>4. /\ final \in [Apps!Paths -> Clones] /\ "-" \notin Apps!Paths
      /\ Apps!None \notin Apps!Ids
  BY DEF AppTypes, AppsAssumption
<1>5. Placed(c)
  OBVIOUS
<1>6. CASE registry' = registry
  <2>1. EntriesAt(p)' = EntriesAt(p)
    BY <1>6 DEF EntriesAt
  <2>2. \A e, x \in EntriesAt(p)' : e # x => Abandoned(p)'
    BY <1>1, <2>1 DEF PathKept
  <2>3. ASSUME EntriesAt(p) # {} PROVE final'[p] # Apps!None \/ InBin(p)'
    <3>1. final[p] # Apps!None \/ InBin(p)
      BY <2>3 DEF PathKept
    <3>2. CASE Restores(c) /\ cmd[c].root = p
      <4>1. final'[p] = bin[c] /\ bin[c] # Apps!None
        BY <1>4, <3>2 DEF Restores
      <4>2. QED
        BY <4>1
    <3>3. CASE Discards(c) /\ cmd[c].root = p
      <4>1. Abandoned(p)
        BY <2>3, <3>3 DEF Contends, Discards, Begins
      <4>2. QED
        BY <1>1, <1>3, <4>1
    <3>4. CASE ~((Restores(c) \/ Discards(c)) /\ cmd[c].root = p) /\ InBin(p)
      BY <3>4, BinStays
    <3>5. CASE final[p] # Apps!None /\ ~InBin(p)
      <4>1. CASE Publishes(c)
        <5>1. final'[p] = final[p] \/ final'[p] = c
          BY <1>4, <4>1 DEF Publishes
        <5>2. QED
          BY <1>4, <3>5, <5>1
      <4>2. CASE Quarantines(c)
        <5>1. CASE cmd[c].root = p
          <6>1. bin'[c] # Apps!None
            BY <4>2, <1>4 DEF Quarantines, AppTypes
          <6>2. cmd'[c].root = p
            BY <4>2, <5>1 DEF Quarantines, GoesTo, EndsAs
          <6>3. QED
            BY <6>1, <6>2 DEF InBin
        <5>2. CASE cmd[c].root # p
          <6>1. final'[p] = final[p]
            BY <1>4, <4>2, <5>2 DEF Quarantines
          <6>2. QED
            BY <3>5, <6>1
        <5>3. QED
          BY <5>1, <5>2
      <4>3. CASE Unpublishes(c)
        <5>1. CASE Apps!Path(c) = p
          <6>1. Abandoned(p)
            BY <2>3, <4>3, <5>1 DEF Contends, Unpublishes, Begins
          <6>2. QED
            BY <1>2, <3>5, <6>1
        <5>2. CASE Apps!Path(c) # p
          <6>1. final'[p] = final[p]
            BY <1>4, <4>3, <5>2 DEF Unpublishes
          <6>2. QED
            BY <3>5, <6>1
        <5>3. QED
          BY <5>1, <5>2
      <4>4. CASE Restores(c)
        <5>1. CASE cmd[c].root = p
          BY <3>2, <4>4, <5>1
        <5>2. CASE cmd[c].root # p
          <6>1. final'[p] = final[p]
            BY <1>4, <4>4, <5>2 DEF Restores
          <6>2. QED
            BY <3>5, <6>1
        <5>3. QED
          BY <5>1, <5>2
      <4>5. CASE final' = final
        BY <3>5, <4>5
      <4>6. QED
        BY <4>1, <4>2, <4>3, <4>4, <4>5 DEF Effect, Begins, Still, Moves, Writes, Discards
    <3>6. QED
      BY <3>1, <3>2, <3>3, <3>4, <3>5
  <2>4. QED
    BY <2>1, <2>2, <2>3 DEF PathKept
<1>7. CASE Writes(c)
  <2>1. Checked(c) /\ Contends(c) /\ final' = final
    BY <1>7 DEF Writes, Begins
  <2>2. InBin(p) => InBin(p)'
    <3>1. ~Restores(c) /\ ~Discards(c)
      BY <1>7 DEF Writes, Restores, Discards
    <3>2. QED
      BY <3>1, BinStays
  <2>3. CASE Adding(c) /\ p = Apps!Path(c)
    <3>1. Apps!Kind(c) = "install"
      BY <1>4, <2>3 DEF Adding, Adds, AppsAssumption
    <3>2. final[p] # Apps!None
      BY <1>7, <2>1, <2>3, <3>1 DEF Contends, Writes
    <3>3. EntriesAt(p) # {} => Abandoned(p)
      BY <1>7, <2>1, <2>3, <3>1 DEF Contends, Writes
    <3>4. EntriesAt(p)' \subseteq EntriesAt(p) \cup {Apps!Entry(c)}
      BY <2>3 DEF Adding, EntriesAt
    <3>5. QED
      BY <1>1, <2>1, <3>2, <3>3, <3>4 DEF PathKept
  <2>4. CASE Adding(c) /\ p # Apps!Path(c)
    <3>1. EntriesAt(p)' = EntriesAt(p)
      BY <2>4 DEF Adding, EntriesAt, Apps!Entry, Apps!Path
    <3>2. QED
      BY <1>1, <2>1, <2>2, <3>1 DEF PathKept
  <2>5. CASE Removing(c)
    <3>1. EntriesAt(p)' \subseteq EntriesAt(p)
      BY <2>5 DEF Removing, EntriesAt
    <3>2. QED
      BY <1>1, <2>1, <2>2, <3>1 DEF PathKept
  <2>6. CASE Switching(c)
    <3>1. PICK e \in DOMAIN registry, x \in AppEntries :
            x.path = e.path /\ DOMAIN registry' = (DOMAIN registry \ {e}) \cup {x}
      BY <2>6 DEF Switching
    <3>2. CASE e.path = p
      <4>1. EntriesAt(p)' = (EntriesAt(p) \ {e}) \cup {x} /\ e \in EntriesAt(p)
        BY <3>1, <3>2 DEF EntriesAt
      <4>2. QED
        BY <1>1, <2>1, <2>2, <4>1 DEF PathKept
    <3>3. CASE e.path # p
      <4>1. EntriesAt(p)' = EntriesAt(p)
        BY <3>1, <3>3 DEF EntriesAt
      <4>2. QED
        BY <1>1, <2>1, <2>2, <4>1 DEF PathKept
    <3>4. QED
      BY <3>2, <3>3
  <2>7. QED
    BY <1>7, <2>1, <2>3, <2>4, <2>5, <2>6, WrittenForms
<1>8. QED
  BY <1>6, <1>7 DEF Effect, Begins, Still, Moves, Publishes, Quarantines, Unpublishes, Restores, Discards

LEMMA ContendsKept ==
  ASSUME AppsAssumption, AppTypes, \A d \in Apps!Ids : Placed(d), NEW c \in Apps!Ids, Effect(c),
         ~Begins(c), Apps!Running = {c}, "cut" \notin seen', Contends(c), Checked(c), Singles(registry),
         \A p \in Apps!Paths : PathKept(p)
  PROVE  Contends(c)'
<1>1. Placed(c) /\ Placed(c)'
  BY PlacesKept
<1>2. /\ final \in [Apps!Paths -> Clones] /\ "-" \notin Apps!Paths /\ Apps!None \notin Apps!Ids
      /\ cmd[c].root \in Apps!Paths \cup {"-"}
  BY DEF AppTypes, AppsAssumption, CmdRecords
<1>3. \A p \in Apps!Paths : Abandoned(p) => Abandoned(p)'
  BY AbandonedStays
<1>4. cmd'[c].root = cmd[c].root
  BY StepFrame DEF Apps!Running
<1>5. Apps!Kind(c)' = Apps!Kind(c) /\ Apps!Path(c)' = Apps!Path(c)
  BY DEF Apps!Kind, Apps!Path
<1>6. ASSUME Apps!Kind(c) = "install" PROVE Contends(c)'
  <2>1. PICK p \in Apps!Paths : p = Apps!Path(c)
    BY <1>6 DEF AppsAssumption
  <2>2. cmd'[c].at # "discard"
    BY <1>1, <1>5, <1>6 DEF Placed
  <2>3. SUFFICES ASSUME cmd'[c].at \in {"publish", "read", "write", "undo"}
                 PROVE  /\ EntriesAt(p)' # {} => Abandoned(p)'
                        /\ cmd'[c].at \in {"read", "write"} => final'[p] # Apps!None
    BY <1>5, <2>1, <2>2 DEF Contends
  <2>4. ~Writes(c) /\ ~Unpublishes(c)
    BY <1>1, <1>2, <1>6, <2>3 DEF Writes, Unpublishes, Handled, GoesTo, EndsAs, Placed
  <2>5. registry' = registry
    BY <2>4 DEF Effect, Begins, Still, Moves, Publishes, Quarantines, Restores, Discards
  <2>6. EntriesAt(p)' = EntriesAt(p)
    BY <2>5 DEF EntriesAt
  <2>7. CASE Advances(c) /\ Still /\ cmd[c].at = "owner"
    <3>1. cmd'[c].at = "publish" /\ Apps!PathFree(c)
      BY <1>6, <2>3, <2>7 DEF Advances, Handled, GoesTo, EndsAs
    <3>2. EntriesAt(p) # {} => InBin(p)
      BY <2>1, <3>1 DEF PathKept, Apps!PathFree
    <3>3. InBin(p) => Abandoned(p)
      <4>1. cmd[c].root # p
        BY <1>1, <1>2, <1>6 DEF Placed
      <4>2. QED
        BY <4>1 DEF InBin, Abandoned
    <3>4. QED
      BY <1>3, <2>6, <3>1, <3>2, <3>3
  <2>8. CASE Advances(c) /\ Still /\ cmd[c].at # "owner"
    <3>1. cmd[c].at \in {"publish", "read", "write"} /\ (cmd'[c].at \in {"read", "write"} => cmd[c].at = "read")
      BY <1>1, <1>6, <2>3, <2>8 DEF Advances, Handled, GoesTo, EndsAs, Placed
    <3>2. QED
      BY <1>3, <1>6, <2>1, <2>6, <2>8, <3>1 DEF Contends, Still
  <2>9. CASE Stops(c) \/ Dies(c)
    BY <2>3, <2>9 DEF Stops, Dies, EndsAs
  <2>10. CASE Publishes(c)
    <3>1. final'[p] # Apps!None
      BY <1>2, <2>1, <2>10 DEF Publishes
    <3>2. QED
      BY <1>3, <1>6, <2>1, <2>6, <2>10, <3>1 DEF Contends, Publishes
  <2>11. CASE Quarantines(c) \/ Restores(c) \/ Discards(c)
    BY <1>1, <1>6, <2>11 DEF Quarantines, Restores, Discards, Placed
  <2>12. QED
    BY <2>4, <2>7, <2>8, <2>9, <2>10, <2>11 DEF Effect, Begins, Moves
<1>7. ASSUME Apps!Kind(c) # "install" PROVE Contends(c)'
  <2>1. SUFFICES ASSUME cmd'[c].at = "discard"
                 PROVE  EntriesAt(cmd[c].root)' # {} => Abandoned(cmd[c].root)'
    BY <1>4, <1>5, <1>7 DEF Contends, EntriesAt, Abandoned, Apps!Running
  <2>2. Writes(c)
    BY <2>1 DEF Effect, Begins, Still, Moves, Publishes, Quarantines, Unpublishes, Restores, Discards,
       Advances, Handled, Stops, Dies, GoesTo, EndsAs
  <2>3. cmd[c].root # "-" /\ Apps!Kind(c) = "remove"
    BY <1>1, <1>4, <1>5, <2>1 DEF Placed
  <2>4. PICK p \in Apps!Paths : p = cmd[c].root
    BY <1>2, <2>3
  <2>5. Removing(c)
    BY <2>2, <2>3, WrittenForms DEF Adding, Switching, Adds
  <2>6. PICK e \in EntriesAt(p) : EntriesAt(p)' \subseteq EntriesAt(p) \ {e}
    BY <2>4, <2>5 DEF Removing, EntriesAt
  <2>7. EntriesAt(p)' # {} => Abandoned(p)
    BY <2>6 DEF PathKept
  <2>8. EntriesAt(p)' # {} => Abandoned(p)'
    BY <1>3, <2>7
  <2>9. EntriesAt(cmd[c].root)' = EntriesAt(p)' /\ Abandoned(cmd[c].root)' = Abandoned(p)'
    BY <1>4, <2>4 DEF EntriesAt, Abandoned
  <2>10. QED
    BY <2>8, <2>9
<1>8. QED
  BY <1>6, <1>7

LEMMA EntriesStay ==
  ASSUME AppsAssumption, AppTypes, \A d \in Apps!Ids : Placed(d), OneAtATime, OneEntryEach, EntriesKept,
         NEW c \in Apps!Ids, Effect(c)
  PROVE  EntriesKept'
<1>1. SUFFICES ASSUME seen' \subseteq {"crash"}
               PROVE  (\A p \in Apps!Paths : PathKept(p)') /\ (\A d \in Apps!Running' : Contends(d)')
  BY DEF EntriesKept, PathKept, EntriesAt, InBin, Abandoned, Apps!Running
<1>2. seen \subseteq {"crash"} /\ "overlap" \notin seen' /\ "cut" \notin seen'
  BY <1>1, StepFrame
<1>3. /\ "overlap" \notin seen /\ Apps!Running' \subseteq {c} /\ (~Begins(c) => Apps!Running = {c})
  BY <1>2, AloneAtWork
<1>4. Singles(registry) /\ (Checked(c) \/ Begins(c)) /\ (Contends(c) \/ Begins(c))
  BY <1>2, <1>3 DEF OneEntryEach, EntriesKept
<1>5. \A p \in Apps!Paths : PathKept(p)
  BY <1>2 DEF EntriesKept, PathKept
<1>6. \A p \in Apps!Paths : PathKept(p)'
  BY <1>2, <1>4, <1>5, PathsKept
<1>7. Contends(c)'
  <2>1. CASE Begins(c)
    BY <2>1 DEF Begins, Contends, Adds
  <2>2. CASE ~Begins(c)
    BY <1>2, <1>3, <1>4, <1>5, <2>2, ContendsKept
  <2>3. QED
    BY <2>1, <2>2
<1>8. \A d \in Apps!Running' : Contends(d)'
  <2>1. ASSUME NEW d \in Apps!Running', d = c PROVE Contends(d)'
    BY <1>7, <2>1
  <2>2. QED
    BY <1>3, <2>1
<1>9. QED
  BY <1>6, <1>8

-----------------------------------------------------------------------------
\* One command after the other.

\* A command on its way when another step of it is made, without mishaps.
LEMMA DoneKept ==
  ASSUME AppsAssumption, AppTypes, NEW c \in Apps!Ids, Effect(c), ~Begins(c), seen' = {},
         Placed(c), Placed(c)', Checked(c), Singles(registry), Done(c), c \in Apps!Running',
         before.final \in [Apps!Paths -> Clones]
  PROVE  Done(c)'
<1>1. /\ final \in [Apps!Paths -> Clones] /\ "-" \notin Apps!Paths /\ Apps!None \notin Apps!Ids
      /\ cmd[c].root \in Apps!Paths \cup {"-"}
      /\ Apps!Kind(c) = "install" => Apps!Path(c) \in Apps!Paths
  BY DEF AppTypes, AppsAssumption, CmdRecords
<1>2. Apps!Kind(c)' = Apps!Kind(c) /\ Apps!Path(c)' = Apps!Path(c)
  BY DEF Apps!Kind, Apps!Path
<1>3. before' = before
  BY DEF Effect
<1>4. CASE Advances(c) /\ Still
  <2>1. registry' = registry /\ final' = final /\ bin' = bin
    BY <1>4 DEF Still
  <2>2. cmd'[c].root = cmd[c].root /\ cmd'[c].published = cmd[c].published
    BY <1>4 DEF Advances, Handled, GoesTo, EndsAs, Apps!Running, Apps!Ended
  <2>3. CASE cmd[c].at \in {"prepare", "recheck", "owner"}
    <3>1. \/ cmd'[c].at \in {"recheck", "owner", "quarantine", "publish", "sweep"}
          \/ cmd'[c].at = "read" /\ Apps!Kind(c) # "install" /\ (Apps!Kind(c) = "remove" => cmd[c].root = "-")
      BY <1>4, <2>3 DEF Advances, Handled, GoesTo, EndsAs, Apps!Running, Apps!Ended
    <3>2. QED
      BY <1>2, <1>3, <2>1, <2>2, <2>3, <3>1 DEF Done
  <2>4. CASE cmd[c].at \in {"publish", "quarantine"}
    <3>1. cmd'[c].at \in {"undo", "sweep"} /\ (cmd[c].at = "publish" => cmd[c].published = FALSE)
      BY <1>4, <2>4 DEF Advances, Handled, GoesTo, EndsAs, Apps!Running, Apps!Ended, Placed, AppTypes,
            CmdRecords
    <3>2. cmd[c].at = "publish" => Apps!Kind(c) = "install"
      BY DEF Placed
    <3>3. cmd[c].at = "quarantine" => cmd'[c].at # "undo"
      BY <1>4 DEF Advances, Handled, GoesTo, EndsAs
    <3>4. QED
      BY <1>2, <1>3, <2>1, <2>2, <2>4, <3>1, <3>2, <3>3 DEF Done
  <2>5. CASE cmd[c].at \in {"read", "write"}
    <3>1. \/ cmd'[c].at = "write"
          \/ cmd'[c].at = "undo" /\ Apps!Kind(c) \in {"install", "remove"}
      BY <1>4, <2>5 DEF Advances, Handled, GoesTo, EndsAs, Apps!Running, Apps!Ended
    <3>2. CASE Apps!Kind(c) = "install"
      BY <1>2, <1>3, <2>1, <2>2, <2>5, <3>1, <3>2 DEF Done, Only
    <3>3. CASE Apps!Kind(c) = "remove"
      BY <1>2, <1>3, <2>1, <2>2, <2>5, <3>1, <3>3 DEF Done, Only
    <3>4. CASE Apps!Kind(c) \notin {"install", "remove"}
      BY <1>2, <1>3, <2>1, <2>2, <2>5, <3>1, <3>4 DEF Done
    <3>5. QED
      BY <3>2, <3>3, <3>4
  <2>6. CASE cmd[c].at = "undo"
    <3>1. cmd'[c].at = "sweep" /\ Apps!Kind(c) = "install" /\ ~Apps!ToUndo(c)
      BY <1>4, <2>6 DEF Advances, GoesTo
    <3>2. final = before.final
      <4>1. CASE ~cmd[c].published
        BY <2>6, <3>1, <4>1 DEF Done
      <4>2. CASE cmd[c].published
        <5>1. final[Apps!Path(c)] = c
          BY <1>1, <2>6, <3>1, <4>2 DEF Done, Only
        <5>2. QED
          BY <1>1, <3>1, <4>2, <5>1 DEF Apps!ToUndo
      <4>3. QED
        BY <4>1, <4>2
    <3>3. QED
      BY <1>2, <1>3, <2>1, <2>2, <2>6, <3>1, <3>2 DEF Done
  <2>7. QED
    BY <1>4, <2>3, <2>4, <2>5, <2>6 DEF Advances
<1>5. CASE Stops(c) \/ Dies(c)
  BY <1>5 DEF Stops, Dies, EndsAs, Apps!Running, Apps!Ended
<1>6. CASE Publishes(c)
  <2>1. /\ cmd'[c].at = "read" /\ cmd'[c].published = TRUE /\ registry' = registry
        /\ Apps!Kind(c) = "install" /\ final = before.final /\ registry = before.registry
    BY <1>6 DEF Publishes, Placed, Done
  <2>2. final' = [before.final EXCEPT ![Apps!Path(c)] = c] /\ before.final[Apps!Path(c)] = Apps!None
    BY <1>6, <2>1 DEF Publishes, Apps!PathFree
  <2>3. QED
    BY <1>2, <1>3, <2>1, <2>2 DEF Done, Only
<1>7. CASE Quarantines(c)
  <2>1. /\ cmd'[c].at = "read" /\ cmd'[c].root = cmd[c].root /\ registry' = registry
        /\ Apps!Kind(c) = "remove" /\ final = before.final /\ registry = before.registry
        /\ cmd[c].root # "-"
    BY <1>7 DEF Quarantines, GoesTo, Placed, Done
  <2>2. bin'[c] = before.final[cmd[c].root] /\ before.final[cmd[c].root] # Apps!None
    BY <1>7, <2>1 DEF Quarantines, AppTypes
  <2>3. final' = [before.final EXCEPT ![cmd[c].root] = Apps!None]
    BY <1>7, <2>1 DEF Quarantines
  <2>4. QED
    BY <1>2, <1>3, <2>1, <2>2, <2>3 DEF Done, Only
<1>8. CASE Writes(c)
  <2>1. registry' # registry /\ registry = before.registry
    BY <1>8, WrittenForms DEF Writes, Done
  <2>2. final' = final /\ bin' = bin /\ cmd[c].at = "write"
    BY <1>8 DEF Writes
  <2>3. /\ cmd'[c].root = cmd[c].root /\ cmd'[c].published = cmd[c].published
        /\ \/ Apps!Kind(c) = "install" /\ cmd'[c].at = "tidy"
           \/ bin[c] # Apps!None /\ cmd'[c].at = "discard"
    BY <1>8 DEF Writes, GoesTo, EndsAs, Apps!Running, Apps!Ended
  <2>4. cmd'[c].at = "tidy" => Apps!Kind(c) = "install"
    BY <2>3
  <2>5. cmd'[c].at = "discard" => Apps!Kind(c) = "remove"
    BY <1>2 DEF Placed
  <2>6. CASE cmd'[c].at = "tidy"
    <3>1. Apps!Kind(c) = "install"
      BY <2>4, <2>6
    <3>2. QED
      BY <1>2, <1>3, <2>1, <2>2, <2>3, <2>6, <3>1 DEF Done, Only
  <2>7. CASE cmd'[c].at = "discard"
    <3>1. Apps!Kind(c) = "remove"
      BY <2>5, <2>7
    <3>2. QED
      BY <1>2, <1>3, <2>1, <2>2, <2>3, <2>7, <3>1 DEF Done, Only
  <2>8. QED
    BY <2>3, <2>6, <2>7
<1>9. CASE Unpublishes(c)
  <2>1. /\ cmd'[c].at = "sweep" /\ registry' = registry /\ registry = before.registry
        /\ Apps!Kind(c) = "install" /\ cmd[c].published
    BY <1>9 DEF Unpublishes, GoesTo, Done, Apps!ToUndo
  <2>2. final = [before.final EXCEPT ![Apps!Path(c)] = c] /\ before.final[Apps!Path(c)] = Apps!None
    BY <1>9, <2>1 DEF Done, Only, Unpublishes
  <2>3. final' = [final EXCEPT ![Apps!Path(c)] = Apps!None]
    BY <1>9 DEF Unpublishes
  <2>4. final' = before.final
    BY <1>1, <2>1, <2>2, <2>3
  <2>5. QED
    BY <1>2, <1>3, <2>1, <2>4 DEF Done
<1>10. CASE Restores(c) \/ Discards(c)
  BY <1>10 DEF Restores, Discards, EndsAs, Apps!Running, Apps!Ended
<1>11. QED
  BY <1>4, <1>5, <1>6, <1>7, <1>8, <1>9, <1>10 DEF Effect, Moves

\* A command that ends without mishaps.
LEMMA EndTold ==
  ASSUME AppsAssumption, AppTypes, NEW c \in Apps!Ids, Effect(c), ~Begins(c), seen' = {},
         Placed(c), Checked(c), Singles(registry), Done(c), cmd'[c].at \in Apps!Ended, last' = c,
         before.final \in [Apps!Paths -> Clones]
  PROVE  Apps!OldOrNew'
<1>1. /\ final \in [Apps!Paths -> Clones] /\ "-" \notin Apps!Paths /\ Apps!None \notin Apps!Ids
      /\ cmd[c].root \in Apps!Paths \cup {"-"}
      /\ Apps!Kind(c) = "install" => Apps!Path(c) \in Apps!Paths
  BY DEF AppTypes, AppsAssumption, CmdRecords
<1>2. Apps!Kind(c)' = Apps!Kind(c) /\ Apps!Path(c)' = Apps!Path(c)
  BY DEF Apps!Kind, Apps!Path
<1>3. before' = before /\ cmd'[c].root = cmd[c].root
  BY StepFrame DEF Effect, Advances, Stops, Dies, Moves, Publishes, Quarantines, Writes, Unpublishes,
     Restores, Discards, Apps!Running, Apps!Ended
<1>4. ASSUME cmd'[c].at \in {"failed", "same"}, registry' = before.registry, final' = before.final
      PROVE  Apps!OldOrNew'
  BY <1>3, <1>4 DEF Apps!OldOrNew
<1>5. CASE Advances(c) /\ Still
  <2>1. cmd'[c].at = "failed" /\ Apps!Kind(c) # "install"
    BY <1>5 DEF Advances, Handled, GoesTo, EndsAs, Apps!Ended
  <2>2. registry' = before.registry /\ final' = before.final
    BY <1>5, <2>1 DEF Advances, Handled, GoesTo, EndsAs, Apps!Ended, Still, Done, Placed
  <2>3. QED
    BY <1>4, <2>1, <2>2
<1>6. CASE Stops(c) /\ Still
  <2>1. CASE cmd[c].at = "write"
    <3>1. Apps!Kind(c) \notin {"install", "remove"} /\ cmd'[c].at = "same"
      BY <1>6, <2>1, EditChanges DEF Stops, EndsAs
    <3>2. QED
      BY <1>4, <1>6, <2>1, <3>1 DEF Done, Still
  <2>2. CASE cmd[c].at = "undo" /\ Apps!Kind(c) = "install"
    <3>1. cmd'[c].at = "residue" /\ cmd[c].published
      BY <1>6, <2>2 DEF Stops, EndsAs, Apps!ToUndo
    <3>2. registry' = before.registry /\ final' = [before.final EXCEPT ![Apps!Path(c)] = c]
      BY <1>6, <2>2, <3>1 DEF Done, Still, Only
    <3>3. QED
      BY <1>1, <1>2, <1>3, <2>2, <3>1, <3>2 DEF Apps!OldOrNew
  <2>3. CASE cmd[c].at = "undo" /\ Apps!Kind(c) = "remove" /\ bin[c] = Apps!None
    <3>1. cmd'[c].at = "failed" /\ registry' = before.registry /\ final' = before.final
      BY <1>6, <2>3 DEF Stops, EndsAs, Done, Still
    <3>2. QED
      BY <1>4, <3>1
  <2>4. CASE cmd[c].at = "undo" /\ Apps!Kind(c) = "remove" /\ bin[c] # Apps!None
    <3>1. cmd'[c].at = "residue" /\ registry' = before.registry /\ bin'[c] # Apps!None
      BY <1>6, <2>4 DEF Stops, EndsAs, Done, Still
    <3>2. cmd[c].root # "-" /\ final' = [before.final EXCEPT ![cmd[c].root] = Apps!None]
      BY <1>6, <2>4 DEF Placed, Done, Still, Only
    <3>3. QED
      BY <1>1, <1>2, <1>3, <2>4, <3>1, <3>2 DEF Apps!OldOrNew
  <2>5. CASE cmd[c].at = "sweep"
    <3>1. cmd'[c].at = "failed" /\ registry' = before.registry /\ final' = before.final
      BY <1>6, <2>5 DEF Stops, EndsAs, Done, Still
    <3>2. QED
      BY <1>4, <3>1
  <2>6. CASE cmd[c].at = "tidy"
    <3>1. /\ cmd'[c].at = "done" /\ registry' # before.registry /\ Apps!Kind(c) = "install"
          /\ final' = [before.final EXCEPT ![Apps!Path(c)] = c]
      BY <1>6, <2>6 DEF Stops, EndsAs, Placed, Done, Still, Only
    <3>2. QED
      BY <1>1, <1>2, <1>3, <3>1 DEF Apps!OldOrNew
  <2>7. CASE cmd[c].at = "discard"
    <3>1. /\ cmd'[c].at = "leftover" /\ registry' # before.registry /\ Apps!Kind(c) = "remove"
          /\ cmd[c].root # "-" /\ bin'[c] # Apps!None
          /\ final' = [before.final EXCEPT ![cmd[c].root] = Apps!None]
      BY <1>6, <2>7 DEF Stops, EndsAs, Placed, Done, Still, Only
    <3>2. QED
      BY <1>1, <1>2, <1>3, <3>1 DEF Apps!OldOrNew
  <2>8. QED
    BY <1>6, <2>1, <2>2, <2>3, <2>4, <2>5, <2>6, <2>7 DEF Stops
<1>7. CASE Dies(c)
  BY <1>7 DEF Dies
<1>8. CASE Publishes(c) \/ Quarantines(c) \/ Unpublishes(c)
  BY <1>8 DEF Publishes, Quarantines, Unpublishes, GoesTo, Apps!Ended
<1>9. CASE Writes(c)
  <2>1. registry' # before.registry
    BY <1>9, WrittenForms DEF Writes, Done
  <2>2. cmd'[c].at = "done" /\ Apps!Kind(c) # "install" /\ bin[c] = Apps!None /\ final' = final
    BY <1>9 DEF Writes, GoesTo, EndsAs, Apps!Ended
  <2>3. final' = before.final /\ (Apps!Kind(c) = "remove" => cmd[c].root = "-")
    BY <1>9, <2>2 DEF Writes, Done
  <2>4. QED
    BY <1>2, <1>3, <2>1, <2>2, <2>3 DEF Apps!OldOrNew
<1>10. CASE Restores(c)
  <2>1. /\ cmd'[c].at = "failed" /\ registry' = before.registry /\ cmd[c].root # "-"
        /\ bin[c] = before.final[cmd[c].root]
        /\ final = [before.final EXCEPT ![cmd[c].root] = Apps!None]
        /\ final' = [final EXCEPT ![cmd[c].root] = bin[c]]
    BY <1>10 DEF Restores, EndsAs, Placed, Done, Only
  <2>2. final' = before.final
    BY <1>1, <2>1
  <2>3. QED
    BY <1>4, <2>1, <2>2
<1>11. CASE Discards(c)
  <2>1. /\ cmd'[c].at = "done" /\ registry' # before.registry /\ Apps!Kind(c) = "remove"
        /\ cmd[c].root # "-" /\ final' = [before.final EXCEPT ![cmd[c].root] = Apps!None]
    BY <1>11 DEF Discards, EndsAs, Placed, Done, Only
  <2>2. QED
    BY <1>1, <1>2, <1>3, <2>1 DEF Apps!OldOrNew
<1>12. QED
  BY <1>5, <1>6, <1>7, <1>8, <1>9, <1>10, <1>11 DEF Effect, Moves

LEMMA ToldStays ==
  ASSUME AppsAssumption, AppTypes, AppTypes', \A d \in Apps!Ids : Placed(d) /\ Placed(d)',
         OneAtATime, OneAtATime', OneEntryEach, Told, NEW c \in Apps!Ids, Effect(c)
  PROVE  Told'
<1>1. SUFFICES ASSUME seen' = {}
               PROVE  /\ before'.final \in [Apps!Paths -> Clones]
                      /\ \A d \in Apps!Running' : Done(d)'
                      /\ last' # Apps!None => last' \in Apps!Ids /\ Apps!OldOrNew'
  BY DEF Told, Apps!Running
<1>2. seen = {} /\ "overlap" \notin seen /\ "overlap" \notin seen'
  BY <1>1, StepFrame
<1>3. /\ Apps!Running' \subseteq {c} /\ (~Begins(c) => Apps!Running = {c})
  BY <1>2, AloneAtWork
<1>4. Singles(registry) /\ (~Begins(c) => Checked(c) /\ Done(c)) /\ before.final \in [Apps!Paths -> Clones]
  BY <1>2, <1>3 DEF OneEntryEach, Told
<1>5. CASE Begins(c)
  <2>1. before' = [registry |-> registry, final |-> final] /\ last' = Apps!None
    BY <1>1, <1>5 DEF Begins
  <2>2. registry' = before'.registry /\ final' = before'.final /\ before'.final \in [Apps!Paths -> Clones]
    <3>1. registry' = registry /\ final' = final
      BY <1>5 DEF Begins, Still
    <3>2. before'.registry = registry /\ before'.final = final
      BY <2>1
    <3>3. QED
      BY <3>1, <3>2 DEF AppTypes
  <2>3. Apps!Kind(c)' = Apps!Kind(c)
    BY DEF Apps!Kind
  <2>4. c \in Apps!Running' => Done(c)'
    <3>1. c \in Apps!Running' =>
            \/ cmd'[c].at \in {"prepare", "recheck"}
            \/ cmd'[c].at = "read" /\ Apps!Kind(c) \notin {"install", "remove"}
      BY <1>5 DEF Begins, Apps!Running, Apps!Ended, Adds
    <3>2. QED
      BY <2>2, <2>3, <3>1 DEF Done
  <2>5. \A d \in Apps!Running' : Done(d)'
    <3>1. ASSUME NEW d \in Apps!Running', d = c PROVE Done(d)'
      BY <2>4, <3>1
    <3>2. QED
      BY <1>3, <3>1
  <2>6. QED
    BY <2>1, <2>2, <2>5
<1>6. CASE ~Begins(c)
  <2>1. before' = before
    BY <1>6 DEF Effect
  <2>2. c \in Apps!Running' => Done(c)'
    BY <1>1, <1>4, <1>6, DoneKept
  <2>3. \A d \in Apps!Running' : Done(d)'
    <3>1. ASSUME NEW d \in Apps!Running', d = c PROVE Done(d)'
      BY <2>2, <3>1
    <3>2. QED
      BY <1>3, <3>1
  <2>4. ASSUME last' # Apps!None PROVE last' \in Apps!Ids /\ Apps!OldOrNew'
    <3>1. Apps!Running' = {}
      BY <1>2, <2>4 DEF OneAtATime
    <3>2. cmd'[c].at \in Apps!Ended
      BY <3>1, StepFrame DEF Apps!Running, Apps!Ended
    <3>3. last' = c
      <4>1. last = Apps!None
        BY <1>2, <1>3, <1>6 DEF OneAtATime
      <4>2. last' \in {last, c, Apps!None}
        BY <1>6 DEF Effect, Advances, Handled, Stops, Dies, Moves, Publishes, Quarantines, Writes,
              Unpublishes,
           Restores, Discards, GoesTo, EndsAs
      <4>3. QED
        BY <2>4, <4>1, <4>2
    <3>4. Apps!OldOrNew'
      BY <1>1, <1>4, <1>6, <3>2, <3>3, EndTold
    <3>5. QED
      BY <3>3, <3>4
  <2>5. QED
    BY <1>4, <2>1, <2>3, <2>4
<1>7. QED
  BY <1>5, <1>6

LEMMA AppsStart ==
  ASSUME AppsAssumption, Apps!Init
  PROVE  AppInv
<1>1. Apps!Running = {}
  BY DEF Apps!Init, Apps!Running, Apps!Gone
<1>2. \A a \in Installed :
        /\ Apps!Older(a) \in AppEntries
        /\ Apps!Older(a).package = a.package /\ Apps!Older(a).path = a.path
  BY DEF AppsAssumption, Apps!Older, AppEntries, Packages
<1>3. /\ DOMAIN registry = {Apps!Older(a) : a \in Installed} /\ \A e \in DOMAIN registry : registry[e] = 1
      /\ registry \in Documents
  <2>1. PICK es \in SUBSET AppEntries : es = {Apps!Older(a) : a \in Installed}
    BY <1>2
  <2>2. registry = [e \in es |-> 1]
    BY <2>1 DEF Apps!Init
  <2>3. registry \in [es -> {1, 2}]
    BY <2>2
  <2>4. QED
    BY <2>1, <2>2, <2>3 DEF Documents
<1>4. AppTypes
  <2>1. final \in [Apps!Paths -> Clones] /\ bin \in [Apps!Ids -> Clones]
    BY DEF Apps!Init, Clones
  <2>2. Apps!Gone("idle", "-") \in CmdRecords
    BY DEF Apps!Gone, CmdRecords, AppSteps
  <2>3. cmd \in [Apps!Ids -> CmdRecords]
    BY <2>2 DEF Apps!Init
  <2>4. QED
    BY <1>3, <2>1, <2>3 DEF AppTypes
<1>5. \A c \in Apps!Ids : cmd[c].at = "idle" /\ cmd[c].root = "-" /\ cmd[c].published = FALSE /\ bin[c] = Apps!None
  BY DEF Apps!Init, Apps!Gone
<1>6. \A c \in Apps!Ids : Placed(c)
  BY <1>5 DEF Placed
<1>7. OneAtATime /\ PublishedKept
  BY <1>1, <1>5 DEF OneAtATime, PublishedKept, Holds
<1>8. \A e, x \in DOMAIN registry : e.package = x.package \/ (e.path = x.path /\ e.path # "-") => e = x
  BY <1>2, <1>3 DEF AppsAssumption
<1>9. OneEntryEach
  BY <1>1, <1>3, <1>8 DEF OneEntryEach, Singles
<1>10. EntriesKept
  <2>1. "-" \notin Apps!Paths
    BY DEF AppsAssumption
  <2>2. ASSUME NEW p \in Apps!Paths, EntriesAt(p) # {} PROVE final[p] # Apps!None
    <3>1. PICK a \in Installed : a.path = p
      BY <1>2, <1>3, <2>2 DEF EntriesAt
    <3>2. final[p] = "old"
      BY <3>1 DEF Apps!Init
    <3>3. QED
      BY <3>2 DEF Apps!None
  <2>3. ASSUME NEW p \in Apps!Paths, NEW e \in EntriesAt(p), NEW x \in EntriesAt(p) PROVE e = x
    BY <1>8, <2>1 DEF EntriesAt
  <2>4. QED
    BY <1>1, <2>2, <2>3 DEF EntriesKept
<1>11. Told
  <2>1. before.final = final /\ last = Apps!None
    BY DEF Apps!Init
  <2>2. QED
    BY <1>1, <1>4, <2>1 DEF Told, AppTypes
<1>12. QED
  BY <1>4, <1>6, <1>7, <1>9, <1>10, <1>11 DEF AppInv

LEMMA AppsStep ==
  ASSUME AppsAssumption, AppInv, [Apps!Next]_Apps!vars
  PROVE  AppInv'
<1>1. CASE Apps!Next
  <2>1. PICK c \in Apps!Ids : Effect(c)
    BY <1>1, StepEffect DEF AppInv
  <2>2. AppTypes' /\ (\A d \in Apps!Ids : Placed(d)') /\ OneAtATime'
    BY <2>1, TypesKept, PlacesKept, OneAtATimeKept DEF AppInv
  <2>3. PublishedKept' /\ OneEntryEach' /\ EntriesKept'
    BY <2>1, PublishedStays, OneEntryStays, EntriesStay DEF AppInv
  <2>4. Told'
    BY <2>1, <2>2, ToldStays DEF AppInv
  <2>5. QED
    BY <2>2, <2>3, <2>4 DEF AppInv
<1>2. CASE UNCHANGED Apps!vars
  <2>1. /\ registry' = registry /\ final' = final /\ bin' = bin /\ cmd' = cmd
        /\ before' = before /\ last' = last /\ seen' = seen
    BY <1>2 DEF Apps!vars
  <2>2. AppTypes' /\ (\A c \in Apps!Ids : Placed(c)') /\ OneAtATime'
    BY <2>1 DEF AppInv, AppTypes, Placed, OneAtATime, Apps!Running
  <2>3. PublishedKept' /\ OneEntryEach'
    BY <2>1 DEF AppInv, PublishedKept, Holds, Removed, OneEntryEach, Checked, Mine, Singles, Apps!Running
  <2>4. EntriesKept'
    BY <2>1 DEF AppInv, EntriesKept, EntriesAt, InBin, Abandoned, Contends, Apps!Running
  <2>5. Apps!OldOrNew' = Apps!OldOrNew /\ Apps!Running' = Apps!Running
    BY <2>1 DEF Apps!OldOrNew, Apps!Running
  <2>6. \A c \in Apps!Ids : Done(c)' = Done(c)
    BY <2>1 DEF Done, Only
  <2>7. Told'
    BY <2>1, <2>5, <2>6 DEF AppInv, Told, Apps!Running
  <2>8. QED
    BY <2>2, <2>3, <2>4, <2>7 DEF AppInv
<1>3. QED
  BY <1>1, <1>2

LEMMA AppsSoundOfInv ==
  ASSUME AppsAssumption, AppInv
  PROVE  AppsSound
<1>1. Apps!OldOrNew
  BY DEF AppInv, Told, Apps!OldOrNew
<1>2. Apps!OnePackage
  BY SinglesReadable DEF AppInv, OneEntryEach, Apps!OnePackage
<1>3. Apps!ClonesKept
  <2>1. SUFFICES ASSUME seen \subseteq {"crash"}, NEW e \in DOMAIN registry, e.path # "-"
                 PROVE  final[e.path] # Apps!None \/ \E c \in Apps!Ids : bin[c] # Apps!None /\ cmd[c].root = e.path
    BY DEF Apps!ClonesKept
  <2>2. e \in AppEntries
    BY DocumentEntries DEF AppInv, AppTypes
  <2>3. PICK p \in Apps!Paths : p = e.path
    BY <2>1, <2>2 DEF AppEntries
  <2>4. EntriesAt(p) # {}
    BY <2>3 DEF EntriesAt
  <2>5. final[p] # Apps!None \/ InBin(p)
    BY <2>1, <2>4 DEF AppInv, EntriesKept
  <2>6. QED
    BY <2>3, <2>5 DEF InBin
<1>4. Apps!TakenByRemovals
  BY DEF AppInv, PublishedKept, Holds, Removed, Apps!TakenByRemovals
<1>5. QED
  BY <1>1, <1>2, <1>3, <1>4 DEF AppsSound, Apps!AppsSound, Apps!CommandsAtomic, Apps!ClonesSafe

\* For every set of commands and of apps installed before, and however many run side by side, are cut off or
\* die: one after the other they leave the old or the new state, only rivals can register a package twice, and
\* no clone is lost to a crash or a rival (install.py, store.py, and the transactions of commands/app).
THEOREM AppsAreSound == ASSUME AppsAssumption PROVE Apps!Spec => []AppsSound
<1>1. Apps!Init => AppInv
  BY AppsStart
<1>2. AppInv /\ [Apps!Next]_Apps!vars => AppInv'
  BY AppsStep
<1>3. AppInv => AppsSound
  BY AppsSoundOfInv
<1>4. QED
  BY <1>1, <1>2, <1>3, PTL DEF Apps!Spec
=============================================================================
