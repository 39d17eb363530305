---------------------------- MODULE ToolsProofs ----------------------------
(***************************************************************************)
(* Theorems of Operations, for every set of identities and tasks, every    *)
(* nesting of handlers and every bound, and of McpRuntime, for any number  *)
(* of apps.                                                                *)
(***************************************************************************)
EXTENDS MCTools, SequenceTheorems, FiniteSetTheorems, TLAPS

-----------------------------------------------------------------------------
\* The inductive invariant.

Frames == [id : Ids, at : Places, result : Statuses \cup {"none"}, nested : BOOLEAN]

Types ==
  /\ requested \in [Ids -> {"none", "resolved", "rejected"}]
  /\ receipt \in [Ids -> Statuses \cup {"none"}]
  /\ frames \in [Tasks -> Seq(Frames)]
  /\ owner \in [Ids -> Tasks \cup {NoId}]
  /\ now \in 0..MaxTime
  /\ effects \subseteq Ids
  /\ entries \in [Ids -> Nat]
  /\ answers \subseteq [id : Ids, status : Statuses]

\* A call that does not wait holds its slot and no other slot is held; only the innermost call of a task
\* does anything but run its handler, and no task asks twice for a slot.
Stacks ==
  \A t \in Tasks :
    /\ \A n \in 1..Len(frames[t]) :
         /\ (frames[t][n].at # "waiting") = (owner[frames[t][n].id] = t)
         /\ n < Len(frames[t]) => frames[t][n].at = "running"
    /\ \A m, n \in 1..Len(frames[t]) : frames[t][m].id = frames[t][n].id => m = n
    /\ \A i \in Ids : owner[i] = t => \E n \in 1..Len(frames[t]) : frames[t][n].id = i

\* What the holder of a slot knows of its identity at each place.
Progress(f) ==
  /\ f.at \in {"request", "execute", "running", "record"} => receipt[f.id] = "none"
  /\ f.at = "request" => requested[f.id] = "none"
  /\ f.at \in {"execute", "running"} => requested[f.id] = "resolved"
  /\ f.at = "execute" /\ Kind[f.id] = "command" => entries[f.id] = 0
  /\ f.at = "running" => entries[f.id] > 0
  /\ f.at = "record" =>
       /\ f.result \in Statuses
       /\ f.result = "succeeded" /\ IsCommand(f.id) => f.id \in effects
       /\ f.result = "failed" /\ Kind[f.id] = "command" => f.id \notin effects

HoldersProgress ==
  \A t \in Tasks : \A n \in 1..Len(frames[t]) : Progress(frames[t][n])

\* Effects come from handlers, and only arguments that are invalid are rejected.
Causes ==
  \A i \in Ids :
    /\ i \in effects => entries[i] > 0
    /\ requested[i] = "rejected" => Kind[i] = "invalid"

IInv ==
  /\ Types /\ Stacks /\ HoldersProgress /\ Causes
  /\ EnteredOnce /\ ReceiptTrue /\ OneAnswer

-----------------------------------------------------------------------------
\* Stacks of calls.

\* The places of a stack and the innermost one.
LEMMA StackTypes ==
  ASSUME Types, NEW t \in Tasks
  PROVE  /\ frames[t] \in Seq(Frames)
         /\ Len(frames[t]) \in Nat
         /\ DOMAIN frames[t] = 1..Len(frames[t])
         /\ \A n \in 1..Len(frames[t]) : frames[t][n] \in Frames
         /\ frames[t] # <<>> => /\ Len(frames[t]) \in 1..Len(frames[t])
                                /\ Top(t) \in Frames
                                /\ Top(t) = frames[t][Len(frames[t])]
BY EmptySeq DEF Types, Top

\* Replacing the innermost call leaves all other calls alone.
LEMMA TopReplaced ==
  ASSUME Types, NEW t \in Tasks, frames[t] # <<>>, NEW g \in Frames, Replace(t, g)
  PROVE  /\ frames' \in [Tasks -> Seq(Frames)]
         /\ \A u \in Tasks : Len(frames'[u]) = Len(frames[u])
         /\ \A u \in Tasks : \A n \in 1..Len(frames[u]) :
              frames'[u][n] = IF u = t /\ n = Len(frames[t]) THEN g ELSE frames[u][n]
<1> DEFINE top == Len(frames[t])
           new == [frames[t] EXCEPT ![top] = g]
<1>1. frames[t] \in Seq(Frames) /\ top \in 1..top
  BY StackTypes
<1>2. /\ new \in Seq(Frames)
      /\ Len(new) = top
      /\ \A n \in 1..top : new[n] = IF n = top THEN g ELSE frames[t][n]
  BY <1>1, ExceptSeq
<1>3. frames' = [frames EXCEPT ![t] = new]
  BY DEF Replace
<1> HIDE DEF new
<1>4. \A u \in Tasks : frames'[u] = IF u = t THEN new ELSE frames[u]
  BY <1>3 DEF Types
<1>5. QED
  BY <1>2, <1>3, <1>4 DEF Types

\* Returning from the innermost call leaves all other calls alone.
LEMMA TopRemoved ==
  ASSUME Types, NEW t \in Tasks, frames[t] # <<>>, frames' = [frames EXCEPT ![t] = Front(t)]
  PROVE  /\ frames' \in [Tasks -> Seq(Frames)]
         /\ \A u \in Tasks : Len(frames'[u]) = IF u = t THEN Len(frames[t]) - 1 ELSE Len(frames[u])
         /\ \A u \in Tasks : \A n \in 1..Len(frames'[u]) :
              /\ n \in 1..Len(frames[u])
              /\ ~(u = t /\ n = Len(frames[t]))
              /\ frames'[u][n] = frames[u][n]
<1> DEFINE top == Len(frames[t])
<1>1. frames[t] \in Seq(Frames) /\ top \in Nat /\ top \in 1..top
      /\ \A n \in 1..top : frames[t][n] \in Frames
  BY StackTypes
<1>2. /\ Front(t) \in Seq(Frames)
      /\ Len(Front(t)) = top - 1
      /\ \A n \in 1..top - 1 : Front(t)[n] = frames[t][n]
  BY <1>1, SubSeqProperties DEF Front
<1>3. \A u \in Tasks : frames'[u] = IF u = t THEN Front(t) ELSE frames[u]
  BY DEF Types
<1>4. frames' \in [Tasks -> Seq(Frames)]
  BY <1>2 DEF Types
<1>5. \A u \in Tasks : Len(frames[u]) \in Nat
  BY StackTypes
<1>6. QED
  BY <1>1, <1>2, <1>3, <1>4, <1>5

\* A slot is held by one call of one task.
LEMMA HolderUnique ==
  ASSUME Types, Stacks,
         NEW t \in Tasks, NEW m \in 1..Len(frames[t]), frames[t][m].at # "waiting",
         NEW u \in Tasks, NEW n \in 1..Len(frames[u]), frames[u][n].at # "waiting",
         frames[t][m].id = frames[u][n].id
  PROVE  t = u /\ m = n
<1>1. frames[t][m] \in Frames /\ frames[u][n] \in Frames
  BY StackTypes
<1>2. owner[frames[t][m].id] = t /\ owner[frames[u][n].id] = u
  BY DEF Stacks
<1>3. QED
  BY <1>2 DEF Stacks

\* What a holder knows outlasts steps that do not touch its identity.
LEMMA SameProgress ==
  ASSUME NEW u \in Tasks, NEW n, Progress(frames[u][n]), frames'[u][n] = frames[u][n],
         LET j == frames[u][n].id
         IN  \/ frames[u][n].at = "waiting"
             \/ /\ receipt'[j] = receipt[j]
                /\ requested'[j] = requested[j]
                /\ entries'[j] = entries[j]
                /\ j \in effects' <=> j \in effects
  PROVE  Progress(frames[u][n])'
BY DEF Progress

\* Nothing but identity i is touched.
Elsewhere(i) ==
  \A j \in Ids \ {i} :
    /\ receipt'[j] = receipt[j]
    /\ requested'[j] = requested[j]
    /\ entries'[j] = entries[j]
    /\ j \in effects' <=> j \in effects

\* A holder goes on under its slot.
LEMMA HolderGoesOn ==
  ASSUME Types, Stacks, HoldersProgress, NEW t \in Tasks, frames[t] # <<>>,
         NEW g \in Frames, Replace(t, g), UNCHANGED owner,
         Top(t).at # "waiting", g.at # "waiting", g.id = Top(t).id,
         Elsewhere(Top(t).id), Progress(frames[t][Len(frames[t])])'
  PROVE  frames' \in [Tasks -> Seq(Frames)] /\ Stacks' /\ HoldersProgress'
<1> DEFINE top == Len(frames[t])
<1>1. /\ frames' \in [Tasks -> Seq(Frames)]
      /\ \A u \in Tasks : Len(frames'[u]) = Len(frames[u])
      /\ \A u \in Tasks : \A n \in 1..Len(frames[u]) :
           frames'[u][n] = IF u = t /\ n = top THEN g ELSE frames[u][n]
  BY TopReplaced
<1>2. top \in 1..top /\ Top(t) = frames[t][top]
  BY StackTypes
<1>3. \A u \in Tasks : \A n \in 1..Len(frames[u]) :
        frames'[u][n].id = frames[u][n].id
        /\ (frames'[u][n].at = "waiting") = (frames[u][n].at = "waiting")
  BY <1>1, <1>2
<1>4. Stacks'
  <2>1. \A u \in Tasks : \A n \in 1..Len(frames[u]) :
          n < Len(frames[u]) => frames'[u][n].at = frames[u][n].at
    BY <1>1, <1>2
  <2>2. QED
    BY <1>1, <1>3, <2>1 DEF Stacks
<1>5. HoldersProgress'
  <2> SUFFICES ASSUME NEW u \in Tasks, NEW n \in 1..Len(frames'[u])
               PROVE  Progress(frames[u][n])'
    BY DEF HoldersProgress
  <2>1. CASE u = t /\ n = top
    BY <2>1, <1>1
  <2>2. CASE ~(u = t /\ n = top)
    <3>1. n \in 1..Len(frames[u]) /\ frames'[u][n] = frames[u][n] /\ frames[u][n] \in Frames
      BY <1>1, <2>2, StackTypes
    <3>2. frames[u][n].at = "waiting" \/ frames[u][n].id # Top(t).id
      BY <1>2, <2>2, <3>1, HolderUnique
    <3>3. Progress(frames[u][n]) /\ frames[u][n].id \in Ids
      BY <3>1 DEF HoldersProgress, Frames
    <3>4. QED
      BY <3>1, <3>2, <3>3, SameProgress DEF Elsewhere
  <2>3. QED
    BY <2>1, <2>2
<1>6. QED
  BY <1>1, <1>4, <1>5

\* A holder gives its slot back and its caller goes on.
LEMMA HolderLeaves ==
  ASSUME Types, Stacks, HoldersProgress, NEW t \in Tasks, frames[t] # <<>>,
         frames' = [frames EXCEPT ![t] = Front(t)], Release(t),
         Top(t).at # "waiting", Elsewhere(Top(t).id)
  PROVE  /\ frames' \in [Tasks -> Seq(Frames)] /\ owner' \in [Ids -> Tasks \cup {NoId}]
         /\ Stacks' /\ HoldersProgress'
<1> DEFINE top == Len(frames[t])
           i == Top(t).id
<1>1. /\ frames' \in [Tasks -> Seq(Frames)]
      /\ \A u \in Tasks : Len(frames'[u]) = IF u = t THEN top - 1 ELSE Len(frames[u])
      /\ \A u \in Tasks : \A n \in 1..Len(frames'[u]) :
           /\ n \in 1..Len(frames[u])
           /\ ~(u = t /\ n = top)
           /\ frames'[u][n] = frames[u][n]
  BY TopRemoved
<1>2. top \in 1..top /\ Top(t) = frames[t][top] /\ i \in Ids
  BY StackTypes DEF Frames
<1>3. owner' \in [Ids -> Tasks \cup {NoId}] /\ \A j \in Ids : owner'[j] = IF j = i THEN NoId ELSE owner[j]
  BY <1>2 DEF Types, Release
<1>4. NoId \notin Tasks
  BY OperationsAssumption
<1>5. \A u \in Tasks : \A n \in 1..Len(frames'[u]) :
        /\ frames[u][n] \in Frames /\ frames[u][n].id \in Ids
        /\ frames[u][n].at = "waiting" \/ frames[u][n].id # i
  <2> TAKE u \in Tasks
  <2> TAKE n \in 1..Len(frames'[u])
  <2>1. n \in 1..Len(frames[u]) /\ ~(u = t /\ n = top)
    BY <1>1
  <2>2. frames[u][n].at = "waiting" \/ frames[u][n].id # i
    BY <1>2, <2>1, HolderUnique
  <2>3. QED
    BY <2>1, <2>2, StackTypes DEF Frames
<1>6. Stacks'
  <2> SUFFICES ASSUME NEW u \in Tasks
               PROVE  /\ \A n \in 1..Len(frames'[u]) :
                           /\ (frames'[u][n].at # "waiting") = (owner'[frames'[u][n].id] = u)
                           /\ n < Len(frames'[u]) => frames'[u][n].at = "running"
                      /\ \A m, n \in 1..Len(frames'[u]) : frames'[u][m].id = frames'[u][n].id => m = n
                      /\ \A j \in Ids : owner'[j] = u => \E n \in 1..Len(frames'[u]) : frames'[u][n].id = j
    BY DEF Stacks
  <2>1. ASSUME NEW n \in 1..Len(frames'[u])
        PROVE  (frames'[u][n].at # "waiting") = (owner'[frames'[u][n].id] = u)
    <3>1. frames'[u][n] = frames[u][n] /\ frames[u][n].id \in Ids
          /\ (frames[u][n].at = "waiting" \/ frames[u][n].id # i)
          /\ (frames[u][n].at # "waiting") = (owner[frames[u][n].id] = u)
      BY <1>1, <1>5 DEF Stacks
    <3>2. QED
      BY <3>1, <1>3, <1>4
  <2>2. ASSUME NEW n \in 1..Len(frames'[u]), n < Len(frames'[u])
        PROVE  frames'[u][n].at = "running"
    <3>1. n < Len(frames[u])
      BY <1>1, <1>2, <2>2
    <3>2. QED
      BY <1>1, <3>1 DEF Stacks
  <2>3. \A m, n \in 1..Len(frames'[u]) : frames'[u][m].id = frames'[u][n].id => m = n
    BY <1>1 DEF Stacks
  <2>4. ASSUME NEW j \in Ids, owner'[j] = u
        PROVE  \E n \in 1..Len(frames'[u]) : frames'[u][n].id = j
    <3>1. j # i /\ owner[j] = u
      BY <1>3, <1>4, <2>4
    <3>2. PICK n \in 1..Len(frames[u]) : frames[u][n].id = j
      BY <3>1 DEF Stacks
    <3>3. ~(u = t /\ n = top) /\ Len(frames[u]) \in Nat
      BY <1>2, <3>1, <3>2, StackTypes
    <3>4. n \in 1..Len(frames'[u])
      BY <1>1, <1>2, <3>2, <3>3
    <3>5. QED
      BY <1>1, <3>2, <3>4
  <2>5. QED
    BY <2>1, <2>2, <2>3, <2>4
<1>7. HoldersProgress'
  <2> SUFFICES ASSUME NEW u \in Tasks, NEW n \in 1..Len(frames'[u])
               PROVE  Progress(frames[u][n])'
    BY DEF HoldersProgress
  <2>1. Progress(frames[u][n])
    BY <1>1 DEF HoldersProgress
  <2>2. QED
    BY <1>1, <1>5, <2>1, SameProgress DEF Elsewhere
<1>8. QED
  BY <1>1, <1>3, <1>6, <1>7

-----------------------------------------------------------------------------
\* The steps.

LEMMA InitIInv == Init => IInv
<1> SUFFICES ASSUME Init PROVE IInv
  OBVIOUS
<1>1. \A t \in Tasks : frames[t] = <<>> /\ Len(frames[t]) = 0 /\ frames[t] \in Seq(Frames)
  BY EmptySeq DEF Init
<1>2. Types
  BY <1>1, OperationsAssumption DEF Init, Types
<1>3. Stacks /\ HoldersProgress
  BY <1>1, OperationsAssumption DEF Init, Stacks, HoldersProgress
<1>4. QED
  BY <1>2, <1>3 DEF Init, IInv, Causes, EnteredOnce, ReceiptTrue, OneAnswer

\* A call from outside: its task is idle and holds nothing.
LEMMA CallStep ==
  ASSUME IInv, NEW t \in Tasks, NEW i \in Ids, Call(t, i)
  PROVE  IInv'
<1>1. Types /\ Stacks /\ HoldersProgress
  BY DEF IInv
<1>2. Frame(i) \in Frames
  BY DEF Frame, Frames, Places
<1>3. <<Frame(i)>> \in Seq(Frames) /\ Len(<<Frame(i)>>) = 1 /\ <<Frame(i)>>[1] = Frame(i)
  BY <1>2
<1>4. /\ frames[t] = <<>>
      /\ \A u \in Tasks : frames'[u] = IF u = t THEN <<Frame(i)>> ELSE frames[u]
  BY <1>1 DEF Call, Types
<1>5. Types'
  BY <1>1, <1>3, <1>4 DEF Call, Types, journal, history
<1>6. Stacks'
  <2>1. \A u \in Tasks \ {t} : frames'[u] = frames[u]
    BY <1>4
  <2>2. owner[i] # t /\ \A j \in Ids : owner[j] # t
    <3>1. 1..Len(frames[t]) = {}
      BY <1>4
    <3>2. QED
      BY <1>1, <3>1 DEF Stacks
  <2>3. owner' = owner
    BY DEF Call
  <2>4. Frame(i).at = "waiting" /\ Frame(i).id = i
    BY DEF Frame
  <2>5. \A n \in 1..Len(frames'[t]) : n = 1 /\ frames'[t][n] = Frame(i) /\ n = Len(frames'[t])
    <3>1. frames'[t] = <<Frame(i)>>
      BY <1>4
    <3>2. Len(frames'[t]) = 1 /\ frames'[t][1] = Frame(i)
      BY <1>3, <3>1
    <3>3. QED
      BY <3>2
  <2>6. QED
    BY <1>1, <2>1, <2>2, <2>3, <2>4, <2>5 DEF Stacks
<1>7. HoldersProgress'
  <2> SUFFICES ASSUME NEW u \in Tasks, NEW n \in 1..Len(frames'[u])
               PROVE  Progress(frames[u][n])'
    BY DEF HoldersProgress
  <2>1. CASE u = t
    <3>1. frames'[u][n].at = "waiting"
      BY <1>3, <1>4, <2>1 DEF Frame
    <3>2. QED
      BY <3>1 DEF Progress
  <2>2. CASE u # t
    <3>1. n \in 1..Len(frames[u]) /\ frames'[u][n] = frames[u][n] /\ Progress(frames[u][n])
      BY <1>1, <1>4, <2>2 DEF HoldersProgress
    <3>2. QED
      BY <3>1, SameProgress DEF Call, journal, history
  <2>3. QED
    BY <2>1, <2>2
<1>8. QED
  BY <1>5, <1>6, <1>7 DEF IInv, Call, journal, history, Causes, EnteredOnce, ReceiptTrue, OneAnswer

\* A handler dispatches another request: what its task holds stays apart from
\* what it asks for.
LEMMA CallNestedStep ==
  ASSUME IInv, NEW t \in Tasks, CallNested(t)
  PROVE  IInv'
<1> DEFINE top == Len(frames[t])
           i == Top(t).id
           inner == Nested[i]
           g == [Top(t) EXCEPT !.nested = TRUE]
           called == [frames[t] EXCEPT ![top].nested = TRUE]
<1>1. Types /\ Stacks /\ HoldersProgress
  BY DEF IInv
<1>2. /\ frames[t] # <<>> /\ frames[t] \in Seq(Frames) /\ top \in 1..top /\ top \in Nat
      /\ Top(t) = frames[t][top] /\ Top(t) \in Frames /\ Top(t).at = "running" /\ i \in Ids
  BY <1>1, StackTypes DEF CallNested, In, Frames
<1>3. inner \in Ids
  BY <1>2, OperationsAssumption DEF CallNested
<1>4. g \in Frames /\ g.id = i /\ g.at = "running" /\ g.result = Top(t).result
  BY <1>2 DEF Frames
<1>5. called = [frames[t] EXCEPT ![top] = g]
  BY <1>2
<1>6. /\ called \in Seq(Frames) /\ Len(called) = top
      /\ \A n \in 1..top : called[n] = IF n = top THEN g ELSE frames[t][n]
  BY <1>2, <1>4, <1>5, ExceptSeq
<1>7. /\ UNCHANGED <<journal, owner, now, history>>
      /\ frames' = [frames EXCEPT ![t] = IF owner[inner] = t THEN called
                                         ELSE Append(called, Frame(inner))]
  BY DEF CallNested
<1> HIDE DEF called
<1>8. Frame(inner) \in Frames /\ Frame(inner).at = "waiting" /\ Frame(inner).id = inner
  BY <1>3 DEF Frame, Frames, Places
<1>9. /\ Append(called, Frame(inner)) \in Seq(Frames)
      /\ Len(Append(called, Frame(inner))) = top + 1
      /\ \A n \in 1..top : Append(called, Frame(inner))[n] = called[n]
      /\ Append(called, Frame(inner))[top + 1] = Frame(inner)
  BY <1>2, <1>6, <1>8, AppendProperties
<1>10. frames' \in [Tasks -> Seq(Frames)] /\ \A u \in Tasks \ {t} : frames'[u] = frames[u]
  BY <1>1, <1>6, <1>7, <1>9 DEF Types
<1>11. /\ Len(frames'[t]) = IF owner[inner] = t THEN top ELSE top + 1
       /\ \A n \in 1..top : /\ frames'[t][n].id = frames[t][n].id
                             /\ frames'[t][n].at = frames[t][n].at
                             /\ frames'[t][n].result = frames[t][n].result
       /\ owner[inner] # t => frames'[t][top + 1] = Frame(inner)
  <2>1. frames'[t] = IF owner[inner] = t THEN called ELSE Append(called, Frame(inner))
    BY <1>1, <1>7 DEF Types
  <2>2. \A n \in 1..top : frames'[t][n] = called[n]
    BY <1>9, <2>1
  <2>3. \A n \in 1..top : called[n].id = frames[t][n].id /\ called[n].at = frames[t][n].at
                           /\ called[n].result = frames[t][n].result
    BY <1>2, <1>4, <1>6
  <2>4. Len(frames'[t]) = IF owner[inner] = t THEN top ELSE top + 1
    BY <1>6, <1>9, <2>1
  <2>5. QED
    BY <1>9, <2>1, <2>2, <2>3, <2>4
<1>12. Stacks'
  <2>1. \A u \in Tasks : owner' = owner /\ (u # t => frames'[u] = frames[u])
    BY <1>7, <1>10
  <2>2. \A n \in 1..top : (frames[t][n].at # "waiting") /\ owner[frames[t][n].id] = t
    BY <1>1, <1>2 DEF Stacks
  <2>3. ASSUME NEW n \in 1..Len(frames'[t])
        PROVE  /\ (frames'[t][n].at # "waiting") = (owner[frames'[t][n].id] = t)
               /\ n < Len(frames'[t]) => frames'[t][n].at = "running"
    <3>1. CASE n \in 1..top
      <4>1. frames[t][n].at # "waiting" /\ owner[frames[t][n].id] = t
        BY <2>2, <3>1
      <4>2. n < top => frames[t][n].at = "running"
        BY <1>1, <3>1 DEF Stacks
      <4>3. frames'[t][n].id = frames[t][n].id /\ frames'[t][n].at = frames[t][n].at
        BY <1>11, <3>1
      <4>4. n < Len(frames'[t]) => n < top \/ n = top
        BY <1>2, <3>1
      <4>5. QED
        BY <1>2, <4>1, <4>2, <4>3, <4>4
    <3>2. CASE n = top + 1
      BY <3>2, <1>2, <1>8, <1>11
    <3>3. QED
      BY <1>2, <1>11, <3>1, <3>2
  <2>4. ASSUME NEW m \in 1..Len(frames'[t]), NEW n \in 1..Len(frames'[t]),
               frames'[t][m].id = frames'[t][n].id
        PROVE  m = n
    <3>1. \A k \in 1..Len(frames'[t]) : k \in 1..top \/ (k = top + 1 /\ frames'[t][k].id = inner /\ owner[inner] # t)
      BY <1>2, <1>8, <1>11
    <3>2. QED
      BY <1>1, <1>11, <2>2, <2>4, <3>1 DEF Stacks
  <2>5. \A j \in Ids : owner[j] = t => \E n \in 1..Len(frames'[t]) : frames'[t][n].id = j
    <3>1. 1..top \subseteq 1..Len(frames'[t])
      BY <1>2, <1>11
    <3>2. QED
      BY <1>1, <1>11, <3>1 DEF Stacks
  <2>6. QED
    BY <1>1, <2>1, <2>3, <2>4, <2>5 DEF Stacks
<1>13. HoldersProgress'
  <2> SUFFICES ASSUME NEW u \in Tasks, NEW n \in 1..Len(frames'[u])
               PROVE  Progress(frames[u][n])'
    BY DEF HoldersProgress
  <2>1. CASE u # t
    BY <1>1, <1>7, <1>10, <2>1 DEF HoldersProgress, Progress, journal, history
  <2>2. CASE u = t /\ n \in 1..top
    <3>1. Progress(frames[t][n])
      BY <1>1, <2>2 DEF HoldersProgress
    <3>2. /\ frames'[t][n].id = frames[t][n].id /\ frames'[t][n].at = frames[t][n].at
          /\ frames'[t][n].result = frames[t][n].result
      BY <1>11, <2>2
    <3>3. UNCHANGED <<receipt, requested, entries, effects>>
      BY <1>7 DEF journal, history
    <3>4. QED
      BY <2>2, <3>1, <3>2, <3>3 DEF Progress
  <2>3. CASE u = t /\ n = top + 1
    BY <1>2, <1>8, <1>11, <2>3 DEF Progress
  <2>4. QED
    BY <1>2, <1>11, <2>1, <2>2, <2>3
<1>14. Types'
  BY <1>1, <1>7, <1>10 DEF Types, journal, history
<1>15. QED
  BY <1>7, <1>12, <1>13, <1>14 DEF IInv, journal, history, Causes, EnteredOnce, ReceiptTrue, OneAnswer

\* A free slot is taken by the innermost call of a task.
LEMMA AcquireStep ==
  ASSUME IInv, NEW t \in Tasks, Acquire(t)
  PROVE  IInv'
<1> DEFINE top == Len(frames[t])
           i == Top(t).id
           g == [Top(t) EXCEPT !.at = "lookup"]
<1>1. Types /\ Stacks /\ HoldersProgress
  BY DEF IInv
<1>2. /\ frames[t] # <<>> /\ top \in 1..top
      /\ Top(t) = frames[t][top] /\ Top(t) \in Frames /\ i \in Ids
  BY <1>1, StackTypes DEF Acquire, In, Frames
<1>3. g \in Frames /\ g.id = i /\ g.at = "lookup"
  BY <1>2 DEF Frames, Places
<1>4. Replace(t, g) /\ owner[i] = NoId /\ UNCHANGED <<journal, now, history>>
  BY DEF Acquire, Goto, Free
<1>5. /\ frames' \in [Tasks -> Seq(Frames)]
      /\ \A u \in Tasks : Len(frames'[u]) = Len(frames[u])
      /\ \A u \in Tasks : \A n \in 1..Len(frames[u]) :
           frames'[u][n] = IF u = t /\ n = top THEN g ELSE frames[u][n]
  BY <1>1, <1>2, <1>3, <1>4, TopReplaced
<1>6. owner' \in [Ids -> Tasks \cup {NoId}] /\ \A j \in Ids : owner'[j] = IF j = i THEN t ELSE owner[j]
  BY <1>1, <1>2 DEF Types, Acquire
<1>7. NoId \notin Tasks
  BY OperationsAssumption
<1>8. \A u \in Tasks : \A n \in 1..Len(frames[u]) :
        /\ frames[u][n].id \in Ids
        /\ frames[u][n].at # "waiting" => frames[u][n].id # i
        /\ frames[u][n].id = i /\ u = t => n = top
  <2> TAKE u \in Tasks
  <2> TAKE n \in 1..Len(frames[u])
  <2>1. frames[u][n] \in Frames
    BY <1>1, StackTypes
  <2>2. (frames[u][n].at # "waiting") = (owner[frames[u][n].id] = u)
    BY <1>1 DEF Stacks
  <2>3. frames[u][n].id = i /\ u = t => n = top
    BY <1>1, <1>2 DEF Stacks
  <2>4. QED
    BY <1>4, <1>7, <2>1, <2>2, <2>3 DEF Frames
<1>9. Stacks'
  <2> SUFFICES ASSUME NEW u \in Tasks
               PROVE  /\ \A n \in 1..Len(frames'[u]) :
                           /\ (frames'[u][n].at # "waiting") = (owner'[frames'[u][n].id] = u)
                           /\ n < Len(frames'[u]) => frames'[u][n].at = "running"
                      /\ \A m, n \in 1..Len(frames'[u]) : frames'[u][m].id = frames'[u][n].id => m = n
                      /\ \A j \in Ids : owner'[j] = u => \E n \in 1..Len(frames'[u]) : frames'[u][n].id = j
    BY DEF Stacks
  <2>1. ASSUME NEW n \in 1..Len(frames[u])
        PROVE  (frames'[u][n].at # "waiting") = (owner'[frames'[u][n].id] = u)
    <3>1. CASE u = t /\ n = top
      BY <3>1, <1>2, <1>3, <1>5, <1>6
    <3>2. CASE ~(u = t /\ n = top)
      <4>1. frames'[u][n] = frames[u][n]
            /\ (frames[u][n].at # "waiting") = (owner[frames[u][n].id] = u)
        BY <1>1, <1>5, <3>2 DEF Stacks
      <4>2. CASE frames[u][n].id = i
        BY <1>4, <1>6, <1>7, <1>8, <3>2, <4>1, <4>2
      <4>3. CASE frames[u][n].id # i
        BY <1>6, <1>8, <4>1, <4>3
      <4>4. QED
        BY <4>2, <4>3
    <3>3. QED
      BY <3>1, <3>2
  <2>2. \A n \in 1..Len(frames[u]) : frames'[u][n].id = frames[u][n].id
    BY <1>2, <1>3, <1>5
  <2>3. \A n \in 1..Len(frames[u]) : n < Len(frames[u]) => frames'[u][n] = frames[u][n]
    BY <1>2, <1>5
  <2>4. ASSUME NEW j \in Ids, owner'[j] = u
        PROVE  \E n \in 1..Len(frames[u]) : frames'[u][n].id = j
    <3>1. CASE j = i
      BY <3>1, <1>2, <1>6, <2>2, <2>4
    <3>2. CASE j # i
      BY <3>2, <1>1, <1>6, <2>2, <2>4 DEF Stacks
    <3>3. QED
      BY <3>1, <3>2
  <2>5. QED
    BY <1>1, <1>5, <2>1, <2>2, <2>3, <2>4 DEF Stacks
<1>10. HoldersProgress'
  <2> SUFFICES ASSUME NEW u \in Tasks, NEW n \in 1..Len(frames'[u])
               PROVE  Progress(frames[u][n])'
    BY DEF HoldersProgress
  <2>1. CASE u = t /\ n = top
    BY <2>1, <1>2, <1>3, <1>5 DEF Progress
  <2>2. CASE ~(u = t /\ n = top)
    <3>1. n \in 1..Len(frames[u]) /\ frames'[u][n] = frames[u][n] /\ Progress(frames[u][n])
      BY <1>1, <1>5, <2>2 DEF HoldersProgress
    <3>2. QED
      BY <1>4, <3>1, SameProgress DEF journal, history
  <2>3. QED
    BY <2>1, <2>2
<1>11. Types'
  BY <1>1, <1>4, <1>5, <1>6 DEF Types, journal, history
<1>12. QED
  BY <1>4, <1>9, <1>10, <1>11 DEF IInv, journal, history, Causes, EnteredOnce, ReceiptTrue, OneAnswer

\* The innermost call of a task goes to a place of the holder's, and nothing
\* of the journal or the history of its identity changes.
LEMMA GotoStep ==
  ASSUME IInv, NEW t \in Tasks, frames[t] # <<>>, NEW g \in Frames, Replace(t, g),
         Top(t).at # "waiting", g.at # "waiting", g.id = Top(t).id, Progress(g),
         UNCHANGED <<journal, owner, now, history>>
  PROVE  IInv'
<1>1. Types /\ Stacks /\ HoldersProgress
  BY DEF IInv
<1>2. /\ Top(t) = frames[t][Len(frames[t])] /\ Top(t) \in Frames /\ Top(t).id \in Ids
      /\ Len(frames[t]) \in 1..Len(frames[t])
  BY <1>1, StackTypes DEF Frames
<1>3. frames'[t][Len(frames[t])] = g /\ Len(frames'[t]) = Len(frames[t])
  BY <1>1, <1>2, TopReplaced
<1>4. Progress(frames[t][Len(frames[t])])'
  BY <1>3 DEF Progress, journal, history
<1>5. Elsewhere(Top(t).id)
  BY DEF Elsewhere, journal, history
<1>6. frames' \in [Tasks -> Seq(Frames)] /\ Stacks' /\ HoldersProgress'
  BY <1>1, <1>4, <1>5, HolderGoesOn
<1>7. Types'
  BY <1>1, <1>6 DEF Types, journal, history
<1>8. QED
  BY <1>6, <1>7 DEF IInv, journal, history, Causes, EnteredOnce, ReceiptTrue, OneAnswer

\* An exception leaves dispatch.
LEMMA RaiseStep ==
  ASSUME IInv, NEW t \in Tasks, frames[t] # <<>>, Top(t).at # "waiting", Raise(t),
         UNCHANGED <<journal, now, history>>
  PROVE  IInv'
<1>1. Types /\ Stacks /\ HoldersProgress
  BY DEF IInv
<1>2. Elsewhere(Top(t).id)
  BY DEF Elsewhere, journal, history
<1>3. /\ frames' \in [Tasks -> Seq(Frames)] /\ owner' \in [Ids -> Tasks \cup {NoId}]
      /\ Stacks' /\ HoldersProgress'
  BY <1>1, <1>2, HolderLeaves DEF Raise
<1>4. Types'
  BY <1>1, <1>3 DEF Types, journal, history
<1>5. QED
  BY <1>3, <1>4 DEF IInv, journal, history, Causes, EnteredOnce, ReceiptTrue, OneAnswer

\* The frame of the innermost call and what its holder knows.
LEMMA TopFacts ==
  ASSUME IInv, NEW t \in Tasks, NEW place, In(t, place)
  PROVE  /\ frames[t] # <<>> /\ Top(t).at = place
         /\ Top(t) \in Frames /\ Top(t).id \in Ids
         /\ Len(frames[t]) \in 1..Len(frames[t])
         /\ Top(t) = frames[t][Len(frames[t])]
         /\ Progress(Top(t))
         /\ Types /\ Stacks /\ HoldersProgress
<1>1. Types /\ Stacks /\ HoldersProgress
  BY DEF IInv
<1>2. /\ frames[t] # <<>> /\ Top(t).at = place /\ Top(t) \in Frames
      /\ Len(frames[t]) \in 1..Len(frames[t]) /\ Top(t) = frames[t][Len(frames[t])]
  BY <1>1, StackTypes DEF In
<1>3. Progress(Top(t))
  BY <1>1, <1>2 DEF HoldersProgress
<1>4. QED
  BY <1>1, <1>2, <1>3 DEF Frames

\* A receipt is the answer; without one the call goes to the place its request
\* leaves open.
LEMMA LookupStep ==
  ASSUME IInv, NEW t \in Tasks, Lookup(t)
  PROVE  IInv'
<1> DEFINE i == Top(t).id
<1>1. /\ frames[t] # <<>> /\ Top(t).at = "lookup" /\ Top(t) \in Frames /\ i \in Ids
      /\ Types /\ Stacks /\ HoldersProgress
  BY TopFacts DEF Lookup
<1>2. requested[i] \in {"none", "resolved", "rejected"} /\ receipt[i] \in Statuses \cup {"none"}
      /\ Kind[i] \in {"query", "command", "retry_safe", "invalid"} /\ entries[i] \in Nat
  BY <1>1, OperationsAssumption DEF Types
<1>3. CASE receipt[i] # "none"
  <2>1. Return(t, receipt[i]) /\ UNCHANGED <<journal, now, effects, entries>>
    BY <1>3 DEF Lookup
  <2>2. Elsewhere(i)
    BY <2>1 DEF Elsewhere, journal
  <2>3. /\ frames' \in [Tasks -> Seq(Frames)] /\ owner' \in [Ids -> Tasks \cup {NoId}]
        /\ Stacks' /\ HoldersProgress'
    BY <1>1, <2>1, <2>2, HolderLeaves DEF Return
  <2>4. answers' = answers \cup {[id |-> i, status |-> receipt[i]]}
    BY <2>1 DEF Return
  <2>5. Types'
    BY <1>1, <1>2, <1>3, <2>1, <2>3, <2>4 DEF Types, journal
  <2>6. OneAnswer'
    BY <2>1, <2>4 DEF IInv, OneAnswer, journal
  <2>7. QED
    BY <2>1, <2>3, <2>5, <2>6 DEF IInv, journal, Causes, EnteredOnce, ReceiptTrue
<1>4. CASE receipt[i] = "none" /\ requested[i] = "none"
  <2> DEFINE g == [Top(t) EXCEPT !.at = "request"]
  <2>1. Replace(t, g) /\ UNCHANGED <<journal, owner, now, history>>
    BY <1>4 DEF Lookup, Goto, history
  <2>2. g \in Frames /\ g.at = "request" /\ g.id = i
    BY <1>1 DEF Frames, Places
  <2>3. Progress(g)
    BY <1>4, <2>2 DEF Progress
  <2>4. QED
    BY <1>1, <2>1, <2>2, <2>3, GotoStep
<1>5. CASE receipt[i] = "none" /\ requested[i] # "none" /\ Resumed(i) = "again"
  <2> DEFINE g == [Top(t) EXCEPT !.at = "execute"]
  <2>1. Replace(t, g) /\ UNCHANGED <<journal, owner, now, history>>
    BY <1>5 DEF Lookup, Goto, history
  <2>2. g \in Frames /\ g.at = "execute" /\ g.id = i
    BY <1>1 DEF Frames, Places
  <2>3. requested[i] = "resolved" /\ Kind[i] # "command"
    BY <1>2, <1>5 DEF Resumed
  <2>4. Progress(g)
    BY <1>5, <2>2, <2>3 DEF Progress
  <2>5. QED
    BY <1>1, <2>1, <2>2, <2>4, GotoStep
<1>6. CASE receipt[i] = "none" /\ requested[i] # "none" /\ Resumed(i) # "again"
  <2> DEFINE g == [Top(t) EXCEPT !.at = "record", !.result = Resumed(i)]
  <2>1. Replace(t, g) /\ UNCHANGED <<journal, owner, now, history>>
    BY <1>6 DEF Lookup, Record, history
  <2>2. \/ requested[i] = "rejected" /\ Kind[i] = "invalid" /\ Resumed(i) = "failed"
        \/ Kind[i] = "command" /\ Resumed(i) = "unknown"
    BY <1>1, <1>2, <1>6 DEF Resumed, IInv, Causes
  <2>3. g \in Frames /\ g.at = "record" /\ g.id = i /\ g.result = Resumed(i)
    BY <1>1, <2>2 DEF Frames, Places, Statuses
  <2>4. Progress(g)
    BY <1>6, <2>2, <2>3 DEF Progress, Statuses
  <2>5. QED
    BY <1>1, <2>1, <2>3, <2>4, GotoStep
<1>7. QED
  BY <1>3, <1>4, <1>5, <1>6

\* A request is recorded before anything is done for it.
LEMMA RecordRequestStep ==
  ASSUME IInv, NEW t \in Tasks, RecordRequest(t)
  PROVE  IInv'
<1> DEFINE i == Top(t).id
           top == Len(frames[t])
           invalid == Kind[i] = "invalid"
           g == IF invalid THEN [Top(t) EXCEPT !.at = "record", !.result = "failed"]
                ELSE [Top(t) EXCEPT !.at = "execute"]
<1>1. /\ frames[t] # <<>> /\ Top(t).at = "request" /\ Top(t) \in Frames /\ i \in Ids
      /\ Progress(Top(t)) /\ Types /\ Stacks /\ HoldersProgress /\ top \in 1..top
  BY TopFacts DEF RecordRequest
<1>2. /\ Replace(t, g) /\ UNCHANGED <<receipt, owner, now, history>>
      /\ requested' = [requested EXCEPT ![i] = Validated(i)]
  BY DEF RecordRequest, Goto, Record
<1>3. g \in Frames /\ g.id = i /\ g.at = (IF invalid THEN "record" ELSE "execute")
      /\ (invalid => g.result = "failed")
  BY <1>1 DEF Frames, Places, Statuses
<1> HIDE DEF g
<1>4. /\ requested[i] = "none" /\ receipt[i] = "none" /\ entries[i] = 0 /\ i \notin effects
  BY <1>1 DEF Progress, IInv, EnteredOnce, Causes, Types
<1>5. requested' \in [Ids -> {"none", "resolved", "rejected"}]
      /\ \A j \in Ids : requested'[j] = IF j = i THEN Validated(i) ELSE requested[j]
  BY <1>1, <1>2 DEF Types, Validated
<1>6. Elsewhere(i)
  BY <1>2, <1>5 DEF Elsewhere, history
<1>7. Progress(frames[t][top])'
  <2>1. frames'[t][top] = g /\ Len(frames'[t]) = top
    BY <1>1, <1>2, <1>3, TopReplaced
  <2>2. requested'[i] = Validated(i) /\ receipt'[i] = "none" /\ entries'[i] = 0 /\ i \notin effects'
    BY <1>1, <1>2, <1>4, <1>5 DEF history
  <2>3. CASE invalid
    <3>1. g.at = "record" /\ g.result = "failed" /\ g.id = i
      BY <1>3, <2>3
    <3>2. QED
      BY <2>1, <2>2, <3>1 DEF Progress, Statuses
  <2>4. CASE ~invalid
    <3>1. g.at = "execute" /\ g.id = i /\ requested'[i] = "resolved"
      BY <1>3, <2>2, <2>4 DEF Validated
    <3>2. QED
      BY <2>1, <2>2, <3>1 DEF Progress
  <2>5. QED
    BY <2>3, <2>4
<1>8. frames' \in [Tasks -> Seq(Frames)] /\ Stacks' /\ HoldersProgress'
  <2>1. g.at # "waiting" /\ Top(t).at # "waiting"
    BY <1>1, <1>3
  <2>2. QED
    BY <1>1, <1>2, <1>3, <1>6, <1>7, <2>1, HolderGoesOn
<1>9. Types'
  BY <1>1, <1>2, <1>5, <1>8 DEF Types, history
<1>10. Causes'
  BY <1>2, <1>5 DEF IInv, Causes, Validated, history
<1>11. EnteredOnce'
  BY <1>2, <1>4, <1>5 DEF IInv, EnteredOnce, history
<1>12. QED
  BY <1>2, <1>8, <1>9, <1>10, <1>11 DEF IInv, ReceiptTrue, OneAnswer, history

\* The handler is entered, or its deadline has passed.
LEMMA ExecuteStep ==
  ASSUME IInv, NEW t \in Tasks, Execute(t)
  PROVE  IInv'
<1> DEFINE i == Top(t).id
           top == Len(frames[t])
<1>1. /\ frames[t] # <<>> /\ Top(t).at = "execute" /\ Top(t) \in Frames /\ i \in Ids
      /\ Progress(Top(t)) /\ Types /\ Stacks /\ HoldersProgress /\ top \in 1..top
  BY TopFacts DEF Execute
<1>2. /\ receipt[i] = "none" /\ requested[i] = "resolved" /\ entries[i] \in Nat
      /\ Kind[i] = "command" => entries[i] = 0
  BY <1>1 DEF Progress, Types
<1>3. CASE Expired(i)
  <2> DEFINE g == [Top(t) EXCEPT !.at = "record", !.result = "failed"]
  <2>1. Replace(t, g) /\ UNCHANGED <<journal, owner, now, history>>
    BY <1>3 DEF Execute, Record, history
  <2>2. g \in Frames /\ g.at = "record" /\ g.id = i /\ g.result = "failed"
    BY <1>1 DEF Frames, Places, Statuses
  <2>3. Kind[i] = "command" => i \notin effects
    BY <1>1, <1>2 DEF IInv, Causes
  <2>4. Progress(g)
    BY <1>2, <2>2, <2>3 DEF Progress, Statuses
  <2>5. QED
    BY <1>1, <2>1, <2>2, <2>4, GotoStep
<1>4. CASE ~Expired(i)
  <2> DEFINE g == [Top(t) EXCEPT !.at = "running"]
  <2>1. /\ Replace(t, g) /\ UNCHANGED <<journal, owner, now, effects, answers>>
        /\ entries' = [entries EXCEPT ![i] = @ + 1]
    BY <1>4 DEF Execute, Goto
  <2>2. g \in Frames /\ g.at = "running" /\ g.id = i
    BY <1>1 DEF Frames, Places
  <2>3. entries' \in [Ids -> Nat] /\ \A j \in Ids : entries'[j] = IF j = i THEN entries[i] + 1 ELSE entries[j]
    BY <1>1, <1>2, <2>1 DEF Types
  <2>4. Elsewhere(i)
    BY <2>1, <2>3 DEF Elsewhere, journal
  <2>5. Progress(frames[t][top])'
    <3>1. frames'[t][top] = g /\ Len(frames'[t]) = top
      BY <1>1, <2>1, <2>2, TopReplaced
    <3>2. entries'[i] > 0 /\ receipt'[i] = "none" /\ requested'[i] = "resolved"
      BY <1>1, <1>2, <2>1, <2>3 DEF journal
    <3>3. QED
      BY <2>2, <3>1, <3>2 DEF Progress
  <2>6. frames' \in [Tasks -> Seq(Frames)] /\ Stacks' /\ HoldersProgress'
    BY <1>1, <2>1, <2>2, <2>4, <2>5, HolderGoesOn
  <2>7. Types'
    BY <1>1, <2>1, <2>3, <2>6 DEF Types, journal
  <2>8. EnteredOnce'
    BY <1>1, <1>2, <2>1, <2>3 DEF IInv, EnteredOnce, journal
  <2>9. Causes'
    BY <1>1, <1>2, <2>1, <2>3 DEF IInv, Causes, journal
  <2>10. QED
    BY <2>1, <2>6, <2>7, <2>8, <2>9 DEF IInv, ReceiptTrue, OneAnswer, journal
<1>5. QED
  BY <1>3, <1>4

\* A handler does what it was asked for.
LEMMA TakesEffectStep ==
  ASSUME IInv, NEW t \in Tasks, TakesEffect(t)
  PROVE  IInv'
<1> DEFINE i == Top(t).id
           top == Len(frames[t])
<1>1. /\ frames[t] # <<>> /\ Top(t).at = "running" /\ Top(t) = frames[t][top] /\ i \in Ids
      /\ Progress(Top(t)) /\ Types /\ Stacks /\ HoldersProgress /\ top \in 1..top
  BY TopFacts DEF TakesEffect
<1>2. /\ UNCHANGED <<journal, frames, owner, now, entries, answers>>
      /\ effects' = effects \cup {i}
  BY DEF TakesEffect
<1>3. receipt[i] = "none" /\ entries[i] > 0
  BY <1>1 DEF Progress
<1>4. Types' /\ Stacks'
  BY <1>1, <1>2 DEF Types, Stacks, journal
<1>5. HoldersProgress'
  <2> SUFFICES ASSUME NEW u \in Tasks, NEW n \in 1..Len(frames[u])
               PROVE  Progress(frames[u][n])'
    BY <1>2 DEF HoldersProgress
  <2>1. Progress(frames[u][n])
    BY <1>1 DEF HoldersProgress
  <2>2. CASE u = t /\ n = top
    BY <1>1, <1>2, <1>3, <2>1, <2>2 DEF Progress, journal
  <2>3. CASE ~(u = t /\ n = top)
    <3>1. frames[u][n].at = "waiting" \/ frames[u][n].id # i
      BY <1>1, <2>3, HolderUnique
    <3>2. QED
      BY <1>2, <2>1, <3>1 DEF Progress, journal
  <2>4. QED
    BY <2>2, <2>3
<1>6. ReceiptTrue' /\ Causes'
  BY <1>2, <1>3 DEF IInv, ReceiptTrue, Causes, journal
<1>7. QED
  BY <1>2, <1>4, <1>5, <1>6 DEF IInv, EnteredOnce, OneAnswer, journal

\* A handler returns: what it says of its effect is true.
LEMMA HandlerReturnsStep ==
  ASSUME IInv, NEW t \in Tasks, NEW said \in Statuses, HandlerReturns(t, said)
  PROVE  IInv'
<1> DEFINE g == [Top(t) EXCEPT !.at = "record", !.result = said]
<1>1. /\ frames[t] # <<>> /\ Top(t).at = "running" /\ Top(t) \in Frames
      /\ Progress(Top(t))
  BY TopFacts DEF HandlerReturns
<1>2. Replace(t, g) /\ UNCHANGED <<journal, owner, now, history>>
  BY DEF HandlerReturns, Record
<1>3. g \in Frames /\ g.at = "record" /\ g.id = Top(t).id /\ g.result = said
  BY <1>1 DEF Frames, Places
<1>4. Progress(g)
  BY <1>1, <1>3 DEF HandlerReturns, Progress, IsCommand
<1>5. QED
  BY <1>1, <1>2, <1>3, <1>4, GotoStep

\* A handler raises: nothing is said of its effect.
LEMMA HandlerRaisesStep ==
  ASSUME IInv, NEW t \in Tasks, HandlerRaises(t)
  PROVE  IInv'
<1> DEFINE i == Top(t).id
           g == [Top(t) EXCEPT !.at = "record", !.result = Raised(i)]
<1>1. /\ frames[t] # <<>> /\ Top(t).at = "running" /\ Top(t) \in Frames
      /\ Progress(Top(t))
  BY TopFacts DEF HandlerRaises
<1>2. Replace(t, g) /\ UNCHANGED <<journal, owner, now, history>>
  BY DEF HandlerRaises, Record
<1>3. /\ g \in Frames /\ g.at = "record" /\ g.id = i /\ g.result = Raised(i)
      /\ Raised(i) \in {"unknown", "failed"} /\ (Raised(i) = "failed" => Kind[i] # "command")
  BY <1>1 DEF Frames, Places, Raised, Statuses, IsCommand
<1>4. Progress(g)
  BY <1>1, <1>3 DEF Progress, Statuses
<1>5. QED
  BY <1>1, <1>2, <1>3, <1>4, GotoStep

\* The first receipt of an identity is the last, and it is the answer.
LEMMA RecordResultStep ==
  ASSUME IInv, NEW t \in Tasks, RecordResult(t)
  PROVE  IInv'
<1> DEFINE i == Top(t).id
           r == Top(t).result
<1>1. /\ frames[t] # <<>> /\ Top(t).at = "record" /\ i \in Ids
      /\ Progress(Top(t)) /\ Types /\ Stacks /\ HoldersProgress
  BY TopFacts DEF RecordResult
<1>2. /\ receipt[i] = "none" /\ r \in Statuses
      /\ r = "succeeded" /\ IsCommand(i) => i \in effects
      /\ r = "failed" /\ Kind[i] = "command" => i \notin effects
  BY <1>1 DEF Progress
<1>3. /\ UNCHANGED <<requested, now, effects, entries>> /\ Return(t, r)
      /\ receipt' = [receipt EXCEPT ![i] = r]
  BY DEF RecordResult
<1>4. receipt' \in [Ids -> Statuses \cup {"none"}] /\ \A j \in Ids : receipt'[j] = IF j = i THEN r ELSE receipt[j]
  BY <1>1, <1>2, <1>3 DEF Types
<1>5. Elsewhere(i)
  BY <1>3, <1>4 DEF Elsewhere
<1>6. /\ frames' \in [Tasks -> Seq(Frames)] /\ owner' \in [Ids -> Tasks \cup {NoId}]
      /\ Stacks' /\ HoldersProgress'
  BY <1>1, <1>3, <1>5, HolderLeaves DEF Return
<1>7. answers' = answers \cup {[id |-> i, status |-> r]}
  BY <1>3 DEF Return
<1>8. Types'
  BY <1>1, <1>2, <1>3, <1>4, <1>6, <1>7 DEF Types
<1>9. ReceiptTrue'
  BY <1>2, <1>3, <1>4 DEF IInv, ReceiptTrue, IsCommand
<1>10. OneAnswer'
  <2> SUFFICES ASSUME NEW a \in answers' PROVE receipt'[a.id] = a.status
    BY DEF OneAnswer
  <2>1. CASE a = [id |-> i, status |-> r]
    BY <1>1, <1>4, <2>1
  <2>2. CASE a \in answers
    <3>1. a.id \in Ids /\ a.status \in Statuses /\ receipt[a.id] = a.status
      BY <1>1, <2>2 DEF IInv, OneAnswer, Types
    <3>2. a.id # i
      BY <1>2, <3>1 DEF Statuses
    <3>3. QED
      BY <1>4, <3>1, <3>2
  <2>3. QED
    BY <1>7, <2>1, <2>2
<1>11. QED
  BY <1>3, <1>6, <1>8, <1>9, <1>10 DEF IInv, Causes, EnteredOnce

\* Errors of the caller's and receipts that cannot be stored.
LEMMA RefuseStep ==
  ASSUME IInv, NEW t \in Tasks, Refuse(t) \/ ResultFails(t)
  PROVE  IInv'
<1>1. \E place \in {"lookup", "request", "record"} : In(t, place)
  BY DEF Refuse, ResultFails
<1>2. frames[t] # <<>> /\ Top(t).at # "waiting"
  BY <1>1, TopFacts
<1>3. Raise(t) /\ UNCHANGED <<journal, now, history>>
  BY DEF Refuse, ResultFails
<1>4. QED
  BY <1>2, <1>3, RaiseStep

\* The frames of a cancelled task are gone, and its slots with them.
LEMMA CancelTaskStep ==
  ASSUME IInv, NEW t \in Tasks, CancelTask(t)
  PROVE  IInv'
<1>1. Types /\ Stacks /\ HoldersProgress /\ NoId \notin Tasks
  BY OperationsAssumption DEF IInv
<1>2. /\ \A u \in Tasks : frames'[u] = IF u = t THEN <<>> ELSE frames[u]
      /\ \A i \in Ids : owner'[i] = IF owner[i] = t THEN NoId ELSE owner[i]
      /\ UNCHANGED <<journal, now, history>>
  BY <1>1 DEF CancelTask, Types
<1>3. Types'
  BY <1>1, <1>2, EmptySeq DEF CancelTask, Types, journal, history
<1>4. Stacks'
  <2> SUFFICES ASSUME NEW u \in Tasks
               PROVE  /\ \A n \in 1..Len(frames'[u]) :
                           /\ (frames'[u][n].at # "waiting") = (owner'[frames'[u][n].id] = u)
                           /\ n < Len(frames'[u]) => frames'[u][n].at = "running"
                      /\ \A m, n \in 1..Len(frames'[u]) : frames'[u][m].id = frames'[u][n].id => m = n
                      /\ \A j \in Ids : owner'[j] = u => \E n \in 1..Len(frames'[u]) : frames'[u][n].id = j
    BY DEF Stacks
  <2>1. CASE u = t
    <3>1. 1..Len(frames'[u]) = {}
      BY <1>2, <2>1
    <3>2. QED
      BY <1>1, <1>2, <2>1, <3>1
  <2>2. CASE u # t
    <3>1. frames'[u] = frames[u] /\ \A j \in Ids : (owner'[j] = u) = (owner[j] = u)
      BY <1>1, <1>2, <2>2
    <3>2. \A n \in 1..Len(frames[u]) : frames[u][n].id \in Ids
      BY <1>1, StackTypes DEF Frames
    <3>3. QED
      BY <1>1, <3>1, <3>2 DEF Stacks
  <2>3. QED
    BY <2>1, <2>2
<1>5. HoldersProgress'
  <2> SUFFICES ASSUME NEW u \in Tasks, NEW n \in 1..Len(frames'[u])
               PROVE  Progress(frames[u][n])'
    BY DEF HoldersProgress
  <2>1. CASE u = t
    <3>1. 1..Len(frames'[u]) = {}
      BY <1>2, <2>1
    <3>2. QED
      BY <3>1
  <2>2. CASE u # t
    <3>1. frames'[u] = frames[u] /\ Progress(frames[u][n])
      BY <1>1, <1>2, <2>2 DEF HoldersProgress
    <3>2. QED
      BY <1>2, <3>1 DEF Progress, journal, history
  <2>3. QED
    BY <2>1, <2>2
<1>6. QED
  BY <1>2, <1>3, <1>4, <1>5 DEF IInv, journal, history, Causes, EnteredOnce, ReceiptTrue, OneAnswer

\* A new process has no calls and holds no slots.
LEMMA RestartStep ==
  ASSUME IInv, Restart
  PROVE  IInv'
<1>1. Types /\ NoId \notin Tasks
  BY OperationsAssumption DEF IInv
<1>2. /\ frames' = [u \in Tasks |-> <<>>] /\ owner' = [i \in Ids |-> NoId]
      /\ UNCHANGED <<journal, now, history>>
  BY DEF Restart
<1>3. \A u \in Tasks : Len(frames'[u]) = 0
  BY <1>2
<1>4. Types'
  BY <1>1, <1>2, EmptySeq DEF Types, journal, history
<1>5. Stacks' /\ HoldersProgress'
  BY <1>1, <1>2, <1>3 DEF Stacks, HoldersProgress
<1>6. QED
  BY <1>2, <1>4, <1>5 DEF IInv, journal, history, Causes, EnteredOnce, ReceiptTrue, OneAnswer

\* The clock advances.
LEMMA TickStep ==
  ASSUME IInv, Tick
  PROVE  IInv'
<1>1. Types'
  BY OperationsAssumption DEF IInv, Types, Tick, journal, history
<1>2. QED
  BY <1>1 DEF IInv, Tick, journal, history, Stacks, HoldersProgress, Progress, Causes,
              EnteredOnce, ReceiptTrue, OneAnswer

\* A deadline cancels a handler with all calls made from it: their slots are
\* free and the calls below go on as they were.
LEMMA DeadlinePassesStep ==
  ASSUME IInv, NEW t \in Tasks, NEW k \in DOMAIN frames[t], DeadlinePasses(t, k)
  PROVE  IInv'
<1> DEFINE top == Len(frames[t])
           i == frames[t][k].id
           g == [frames[t][k] EXCEPT !.at = "record", !.result = Raised(i)]
           new == Append(SubSeq(frames[t], 1, k - 1), g)
           Gone(j) == \E m \in k + 1..top : frames[t][m].id = j /\ owner[j] = t
<1>1. Types /\ Stacks /\ HoldersProgress /\ NoId \notin Tasks
  BY OperationsAssumption DEF IInv
<1>2. /\ frames[t] \in Seq(Frames) /\ top \in Nat /\ k \in 1..top /\ k < top
      /\ frames[t][k] \in Frames /\ frames[t][k].at = "running" /\ i \in Ids
      /\ \A m \in 1..top : frames[t][m] \in Frames /\ frames[t][m].id \in Ids
  BY <1>1, StackTypes DEF DeadlinePasses, Frames
<1>3. /\ Raised(i) \in {"unknown", "failed"} /\ (Raised(i) = "failed" => Kind[i] # "command")
      /\ g \in Frames /\ g.at = "record" /\ g.id = i /\ g.result = Raised(i)
  BY <1>2 DEF Frames, Places, Raised, Statuses, IsCommand
<1>4. /\ SubSeq(frames[t], 1, k - 1) \in Seq(Frames)
      /\ Len(SubSeq(frames[t], 1, k - 1)) = k - 1
      /\ \A m \in 1..k - 1 : SubSeq(frames[t], 1, k - 1)[m] = frames[t][m]
  BY <1>2, SubSeqProperties
<1>5. /\ new \in Seq(Frames) /\ Len(new) = k /\ new[k] = g
      /\ \A m \in 1..k - 1 : new[m] = frames[t][m]
  BY <1>2, <1>3, <1>4, AppendProperties
<1>6. /\ frames' = [frames EXCEPT ![t] = new]
      /\ owner' = [j \in Ids |-> IF Gone(j) THEN NoId ELSE owner[j]]
      /\ UNCHANGED <<journal, now, history>>
  BY DEF DeadlinePasses
<1> HIDE DEF new, g
<1>7. frames' \in [Tasks -> Seq(Frames)] /\ \A u \in Tasks : frames'[u] = IF u = t THEN new ELSE frames[u]
  BY <1>1, <1>5, <1>6 DEF Types
<1>8. owner' \in [Ids -> Tasks \cup {NoId}] /\ \A j \in Ids : owner'[j] = IF Gone(j) THEN NoId ELSE owner[j]
  BY <1>1, <1>6 DEF Types
<1>9. /\ \A m \in 1..k : ~Gone(frames[t][m].id)
      /\ \A m \in 1..k : owner[frames[t][m].id] = t
  <2>1. \A m \in 1..k : m \in 1..top /\ m < top /\ m \notin k + 1..top
    BY <1>2
  <2>2. \A n \in k + 1..top : n \in 1..top
    BY <1>2
  <2>3. \A m \in 1..k : frames[t][m].at = "running"
    BY <1>1, <2>1 DEF Stacks
  <2>4. \A m \in 1..k : (frames[t][m].at # "waiting") = (owner[frames[t][m].id] = t)
    BY <1>1, <2>1 DEF Stacks
  <2>5. QED
    BY <1>1, <2>1, <2>2, <2>3, <2>4 DEF Stacks
<1>10. \A u \in Tasks \ {t} : \A j \in Ids : (owner'[j] = u) = (owner[j] = u)
  BY <1>1, <1>8
<1>11. Stacks'
  <2> SUFFICES ASSUME NEW u \in Tasks
               PROVE  /\ \A n \in 1..Len(frames'[u]) :
                           /\ (frames'[u][n].at # "waiting") = (owner'[frames'[u][n].id] = u)
                           /\ n < Len(frames'[u]) => frames'[u][n].at = "running"
                      /\ \A m, n \in 1..Len(frames'[u]) : frames'[u][m].id = frames'[u][n].id => m = n
                      /\ \A j \in Ids : owner'[j] = u => \E n \in 1..Len(frames'[u]) : frames'[u][n].id = j
    BY DEF Stacks
  <2>1. CASE u # t
    <3>1. frames'[u] = frames[u] /\ \A n \in 1..Len(frames[u]) : frames[u][n].id \in Ids
      BY <1>1, <1>7, <2>1, StackTypes DEF Frames
    <3>2. QED
      BY <1>1, <1>10, <2>1, <3>1 DEF Stacks
  <2>2. CASE u = t
    <3>1. frames'[u] = new /\ Len(frames'[u]) = k
      BY <1>5, <1>7, <2>2
    <3>2. \A n \in 1..k : new[n].id = frames[t][n].id
      BY <1>2, <1>3, <1>5
    <3>3. \A n \in 1..k : new[n].at # "waiting"
      <4>1. \A n \in 1..k - 1 : n \in 1..top /\ n < top
        BY <1>2
      <4>2. \A n \in 1..k - 1 : new[n].at = "running"
        BY <1>1, <1>5, <4>1 DEF Stacks
      <4>3. QED
        BY <1>2, <1>3, <1>5, <4>2
    <3>4. \A n \in 1..k : owner'[frames[t][n].id] = t
      <4>1. \A n \in 1..k : n \in 1..top
        BY <1>2
      <4>2. QED
        BY <1>2, <1>8, <1>9, <4>1
    <3>5. \A n \in 1..k : n < k => new[n].at = "running"
      <4>1. \A n \in 1..k : n < k => n \in 1..top /\ n < top /\ n \in 1..k - 1
        BY <1>2
      <4>2. QED
        BY <1>1, <1>5, <4>1 DEF Stacks
    <3>6. \A m, n \in 1..k : new[m].id = new[n].id => m = n
      <4>1. \A n \in 1..k : n \in 1..top
        BY <1>2
      <4>2. QED
        BY <1>1, <3>2, <4>1 DEF Stacks
    <3>7. ASSUME NEW j \in Ids, owner'[j] = t
          PROVE  \E n \in 1..k : new[n].id = j
      <4>1. ~Gone(j) /\ owner[j] = t
        BY <1>1, <1>8, <3>7
      <4>2. PICK n \in 1..top : frames[t][n].id = j
        BY <1>1, <4>1 DEF Stacks
      <4>3. n \in 1..k
        BY <1>2, <4>1, <4>2
      <4>4. QED
        BY <3>2, <4>2, <4>3
    <3>8. QED
      BY <2>2, <3>1, <3>2, <3>3, <3>4, <3>5, <3>6, <3>7
  <2>3. QED
    BY <2>1, <2>2
<1>12. HoldersProgress'
  <2> SUFFICES ASSUME NEW u \in Tasks, NEW n \in 1..Len(frames'[u])
               PROVE  Progress(frames[u][n])'
    BY DEF HoldersProgress
  <2>1. CASE u = t /\ n = k
    <3>1. Progress(frames[t][k])
      BY <1>1, <1>2 DEF HoldersProgress
    <3>2. frames'[u][n] = g /\ receipt'[i] = "none"
      BY <1>2, <1>5, <1>6, <1>7, <2>1, <3>1 DEF Progress, journal
    <3>3. QED
      BY <1>3, <3>2 DEF Progress, Statuses
  <2>2. CASE ~(u = t /\ n = k)
    <3>1. n \in 1..Len(frames[u]) /\ frames'[u][n] = frames[u][n]
      <4>1. CASE u = t
        <5>1. n \in 1..k - 1 /\ n \in 1..top
          BY <1>2, <1>5, <1>7, <2>2, <4>1
        <5>2. QED
          BY <1>5, <1>7, <4>1, <5>1
      <4>2. CASE u # t
        BY <1>7, <4>2
      <4>3. QED
        BY <4>1, <4>2
    <3>2. Progress(frames[u][n])
      BY <1>1, <3>1 DEF HoldersProgress
    <3>3. QED
      BY <1>6, <3>1, <3>2, SameProgress DEF journal, history
  <2>3. QED
    BY <2>1, <2>2
<1>13. Types'
  BY <1>1, <1>6, <1>7, <1>8 DEF Types, journal, history
<1>14. QED
  BY <1>6, <1>11, <1>12, <1>13 DEF IInv, journal, history, Causes, EnteredOnce, ReceiptTrue, OneAnswer

-----------------------------------------------------------------------------
\* Theorems.

\* The invariant of the whole registry: what tasks hold, what holders know,
\* and what journal and history say of each identity.
THEOREM Invariance == Spec => []IInv
<1>1. Init => IInv
  BY InitIInv
<1>2. IInv /\ [Next]_vars => IInv'
  <2> SUFFICES ASSUME IInv, [Next]_vars PROVE IInv'
    OBVIOUS
  <2>1. CASE UNCHANGED vars
    <3>1. /\ UNCHANGED <<requested, receipt, frames, owner>>
          /\ UNCHANGED <<now, effects, entries, answers>>
      BY <2>1 DEF vars, journal, history
    <3>2. Types' /\ Stacks'
      BY <3>1 DEF IInv, Types, Stacks
    <3>3. HoldersProgress' /\ Causes'
      BY <3>1 DEF IInv, HoldersProgress, Progress, Causes
    <3>4. QED
      BY <3>1, <3>2, <3>3 DEF IInv, EnteredOnce, ReceiptTrue, OneAnswer
  <2>2. CASE Tick
    BY <2>2, TickStep
  <2>3. CASE \E t \in Tasks, i \in Ids : Call(t, i)
    BY <2>3, CallStep
  <2>4. ASSUME NEW t \in Tasks, Step(t) PROVE IInv'
    <3>1. CASE CallNested(t)
      BY <3>1, CallNestedStep
    <3>2. CASE Acquire(t)
      BY <3>2, AcquireStep
    <3>3. CASE Lookup(t)
      BY <3>3, LookupStep
    <3>4. CASE Refuse(t) \/ ResultFails(t)
      BY <3>4, RefuseStep
    <3>5. CASE RecordRequest(t)
      BY <3>5, RecordRequestStep
    <3>6. CASE Execute(t)
      BY <3>6, ExecuteStep
    <3>7. CASE TakesEffect(t)
      BY <3>7, TakesEffectStep
    <3>8. CASE \E said \in Statuses : HandlerReturns(t, said)
      BY <3>8, HandlerReturnsStep
    <3>9. CASE HandlerRaises(t)
      BY <3>9, HandlerRaisesStep
    <3>10. CASE \E n \in DOMAIN frames[t] : DeadlinePasses(t, n)
      BY <3>10, DeadlinePassesStep
    <3>11. CASE RecordResult(t)
      BY <3>11, RecordResultStep
    <3>12. QED
      BY <2>4, <3>1, <3>2, <3>3, <3>4, <3>5, <3>6, <3>7, <3>8, <3>9, <3>10, <3>11 DEF Step
  <2>5. CASE \E t \in Tasks : CancelTask(t)
    BY <2>5, CancelTaskStep
  <2>6. CASE Restart
    BY <2>6, RestartStep
  <2>7. QED
    BY <2>1, <2>2, <2>3, <2>4, <2>5, <2>6 DEF Next
<1>3. QED
  BY <1>1, <1>2, PTL DEF Spec

\* Types and the holders of slots as the module states them.
LEMMA TypesOfIInv == IInv => TypeOK
<1> SUFFICES ASSUME IInv PROVE TypeOK
  OBVIOUS
<1>1. Types /\ Stacks
  BY DEF IInv
<1>2. \A t \in Tasks : \A n \in DOMAIN frames[t] :
        /\ frames[t][n].id \in Ids
        /\ frames[t][n].at \in Places
        /\ (frames[t][n].at # "waiting") = (owner[frames[t][n].id] = t)
  BY <1>1, StackTypes DEF Stacks, Frames
<1>3. QED
  BY <1>1, <1>2 DEF TypeOK, Types

\* One effect, one receipt and one answer per identity, whatever is retried,
\* cancelled or restarted (OperationRegistry.dispatch and its journal).
THEOREM OneReceiptPerIdentity == Spec => []OperationsSound
<1>1. IInv => OperationsSound
  BY TypesOfIInv DEF OperationsSound, IInv
<1>2. QED
  BY <1>1, Invariance, PTL

\* A receipt is final: retries, deadlines, faults and other callers never
\* change what an identity was answered.
THEOREM ReceiptIsFinal ==
  Spec => [][\A i \in Ids : receipt[i] # "none" => receipt'[i] = receipt[i]]_vars
<1> DEFINE Final == \A i \in Ids : receipt[i] # "none" => receipt'[i] = receipt[i]
<1>1. IInv /\ [Next]_vars => [Final]_vars
  <2> SUFFICES ASSUME IInv, Next PROVE Final
    OBVIOUS
  <2>1. ASSUME NEW t \in Tasks, RecordResult(t) PROVE Final
    <3>1. Top(t).id \in Ids /\ receipt[Top(t).id] = "none" /\ Types
      BY <2>1, TopFacts DEF RecordResult, Progress
    <3>2. QED
      BY <2>1, <3>1 DEF RecordResult, Types
  <2>2. \/ UNCHANGED receipt
        \/ \E t \in Tasks : RecordResult(t)
    BY DEF Next, Tick, Call, Step, CallNested, Acquire, Lookup, Refuse, RecordRequest, Execute, TakesEffect,
           HandlerReturns, HandlerRaises, DeadlinePasses, ResultFails, CancelTask, Restart, journal
  <2>3. QED
    BY <2>1, <2>2
<1>2. QED
  BY <1>1, Invariance, PTL DEF Spec

\* Two tasks never work under one identity: not for a moment between the
\* lookup of its receipt and the receipt of its own.
OneHolder ==
  \A t, u \in Tasks : \A m \in 1..Len(frames[t]), n \in 1..Len(frames[u]) :
    /\ frames[t][m].at # "waiting" /\ frames[u][n].at # "waiting"
    /\ frames[t][m].id = frames[u][n].id
    => t = u /\ m = n

\* However calls nest, wait, time out and are cut off, two tasks are never past
\* the lock of one identity (_RequestSlot.lock of OperationRegistry).
THEOREM Exclusion == Spec => []OneHolder
<1>1. IInv => OneHolder
  BY HolderUnique DEF IInv, OneHolder
<1>2. QED
  BY <1>1, Invariance, PTL

-----------------------------------------------------------------------------
\* The MCP runtime, for any number of active apps of either protocol.

AppRecords ==
  [state : {"disabled", "starting", "ready", "unavailable", "closed", "close_failed"},
   changed : BOOLEAN, lost : BOOLEAN, restart : BOOLEAN, tools : BOOLEAN]
Arrivals == [id : Nat, stamp : 0..2, early : BOOLEAN]
ClientRecords ==
  [open : BOOLEAN, connected : BOOLEAN, bound : BOOLEAN, catalog : Nat, lost : BOOLEAN,
   telling : BOOLEAN, delivered : BOOLEAN, closed : BOOLEAN, generation : 0..2,
   active : BOOLEAN, queue : SUBSET Arrivals, handling : SUBSET Arrivals]
ServerRecords ==
  [alive : BOOLEAN, version : Nat, listed : Nat, changes : Nat, lost : BOOLEAN, sent : Nat]
CallRecords ==
  [to : 0..N, place : {"none", "sent", "succeeded", "failed", "unknown"}, effect : BOOLEAN, plain : BOOLEAN]
StatusRecords == [catalog : 0..1, lost : 0..1, refused : SUBSET {"catalog", "lost"}]

McpTypes ==
  /\ phase \in {"preparing", "prepared", "running", "closing", "closed"}
  /\ at \in [step : {"open", "bind", "flush", "list", "register", "freeze", "done", "failed"}, app : Mcp!Apps]
  /\ lock \in [app : Mcp!Apps, kind : {"catalog", "lost"}] \cup {Mcp!Free}
  /\ app \in [Mcp!Apps -> AppRecords]
  /\ client \in [Mcp!Apps -> ClientRecords]
  /\ server \in [Mcp!Apps -> ServerRecords]
  /\ status \in [Mcp!Apps -> StatusRecords]
  /\ call \in [Calls -> CallRecords]
  /\ told \in [Closers \cup {Mcp!Prepare} -> {"-", "owner", "waiting", "returned", "raised"}]

\* Where prepare_mcp is, and what that says of the phase and of who asked for the end.
Underway(here) == here.step \notin {"done", "failed"}
McpPlaced ==
  /\ Underway(at) => phase = "preparing" /\ \A k \in DOMAIN told : told[k] = "-"
  /\ phase = "preparing" => at.step # "done"
  /\ phase \in {"prepared", "running"} => at.step = "done"

\* What follows is about one app: its record r, its client c, its server s and its statuses st, when
\* the runtime is in phase ph, the start is here and lk is the status being appended.
Over(ph) == ph \in {"closing", "closed"}

\* How far its start has come.
Started(a, ph, here, r, c) ==
  /\ Underway(here) /\ (here.app < a \/ (here.app = a /\ here.step = "open")) => ~c.open
  /\ here.app = a /\ here.step \in {"bind", "flush", "list", "register"} => c.open /\ ~r.tools
  /\ here.app = a /\ here.step \in {"flush", "list", "register"} => c.bound
  /\ r.tools => c.bound
  /\ c.bound \/ c.connected \/ c.lost \/ c.closed => c.open
  /\ c.closed \/ r.state \in {"closed", "close_failed"} => Over(ph)

\* From its listing on, a change is known or its notice is under way.
Listed(a, here, r) == r.tools \/ (here.app = a /\ here.step = "register")
Known(a, ph, here, r, c, s) ==
  /\ Listed(a, here, r) /\ ~Over(ph) /\ c.open /\ ~c.closed /\ s.alive /\ s.changes = 0 =>
       s.version = s.listed \/ r.changed \/ r.restart
  /\ ph = "running" => ~r.changed /\ ~r.lost

\* A loss is told one time, and what was told is remembered.
Losses(a, ph, here, r, c) ==
  /\ c.lost => ~c.connected
  /\ c.telling => c.delivered
  /\ c.delivered => c.lost /\ c.bound
  /\ c.lost /\ (Listed(a, here, r) \/ (here.app = a /\ here.step = "list")) => c.delivered
  /\ c.delivered /\ ~c.telling /\ ~Over(ph) => r.state = "unavailable"
  /\ r.state = "unavailable" /\ here.step # "failed" /\ ~Over(ph) => r.lost \/ r.restart

\* A status is appended once, for a restart that was asked for.
AppStatus(a, ph, lk, r, st) ==
  /\ lk.app = a => ph = "running" /\ r.restart
  /\ lk.app = a /\ lk.kind = "catalog" => st.catalog = 0
  /\ lk.app = a /\ lk.kind = "lost" => st.lost = 0 /\ r.state = "unavailable"
  /\ ph \in {"preparing", "prepared"} => ~r.restart /\ st.lost = 0
  /\ st.catalog > 0 => r.restart
  /\ st.lost > 0 /\ ~Over(ph) => r.state = "unavailable"
  /\ r.restart /\ lk.app # a => st.catalog > 0 \/ st.lost > 0 \/ st.refused # {}

\* Its gate: generation 1 is the one in which the runtime runs.
Gated(a, ph, c) ==
  /\ ph \in {"preparing", "prepared"} => ~c.active /\ c.generation = 0
  /\ ph = "running" => c.active /\ c.generation = 1
  /\ Over(ph) => ~c.active
  /\ \A e \in c.queue : a \in Modern => e.stamp = 1 /\ ~e.early
  /\ \A e \in c.handling : e.stamp = 1 /\ (a \in Modern => ~e.early)

AppSound(a, ph, here, lk, r, c, s, st) ==
  /\ Started(a, ph, here, r, c)
  /\ Known(a, ph, here, r, c, s)
  /\ Losses(a, ph, here, r, c)
  /\ AppStatus(a, ph, lk, r, st)
  /\ Gated(a, ph, c)
AppsSound == \A a \in Mcp!Apps : AppSound(a, phase, at, lock, app[a], client[a], server[a], status[a])

\* The calls, and the order of the release.
Calling ==
  /\ \A c \in Calls :
       /\ call[c].place # "none" => call[c].to \in Mcp!Apps /\ app[call[c].to].tools
       /\ call[c].place = "none" => ~call[c].effect
  /\ Mcp!CallsTold

Released(a) == client[a].closed \/ app[a].state = "close_failed"
Closing ==
  /\ \A a, b \in Mcp!Apps : a < b /\ client[a].closed /\ client[b].open => Released(b)
  /\ phase = "closed" => \A a \in Mcp!Apps : client[a].open => Released(a)

\* One caller owns the end; it is the one that is told of failures.
Owned ==
  /\ \A k, l \in DOMAIN told : told[k] = "owner" /\ told[l] = "owner" => k = l
  /\ \A k \in DOMAIN told : told[k] = "waiting" => \E l \in DOMAIN told : told[l] = "owner"
  /\ phase = "closing" => \E k \in DOMAIN told : told[k] = "owner"
  /\ phase # "closed" => \A k \in DOMAIN told : told[k] \in {"-", "owner", "waiting"}
  /\ phase = "closed" =>
       /\ \A k \in DOMAIN told : told[k] \notin {"owner", "waiting"}
       /\ \A k, l \in DOMAIN told : told[k] = "raised" /\ told[l] = "raised" => k = l
       /\ Mcp!Failures # {} => \E k \in DOMAIN told : told[k] = "raised"

MInv == McpTypes /\ McpPlaced /\ AppsSound /\ Calling /\ Closing /\ Owned /\ Mcp!EventsGated

SoundAt(a) == AppSound(a, phase, at, lock, app[a], client[a], server[a], status[a])

-----------------------------------------------------------------------------
\* What most actions leave alone.

LEMMA McpFrame ==
  ASSUME MInv, McpTypes', UNCHANGED <<phase, at, told>>,
         \A a \in Mcp!Apps : /\ client'[a].closed = client[a].closed
                             /\ client'[a].open = client[a].open
                             /\ app'[a].state = "close_failed" <=> app[a].state = "close_failed"
  PROVE  McpPlaced' /\ Closing' /\ Owned'
<1>1. McpPlaced'
  BY DEF MInv, McpPlaced, Underway
<1>2. Closing'
  BY DEF MInv, Closing, Released
<1>3. Mcp!Failures' = Mcp!Failures
  BY DEF Mcp!Failures
<1>4. Owned'
  BY <1>3 DEF MInv, Owned
<1>5. QED
  BY <1>1, <1>2, <1>4

LEMMA CallFrame ==
  ASSUME MInv, UNCHANGED call, \A a \in Mcp!Apps : app[a].tools => app'[a].tools
  PROVE  Calling'
BY DEF MInv, Calling, Mcp!CallsTold

\* One call goes on, and is told as what happened.
LEMMA CallSettles ==
  ASSUME NEW k \in Calls, NEW q, Calling, UNCHANGED app,
         \A c \in Calls : call'[c] = IF c = k THEN q ELSE call[c],
         q.to \in Mcp!Apps, app[q.to].tools, q.place # "none",
         q.place = "succeeded" => q.effect,
         q.place = "failed" /\ q.effect => ~q.plain
  PROVE  Calling'
BY DEF Calling, Mcp!CallsTold

LEMMA AppFrame ==
  ASSUME NEW a \in Mcp!Apps, MInv, UNCHANGED <<phase, at>>,
         app'[a] = app[a], client'[a] = client[a], server'[a] = server[a], status'[a] = status[a],
         lock'.app = a => lock' = lock, lock.app = a => lock'.app = a
  PROVE  SoundAt(a)'
<1>1. SoundAt(a)
  BY DEF MInv, AppsSound, SoundAt
<1>2. AppStatus(a, phase, lock', app[a], status[a])
  BY <1>1 DEF SoundAt, AppSound, AppStatus
<1>3. QED
  BY <1>1, <1>2 DEF SoundAt, AppSound

LEMMA Apart == ASSUME MInv PROVE \A a \in Mcp!Apps : SoundAt(a)
BY DEF MInv, AppsSound, SoundAt

LEMMA AllParts == ASSUME \A a \in Mcp!Apps : SoundAt(a)' PROVE AppsSound'
BY DEF AppsSound, SoundAt

\* No number of an app is that of the free lock.
LEMMA FreeIsNoApp == ASSUME NEW a \in Mcp!Apps PROVE Mcp!Free.app # a
BY DEF Mcp!Free, Mcp!Apps
-----------------------------------------------------------------------------
\* The start, app by app.

LEMMA McpOpen == ASSUME MInv, Mcp!Open PROVE MInv'
<1> DEFINE b == at.app
<1>1. /\ b \in Mcp!Apps /\ at.app = b /\ phase = "preparing" /\ at.step = "open"
      /\ client' = [client EXCEPT ![b] = [client[b] EXCEPT !.open = TRUE, !.connected = TRUE]]
      /\ app' = [app EXCEPT ![b] = [app[b] EXCEPT !.state = "starting"]]
      /\ at' = [step |-> "bind", app |-> b]
      /\ UNCHANGED <<phase, lock, server, status, events, call, told>>
  BY DEF MInv, McpTypes, Mcp!Open, Mcp!In, Mcp!Go
<1> HIDE DEF b
<1>2. McpTypes /\ \A a \in Mcp!Apps : app[a] \in AppRecords /\ client[a] \in ClientRecords
  BY DEF MInv, McpTypes
<1>3. McpTypes'
  <2>0. app[b] \in AppRecords /\ client[b] \in ClientRecords
    BY <1>1, <1>2
  <2>1. [app[b] EXCEPT !.state = "starting"] \in AppRecords
    BY <2>0 DEF AppRecords
  <2>4. [client[b] EXCEPT !.open = TRUE, !.connected = TRUE] \in ClientRecords
    BY <2>0 DEF ClientRecords
  <2>2. app' \in [Mcp!Apps -> AppRecords] /\ client' \in [Mcp!Apps -> ClientRecords]
    BY <1>1, <1>2, <2>1, <2>4 DEF McpTypes
  <2>3. QED
    BY <1>1, <1>2, <2>2 DEF McpTypes
<1>4. McpPlaced'
  BY <1>1 DEF MInv, McpPlaced, Underway
<1>5. AppsSound'
  <2>1. ASSUME NEW a \in Mcp!Apps PROVE SoundAt(a)'
    <3>1. SoundAt(a) /\ app[a] \in AppRecords /\ client[a] \in ClientRecords
      BY <1>2, Apart
    <3>2. CASE a = b
      <4>1. ~client[a].open /\ ~app[a].tools
        BY <1>1, <3>1, <3>2 DEF SoundAt, AppSound, Started, Known, Losses, AppStatus, Gated, Listed, Over, Underway
      <4>2. /\ client'[a] = [client[a] EXCEPT !.open = TRUE, !.connected = TRUE]
            /\ app'[a] = [app[a] EXCEPT !.state = "starting"]
            /\ server'[a] = server[a] /\ status'[a] = status[a] /\ lock' = lock /\ phase' = phase
            /\ at.app = a /\ at.step = "open" /\ at'.app = a /\ at'.step = "bind" /\ phase = "preparing"
        BY <1>1, <1>2, <3>2 DEF McpTypes
      <4>3. QED
        BY <3>1, <4>1, <4>2 DEF SoundAt, AppSound, Started, Known, Losses, AppStatus, Gated, Listed, Over, Underway, AppRecords, ClientRecords, Mcp!Apps
    <3>3. CASE a # b
      BY <1>1, <1>2, <3>1, <3>3 DEF SoundAt, AppSound, Started, Known, Losses, AppStatus, Gated, Listed, Over, Underway, McpTypes
    <3>4. QED
      BY <3>2, <3>3
  <2>2. QED
    BY <2>1, AllParts
<1>6. Calling'
  <2>1. \A a \in Mcp!Apps : app'[a].tools = app[a].tools
    BY <1>1, <1>2 DEF McpTypes, AppRecords
  <2>2. QED
    BY <1>1, <2>1, CallFrame
<1>7. Closing'
  <2>1. \A a \in Mcp!Apps : ~client[a].closed /\ client'[a].closed = client[a].closed
    BY <1>1, <1>2, Apart DEF McpTypes, ClientRecords, SoundAt, AppSound, Started, Over
  <2>2. QED
    BY <1>1, <2>1 DEF Closing
<1>8. Owned'
  BY <1>1 DEF MInv, Owned
<1>9. QED
  BY <1>1, <1>3, <1>4, <1>5, <1>6, <1>7, <1>8 DEF MInv, Mcp!EventsGated

LEMMA Typed ==
  ASSUME MInv
  PROVE  /\ McpTypes
         /\ \A a \in Mcp!Apps : /\ app[a] \in AppRecords /\ client[a] \in ClientRecords
                                /\ server[a] \in ServerRecords /\ status[a] \in StatusRecords
BY DEF MInv, McpTypes

LEMMA McpBind == ASSUME MInv, Mcp!Bind PROVE MInv'
<1> DEFINE b == at.app
<1>1. /\ b \in Mcp!Apps /\ at.app = b /\ phase = "preparing" /\ at.step = "bind"
      /\ client' = [client EXCEPT ![b] = [client[b] EXCEPT !.bound = TRUE]]
      /\ at' = [step |-> "flush", app |-> b]
      /\ UNCHANGED <<phase, lock, app, server, status, events, call, told>>
  BY DEF MInv, McpTypes, Mcp!Bind, Mcp!In, Mcp!Go
<1> HIDE DEF b
<1>2. client[b] \in ClientRecords
  BY <1>1, Typed
<1>3. [client[b] EXCEPT !.bound = TRUE] \in ClientRecords
  BY <1>2 DEF ClientRecords
<1>4. McpTypes'
  BY <1>1, <1>3, Typed DEF McpTypes
<1>5. McpPlaced'
  BY <1>1 DEF MInv, McpPlaced, Underway
<1>6. ASSUME NEW a \in Mcp!Apps PROVE SoundAt(a)'
  <2>1. SoundAt(a) /\ app[a] \in AppRecords /\ client[a] \in ClientRecords
    BY Typed, Apart
  <2>2. /\ client'[a] = IF a = b THEN [client[a] EXCEPT !.bound = TRUE] ELSE client[a]
        /\ UNCHANGED <<phase, lock, app, server, status>>
        /\ at.app = b /\ at.step = "bind" /\ at'.app = b /\ at'.step = "flush" /\ phase = "preparing"
    BY <1>1, Typed DEF McpTypes
  <2>3. QED
    BY <2>1, <2>2 DEF SoundAt, AppSound, Started, Known, Losses, AppStatus, Gated, Listed, Over, Underway,
         AppRecords, ClientRecords, Mcp!Apps
<1>7. Calling'
  BY <1>1, CallFrame
<1>8. Closing'
  <2>1. \A a \in Mcp!Apps : client'[a].closed = client[a].closed /\ client'[a].open = client[a].open
    BY <1>1, <1>2, Typed DEF McpTypes, ClientRecords
  <2>2. QED
    BY <1>1, <2>1 DEF MInv, Closing, Released
<1>9. Owned'
  BY <1>1 DEF MInv, Owned
<1>10. QED
  BY <1>1, <1>4, <1>5, <1>6, <1>7, <1>8, <1>9, AllParts DEF MInv, Mcp!EventsGated

LEMMA LostClient ==
  ASSUME NEW c \in ClientRecords
  PROVE  /\ Mcp!MarkLost(c) \in ClientRecords
         /\ Mcp!MarkLost(c).closed = c.closed /\ Mcp!MarkLost(c).open = c.open
BY DEF ClientRecords, Mcp!MarkLost

LEMMA FlushedClient ==
  ASSUME NEW c \in ClientRecords
  PROVE  /\ Mcp!Flushed(c) \in ClientRecords
         /\ Mcp!Flushed(c).closed = c.closed /\ Mcp!Flushed(c).open = c.open
<1>1. ASSUME NEW d \in ClientRecords
      PROVE  /\ [d EXCEPT !.catalog = 0] \in ClientRecords
             /\ [d EXCEPT !.catalog = 0].closed = d.closed /\ [d EXCEPT !.catalog = 0].open = d.open
  BY DEF ClientRecords
<1>2. QED
  BY <1>1, LostClient DEF Mcp!Flushed

LEMMA McpFlush == ASSUME MInv, Mcp!Flush PROVE MInv'
<1> DEFINE b == at.app
           r == IF client[b].catalog > 0 THEN Mcp!CatalogChanged(app[b]) ELSE app[b]
           c == Mcp!Flushed(client[b])
<1>1. /\ b \in Mcp!Apps /\ at.app = b /\ phase = "preparing" /\ at.step = "flush"
      /\ client' = [client EXCEPT ![b] = c] /\ app' = [app EXCEPT ![b] = r]
      /\ at' = [step |-> "list", app |-> b]
      /\ UNCHANGED <<phase, lock, server, status, events, call, told>>
  BY DEF MInv, McpTypes, Mcp!Flush, Mcp!In, Mcp!Go
<1>2. client[b] \in ClientRecords /\ app[b] \in AppRecords
  BY <1>1, Typed
<1>3. c \in ClientRecords /\ c.closed = client[b].closed /\ c.open = client[b].open
  BY <1>2, FlushedClient
<1>4. r = app[b] \/ r = [app[b] EXCEPT !.changed = TRUE]
  BY <1>1 DEF Mcp!CatalogChanged, Mcp!Ending, Mcp!Starting
<1>5. r \in AppRecords /\ r.tools = app[b].tools /\ r.state = app[b].state
  BY <1>2, <1>4 DEF AppRecords
<1>6. McpTypes'
  BY <1>1, <1>3, <1>5, Typed DEF McpTypes
<1>7. McpPlaced'
  BY <1>1 DEF MInv, McpPlaced, Underway
<1>8. ASSUME NEW a \in Mcp!Apps PROVE SoundAt(a)'
  <2>1. SoundAt(a) /\ app[a] \in AppRecords /\ client[a] \in ClientRecords
    BY Typed, Apart
  <2>2. /\ UNCHANGED <<phase, lock, server, status>>
        /\ at.app = b /\ at.step = "flush" /\ at'.app = b /\ at'.step = "list" /\ phase = "preparing"
    BY <1>1
  <2>3. CASE a = b
    <3>1. client'[a] = Mcp!Flushed(client[a]) /\ app'[a] = r
      BY <1>1, <2>3, Typed DEF McpTypes
    <3>2. QED
      BY <1>4, <2>1, <2>2, <2>3, <3>1 DEF SoundAt, AppSound, Started, Known, Losses, AppStatus, Gated, Listed, Over, Underway,
         AppRecords, ClientRecords, Mcp!Apps, Mcp!Flushed, Mcp!MarkLost
  <2>4. CASE a # b
    <3>1. client'[a] = client[a] /\ app'[a] = app[a]
      BY <1>1, <2>4, Typed DEF McpTypes
    <3>2. QED
      BY <2>1, <2>2, <2>4, <3>1 DEF SoundAt, AppSound, Started, Known, Losses, AppStatus, Gated, Listed, Over, Underway,
         AppRecords, ClientRecords, Mcp!Apps
  <2>5. QED
    BY <2>3, <2>4
<1>9. \A a \in Mcp!Apps : /\ client'[a].closed = client[a].closed /\ client'[a].open = client[a].open
                          /\ app'[a].tools = app[a].tools /\ app'[a].state = app[a].state
  BY <1>1, <1>3, <1>5, Typed DEF McpTypes
<1>10. Calling'
  BY <1>1, <1>9, CallFrame
<1>11. Closing'
  BY <1>1, <1>9 DEF MInv, Closing, Released
<1>12. Owned'
  BY <1>1 DEF MInv, Owned
<1>13. QED
  BY <1>1, <1>6, <1>7, <1>8, <1>10, <1>11, <1>12, AllParts DEF MInv, Mcp!EventsGated

LEMMA McpListTools == ASSUME MInv, Mcp!ListTools PROVE MInv'
<1> DEFINE b == at.app
<1>1. /\ b \in Mcp!Apps /\ at.app = b /\ phase = "preparing" /\ at.step = "list"
      /\ server' = [server EXCEPT ![b] = [server[b] EXCEPT !.listed = server[b].version]]
      /\ at' = [step |-> "register", app |-> b]
      /\ UNCHANGED <<phase, lock, app, client, status, events, call, told>>
  BY DEF MInv, McpTypes, Mcp!ListTools, Mcp!In, Mcp!Go
<1> HIDE DEF b
<1>2. server[b] \in ServerRecords
  BY <1>1, Typed
<1>3. [server[b] EXCEPT !.listed = server[b].version] \in ServerRecords
  BY <1>2 DEF ServerRecords
<1>4. McpTypes'
  BY <1>1, <1>3, Typed DEF McpTypes
<1>5. McpPlaced'
  BY <1>1 DEF MInv, McpPlaced, Underway
<1>6. ASSUME NEW a \in Mcp!Apps PROVE SoundAt(a)'
  <2>1. SoundAt(a) /\ app[a] \in AppRecords /\ client[a] \in ClientRecords /\ server[a] \in ServerRecords
    BY Typed, Apart
  <2>2. /\ server'[a] = IF a = b THEN [server[a] EXCEPT !.listed = server[a].version] ELSE server[a]
        /\ UNCHANGED <<phase, lock, app, client, status>>
        /\ at.app = b /\ at.step = "list" /\ at'.app = b /\ at'.step = "register" /\ phase = "preparing"
    BY <1>1, Typed DEF McpTypes
  <2>3. QED
    BY <2>1, <2>2 DEF SoundAt, AppSound, Started, Known, Losses, AppStatus, Gated, Listed, Over, Underway,
         AppRecords, ClientRecords, Mcp!Apps, ServerRecords
<1>7. Calling'
  BY <1>1, CallFrame
<1>8. Closing' /\ Owned'
  BY <1>1 DEF MInv, Closing, Released, Owned, Mcp!Failures
<1>9. QED
  BY <1>1, <1>4, <1>5, <1>6, <1>7, <1>8, AllParts DEF MInv, Mcp!EventsGated

LEMMA McpRegister == ASSUME N \in Nat \ {0}, MInv, Mcp!Register PROVE MInv'
<1> DEFINE b == at.app
<1>1. /\ b \in Mcp!Apps /\ at.app = b /\ phase = "preparing" /\ at.step = "register"
      /\ app' = [app EXCEPT ![b] = [app[b] EXCEPT !.state = "ready", !.tools = TRUE]]
      /\ at' = IF b = N THEN [step |-> "freeze", app |-> N] ELSE [step |-> "open", app |-> b + 1]
      /\ ~app[b].changed /\ ~app[b].lost /\ client[b].connected
      /\ UNCHANGED <<phase, lock, client, server, status, events, call, told>>
  BY DEF MInv, McpTypes, Mcp!Register, Mcp!In, Mcp!Go, Mcp!Invalid
<1> HIDE DEF b
<1>2. app[b] \in AppRecords
  BY <1>1, Typed
<1>3. [app[b] EXCEPT !.state = "ready", !.tools = TRUE] \in AppRecords
  BY <1>2 DEF AppRecords
<1>4. McpTypes'
  <2>1. at'.app \in Mcp!Apps
    BY <1>1 DEF Mcp!Apps
  <2>2. app' \in [Mcp!Apps -> AppRecords]
    BY <1>1, <1>3, Typed DEF McpTypes
  <2>3. QED
    BY <1>1, <2>1, <2>2, Typed DEF McpTypes
<1>5. McpPlaced'
  BY <1>1 DEF MInv, McpPlaced, Underway
<1>6. ASSUME NEW a \in Mcp!Apps PROVE SoundAt(a)'
  <2>1. SoundAt(a) /\ app[a] \in AppRecords /\ client[a] \in ClientRecords
    BY Typed, Apart
  <2>2. /\ app'[a] = IF a = b THEN [app[a] EXCEPT !.state = "ready", !.tools = TRUE] ELSE app[a]
        /\ UNCHANGED <<phase, lock, client, server, status>>
        /\ at.app = b /\ at.step = "register" /\ phase = "preparing"
        /\ \/ b = N /\ at'.step = "freeze" /\ at'.app = N
           \/ b # N /\ at'.step = "open" /\ at'.app = b + 1
        /\ ~app[b].changed /\ ~app[b].lost /\ client[b].connected
    BY <1>1, Typed DEF McpTypes
  <2>3. b \in Mcp!Apps
    BY <1>1
  <2>4. QED
    BY <2>1, <2>2, <2>3 DEF SoundAt, AppSound, Started, Known, Losses, AppStatus, Gated, Listed, Over, Underway,
         AppRecords, ClientRecords, Mcp!Apps
<1>7. Calling'
  <2>1. \A a \in Mcp!Apps : app[a].tools => app'[a].tools
    BY <1>1, <1>2, Typed DEF McpTypes, AppRecords
  <2>2. QED
    BY <1>1, <2>1, CallFrame
<1>8. Closing'
  <2>1. \A a \in Mcp!Apps : ~client[a].closed
    BY <1>1, Apart DEF SoundAt, AppSound, Started, Over
  <2>2. QED
    BY <1>1, <2>1 DEF Closing
<1>9. Owned'
  BY <1>1 DEF MInv, Owned
<1>10. QED
  BY <1>1, <1>4, <1>5, <1>6, <1>7, <1>8, <1>9, AllParts DEF MInv, Mcp!EventsGated

LEMMA McpFreeze == ASSUME N \in Nat \ {0}, MInv, Mcp!Freeze PROVE MInv'
<1>1. /\ phase = "preparing" /\ at.step = "freeze" /\ phase' = "prepared"
      /\ at' = [step |-> "done", app |-> N]
      /\ UNCHANGED <<lock, app, client, server, status, events, call, told>>
  BY DEF Mcp!Freeze, Mcp!In, Mcp!Go
<1>2. McpTypes'
  BY <1>1, Typed DEF McpTypes, Mcp!Apps
<1>3. McpPlaced'
  BY <1>1 DEF MInv, McpPlaced, Underway
<1>4. ASSUME NEW a \in Mcp!Apps PROVE SoundAt(a)'
  <2>1. SoundAt(a) /\ app[a] \in AppRecords /\ client[a] \in ClientRecords
    BY Typed, Apart
  <2>2. at'.step = "done"
    BY <1>1
  <2>3. QED
    BY <1>1, <2>1, <2>2 DEF SoundAt, AppSound, Started, Known, Losses, AppStatus, Gated, Listed, Over, Underway,
         AppRecords, ClientRecords, Mcp!Apps
<1>5. Calling'
  BY <1>1, CallFrame
<1>6. Closing' /\ Owned'
  BY <1>1 DEF MInv, Closing, Released, Owned, Mcp!Failures
<1>7. QED
  BY <1>1, <1>2, <1>3, <1>4, <1>5, <1>6, AllParts DEF MInv, Mcp!EventsGated

LEMMA McpPrepareFails == ASSUME MInv, NEW cancelled, Mcp!PrepareFails(cancelled) PROVE MInv'
<1> DEFINE b == at.app
<1>1. /\ b \in Mcp!Apps /\ at.app = b /\ phase = "preparing" /\ Underway(at)
      /\ app' = app \/ app' = [app EXCEPT ![b] = [app[b] EXCEPT !.state = "unavailable"]]
      /\ at' = [step |-> "failed", app |-> b]
      /\ told' = [told EXCEPT ![Mcp!Prepare] = "owner"]
      /\ UNCHANGED <<phase, lock, client, server, status, events, call>>
  BY DEF MInv, McpTypes, Mcp!PrepareFails, Mcp!In, Mcp!Go, Underway
<1> HIDE DEF b
<1>2. app[b] \in AppRecords
  BY <1>1, Typed
<1>3. [app[b] EXCEPT !.state = "unavailable"] \in AppRecords
  BY <1>2 DEF AppRecords
<1>4. McpTypes'
  <2>1. app' \in [Mcp!Apps -> AppRecords]
    BY <1>1, <1>3, Typed DEF McpTypes
  <2>2. told' \in [Closers \cup {Mcp!Prepare} -> {"-", "owner", "waiting", "returned", "raised"}]
    BY <1>1, Typed DEF McpTypes
  <2>3. QED
    BY <1>1, <2>1, <2>2, Typed DEF McpTypes
<1>5. McpPlaced'
  BY <1>1 DEF MInv, McpPlaced, Underway
<1>6. ASSUME NEW a \in Mcp!Apps PROVE SoundAt(a)'
  <2>1. SoundAt(a) /\ app[a] \in AppRecords /\ client[a] \in ClientRecords
    BY Typed, Apart
  <2>2. /\ app'[a] = app[a] \/ app'[a] = [app[a] EXCEPT !.state = "unavailable"]
        /\ UNCHANGED <<phase, lock, client, server, status>>
        /\ at.app = b /\ phase = "preparing" /\ at'.step = "failed" /\ at'.app = b
    BY <1>1, Typed DEF McpTypes
  <2>3. QED
    BY <2>1, <2>2 DEF SoundAt, AppSound, Started, Known, Losses, AppStatus, Gated, Listed, Over, Underway,
         AppRecords, ClientRecords, Mcp!Apps
<1>7. \A a \in Mcp!Apps : app[a].tools => app'[a].tools
  BY <1>1, <1>2, Typed DEF McpTypes, AppRecords
<1>8. Calling'
  BY <1>1, <1>7, CallFrame
<1>9. Closing'
  <2>1. \A a \in Mcp!Apps : ~client[a].closed
    BY <1>1, Apart DEF SoundAt, AppSound, Started, Over
  <2>2. QED
    BY <1>1, <2>1 DEF Closing
<1>10. Owned'
  <2>1. \A k \in DOMAIN told : told[k] = "-"
    BY <1>1 DEF MInv, McpPlaced
  <2>2. DOMAIN told' = DOMAIN told /\ Mcp!Prepare \in DOMAIN told
    BY <1>1, Typed DEF McpTypes
  <2>3. \A k \in DOMAIN told : told'[k] = IF k = Mcp!Prepare THEN "owner" ELSE "-"
    BY <1>1, <2>1, <2>2
  <2>4. QED
    BY <1>1, <2>2, <2>3 DEF Owned
<1>11. QED
  BY <1>1, <1>4, <1>5, <1>6, <1>8, <1>9, <1>10, AllParts DEF MInv, Mcp!EventsGated

\* What the activation, the deactivation and the close make of a client.
LEMMA ActiveClient ==
  ASSUME NEW c \in ClientRecords
  PROVE  LET d == [c EXCEPT !.active = TRUE, !.generation = 1] IN
         d \in ClientRecords /\ d.closed = c.closed
<1> DEFINE e == [c EXCEPT !.generation = 1]
           d == [c EXCEPT !.active = TRUE, !.generation = 1]
<1>1. e \in ClientRecords
  BY DEF ClientRecords
<1>2. d = [e EXCEPT !.active = TRUE]
  BY DEF ClientRecords
<1> HIDE DEF e
<1>3. [e EXCEPT !.active = TRUE] \in ClientRecords
  BY <1>1 DEF ClientRecords
<1>4. d.closed = c.closed
  BY DEF ClientRecords
<1>5. QED
  BY <1>2, <1>3, <1>4

LEMMA InactiveClient ==
  ASSUME NEW c \in ClientRecords
  PROVE  LET d == [c EXCEPT !.active = FALSE, !.generation = 2] IN
         d \in ClientRecords /\ d.closed = c.closed /\ d.open = c.open /\ ~d.active
<1> DEFINE e == [c EXCEPT !.generation = 2]
           d == [c EXCEPT !.active = FALSE, !.generation = 2]
<1>1. e \in ClientRecords
  BY DEF ClientRecords
<1>2. d = [e EXCEPT !.active = FALSE]
  BY DEF ClientRecords
<1> HIDE DEF e
<1>3. [e EXCEPT !.active = FALSE] \in ClientRecords
  BY <1>1 DEF ClientRecords
<1>4. d.closed = c.closed /\ d.open = c.open
  BY DEF ClientRecords
<1>5. ~d.active
  BY DEF ClientRecords
<1>6. QED
  BY <1>2, <1>3, <1>4, <1>5

LEMMA NextGeneration ==
  ASSUME NEW c \in ClientRecords
  PROVE  /\ c.generation = 0 =>
              [c EXCEPT !.active = TRUE, !.generation = @ + 1] = [c EXCEPT !.active = TRUE, !.generation = 1]
         /\ c.generation = 1 =>
              [c EXCEPT !.active = FALSE, !.generation = @ + 1] = [c EXCEPT !.active = FALSE, !.generation = 2]
<1>1. c.generation = 0 =>
         [c EXCEPT !.active = TRUE, !.generation = @ + 1] = [c EXCEPT !.active = TRUE, !.generation = 1]
  BY DEF ClientRecords
<1>2. c.generation = 1 =>
         [c EXCEPT !.active = FALSE, !.generation = @ + 1] = [c EXCEPT !.active = FALSE, !.generation = 2]
  BY DEF ClientRecords
<1>3. QED
  BY <1>1, <1>2

LEMMA ClosedClient ==
  ASSUME NEW c \in ClientRecords
  PROVE  LET d == [c EXCEPT !.connected = FALSE, !.closed = TRUE, !.telling = FALSE,
                            !.queue = {}, !.handling = {}] IN
         d \in ClientRecords /\ d.closed = TRUE /\ d.open = c.open
<1> DEFINE d == [c EXCEPT !.connected = FALSE, !.closed = TRUE, !.telling = FALSE,
                          !.queue = {}, !.handling = {}]
<1>1. d \in ClientRecords
  BY DEF ClientRecords
<1>2. d.open = c.open
  BY DEF ClientRecords
<1>3. d.closed = TRUE
  BY DEF ClientRecords
<1>4. QED
  BY <1>1, <1>2, <1>3

LEMMA McpActivate == ASSUME MInv, Mcp!Activate PROVE MInv'
<1>1. /\ phase = "prepared" /\ phase' = "running" /\ lock = Mcp!Free
      /\ \A a \in Mcp!Apps : ~app[a].changed /\ ~app[a].lost /\ client[a].connected
      /\ client' = [a \in Mcp!Apps |-> [client[a] EXCEPT !.active = TRUE, !.generation = @ + 1]]
      /\ UNCHANGED <<at, lock, app, server, status, events, call, told>>
  BY DEF Mcp!Activate, Mcp!Invalid
<1>2. ASSUME NEW a \in Mcp!Apps
      PROVE  /\ SoundAt(a) /\ app[a] \in AppRecords /\ client[a] \in ClientRecords
             /\ client[a].generation = 0 /\ client'[a] = [client[a] EXCEPT !.active = TRUE, !.generation = 1]
  <2>1. SoundAt(a) /\ app[a] \in AppRecords /\ client[a] \in ClientRecords
    BY Typed, Apart
  <2>2. client[a].generation = 0
    BY <1>1, <2>1 DEF SoundAt, AppSound, Gated
  <2>3. [client[a] EXCEPT !.active = TRUE, !.generation = @ + 1] = [client[a] EXCEPT !.active = TRUE, !.generation = 1]
    BY <2>1, <2>2, NextGeneration
  <2>4. QED
    BY <1>1, <2>1, <2>2, <2>3
<1>3. ASSUME NEW a \in Mcp!Apps PROVE client'[a] \in ClientRecords
  <2>1. client[a] \in ClientRecords /\ client'[a] = [client[a] EXCEPT !.active = TRUE, !.generation = 1]
    BY <1>2
  <2>2. QED
    BY <2>1, ActiveClient
<1>4. McpTypes'
  <2>1. client' \in [Mcp!Apps -> ClientRecords]
    BY <1>1, <1>3
  <2>2. QED
    BY <1>1, <2>1, Typed DEF McpTypes
<1>5. McpPlaced'
  BY <1>1 DEF MInv, McpPlaced, Underway
<1>6. ASSUME NEW a \in Mcp!Apps PROVE SoundAt(a)'
  <2>1. /\ SoundAt(a) /\ app[a] \in AppRecords /\ client[a] \in ClientRecords
        /\ client'[a] = [client[a] EXCEPT !.active = TRUE, !.generation = 1]
        /\ ~app[a].changed /\ ~app[a].lost /\ client[a].connected
    BY <1>1, <1>2
  <2>2. at'.step = "done" /\ at.step = "done"
    BY <1>1 DEF MInv, McpPlaced
  <2>3. lock.app # a
    BY <1>1, FreeIsNoApp
  <2>4. QED
    BY <1>1, <2>1, <2>2, <2>3 DEF SoundAt, AppSound, Started, Known, Losses, AppStatus, Gated, Listed, Over, Underway,
         AppRecords, ClientRecords, Mcp!Apps
<1>7. Calling'
  BY <1>1, CallFrame
<1>8. Closing' /\ Owned'
  <2>1. \A a \in Mcp!Apps : ~client[a].closed
    BY <1>1, Apart DEF SoundAt, AppSound, Started, Over
  <2>2. \A a \in Mcp!Apps : ~client'[a].closed
    <3>1. SUFFICES ASSUME NEW a \in Mcp!Apps PROVE ~client'[a].closed
      OBVIOUS
    <3>2. client[a] \in ClientRecords /\ client'[a] = [client[a] EXCEPT !.active = TRUE, !.generation = 1]
      BY <1>2
    <3>3. QED
      BY <2>1, <3>2 DEF ClientRecords
  <2>3. QED
    BY <1>1, <2>2 DEF MInv, Closing, Owned
<1>9. QED
  BY <1>1, <1>4, <1>5, <1>6, <1>7, <1>8, AllParts DEF MInv, Mcp!EventsGated

-----------------------------------------------------------------------------
\* The end.

LEMMA McpAskClose == ASSUME MInv, NEW k \in Closers, Mcp!AskClose(k) PROVE MInv'
<1>1. /\ at.step = "done" /\ told[k] = "-"
      /\ told' = [told EXCEPT ![k] = IF phase = "closed" THEN "returned"
                                     ELSE IF Mcp!Asked THEN "waiting" ELSE "owner"]
      /\ UNCHANGED <<phase, at, lock, app, client, server, status, events, call>>
  BY DEF Mcp!AskClose
<1>2. McpTypes'
  BY <1>1, Typed DEF McpTypes
<1>3. McpPlaced'
  BY <1>1 DEF MInv, McpPlaced, Underway
<1>4. AppsSound' /\ Calling' /\ Closing'
  BY <1>1 DEF MInv, AppsSound, Calling, Mcp!CallsTold, Closing, Released
<1>5. Owned'
  <2>1. k \in DOMAIN told /\ DOMAIN told' = DOMAIN told
    BY <1>1, Typed DEF McpTypes
  <2>2. \A l \in DOMAIN told : told'[l] = IF l = k THEN IF phase = "closed" THEN "returned"
                                     ELSE IF Mcp!Asked THEN "waiting" ELSE "owner" ELSE told[l]
    BY <1>1, <2>1
  <2>3. Mcp!Failures' = Mcp!Failures
    BY <1>1 DEF Mcp!Failures
  <2>4. Owned
    BY DEF MInv
  <2>5. CASE phase = "closed"
    BY <1>1, <2>1, <2>2, <2>3, <2>4, <2>5 DEF Owned
  <2>6. CASE phase # "closed" /\ Mcp!Asked
    <3>1. \E l \in DOMAIN told : told[l] = "owner"
      BY <2>4, <2>6 DEF Owned, Mcp!Asked
    <3>2. \E l \in DOMAIN told' : told'[l] = "owner"
      BY <1>1, <2>1, <2>2, <3>1
    <3>3. QED
      BY <1>1, <2>1, <2>2, <2>4, <2>6, <3>2 DEF Owned
  <2>7. CASE phase # "closed" /\ ~Mcp!Asked
    BY <1>1, <2>1, <2>2, <2>4, <2>7 DEF Owned, Mcp!Asked
  <2>8. QED
    BY <2>5, <2>6, <2>7
<1>6. QED
  BY <1>1, <1>2, <1>3, <1>4, <1>5 DEF MInv, Mcp!EventsGated

LEMMA McpBeginClose == ASSUME MInv, Mcp!BeginClose PROVE MInv'
<1>1. /\ Mcp!Asked /\ ~Over(phase) /\ phase' = "closing" /\ lock = Mcp!Free
      /\ client' = [a \in Mcp!Apps |-> Mcp!Deactivated(client[a])]
      /\ UNCHANGED <<at, lock, app, server, status, events, call, told>>
  BY DEF Mcp!BeginClose, Mcp!Ending, Over
<1>2. ASSUME NEW a \in Mcp!Apps
      PROVE  /\ client'[a] = client[a] \/ client'[a] = [client[a] EXCEPT !.active = FALSE, !.generation = 2]
             /\ ~client'[a].active /\ client'[a].closed = client[a].closed
             /\ client'[a] \in ClientRecords
  <2>1. SoundAt(a) /\ client[a] \in ClientRecords /\ client'[a] = Mcp!Deactivated(client[a])
    BY <1>1, Typed, Apart
  <2>2. \/ ~client[a].active /\ client'[a] = client[a]
        \/ client'[a] = [client[a] EXCEPT !.active = FALSE, !.generation = 2]
    <3>1. client[a].active => client[a].generation = 1
      BY <1>1, <2>1, Typed DEF SoundAt, AppSound, Gated, Over, McpTypes
    <3>2. QED
      <4>1. CASE client[a].active
        <5>1. [client[a] EXCEPT !.active = FALSE, !.generation = @ + 1] = [client[a] EXCEPT !.active = FALSE, !.generation = 2]
          BY <2>1, <3>1, <4>1, NextGeneration
        <5>2. QED
          BY <2>1, <4>1, <5>1 DEF Mcp!Deactivated
      <4>2. CASE ~client[a].active
        BY <2>1, <4>2 DEF Mcp!Deactivated
      <4>3. QED
        BY <4>1, <4>2
  <2>3. QED
    BY <2>1, <2>2, InactiveClient
<1>3. McpTypes'
  <2>1. client' \in [Mcp!Apps -> ClientRecords]
    BY <1>1, <1>2
  <2>2. QED
    BY <1>1, <2>1, Typed DEF McpTypes
<1>4. McpPlaced'
  <2>1. \E k \in DOMAIN told : told[k] # "-"
    BY <1>1 DEF Mcp!Asked
  <2>2. QED
    BY <1>1, <2>1 DEF MInv, McpPlaced, Underway
<1>5. ASSUME NEW a \in Mcp!Apps PROVE SoundAt(a)'
  <2>1. SoundAt(a) /\ app[a] \in AppRecords /\ client[a] \in ClientRecords
    BY Typed, Apart
  <2>2. lock.app # a
    BY <1>1, FreeIsNoApp
  <2>3. CASE client'[a] = client[a]
    BY <1>1, <1>2, <2>1, <2>2, <2>3 DEF SoundAt, AppSound, Started, Known, Losses, AppStatus, Gated, Over
  <2>4. CASE client'[a] = [client[a] EXCEPT !.active = FALSE, !.generation = 2]
    BY <1>1, <2>1, <2>2, <2>4 DEF SoundAt, AppSound, Started, Known, Losses, AppStatus, Gated, Listed, Over, Underway,
         AppRecords, ClientRecords, Mcp!Apps
  <2>5. QED
    BY <1>2, <2>3, <2>4
<1>6. Calling'
  BY <1>1, CallFrame
<1>7. Closing'
  <2>1. \A a \in Mcp!Apps : ~client[a].closed
    BY <1>1, Apart DEF SoundAt, AppSound, Started
  <2>2. QED
    BY <1>1, <1>2, <2>1 DEF Closing
<1>8. Owned'
  <2>1. \E k \in DOMAIN told : told[k] = "owner"
    BY <1>1 DEF MInv, Owned, Mcp!Asked
  <2>2. QED
    BY <1>1, <2>1 DEF MInv, Owned, Over
<1>9. QED
  BY <1>1, <1>3, <1>4, <1>5, <1>6, <1>7, <1>8, AllParts DEF MInv, Mcp!EventsGated

Lemmas == INSTANCE ProofLemmas

\* The last app of those that are left to close.
LEMMA LastApp ==
  ASSUME NEW S, S # {}, S \subseteq Mcp!Apps, N \in Nat \ {0}
  PROVE  \E a \in S : \A b \in S : b <= a
<1> DEFINE T == {N - b : b \in S}
<1>1. \A b \in S : b \in Nat /\ b <= N
  BY DEF Mcp!Apps
<1>2. T # {} /\ T \subseteq Nat
  BY <1>1
<1> HIDE DEF T
<1>3. PICK n \in T : \A m \in T : n <= m
  BY <1>2, Lemmas!LeastNatural
<1>4. PICK a \in S : n = N - a
  BY <1>3 DEF T
<1>5. \A b \in S : N - a <= N - b
  BY <1>3, <1>4 DEF T
<1>6. QED
  BY <1>1, <1>4, <1>5

LEMMA McpCloseClient ==
  ASSUME N \in Nat \ {0}, MInv, NEW ok \in BOOLEAN, Mcp!CloseClient(ok)
  PROVE  MInv'
<1> DEFINE b == CHOOSE a \in Mcp!ToClose : \A c \in Mcp!ToClose : c <= a
           c2 == IF ok THEN [client[b] EXCEPT !.connected = FALSE, !.closed = TRUE, !.telling = FALSE,
                               !.queue = {}, !.handling = {}]
                 ELSE client[b]
           r2 == [app[b] EXCEPT !.state = IF ok THEN "closed" ELSE "close_failed"]
<1>1. /\ phase = "closing" /\ Mcp!ToClose # {}
      /\ client' = [client EXCEPT ![b] = c2] /\ app' = [app EXCEPT ![b] = r2]
      /\ UNCHANGED <<phase, at, lock, server, status, events, call, told>>
  BY DEF Mcp!CloseClient
<1>2. b \in Mcp!ToClose /\ \A c \in Mcp!ToClose : c <= b
  <2>1. Mcp!ToClose \subseteq Mcp!Apps
    BY DEF Mcp!ToClose
  <2>2. QED
    BY <1>1, <2>1, LastApp
<1>3. /\ b \in Mcp!Apps /\ client[b].open /\ ~client[b].closed /\ app[b].state # "close_failed"
      /\ \A a \in Mcp!Apps : b < a /\ client[a].open => Released(a)
  BY <1>2 DEF Mcp!ToClose, Released, Mcp!Apps
<1>4. client[b] \in ClientRecords /\ app[b] \in AppRecords
  BY <1>3, Typed
<1>5. c2 \in ClientRecords /\ r2 \in AppRecords /\ c2.open = client[b].open /\ (c2.closed <=> ok)
      /\ r2.tools = app[b].tools /\ r2.state = IF ok THEN "closed" ELSE "close_failed"
  <2>1. c2 \in ClientRecords /\ c2.open = client[b].open /\ (c2.closed <=> ok)
    <3>1. CASE ok
      BY <1>4, <3>1, ClosedClient
    <3>2. CASE ~ok
      BY <1>3, <1>4, <3>2
    <3>3. QED
      BY <3>1, <3>2
  <2>2. r2 \in AppRecords /\ r2.tools = app[b].tools /\ r2.state = IF ok THEN "closed" ELSE "close_failed"
    BY <1>4 DEF AppRecords
  <2>3. QED
    BY <2>1, <2>2
<1>6. /\ client'[b] = c2 /\ app'[b] = r2
      /\ \A a \in Mcp!Apps \ {b} : client'[a] = client[a] /\ app'[a] = app[a]
  BY <1>1, <1>3, Typed DEF McpTypes
<1> HIDE DEF b, c2, r2
<1>7. McpTypes'
  <2>1. client' \in [Mcp!Apps -> ClientRecords] /\ app' \in [Mcp!Apps -> AppRecords]
    BY <1>1, <1>5, Typed DEF McpTypes
  <2>2. QED
    BY <1>1, <2>1, Typed DEF McpTypes
<1>8. McpPlaced'
  BY <1>1 DEF MInv, McpPlaced, Underway
<1>9. ASSUME NEW a \in Mcp!Apps PROVE SoundAt(a)'
  <2>1. SoundAt(a) /\ app[a] \in AppRecords /\ client[a] \in ClientRecords
    BY Typed, Apart
  <2>2. CASE a # b
    BY <1>1, <1>6, <2>1, <2>2, AppFrame
  <2>3. CASE a = b
    <3>1. app'[a] = [app[a] EXCEPT !.state = IF ok THEN "closed" ELSE "close_failed"]
      BY <1>6, <2>3 DEF r2
    <3>2. client'[a] = IF ok THEN [client[a] EXCEPT !.connected = FALSE, !.closed = TRUE, !.telling = FALSE,
                               !.queue = {}, !.handling = {}]
                       ELSE client[a]
      BY <1>6, <2>3 DEF c2
    <3>3. client[a].open
      BY <1>3, <2>3
    <3>4. lock.app = a => phase = "running"
      BY <2>1 DEF SoundAt, AppSound, AppStatus
    <3>5. CASE ok
      <4>1. /\ app'[a] = [app[a] EXCEPT !.state = "closed"]
            /\ client'[a] = [client[a] EXCEPT !.connected = FALSE, !.closed = TRUE, !.telling = FALSE,
                                              !.queue = {}, !.handling = {}]
        BY <3>1, <3>2, <3>5
      <4>2. /\ app'[a].state = "closed" /\ app'[a].tools = app[a].tools /\ app'[a].restart = app[a].restart
            /\ client'[a].closed = TRUE /\ client'[a].telling = FALSE /\ client'[a].connected = FALSE
            /\ client'[a].queue = {} /\ client'[a].handling = {}
        BY <2>1, <4>1 DEF AppRecords, ClientRecords
      <4>3. /\ client'[a].open = client[a].open /\ client'[a].bound = client[a].bound
            /\ client'[a].lost = client[a].lost /\ client'[a].delivered = client[a].delivered
            /\ client'[a].active = client[a].active /\ client'[a].generation = client[a].generation
        BY <2>1, <4>1 DEF ClientRecords
      <4>4. QED
        BY <1>1, <2>1, <3>3, <3>4, <4>2, <4>3
        DEF SoundAt, AppSound, Started, Known, Losses, AppStatus, Gated, Listed, Over, Underway
    <3>6. CASE ~ok
      <4>1. app'[a] = [app[a] EXCEPT !.state = "close_failed"] /\ client'[a] = client[a]
        BY <3>1, <3>2, <3>6
      <4>2. QED
        BY <1>1, <2>1, <3>3, <3>4, <4>1 DEF SoundAt, AppSound, Started, Known, Losses, AppStatus, Gated, Listed, Over, Underway,
         AppRecords, ClientRecords, Mcp!Apps
    <3>7. QED
      BY <3>5, <3>6
  <2>4. QED
    BY <2>2, <2>3
<1>10. Calling'
  BY <1>1, <1>5, <1>6, CallFrame
<1>11. Closing'
  <2>1. \A a \in Mcp!Apps : Released(a) => Released(a)'
    BY <1>3, <1>6 DEF Released
  <2>2. \A a \in Mcp!Apps : a = b => Released(a)'
    BY <1>5, <1>6 DEF Released
  <2>3. \A a \in Mcp!Apps : client'[a].open = client[a].open
    BY <1>5, <1>6
  <2>4. \A a \in Mcp!Apps : client'[a].closed => client[a].closed \/ a = b
    BY <1>6
  <2>5. \A a, c \in Mcp!Apps : a < c /\ client'[a].closed /\ client'[c].open => Released(c)'
    BY <1>3, <2>1, <2>2, <2>3, <2>4 DEF MInv, Closing
  <2>6. QED
    BY <1>1, <2>5 DEF Closing
<1>12. Owned'
  BY <1>1 DEF MInv, Owned
<1>13. QED
  BY <1>1, <1>7, <1>8, <1>9, <1>10, <1>11, <1>12, AllParts DEF MInv, Mcp!EventsGated

LEMMA McpFinish == ASSUME MInv, Mcp!Finish PROVE MInv'
<1>1. /\ phase = "closing" /\ Mcp!ToClose = {} /\ phase' = "closed"
      /\ told' = [k \in DOMAIN told |-> Mcp!Answer(k)]
      /\ UNCHANGED <<at, lock, app, client, server, status, events, call>>
  BY DEF Mcp!Finish
<1>2. \A k \in DOMAIN told : told[k] \in {"-", "owner", "waiting"}
  BY <1>1 DEF MInv, Owned
<1>3. \A k \in DOMAIN told :
        /\ told'[k] = Mcp!Answer(k)
        /\ Mcp!Answer(k) \in {"-", "raised", "returned"}
        /\ Mcp!Answer(k) = "raised" => told[k] = "owner"
        /\ told[k] = "owner" /\ Mcp!Failures # {} => Mcp!Answer(k) = "raised"
  BY <1>1, <1>2 DEF Mcp!Answer
<1>4. DOMAIN told' = DOMAIN told /\ Mcp!Failures' = Mcp!Failures
  BY <1>1 DEF Mcp!Failures
<1>5. McpTypes'
  <2>1. DOMAIN told = Closers \cup {Mcp!Prepare}
    BY Typed DEF McpTypes
  <2>2. told' \in [Closers \cup {Mcp!Prepare} -> {"-", "owner", "waiting", "returned", "raised"}]
    BY <1>1, <1>3, <2>1
  <2>3. QED
    BY <1>1, <2>2, Typed DEF McpTypes
<1>6. McpPlaced'
  BY <1>1 DEF MInv, McpPlaced, Underway
<1>7. ASSUME NEW a \in Mcp!Apps PROVE SoundAt(a)'
  <2>1. SoundAt(a)
    BY Apart
  <2>2. QED
    BY <1>1, <2>1 DEF SoundAt, AppSound, Started, Known, Losses, AppStatus, Gated, Over
<1>8. Calling'
  BY <1>1, CallFrame
<1>9. Closing'
  <2>1. \A a \in Mcp!Apps : client[a].open => Released(a)
    BY <1>1 DEF Mcp!ToClose, Released
  <2>2. QED
    BY <1>1, <2>1 DEF MInv, Closing, Released
<1>10. Owned'
  <2>1. \E k \in DOMAIN told : told[k] = "owner"
    BY <1>1 DEF MInv, Owned
  <2>2. \A k, l \in DOMAIN told : told[k] = "owner" /\ told[l] = "owner" => k = l
    BY DEF MInv, Owned
  <2>3. QED
    BY <1>1, <1>3, <1>4, <2>1, <2>2 DEF Owned
<1>11. QED
  BY <1>1, <1>5, <1>6, <1>7, <1>8, <1>9, <1>10, AllParts DEF MInv, Mcp!EventsGated

-----------------------------------------------------------------------------
\* Servers, and the callbacks of their connections.

\* What only a server does.
LEMMA ServerMoves ==
  ASSUME MInv, NEW b \in Mcp!Apps, NEW s \in ServerRecords, server' = [server EXCEPT ![b] = s],
         s.listed = server[b].listed,
         s.alive => server[b].alive,
         Known(b, phase, at, app[b], client[b], s),
         UNCHANGED <<phase, at, lock, app, client, status, events, call, told>>
  PROVE  MInv'
<1>1. McpTypes'
  BY Typed DEF McpTypes
<1>2. ASSUME NEW a \in Mcp!Apps PROVE SoundAt(a)'
  <2>1. SoundAt(a)
    BY Apart
  <2>2. server'[a] = IF a = b THEN s ELSE server[a]
    BY Typed DEF McpTypes
  <2>3. QED
    BY <2>1, <2>2 DEF SoundAt, AppSound
<1>3. McpPlaced' /\ Closing' /\ Owned'
  BY <1>1, McpFrame
<1>4. Calling'
  BY CallFrame
<1>5. QED
  BY <1>1, <1>2, <1>3, <1>4, AllParts DEF MInv, Mcp!EventsGated

LEMMA McpChange == ASSUME MInv, NEW a \in Mcp!Apps, Mcp!Change(a) PROVE MInv'
<1> DEFINE s == [server[a] EXCEPT !.version = @ + 1,
                                  !.changes = IF Mcp!Notifies(a) THEN @ + 1 ELSE @]
<1>1. /\ server' = [server EXCEPT ![a] = s]
      /\ UNCHANGED <<phase, at, lock, app, client, status, events, call, told>>
  BY DEF Mcp!Change
<1>2. server[a] \in ServerRecords /\ SoundAt(a)
  BY Typed, Apart
<1>3. /\ s.changes = (IF Mcp!Notifies(a) THEN server[a].changes + 1 ELSE server[a].changes)
      /\ s.listed = server[a].listed /\ s.alive = server[a].alive /\ s \in ServerRecords
  <2> DEFINE n == IF Mcp!Notifies(a) THEN server[a].changes + 1 ELSE server[a].changes
             e == [server[a] EXCEPT !.version = @ + 1]
  <2>1. e \in ServerRecords /\ e.changes = server[a].changes
    BY <1>2 DEF ServerRecords
  <2>2. n \in Nat
    BY <1>2 DEF ServerRecords
  <2>3. s = [e EXCEPT !.changes = n]
    BY <1>1, <1>2 DEF ServerRecords
  <2>4. e.listed = server[a].listed /\ e.alive = server[a].alive
    BY <1>2 DEF ServerRecords
  <2> HIDE DEF n, e, s
  <2>5. [e EXCEPT !.changes = n] \in ServerRecords
    BY <2>1, <2>2 DEF ServerRecords
  <2>6. /\ [e EXCEPT !.changes = n].changes = n
        /\ [e EXCEPT !.changes = n].listed = e.listed /\ [e EXCEPT !.changes = n].alive = e.alive
    BY <2>1 DEF ServerRecords
  <2>7. QED
    BY <2>3, <2>4, <2>5, <2>6 DEF n
<1>4. Known(a, phase, at, app[a], client[a], s)
  <2>1. ASSUME Listed(a, at, app[a]) PROVE s.changes # 0
    <3>1. client[a].bound
      BY <1>2, <2>1 DEF Listed, SoundAt, AppSound, Started
    <3>2. at # [step |-> "flush", app |-> a]
      BY <1>2, <2>1 DEF Listed, SoundAt, AppSound, Started
    <3>3. Mcp!Notifies(a)
      BY <3>1, <3>2 DEF Mcp!Notifies
    <3>4. QED
      BY <1>2, <1>3, <3>3 DEF ServerRecords
  <2>2. QED
    BY <1>2, <2>1 DEF Known, SoundAt, AppSound
<1> HIDE DEF s
<1>5. QED
  BY <1>1, <1>3, <1>4, ServerMoves

LEMMA McpLose == ASSUME MInv, NEW a \in Mcp!Apps, Mcp!Lose(a) PROVE MInv'
<1> DEFINE s == [server[a] EXCEPT !.alive = FALSE, !.changes = 0, !.lost = TRUE]
<1>1. /\ server' = [server EXCEPT ![a] = s]
      /\ UNCHANGED <<phase, at, lock, app, client, status, events, call, told>>
  BY DEF Mcp!Lose
<1>2. server[a] \in ServerRecords /\ SoundAt(a)
  BY Typed, Apart
<1>3. s.listed = server[a].listed /\ s.alive = FALSE /\ s \in ServerRecords
  BY <1>2 DEF ServerRecords
<1> HIDE DEF s
<1>4. Known(a, phase, at, app[a], client[a], s)
  BY <1>2, <1>3 DEF Known, SoundAt, AppSound
<1>5. QED
  BY <1>1, <1>3, <1>4, ServerMoves

LEMMA McpNoticeCatalog == ASSUME MInv, NEW b \in Mcp!Apps, Mcp!NoticeCatalog(b) PROVE MInv'
<1> DEFINE s == [server[b] EXCEPT !.changes = @ - 1]
<1>0. server[b] \in ServerRecords /\ client[b] \in ClientRecords /\ app[b] \in AppRecords /\ SoundAt(b)
  BY Typed, Apart
<1>1. /\ server' = [server EXCEPT ![b] = s] /\ server[b].changes > 0
      /\ UNCHANGED <<phase, at, status, events, call, told>>
  BY DEF Mcp!NoticeCatalog
<1>2. s \in ServerRecords /\ s.alive = server[b].alive /\ s.version = server[b].version /\ s.listed = server[b].listed
  BY <1>0, <1>1 DEF ServerRecords
<1> HIDE DEF s
<1>3. server' \in [Mcp!Apps -> ServerRecords]
      /\ \A a \in Mcp!Apps : server'[a] = IF a = b THEN s ELSE server[a]
  BY <1>1, <1>2, Typed DEF McpTypes
<1>4. CASE ~client[b].bound
  <2> DEFINE c == [client[b] EXCEPT !.catalog = @ + 1]
  <2>1. client' = [client EXCEPT ![b] = c] /\ UNCHANGED <<app, lock>>
    BY <1>4 DEF Mcp!NoticeCatalog
  <2>2. c \in ClientRecords /\ c.closed = client[b].closed /\ c.open = client[b].open
    BY <1>0 DEF ClientRecords
  <2>3. \A a \in Mcp!Apps : client'[a] = IF a = b THEN c ELSE client[a]
    BY <2>1, Typed DEF McpTypes
  <2>4. McpTypes'
    BY <1>1, <1>3, <2>1, <2>2, Typed DEF McpTypes
  <2>5. ASSUME NEW a \in Mcp!Apps PROVE SoundAt(a)'
    <3>1. CASE a # b
      BY <1>1, <1>3, <2>1, <2>3, <3>1, AppFrame
    <3>2. CASE a = b
      <4>1. client'[a] = [client[a] EXCEPT !.catalog = @ + 1] /\ ~client[a].bound /\ client[a] \in ClientRecords
            /\ server'[a] = s /\ SoundAt(a)
        BY <1>0, <1>3, <1>4, <2>3, <3>2
      <4>2. ~Listed(a, at, app[a])
        BY <4>1 DEF Listed, SoundAt, AppSound, Started
      <4>3. /\ client'[a].open = client[a].open /\ client'[a].closed = client[a].closed
            /\ client'[a].bound = client[a].bound /\ client'[a].connected = client[a].connected
            /\ client'[a].lost = client[a].lost /\ client'[a].delivered = client[a].delivered
            /\ client'[a].telling = client[a].telling /\ client'[a].active = client[a].active
            /\ client'[a].generation = client[a].generation
            /\ client'[a].queue = client[a].queue /\ client'[a].handling = client[a].handling
        BY <4>1 DEF ClientRecords
      <4>4. QED
        BY <1>1, <2>1, <4>1, <4>2, <4>3 DEF SoundAt, AppSound, Started, Known, Losses, AppStatus, Gated
    <3>3. QED
      BY <3>1, <3>2
  <2>6. McpPlaced' /\ Closing' /\ Owned'
    BY <1>1, <2>1, <2>2, <2>3, <2>4, McpFrame
  <2>7. Calling'
    BY <1>1, <2>1, CallFrame
  <2>8. QED
    BY <1>1, <2>4, <2>5, <2>6, <2>7, AllParts DEF MInv, Mcp!EventsGated
<1>5. CASE client[b].bound
  <2> DEFINE r == Mcp!CatalogChanged(app[b])
  <2>1. /\ lock = Mcp!Free /\ app' = [app EXCEPT ![b] = r] /\ UNCHANGED client
        /\ lock' = IF phase = "running" /\ ~app[b].restart THEN [app |-> b, kind |-> "catalog"] ELSE Mcp!Free
    BY <1>5 DEF Mcp!NoticeCatalog
  <2>2. /\ Over(phase) => r = app[b]
        /\ phase \in {"preparing", "prepared"} => r = [app[b] EXCEPT !.changed = TRUE]
        /\ phase = "running" => r = [app[b] EXCEPT !.restart = TRUE]
    BY DEF Mcp!CatalogChanged, Mcp!Ending, Mcp!Starting, Over
  <2>3. Over(phase) \/ phase \in {"preparing", "prepared"} \/ phase = "running"
    BY Typed DEF McpTypes, Over
  <2>4. /\ r \in AppRecords /\ r.tools = app[b].tools /\ r.state = app[b].state /\ r.lost = app[b].lost
        /\ Over(phase) \/ r.changed \/ r.restart
        /\ Over(phase) => r.restart = app[b].restart
        /\ phase \in {"preparing", "prepared"} => r.restart = app[b].restart
        /\ phase = "running" => r.changed = app[b].changed /\ r.restart
        /\ app[b].restart => r.restart
    BY <1>0, <2>2, <2>3 DEF AppRecords
  <2> HIDE DEF r
  <2>5. \A a \in Mcp!Apps : app'[a] = IF a = b THEN r ELSE app[a]
    BY <2>1, Typed DEF McpTypes
  <2>6. McpTypes'
    BY <1>1, <1>3, <2>1, <2>4, Typed DEF McpTypes
  <2>7. ASSUME NEW a \in Mcp!Apps PROVE SoundAt(a)'
    <3>0. lock.app # a
      BY <2>1, FreeIsNoApp
    <3>1. CASE a # b
      <4>1. lock'.app # a
        BY <2>1, <3>0, <3>1
      <4>2. QED
        BY <1>1, <1>3, <2>1, <2>5, <3>0, <3>1, <4>1, AppFrame
    <3>2. CASE a = b
      <4>1. app'[a] = r /\ server'[a] = s /\ client'[a] = client[a] /\ status'[a] = status[a] /\ SoundAt(a)
        BY <1>0, <1>1, <1>3, <2>1, <2>5, <3>2
      <4>2. /\ lock'.app = a => phase = "running" /\ ~app[a].restart /\ lock'.kind = "catalog"
            /\ phase = "running" /\ ~app[a].restart => lock'.app = a
        BY <2>1, <3>0, <3>2
      <4>3. Known(a, phase, at, r, client[a], s)
        BY <2>3, <2>4, <3>2, <4>1 DEF SoundAt, AppSound, Known
      <4>4. AppStatus(a, phase, lock', r, status[a])
        <5>1. AppStatus(a, phase, lock, app[a], status[a])
          BY <4>1 DEF SoundAt, AppSound
        <5>2. app[a].restart => status[a].catalog > 0 \/ status[a].lost > 0 \/ status[a].refused # {}
          BY <3>0, <5>1 DEF AppStatus
        <5>3. ~app[a].restart => status[a].catalog = 0
          BY <5>1, Typed DEF AppStatus, StatusRecords
        <5>4. r.restart /\ ~app[a].restart => phase = "running"
          BY <2>3, <2>4, <3>2
        <5>5. QED
          BY <2>4, <3>2, <4>2, <5>1, <5>2, <5>3, <5>4 DEF AppStatus, Over
      <4>5. Started(a, phase, at, r, client[a]) /\ Losses(a, phase, at, r, client[a]) /\ Gated(a, phase, client[a])
        BY <2>4, <3>2, <4>1 DEF SoundAt, AppSound, Started, Losses, Listed
      <4>6. QED
        BY <1>1, <4>1, <4>3, <4>4, <4>5 DEF SoundAt, AppSound
    <3>3. QED
      BY <3>1, <3>2
  <2>8. McpPlaced' /\ Closing' /\ Owned'
    BY <1>1, <2>1, <2>4, <2>5, <2>6, McpFrame
  <2>9. Calling'
    BY <1>1, <2>1, <2>4, <2>5, CallFrame
  <2>10. QED
    BY <1>1, <2>6, <2>7, <2>8, <2>9, AllParts DEF MInv, Mcp!EventsGated
<1>6. QED
  BY <1>4, <1>5

\* What only a client does.
LEMMA ClientMoves ==
  ASSUME MInv, NEW b \in Mcp!Apps, NEW c \in ClientRecords, client' = [client EXCEPT ![b] = c],
         c.open = client[b].open, c.closed = client[b].closed,
         Started(b, phase, at, app[b], c), Losses(b, phase, at, app[b], c), Gated(b, phase, c),
         server' \in [Mcp!Apps -> ServerRecords],
         \A a \in Mcp!Apps : /\ server'[a].alive = server[a].alive /\ server'[a].changes = server[a].changes
                             /\ server'[a].version = server[a].version /\ server'[a].listed = server[a].listed,
         UNCHANGED <<phase, at, lock, app, status, told>>
  PROVE  /\ AppsSound' /\ McpPlaced' /\ Closing' /\ Owned'
         /\ call' \in [Calls -> CallRecords] => McpTypes'
<1>1. client' \in [Mcp!Apps -> ClientRecords] /\ \A a \in Mcp!Apps : client'[a] = IF a = b THEN c ELSE client[a]
  BY Typed DEF McpTypes
<1>2. call' \in [Calls -> CallRecords] => McpTypes'
  BY <1>1, Typed DEF McpTypes
<1>3. ASSUME NEW a \in Mcp!Apps PROVE SoundAt(a)'
  <2>1. SoundAt(a)
    BY Apart
  <2>2. CASE a # b
    BY <1>1, <2>1, <2>2 DEF SoundAt, AppSound, Known
  <2>3. CASE a = b
    BY <1>1, <2>1, <2>3 DEF SoundAt, AppSound, Known
  <2>4. QED
    BY <2>2, <2>3
<1>4. McpPlaced'
  BY DEF MInv, McpPlaced, Underway
<1>5. Closing'
  BY <1>1 DEF MInv, Closing, Released
<1>6. Owned'
  BY DEF MInv, Owned, Mcp!Failures
<1>7. QED
  BY <1>2, <1>3, <1>4, <1>5, <1>6, AllParts

\* A connection that is marked lost keeps what is said of it; that of an app whose tools are listed is
\* bound.
LEMMA MarkedLost ==
  ASSUME MInv, NEW a \in Mcp!Apps, client[a].open
  PROVE  LET c == Mcp!MarkLost(client[a]) IN
         /\ c \in ClientRecords /\ c.open = client[a].open /\ c.closed = client[a].closed
         /\ Started(a, phase, at, app[a], c) /\ Losses(a, phase, at, app[a], c) /\ Gated(a, phase, c)
<1> DEFINE c == Mcp!MarkLost(client[a])
<1>1. SoundAt(a) /\ app[a] \in AppRecords /\ client[a] \in ClientRecords
  BY Typed, Apart
<1>2. c \in ClientRecords /\ c.open = client[a].open /\ c.closed = client[a].closed
  BY <1>1, LostClient
<1>3. /\ c.connected = FALSE /\ c.lost = TRUE /\ c.bound = client[a].bound
      /\ c.telling = (client[a].telling \/ (client[a].bound /\ ~client[a].delivered))
      /\ c.delivered = (client[a].delivered \/ client[a].bound)
  BY <1>1 DEF Mcp!MarkLost, ClientRecords
<1>4. /\ c.active = client[a].active /\ c.generation = client[a].generation
      /\ c.queue = client[a].queue /\ c.handling = client[a].handling
  BY <1>1 DEF Mcp!MarkLost, ClientRecords
<1> HIDE DEF c
<1>5. Started(a, phase, at, app[a], c)
  BY <1>1, <1>2, <1>3 DEF SoundAt, AppSound, Started
<1>6. Losses(a, phase, at, app[a], c)
  BY <1>1, <1>2, <1>3 DEF SoundAt, AppSound, Started, Losses, Listed, ClientRecords
<1>7. Gated(a, phase, c)
  BY <1>1, <1>4 DEF SoundAt, AppSound, Gated
<1>8. QED
  BY <1>2, <1>5, <1>6, <1>7 DEF c

LEMMA McpNoticeLost == ASSUME MInv, NEW b \in Mcp!Apps, Mcp!NoticeLost(b) PROVE MInv'
<1> DEFINE s == [server[b] EXCEPT !.lost = FALSE]
           c == Mcp!MarkLost(client[b])
<1>1. /\ server' = [server EXCEPT ![b] = s] /\ client[b].open
      /\ client' = [client EXCEPT ![b] = c]
      /\ UNCHANGED <<phase, at, lock, app, status, events, call, told>>
  BY DEF Mcp!NoticeLost
<1>2. server[b] \in ServerRecords
  BY Typed
<1>3. /\ s \in ServerRecords /\ s.alive = server[b].alive /\ s.version = server[b].version
      /\ s.listed = server[b].listed /\ s.changes = server[b].changes
  BY <1>2 DEF ServerRecords
<1>4. /\ server' \in [Mcp!Apps -> ServerRecords]
      /\ \A a \in Mcp!Apps : /\ server'[a].alive = server[a].alive /\ server'[a].changes = server[a].changes
                             /\ server'[a].version = server[a].version /\ server'[a].listed = server[a].listed
  BY <1>1, <1>3, Typed DEF McpTypes
<1>5. /\ c \in ClientRecords /\ c.open = client[b].open /\ c.closed = client[b].closed
      /\ Started(b, phase, at, app[b], c) /\ Losses(b, phase, at, app[b], c) /\ Gated(b, phase, c)
  BY <1>1, MarkedLost
<1> HIDE DEF s, c
<1>6. AppsSound' /\ McpPlaced' /\ Closing' /\ Owned' /\ McpTypes'
  <2>1. call' \in [Calls -> CallRecords]
    BY <1>1, Typed DEF McpTypes
  <2>2. QED
    BY <1>1, <1>4, <1>5, <2>1, ClientMoves
<1>7. Calling'
  BY <1>1, CallFrame
<1>8. QED
  BY <1>1, <1>6, <1>7 DEF MInv, Mcp!EventsGated

LEMMA McpAnswered ==
  ASSUME MInv, NEW k \in Calls, NEW answer, Mcp!Answered(k, answer) PROVE MInv'
<1> DEFINE r == call[k]
           q == [r EXCEPT !.place = Mcp!Outcome(r, answer)]
<1>1. /\ r.place = "sent" /\ Mcp!Possible(r, answer)
      /\ call' = [call EXCEPT ![k] = q]
      /\ client' = IF answer = "lost" THEN [client EXCEPT ![r.to] = Mcp!MarkLost(@)] ELSE client
      /\ UNCHANGED <<phase, at, lock, app, server, status, events, told>>
  BY DEF Mcp!Answered
<1>2. r.to \in Mcp!Apps /\ app[r.to].tools /\ r \in CallRecords /\ call \in [Calls -> CallRecords]
  BY <1>1, Typed DEF MInv, Calling, McpTypes
<1>3. /\ Mcp!Outcome(r, answer) \in {"succeeded", "failed", "unknown"}
      /\ Mcp!Outcome(r, answer) = "succeeded" => r.effect
      /\ Mcp!Outcome(r, answer) = "failed" /\ r.effect => ~r.plain
  <2>1. CASE answer = "result"
    BY <1>1, <1>2, <2>1 DEF Mcp!Outcome, Mcp!Possible
  <2>2. CASE answer = "refused"
    BY <1>1, <1>2, <2>2 DEF Mcp!Outcome, Mcp!Possible
  <2>3. CASE answer \notin {"result", "refused"}
    BY <2>3 DEF Mcp!Outcome
  <2>4. QED
    BY <2>1, <2>2, <2>3
<1>4. q \in CallRecords /\ q.to = r.to /\ q.place = Mcp!Outcome(r, answer) /\ q.effect = r.effect /\ q.plain = r.plain
  BY <1>2, <1>3 DEF CallRecords
<1> HIDE DEF q
<1>5. call' \in [Calls -> CallRecords] /\ \A c \in Calls : call'[c] = IF c = k THEN q ELSE call[c]
  BY <1>1, <1>2, <1>4
<1>9. Calling'
  BY <1>1, <1>2, <1>3, <1>4, <1>5, CallSettles DEF MInv
<1>6. CASE answer # "lost"
  <2>1. UNCHANGED <<phase, at, lock, app, client, server, status, events, told>>
    BY <1>1, <1>6
  <2>2. McpTypes'
    BY <1>5, <2>1, Typed DEF McpTypes
  <2>3. AppsSound'
    BY <2>1 DEF MInv, AppsSound
  <2>4. McpPlaced' /\ Closing' /\ Owned'
    BY <2>1, <2>2, McpFrame
  <2>5. QED
    BY <1>9, <2>1, <2>2, <2>3, <2>4 DEF MInv, Mcp!EventsGated
<1>7. CASE answer = "lost"
  <2> DEFINE b == r.to
             c == Mcp!MarkLost(client[b])
  <2>1. client' = [client EXCEPT ![b] = c] /\ b \in Mcp!Apps
    BY <1>1, <1>2, <1>7
  <2>2. client[b].open
    BY <1>2, Apart DEF SoundAt, AppSound, Started
  <2>3. /\ c \in ClientRecords /\ c.open = client[b].open /\ c.closed = client[b].closed
        /\ Started(b, phase, at, app[b], c) /\ Losses(b, phase, at, app[b], c) /\ Gated(b, phase, c)
    BY <2>1, <2>2, MarkedLost
  <2> HIDE DEF b, c
  <2>4. server' \in [Mcp!Apps -> ServerRecords]
    BY <1>1, Typed DEF McpTypes
  <2>5. AppsSound' /\ McpPlaced' /\ Closing' /\ Owned' /\ McpTypes'
    BY <1>1, <1>5, <2>1, <2>3, <2>4, ClientMoves
  <2>6. QED
    BY <1>1, <1>9, <2>5 DEF MInv, Mcp!EventsGated
<1>8. QED
  BY <1>6, <1>7

LEMMA McpTellLost == ASSUME MInv, NEW b \in Mcp!Apps, Mcp!TellLost(b) PROVE MInv'
<1> DEFINE c == [client[b] EXCEPT !.telling = FALSE]
           r == Mcp!Disconnected(app[b])
<1>0. client[b] \in ClientRecords /\ app[b] \in AppRecords /\ status[b] \in StatusRecords /\ SoundAt(b)
  BY Typed, Apart
<1>1. /\ client[b].telling /\ lock = Mcp!Free
      /\ client' = [client EXCEPT ![b] = c] /\ app' = [app EXCEPT ![b] = r]
      /\ lock' = IF phase = "running" /\ app[b].state # "unavailable" THEN [app |-> b, kind |-> "lost"] ELSE Mcp!Free
      /\ UNCHANGED <<phase, at, server, status, events, call, told>>
  BY DEF Mcp!TellLost
<1>2. c \in ClientRecords /\ c.closed = client[b].closed /\ c.open = client[b].open
  BY <1>0 DEF ClientRecords
<1>3. /\ c.bound = client[b].bound /\ c.connected = client[b].connected /\ c.lost = client[b].lost
      /\ c.delivered = client[b].delivered /\ c.telling = FALSE
      /\ c.active = client[b].active /\ c.generation = client[b].generation
      /\ c.queue = client[b].queue /\ c.handling = client[b].handling
  BY <1>0 DEF ClientRecords
<1>4. Over(phase) \/ phase \in {"preparing", "prepared"} \/ phase = "running"
  BY Typed DEF McpTypes, Over
<1>5. /\ Over(phase) => r = app[b]
      /\ phase \in {"preparing", "prepared"} => r = [app[b] EXCEPT !.state = "unavailable", !.lost = TRUE]
      /\ phase = "running" => r = [app[b] EXCEPT !.state = "unavailable", !.restart = TRUE]
  BY DEF Mcp!Disconnected, Mcp!Ending, Mcp!Starting, Over
<1>6. /\ r \in AppRecords /\ r.tools = app[b].tools /\ r.changed = app[b].changed
      /\ Over(phase) => r.state = app[b].state
      /\ ~Over(phase) => r.state = "unavailable" /\ (r.lost \/ r.restart)
      /\ app[b].restart => r.restart
      /\ phase = "running" => r.lost = app[b].lost /\ r.restart
      /\ phase # "running" => r.restart = app[b].restart
  <2>1. CASE Over(phase)
    <3>1. phase # "running"
      BY <2>1 DEF Over
    <3>2. QED
      BY <1>0, <1>5, <2>1, <3>1
  <2>2. CASE phase \in {"preparing", "prepared"}
    BY <1>0, <1>5, <2>2 DEF AppRecords, Over
  <2>3. CASE phase = "running"
    BY <1>0, <1>5, <2>3 DEF AppRecords, Over
  <2>4. QED
    BY <1>4, <2>1, <2>2, <2>3
<1> HIDE DEF c, r
<1>7. /\ \A a \in Mcp!Apps : client'[a] = IF a = b THEN c ELSE client[a]
      /\ \A a \in Mcp!Apps : app'[a] = IF a = b THEN r ELSE app[a]
  BY <1>1, Typed DEF McpTypes
<1>8. McpTypes'
  BY <1>1, <1>2, <1>6, Typed DEF McpTypes
<1>9. ASSUME NEW a \in Mcp!Apps PROVE SoundAt(a)'
  <2>0. lock.app # a
    BY <1>1, FreeIsNoApp
  <2>1. CASE a # b
    <3>1. lock'.app # a
      BY <1>1, <2>0, <2>1
    <3>2. QED
      BY <1>1, <1>7, <2>0, <2>1, <3>1, AppFrame
  <2>2. CASE a = b
    <3>1. /\ app'[a] = r /\ client'[a] = c /\ UNCHANGED <<phase, at, server, status>> /\ SoundAt(a)
      BY <1>0, <1>1, <1>7, <2>2
    <3>2. /\ lock'.app = a => phase = "running" /\ app[a].state # "unavailable" /\ lock'.kind = "lost"
          /\ phase = "running" /\ app[a].state # "unavailable" => lock'.app = a
      BY <1>1, <2>0, <2>2
    <3>3. client[a].bound /\ client[a].open /\ client[a].lost /\ client[a].delivered
      BY <1>1, <2>2, <3>1 DEF SoundAt, AppSound, Started, Losses
    <3>4. ~Over(phase) => app[a].state \notin {"closed", "close_failed"} /\ ~client[a].closed
      BY <3>1 DEF SoundAt, AppSound, Started
    <3>5. Started(a, phase, at, r, c)
      BY <1>2, <1>3, <1>6, <2>2, <3>1, <3>3, <3>4 DEF SoundAt, AppSound, Started
    <3>6. Known(a, phase, at, r, c, server[a])
      BY <1>2, <1>3, <1>6, <2>2, <3>1 DEF SoundAt, AppSound, Known, Listed
    <3>7. Losses(a, phase, at, r, c)
      BY <1>2, <1>3, <1>6, <2>2, <3>1, <3>3 DEF SoundAt, AppSound, Losses, Listed
    <3>8. AppStatus(a, phase, lock', r, status[a])
      <4>1. AppStatus(a, phase, lock, app[a], status[a])
        BY <3>1 DEF SoundAt, AppSound
      <4>2. app[a].restart => status[a].catalog > 0 \/ status[a].lost > 0 \/ status[a].refused # {}
        BY <2>0, <4>1 DEF AppStatus
      <4>3. ~Over(phase) /\ app[a].state # "unavailable" => status[a].lost = 0
        BY <1>0, <2>2, <4>1 DEF AppStatus, StatusRecords
      <4>4. r.restart /\ lock'.app # a => app[a].restart
        <5>1. CASE phase = "running"
          <6>1. SUFFICES ASSUME app[a].state = "unavailable" PROVE app[a].restart
            BY <3>2, <5>1
          <6>2. ~app[a].lost /\ at.step # "failed" /\ ~Over(phase)
            BY <3>1, <5>1 DEF MInv, McpPlaced, SoundAt, AppSound, Known, Over
          <6>3. QED
            BY <3>1, <6>1, <6>2 DEF SoundAt, AppSound, Losses
        <5>2. CASE phase # "running"
          BY <1>6, <2>2, <5>2
        <5>3. QED
          BY <5>1, <5>2
      <4>5. phase = "running" => ~Over(phase)
        BY DEF Over
      <4>6. phase \in {"preparing", "prepared"} => r.restart = app[a].restart
        BY <1>6, <2>2
      <4>7. QED
        BY <1>6, <2>2, <3>2, <4>1, <4>2, <4>3, <4>4, <4>5, <4>6 DEF AppStatus
    <3>9. Gated(a, phase, c)
      BY <1>3, <2>2, <3>1 DEF SoundAt, AppSound, Gated
    <3>10. QED
      BY <3>1, <3>5, <3>6, <3>7, <3>8, <3>9 DEF SoundAt, AppSound
  <2>3. QED
    BY <2>1, <2>2
<1>10. McpPlaced' /\ Closing' /\ Owned'
  <2>1. \A a \in Mcp!Apps : app'[a].state = "close_failed" <=> app[a].state = "close_failed"
    <3>1. SUFFICES ASSUME ~Over(phase) PROVE r.state # "close_failed" /\ app[b].state # "close_failed"
      BY <1>6, <1>7
    <3>2. QED
      BY <1>0, <1>6, <3>1 DEF SoundAt, AppSound, Started
  <2>2. QED
    BY <1>1, <1>2, <1>7, <1>8, <2>1, McpFrame
<1>11. Calling'
  BY <1>1, <1>6, <1>7, CallFrame
<1>12. QED
  BY <1>1, <1>8, <1>9, <1>10, <1>11, AllParts DEF MInv, Mcp!EventsGated

LEMMA McpAppendStatus == ASSUME MInv, NEW ok \in BOOLEAN, Mcp!AppendStatus(ok) PROVE MInv'
<1> DEFINE b == lock.app
           st == IF ~ok THEN [status[b] EXCEPT !.refused = @ \cup {lock.kind}]
                 ELSE IF lock.kind = "lost" THEN [status[b] EXCEPT !.lost = @ + 1]
                 ELSE [status[b] EXCEPT !.catalog = @ + 1]
<1>1. /\ lock # Mcp!Free /\ status' = [status EXCEPT ![b] = st] /\ lock' = Mcp!Free
      /\ UNCHANGED <<phase, at, app, client, server, events, call, told>>
  BY DEF Mcp!AppendStatus
<1>2. b \in Mcp!Apps /\ lock.kind \in {"catalog", "lost"}
  BY <1>1, Typed DEF McpTypes
<1>3. status[b] \in StatusRecords /\ SoundAt(b)
  BY <1>2, Typed, Apart
<1>4. /\ phase = "running" /\ app[b].restart
      /\ lock.kind = "catalog" => status[b].catalog = 0
      /\ lock.kind = "lost" => status[b].lost = 0 /\ app[b].state = "unavailable"
  BY <1>3 DEF SoundAt, AppSound, AppStatus
<1>5. /\ st \in StatusRecords
      /\ st.catalog > 0 \/ st.lost > 0 \/ st.refused # {}
      /\ st.lost > status[b].lost => app[b].state = "unavailable"
  <2>1. CASE ~ok
    <3>1. st = [status[b] EXCEPT !.refused = @ \cup {lock.kind}]
      BY <2>1
    <3>2. QED
      BY <1>2, <1>3, <3>1 DEF StatusRecords
  <2>2. CASE ok /\ lock.kind = "lost"
    <3>1. st = [status[b] EXCEPT !.lost = 1]
      BY <1>4, <2>2
    <3>2. QED
      BY <1>3, <1>4, <2>2, <3>1 DEF StatusRecords
  <2>3. CASE ok /\ lock.kind = "catalog"
    <3>1. st = [status[b] EXCEPT !.catalog = 1]
      BY <1>4, <2>3
    <3>2. QED
      BY <1>3, <3>1 DEF StatusRecords
  <2>4. QED
    BY <1>2, <2>1, <2>2, <2>3
<1> HIDE DEF b, st
<1>6. \A a \in Mcp!Apps : status'[a] = IF a = b THEN st ELSE status[a]
  BY <1>1, Typed DEF McpTypes
<1>7. McpTypes'
  BY <1>1, <1>5, Typed DEF McpTypes
<1>8. ASSUME NEW a \in Mcp!Apps PROVE SoundAt(a)'
  <2>1. lock'.app # a
    BY <1>1, FreeIsNoApp
  <2>2. CASE a # b
    <3>1. lock.app # a
      BY <2>2 DEF b
    <3>2. QED
      BY <1>1, <1>6, <2>1, <2>2, <3>1, AppFrame
  <2>3. CASE a = b
    <3>1. AppStatus(a, phase, lock, app[a], status[a]) /\ status[a] \in StatusRecords
      BY <1>3, <2>3 DEF SoundAt, AppSound
    <3>2. ~(phase \in {"preparing", "prepared"}) /\ ~Over(phase)
      BY <1>4 DEF Over
    <3>3. st.lost > 0 => app[a].state = "unavailable"
      BY <1>5, <2>3, <3>1, <3>2 DEF AppStatus, StatusRecords
    <3>4. AppStatus(a, phase, lock', app[a], st)
      BY <1>4, <1>5, <2>1, <2>3, <3>2, <3>3 DEF AppStatus
    <3>5. SoundAt(a) /\ status'[a] = st
      BY <1>3, <1>6, <2>3
    <3>6. QED
      BY <1>1, <3>4, <3>5 DEF SoundAt, AppSound
  <2>4. QED
    BY <2>2, <2>3
<1>9. McpPlaced' /\ Closing' /\ Owned'
  BY <1>1, <1>7, McpFrame
<1>10. Calling'
  BY <1>1, CallFrame
<1>11. QED
  BY <1>1, <1>7, <1>8, <1>9, <1>10, AllParts DEF MInv, Mcp!EventsGated

LEMMA McpEvent == ASSUME MInv, NEW b \in Mcp!Apps, Mcp!Event(b) PROVE MInv'
<1> DEFINE n == server[b].sent + 1
           s == [server[b] EXCEPT !.sent = n]
           e == [id |-> n, stamp |-> client[b].generation, early |-> phase # "running"]
           q == IF b \in Modern /\ ~Mcp!Accepts(client[b], client[b].generation) THEN client[b].queue
                ELSE client[b].queue \cup {e}
           c == [client[b] EXCEPT !.queue = q]
<1>0. client[b] \in ClientRecords /\ server[b] \in ServerRecords /\ SoundAt(b)
  BY Typed, Apart
<1>1. server' = [server EXCEPT ![b] = s] /\ UNCHANGED <<phase, at, lock, app, status, events, call, told>>
  BY DEF Mcp!Event
<1>2. n \in Nat /\ s \in ServerRecords /\ s.sent = n
  BY <1>0 DEF ServerRecords
<1>3. /\ s.alive = server[b].alive /\ s.version = server[b].version
      /\ s.listed = server[b].listed /\ s.changes = server[b].changes
  BY <1>0 DEF ServerRecords
<1>4. /\ server' \in [Mcp!Apps -> ServerRecords] /\ server'[b].sent = n
      /\ \A a \in Mcp!Apps : /\ server'[a].alive = server[a].alive /\ server'[a].changes = server[a].changes
                             /\ server'[a].version = server[a].version /\ server'[a].listed = server[a].listed
  <2> HIDE DEF n, s
  <2>1. QED
    BY <1>1, <1>2, <1>3, Typed DEF McpTypes
<1>5. client' = [client EXCEPT ![b] = c]
  BY <1>4 DEF Mcp!Event
<1>6. e \in Arrivals
  BY <1>0, <1>2 DEF Arrivals, ClientRecords
<1>7. q \subseteq Arrivals
  BY <1>0, <1>6 DEF ClientRecords
<1>8. \A x \in q : b \in Modern => x.stamp = 1 /\ ~x.early
  <2>1. b \in Modern /\ Mcp!Accepts(client[b], client[b].generation) => e.stamp = 1 /\ ~e.early
    BY <1>0, Typed DEF SoundAt, AppSound, Gated, Mcp!Accepts, Over, McpTypes
  <2>2. \A x \in client[b].queue : b \in Modern => x.stamp = 1 /\ ~x.early
    BY <1>0 DEF SoundAt, AppSound, Gated
  <2>3. QED
    BY <2>1, <2>2
<1> HIDE DEF n, s, e, q
<1>9. c \in ClientRecords /\ c.open = client[b].open /\ c.closed = client[b].closed
  BY <1>0, <1>7 DEF ClientRecords
<1>10. /\ c.bound = client[b].bound /\ c.connected = client[b].connected /\ c.lost = client[b].lost
       /\ c.delivered = client[b].delivered /\ c.telling = client[b].telling
       /\ c.active = client[b].active /\ c.generation = client[b].generation
       /\ c.queue = q /\ c.handling = client[b].handling
  BY <1>0 DEF ClientRecords
<1> HIDE DEF c
<1>11. Started(b, phase, at, app[b], c) /\ Losses(b, phase, at, app[b], c) /\ Gated(b, phase, c)
  BY <1>0, <1>8, <1>9, <1>10 DEF SoundAt, AppSound, Started, Losses, Gated
<1>12. AppsSound' /\ McpPlaced' /\ Closing' /\ Owned' /\ McpTypes'
  <2>1. call' \in [Calls -> CallRecords]
    BY <1>1, Typed DEF McpTypes
  <2>2. QED
    BY <1>1, <1>4, <1>5, <1>9, <1>11, <2>1, ClientMoves
<1>13. Calling'
  BY <1>1, CallFrame
<1>14. QED
  BY <1>1, <1>12, <1>13 DEF MInv, Mcp!EventsGated

LEMMA McpDeliver == ASSUME MInv, NEW b \in Mcp!Apps, Mcp!Deliver(b) PROVE MInv'
<1>0. client[b] \in ClientRecords /\ SoundAt(b)
  BY Typed, Apart
<1>1. PICK e \in client[b].queue :
        client' = [client EXCEPT ![b].queue = @ \ {e},
                     ![b].handling = IF Mcp!Accepts(client[b], Mcp!Stamp(b, e))
                                     THEN @ \cup {[e EXCEPT !.stamp = client[b].generation]} ELSE @]
  BY DEF Mcp!Deliver
<1> DEFINE f == [e EXCEPT !.stamp = client[b].generation]
           q == client[b].queue \ {e}
           h == IF Mcp!Accepts(client[b], Mcp!Stamp(b, e)) THEN client[b].handling \cup {f} ELSE client[b].handling
           c == [client[b] EXCEPT !.queue = q, !.handling = h]
<1>2. UNCHANGED <<phase, at, lock, app, server, status, events, call, told>>
  BY DEF Mcp!Deliver
<1>3. client' = [client EXCEPT ![b] = c]
  BY <1>0, <1>1, Typed DEF McpTypes, ClientRecords
<1>4. e \in Arrivals /\ f \in Arrivals /\ f.stamp = client[b].generation /\ f.early = e.early
  BY <1>0 DEF Arrivals, ClientRecords
<1>5. q \subseteq Arrivals /\ h \subseteq Arrivals
  BY <1>0, <1>4 DEF ClientRecords
<1>6. \A x \in q : b \in Modern => x.stamp = 1 /\ ~x.early
  BY <1>0 DEF SoundAt, AppSound, Gated
<1>7. \A x \in h : x.stamp = 1 /\ (b \in Modern => ~x.early)
  <2>1. \A x \in client[b].handling : x.stamp = 1 /\ (b \in Modern => ~x.early)
    BY <1>0 DEF SoundAt, AppSound, Gated
  <2>2. Mcp!Accepts(client[b], Mcp!Stamp(b, e)) => client[b].generation = 1
    BY <1>0, Typed DEF SoundAt, AppSound, Gated, Mcp!Accepts, Over, McpTypes
  <2>3. b \in Modern => ~e.early
    BY <1>0 DEF SoundAt, AppSound, Gated
  <2>4. QED
    BY <1>4, <2>1, <2>2, <2>3
<1> HIDE DEF f, q, h
<1>8. c \in ClientRecords /\ c.open = client[b].open /\ c.closed = client[b].closed
  BY <1>0, <1>5 DEF ClientRecords
<1>9. /\ c.bound = client[b].bound /\ c.connected = client[b].connected /\ c.lost = client[b].lost
      /\ c.delivered = client[b].delivered /\ c.telling = client[b].telling
      /\ c.active = client[b].active /\ c.generation = client[b].generation
      /\ c.queue = q /\ c.handling = h
  BY <1>0 DEF ClientRecords
<1> HIDE DEF c
<1>10. Started(b, phase, at, app[b], c) /\ Losses(b, phase, at, app[b], c) /\ Gated(b, phase, c)
  BY <1>0, <1>6, <1>7, <1>8, <1>9 DEF SoundAt, AppSound, Started, Losses, Gated
<1>11. AppsSound' /\ McpPlaced' /\ Closing' /\ Owned' /\ McpTypes'
  <2>1. call' \in [Calls -> CallRecords] /\ server' \in [Mcp!Apps -> ServerRecords]
    BY <1>2, Typed DEF McpTypes
  <2>2. QED
    BY <1>2, <1>3, <1>8, <1>10, <2>1, ClientMoves
<1>12. Calling'
  BY <1>2, CallFrame
<1>13. QED
  BY <1>2, <1>11, <1>12 DEF MInv, Mcp!EventsGated

LEMMA McpRecord == ASSUME MInv, NEW b \in Mcp!Apps, NEW ok \in BOOLEAN, Mcp!Record(b, ok) PROVE MInv'
<1>0. client[b] \in ClientRecords /\ SoundAt(b)
  BY Typed, Apart
<1>1. PICK e \in client[b].handling :
        /\ client' = [client EXCEPT ![b].handling = @ \ {e}]
        /\ events' = IF ok THEN events \cup {[app |-> b, id |-> e.id, early |-> e.early, accepted |-> e.stamp]}
                     ELSE events
  BY DEF Mcp!Record
<1> DEFINE h == client[b].handling \ {e}
           c == [client[b] EXCEPT !.handling = h]
<1>2. UNCHANGED <<phase, at, lock, app, server, status, call, told>>
  BY DEF Mcp!Record
<1>3. client' = [client EXCEPT ![b] = c]
  BY <1>1
<1>4. h \subseteq client[b].handling /\ e.stamp = 1 /\ (b \in Modern => ~e.early)
  BY <1>0 DEF SoundAt, AppSound, Gated
<1>5. h \subseteq Arrivals
  BY <1>0, <1>4 DEF ClientRecords
<1> HIDE DEF h
<1>6. c \in ClientRecords /\ c.open = client[b].open /\ c.closed = client[b].closed
  BY <1>0, <1>5 DEF ClientRecords
<1>7. /\ c.bound = client[b].bound /\ c.connected = client[b].connected /\ c.lost = client[b].lost
      /\ c.delivered = client[b].delivered /\ c.telling = client[b].telling
      /\ c.active = client[b].active /\ c.generation = client[b].generation
      /\ c.queue = client[b].queue /\ c.handling = h
  BY <1>0 DEF ClientRecords
<1> HIDE DEF c
<1>8. Started(b, phase, at, app[b], c) /\ Losses(b, phase, at, app[b], c) /\ Gated(b, phase, c)
  BY <1>0, <1>4, <1>6, <1>7 DEF SoundAt, AppSound, Started, Losses, Gated
<1>9. AppsSound' /\ McpPlaced' /\ Closing' /\ Owned' /\ McpTypes'
  <2>1. call' \in [Calls -> CallRecords] /\ server' \in [Mcp!Apps -> ServerRecords]
    BY <1>2, Typed DEF McpTypes
  <2>2. QED
    BY <1>2, <1>3, <1>6, <1>8, <2>1, ClientMoves
<1>10. Calling'
  BY <1>2, CallFrame
<1>11. Mcp!EventsGated'
  BY <1>1, <1>4 DEF MInv, Mcp!EventsGated
<1>12. QED
  BY <1>9, <1>10, <1>11 DEF MInv

\* What only the call does.
LEMMA CallMoves ==
  ASSUME MInv, Calling',
         call' \in [Calls -> CallRecords],
         UNCHANGED <<phase, at, lock, app, client, server, status, events, told>>
  PROVE  MInv'
<1>1. McpTypes'
  BY Typed DEF McpTypes
<1>2. AppsSound'
  BY DEF MInv, AppsSound
<1>3. McpPlaced' /\ Closing' /\ Owned'
  BY <1>1, McpFrame
<1>4. QED
  BY <1>1, <1>2, <1>3 DEF MInv, Mcp!EventsGated

LEMMA McpExecute ==
  ASSUME MInv, NEW k \in Calls, NEW a \in Mcp!Apps, Mcp!Execute(k, a) PROVE MInv'
<1> DEFINE r == call[k]
           q == [r EXCEPT !.to = a, !.place = IF client[a].connected THEN "sent" ELSE "failed"]
<1>1. /\ r.place = "none" /\ app[a].tools
      /\ call' = [call EXCEPT ![k].to = a, ![k].place = IF client[a].connected THEN "sent" ELSE "failed"]
      /\ UNCHANGED <<phase, at, lock, app, client, server, status, events, told>>
  BY DEF Mcp!Execute
<1>2. a \in 0..N /\ r \in CallRecords /\ call \in [Calls -> CallRecords]
  BY Typed DEF Mcp!Apps, McpTypes
<1>3. ~r.effect
  BY <1>1 DEF MInv, Calling
<1>4. q \in CallRecords /\ q.to = a /\ q.place \in {"sent", "failed"} /\ q.effect = r.effect
  BY <1>2 DEF CallRecords
<1>5. call' = [call EXCEPT ![k] = q]
  BY <1>1, <1>2
<1> HIDE DEF q
<1>6. call' \in [Calls -> CallRecords] /\ \A c \in Calls : call'[c] = IF c = k THEN q ELSE call[c]
  BY <1>2, <1>4, <1>5
<1>7. Calling'
  BY <1>1, <1>3, <1>4, <1>6, CallSettles DEF MInv
<1>8. QED
  BY <1>1, <1>6, <1>7, CallMoves

LEMMA McpTakeEffect ==
  ASSUME MInv, NEW k \in Calls, NEW plain \in BOOLEAN, Mcp!TakeEffect(k, plain) PROVE MInv'
<1> DEFINE r == call[k]
           q == [r EXCEPT !.effect = TRUE, !.plain = plain]
<1>1. /\ r.place = "sent" /\ call' = [call EXCEPT ![k].effect = TRUE, ![k].plain = plain]
      /\ UNCHANGED <<phase, at, lock, app, client, server, status, events, told>>
  BY DEF Mcp!TakeEffect
<1>2. r \in CallRecords /\ call \in [Calls -> CallRecords] /\ r.to \in Mcp!Apps /\ app[r.to].tools
  BY <1>1, Typed DEF MInv, Calling, McpTypes
<1>3. q \in CallRecords /\ q.to = r.to /\ q.place = "sent"
  BY <1>1, <1>2 DEF CallRecords
<1>4. call' = [call EXCEPT ![k] = q]
  BY <1>1, <1>2
<1> HIDE DEF q
<1>5. call' \in [Calls -> CallRecords] /\ \A c \in Calls : call'[c] = IF c = k THEN q ELSE call[c]
  BY <1>2, <1>3, <1>4
<1>6. Calling'
  BY <1>1, <1>2, <1>3, <1>5, CallSettles DEF MInv
<1>7. QED
  BY <1>1, <1>5, <1>6, CallMoves

-----------------------------------------------------------------------------
LEMMA McpStart == ASSUME N \in Nat \ {0}, Mcp!Init PROVE MInv
<1>1. /\ phase = "preparing" /\ at = [step |-> "open", app |-> 1] /\ lock = Mcp!Free /\ events = {}
      /\ call = [c \in Calls |-> [to |-> 0, place |-> "none", effect |-> FALSE, plain |-> TRUE]]
      /\ told = [k \in Closers \cup {Mcp!Prepare} |-> "-"]
  BY DEF Mcp!Init
<1>2. ASSUME NEW a \in Mcp!Apps
      PROVE  /\ app[a] = [state |-> "disabled", changed |-> FALSE, lost |-> FALSE, restart |-> FALSE, tools |-> FALSE]
             /\ client[a] = [open |-> FALSE, connected |-> FALSE, bound |-> FALSE, catalog |-> 0, lost |-> FALSE,
                             telling |-> FALSE, delivered |-> FALSE, closed |-> FALSE, generation |-> 0,
                             active |-> FALSE, queue |-> {}, handling |-> {}]
             /\ server[a] = [alive |-> TRUE, version |-> 0, listed |-> 0, changes |-> 0, lost |-> FALSE, sent |-> 0]
             /\ status[a] = [catalog |-> 0, lost |-> 0, refused |-> {}]
  BY DEF Mcp!Init
<1>3. app \in [Mcp!Apps -> AppRecords]
  BY <1>2 DEF Mcp!Init, AppRecords
<1>4. client \in [Mcp!Apps -> ClientRecords]
  BY <1>2 DEF Mcp!Init, ClientRecords
<1>5. server \in [Mcp!Apps -> ServerRecords] /\ status \in [Mcp!Apps -> StatusRecords]
  BY <1>2 DEF Mcp!Init, ServerRecords, StatusRecords
<1>6. McpTypes
  BY <1>1, <1>3, <1>4, <1>5 DEF McpTypes, CallRecords, Mcp!Apps
<1>7. AppsSound
  <2>1. ASSUME NEW a \in Mcp!Apps PROVE SoundAt(a)
    <3>1. lock.app # a
      BY <1>1, FreeIsNoApp
    <3>2. QED
      BY <1>1, <1>2, <3>1 DEF SoundAt, AppSound, Started, Known, Losses, AppStatus, Gated, Listed, Over, Underway
  <2>2. QED
    BY <2>1 DEF AppsSound, SoundAt
<1>8. McpPlaced
  BY <1>1 DEF McpPlaced, Underway
<1>9. Calling
  BY <1>1 DEF Calling, Mcp!CallsTold
<1>10. Closing
  BY <1>1, <1>2 DEF Closing
<1>11. Owned
  BY <1>1 DEF Owned
<1>12. QED
  BY <1>1, <1>6, <1>7, <1>8, <1>9, <1>10, <1>11 DEF MInv, Mcp!EventsGated

LEMMA McpStep == ASSUME N \in Nat \ {0}, MInv, Mcp!Next \/ UNCHANGED Mcp!vars PROVE MInv'
<1>1. CASE Mcp!Runtime
  BY <1>1, McpOpen, McpBind, McpFlush, McpListTools, McpRegister, McpFreeze, McpBeginClose, McpCloseClient,
     McpAppendStatus, McpFinish DEF Mcp!Runtime
<1>2. CASE \E cancelled \in BOOLEAN : Mcp!PrepareFails(cancelled)
  BY <1>2, McpPrepareFails
<1>3. CASE Mcp!Activate
  BY <1>3, McpActivate
<1>4. CASE \E k \in Closers : Mcp!AskClose(k)
  BY <1>4, McpAskClose
<1>5. CASE \E a \in Mcp!Apps : Mcp!Callbacks(a)
  BY <1>5, McpNoticeCatalog, McpNoticeLost, McpTellLost, McpDeliver, McpRecord DEF Mcp!Callbacks
<1>6. CASE \E a \in Mcp!Apps : Mcp!Change(a) \/ Mcp!Lose(a) \/ Mcp!Event(a)
  BY <1>6, McpChange, McpLose, McpEvent
<1>7. CASE \E c \in Calls :
             \/ \E a \in Mcp!Apps : Mcp!Execute(c, a)
             \/ \E plain \in BOOLEAN : Mcp!TakeEffect(c, plain)
             \/ \E answer \in {"result", "refused", "lost", "timeout"} : Mcp!Answered(c, answer)
  BY <1>7, McpExecute, McpTakeEffect, McpAnswered
<1>8. CASE UNCHANGED Mcp!vars
  <2>1. UNCHANGED <<phase, at, lock, app, client, server, status, events, call, told>>
    BY <1>8 DEF Mcp!vars
  <2>2. Calling'
    BY <2>1, CallFrame
  <2>3. call' = call
    BY <2>1
  <2>4. QED
    BY <2>1, <2>2, <2>3, CallMoves, Typed DEF McpTypes
<1>9. CASE \E a \in Mcp!Apps : Mcp!Callbacks(a) \/ Mcp!Change(a) \/ Mcp!Lose(a) \/ Mcp!Event(a)
  BY <1>5, <1>6, <1>9
<1>10. CASE Mcp!Preparing
  BY <1>1, <1>2, <1>10 DEF Mcp!Preparing
<1>11. QED
  BY <1>3, <1>4, <1>7, <1>8, <1>9, <1>10 DEF Mcp!Next

\* A set with exactly one of a kind.
LEMMA OneOf ==
  ASSUME NEW S, NEW x \in S, \A y \in S : y = x
  PROVE  Cardinality(S) = 1
<1>1. S = {x}
  OBVIOUS
<1>2. QED
  BY <1>1, FS_Singleton

LEMMA McpSoundOfMInv == ASSUME MInv PROVE McpSound
<1>0. \A s : Mcp!Cardinality(s) = Cardinality(s)
  BY DEF Mcp!Cardinality, Cardinality
<1>1. Mcp!TypeOK
  <2>1. \A a \in Mcp!Apps : app[a] \in AppRecords /\ client[a] \in ClientRecords /\ server[a] \in ServerRecords
    BY Typed
  <2>2. QED
    BY <2>1, Typed DEF McpTypes, Mcp!TypeOK, AppRecords, ClientRecords, ServerRecords, CallRecords
<1>2. Mcp!NoticesKept
  <2>1. ASSUME NEW a \in Mcp!Apps
        PROVE  /\ ~Mcp!Ending /\ app[a].tools /\ Mcp!Reachable(a) /\ server[a].changes = 0
                    /\ server[a].version # server[a].listed => app[a].changed \/ app[a].restart
               /\ ~Mcp!Ending /\ app[a].tools /\ client[a].lost /\ ~client[a].telling =>
                    app[a].state = "unavailable"
               /\ phase = "running" => ~app[a].changed /\ ~app[a].lost
    <3>1. SoundAt(a)
      BY Apart
    <3>2. QED
      BY <3>1 DEF SoundAt, AppSound, Known, Losses, Listed, Over, Mcp!Ending, Mcp!Reachable
  <2>2. QED
    BY <2>1 DEF Mcp!NoticesKept
<1>3. Mcp!StatusTold
  <2>1. ASSUME NEW a \in Mcp!Apps
        PROVE  /\ status[a].catalog <= 1 /\ status[a].lost <= 1
               /\ app[a].restart /\ lock.app # a =>
                    status[a].catalog + status[a].lost + Cardinality(status[a].refused) >= 1
    <3>1. SoundAt(a) /\ status[a] \in StatusRecords
      BY Apart, Typed
    <3>2. /\ status[a].catalog \in 0..1 /\ status[a].lost \in 0..1
          /\ status[a].refused \subseteq {"catalog", "lost"}
      BY <3>1 DEF StatusRecords
    <3>3. IsFiniteSet(status[a].refused)
      <4>1. IsFiniteSet({"catalog", "lost"})
        <5>1. IsFiniteSet({"catalog"})
          BY FS_Singleton
        <5>2. {"catalog", "lost"} = {"catalog"} \cup {"lost"}
          OBVIOUS
        <5>3. QED
          BY <5>1, <5>2, FS_AddElement
      <4>2. QED
        BY <3>2, <4>1, FS_Subset
    <3>4. /\ Cardinality(status[a].refused) \in Nat
          /\ status[a].refused # {} => Cardinality(status[a].refused) # 0
      BY <3>3, FS_CardinalityType, FS_EmptySet
    <3>5. app[a].restart /\ lock.app # a =>
            status[a].catalog > 0 \/ status[a].lost > 0 \/ status[a].refused # {}
      BY <3>1 DEF SoundAt, AppSound, AppStatus
    <3>6. QED
      BY <3>2, <3>4, <3>5
  <2>2. QED
    BY <1>0, <2>1 DEF Mcp!StatusTold
<1>4. Mcp!CloseReleases
  <2>1. \A a, b \in Mcp!Apps : a < b /\ client[a].closed /\ client[b].open => Released(b)
    BY DEF MInv, Closing
  <2>2. ASSUME phase = "closed"
        PROVE  /\ \A a \in Mcp!Apps : ~client[a].active /\ (client[a].open => Released(a))
               /\ Mcp!Failures # {} => Cardinality({k \in DOMAIN told : told[k] = "raised"}) = 1
    <3>1. \A a \in Mcp!Apps : ~client[a].active
      BY <2>2, Apart DEF SoundAt, AppSound, Gated, Over
    <3>2. \A a \in Mcp!Apps : client[a].open => Released(a)
      BY <2>2 DEF MInv, Closing
    <3>3. ASSUME Mcp!Failures # {} PROVE Cardinality({k \in DOMAIN told : told[k] = "raised"}) = 1
      <4>1. PICK k \in DOMAIN told : told[k] = "raised"
        BY <2>2, <3>3 DEF MInv, Owned
      <4>2. \A l \in {j \in DOMAIN told : told[j] = "raised"} : l = k
        BY <2>2, <4>1 DEF MInv, Owned
      <4>3. QED
        BY <4>1, <4>2, OneOf
    <3>4. QED
      BY <3>1, <3>2, <3>3
  <2>3. QED
    BY <1>0, <2>1, <2>2 DEF Mcp!CloseReleases, Released
<1>5. QED
  BY <1>1, <1>2, <1>3, <1>4 DEF McpSound, Mcp!AppsKnown, Mcp!TrafficSound, MInv, Calling

\* For any number of apps of either protocol and of calls, however often their servers change what they
\* offer, whatever they send or lose and whoever asks for the end: what the runtime knows of them is complete, no event passes a shut gate, calls are
\* told as they happened, and everything opened is released and reported (MCPRuntime, EventGate,
\* SdkMcpClient).
THEOREM McpIsSound ==
  ASSUME N \in Nat \ {0}
  PROVE  Mcp!Spec => []McpSound
<1>1. Mcp!Init => MInv
  BY McpStart
<1>2. MInv /\ [Mcp!Next]_Mcp!vars => MInv'
  BY McpStep
<1>3. MInv => McpSound
  BY McpSoundOfMInv
<1>4. QED
  BY <1>1, <1>2, <1>3, PTL DEF Mcp!Spec
=============================================================================
