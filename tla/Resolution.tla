----------------------------- MODULE Resolution -----------------------------
(***************************************************************************)
(* How aurora_kernel turns declarations into a plan (resolve.py) and call  *)
(* routes (calls.py): optional modules that miss something are skipped,    *)
(* one provider is chosen per capability, shadowed providers drop out, the *)
(* rest is checked, sorted for construction and again for each phase.      *)
(***************************************************************************)
EXTENDS Integers, FiniteSets, Sequences, SequencesExt

CONSTANT Listings     \* lists of declarations, each with an id of its own

VARIABLES
  listed,     \* the declarations as they were found
  stage,      \* how far resolve() is, or "refused" or "done"
  left,       \* what remains after the skipping, in the listed order
  providers,  \* capability -> module
  order,      \* construction order
  plan,       \* phase -> order of its participants
  routes      \* call point -> its implementations, in calling order

vars == <<listed, stage, left, providers, order, plan, routes>>

Init ==
  /\ listed \in Listings
  /\ stage = "skip"
  /\ left = listed
  /\ providers = <<>>
  /\ order = <<>>
  /\ plan = <<>>
  /\ routes = <<>>

-----------------------------------------------------------------------------
IdsOf(specs) == {specs[i].id : i \in DOMAIN specs}
Declaration(m) == CHOOSE s \in ToSet(listed) : s.id = m
Offered(specs) == UNION {specs[i].provides : i \in DOMAIN specs}

\* Operators named Bug_... are one-slip variants of the operator that follows
\* them; no action uses them.

\* Judged by the whole listing, and not by what is left of it.
Bug_Unsatisfied(s, specs) ==
  s.optional /\ (s.requires \ Offered(listed) # {} \/ s.depends \ IdsOf(listed) # {})
Unsatisfied(s, specs) ==
  s.optional /\ (s.requires \ Offered(specs) # {} \/ s.depends \ IdsOf(specs) # {})

\* _drop_unsatisfied_optional: one round.
Skip ==
  /\ stage = "skip"
  /\ LET stay == SelectSeq(left, LAMBDA s : ~Unsatisfied(s, left)) IN
     /\ left' = stay
     /\ stage' = IF stay = left THEN "provide" ELSE "skip"
  /\ UNCHANGED <<listed, providers, order, plan, routes>>

Candidates(c) == {s \in ToSet(left) : c \in s.provides}
Best(c) == {s \in Candidates(c) : \A t \in Candidates(c) : t.priority <= s.priority}

\* _providers: two candidates of the highest priority are refused.
Provide ==
  /\ stage = "provide"
  /\ IF \A c \in Offered(left) : Cardinality(Best(c)) = 1
     THEN /\ providers' = [c \in Offered(left) |-> (CHOOSE s \in Best(c) : TRUE).id]
          /\ stage' = "check"
     ELSE stage' = "refused" /\ UNCHANGED providers
  /\ UNCHANGED <<listed, left, order, plan, routes>>

\* A module whose capabilities are all provided by others is left out, unless
\* it does something else.
Active ==
  {s \in ToSet(left) :
     \/ s.provides = {} \/ s.contributes # {} \/ s.handlers # <<>> \/ s.points # {}
     \/ \E c \in s.provides : providers[c] = s.id}
ActiveIds == {s.id : s \in Active}

Declarers(k) == {s \in ToSet(left) : k \in s.declares}

\* _validate_requires and _validate_declarations: contribution points belong
\* to the modules that were available, active or not.
Complete ==
  /\ \A s \in Active :
       /\ s.id \notin s.depends /\ s.depends \subseteq ActiveIds
       /\ s.requires \subseteq DOMAIN providers
       /\ \A k \in s.contributes \cup s.consumes : Declarers(k) # {}
  /\ \A s \in ToSet(left) : \A k \in s.declares : Cardinality(Declarers(k)) = 1

Check ==
  /\ stage = "check"
  /\ stage' = IF Complete THEN "sort" ELSE "refused"
  /\ UNCHANGED <<listed, left, providers, order, plan, routes>>

-----------------------------------------------------------------------------
\* _topological: of those that wait for nothing, the first in the input.
Ready(input, needs, done) ==
  {i \in DOMAIN input :
     /\ input[i] \notin ToSet(done)
     /\ needs[input[i]] \cap ToSet(input) \subseteq ToSet(done) \cup {input[i]}}

First(ready) == CHOOSE i \in ready : \A j \in ready : i <= j

Topological(input, needs) ==
  LET pop[n \in 0..Len(input)] ==
        IF n = 0 THEN <<>>
        ELSE LET ready == Ready(input, needs, pop[n - 1]) IN
             IF ready = {} THEN pop[n - 1] ELSE Append(pop[n - 1], input[First(ready)])
  IN pop[Len(input)]

\* _construction_dependencies.
Needs(s) ==
  s.depends \cup {providers[c] : c \in s.requires}
            \cup {t.id : t \in {u \in Active : u.contributes \cap s.consumes # {}}}
ConstructionNeeds == [m \in ActiveIds |-> Needs(Declaration(m))]

Sort ==
  /\ stage = "sort"
  /\ LET sorted == Topological(SetToSortSeq(ActiveIds, <), ConstructionNeeds) IN
     IF Len(sorted) = Cardinality(ActiveIds)
     THEN order' = sorted /\ stage' = "plan"
     ELSE stage' = "refused" /\ UNCHANGED order
  /\ UNCHANGED <<listed, left, providers, plan, routes>>

Phases == {"activate", "close"}

\* _ordering_dependencies; an ordering names capabilities, provided or not.
PhaseNeeds(phase) ==
  [m \in ActiveIds |->
     {providers[c] : c \in {a.after : a \in {o \in Declaration(m).order : o.phase = phase}} \cap DOMAIN providers}]

\* _phase_modules: constructed order, or its reverse for a shutdown phase.
PhaseOrder(phase) ==
  LET base == IF phase = "close" THEN Reverse(order) ELSE order
  IN Topological(SelectSeq(base, LAMBDA m : phase \in Declaration(m).hooks), PhaseNeeds(phase))

Participants(phase) == {m \in ActiveIds : phase \in Declaration(m).hooks}

Plan ==
  /\ stage = "plan"
  /\ IF \A p \in Phases : Len(PhaseOrder(p)) = Cardinality(Participants(p))
     THEN plan' = [p \in Phases |-> PhaseOrder(p)] /\ stage' = "route"
     ELSE stage' = "refused" /\ UNCHANGED plan
  /\ UNCHANGED <<listed, left, providers, order, routes>>

-----------------------------------------------------------------------------
\* Calls: the active modules in construction order; one point per name.
\* A call point bears the name of the module that declares it.
Points == UNION {s.points : s \in Active}
\* A module may implement a point more than once, in the order of its
\* declaration.
Declared(m, p) ==
  LET all == Declaration(m).handlers IN
  SelectSeq([k \in DOMAIN all |-> [id |-> m, nth |-> k, target |-> all[k].target, priority |-> all[k].priority]],
            LAMBDA h : h.target = p.name)
HandlersOf(p) == FlattenSeq([i \in DOMAIN order |-> Declared(order[i], p)])

\* Sorted by priority alone; the sort is stable.
Bug_Precedes(all, i, j) ==
  all[i].priority > all[j].priority \/ (all[i].priority = all[j].priority /\ i > j)
Precedes(all, i, j) ==
  all[i].priority > all[j].priority \/ (all[i].priority = all[j].priority /\ i < j)

ByPriority(p) ==
  LET all == HandlersOf(p)
      places == SortSeq([i \in DOMAIN all |-> i], LAMBDA i, j : Precedes(all, i, j))
  IN [i \in DOMAIN all |-> all[places[i]]]

Routable(p) ==
  p.mode = "single" =>
    LET all == ByPriority(p)
    IN all # <<>> /\ (Len(all) > 1 => all[1].priority # all[2].priority)

\* _select.
Selected(p) == IF p.mode = "single" THEN <<Head(ByPriority(p))>> ELSE ByPriority(p)

Route ==
  /\ stage = "route"
  /\ IF /\ \A s \in Active : \A h \in ToSet(s.handlers) : \E p \in Points : p.name = h.target
        /\ \A p \in Points : Routable(p)
     THEN /\ routes' = [n \in {p.name : p \in Points} |-> Selected(CHOOSE p \in Points : p.name = n)]
          /\ stage' = "done"
     ELSE stage' = "refused" /\ UNCHANGED routes
  /\ UNCHANGED <<listed, left, providers, order, plan>>

Next == Skip \/ Provide \/ Check \/ Sort \/ Plan \/ Route

-----------------------------------------------------------------------------
\* Properties.

TypeOK ==
  /\ stage \in {"skip", "provide", "check", "sort", "plan", "route", "done", "refused"}
  /\ ToSet(left) \subseteq ToSet(listed)
  /\ ToSet(order) \subseteq IdsOf(listed)

\* What is skipped could not have stayed: the rest is the largest choice in
\* which nothing is missing for an optional module.
SkipsLeast ==
  LET Kept(S) == {s \in ToSet(listed) : s.id \in S}
      Closed(S) ==
        /\ \A s \in ToSet(listed) : ~s.optional => s.id \in S
        /\ \A s \in Kept(S) : s.optional =>
             /\ s.requires \subseteq UNION {t.provides : t \in Kept(S)}
             /\ s.depends \subseteq S
  IN stage # "skip" => IdsOf(left) = UNION {S \in SUBSET IdsOf(listed) : Closed(S)}

\* Whatever a constructed module needs is constructed before it, except by
\* itself: namespaces, the chosen providers, contributors.
Before(sequence, m, n) ==
  \E i, j \in DOMAIN sequence : i < j /\ sequence[i] = m /\ sequence[j] = n
DependenciesFirst ==
  order # <<>> =>
    /\ ToSet(order) = ActiveIds /\ Len(order) = Cardinality(ActiveIds)
    /\ \A m \in ActiveIds : \A d \in Needs(Declaration(m)) \ {m} : Before(order, d, m)

\* The order owes nothing to the listing: a module stands before one with a
\* smaller name only if that one had to wait for something at its place.
StableOrder ==
  \A i, j \in DOMAIN order :
    i < j /\ order[j] < order[i] =>
      \E k \in i..(j - 1) : order[k] \in Needs(Declaration(order[j]))

\* Phases keep their own constraints, and close goes backwards unless told
\* otherwise.
PhasesOrdered ==
  plan # <<>> =>
    \A p \in Phases :
      /\ ToSet(plan[p]) = Participants(p)
      /\ \A m \in Participants(p) : \A d \in (PhaseNeeds(p)[m] \cap Participants(p)) \ {m} :
           Before(plan[p], d, m)
      /\ p = "close" /\ (\A m \in ActiveIds : PhaseNeeds(p)[m] = {}) =>
           \A m, n \in Participants(p) : Before(order, m, n) => Before(plan[p], n, m)

\* Sorting is refused for a cycle only: a set of modules each of which waits
\* for another of the set.
RefusedForACause ==
  stage = "refused" /\ order = <<>> /\ providers # <<>> /\ Complete =>
    \E S \in SUBSET ActiveIds \ {{}} : \A m \in S : (Needs(Declaration(m)) \cap S) \ {m} # {}

\* A call reaches the one implementation of the highest priority, which no other
\* shares, or all of them, several of one module included, the important first
\* and those that depend on others last.
RoutesSound ==
  LET Sooner(h, k) ==
        \/ h.priority > k.priority
        \/ h.priority = k.priority /\ Before(order, h.id, k.id)
        \/ h.priority = k.priority /\ h.id = k.id /\ h.nth < k.nth
  IN stage = "done" => \A p \in Points :
       LET all == UNION {ToSet(Declared(m, p)) : m \in ActiveIds}
           route == routes[p.name]
       IN /\ p.mode = "single" =>
               Len(route) = 1 /\ route[1] \in all /\ \A h \in all \ {route[1]} : h.priority < route[1].priority
          /\ p.mode # "single" =>
               /\ Len(route) = Cardinality(all) /\ ToSet(route) = all
               /\ \A i, j \in DOMAIN route : i < j => Sooner(route[i], route[j])

ResolutionSound ==
  /\ TypeOK /\ SkipsLeast /\ DependenciesFirst /\ StableOrder
  /\ PhasesOrdered /\ RefusedForACause /\ RoutesSound
=============================================================================
