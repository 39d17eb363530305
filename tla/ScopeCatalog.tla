---------------------------- MODULE ScopeCatalog ----------------------------
(***************************************************************************)
(* The catalogue of world scopes (contracts/scope.py, scopes/module.py):   *)
(* the configured declarations and those of the modules are merged, the    *)
(* narrower before the wider ones, and the first one that covers a scope   *)
(* says what it is.  A path is a sequence of characters; in a pattern "*"  *)
(* stands for one character or more.                                       *)
(***************************************************************************)
EXTENDS Integers, FiniteSets, Sequences, SequencesExt

CONSTANTS Configurations,  \* lists of the configured declarations
          Defaults,        \* lists of the declarations of the modules
          Worlds           \* [owner, path]: the scopes that are asked for

Star == "*"

VARIABLES configured, defaults,  \* what is merged: [owner, path, kind]
          catalog,               \* the merged declarations
          built                  \* "no", "yes" or "refused"

vars == <<configured, defaults, catalog, built>>

Init ==
  /\ configured \in Configurations
  /\ defaults \in Defaults
  /\ catalog = <<>>
  /\ built = "no"

-----------------------------------------------------------------------------
Pattern(d) == <<d.owner, d.path>>
Patterns(ds) == {Pattern(ds[i]) : i \in DOMAIN ds}

\* matches: fits[i, j] says whether the pattern from i on fits the path from j on.
MatchesPath(pattern, path) ==
  LET P == Len(pattern)
      L == Len(path)
      fits[i \in 1..P + 1, j \in 1..L + 1] ==
        IF i > P THEN j > L
        ELSE IF pattern[i] = Star
             THEN \E k \in j + 1..L + 1 : fits[i + 1, k]
             ELSE j <= L /\ pattern[i] = path[j] /\ fits[i + 1, j + 1]
  IN  pattern = path \/ fits[1, 1]

Matches(d, scope) == d.owner \in {Star, scope.owner} /\ MatchesPath(d.path, scope.path)

Literals(d) == Cardinality({i \in DOMAIN d.path : d.path[i] # Star})

\* Operators named Bug_... are one-slip variants of the operator that follows
\* them; no action uses them.

Bug_MoreSpecific(d, e) ==
  \/ Len(d.path) > Len(e.path)
  \/ Len(d.path) = Len(e.path) /\ d.owner # Star /\ e.owner = Star

\* _specificity: more of a path's characters, then fewer stars, then an owner.
MoreSpecific(d, e) ==
  \/ Literals(d) > Literals(e)
  \/ Literals(d) = Literals(e) /\ Len(d.path) < Len(e.path)
  \/ Literals(d) = Literals(e) /\ Len(d.path) = Len(e.path) /\ d.owner # Star /\ e.owner = Star

\* Modules may repeat a declaration, not contradict one.
Consistent == \A i, j \in DOMAIN defaults :
  Pattern(defaults[i]) = Pattern(defaults[j]) => defaults[i] = defaults[j]

\* Who is equally specific keeps the order of the lists.
Sorted(ds) ==
  LET Before(i, j) == MoreSpecific(ds[i], ds[j]) \/ (~MoreSpecific(ds[j], ds[i]) /\ i < j)
      places == SetToSortSeq(DOMAIN ds, Before)
  IN  [n \in DOMAIN places |-> ds[places[n]]]

Bug_Combined == configured \o defaults

\* A configured declaration replaces the default one of its pattern.
Combined ==
  LET new == SelectSeq([i \in DOMAIN defaults |-> i], LAMBDA i :
               Pattern(defaults[i]) \notin Patterns(configured) \cup Patterns(SubSeq(defaults, 1, i - 1)))
  IN  configured \o [n \in DOMAIN new |-> defaults[new[n]]]

Merge ==
  /\ built = "no"
  /\ IF Consistent
     THEN catalog' = Sorted(Combined) /\ built' = "yes"
     ELSE built' = "refused" /\ UNCHANGED catalog
  /\ UNCHANGED <<configured, defaults>>

Next == Merge

\* declaration: the first that covers the scope, or none.
Declaration(scope) ==
  LET covering == SelectSeq(catalog, LAMBDA d : Matches(d, scope))
  IN  SubSeq(covering, 1, IF covering = <<>> THEN 0 ELSE 1)

-----------------------------------------------------------------------------
\* Properties.

\* A scope is what its narrowest declarations say: none that covers it, and
\* only a part of what the deciding one covers, is shadowed by it; and a scope
\* that some list declares is not undeclared.
NoneShadowed ==
  built = "yes" =>
    LET all == catalog \o configured \o defaults
        covers == [n \in DOMAIN all |-> {scope \in Worlds : Matches(all[n], scope)}]
        deciding == [scope \in Worlds |-> Declaration(scope)]
    IN  \A n \in DOMAIN all : \A scope \in covers[n] :
          /\ deciding[scope] # <<>>
          /\ \A m \in DOMAIN catalog :
               deciding[scope] = <<catalog[m]>> /\ covers[n] \subseteq covers[m] => covers[n] = covers[m]

\* What the project configures of a pattern stands, whatever modules declare.
ConfiguredStands ==
  built = "yes" =>
    \A i \in DOMAIN configured : \A n \in DOMAIN catalog :
      Pattern(catalog[n]) = Pattern(configured[i]) => catalog[n] = configured[i]

ScopesSound == NoneShadowed /\ ConfiguredStands
=============================================================================
