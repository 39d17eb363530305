--------------------------- MODULE ResourceCatalog ---------------------------
(***************************************************************************)
(* The directory of resources (resources/catalog.py) merges, page by page, *)
(* what was declared at assembly with what the stored contents             *)
(* (artifacts/listing.py) and the runs (instances/provider.py) have at the *)
(* moment.  Contents are published and runs go on, each commit giving a    *)
(* run another version at another place of the order, between two pages    *)
(* and between the two providers' answers to one page; the reader may      *)
(* change the size of the page.  A resource is a pair of an identity and a *)
(* version, which stand for their digests, in the order of the pages.      *)
(***************************************************************************)
EXTENDS Naturals, FiniteSets, SequencesExt

CONSTANTS Identities, Versions,   \* intervals of numbers: digests
          Declared,               \* resources of the assembly
          RunIdentities,          \* identities the engine gives to runs
          Limits                  \* sizes of pages

VARIABLES published,   \* contents in the store
          history,     \* versions each run has had, in the order of its commits
          shown,       \* the resources on the pages so far, with their descriptors
          page,        \* the page being made
          known        \* history: contents and runs when the first page was asked for

vars == <<published, history, shown, page, known>>

Before(x, y) == x[1] < y[1] \/ (x[1] = y[1] /\ x[2] < y[2])
Item(ref, of) == [ref |-> ref, of |-> of]
Refs(items) == { item.ref : item \in Range(items) }

\* resource_order, and the first n of a set in this order (heapq.nsmallest).
Ordered(items) == SetToSortSeq(items, LAMBDA x, y : Before(x.ref, y.ref))
Smallest(n, items) == LET all == Ordered(items) IN SubSeq(all, 1, IF Len(all) < n THEN Len(all) ELSE n)

Start == <<0, 0>>     \* no cursor: before every resource
End == <<>>           \* no next cursor

NoPage == [place |-> "idle", limit |-> 1, after |-> Start, scanned |-> {}, contents |-> <<>>, runs |-> <<>>]

Init ==
  /\ published = {}
  /\ history = [run \in RunIdentities |-> <<>>]
  /\ shown = <<>>
  /\ page = NoPage
  /\ known = [contents |-> {}, runs |-> {}]

-----------------------------------------------------------------------------
(* The world goes on.                                                      *)

Publish ==
  /\ \E ref \in ((Identities \ RunIdentities) \X Versions) \ published :
       published' = published \cup {ref}
  /\ UNCHANGED <<history, shown, page, known>>

Commit ==
  /\ \E run \in RunIdentities : \E version \in Versions \ Range(history[run]) :
       history' = [history EXCEPT ![run] = Append(@, version)]
  /\ UNCHANGED <<published, shown, page, known>>

Running == { run \in RunIdentities : history[run] # <<>> }

-----------------------------------------------------------------------------
(* browse                                                                  *)

\* A provider's page: the first ones after the cursor, and whether more follow.
PageOf(items) ==
  LET first == Smallest(page.limit + 1, { item \in items : Before(page.after, item.ref) })
  IN [items |-> SubSeq(first, 1, IF Len(first) > page.limit THEN page.limit ELSE Len(first)),
      next  |-> IF Len(first) > page.limit THEN first[page.limit].ref ELSE End]

Ask ==
  /\ page.place = "idle"
  /\ \E limit \in Limits : page' = [page EXCEPT !.place = "asked", !.limit = limit, !.scanned = published]
  /\ known' = IF page.after = Start THEN [contents |-> published, runs |-> Running] ELSE known
  /\ UNCHANGED <<published, history, shown>>

\* find_artifacts scans the directories: what is published meanwhile may be
\* met by it or not.
FindContents ==
  /\ page.place = "asked" /\ page.contents = <<>>
  /\ \E seen \in SUBSET published :
       /\ page.scanned \subseteq seen
       /\ page' = [page EXCEPT !.contents = <<PageOf({ Item(ref, "content") : ref \in seen })>>]
  /\ UNCHANGED <<published, history, shown, known>>

\* InstanceProvider.find: the last version of each run, at one moment.
FindRuns ==
  /\ page.place = "asked" /\ page.runs = <<>>
  /\ page' = [page EXCEPT !.runs =
       <<PageOf({ Item(<<run, Last(history[run])>>, "run") : run \in Running })>>]
  /\ UNCHANGED <<published, history, shown, known>>

\* _validate_page
Valid(found) ==
  /\ Len(found.items) <= page.limit
  /\ \A i \in DOMAIN found.items : Before(page.after, found.items[i].ref)
  /\ \A i, j \in DOMAIN found.items : i < j => Before(found.items[i].ref, found.items[j].ref)
  /\ found.next # End => /\ Len(found.items) = page.limit
                         /\ found.next = Last(found.items).ref

Bug_Preferred(item) == item

\* What was declared is shown as it was declared.
Preferred(item) == IF item.ref \in Declared THEN Item(item.ref, "declared") ELSE item

\* Two providers that describe one version differently are refused.
Agreeing(items) == \A x, y \in items : x.ref = y.ref => x = y

Bug_More(merged, pages) == Cardinality(merged) > page.limit

More(merged, pages) == Cardinality(merged) > page.limit \/ \E found \in Range(pages) : found.next # End

Merge ==
  /\ page.contents # <<>> /\ page.runs # <<>>
  /\ LET static == PageOf({ Item(ref, "declared") : ref \in Declared })
         pages == <<static, page.contents[1], page.runs[1]>>
         merged == { Preferred(item) : item \in UNION { Range(found.items) : found \in Range(pages) } }
         selected == Smallest(page.limit, merged)
     IN IF /\ Valid(page.contents[1]) /\ Valid(page.runs[1])
           /\ Agreeing(merged)
        THEN /\ shown' = shown \o selected
             /\ page' = IF More(merged, pages)
                        THEN [NoPage EXCEPT !.after = Last(selected).ref]
                        ELSE [NoPage EXCEPT !.place = "ended"]
        ELSE /\ page' = [NoPage EXCEPT !.place = "failed"]
             /\ UNCHANGED shown
  /\ UNCHANGED <<published, history, known>>

Next == Publish \/ Commit \/ Ask \/ FindContents \/ FindRuns \/ Merge

Spec == Init /\ [][Next]_vars

-----------------------------------------------------------------------------
(* inspect                                                                 *)

\* What a reference names: what was declared, else what one provider has; a
\* run keeps its former versions.
Inspected(ref) ==
  IF ref \in Declared THEN Item(ref, "declared")
  ELSE IF ref \in published THEN Item(ref, "content")
  ELSE IF ref[1] \in RunIdentities /\ ref[2] \in Range(history[ref[1]]) THEN Item(ref, "run")
  ELSE Item(ref, "missing")

-----------------------------------------------------------------------------
(* Properties.                                                             *)

TypeOK ==
  /\ published \subseteq Identities \X Versions
  /\ page.place \in {"idle", "asked", "ended", "failed"}

\* The pages come in one order without a repetition, whatever their sizes.
Increasing == \A i, j \in DOMAIN shown : i < j => Before(shown[i].ref, shown[j].ref)

\* All that was there when the first page was asked for and stayed is on a
\* page, a run that went on in one of its versions at least.
NothingLost ==
  page.place = "ended" =>
    /\ Declared \cup known.contents \subseteq Refs(shown)
    /\ \A run \in known.runs : \E ref \in Refs(shown) : ref[1] = run

\* What a page shows can be inspected later, and is what the page said.
ShownIsThere == \A item \in Range(shown) : Inspected(item.ref) = item

\* The providers keep to the protocol of the pages: browsing never fails.
NeverRefused == page.place # "failed"

\* The pages of one browse of a directory that changes: see each part.
CatalogSound == TypeOK /\ Increasing /\ NothingLost /\ ShownIsThere /\ NeverRefused
=============================================================================
