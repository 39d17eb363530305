--------------------------- MODULE MCWorldJournal ---------------------------
(***************************************************************************)
(* TLC instance of the journal and of what is made of it: WorldJournal,    *)
(* Instances, ResourceCatalog and MemoryPolicy.  They share no state, so a *)
(* behaviour is one of one of them; part says which.                       *)
(***************************************************************************)
EXTENDS WorldJournal

-----------------------------------------------------------------------------
\* WorldJournal: batches of one and two inputs over two scopes, the same
\* inputs in several batches (retries), and an input that reuses an id with
\* other content (a conflict).

In1 == [id |-> "1", body |-> "x", scopes |-> {"a"}]
In2 == [id |-> "2", body |-> "x", scopes |-> {"a", "b"}]
In3 == [id |-> "3", body |-> "x", scopes |-> {"b"}]
In4 == [id |-> "4", body |-> "x", scopes |-> {"c", "a"}]
Clash2 == [id |-> "2", body |-> "y", scopes |-> {"a", "b"}]
Rescoped3 == [id |-> "3", body |-> "x", scopes |-> {"b", "c"}]

MCBatches == {<<In1, In2>>, <<In2, In3>>, <<Clash2>>, <<In4, Rescoped3>>}

-----------------------------------------------------------------------------
\* MemoryPolicy: two scopes, two revisions of the weights.
CONSTANTS PolicyScopes, Models, MaxLog, MaxScores, MaxMishaps
VARIABLES journal, model, state, known, unverified, prefix, saved, started, save, artifacts,
          damaged, answer, scores, mishaps

policyVars == <<journal, model, state, known, unverified, prefix, saved, started, save, artifacts,
                damaged, answer, scores, mishaps>>
Policy == INSTANCE MemoryPolicy WITH Scopes <- PolicyScopes, log <- journal

-----------------------------------------------------------------------------
\* Instances: two runs, told in one scope or in both.
CONSTANTS Runs, Finders, MaxRows, MaxCuts
VARIABLES rows, views, cursor, holder, finder, found, query, findCuts

Scopings == {{"p"}, {"p", "q"}}
findVars == <<rows, views, cursor, holder, finder, found, query, findCuts>>
Finding == INSTANCE Instances WITH shown <- found, cuts <- findCuts

-----------------------------------------------------------------------------
\* ResourceCatalog: two resources of the assembly around a run's versions.
CONSTANTS Identities, Versions, RunIdentities, Limits
VARIABLES published, history, shown, page, atFirst

Declared == {<<1, 2>>, <<3, 1>>}
catalogVars == <<published, history, shown, page, atFirst>>
Catalog == INSTANCE ResourceCatalog WITH known <- atFirst

-----------------------------------------------------------------------------
VARIABLE part
allVars == <<vars, policyVars, findVars, catalogVars, part>>

\* A part that is not chosen has one initial state.
MCInit ==
  /\ part \in {"journal", "policy", "instances", "catalog"}
  /\ Init /\ Policy!Init /\ Finding!Init /\ Catalog!Init
  /\ part # "policy" => model = CHOOSE m \in Models : TRUE

MCNext ==
  \/ part = "journal" /\ Next /\ UNCHANGED <<policyVars, findVars, catalogVars>>
  \/ part = "policy" /\ Policy!Next /\ UNCHANGED <<vars, findVars, catalogVars>>
  \/ part = "instances" /\ Finding!Next /\ UNCHANGED <<vars, policyVars, catalogVars>>
  \/ part = "catalog" /\ Catalog!Next /\ UNCHANGED <<vars, policyVars, findVars>>

\* The fairness of WorldJournal; what is said of the others is safety.
MCSpec ==
  /\ MCInit /\ [][MCNext /\ UNCHANGED part]_allVars
  /\ WF_vars(part = "journal" /\ Appending)
  /\ WF_vars(part = "journal" /\ Observing)

-----------------------------------------------------------------------------
\* The ranking is a function of the request and the weights: see MemoryPolicy.
RankingSound == Policy!RankingSound

\* Runs are found and resolved as the journal tells them: see Instances.
InstancesSound == Finding!InstancesSound

\* The pages of one browse of a directory that changes: see ResourceCatalog.
CatalogSound == Catalog!CatalogSound
=============================================================================
