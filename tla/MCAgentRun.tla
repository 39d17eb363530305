----------------------------- MODULE MCAgentRun -----------------------------
(***************************************************************************)
(* TLC instance of the run and of the context of its turns: AgentRun       *)
(* beside PromptAssembly.  They share no state, so a behaviour is of one   *)
(* of them; part says of which.                                            *)
(***************************************************************************)
EXTENDS AgentRun

-----------------------------------------------------------------------------
\* PromptAssembly: bundles that share commits, and commits of two scopes.
CONSTANTS Rooms, MaxMessages
VARIABLES transcript, answer

Bundle(ids) == [scope |-> "-", ids |-> ids]
Single(scope, id) == [scope |-> scope, ids |-> {id}]
Memories ==
  { [required |-> {}, continuity |-> 0, items |-> <<>>],
    [required |-> {"z"}, continuity |-> 1,
     items |-> <<Bundle({"x", "y"}), Bundle({"x", "z"}), Bundle({"y"})>>],
    [required |-> {"x"}, continuity |-> 0,
     items |-> <<Single("a", "x"), Single("a", "y"), Single("b", "y"), Single("b", "z")>>] }
promptVars == <<transcript, answer>>
Prompt == INSTANCE PromptAssembly WITH
  Calls <- {"c", "d"}, Weight <- [x |-> 1, y |-> 2, z |-> 1]

-----------------------------------------------------------------------------
VARIABLE part
allVars == <<vars, promptVars, part>>

\* The other stays at one of its initial states.
MCInit ==
  /\ part \in {"run", "prompt"}
  /\ Init /\ Prompt!Init
  /\ part # "run" => ~policed

MCNext ==
  \/ part = "run" /\ Next /\ UNCHANGED promptVars
  \/ part = "prompt" /\ Prompt!Next /\ UNCHANGED vars

\* The fairness of the run.
MCSpec ==
  /\ MCInit
  /\ [][MCNext /\ UNCHANGED part]_allVars
  /\ WF_vars(part = "run" /\ Driver)

\* What a turn is given fits, is whole and is told: see PromptAssembly.
PromptSound == Prompt!PromptSound
=============================================================================
