------------------------------ MODULE MCStores ------------------------------
(***************************************************************************)
(* TLC instance of what the bot stores and shares: BotState, KernelContext,*)
(* AppTransaction and AppInstall.  They share no state, so a behaviour is  *)
(* one of one of them; part says which.                                    *)
(***************************************************************************)
EXTENDS BotState

-----------------------------------------------------------------------------
\* BotState: one goal, one wake of it, and the commands that set the goal,
\* pause it, plan, begin, end and cancel the wake, from callers of two stores.

Cmd(name, goals, wakes) == [command |-> name, goals |-> goals, wakes |-> wakes]
GoalTo(status) == [g \in Goals |-> status]
WakeTo(status) == [w \in Wakes |-> [goal |-> CHOOSE g \in Goals : TRUE, status |-> status]]

MCChanges ==
  { Cmd("set", GoalTo("ACTIVE"), WakeTo("PENDING")),
    Cmd("pause", GoalTo("PAUSED"), Nothing),
    Cmd("claim", Nothing, WakeTo("RUNNING")),
    Cmd("cancel", Nothing, WakeTo("CANCELLED")),
    Cmd("result", Nothing, WakeTo("COMPLETED")),
    Cmd("again", Nothing, WakeTo("PENDING")) }
MCHome ==
  [c \in {"set", "pause", "claim", "cancel", "result", "again"} |->
     IF c \in {"set", "pause", "cancel"} THEN "tools" ELSE "clock"]

-----------------------------------------------------------------------------
\* KernelContext: two callers, a namespace with one key.
CONSTANTS Callers, Cells, Values, Watchers, Failing, Recursing, MaxRevision
VARIABLES data, revision, watchers, caller, changes, told

MCCells == {<<"n", "">>, <<"n", "k">>}
contextVars == <<data, revision, watchers, caller, changes, told>>
Context == INSTANCE KernelContext

\* AppTransaction: two installations that want one path, a registration that
\* wants the package of one, and a removal and two switches of an installed one.
CONSTANTS Commands, Owner, Installed, AtOnce, InAll, Mishaps
VARIABLES registry, final, owners, staged, bin, cmd, before, last, seen

MCCommands ==
  [add |-> [kind |-> "install", package |-> "x", path |-> "p"],
   rival |-> [kind |-> "install", package |-> "z", path |-> "p"],
   drop |-> [kind |-> "remove", package |-> "y", path |-> "-"],
   link |-> [kind |-> "register", package |-> "x", path |-> "-"],
   turn |-> [kind |-> "disable", package |-> "y", path |-> "-"],
   still |-> [kind |-> "enable", package |-> "y", path |-> "-"]]
MCOwner == [p |-> "o", q |-> "o"]
MCInstalled == {[package |-> "y", path |-> "q"]}
appVars == <<registry, final, owners, staged, bin, cmd, before, last, seen>>
Apps == INSTANCE AppTransaction

\* AppInstall: a request of each way, and ones that contradict themselves.
VARIABLES request, place, heads, taken, launch, cloned, answer, approved, dirs, server, tools,
          entry, placed, errors, hit, stuck, result

Plain == [npx |-> FALSE, uvx |-> FALSE, source |-> "repo", ref |-> "-", command |-> FALSE,
          arg |-> FALSE, auth |-> FALSE, yes |-> FALSE, terminal |-> TRUE, events |-> FALSE]
Requests ==
  { Plain, [Plain EXCEPT !.ref = "tag"], [Plain EXCEPT !.command = TRUE, !.yes = TRUE],
    [Plain EXCEPT !.ref = "tag", !.events = TRUE, !.terminal = FALSE],
    [Plain EXCEPT !.auth = TRUE], [Plain EXCEPT !.source = "name"],
    [Plain EXCEPT !.source = "url"], [Plain EXCEPT !.source = "url", !.ref = "tag"],
    [Plain EXCEPT !.source = "url", !.auth = TRUE, !.yes = TRUE],
    [Plain EXCEPT !.source = "none", !.npx = TRUE, !.arg = TRUE],
    [Plain EXCEPT !.source = "none", !.uvx = TRUE, !.events = TRUE],
    [Plain EXCEPT !.npx = TRUE], [Plain EXCEPT !.source = "none", !.npx = TRUE, !.uvx = TRUE] }
installVars == <<request, place, heads, taken, launch, cloned, answer, approved, dirs, server,
                 tools, entry, placed, errors, hit, stuck, result>>
Install == INSTANCE AppInstall WITH at <- place, final <- placed

-----------------------------------------------------------------------------
VARIABLE part
allVars == <<vars, contextVars, appVars, installVars, part>>

MCInit ==
  /\ part \in {"bot", "context", "apps", "install"}
  /\ Init /\ Context!Init /\ Apps!Init /\ Install!Init
  /\ part # "install" => request = Plain

MCNext ==
  \/ part = "bot" /\ Next /\ UNCHANGED <<contextVars, appVars, installVars>>
  \/ part = "context" /\ Context!Next /\ UNCHANGED <<vars, appVars, installVars>>
  \/ part = "apps" /\ Apps!Next /\ UNCHANGED <<vars, contextVars, installVars>>
  \/ part = "install" /\ Install!Next /\ UNCHANGED <<vars, contextVars, appVars>>

MCSpec == MCInit /\ [][MCNext /\ UNCHANGED part]_allVars

-----------------------------------------------------------------------------
\* Changes of the context are serial, and its watchers are told of each of
\* them: see KernelContext.
ContextSound == Context!ContextSound

\* Commands one after the other leave the old or the new state, and installed
\* clones are not lost to crashes or rivals: see AppTransaction.
AppsSound == Apps!AppsSound

\* An installation keeps what was approved, and cleans up: see AppInstall.
InstallSound == Install!InstallSound
=============================================================================
