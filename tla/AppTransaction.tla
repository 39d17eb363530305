---------------------------- MODULE AppTransaction ----------------------------
(***************************************************************************)
(* The commands of aurora_cli/commands/app that change installed apps:     *)
(* install a repository, register an app without files, remove, enable or  *)
(* disable one.  Each runs in a process of its own, over the registry file *)
(* and the directories of extensions/apps; there is no lock between them.  *)
(* A registry edit reads the whole document and later replaces the file.   *)
(***************************************************************************)
EXTENDS Naturals, FiniteSets

CONSTANTS
  Commands,     \* command -> [kind, package, path]; path is "-" without files
  Owner,        \* path -> the directory of its owner
  Installed,    \* apps installed before, as [package, path]
  AtOnce,       \* bounds: commands that run side by side,
  InAll,        \*   and commands in all
  Mishaps       \* what may befall a process: "cut", "crash"

Ids == DOMAIN Commands
Paths == DOMAIN Owner
None == "none"
Older(app) == [package |-> app.package, path |-> app.path, on |-> TRUE]

VARIABLES
  registry,     \* config/apps.toml: the entries, each with how often it occurs
  final,        \* path -> whose clone lies there
  owners,       \* owner directories that exist
  staged,       \* commands whose staging directory holds a clone
  bin,          \* removal -> the clone in its quarantine directory
  cmd,          \* where each command is, and what it holds in memory
  before,       \* history: registry and final when the last command began
  last,         \* history: the last command to end, None while one runs
  seen          \* history: the mishaps that happened

vars == <<registry, final, owners, staged, bin, cmd, before, last, seen>>

Entry(c) == [package |-> Commands[c].package, path |-> Commands[c].path, on |-> TRUE]

\* A process before it begins, and what remains of it.
Gone(at, root) == [at |-> at, doc |-> <<>>, root |-> root, made |-> FALSE, published |-> FALSE]

Init ==
  /\ registry = [e \in {Older(a) : a \in Installed} |-> 1]
  /\ final = [p \in Paths |-> IF \E a \in Installed : a.path = p THEN "old" ELSE None]
  /\ owners = {Owner[a.path] : a \in {i \in Installed : i.path # "-"}}
  /\ staged = {}
  /\ bin = [c \in Ids |-> None]
  /\ cmd = [c \in Ids |-> Gone("idle", "-")]
  /\ before = [registry |-> registry, final |-> final]
  /\ last = None
  /\ seen = {}

-----------------------------------------------------------------------------
\* Operators named Bug_... are one-slip variants of the operator that follows
\* them; no action uses them.

Kind(c) == Commands[c].kind
Path(c) == Commands[c].path
Ended == {"done", "same", "failed", "residue", "leftover", "dead"}
Running == {c \in Ids : cmd[c].at \notin Ended \cup {"idle"}}

\* A document as entry -> number of occurrences.
Of(doc, package) == {e \in DOMAIN doc : e.package = package}
Times(doc, package) ==
  IF \E e \in Of(doc, package) : doc[e] > 1 THEN 2 ELSE Cardinality(Of(doc, package))
Without(doc, es) == [e \in DOMAIN doc \ es |-> doc[e]]
With(doc, e) ==
  [x \in DOMAIN doc \cup {e} |-> IF x # e THEN doc[x] ELSE IF x \in DOMAIN doc THEN 2 ELSE 1]

\* _packages: a registry with a package twice is not read at all.
Readable(doc) == \A e \in DOMAIN doc : Times(doc, e.package) = 1

PackageFree(c) == Readable(registry) /\ Of(registry, Commands[c].package) = {}
PathFree(c) == final[Path(c)] = None

\* classify_managed_app and raw_app: the root of the package's entry.
Known(c) == Readable(registry) /\ Of(registry, Commands[c].package) # {}
RootOf(c) == (CHOOSE e \in Of(registry, Commands[c].package) : TRUE).path

To(c, at) == cmd' = [cmd EXCEPT ![c].at = at]
Ends(c, at) == /\ cmd' = [cmd EXCEPT ![c] = Gone(at, @.root)]
               /\ last' = IF Running = {c} THEN c ELSE None
Goes(c, at) == To(c, at) /\ UNCHANGED last
Files == <<final, owners, staged, bin>>
History == <<before, seen>>

\* Without the handler of a failed commit.
Bug_Fails(c) == IF Kind(c) = "install" THEN Goes(c, "sweep") ELSE Ends(c, "failed")

\* Where an error leads: a handler of the transaction, the end of the staging
\* context, or out.
Fails(c) ==
  IF Kind(c) = "install" /\ cmd[c].at \in {"publish", "read", "write"} THEN Goes(c, "undo")
  ELSE IF Kind(c) = "install" THEN Goes(c, "sweep")
  ELSE IF Kind(c) = "remove" /\ cmd[c].at \in {"read", "write"} THEN Goes(c, "undo")
  ELSE Ends(c, "failed")

\* Each mishap happens once.
Befalls(mishap) ==
  /\ mishap \in Mishaps \ seen
  /\ seen' = seen \cup {mishap}

-----------------------------------------------------------------------------
\* A command begins with its early checks.

Start(c) ==
  /\ cmd[c].at = "idle"
  /\ Cardinality(Running) < AtOnce
  /\ Cardinality({k \in Ids : cmd[k].at # "idle"}) < InAll
  /\ seen' = IF Running # {} THEN seen \cup {"overlap"} ELSE seen
  /\ before' = IF seen' = {} THEN [registry |-> registry, final |-> final] ELSE before
  /\ last' = None
  /\ cmd' = [cmd EXCEPT ![c].at =
       CASE Kind(c) = "install" -> IF PathFree(c) /\ PackageFree(c) THEN "prepare" ELSE "failed"
         [] Kind(c) = "register" -> IF PackageFree(c) THEN "prepare" ELSE "failed"
         [] Kind(c) = "remove" -> IF Known(c) THEN "recheck" ELSE "failed"
         [] OTHER -> "read",
       ![c].root = IF Kind(c) = "remove" /\ Known(c) THEN RootOf(c) ELSE "-"]
  /\ UNCHANGED <<registry, Files>>

\* The clone in its staging directory, the user's consent, the handshake: any
\* may fail (Refused), and nothing else is touched.
Prepare(c) ==
  /\ cmd[c].at = "prepare"
  /\ staged' = IF Kind(c) = "install" THEN staged \cup {c} ELSE staged
  /\ Goes(c, "recheck")
  /\ UNCHANGED <<registry, final, owners, bin, History>>

\* revalidate_install, revalidate_remove and the check of register_transaction:
\* a removal that was planned without files only needs its entry.
Valid(c) ==
  IF Kind(c) = "remove" THEN Known(c) /\ cmd[c].root \in {"-", RootOf(c)} ELSE PackageFree(c)

Recheck(c) ==
  /\ cmd[c].at = "recheck"
  /\ IF Valid(c)
     THEN Goes(c, CASE Kind(c) = "install" -> "owner"
                    [] Kind(c) = "remove" /\ cmd[c].root # "-" -> "quarantine"
                    [] OTHER -> "read")
     ELSE Fails(c)
  /\ UNCHANGED <<registry, Files, History>>

\* check_final_path again and _create_owner_directory.
MakeOwner(c) ==
  /\ cmd[c].at = "owner"
  /\ IF PathFree(c)
     THEN /\ owners' = owners \cup {Owner[Path(c)]}
          /\ cmd' = [cmd EXCEPT ![c].at = "publish", ![c].made = Owner[Path(c)] \notin owners]
          /\ UNCHANGED last
     ELSE Fails(c) /\ UNCHANGED owners
  /\ UNCHANGED <<registry, final, staged, bin, History>>

\* _publish: one rename, refused where a clone lies; cut off right after it,
\* the handler does not know of it.
Publish(c, how) ==
  /\ cmd[c].at = "publish"
  /\ IF PathFree(c) /\ Owner[Path(c)] \in owners /\ how # "fails"
     THEN /\ final' = [final EXCEPT ![Path(c)] = c]
          /\ staged' = staged \ {c}
          /\ IF how = "cut" THEN Befalls("cut") /\ Goes(c, "undo")
             ELSE /\ cmd' = [cmd EXCEPT ![c].at = "read", ![c].published = TRUE]
                  /\ UNCHANGED <<last, seen>>
     ELSE Fails(c) /\ UNCHANGED <<final, staged, seen>>
  /\ UNCHANGED <<registry, owners, bin, before>>

\* _quarantine: outside the handler.
Quarantine(c, how) ==
  /\ cmd[c].at = "quarantine"
  /\ LET p == cmd[c].root IN
     IF final[p] # None /\ how # "fails"
     THEN /\ bin' = [bin EXCEPT ![c] = final[p]]
          /\ final' = [final EXCEPT ![p] = None]
          /\ IF how = "cut" THEN Befalls("cut") /\ Ends(c, "failed") ELSE Goes(c, "read") /\ UNCHANGED seen
     ELSE Fails(c) /\ UNCHANGED <<bin, final, seen>>
  /\ UNCHANGED <<registry, owners, staged, before>>

\* _editable_document.
Read(c) ==
  /\ cmd[c].at = "read"
  /\ cmd' = [cmd EXCEPT ![c].at = "write", ![c].doc = registry]
  /\ UNCHANGED <<registry, Files, last, History>>

\* add_app, remove_app, set_enabled: what the document becomes.
Edits(c) ==
  Kind(c) \in {"install", "register"} \/ Times(cmd[c].doc, Commands[c].package) = 1

Edited(c) ==
  LET doc == cmd[c].doc
      mine == Of(doc, Commands[c].package)
  IN CASE Kind(c) \in {"install", "register"} -> With(doc, Entry(c))
       [] Kind(c) = "remove" -> Without(doc, mine)
       [] OTHER -> LET e == CHOOSE e \in mine : TRUE
                   IN With(Without(doc, mine), [e EXCEPT !.on = (Kind(c) = "enable")])

\* _atomic_write, the tail of install and remove; cut off after the
\* replacement it looks like a failure.  Nothing is written for an app that is
\* switched as it should be.
Write(c, how) ==
  /\ cmd[c].at = "write"
  /\ IF Edits(c) /\ Edited(c) = cmd[c].doc
     THEN Ends(c, "same") /\ UNCHANGED <<registry, seen>>
     ELSE IF Edits(c) /\ how # "fails"
     THEN /\ registry' = Edited(c)
          /\ IF how = "cut" THEN Befalls("cut") /\ Fails(c)
             ELSE /\ UNCHANGED seen
                  /\ CASE Kind(c) = "install" -> Goes(c, "tidy")
                       [] bin[c] # None -> Goes(c, "discard")
                       [] OTHER -> Ends(c, "done")
     ELSE Fails(c) /\ UNCHANGED <<registry, seen>>
  /\ UNCHANGED <<Files, before>>

\* _undo_install and _undo_remove; what cannot be moved back is reported.
RmOwner(c) ==
  owners' = IF cmd[c].made /\ \A p \in Paths : Owner[p] = Owner[Path(c)] => final'[p] = None
            THEN owners \ {Owner[Path(c)]} ELSE owners

Bug_ToUndo(c) == final[Path(c)] # None
ToUndo(c) == cmd[c].published /\ final[Path(c)] # None

UndoInstall(c, ok) ==
  /\ cmd[c].at = "undo" /\ Kind(c) = "install"
  /\ IF ToUndo(c) /\ ~ok
     THEN Ends(c, "residue") /\ UNCHANGED <<Files>>
     ELSE /\ final' = IF ToUndo(c) THEN [final EXCEPT ![Path(c)] = None] ELSE final
          /\ staged' = IF ToUndo(c) THEN staged \cup {c} ELSE staged
          /\ RmOwner(c)
          /\ Goes(c, "sweep")
          /\ UNCHANGED bin
  /\ UNCHANGED <<registry, History>>

UndoRemove(c, ok) ==
  /\ cmd[c].at = "undo" /\ Kind(c) = "remove"
  /\ IF bin[c] = None THEN Ends(c, "failed") /\ UNCHANGED <<final, bin>>
     ELSE IF ok /\ final[cmd[c].root] = None
     THEN /\ final' = [final EXCEPT ![cmd[c].root] = bin[c]]
          /\ bin' = [bin EXCEPT ![c] = None]
          /\ Ends(c, "failed")
     ELSE Ends(c, "residue") /\ UNCHANGED <<final, bin>>
  /\ UNCHANGED <<registry, owners, staged, History>>

\* The end of staging_directory: tried, never reported.
Sweep(c, ok) ==
  /\ cmd[c].at \in {"sweep", "tidy"}
  /\ staged' = IF ok THEN staged \ {c} ELSE staged
  /\ Ends(c, IF cmd[c].at = "tidy" THEN "done" ELSE "failed")
  /\ UNCHANGED <<registry, final, owners, bin, History>>

Discard(c, ok) ==
  /\ cmd[c].at = "discard"
  /\ bin' = IF ok THEN [bin EXCEPT ![c] = None] ELSE bin
  /\ Ends(c, IF ok THEN "done" ELSE "leftover")
  /\ UNCHANGED <<registry, final, owners, staged, History>>

\* An error or a refusal where nothing was changed; the end of the process.
Refused(c) ==
  /\ cmd[c].at \in {"prepare", "recheck", "owner", "read"}
  /\ Fails(c)
  /\ UNCHANGED <<registry, Files, History>>

Crash(c) ==
  /\ c \in Running
  /\ Ends(c, "dead")
  /\ Befalls("crash")
  /\ UNCHANGED <<registry, Files, before>>

Step(c) ==
  \/ Start(c) \/ Prepare(c) \/ Recheck(c) \/ MakeOwner(c) \/ Read(c)
  \/ \E how \in {"done", "fails", "cut"} : Publish(c, how) \/ Quarantine(c, how) \/ Write(c, how)
  \/ \E ok \in BOOLEAN :
       UndoInstall(c, ok) \/ UndoRemove(c, ok) \/ Sweep(c, ok) \/ Discard(c, ok)
  \/ Refused(c) \/ Crash(c)

Next == \E c \in Ids : Step(c)

Spec == Init /\ [][Next]_vars

-----------------------------------------------------------------------------
\* Properties.

\* Commands one after the other: each has its whole effect or none, or it
\* names the directory that is left; the registry never moves without the
\* files.
OldOrNew ==
  LET c == last
      p == IF Kind(c) = "remove" THEN cmd[c].root ELSE Path(c)
      Only(clone) == IF p = "-" THEN before.final ELSE [before.final EXCEPT ![p] = clone]
      now == cmd[c].at
      New == /\ registry # before.registry
             /\ final = CASE Kind(c) = "install" -> Only(c)
                          [] Kind(c) = "remove" -> Only(None)
                          [] OTHER -> before.final
      Old == registry = before.registry /\ final = before.final
  IN seen = {} /\ last # None =>
       CASE now = "done" -> New
         [] now = "leftover" -> New /\ bin[c] # None
         [] now = "residue" -> /\ registry = before.registry
                               /\ IF Kind(c) = "install" THEN final = Only(c)
                                  ELSE final = Only(None) /\ bin[c] # None
         [] OTHER -> Old

\* Only commands side by side can register a package twice.
OnePackage == "overlap" \notin seen => Readable(registry)

\* If the worst is that processes die, one after the other, an entry's clone
\* lies at its path or waits in the quarantine of a removal.
ClonesKept ==
  seen \subseteq {"crash"} =>
    \A e \in DOMAIN registry :
      e.path # "-" => final[e.path] # None \/ \E c \in Ids : bin[c] # None /\ cmd[c].root = e.path

\* A clone that was installed is taken away by no one but a removal of its
\* path: a rival that loses the path does not clear it, whatever else happens.
TakenByRemovals ==
  \A c \in Ids :
    Kind(c) = "install" /\ cmd[c].at \in {"read", "write", "tidy", "done"} =>
      final[Path(c)] = c \/ \E r \in Ids : Kind(r) = "remove" /\ cmd[r].root = Path(c)

\* What the commands promise although they have no lock and no recovery: one
\* after the other they leave the old or the new state, and whatever happens
\* clones are not lost to crashes or rivals.
CommandsAtomic == OldOrNew /\ OnePackage
ClonesSafe == ClonesKept /\ TakenByRemovals
AppsSound == CommandsAtomic /\ ClonesSafe

\* install_transaction (its docstring): the directory goes first, so that no
\* entry is ever without its directory, which aurora start would read.
RegisteredIsInstalled ==
  \A e \in DOMAIN registry : e.path # "-" => final[e.path] # None
=============================================================================
