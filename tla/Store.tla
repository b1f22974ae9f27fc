---------------------------------- MODULE Store ----------------------------------
(***************************************************************************)
(* The manifests from their files to the objects of the Manager: FileStore *)
(* and GitStore, reloadFromStore of the ticker, and the refresh of target  *)
(* manifests by a worker.  A read lists the directory and then opens one   *)
(* file after the other, while files are being edited.  A source is its    *)
(* name, and a target its name and the manifest it holds; that the worker  *)
(* refreshes the manifest of a source too is in Reconciler, with what the  *)
(* objects do with a manifest.                                             *)
(***************************************************************************)
EXTENDS InputBase, Sequences, FiniteSets, FiniteSetsExt

CONSTANTS
  Modes,          \* of the store: a subset of {"file", "git"}
  MaxFile,        \* bound: files of the directory, numbered as ReadDir sorts them
  Sources, Targets,
  Manifests,      \* bound: the manifests that files may hold
  Starts,         \* bound: what they hold in the beginning
  MaxFileEdits, MaxRestarts   \* bounds

Files == 1..MaxFile

\* A target and a source of one name do not disturb each other: names are of one kind.
ASSUME StoreInput ==
  /\ Modes \subseteq {"file", "git"} /\ Modes # {}
  /\ MaxFile \in Nat /\ MaxFileEdits \in Nat /\ MaxRestarts \in Nat
  /\ Manifests \subseteq [kind : {"source"}, name : Sources]
       \cup [kind : {"target"}, name : Targets, src : Sources, ver : Nat]
  /\ Starts \subseteq [Files -> Manifests \cup {[kind |-> "broken"], None}]
  /\ None \notin Manifests \cup Sources \cup Targets /\ Sources \cap Targets = {}

\* What a file may hold: a manifest, or something that Parse or Validate refuse.
Broken  == [kind |-> "broken"]
Content == Manifests \cup {Broken, None}

Readers == {"ticker", "worker"}

VARIABLES
  mode,
  remote, dir,           \* the git repository; the directory (or the clone)
  reload,                \* reloadFromStore: "wait", "sources" or "targets"
  target,                \* whose manifest the worker refreshes: a name, "all" or None
  pc, entries, found,    \* each reader: "idle" or "reading", files left, manifests read
  activeSources,         \* names
  activeOperators,       \* the manifest of each active target, or None
  restarts,
  steady                 \* history: files unchanged, and opened or still to be opened,
                         \* since the ticker listed them

\* phase is that of the process: "init", "up" or "down".
fixed    == <<part, fetched, mode>>
files    == <<fixed, remote, dir>>
reads    == <<pc, entries, found>>
registry == <<activeSources, activeOperators>>
bounds   == <<edits, faults, restarts>>
STvars == <<files, phase, reload, target, reads, registry, bounds, steady>>

\* Every variable keeps its type, and no manifest is read twice from one file.
STTypeOK ==
  /\ part = "store" /\ identities = None /\ groups = None /\ outcome = "none"
  /\ mode \in Modes /\ remote \in [Files -> Content] /\ dir \in [Files -> Content]
  /\ phase \in {"init", "up", "down"} /\ reload \in {"wait", "sources", "targets"}
  /\ target \in Targets \cup {"all", None}
  /\ pc \in [Readers -> {"idle", "reading"}] /\ entries \in [Readers -> SUBSET Files]
  /\ \A r \in Readers :
       /\ found[r] \in Seq(Manifests) /\ Len(found[r]) + Cardinality(entries[r]) <= MaxFile
  /\ activeSources \subseteq Sources
  /\ activeOperators \in [Targets -> {m \in Manifests : m.kind = "target"} \cup {None}]
  /\ \A t \in Targets : activeOperators[t] # None => activeOperators[t].name = t
  /\ edits \in 0..MaxFileEdits /\ faults \in 0..MaxFaults /\ restarts \in 0..MaxRestarts
  /\ steady \subseteq Files

STInit ==
  /\ part = "store" /\ identities = None /\ groups = None /\ outcome = "none"
  /\ mode \in Modes /\ remote \in Starts
  /\ \/ dir = remote
     \/ mode = "git" /\ dir = [f \in Files |-> None]   \* not cloned yet
  /\ phase = "init" /\ reload = "wait" /\ target = None
  /\ pc = [r \in Readers |-> "idle"]
  /\ entries = [r \in Readers |-> {}] /\ found = [r \in Readers |-> << >>]
  /\ activeSources = {} /\ activeOperators = [t \in Targets |-> None] /\ steady = {}
  /\ edits = 0 /\ faults = 0 /\ restarts = 0

-----------------------------------------------------------------------------
\* A file is written, removed or renamed; a write that is not finished does not parse.
Edited(old) ==
  {[old EXCEPT ![f] = c] : f \in Files, c \in Content}
  \cup {[old EXCEPT ![f] = None, ![g] = old[f]] : f \in Files, g \in Files}

\* In the directory, or by a push to the repository.
STEdit ==
  /\ edits < MaxFileEdits /\ edits' = edits + 1
  /\ IF mode = "file"
     THEN /\ dir' \in Edited(dir) /\ UNCHANGED remote
          /\ steady' = {f \in steady : dir'[f] = dir[f]}
     ELSE remote' \in Edited(remote) /\ UNCHANGED <<dir, steady>>
  /\ UNCHANGED <<fixed, phase, reload, target, reads, registry, faults, restarts>>

\* initStore: NewGitStore clones, or pulls what was cloned before; without the
\* repository the process ends.
InitStore ==
  /\ phase = "init"
  /\ \/ /\ phase' = "up" /\ UNCHANGED faults
        /\ dir' = IF mode = "git" THEN remote ELSE dir
     \/ mode = "git" /\ Fault /\ phase' = "down" /\ UNCHANGED dir
  /\ UNCHANGED <<fixed, remote, reload, target, reads, registry, edits, restarts, steady>>

\* Everything but the files is in memory.
Restart ==
  /\ phase # "init" /\ restarts < MaxRestarts /\ restarts' = restarts + 1
  /\ phase' = "init" /\ reload' = "wait" /\ target' = None
  /\ pc' = [r \in Readers |-> "idle"]
  /\ entries' = [r \in Readers |-> {}] /\ found' = [r \in Readers |-> << >>]
  /\ activeSources' = {} /\ activeOperators' = [t \in Targets |-> None] /\ steady' = {}
  /\ UNCHANGED <<files, edits, faults>>

-----------------------------------------------------------------------------
\* FileStore.load: the entries, and one after the other what parses.
Begin(r) ==
  /\ pc' = [pc EXCEPT ![r] = "reading"]
  /\ entries' = [entries EXCEPT ![r] = {f \in Files : dir[f] # None}]
  /\ found' = [found EXCEPT ![r] = << >>]

Rest_UntilBroken(r, f, m) == IF m = Broken THEN {} ELSE entries[r] \ {f}
Rest(r, f, m) == entries[r] \ {f}

\* A file that is gone, cannot be opened or does not parse is passed over.
ReadFile(r) ==
  /\ phase = "up" /\ pc[r] = "reading" /\ entries[r] # {}
  /\ LET f == Min(entries[r])
     IN /\ \/ /\ found' = [found EXCEPT ![r] =
                    IF dir[f] \in Manifests THEN Append(@, dir[f]) ELSE @]
              /\ UNCHANGED <<faults, steady>>
           \/ /\ Fault /\ steady' = IF r = "ticker" THEN steady \ {f} ELSE steady
              /\ UNCHANGED found
        /\ entries' = [entries EXCEPT ![r] = Rest(r, f, dir[f])]
  /\ UNCHANGED <<files, phase, reload, target, pc, registry, edits, restarts>>

Loaded(r) == phase = "up" /\ pc[r] = "reading" /\ entries[r] = {}
Ends(r) ==
  /\ pc' = [pc EXCEPT ![r] = "idle"] /\ UNCHANGED entries
  /\ found' = [found EXCEPT ![r] = << >>]

-----------------------------------------------------------------------------
\* The ticker, at start and every minute.  A directory that cannot be read ends one
\* half of the reload.
Tick ==
  /\ phase = "up" /\ reload = "wait" /\ reload' = "sources"
  /\ UNCHANGED <<files, phase, target, reads, registry, bounds, steady>>

List ==
  /\ phase = "up" /\ reload # "wait" /\ pc["ticker"] = "idle"
  /\ \/ /\ Begin("ticker") /\ steady' = {f \in Files : dir[f] # None}
        /\ UNCHANGED <<reload, faults>>
     \/ /\ Fault /\ reload' = IF reload = "sources" THEN "targets" ELSE "wait"
        /\ UNCHANGED <<reads, steady>>
  /\ UNCHANGED <<files, phase, target, registry, edits, restarts>>

\* The places of the manifests of a name in what was read.
Of(r, n) == {i \in DOMAIN found[r] : found[r][i].name = n}

\* AddIdentitySource of those that are new, unless one cannot be initialised;
\* RemoveIdentitySource of those that were not found.  Of the new ones one at most cannot be.
ReloadSources ==
  /\ reload = "sources" /\ Loaded("ticker")
  /\ LET named == {s \in Sources : Of("ticker", s) # {}}
     IN \/ activeSources' = named /\ UNCHANGED faults
        \/ Fault /\ \E s \in named \ activeSources : activeSources' = named \ {s}
  /\ reload' = "targets" /\ Ends("ticker")
  /\ UNCHANGED <<files, phase, target, activeOperators, edits, restarts, steady>>

\* AddSyncTarget refuses a target whose source is not active; of several manifests of
\* one name the first that can be added is.  failing: the one that cannot be.
Kept_Forever(t) == activeOperators[t]
Kept(t) == IF Of("ticker", t) = {} THEN None ELSE activeOperators[t]
Added(t, failing) ==
  LET able == {i \in Of("ticker", t) \ failing : found["ticker"][i].src \in activeSources}
  IN IF able = {} THEN None ELSE found["ticker"][Min(able)]

ReloadTargets ==
  /\ reload = "targets" /\ Loaded("ticker")
  /\ \E failing \in {{}} \cup {{i} : i \in DOMAIN found["ticker"]} :
       /\ IF failing = {} THEN UNCHANGED faults ELSE Fault
       /\ activeOperators' = [t \in Targets |->
            IF activeOperators[t] = None THEN Added(t, failing) ELSE Kept(t)]
  \* An object that is removed is out of reach for the worker that refreshes it.
  /\ target' = IF target \in Targets /\ activeOperators'[target] = None THEN None ELSE target
  /\ reload' = "wait" /\ Ends("ticker")
  /\ UNCHANGED <<files, phase, activeSources, edits, restarts, steady>>

-----------------------------------------------------------------------------
\* A worker refreshes the manifest of one target (executeSingle), or of all
\* (executeBatch); one that cannot be read stays as it was.
Refresh ==
  /\ phase = "up" /\ pc["worker"] = "idle"
  /\ target' \in {t \in Targets : activeOperators[t] # None} \cup {"all"}
  /\ Begin("worker")
  /\ UNCHANGED <<files, phase, reload, registry, bounds, steady>>

\* loadManifestFromStore takes the first of a name, refreshAllTargetManifests the last.
One_First(t) == found["worker"][1]
One(t) == found["worker"][Min(Of("worker", t))]
Last(t) == found["worker"][Max(Of("worker", t))]

Publish ==
  /\ Loaded("worker")
  /\ activeOperators' = [t \in Targets |->
       IF activeOperators[t] = None \/ Of("worker", t) = {} THEN activeOperators[t]
       ELSE IF target = "all" THEN Last(t)
       ELSE IF target = t THEN One(t) ELSE activeOperators[t]]
  /\ target' = None /\ Ends("worker")
  /\ UNCHANGED <<files, phase, reload, activeSources, bounds, steady>>

-----------------------------------------------------------------------------
Ticker == Tick \/ List \/ ReadFile("ticker") \/ ReloadSources \/ ReloadTargets
Worker == Refresh \/ ReadFile("worker") \/ Publish

STNext == STEdit \/ InitStore \/ Restart \/ Ticker \/ Worker

-----------------------------------------------------------------------------
\* A reload does not remove a source or a target whose manifest lay in one file all the
\* time, whatever else changes, is broken or disappears; its caches and its connection
\* would go with it.  The exceptions are a file that is edited in place or renamed between
\* the listing and the end of the reload, which may be read in the middle of the edit,
\* and one that could not be opened, which load does not tell from one that is not
\* there (file.go:48).
KeepsDeclared ==
  [][phase' = "up" =>
       \A f \in steady : dir[f] \in Manifests =>
         LET m == dir[f] IN
         /\ m.kind = "source" /\ m.name \in activeSources => m.name \in activeSources'
         /\ m.kind = "target" /\ activeOperators[m.name] # None => activeOperators'[m.name] # None]_STvars

\* What the files declare.
DeclaredSources == {s \in Sources : \E f \in Files : dir[f] # None /\ dir[f].kind = "source" /\ dir[f].name = s}
DeclaredAs(t) == {dir[f] : f \in {g \in Files : dir[g] # None /\ dir[g].kind = "target" /\ dir[g].name = t}}

\* The registry is what the files say: a target that is not there any more is not
\* active, one whose source is there is, and with the manifest of its file, if there is
\* only one.
UpToDate ==
  /\ activeSources = DeclaredSources
  /\ \A t \in Targets :
       /\ DeclaredAs(t) = {} => activeOperators[t] = None
       /\ (\E m \in DeclaredAs(t) : m.src \in DeclaredSources) => activeOperators[t] # None
       /\ activeOperators[t] # None => activeOperators[t] \in DeclaredAs(t)

\* Once nobody edits the files any more, every manifest gets to the registry and stays.
FilesAreFollowed == <>[](phase = "up" => UpToDate)
===============================================================================
