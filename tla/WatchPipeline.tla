---------------------------- MODULE WatchPipeline ----------------------------
(***************************************************************************)
(* One repository under livedocs watch: the watcher (watch/watcher.go)     *)
(* polls HEAD and runs the incremental pipeline (pipeline/pipeline.go)     *)
(* from the last commit it indexed to HEAD; the pipeline tombstones the    *)
(* deleted files, widens the changed ones by their importers, and extracts *)
(* each file its content-hash cache (cache/sqlite.go) does not know into   *)
(* the claims database (db/claims.go).  The commit reached is remembered   *)
(* in memory and then in the state file, which the watchers of other       *)
(* repositories rewrite as well (cmd/livedocs/watch_cmd.go, watch/state.go).*)
(*                                                                         *)
(* The repository moves on its own: commits appear, history is rewritten,  *)
(* objects are pruned, and files are read from wherever HEAD then is.      *)
(*                                                                         *)
(* History variables (not in the code): failed and crashes.                *)
(***************************************************************************)
EXTENDS Naturals, FiniteSets

CONSTANTS
  Files,
  Contents,    \* contents a file can have, identified by their hash
  Absent,      \* the file does not exist
  Commits,
  None,        \* no commit: lastSHA is empty
  Sites,       \* the repositories and the ways they are watched
  Root,        \* HEAD when the watcher starts for the first time
  Imports,     \* [Files -> SUBSET Files]: the import claims of a file
  Keyed,       \* what a claim shares with the delete and lookup of its file
  MaxPushes,   \* bound: moves of HEAD
  MaxCrashes   \* bound: restarts of the process

Site ==
  [tree      : [Commits -> [Files -> Contents \cup {Absent}]],
   ancestors : [Commits -> SUBSET Commits],   \* each commit included
   local     : BOOLEAN,      \* a clone on disk, or a remote FileSource
   faults    : SUBSET {"force", "prune", "file", "tombstone", "lookup", "tx",
                       "save", "load", "crash"}]

ASSUME RepositoryAssumption ==
  /\ Absent \notin Contents
  /\ None \notin Commits
  /\ Root \in Commits
  /\ Sites \subseteq Site
  /\ \A s \in Sites, c \in Commits :
       /\ c \in s.ancestors[c]
       /\ \A d \in s.ancestors[c] : s.ancestors[d] \subseteq s.ancestors[c]
  /\ Imports \in [Files -> SUBSET Files]
  /\ Keyed \subseteq {"name", "path"}
  /\ MaxPushes \in Nat /\ MaxCrashes \in Nat

VARIABLES
  site,     \* the site the watcher runs at: chosen once
  head,     \* the commit HEAD names; the files on disk are its tree
  pruned,   \* commits git no longer has
  pushes,   \* moves of HEAD so far
  rows,     \* claims of a file, by the contents they were extracted from
  sources,  \* source_files: not there, live, or tombstoned
  cache,    \* the content-hash cache
  last,     \* lastSHA of Watcher.Run
  memory,   \* the SHA in the State the watchers share
  other,    \* the SHA in another watcher's temporary state file, if there is one
  saved,    \* the SHA in the state file
  run,      \* Pipeline.Run under way
  failed,   \* history: files whose last processing ended in an error
  crashes   \* history: restarts so far

repository == <<site, head, pruned, pushes>>
index      == <<rows, sources, cache>>
state      == <<memory, other, saved>>
history    == <<failed, crashes>>
vars == <<site, head, pruned, pushes, rows, sources, cache, last, memory,
          other, saved, run, failed, crashes>>

Tree      == site.tree
Ancestors == site.ancestors
Local     == site.local
Faults    == site.faults
-----------------------------------------------------------------------------
Entry  == [hash : Contents \cup {Absent}, deleted : BOOLEAN]   \* Absent: no row
NoEntry == [hash |-> Absent, deleted |-> FALSE]

Run ==
  [stage : {"idle", "delete", "files", "save", "rename"},
   to    : Commits \cup {None},
   gone  : SUBSET Files,                       \* deleted paths to tombstone
   todo  : SUBSET Files,                       \* changed paths to process
   text  : [Files -> Contents \cup {Absent}]]  \* read so far; Absent: unread

Idle == [stage |-> "idle", to |-> None, gone |-> {}, todo |-> {},
         text |-> [f \in Files |-> Absent]]

TypeOK ==
  /\ site \in Sites /\ head \in Commits /\ pruned \subseteq Commits
  /\ pushes \in 0 .. MaxPushes /\ crashes \in 0 .. MaxCrashes
  /\ rows \in [Files -> SUBSET Contents]
  /\ sources \in [Files -> {"unknown", "live", "deleted"}]
  /\ cache \in [Files -> Entry]
  /\ {last, memory, saved} \cup other \subseteq Commits \cup {None}
  /\ failed \subseteq Files
  /\ run \in Run
  /\ \A f \in Files : run.text[f] # Absent => f \in run.todo
  /\ run.stage \in {"idle", "save", "rename"} => run = [Idle EXCEPT !.stage = run.stage]

Init ==
  /\ site \in Sites
  /\ head = Root
  /\ pruned = {}
  /\ pushes = 0
  /\ rows = [f \in Files |-> {}]
  /\ sources = [f \in Files |-> "unknown"]
  /\ cache = [f \in Files |-> NoEntry]
  /\ last = None
  /\ memory = None /\ other = {} /\ saved = None
  /\ run = Idle
  /\ failed = {}
  /\ crashes = 0
-----------------------------------------------------------------------------
(* The repository *)

Fault(kind) == kind \in Faults

\* HEAD moves: a pull, or with a rewritten history a force-push or reset.
Push(c) ==
  /\ pushes < MaxPushes
  /\ c # head /\ c \notin pruned
  /\ head \in Ancestors[c] \/ Fault("force")
  /\ head' = c
  /\ pushes' = pushes + 1
  /\ UNCHANGED <<site, pruned, index, last, state, run, history>>

\* git forgets the commits that HEAD does not reach.
Prune ==
  /\ Fault("prune")
  /\ pruned' = Commits \ Ancestors[head]
  /\ pruned' # pruned
  /\ UNCHANGED <<site, head, pushes, index, last, state, run, history>>
-----------------------------------------------------------------------------
(* Watcher.check and the diff *)
\* A git command or a diff that fails leaves everything as it was, and the
\* next tick tries again: a failed check is a check not taken.

\* gitdiff between two commits; the empty tree lists every file as added.
Deleted(from, to) ==
  IF from = None THEN {}
  ELSE {f \in Files : Tree[from][f] # Absent /\ Tree[to][f] = Absent}

Changed(from, to) ==
  {f \in Files : /\ Tree[to][f] # Absent
                 /\ from # None => Tree[from][f] # Tree[to][f]}

\* The ancestor check fails with an error when git lost the commit; the remote
\* GitOps answers yes without asking.
Answers(from) == Local => from \notin pruned
IsAncestor(from, to) == Local => from \in Ancestors[to]

\* Mutant: the SHA is set before the pipeline has run.
CheckRemembers ==
  /\ run.stage = "idle"
  /\ head # last
  /\ last = None \/ Answers(last)
  /\ LET from == IF last # None /\ IsAncestor(last, head) THEN last ELSE None
     IN  run' = [Idle EXCEPT !.stage = "delete", !.to = head,
                             !.gone = Deleted(from, head), !.todo = Changed(from, head)]
  /\ memory' = head
  /\ UNCHANGED <<repository, index, last, other, saved, history>>

\* HEAD moved: diff it against the last commit indexed, or against nothing
\* when there is none or it is no ancestor of HEAD.
Check ==
  /\ run.stage = "idle"
  /\ head # last
  /\ last = None \/ Answers(last)
  /\ LET from == IF last # None /\ IsAncestor(last, head) THEN last ELSE None
     IN  run' = [Idle EXCEPT !.stage = "delete", !.to = head,
                             !.gone = Deleted(from, head), !.todo = Changed(from, head)]
  /\ UNCHANGED <<repository, index, last, state, history>>
-----------------------------------------------------------------------------
(* Pipeline.Run *)

\* Mutant: only the cache learns of the deletion.
MarkDeletedCached(f) ==
  /\ run.stage = "delete"
  /\ f \in run.gone
  /\ run' = [run EXCEPT !.gone = @ \ {f}]
  /\ cache' = [cache EXCEPT ![f].deleted = cache[f].hash # Absent]
  /\ failed' = failed \ {f}
  /\ UNCHANGED <<repository, rows, sources, last, state, crashes>>

\* markDeleted: a tombstone in the cache and one in the claims database; the
\* file's claims stay.
MarkDeleted(f) ==
  /\ run.stage = "delete"
  /\ f \in run.gone
  /\ run' = [run EXCEPT !.gone = @ \ {f}]
  /\ cache' = [cache EXCEPT ![f].deleted = cache[f].hash # Absent]
  /\ sources' = [sources EXCEPT ![f] = IF @ = "unknown" THEN @ ELSE "deleted"]
  /\ failed' = failed \ {f}
  /\ UNCHANGED <<repository, rows, last, state, crashes>>

\* One of its statements fails: the error is collected and the run goes on.
MarkDeletedFails(f) ==
  /\ Fault("tombstone")
  /\ run.stage = "delete"
  /\ f \in run.gone
  /\ run' = [run EXCEPT !.gone = @ \ {f}]
  /\ \/ UNCHANGED cache
     \/ cache' = [cache EXCEPT ![f].deleted = cache[f].hash # Absent]
  /\ failed' = failed \cup {f}
  /\ UNCHANGED <<repository, rows, sources, last, state, crashes>>

\* Files whose import claims name a file with claims among the changed ones.
\* The lookup matches claims by relative path.
ReverseDeps(changed) ==
  IF "path" \notin Keyed THEN {}
  ELSE {g \in Files \ changed :
          rows[g] # {} /\ \E f \in changed : rows[f] # {} /\ f \in Imports[g]}

\* The extraction set is widened by the importers; a failed lookup is logged.
ExpandDeps ==
  /\ run.stage = "delete"
  /\ run.gone = {}
  /\ \E deps \in {ReverseDeps(run.todo)} \cup (IF Fault("lookup") THEN {{}} ELSE {}) :
       run' = [run EXCEPT !.stage = "files", !.todo = @ \cup deps]
  /\ UNCHANGED <<repository, index, last, state, history>>

\* A clone's files are read one at a time, each where HEAD is now.
ReadFile(f) ==
  /\ Local
  /\ run.stage = "files"
  /\ f \in run.todo
  /\ \A g \in run.todo : run.text[g] = Absent
  /\ Tree[head][f] # Absent
  /\ run' = [run EXCEPT !.text[f] = Tree[head][f]]
  /\ UNCHANGED <<repository, index, last, state, history>>

\* BatchReadFiles: the read_file calls of a remote source run side by side and
\* ahead of the loop, with no revision: each answers with what HEAD is then.
ReadAhead(f) ==
  /\ ~Local
  /\ run.stage = "files"
  /\ f \in run.todo /\ run.text[f] = Absent
  /\ Tree[head][f] # Absent
  /\ run' = [run EXCEPT !.text[f] = Tree[head][f]]
  /\ UNCHANGED <<repository, index, last, state, history>>

\* SQLiteStore.Hit
Hit(f) ==
  run.text[f] # Absent /\ cache[f].hash = run.text[f] /\ ~cache[f].deleted

CacheHit(f) ==
  /\ run.stage = "files"
  /\ f \in run.todo
  /\ Hit(f)
  /\ run' = [run EXCEPT !.todo = @ \ {f}, !.text[f] = Absent]
  /\ UNCHANGED <<repository, index, last, state, history>>

\* What the extractor reads: from a clone it opens the path again.
Source(f) == IF Local THEN Tree[head][f] ELSE run.text[f]

\* Mutant: the old claims of the file are not deleted.
StoredOver(f) == rows' = [rows EXCEPT ![f] = @ \cup {Source(f)}]

\* The transaction: old claims out, new ones in.  The delete matches claims by
\* extractor name and relative path, and leaves those that carry another.
Stored(f) ==
  rows' = [rows EXCEPT ![f] = {r \in @ : Keyed # {"name", "path"}} \cup {Source(f)}]

Put(f) == cache' = [cache EXCEPT ![f] = [hash |-> run.text[f], deleted |-> FALSE]]

StoreFile(f) ==
  /\ run.stage = "files"
  /\ f \in run.todo /\ run.text[f] # Absent /\ ~Hit(f)
  /\ Source(f) # Absent
  /\ Stored(f)
  /\ Put(f)
  /\ sources' = [sources EXCEPT ![f] = "live"]
  /\ run' = [run EXCEPT !.todo = @ \ {f}, !.text[f] = Absent]
  /\ failed' = failed \ {f}
  /\ UNCHANGED <<repository, last, state, crashes>>

\* The transaction fails and is rolled back.  The cache is another database:
\* an entry put before the failure stays.
StoreFails(f) ==
  /\ Fault("tx")
  /\ run.stage = "files"
  /\ f \in run.todo /\ run.text[f] # Absent /\ ~Hit(f)
  /\ UNCHANGED cache \/ Put(f)
  /\ run' = [run EXCEPT !.todo = @ \ {f}, !.text[f] = Absent]
  /\ failed' = failed \cup {f}
  /\ UNCHANGED <<repository, rows, sources, last, state, crashes>>

\* The file cannot be read or extracted: the error is collected.
FileFails(f) ==
  /\ run.stage = "files"
  /\ f \in run.todo
  /\ run.text[f] # Absent => ~Hit(f) /\ (Local \/ Fault("file"))
  /\ Tree[head][f] = Absent \/ Fault("file")
  /\ run' = [run EXCEPT !.todo = @ \ {f}, !.text[f] = Absent]
  /\ failed' = failed \cup {f}
  /\ UNCHANGED <<repository, index, last, state, crashes>>

\* Mutant: the watcher goes on with the commit it had.
FinishForgets ==
  /\ run.stage = "files"
  /\ run.todo = {}
  /\ run' = [Idle EXCEPT !.stage = "save"]
  /\ UNCHANGED <<repository, index, last, state, history>>

\* Pipeline.Run returns, collected errors and all; the watcher moves on.
Finish ==
  /\ run.stage = "files"
  /\ run.todo = {}
  /\ last' = run.to
  /\ run' = [Idle EXCEPT !.stage = "save"]
  /\ UNCHANGED <<repository, index, state, history>>

\* SetSHA, and SaveState writes a temporary file of what it marshals.
SetSHA ==
  /\ run.stage = "save"
  /\ memory' = last
  /\ run' = [Idle EXCEPT !.stage = "rename"]
  /\ UNCHANGED <<repository, index, last, other, saved, history>>

\* SaveState renames it over the state file.
SaveState ==
  /\ run.stage = "rename"
  /\ saved' = last
  /\ run' = Idle
  /\ UNCHANGED <<repository, index, last, memory, other, history>>

SaveStateFails ==
  /\ Fault("save")
  /\ run.stage = "rename"
  /\ run' = Idle
  /\ UNCHANGED <<repository, index, last, state, history>>

\* The watcher of another repository saves the State they share: the lock is
\* held while it marshals, and no longer when it renames.
OtherMarshals ==
  /\ other = {}
  /\ other' = {memory}
  /\ UNCHANGED <<repository, index, last, memory, saved, run, history>>

OtherRenames ==
  /\ other # {}
  /\ saved' \in other
  /\ other' = {}
  /\ UNCHANGED <<repository, index, last, memory, run, history>>

\* What a start of the process resumes from; a file that cannot be read is an
\* empty State.
LoadState(sha) ==
  /\ sha = saved \/ (Fault("load") /\ sha = None)
  /\ memory' = sha
  /\ last' = sha

\* Mutant: the watcher resumes from HEAD, not from the state file.
CrashResumesAtHead ==
  /\ Fault("crash") /\ crashes < MaxCrashes
  /\ crashes' = crashes + 1
  /\ run' = Idle
  /\ cache' = [f \in Files |-> NoEntry]
  /\ last' = head /\ memory' = head
  /\ other' = {}
  /\ UNCHANGED <<repository, rows, sources, saved, failed>>

\* The process is killed or interrupted and started again: the claims database
\* and the state file are left, the cache was in memory.
Crash ==
  /\ Fault("crash") /\ crashes < MaxCrashes
  /\ crashes' = crashes + 1
  /\ run' = Idle
  /\ cache' = [f \in Files |-> NoEntry]
  /\ \E sha \in {saved, None} : LoadState(sha)
  /\ other' = {}
  /\ UNCHANGED <<repository, rows, sources, saved, failed>>

Watcher ==
  \/ Check
  \/ ExpandDeps
  \/ Finish
  \/ SetSHA
  \/ SaveState
  \/ \E f \in Files : \/ MarkDeleted(f) \/ ReadFile(f) \/ ReadAhead(f) \/ CacheHit(f)
                      \/ StoreFile(f) \/ FileFails(f)

Failure ==
  \/ SaveStateFails
  \/ \E f \in Files : MarkDeletedFails(f) \/ StoreFails(f)

Next ==
  \/ \E c \in Commits : Push(c)
  \/ Prune
  \/ Watcher
  \/ Failure
  \/ OtherMarshals \/ OtherRenames
  \/ Crash

\* The ticker fires, git answers in the end, and every step of the watcher's
\* goroutine ends.
Fairness == WF_vars(Watcher)

Spec == Init /\ [][Next]_vars
FairSpec == Spec /\ Fairness
-----------------------------------------------------------------------------
(* Properties *)

\* The watcher has nothing to do: HEAD is the commit it indexed last.
AtRest == run.stage = "idle" /\ last = head

\* HEAD never goes back, and no file gets a content again that it had lost: a
\* file read ahead of the commit its run indexes up to is not in the next diff
\* when the content of that commit is back by then.
HistoryGrows ==
  /\ "force" \notin Faults
  /\ \A e \in Commits : \A d \in Ancestors[e] : \A c \in Ancestors[d] : \A f \in Files :
       Tree[c][f] = Tree[e][f] => Tree[d][f] = Tree[e][f]

\* With such a history, at rest the claims of every file of HEAD are
\* those of its content there, and no others, unless the pipeline reported an
\* error for the file: after races of reads with pushes, failed saves and
\* restarts.
ContentCurrent ==
  AtRest /\ HistoryGrows =>
    \A f \in Files \ failed : Tree[head][f] # Absent =>
      /\ sources[f] = "live"
      /\ rows[f] = {Tree[head][f]}

\* With such a history and before the first restart, at rest no file that HEAD
\* lacks is live in the index, unless its tombstone failed.  A restart loses the
\* deletions of files indexed after the last save.
NoGhosts ==
  AtRest /\ HistoryGrows /\ crashes = 0 =>
    \A f \in Files \ failed : Tree[head][f] = Absent => sources[f] # "live"

\* What lets a cache hit skip a file: the claims stored for the file are those
\* of the content in its cache entry (processFile's transaction), unless its
\* last transaction failed.  A clone reads the file once for the hash and once
\* for the claims, and a push in between parts them.
CacheHonest ==
  ~Local => \A f \in Files \ failed : cache[f].hash # Absent /\ ~cache[f].deleted =>
    rows[f] = {cache[f].hash}

\* What a restart resumes from was indexed: with such a history the state file
\* never names a commit ahead of the watcher, although another watcher can
\* publish what this one has in memory at any time, and rename an older state
\* over a newer one (watch/state.go:55-90).  Behind it may be: then a restart
\* indexes again.
ResumeIndexed ==
  HistoryGrows /\ None \notin {saved, last} => saved \in Ancestors[last]

\* Once HEAD settles the watcher catches up with it.
CatchesUp == <>[](last = head)
=============================================================================
